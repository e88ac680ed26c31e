--------------------------- MODULE StoreGateProofs ----------------------------
(***************************************************************************)
(* Machine-checked facts about what is durable behind a mutation: the      *)
(* Evidence store, for any number of Runs, identities, contents and        *)
(* appends, whichever of them die and wherever a line is cut; and the      *)
(* reference gate, for any number of calls, actions, keys and Runs,        *)
(* whatever is undone or revoked meanwhile.                                *)
(***************************************************************************)
EXTENDS EvidenceStore, ReferenceGate, TLAPS

(* The Evidence store.                                                     *)

Inside == {"looking", "writing", "reading", "binding", "leaving"}

NoEvent(i) == \A k \in DOMAIN log[EvidenceRunOf[i]] : log[EvidenceRunOf[i]][k].id # i

\* Whoever is between lock and release is the only one there.
LockInv == \A a \in Appends : doing[a] \in Inside => held[RunIn(a)] = a

\* What an append has seen still holds when it acts on it.
Seen(a) ==
  LET i == request[a].id IN
    /\ doing[a] = "writing" => kept[i] = NoRecord
    /\ doing[a] \in {"reading", "binding"} => kept[i] = request[a].body /\ NoEvent(i)
    /\ doing[a] = "binding" => previous[a] = Len(log[RunIn(a)])

SeenInv == \A a \in Appends : Seen(a)

\* Every line is in the log of its Run, behind its predecessor, binds the record that
\* is there, and is the only one of its identity.
LogInv ==
  \A r \in EvidenceRuns : \A k \in DOMAIN log[r] :
    /\ log[r][k].previous = k - 1
    /\ EvidenceRunOf[log[r][k].id] = r
    /\ kept[log[r][k].id] = log[r][k].body
    /\ \A l \in DOMAIN log[r] : log[r][l].id = log[r][k].id => l = k

\* An answer stays true.
Answered(a) ==
  LET i == request[a].id IN
    /\ answer[a] \in {"created", "present"} => kept[i] = request[a].body
    /\ answer[a] = "created" => tail[RunIn(a)] = "part" \/ ~NoEvent(i)

AnswerInv == \A a \in Appends : Answered(a)

StoreInv == StoreTypeOK /\ LockInv /\ SeenInv /\ LogInv /\ AnswerInv

\* What an append asks for is typed.
LEMMA RequestTyped ==
  ASSUME StoreTypeOK, NEW a \in Appends
  PROVE  request[a].id \in Ids /\ request[a].body \in Bodies /\ RunIn(a) \in EvidenceRuns
<1>1. request[a] \in [id : Ids, body : Bodies] BY EvidenceConstants DEF StoreTypeOK
<1> QED BY <1>1, EvidenceConstants DEF RunIn

\* The invariant of the store holds at first,
LEMMA InitStore == StoreInit => StoreInv
<1> SUFFICES ASSUME StoreInit PROVE StoreInv OBVIOUS
<1>1. StoreTypeOK BY DEF StoreInit, StoreTypeOK, StoreSteps, Replies
<1>2. \A r \in EvidenceRuns : DOMAIN log[r] = {} BY DEF StoreInit
<1>3. LogInv BY <1>2 DEF LogInv
<1> QED BY <1>1, <1>3 DEF StoreInit, StoreInv, LockInv, SeenInv, Seen, AnswerInv,
                       Answered, Inside

-----------------------------------------------------------------------------
\* A step that leaves records and log alone, moves one append on, and gives the lock to
\* nobody else: what it must say of the place it moves to.
LEMMA Quiet ==
  ASSUME StoreInv, StoreTypeOK', NEW a \in Appends, UNCHANGED <<request, kept, log>>,
         \A b \in Appends \ {a} : /\ doing'[b] = doing[b] /\ answer'[b] = answer[b]
                                  /\ previous'[b] = previous[b],
         \A r \in EvidenceRuns : tail[r] = "part" => tail'[r] = "part",
         LockInv', Seen(a)', Answered(a)'
  PROVE  StoreInv'
<1>1. \A b \in Appends \ {a} : Seen(b) => Seen(b)' BY DEF Seen, NoEvent, RunIn
<1>2. SeenInv' BY <1>1 DEF StoreInv, SeenInv
<1>3. LogInv' BY DEF StoreInv, LogInv
<1>4. \A b \in Appends \ {a} : Answered(b) => Answered(b)'
  BY RequestTyped DEF Answered, NoEvent, RunIn, StoreInv
<1>5. AnswerInv' BY <1>4 DEF StoreInv, AnswerInv
<1> QED BY <1>2, <1>3, <1>5 DEF StoreInv

\* No step leaves the types.
LEMMA StoreStepTyped == StoreTypeOK /\ [StoreNext]_storeVars => StoreTypeOK'
<1> SUFFICES ASSUME StoreTypeOK, [StoreNext]_storeVars PROVE StoreTypeOK'
  OBVIOUS
<1> USE DEF StoreTypeOK, StoreSteps, Replies, Move, Reply
<1>1. ASSUME NEW a \in Appends, AppendStep(a) \/ CrashAppending(a) PROVE StoreTypeOK'
  <2>1. request[a].id \in Ids /\ request[a].body \in Bodies /\ RunIn(a) \in EvidenceRuns
    BY RequestTyped
  <2>2. ASSUME NEW end \in {"line", "open", "part"}, Line(a, end)
        PROVE  log' \in [EvidenceRuns -> Seq(Event)] /\ tail' \in [EvidenceRuns -> {"line", "open", "part"}]
    <3>1. Binding(a) \in Event BY <2>1 DEF Binding, Event
    <3>2. Append(log[RunIn(a)], Binding(a)) \in Seq(Event) BY <2>1, <3>1
    <3> HIDE DEF Move, Reply
    <3> QED BY <2>1, <2>2, <3>2 DEF Line
  <2>3. CASE Lock(a) BY <2>1, <2>3 DEF Lock
  <2>4. CASE Look(a) BY <2>1, <2>4 DEF Look
  <2>5. CASE WriteRecord(a)
    <3>1. kept' \in [Ids -> Bodies \union {NoRecord}] BY <2>1, <2>5 DEF WriteRecord
    <3>2. doing' \in [Appends -> StoreSteps] /\ answer' \in [Appends -> Replies] BY <2>5 DEF WriteRecord
    <3> QED BY <2>5, <3>1, <3>2 DEF WriteRecord
  <2>6. CASE Read(a)
    <3>1. previous' \in [Appends -> Nat]
      <4>1. Len(log[RunIn(a)]) \in Nat BY <2>1
      <4> QED BY <2>6, <4>1 DEF Read
    <3>2. doing' \in [Appends -> StoreSteps] /\ answer' \in [Appends -> Replies] BY <2>6 DEF Read
    <3> QED BY <2>6, <3>1, <3>2 DEF Read
  <2>7. CASE Bind(a)
    <3>1. (log' \in [EvidenceRuns -> Seq(Event)] /\ tail' \in [EvidenceRuns -> {"line", "open", "part"}])
      BY <2>2, <2>7 DEF Bind
    <3> QED BY <2>7, <3>1 DEF Bind
  <2>8. CASE Leave(a) BY <2>1, <2>8 DEF Leave
  <2>9. CASE CrashAppending(a)
    <3>1. (log' \in [EvidenceRuns -> Seq(Event)] /\ tail' \in [EvidenceRuns -> {"line", "open", "part"}])
      BY <2>2, <2>9 DEF CrashAppending
    <3> QED BY <2>1, <2>9, <3>1 DEF CrashAppending
  <2> QED BY <1>1, <2>3, <2>4, <2>5, <2>6, <2>7, <2>8, <2>9 DEF AppendStep
<1>2. CASE UNCHANGED storeVars BY <1>2 DEF storeVars
<1> QED BY <1>1, <1>2 DEF StoreNext

\* A line added by whoever holds the lock continues the chain and binds its record.
LEMMA LineAdded ==
  ASSUME StoreInv, NEW a \in Appends, doing[a] = "binding",
         log' = [log EXCEPT ![RunIn(a)] = Append(@, Binding(a))],
         UNCHANGED <<request, kept>>
  PROVE  /\ LogInv'
         /\ \A i \in Ids : NoEvent(i)' <=> NoEvent(i) /\ i # request[a].id
<1> DEFINE i == request[a].id  r == RunIn(a)  n == Len(log[r])
<1>1. i \in Ids /\ r \in EvidenceRuns /\ r = EvidenceRunOf[i] /\ log \in [EvidenceRuns -> Seq(Event)]
  BY RequestTyped DEF StoreInv, StoreTypeOK, RunIn
<1>2. kept[i] = request[a].body /\ NoEvent(i) /\ previous[a] = n
  BY DEF StoreInv, SeenInv, Seen
<1>3. /\ log[r] \in Seq(Event) /\ n \in Nat /\ DOMAIN log[r] = 1..n
      /\ log'[r] = Append(log[r], Binding(a))
      /\ \A s \in EvidenceRuns \ {r} : log'[s] = log[s]
  BY <1>1
<1>4. /\ DOMAIN log'[r] = 1..n + 1
      /\ \A k \in 1..n : log'[r][k] = log[r][k]
      /\ log'[r][n + 1] = Binding(a)
  BY <1>3
<1>5. Binding(a).id = i /\ Binding(a).body = request[a].body /\ Binding(a).previous = n
  BY <1>2 DEF Binding
<1> HIDE DEF i, r, n
<1>6. LogInv'
  <2> SUFFICES ASSUME NEW s \in EvidenceRuns, NEW k \in DOMAIN log'[s]
               PROVE  /\ log'[s][k].previous = k - 1
                      /\ EvidenceRunOf[log'[s][k].id] = s
                      /\ kept[log'[s][k].id] = log'[s][k].body
                      /\ \A l \in DOMAIN log'[s] : log'[s][l].id = log'[s][k].id => l = k
    BY DEF LogInv
  <2>1. CASE s # r
    BY <1>3, <2>1 DEF StoreInv, LogInv
  <2>2. CASE s = r
    <3>1. \A l \in 1..n : log[r][l].id # i
      BY <1>1, <1>2, <1>3 DEF NoEvent
    <3>2. CASE k = n + 1
      BY <1>1, <1>2, <1>3, <1>4, <1>5, <2>2, <3>1, <3>2
    <3>3. CASE k \in 1..n
      <4>1. /\ log[r][k].previous = k - 1 /\ EvidenceRunOf[log[r][k].id] = r
            /\ kept[log[r][k].id] = log[r][k].body
            /\ \A l \in 1..n : log[r][l].id = log[r][k].id => l = k
        BY <1>1, <1>3, <3>3 DEF StoreInv, LogInv
      <4> QED BY <1>3, <1>4, <1>5, <2>2, <3>1, <3>3, <4>1
    <3> QED BY <1>3, <1>4, <2>2, <3>2, <3>3
  <2> QED BY <2>1, <2>2
<1>7. ASSUME NEW j \in Ids PROVE NoEvent(j)' <=> NoEvent(j) /\ j # i
  <2>1. CASE EvidenceRunOf[j] # r
    <3>1. EvidenceRunOf[j] \in EvidenceRuns /\ j # i BY <1>1, <2>1, EvidenceConstants
    <3> QED BY <1>3, <2>1, <3>1 DEF NoEvent
  <2>2. CASE EvidenceRunOf[j] = r
    BY <1>3, <1>4, <1>5, <2>2 DEF NoEvent
  <2> QED BY <2>1, <2>2
<1> QED BY <1>6, <1>7 DEF i

\* The invariant is inductive: one case per action of append.
LEMMA StepStore == StoreInv /\ [StoreNext]_storeVars => StoreInv'
<1> SUFFICES ASSUME StoreInv, [StoreNext]_storeVars PROVE StoreInv'
  OBVIOUS
<1>1. StoreTypeOK' BY StoreStepTyped DEF StoreInv
<1>2. ASSUME NEW a \in Appends, AppendStep(a) \/ CrashAppending(a) PROVE StoreInv'
  <2> DEFINE i == request[a].id
  <2>1. i \in Ids /\ request[a].body \in Bodies /\ RunIn(a) \in EvidenceRuns
    BY RequestTyped DEF StoreInv
  <2>2. request' = request /\ RunIn(a)' = RunIn(a) /\ \A b \in Appends : RunIn(b)' = RunIn(b)
    BY <1>2 DEF AppendStep, Lock, Look, WriteRecord, Read, Bind, Leave, CrashAppending, RunIn
  <2>3. \A b \in Appends \ {a} : /\ doing'[b] = doing[b] /\ answer'[b] = answer[b]
                                  /\ previous'[b] = previous[b]
    BY <1>2 DEF AppendStep, Lock, Look, WriteRecord, Read, Bind, Leave, CrashAppending, Move, Reply, StoreInv, StoreTypeOK
  <2>4. LockInv'
    <3> USE DEF Move, Reply, LockInv, Inside, StoreInv, StoreTypeOK
    <3> DEFINE r == RunIn(a)
    <3>0. \A b \in Appends : RunIn(b) \in EvidenceRuns BY RequestTyped
    <3>1. CASE Lock(a)
      <4>1. /\ held[r] = Nobody /\ held'[r] = a /\ \A s \in EvidenceRuns \ {r} : held'[s] = held[s]
            /\ doing'[a] = "looking"
        BY <2>1, <3>1 DEF Lock
      <4>2. \A b \in Appends \ {a} : doing[b] \in Inside => RunIn(b) # r
        BY <4>1, EvidenceConstants
      <4> QED BY <2>2, <2>3, <3>0, <4>1, <4>2
    <3>2. CASE Look(a) BY <2>2, <3>2 DEF Look
    <3>3. CASE WriteRecord(a) BY <2>2, <3>3 DEF WriteRecord
    <3>4. CASE Read(a) BY <2>2, <3>4 DEF Read
    <3>5. CASE Bind(a) BY <2>2, <3>5 DEF Bind
    <3>6. CASE Leave(a) BY <2>1, <2>2, <3>6 DEF Leave
    <3>7. CASE CrashAppending(a)
      <4>1. doing'[a] = "dead" /\ \A s \in EvidenceRuns \ {r} : held'[s] = held[s]
        BY <2>1, <3>7 DEF CrashAppending
      <4>2. CASE doing[a] = "locking" BY <2>2, <2>3, <3>7, <4>1, <4>2 DEF CrashAppending
      <4>3. CASE doing[a] \in Inside
        <5>1. \A b \in Appends \ {a} : doing[b] \in Inside => RunIn(b) # r BY <4>3
        <5> QED BY <2>2, <2>3, <3>0, <4>1, <5>1
      <4> QED BY <3>7, <4>2, <4>3 DEF CrashAppending, StoreSteps
    <3> QED BY <1>2, <3>1, <3>2, <3>3, <3>4, <3>5, <3>6, <3>7 DEF AppendStep
  <2>5. ASSUME UNCHANGED <<kept, log>>, Seen(a)', Answered(a)',
               \A r \in EvidenceRuns : tail[r] = "part" => tail'[r] = "part"
        PROVE  StoreInv'
    BY <1>1, <2>2, <2>3, <2>4, <2>5, Quiet
  <2>6. Seen(a) /\ Answered(a) BY DEF StoreInv, SeenInv, AnswerInv
  <2>7. i \in Ids /\ kept[i] = NoRecord => NoEvent(i)
    <3> SUFFICES ASSUME kept[i] = NoRecord, NEW k \in DOMAIN log[EvidenceRunOf[i]],
                        log[EvidenceRunOf[i]][k].id = i
                 PROVE  FALSE
      BY DEF NoEvent
    <3>1. log[EvidenceRunOf[i]] \in Seq(Event) /\ EvidenceRunOf[i] \in EvidenceRuns
      BY <2>1, EvidenceConstants DEF StoreInv, StoreTypeOK
    <3>2. log[EvidenceRunOf[i]][k] \in Event BY <3>1
    <3>3. kept[i] = log[EvidenceRunOf[i]][k].body BY <3>1 DEF StoreInv, LogInv
    <3> QED BY <3>2, <3>3, EvidenceConstants DEF Event
  <2>16. ASSUME NEW b \in Appends \ {a}, doing[a] \in Inside, doing[b] \in Inside
         PROVE  request[b].id # i
    BY <2>16 DEF StoreInv, LockInv, RunIn
  <2>8. CASE Lock(a)
    <3>1. doing'[a] = "looking" /\ answer'[a] = answer[a] BY <2>8 DEF Lock, Move, StoreInv, StoreTypeOK
    <3>2. Seen(a)' BY <3>1 DEF Seen
    <3>3. Answered(a)' BY <2>2, <2>6, <2>8, <3>1 DEF Lock, Answered, NoEvent
    <3> QED BY <2>5, <2>8, <3>2, <3>3 DEF Lock
  <2>9. CASE Look(a)
    <3>1. /\ doing'[a] = "writing" => kept[i] = NoRecord
          /\ doing'[a] \notin {"reading", "binding"}
          /\ answer'[a] = answer[a] \/ (answer'[a] = "present" /\ kept[i] = request[a].body)
             \/ answer'[a] = "conflict"
      BY <2>9 DEF Look, Move, Reply, StoreInv, StoreTypeOK
    <3>2. Seen(a)' BY <2>2, <2>9, <3>1 DEF Look, Seen
    <3>3. Answered(a)' BY <2>2, <2>6, <2>9, <3>1 DEF Look, Answered, NoEvent
    <3> QED BY <2>5, <2>9, <3>2, <3>3 DEF Look
  <2>10. CASE Read(a)
    <3>1. /\ doing[a] = "reading" /\ doing'[a] \in {"binding", "leaving"}
          /\ doing'[a] = "binding" => previous'[a] = Len(log[RunIn(a)])
          /\ answer'[a] \in {answer[a], "failed"}
      BY <2>10 DEF Read, Move, Reply, StoreInv, StoreTypeOK
    <3>2. Seen(a)' BY <2>2, <2>6, <2>10, <3>1 DEF Read, Seen, NoEvent
    <3>3. Answered(a)' BY <2>2, <2>6, <2>10, <3>1 DEF Read, Answered, NoEvent
    <3> QED BY <2>5, <2>10, <3>2, <3>3 DEF Read
  <2>11. CASE Leave(a)
    <3>1. doing'[a] = "ended" /\ answer'[a] = answer[a] BY <2>11 DEF Leave, Move, StoreInv, StoreTypeOK
    <3>2. Seen(a)' BY <3>1 DEF Seen
    <3>3. Answered(a)' BY <2>2, <2>6, <2>11, <3>1 DEF Leave, Answered, NoEvent
    <3> QED BY <2>5, <2>11, <3>2, <3>3 DEF Leave
  <2>12. CASE WriteRecord(a)
    <3>1. doing[a] = "writing" /\ kept[i] = NoRecord /\ NoEvent(i)
      BY <2>1, <2>6, <2>7, <2>12 DEF WriteRecord, Seen
    <3>2. CASE UNCHANGED kept
      <4>1. doing'[a] = "leaving" /\ answer'[a] = "failed"
        BY <2>1, <2>12, <3>1, <3>2, EvidenceConstants DEF WriteRecord, Move, Reply, StoreInv, StoreTypeOK
      <4>2. Seen(a)' /\ Answered(a)' BY <4>1 DEF Seen, Answered
      <4> QED BY <2>5, <2>12, <3>2, <4>2 DEF WriteRecord
    <3>3. CASE kept' = [kept EXCEPT ![i] = request[a].body] /\ Move(a, "reading")
      <4>1. /\ kept'[i] = request[a].body /\ \A j \in Ids \ {i} : kept'[j] = kept[j]
            /\ doing'[a] = "reading" /\ \A b \in Appends : answer'[b] \in {answer[b], "failed"}
            /\ UNCHANGED <<log, tail>>
        BY <2>1, <2>12, <3>3 DEF WriteRecord, Move, Reply, StoreInv, StoreTypeOK
      <4>2. LogInv'
        <5> SUFFICES ASSUME NEW r \in EvidenceRuns, NEW k \in DOMAIN log[r]
                     PROVE  kept'[log[r][k].id] = kept[log[r][k].id]
          BY <4>1 DEF LogInv, StoreInv
        <5>1. log[r][k].id \in Ids /\ EvidenceRunOf[log[r][k].id] = r
          <6>1. log[r][k] \in Event BY DEF StoreInv, StoreTypeOK
          <6> QED BY <6>1 DEF StoreInv, LogInv, Event
        <5>2. log[r][k].id # i BY <3>1, <5>1 DEF NoEvent
        <5> QED BY <4>1, <5>1, <5>2
      <4>3. SeenInv'
        <5>1. Seen(a)' BY <2>2, <3>1, <4>1 DEF Seen, NoEvent
        <5>2. ASSUME NEW b \in Appends \ {a}, doing[b] \in {"writing", "reading", "binding"}
              PROVE  request[b].id # i
          BY <2>16, <3>1, <5>2 DEF Inside
        <5>3. ASSUME NEW b \in Appends \ {a} PROVE Seen(b)'
          <6>1. request[b].id \in Ids /\ Seen(b)
            BY RequestTyped DEF StoreInv, SeenInv
          <6> QED BY <2>2, <2>3, <4>1, <5>2, <6>1 DEF Seen, NoEvent
        <5> QED BY <5>1, <5>3 DEF SeenInv
      <4>4. AnswerInv'
        <5> SUFFICES ASSUME NEW b \in Appends PROVE Answered(b)' BY DEF AnswerInv
        <5>1. /\ request[b].id \in Ids /\ request[b].body \in Bodies /\ Answered(b)
          BY RequestTyped DEF StoreInv, AnswerInv
        <5>2. request[b].id = i => answer[b] \notin {"created", "present"}
          BY <3>1, <5>1, EvidenceConstants DEF Answered
        <5> QED BY <2>2, <4>1, <5>1, <5>2 DEF Answered, NoEvent
      <4> QED BY <1>1, <2>4, <4>2, <4>3, <4>4 DEF StoreInv
    <3> QED BY <2>12, <3>2, <3>3 DEF WriteRecord
  <2>13. ASSUME doing[a] = "binding", NEW end \in {"line", "open", "part"}, Line(a, end),
                UNCHANGED kept, doing'[a] \in {"leaving", "dead"},
                answer'[a] \in {"failed", answer[a]} \/ (answer'[a] = "created" /\ end = "line")
         PROVE  StoreInv'
    <3>1. kept[i] = request[a].body /\ NoEvent(i) /\ previous[a] = Len(log[RunIn(a)])
      BY <2>6, <2>13 DEF Seen
    <3>2. \A r \in EvidenceRuns : tail[r] = "part" => tail'[r] = "part"
      BY <2>1, <2>13 DEF Line, StoreInv, StoreTypeOK
    <3>3. CASE /\ UNCHANGED log /\ tail' = [tail EXCEPT ![RunIn(a)] = "part"]
      <4>1. Seen(a)' BY <2>13 DEF Seen
      <4>2. Answered(a)'
        <5>1. tail'[RunIn(a)] = "part" BY <2>1, <3>3 DEF StoreInv, StoreTypeOK
        <5> QED BY <2>2, <2>6, <2>13, <3>1, <5>1 DEF Answered
      <4> QED BY <2>5, <2>13, <3>2, <3>3, <4>1, <4>2
    <3>4. CASE log' = [log EXCEPT ![RunIn(a)] = Append(@, Binding(a))]
      <4>1. LogInv' /\ \A j \in Ids : NoEvent(j)' <=> NoEvent(j) /\ j # i
        BY <2>2, <2>13, <3>4, LineAdded
      <4>2. SeenInv'
        <5>1. ASSUME NEW b \in Appends \ {a} PROVE Seen(b)'
          <6>1. request[b].id \in Ids /\ RunIn(b) \in EvidenceRuns /\ Seen(b)
            BY RequestTyped DEF StoreInv, SeenInv
          <6>2. doing[b] \in Inside => request[b].id # i /\ RunIn(b) # RunIn(a)
            BY <2>13, <2>16 DEF StoreInv, LockInv, Inside
          <6>3. RunIn(b) # RunIn(a) => log'[RunIn(b)] = log[RunIn(b)]
            BY <2>1, <3>4, <6>1 DEF StoreInv, StoreTypeOK
          <6> QED BY <2>2, <2>3, <2>13, <4>1, <6>1, <6>2, <6>3 DEF Seen, Inside
        <5>2. Seen(a)' BY <2>13 DEF Seen
        <5> QED BY <5>1, <5>2 DEF SeenInv
      <4>3. AnswerInv'
        <5> SUFFICES ASSUME NEW b \in Appends PROVE Answered(b)' BY DEF AnswerInv
        <5>1. request[b].id \in Ids /\ RunIn(b) \in EvidenceRuns /\ Answered(b)
          BY RequestTyped DEF StoreInv, AnswerInv
        <5>2. CASE b = a BY <2>1, <2>2, <2>13, <3>1, <4>1, <5>2 DEF Answered
        <5>3. CASE b # a
          BY <2>2, <2>3, <2>13, <3>2, <4>1, <5>1, <5>3 DEF Answered
        <5> QED BY <5>2, <5>3
      <4> QED BY <1>1, <2>4, <4>1, <4>2, <4>3 DEF StoreInv
    <3> QED BY <2>13, <3>3, <3>4 DEF Line
  <2>17. ASSUME doing'[a] \in {"leaving", "dead"}, answer'[a] \in {"failed", answer[a]},
                UNCHANGED <<kept, log, tail>>
         PROVE  StoreInv'
    <3>1. Seen(a)' BY <2>17 DEF Seen
    <3>2. Answered(a)' BY <2>2, <2>6, <2>17 DEF Answered, NoEvent
    <3> QED BY <2>5, <2>17, <3>1, <3>2
  <2>14. CASE Bind(a)
    <3>1. doing'[a] = "leaving" /\ doing[a] = "binding" /\ UNCHANGED kept
      BY <2>14 DEF Bind, Move, Reply, StoreInv, StoreTypeOK
    <3>2. CASE Line(a, "line") /\ Reply(a, "created")
      <4>1. answer'[a] = "created" BY <3>2 DEF Reply, StoreInv, StoreTypeOK
      <4> QED BY <2>13, <3>1, <3>2, <4>1
    <3>3. CASE \E end \in {"line", "open", "part"} : Line(a, end) /\ Reply(a, "failed")
      <4>1. answer'[a] = "failed" BY <3>3 DEF Reply, StoreInv, StoreTypeOK
      <4> QED BY <2>13, <3>1, <3>3, <4>1
    <3>4. CASE Reply(a, "failed") /\ UNCHANGED <<log, tail>>
      <4>1. answer'[a] = "failed" BY <3>4 DEF Reply, StoreInv, StoreTypeOK
      <4> QED BY <2>17, <3>1, <3>4, <4>1
    <3> QED BY <2>14, <3>2, <3>3, <3>4 DEF Bind
  <2>15. CASE CrashAppending(a)
    <3>1. doing'[a] = "dead" /\ answer'[a] = answer[a] /\ UNCHANGED kept
      BY <2>15 DEF CrashAppending, Move, StoreInv, StoreTypeOK
    <3> QED BY <2>13, <2>15, <2>17, <3>1 DEF CrashAppending
  <2> QED BY <1>2, <2>8, <2>9, <2>10, <2>11, <2>12, <2>14, <2>15 DEF AppendStep
<1>3. CASE UNCHANGED storeVars
  <2>1. UNCHANGED <<LockInv, SeenInv, LogInv, AnswerInv>>
    BY <1>3 DEF storeVars, LockInv, SeenInv, Seen, LogInv, AnswerInv, Answered, NoEvent, RunIn
  <2> QED BY <1>1, <2>1 DEF StoreInv
<1> QED BY <1>2, <1>3 DEF StoreNext

-----------------------------------------------------------------------------
\* The variables of the store keep their types.
THEOREM StoreTypes == StoreSpec => []StoreTypeOK
<1>1. StoreInv => StoreTypeOK BY DEF StoreInv
<1> QED BY <1>1, InitStore, StepStore, PTL DEF StoreSpec

\* and so it always holds.
LEMMA InvariantHolds == StoreSpec => []StoreInv
BY InitStore, StepStore, PTL DEF StoreSpec

\* The events of an identity are in one place at most, in the log of its Run.
LEMMA EventsUnique ==
  ASSUME StoreInv, NEW i \in Ids
  PROVE  \A k, l \in EventsOf(i) : k = l /\ log[EvidenceRunOf[i]][k].body = kept[i]
<1>1. EvidenceRunOf[i] \in EvidenceRuns BY EvidenceConstants
<1> QED BY <1>1 DEF EventsOf, StoreInv, LogInv

\* The lines of every event log form one chain, however many processes append.
THEOREM ChainHolds == StoreSpec => []ChainUnbroken
<1>1. StoreInv => ChainUnbroken BY DEF StoreInv, LogInv, ChainUnbroken, Chained
<1> QED BY <1>1, InvariantHolds, PTL

\* No record is bound twice, and what is bound is what is there.
THEOREM BindingUnique == StoreSpec => []BoundOnce
<1>1. StoreInv => BoundOnce BY EventsUnique DEF BoundOnce
<1> QED BY <1>1, InvariantHolds, PTL

\* What there is to verify of an identity: its record, its event and a log that can be read.
Verifiable ==
  \A i \in Ids :
    kept[i] # NoRecord /\ ~NoEvent(i) /\ Readable(EvidenceRunOf[i]) => Verifies(i)

\* That is all there is to it.
LEMMA Verifying == StoreInv => Verifiable
<1> SUFFICES ASSUME StoreInv, NEW i \in Ids, kept[i] # NoRecord, ~NoEvent(i),
                    Readable(EvidenceRunOf[i])
             PROVE  Verifies(i)
  BY DEF Verifiable
<1>1. PICK k \in EventsOf(i) : TRUE BY DEF NoEvent, EventsOf
<1>2. EventsOf(i) = {k} /\ log[EvidenceRunOf[i]][k].body = kept[i]
  BY <1>1, EventsUnique
<1>3. Chained(EvidenceRunOf[i]) BY EvidenceConstants DEF StoreInv, LogInv, Chained
<1> QED BY <1>2, <1>3 DEF Verifies, Bound

\* Whatever append answered stays true: the content, and the event of a new record.
THEOREM AnswersHold == StoreSpec => []AnswersTrue
<1>1. ASSUME StoreInv PROVE AnswersTrue
  <2> SUFFICES ASSUME NEW a \in Appends
               PROVE  LET i == request[a].id IN
                        /\ answer[a] \in {"created", "present"} => kept[i] = request[a].body
                        /\ answer[a] = "created" /\ Readable(EvidenceRunOf[i]) => Verifies(i)
    BY DEF AnswersTrue
  <2> DEFINE i == request[a].id
  <2>1. i \in Ids /\ request[a].body \in Bodies /\ Answered(a)
    BY <1>1, RequestTyped DEF StoreInv, AnswerInv
  <2>2. ASSUME answer[a] = "created", Readable(EvidenceRunOf[i]) PROVE Verifies(i)
    <3>1. kept[i] = request[a].body /\ kept[i] # NoRecord /\ ~NoEvent(i)
      BY <2>1, <2>2, EvidenceConstants DEF Answered, Readable, RunIn
    <3> QED BY <1>1, <2>1, <2>2, <3>1, Verifying DEF Verifiable
  <2> QED BY <2>1, <2>2 DEF Answered
<1> QED BY <1>1, InvariantHolds, PTL

\* A step writes a record only where there is none.
LEMMA RecordsKept ==
  ASSUME StoreInv, StoreNext
  PROVE  \A i \in Ids : kept[i] # NoRecord => kept'[i] = kept[i]
<1>1. CASE kept' = kept BY <1>1
<1>2. CASE kept' # kept
  <2>1. PICK a \in Appends : WriteRecord(a)
    BY <1>2 DEF StoreNext, AppendStep, Lock, Look, Read, Bind, Leave, CrashAppending
  <2>2. kept[request[a].id] = NoRecord
    BY <2>1 DEF WriteRecord, StoreInv, SeenInv, Seen
  <2>3. kept' = [kept EXCEPT ![request[a].id] = request[a].body]
    BY <1>2, <2>1 DEF WriteRecord
  <2> QED BY <2>2, <2>3 DEF StoreInv, StoreTypeOK
<1> QED BY <1>1, <1>2

\* A record that exists is never replaced.
THEOREM RecordsImmutable == StoreSpec => NeverRewritten
<1>1. StoreInv /\ [StoreNext]_storeVars
        => [\A i \in Ids : kept[i] # NoRecord => kept'[i] = kept[i]]_kept
  BY RecordsKept DEF storeVars
<1> QED BY <1>1, InvariantHolds, PTL DEF NeverRewritten, StoreSpec

\* An event that is in the log stays there: a log is only ever appended to.
LEMMA EventsKept ==
  ASSUME StoreInv, StoreNext, NEW i \in Ids, ~NoEvent(i) PROVE ~NoEvent(i)'
<1>1. CASE log' = log BY <1>1 DEF NoEvent
<1>2. CASE log' # log
  <2>1. PICK a \in Appends : \/ Bind(a)
                             \/ (CrashAppending(a) /\ doing[a] = "binding")
    BY <1>2 DEF StoreNext, AppendStep, Lock, Look, Read, WriteRecord, Leave, CrashAppending
  <2>2. /\ doing[a] = "binding" /\ UNCHANGED <<request, kept>>
        /\ \E end \in {"line", "open", "part"} : Line(a, end)
    BY <1>2, <2>1 DEF Bind, CrashAppending
  <2>3. log' = [log EXCEPT ![RunIn(a)] = Append(@, Binding(a))] BY <1>2, <2>2 DEF Line
  <2>4. NoEvent(i)' <=> NoEvent(i) /\ i # request[a].id BY <2>2, <2>3, LineAdded
  <2> QED BY <2>4
<1> QED BY <1>1, <1>2

\* Evidence that verified once verifies for ever, while its log can be read.
THEOREM VerifiedForEver == StoreSpec => StaysVerified
<1>1. StoreInv /\ StoreInv' /\ [StoreNext]_storeVars
        => [\A i \in Ids : Verifies(i) /\ Readable(EvidenceRunOf[i])' => Verifies(i)']_
             <<kept, log, tail>>
  <2> SUFFICES ASSUME StoreInv, StoreInv', StoreNext, NEW i \in Ids, Verifies(i),
                      Readable(EvidenceRunOf[i])'
               PROVE  Verifies(i)'
    BY DEF storeVars
  <2>1. kept[i] # NoRecord /\ ~NoEvent(i) BY DEF Verifies, Bound, EventsOf, NoEvent
  <2>2. kept'[i] # NoRecord /\ ~NoEvent(i)' BY <2>1, RecordsKept, EventsKept
  <2>3. Verifiable' BY Verifying, PTL
  <2> QED BY <2>2, <2>3 DEF Verifiable
<1> QED BY <1>1, InvariantHolds, PTL DEF StaysVerified, StoreSpec

-----------------------------------------------------------------------------
(* The reference gate.                                                     *)

InFlight(c) ==
  job[c].op = "dispatch" /\ pc[c] \in Guarded \union {"doubting", "doubtingKey"}

\* A claimed key has one call that acts for it.
OneInFlight ==
  \A c, d \in Calls : InFlight(c) /\ InFlight(d) /\ Of(c) = Of(d) => c = d

\* What a call relies on at the place where it is.
Place(c) ==
  LET a == Of(c) IN
    /\ job[c].op = "recover" =>
         pc[c] \notin {"beginning", "replaying", "reserving", "resolving", "dispatching", "running",
                       "applying", "doubting", "doubtingKey", "manifest", "evaluating",
                       "opening", "passed", "refused", "completed", "blocked"}
    /\ job[c].op = "dispatch" => pc[c] \notin {"checking", "observing", "deciding", "recovered"}
    /\ InFlight(c) => idem[a].state # "none"
    /\ pc[c] \in {"resolving", "dispatching"} => resv[a].state # "none" /\ dispatched[a] = 0
    /\ pc[c] = "applying" => mutated[a] > 0
    /\ pc[c] \in {"binding", "bindingKey", "committing"} => EvidenceHolds(a)
    /\ pc[c] = "committingKey" => resv[a].state = "COMMITTED"
    /\ pc[c] \in {"replaying", "manifest", "evaluating", "passed", "refused", "completed"} =>
         idem[a].state = "COMMITTED"
    /\ pc[c] \in {"evaluating", "passed", "refused", "completed"} => manifest[RunOf[a]] = a
    /\ pc[c] \in {"committing", "committingKey"} => idem[a].ids

Ledger(a) ==
  /\ dispatched[a] \in {0, 1} /\ mutated[a] <= dispatched[a]
  /\ idem[a].state = "none" => dispatched[a] = 0
  /\ resv[a].state = "none" => dispatched[a] = 0
  /\ resv[a].result => mutated[a] = 1
  /\ resv[a].state = "COMMITTED" => resv[a].result /\ resv[a].ids /\ EvidenceHolds(a)
  /\ idem[a].state = "COMMITTED" => resv[a].state = "COMMITTED" /\ idem[a].ids

OneActionPerKey ==
  \A a, b \in Actions :
    /\ RunOf[a] = RunOf[b] /\ KeyOf[a] = KeyOf[b]
    /\ idem[a].state # "none" /\ idem[b].state # "none"
    => a = b

\* The ExecutionState says completed only for an action whose key is committed, and which
\* the manifest of the Run names.
StatedInv ==
  \A r \in Runs : stated[r].status = "completed" =>
    LET a == stated[r].action IN
      a \in Actions /\ RunOf[a] = r /\ idem[a].state = "COMMITTED" /\ manifest[r] = a

GateInv ==
  /\ TypeOK /\ OneInFlight /\ OneActionPerKey /\ StatedInv
  /\ \A c \in Calls : Place(c)
  /\ \A a \in Actions : Ledger(a)

\* What a call is to do is typed.
LEMMA JobTyped ==
  ASSUME TypeOK, NEW c \in Calls
  PROVE  Of(c) \in Actions /\ RunOf[Of(c)] \in Runs /\ job[c].op \in Operations
<1>1. job[c] \in [op : Operations, action : Actions] BY GateConstants DEF TypeOK
<1> QED BY <1>1, GateConstants DEF Of

\* The invariant of the gate holds at first.
LEMMA InitGate == Init => GateInv
<1> SUFFICES ASSUME Init PROVE GateInv OBVIOUS
<1>1. TypeOK
  BY GateConstants DEF Init, TypeOK, Steps, States, Kinds
<1>2. \A c \in Calls : Of(c) \in Actions BY <1>1, JobTyped
<1>3. OneInFlight BY DEF Init, OneInFlight, InFlight, Guarded
<1>4. OneActionPerKey BY DEF Init, OneActionPerKey
<1>5. \A c \in Calls : Place(c) BY DEF Init, Place, InFlight, Guarded
<1>6. \A a \in Actions : Ledger(a) BY DEF Init, Ledger
<1>7. StatedInv BY DEF Init, StatedInv
<1> QED BY <1>1, <1>3, <1>4, <1>5, <1>6, <1>7 DEF GateInv

-----------------------------------------------------------------------------
\* No step leaves the types.
LEMMA StepTyped == TypeOK /\ [Next]_vars => TypeOK'
<1> SUFFICES ASSUME TypeOK, [Next]_vars PROVE TypeOK' OBVIOUS
<1> USE DEF TypeOK, ledgers, evidence, world
<1>1. ASSUME NEW c \in Calls, Step(c) PROVE TypeOK'
  <2>1. Of(c) \in Actions /\ RunOf[Of(c)] \in Runs BY JobTyped
  <2>2. ASSUME NEW s \in Steps, Goto(c, s) PROVE pc' \in [Calls -> Steps]
    BY <2>2 DEF Goto
  <2>3. Fail(c) => pc' \in [Calls -> Steps] BY <2>2 DEF Fail, Steps, Ended
  <2>4. ASSUME NEW s \in States, Reserved(Of(c), s)
        PROVE resv' \in [Actions -> [state : States, ids : BOOLEAN, result : BOOLEAN]]
    BY <2>1, <2>4 DEF Reserved
  <2>5. ASSUME NEW s \in States \ {"APPLIED", "ABORTED"}, Claimed(Of(c), s)
        PROVE idem' \in [Actions -> [state : States \ {"APPLIED", "ABORTED"}, ids : BOOLEAN]]
    BY <2>1, <2>5 DEF Claimed
  <2>29. ASSUME NEW s \in {"running", "completed", "blocked"}, NEW a \in Actions \union {Nothing},
                State(c, s, a)
         PROVE stated' \in [Runs -> [status : {"none", "running", "completed", "blocked"},
                                     action : Actions \union {Nothing}]]
    BY <2>1, <2>29 DEF State
  <2> USE DEF Steps, Guarded, Ended, States
  <2> HIDE DEF Goto, Fail, Reserved, Claimed, State
  <2>6. CASE Validate(c) BY <2>2, <2>6 DEF Validate
  <2>7. CASE Begin(c) BY <2>2, <2>5, <2>7 DEF Begin
  <2>8. CASE Replay(c) BY <2>2, <2>8 DEF Replay
  <2>9. CASE Reserve(c) BY <2>2, <2>4, <2>9 DEF Reserve
  <2>10. CASE Resolve(c) BY <2>2, <2>10 DEF Resolve
  <2>11. CASE Dispatch(c)
    <3>1. dispatched' \in [Actions -> Nat] BY <2>1, <2>11 DEF Dispatch
    <3> QED BY <2>2, <2>11, <3>1 DEF Dispatch
  <2>12. CASE Return(c) BY <2>2, <2>12 DEF Return
  <2>13. CASE MarkApplied(c)
    <3>1. resv' \in [Actions -> [state : States, ids : BOOLEAN, result : BOOLEAN]]
      <4>1. resv \in [Actions -> [state : States, ids : BOOLEAN, result : BOOLEAN]] OBVIOUS
      <4> HIDE DEF TypeOK
      <4> QED BY <2>1, <2>13, <4>1 DEF MarkApplied
    <3> QED BY <2>2, <2>13, <3>1 DEF MarkApplied
  <2>14. CASE Write(c)
    <3>1. record' \in [Runs -> [Kinds -> Actions \union {Nothing}]]
      BY <2>1, <2>14 DEF Write
    <3>2. bound' \in [Runs -> SUBSET Kinds]
      <4>1. bound \in [Runs -> SUBSET Kinds] /\ kind[c] \in Kinds OBVIOUS
      <4> HIDE DEF TypeOK, Kinds
      <4>2. \/ bound' = bound
            \/ bound' = [bound EXCEPT ![RunOf[Of(c)]] = @ \union {kind[c]}]
        BY <2>14 DEF Write
      <4> QED BY <2>1, <4>1, <4>2
    <3>3. kind' \in [Calls -> Kinds]
      <4>1. kind[c] \in Nat /\ kind[c] >= 1 /\ KindCount \in Nat BY GateConstants DEF Kinds
      <4>2. kind[c] < KindCount => kind[c] + 1 \in Kinds BY <4>1 DEF Kinds
      <4> HIDE DEF Kinds
      <4>3. CASE UNCHANGED kind BY <4>3
      <4>4. CASE kind[c] < KindCount /\ kind' = [kind EXCEPT ![c] = @ + 1]
        BY <4>2, <4>4
      <4> QED BY <2>14, <4>3, <4>4 DEF Write
    <3>4. pc' \in [Calls -> Steps] BY <2>2, <2>3, <2>14 DEF Write
    <3> QED BY <2>14, <3>1, <3>2, <3>3, <3>4 DEF Write
  <2>15. CASE Verify(c) BY <2>2, <2>15 DEF Verify
  <2>16. CASE BindReservation(c)
    <3>1. resv' \in [Actions -> [state : States, ids : BOOLEAN, result : BOOLEAN]]
      BY <2>1, <2>16 DEF BindReservation
    <3> QED BY <2>2, <2>16, <3>1 DEF BindReservation
  <2>17. CASE BindKey(c)
    <3>1. idem' \in [Actions -> [state : States \ {"APPLIED", "ABORTED"}, ids : BOOLEAN]]
      BY <2>1, <2>17 DEF BindKey
    <3> QED BY <2>2, <2>17, <3>1 DEF BindKey
  <2>18. CASE Commit(c) BY <2>2, <2>4, <2>18 DEF Commit
  <2>19. CASE CommitKey(c) BY <2>2, <2>5, <2>19 DEF CommitKey
  <2>20. CASE WriteManifest(c)
    <3>1. manifest' \in [Runs -> Actions \union {Nothing}] BY <2>1, <2>20 DEF WriteManifest
    <3> QED BY <2>2, <2>20, <3>1 DEF WriteManifest
  <2>21. CASE Evaluate(c) BY <2>2, <2>21 DEF Evaluate
  <2>22. CASE Doubt(c) BY <2>2, <2>4, <2>22 DEF Doubt
  <2>23. CASE DoubtKey(c) BY <2>2, <2>5, <2>23 DEF DoubtKey
  <2>24. CASE Check(c) BY <2>2, <2>24 DEF Check
  <2>25. CASE Observe(c) BY <2>2, <2>25 DEF Observe
  <2>26. CASE Decide(c) BY <2>2, <2>4, <2>26 DEF Decide
  <2>27. CASE Raise(c) BY <2>3, <2>27 DEF Raise
  <2>28. CASE Crash(c) BY <2>2, <2>28 DEF Crash
  <2>30. CASE SayRunning(c) \/ TurnAway(c) BY <2>2, <2>29, <2>30 DEF SayRunning, TurnAway
  <2>31. CASE Conclude(c) BY <2>1, <2>2, <2>29, <2>31 DEF Conclude
  <2> QED BY <1>1, <2>30, <2>31, <2>6, <2>7, <2>8, <2>9, <2>10, <2>11, <2>12, <2>13, <2>14, <2>15, <2>16,
             <2>17, <2>18, <2>19, <2>20, <2>21, <2>22, <2>23, <2>24, <2>25, <2>26, <2>27, <2>28
          DEF Step
<1>2. ASSUME NEW a \in Actions, Mutate(a) \/ Undo(a) PROVE TypeOK'
  <2>1. mutated' \in [Actions -> Nat]
    <3>1. mutated[a] + 1 \in Nat OBVIOUS
    <3>2. CASE Mutate(a) BY <3>1, <3>2 DEF Mutate
    <3>3. CASE Undo(a) BY <3>3 DEF Undo
    <3> QED BY <1>2, <3>2, <3>3
  <2>2. undone' \in SUBSET Actions BY <1>2 DEF Mutate, Undo
  <2>3. UNCHANGED <<job, pc, kind, seen, idem, resv, record, bound, manifest, stated,
                 dispatched, revoked>>
    BY <1>2 DEF Mutate, Undo
  <2> QED BY <2>1, <2>2, <2>3
<1>3. ASSUME NEW p \in Approvals, Revoke(p) PROVE TypeOK'
  BY <1>3 DEF Revoke
<1>4. CASE UNCHANGED vars BY <1>4 DEF vars
<1> QED BY <1>1, <1>2, <1>3, <1>4 DEF Next

-----------------------------------------------------------------------------
(* What a step of one call leaves alone, and what no step takes back.          *)

\* A step of one call leaves the other calls and the records of the other actions.
LEMMA Others ==
  ASSUME TypeOK, NEW c \in Calls, Step(c)
  PROVE  /\ job' = job /\ mutated' = mutated
         /\ \A d \in Calls \ {c} : pc'[d] = pc[d]
         /\ \A a \in Actions \ {Of(c)} :
              resv'[a] = resv[a] /\ idem'[a] = idem[a] /\ dispatched'[a] = dispatched[a]
<1> USE DEF ledgers, evidence, world, Goto, Fail, Reserved, Claimed, TypeOK
<1>1. CASE Validate(c) \/ Begin(c) \/ Replay(c) \/ Reserve(c) \/ Resolve(c) \/ Dispatch(c)
  BY <1>1 DEF Validate, Begin, Replay, Reserve, Resolve, Dispatch
<1>2. CASE Return(c) \/ MarkApplied(c) \/ Write(c) \/ Verify(c)
  BY <1>2 DEF Return, MarkApplied, Write, Verify
<1>3. CASE BindReservation(c) \/ BindKey(c) \/ Commit(c) \/ CommitKey(c)
  BY <1>3 DEF BindReservation, BindKey, Commit, CommitKey
<1>4. CASE WriteManifest(c) \/ Evaluate(c) \/ Doubt(c) \/ DoubtKey(c)
  BY <1>4 DEF WriteManifest, Evaluate, Doubt, DoubtKey
<1>5. CASE Check(c) \/ Observe(c) \/ Decide(c) \/ Raise(c) \/ Crash(c)
  BY <1>5 DEF Check, Observe, Decide, Raise, Crash
<1>6. CASE SayRunning(c) \/ TurnAway(c) \/ Conclude(c)
  BY <1>6 DEF SayRunning, TurnAway, Conclude
<1> QED BY <1>1, <1>2, <1>3, <1>4, <1>5, <1>6 DEF Step

\* The ledgers of the action itself: what each step can do to them.
LEMMA Forward ==
  ASSUME TypeOK, NEW c \in Calls, Step(c)
  PROVE  LET a == Of(c) IN
    /\ resv[a].result => resv'[a].result
    /\ resv[a].ids => resv'[a].ids
    /\ resv[a].state = "COMMITTED" => resv'[a].state = "COMMITTED"
    /\ resv[a].state # "none" => resv'[a].state # "none"
    /\ idem[a].state = "COMMITTED" => idem'[a].state = "COMMITTED"
    /\ idem[a].state # "none" => idem'[a].state # "none"
    /\ idem[a].ids => idem'[a].ids
<1>1. Of(c) \in Actions BY JobTyped
<1> USE <1>1 DEF ledgers, evidence, world, Reserved, Claimed, TypeOK
<1>2. CASE Begin(c) BY <1>2 DEF Begin
<1>3. CASE Reserve(c) BY <1>3 DEF Reserve
<1>4. CASE MarkApplied(c) BY <1>4 DEF MarkApplied
<1>5. CASE BindReservation(c) BY <1>5 DEF BindReservation
<1>6. CASE BindKey(c) BY <1>6 DEF BindKey
<1>7. CASE Commit(c) BY <1>7 DEF Commit
<1>8. CASE CommitKey(c) BY <1>8 DEF CommitKey
<1>9. CASE Doubt(c) BY <1>9 DEF Doubt
<1>10. CASE DoubtKey(c) BY <1>10 DEF DoubtKey
<1>11. CASE UNCHANGED ledgers BY <1>11
<1>12. CASE Decide(c)
  <2>1. CASE resv[Of(c)].state = "IN_DOUBT" /\ Reserved(Of(c), "ABORTED") /\ UNCHANGED idem
    BY <2>1
  <2> QED BY <1>11, <1>12, <2>1 DEF Decide
<1>13. Validate(c) \/ Replay(c) \/ Resolve(c) \/ Dispatch(c) \/ Return(c) \/ Write(c)
       \/ Verify(c) \/ WriteManifest(c) \/ Evaluate(c) \/ Check(c) \/ Observe(c) \/ Raise(c)
       \/ Crash(c) \/ SayRunning(c) \/ TurnAway(c) \/ Conclude(c) => UNCHANGED ledgers
  BY DEF Validate, Replay, Resolve, Dispatch, Return, Write, Verify, WriteManifest, Evaluate,
         Check, Observe, Raise, Crash, SayRunning, TurnAway, Conclude
<1> QED BY <1>2, <1>3, <1>4, <1>5, <1>6, <1>7, <1>8, <1>9, <1>10, <1>11, <1>12, <1>13 DEF Step

\* Evidence that holds is never overwritten and never loses its event.
LEMMA EvidenceStays ==
  ASSUME TypeOK, [Next]_vars, NEW a \in Actions, EvidenceHolds(a)
  PROVE  EvidenceHolds(a)'
<1>1. CASE UNCHANGED evidence BY <1>1 DEF evidence, EvidenceHolds
<1>2. ASSUME NEW c \in Calls, Write(c) PROVE EvidenceHolds(a)'
  <2>1. Of(c) \in Actions /\ RunOf[Of(c)] \in Runs /\ RunOf[a] \in Runs
    BY JobTyped, GateConstants
  <2> SUFFICES ASSUME NEW k \in Kinds
               PROVE  record'[RunOf[a]][k] = a /\ k \in bound'[RunOf[a]]
    BY DEF EvidenceHolds
  <2>2. record[RunOf[a]][k] = a /\ k \in bound[RunOf[a]] BY DEF EvidenceHolds
  <2>3. record'[RunOf[a]][k] = a
    BY <1>2, <2>1, <2>2, GateConstants DEF Write, TypeOK
  <2>4. k \in bound'[RunOf[a]]
    <3>1. bound \in [Runs -> SUBSET Kinds] BY DEF TypeOK
    <3>2. \/ bound' = bound
          \/ bound' = [bound EXCEPT ![RunOf[Of(c)]] = @ \union {kind[c]}]
      BY <1>2 DEF Write
    <3> QED BY <2>1, <2>2, <3>1, <3>2
  <2> QED BY <2>3, <2>4
<1>3. UNCHANGED vars => UNCHANGED evidence BY DEF vars
<1>4. ASSUME NEW c \in Calls, Step(c), ~Write(c) PROVE UNCHANGED evidence
  BY <1>4 DEF Step, Validate, Begin, Replay, Reserve, Resolve, Dispatch, Return, MarkApplied,
       Verify, BindReservation, BindKey, Commit, CommitKey, WriteManifest, Evaluate, Doubt,
       DoubtKey, Check, Observe, Decide, Raise, Crash, SayRunning, TurnAway, Conclude
<1>5. (\E b \in Actions : Mutate(b) \/ Undo(b)) \/ (\E p \in Approvals : Revoke(p))
      => UNCHANGED evidence
  BY DEF Mutate, Undo, Revoke
<1> QED BY <1>1, <1>2, <1>3, <1>4, <1>5 DEF Next

-----------------------------------------------------------------------------
(* The parts of the invariant, over the step of one call.                      *)

\* A call takes a claim only by the first begin of its action.
LEMMA TakesClaim ==
  ASSUME GateInv, NEW c \in Calls, Step(c), InFlight(c)', ~InFlight(c)
  PROVE  Begin(c) /\ idem[Of(c)].state = "none"
<1> DEFINE flight == Guarded \union {"doubting", "doubtingKey"}
<1>1. TypeOK /\ Place(c) /\ job' = job BY Others DEF GateInv
<1>2. job[c].op = "dispatch" /\ pc'[c] \in flight /\ pc[c] \notin flight
  BY <1>1 DEF InFlight
<1>3. pc[c] \notin {"checking", "observing", "deciding", "recovered"} BY <1>1, <1>2 DEF Place
<1> USE <1>1, <1>2, <1>3 DEF Goto, Fail, Guarded, TypeOK
<1>4. CASE Validate(c) \/ Begin(c) \/ Replay(c) \/ Reserve(c) \/ Resolve(c) \/ Dispatch(c)
  BY <1>4 DEF Validate, Begin, Replay, Reserve, Resolve, Dispatch
<1>5. CASE Return(c) \/ MarkApplied(c) \/ Write(c) \/ Verify(c)
  BY <1>5 DEF Return, MarkApplied, Write, Verify
<1>6. CASE BindReservation(c) \/ BindKey(c) \/ Commit(c) \/ CommitKey(c)
  BY <1>6 DEF BindReservation, BindKey, Commit, CommitKey
<1>7. CASE WriteManifest(c) \/ Evaluate(c) \/ Doubt(c) \/ DoubtKey(c)
  BY <1>7 DEF WriteManifest, Evaluate, Doubt, DoubtKey
<1>8. CASE Check(c) \/ Observe(c) \/ Decide(c) \/ Raise(c) \/ Crash(c)
  BY <1>8 DEF Check, Observe, Decide, Raise, Crash
<1>9. CASE SayRunning(c) \/ TurnAway(c) \/ Conclude(c)
  BY <1>9 DEF SayRunning, TurnAway, Conclude
<1> QED BY <1>4, <1>5, <1>6, <1>7, <1>8, <1>9 DEF Step

\* After a step, an action is still executed by one call at most,
LEMMA StepOneInFlight ==
  ASSUME GateInv, NEW c \in Calls, Step(c)
  PROVE  OneInFlight'
<1>1. TypeOK /\ OneInFlight /\ job' = job /\ \A d \in Calls \ {c} : pc'[d] = pc[d]
  BY Others DEF GateInv
<1>2. \A d \in Calls : Of(d)' = Of(d) BY <1>1 DEF Of
<1>3. \A d \in Calls \ {c} : InFlight(d)' => InFlight(d) BY <1>1 DEF InFlight
<1>4. ASSUME InFlight(c)', ~InFlight(c), NEW d \in Calls \ {c}, InFlight(d), Of(d) = Of(c)
      PROVE  FALSE
  <2>1. idem[Of(c)].state = "none" BY <1>4, TakesClaim
  <2>2. idem[Of(d)].state # "none" BY <1>4 DEF GateInv, Place
  <2> QED BY <1>4, <2>1, <2>2
<1> QED BY <1>1, <1>2, <1>3, <1>4 DEF OneInFlight

\* a key still stands for one action,
LEMMA StepOneActionPerKey ==
  ASSUME GateInv, NEW c \in Calls, Step(c)
  PROVE  OneActionPerKey'
<1>1. TypeOK /\ OneActionPerKey BY DEF GateInv
<1>2. Of(c) \in Actions BY <1>1, JobTyped
<1>3. \A a \in Actions \ {Of(c)} : idem'[a] = idem[a] BY <1>1, Others
<1>4. CASE Begin(c)
  <2>1. \A b \in Actions \ {Of(c)} :
          RunOf[b] = RunOf[Of(c)] /\ KeyOf[b] = KeyOf[Of(c)] => idem[b].state = "none"
    BY <1>4 DEF Begin
  <2> QED BY <1>1, <1>2, <1>3, <2>1 DEF OneActionPerKey
<1>5. ASSUME ~Begin(c) PROVE idem'[Of(c)].state # "none" => idem[Of(c)].state # "none"
  <2> USE <1>1, <1>2 DEF ledgers, Claimed, TypeOK
  <2>1. CASE BindKey(c) BY <2>1 DEF BindKey
  <2>2. CASE CommitKey(c) BY <2>2 DEF CommitKey
  <2>3. CASE DoubtKey(c) BY <2>3 DEF DoubtKey
  <2>4. ~BindKey(c) /\ ~CommitKey(c) /\ ~DoubtKey(c) => idem' = idem
    BY <1>5 DEF Step, Validate, Replay, Reserve, Resolve, Dispatch, Return, MarkApplied, Write,
         Verify, BindReservation, Commit, WriteManifest, Evaluate, Doubt, Check, Observe, Decide,
         Raise, Crash, SayRunning, TurnAway, Conclude
  <2> QED BY <2>1, <2>2, <2>3, <2>4
<1>6. ~Begin(c) => \A a \in Actions : idem'[a].state # "none" => idem[a].state # "none"
  BY <1>2, <1>3, <1>5
<1> QED BY <1>1, <1>4, <1>6 DEF OneActionPerKey

\* A manifest that names a committed action of its Run keeps naming it: evidence of one
\* Run can be that of one action only.
LEMMA ManifestStays ==
  ASSUME GateInv, NEW c \in Calls, Step(c), NEW a \in Actions,
         manifest[RunOf[a]] = a, idem[a].state = "COMMITTED"
  PROVE  manifest'[RunOf[a]] = a
<1>1. TypeOK /\ Of(c) \in Actions BY JobTyped DEF GateInv
<1>2. CASE WriteManifest(c)
  <2>1. idem[Of(c)].state = "COMMITTED" BY <1>2 DEF GateInv, Place, WriteManifest
  <2>2. EvidenceHolds(a) /\ EvidenceHolds(Of(c)) BY <1>1, <2>1 DEF GateInv, Ledger
  <2>3. 1 \in Kinds BY GateConstants DEF Kinds
  <2>4. RunOf[Of(c)] = RunOf[a] => Of(c) = a BY <2>2, <2>3 DEF EvidenceHolds
  <2> QED BY <1>1, <1>2, <2>4, GateConstants DEF WriteManifest, TypeOK
<1>3. CASE ~WriteManifest(c)
  BY <1>3 DEF Step, Validate, Begin, Replay, Reserve, Resolve, Dispatch, Return, MarkApplied,
     Write, Verify, BindReservation, BindKey, Commit, CommitKey, Evaluate, Doubt, DoubtKey,
     Check, Observe, Decide, Raise, Crash, SayRunning, TurnAway, Conclude
<1> QED BY <1>2, <1>3

\* What a call relies on is not taken from it by the step of another one.
LEMMA OthersPlace ==
  ASSUME GateInv, NEW c \in Calls, Step(c), NEW d \in Calls \ {c}
  PROVE  Place(d)'
<1> DEFINE a == Of(d)
<1>1. TypeOK /\ Place(d) /\ a \in Actions /\ Of(c) \in Actions /\ job[d].op \in Operations
  BY JobTyped DEF GateInv
<1>2. job' = job /\ pc'[d] = pc[d] /\ mutated' = mutated /\ a' = a
      /\ (InFlight(d)' <=> InFlight(d))
  BY <1>1, Others DEF Of, InFlight
<1>3. a # Of(c) => resv'[a] = resv[a] /\ idem'[a] = idem[a] /\ dispatched'[a] = dispatched[a]
  BY <1>1, Others
<1>4. /\ resv[a].state = "COMMITTED" => resv'[a].state = "COMMITTED"
      /\ resv[a].state # "none" => resv'[a].state # "none"
      /\ idem[a].state = "COMMITTED" => idem'[a].state = "COMMITTED"
      /\ idem[a].state # "none" => idem'[a].state # "none"
      /\ idem[a].ids => idem'[a].ids
  BY <1>1, <1>3, Forward
<1>5. pc[d] \in {"resolving", "dispatching"} => dispatched'[a] = dispatched[a]
  <2> SUFFICES ASSUME pc[d] \in {"resolving", "dispatching"}, Of(c) = a
               PROVE  dispatched'[a] = dispatched[a]
    BY <1>3
  <2>1. InFlight(d) BY <1>1 DEF Place, InFlight, Operations, Guarded
  <2>2. pc[c] # "dispatching"
    <3>1. Place(c) /\ job[c].op \in Operations BY <1>1, JobTyped DEF GateInv
    <3>2. pc[c] = "dispatching" => InFlight(c)
      BY <3>1 DEF Place, InFlight, Operations, Guarded
    <3> QED BY <2>1, <3>2 DEF GateInv, OneInFlight
  <2>3. UNCHANGED dispatched
    BY <2>2 DEF Step, Validate, Begin, Replay, Reserve, Resolve, Dispatch, Return, MarkApplied,
       Write, Verify, BindReservation, BindKey, Commit, CommitKey, WriteManifest, Evaluate, Doubt,
       DoubtKey, Check, Observe, Decide, Raise, Crash, SayRunning, TurnAway, Conclude, world
  <2> QED BY <2>3
<1>6. EvidenceHolds(a) => EvidenceHolds(a)'
  <2>1. \A b \in Actions : EvidenceHolds(b) => EvidenceHolds(b)'
    BY <1>1, EvidenceStays DEF Next
  <2> QED BY <1>1, <1>2, <2>1 DEF EvidenceHolds
<1>7. manifest[RunOf[a]] = a /\ idem[a].state = "COMMITTED" => manifest'[RunOf[a]] = a
  BY <1>1, ManifestStays
<1> QED BY <1>1, <1>2, <1>4, <1>5, <1>6, <1>7 DEF Place

\* A call relies on nothing where it ends and where it fails, but on its claim.
LEMMA FailPlace ==
  ASSUME GateInv, NEW c \in Calls, Step(c),
         Fail(c) \/ Goto(c, "gone") \/ (Goto(c, "blocked") /\ job[c].op = "dispatch")
  PROVE  Place(c)'
<1> DEFINE a == Of(c)
<1>1. TypeOK /\ Place(c) /\ a \in Actions /\ job[c].op \in Operations /\ job' = job /\ a' = a
  BY JobTyped, Others DEF GateInv, Of
<1>2. \/ pc'[c] = "doubting" /\ pc[c] \in Guarded /\ job[c].op = "dispatch"
      \/ pc'[c] = "gone" \/ (pc'[c] = "blocked" /\ job[c].op = "dispatch")
  BY <1>1 DEF Fail, Goto, TypeOK
<1>3. pc[c] \in Guarded /\ job[c].op = "dispatch" => idem'[a].state # "none"
  BY <1>1, Forward DEF Place, InFlight
<1> QED BY <1>1, <1>2, <1>3 DEF Place, InFlight, Guarded

\* the call is where its records say,
LEMMA OwnPlace ==
  ASSUME GateInv, NEW c \in Calls, Step(c)
  PROVE  Place(c)'
<1> DEFINE a == Of(c)
<1>1. TypeOK /\ Place(c) /\ a \in Actions /\ job[c].op \in Operations /\ job' = job /\ a' = a
      /\ mutated' = mutated
  BY JobTyped, Others DEF GateInv, Of
<1>2. /\ resv[a].state = "COMMITTED" => resv'[a].state = "COMMITTED"
      /\ resv[a].state # "none" => resv'[a].state # "none"
      /\ idem[a].state = "COMMITTED" => idem'[a].state = "COMMITTED"
      /\ idem[a].state # "none" => idem'[a].state # "none"
      /\ idem[a].ids => idem'[a].ids
  BY Forward, <1>1
<1>3. \A step \in Steps : Goto(c, step) => pc'[c] = step BY <1>1 DEF Goto, TypeOK
<1>4. Ledger(a) BY <1>1 DEF GateInv
<1> USE DEF Place, InFlight, Guarded, Operations
<1>5. CASE Validate(c)
  <2>1. pc'[c] = IF job[c].op = "dispatch" THEN "beginning" ELSE "checking"
    BY <1>3, <1>5 DEF Validate, Steps
  <2> QED BY <1>1, <2>1
<1>6. CASE Begin(c)
  <2>1. pc[c] = "beginning" BY <1>6 DEF Begin
  <2>2. CASE Claimed(a, "PREPARED") /\ Goto(c, "reserving")
    <3>1. pc'[c] = "reserving" /\ idem'[a].state # "none"
      BY <1>1, <1>3, <2>2 DEF Claimed, TypeOK, Steps
    <3> QED BY <1>1, <2>1, <3>1
  <2>3. CASE idem[a].state = "COMMITTED" /\ Goto(c, "replaying")
    <3>1. pc'[c] = "replaying" BY <1>3, <2>3 DEF Steps
    <3> QED BY <1>1, <1>2, <2>1, <2>3, <3>1
  <2> QED BY <1>6, <2>2, <2>3 DEF Begin
<1>7. CASE Replay(c)
  <2>1. pc[c] = "replaying" /\ pc'[c] = "manifest" BY <1>3, <1>7 DEF Replay, Steps
  <2> QED BY <1>1, <1>2, <2>1
<1>8. CASE Reserve(c)
  <2>1. pc[c] = "reserving" /\ pc'[c] = "resolving" BY <1>3, <1>8 DEF Reserve, Steps
  <2>2. resv[a].state = "none" /\ resv'[a].state # "none" /\ dispatched' = dispatched
    BY <1>1, <1>8 DEF Reserve, Reserved, TypeOK, world
  <2> QED BY <1>1, <1>2, <1>4, <2>1, <2>2 DEF Ledger
<1>9. CASE Resolve(c)
  <2>1. pc[c] = "resolving" /\ pc'[c] = "dispatching" /\ dispatched' = dispatched
    BY <1>3, <1>9 DEF Resolve, Steps, world
  <2> QED BY <1>1, <1>2, <2>1
<1>10. CASE Dispatch(c)
  <2>1. pc[c] = "dispatching" /\ pc'[c] = "running" BY <1>3, <1>10 DEF Dispatch, Steps
  <2> QED BY <1>1, <1>2, <2>1
<1>11. CASE Return(c)
  <2>1. pc[c] = "running" /\ pc'[c] = "applying" /\ mutated[a] > 0
    BY <1>3, <1>11 DEF Return, Steps
  <2> QED BY <1>1, <1>2, <2>1
<1>12. CASE MarkApplied(c)
  <2>1. pc[c] = "applying" /\ pc'[c] = "writing" BY <1>3, <1>12 DEF MarkApplied, Steps
  <2> QED BY <1>1, <1>2, <2>1
<1>13. CASE Write(c)
  <2>1. pc[c] = "writing" BY <1>13 DEF Write
  <2>2. CASE Fail(c) BY <2>2, FailPlace
  <2>3. CASE UNCHANGED pc BY <1>1, <1>2, <2>1, <2>3
  <2>4. CASE Goto(c, "verifying")
    <3>1. pc'[c] = "verifying" BY <1>3, <2>4 DEF Steps
    <3> QED BY <1>1, <1>2, <2>1, <3>1
  <2> QED BY <1>13, <2>2, <2>3, <2>4 DEF Write
<1>14. CASE Verify(c)
  <2>1. pc[c] = "verifying" /\ pc'[c] = "binding" /\ EvidenceHolds(a)
    BY <1>3, <1>14 DEF Verify, Steps
  <2>2. EvidenceHolds(a)' BY <1>1, <1>14, <2>1 DEF Verify, EvidenceHolds, evidence
  <2> QED BY <1>1, <1>2, <2>1, <2>2
<1>15. CASE BindReservation(c) \/ BindKey(c)
  <2>1. /\ pc[c] \in {"binding", "bindingKey"} /\ pc'[c] \in {"bindingKey", "committing"}
        /\ pc'[c] = "committing" => idem'[a].ids
    <3>1. CASE BindReservation(c) BY <1>3, <3>1 DEF BindReservation, Steps
    <3>2. CASE BindKey(c) BY <1>1, <1>3, <3>2 DEF BindKey, Steps, TypeOK
    <3> QED BY <1>15, <3>1, <3>2
  <2>2. UNCHANGED record /\ UNCHANGED bound BY <1>15 DEF BindReservation, BindKey, evidence
  <2>3. EvidenceHolds(a)' BY <1>1, <2>1, <2>2 DEF EvidenceHolds
  <2> QED BY <1>1, <1>2, <2>1, <2>3
<1>16. CASE Commit(c)
  <2>1. pc[c] = "committing" /\ pc'[c] = "committingKey" BY <1>3, <1>16 DEF Commit, Steps
  <2>2. resv'[a].state = "COMMITTED" BY <1>1, <1>16 DEF Commit, Reserved, TypeOK
  <2> QED BY <1>1, <1>2, <2>1, <2>2
<1>17. CASE CommitKey(c)
  <2>1. pc[c] = "committingKey"
        /\ pc'[c] = IF job[c].op = "dispatch" THEN "manifest" ELSE "recovered"
    BY <1>3, <1>17 DEF CommitKey, Steps, Ended
  <2>2. idem'[a].state = "COMMITTED" BY <1>1, <1>17 DEF CommitKey, Claimed, TypeOK
  <2> QED BY <1>1, <1>2, <2>1, <2>2
<1>18. CASE WriteManifest(c)
  <2>1. pc[c] = "manifest" /\ pc'[c] = "evaluating" BY <1>3, <1>18 DEF WriteManifest, Steps
  <2>2. manifest'[RunOf[a]] = a BY <1>1, <1>18, GateConstants DEF WriteManifest, TypeOK
  <2> QED BY <1>1, <1>2, <2>1, <2>2
<1>19. CASE Evaluate(c)
  <2>1. pc[c] = "evaluating" /\ pc'[c] \in {"passed", "refused"} /\ manifest' = manifest
    BY <1>3, <1>19 DEF Evaluate, Steps
  <2> QED BY <1>1, <1>2, <2>1
<1>20. CASE Doubt(c)
  <2>1. pc[c] = "doubting" /\ pc'[c] = "doubtingKey" BY <1>3, <1>20 DEF Doubt, Steps
  <2> QED BY <1>1, <1>2, <2>1
<1>21. CASE DoubtKey(c) BY <1>21, FailPlace DEF DoubtKey
<1>22. CASE Check(c) \/ Observe(c)
  <2>1. pc[c] \in {"checking", "observing"} /\ pc'[c] \in {"observing", "deciding"}
    BY <1>3, <1>22 DEF Check, Observe, Steps
  <2> QED BY <1>1, <1>2, <2>1
<1>23. CASE Decide(c)
  <2>1. pc[c] = "deciding" BY <1>23 DEF Decide
  <2>2. CASE Goto(c, "writing")
    <3>1. pc'[c] = "writing" BY <1>3, <2>2 DEF Steps
    <3> QED BY <1>1, <1>2, <2>1, <3>1
  <2>3. CASE Goto(c, "gone") BY <2>3, FailPlace
  <2> QED BY <1>23, <2>2, <2>3 DEF Decide
<1>24. CASE Raise(c) BY <1>24, FailPlace DEF Raise
<1>25. CASE Crash(c) BY <1>25, FailPlace DEF Crash
<1>26. CASE SayRunning(c)
  <2>1. pc[c] = "opening" /\ pc'[c] = "validating" BY <1>3, <1>26 DEF SayRunning, Steps
  <2> QED BY <1>1, <2>1
<1>27. CASE TurnAway(c)
  <2>1. job[c].op = "dispatch" BY <1>1, <1>27 DEF TurnAway
  <2> QED BY <1>27, <2>1, FailPlace DEF TurnAway
<1>28. CASE Conclude(c)
  <2>1. pc[c] \in {"passed", "refused"} /\ pc'[c] \in {"completed", "blocked"}
        /\ manifest' = manifest
    BY <1>3, <1>28 DEF Conclude, Steps, Ended
  <2> QED BY <1>1, <1>2, <2>1
<1> QED BY <1>26, <1>27, <1>28, <1>5, <1>6, <1>7, <1>8, <1>9, <1>10, <1>11, <1>12, <1>13, <1>14, <1>15, <1>16, <1>17,
           <1>18, <1>19, <1>20, <1>21, <1>22, <1>23, <1>24, <1>25 DEF Step

\* and so is every action in the ledger.
LEMMA StepLedger ==
  ASSUME GateInv, NEW c \in Calls, Step(c), NEW a \in Actions
  PROVE  Ledger(a)'
<1>1. TypeOK /\ Place(c) /\ Ledger(a) /\ Of(c) \in Actions /\ job[c].op \in Operations
  BY JobTyped DEF GateInv
<1>2. mutated' = mutated /\ (EvidenceHolds(a) => EvidenceHolds(a)')
  BY <1>1, Others, EvidenceStays DEF Next
<1>3. CASE a # Of(c)
  <2>1. resv'[a] = resv[a] /\ idem'[a] = idem[a] /\ dispatched'[a] = dispatched[a]
    BY <1>1, <1>3, Others
  <2> QED BY <1>1, <1>2, <2>1 DEF Ledger
<1>4. CASE a = Of(c)
  <2> USE <1>4 DEF TypeOK, ledgers, world, Reserved, Claimed, Ledger
  <2>1. CASE Begin(c)
    <3>1. UNCHANGED <<resv, dispatched>> /\ (idem'[a] = idem[a] \/ idem'[a].state = "PREPARED")
      BY <1>1, <2>1 DEF Begin
    <3> QED BY <1>1, <1>2, <3>1
  <2>2. CASE Reserve(c)
    <3>1. UNCHANGED <<idem, dispatched>> /\ resv'[a] = [resv[a] EXCEPT !.state = "PREPARED"]
      BY <1>1, <2>2 DEF Reserve
    <3> QED BY <1>1, <1>2, <2>2, <3>1 DEF Reserve
  <2>3. CASE Dispatch(c)
    <3>1. UNCHANGED <<idem, resv>> /\ dispatched'[a] = dispatched[a] + 1
      BY <1>1, <2>3 DEF Dispatch
    <3>2. dispatched[a] = 0 /\ resv[a].state # "none" /\ idem[a].state # "none"
      BY <1>1, <2>3 DEF Dispatch, Place, InFlight, Guarded, Operations
    <3> QED BY <1>1, <1>2, <3>1, <3>2
  <2>4. CASE MarkApplied(c)
    <3>1. UNCHANGED <<idem, dispatched>>
          /\ resv'[a] = [resv[a] EXCEPT !.state = "APPLIED", !.result = TRUE]
      BY <1>1, <2>4 DEF MarkApplied
    <3>2. resv[a].state = "PREPARED" /\ mutated[a] > 0 BY <1>1, <2>4 DEF MarkApplied, Place
    <3> QED BY <1>1, <1>2, <3>1, <3>2
  <2>5. CASE BindReservation(c)
    <3>1. UNCHANGED <<idem, dispatched>> /\ resv'[a] = [resv[a] EXCEPT !.ids = TRUE]
      BY <1>1, <2>5 DEF BindReservation
    <3> QED BY <1>1, <1>2, <3>1
  <2>6. CASE BindKey(c)
    <3>1. UNCHANGED <<resv, dispatched>> /\ idem'[a] = [idem[a] EXCEPT !.ids = TRUE]
      BY <1>1, <2>6 DEF BindKey
    <3> QED BY <1>1, <1>2, <3>1
  <2>7. CASE Commit(c)
    <3>1. UNCHANGED <<idem, dispatched>> /\ resv'[a] = [resv[a] EXCEPT !.state = "COMMITTED"]
          /\ resv[a].state # "none" /\ resv[a].result /\ resv[a].ids
      BY <1>1, <2>7 DEF Commit
    <3>2. EvidenceHolds(a) BY <1>1, <2>7 DEF Commit, Place
    <3> QED BY <1>1, <1>2, <3>1, <3>2
  <2>8. CASE CommitKey(c)
    <3>1. UNCHANGED <<resv, dispatched>> /\ idem'[a] = [idem[a] EXCEPT !.state = "COMMITTED"]
      BY <1>1, <2>8 DEF CommitKey
    <3>2. resv[a].state = "COMMITTED" /\ idem[a].ids BY <1>1, <2>8 DEF CommitKey, Place
    <3> QED BY <1>1, <1>2, <3>1, <3>2
  <2>9. CASE Doubt(c)
    <3>1. UNCHANGED <<idem, dispatched>>
      BY <2>9 DEF Doubt
    <3>2. \/ resv'[a] = resv[a]
          \/ resv'[a] = [resv[a] EXCEPT !.state = "IN_DOUBT"]
             /\ resv[a].state \in {"PREPARED", "APPLIED"}
      BY <1>1, <2>9 DEF Doubt
    <3> QED BY <1>1, <1>2, <3>1, <3>2
  <2>10. CASE DoubtKey(c)
    <3>1. UNCHANGED <<resv, dispatched>> BY <2>10 DEF DoubtKey
    <3>2. \/ idem'[a] = idem[a]
          \/ idem'[a] = [idem[a] EXCEPT !.state = "IN_DOUBT"] /\ idem[a].state = "PREPARED"
      BY <1>1, <2>10 DEF DoubtKey
    <3> QED BY <1>1, <1>2, <3>1, <3>2
  <2>11. CASE Decide(c)
    <3>1. UNCHANGED <<idem, dispatched>> BY <2>11 DEF Decide
    <3>2. \/ resv'[a] = resv[a]
          \/ resv'[a] = [resv[a] EXCEPT !.state = "ABORTED"] /\ resv[a].state = "IN_DOUBT"
      BY <1>1, <2>11 DEF Decide
    <3> QED BY <1>1, <1>2, <3>1, <3>2
  <2>12. CASE UNCHANGED <<idem, resv, dispatched>> BY <1>1, <1>2, <2>12
  <2>13. Validate(c) \/ Replay(c) \/ Resolve(c) \/ Return(c) \/ Write(c) \/ Verify(c)
         \/ WriteManifest(c) \/ Evaluate(c) \/ Check(c) \/ Observe(c) \/ Raise(c) \/ Crash(c)
         \/ SayRunning(c) \/ TurnAway(c) \/ Conclude(c)
         => UNCHANGED <<idem, resv, dispatched>>
    BY DEF Validate, Replay, Resolve, Return, Write, Verify, WriteManifest, Evaluate, Check,
           Observe, Raise, Crash, SayRunning, TurnAway, Conclude
  <2> QED BY <2>1, <2>2, <2>3, <2>4, <2>5, <2>6, <2>7, <2>8, <2>9, <2>10, <2>11, <2>12, <2>13
          DEF Step
<1> QED BY <1>3, <1>4

\* What the ExecutionState says stays true: it is replaced as a whole, and said completed
\* only by a call whose key is committed and whose manifest stands.
LEMMA StepStated ==
  ASSUME GateInv, NEW c \in Calls, Step(c)
  PROVE  StatedInv'
<1>1. TypeOK /\ StatedInv /\ Place(c) BY DEF GateInv
<1>2. Of(c) \in Actions /\ RunOf[Of(c)] \in Runs BY <1>1, JobTyped
<1> SUFFICES ASSUME NEW r \in Runs, stated'[r].status = "completed"
             PROVE  \E a \in Actions : /\ stated'[r].action = a /\ RunOf[a] = r
                                       /\ idem'[a].state = "COMMITTED" /\ manifest'[r] = a
  BY DEF StatedInv
<1>3. CASE stated'[r] = stated[r]
  <2>1. PICK a \in Actions : /\ stated[r].action = a /\ RunOf[a] = r
                             /\ idem[a].state = "COMMITTED" /\ manifest[r] = a
    BY <1>1, <1>3 DEF StatedInv
  <2>2. idem'[a].state = "COMMITTED" BY <1>1, <1>2, <2>1, Forward, Others
  <2>3. manifest'[r] = a BY <2>1, ManifestStays
  <2> QED BY <1>3, <2>1, <2>2, <2>3
<1>4. CASE stated'[r] # stated[r]
  <2>1. SayRunning(c) \/ TurnAway(c) \/ Conclude(c)
    BY <1>4 DEF Step, Validate, Begin, Replay, Reserve, Resolve, Dispatch, Return, MarkApplied,
       Write, Verify, BindReservation, BindKey, Commit, CommitKey, WriteManifest, Evaluate, Doubt,
       DoubtKey, Check, Observe, Decide, Raise, Crash
  <2>2. Conclude(c) /\ pc[c] = "passed" /\ r = RunOf[Of(c)] /\ stated'[r].action = Of(c)
        /\ UNCHANGED <<idem, manifest>>
    BY <1>1, <1>2, <1>4, <2>1 DEF SayRunning, TurnAway, Conclude, State, TypeOK, ledgers
  <2> QED BY <1>1, <1>2, <2>2 DEF Place
<1> QED BY <1>3, <1>4

\* The Project changes, or an approval is revoked, while no call takes a step.
LEMMA WorldGate ==
  ASSUME GateInv,
         (\E b \in Actions : Mutate(b) \/ Undo(b)) \/ (\E p \in Approvals : Revoke(p))
  PROVE  GateInv'
<1>1. TypeOK /\ \A a \in Actions : Ledger(a) BY DEF GateInv
<1>2. TypeOK' BY <1>1, StepTyped DEF Next
<1>3. UNCHANGED <<job, pc, ledgers, evidence, manifest, stated, dispatched>>
  BY DEF Mutate, Undo, Revoke
<1>4. \A a \in Actions : mutated'[a] = mutated[a] \/ (mutated[a] < dispatched[a]
                                                   /\ mutated'[a] = mutated[a] + 1)
  BY <1>1 DEF Mutate, Undo, Revoke, TypeOK
<1> USE <1>3 DEF ledgers, evidence
<1>5. OneInFlight' BY DEF GateInv, OneInFlight, InFlight, Of
<1>6. OneActionPerKey' /\ StatedInv' BY DEF GateInv, OneActionPerKey, StatedInv
<1>7. ASSUME NEW c \in Calls PROVE Place(c)'
  <2>1. Of(c) \in Actions /\ Of(c)' = Of(c) /\ Place(c) BY <1>1, JobTyped DEF Of, GateInv
  <2>2. (mutated[Of(c)] > 0) => mutated'[Of(c)] > 0
    <3>1. mutated[Of(c)] \in Nat BY <1>1, <2>1 DEF TypeOK
    <3> QED BY <1>4, <2>1, <3>1
  <2> QED BY <2>1, <2>2 DEF Place, InFlight, EvidenceHolds
<1>8. ASSUME NEW a \in Actions PROVE Ledger(a)'
  <2>1. mutated[a] \in Nat /\ Ledger(a) BY <1>1 DEF TypeOK
  <2> QED BY <1>4, <2>1 DEF Ledger, EvidenceHolds
<1> QED BY <1>2, <1>5, <1>6, <1>7, <1>8 DEF GateInv

\* Every step keeps the invariant of the gate.
LEMMA StepGate == GateInv /\ [Next]_vars => GateInv'
<1> SUFFICES ASSUME GateInv, [Next]_vars PROVE GateInv' OBVIOUS
<1>1. ASSUME NEW c \in Calls, Step(c) PROVE GateInv'
  <2>1. TypeOK' BY <1>1, StepTyped DEF Next, GateInv
  <2>2. OneInFlight' /\ OneActionPerKey' /\ StatedInv'
    BY <1>1, StepOneInFlight, StepOneActionPerKey, StepStated
  <2>3. \A d \in Calls : Place(d)' BY <1>1, OwnPlace, OthersPlace
  <2>4. \A a \in Actions : Ledger(a)' BY <1>1, StepLedger
  <2> QED BY <2>1, <2>2, <2>3, <2>4 DEF GateInv
<1>2. CASE (\E a \in Actions : Mutate(a) \/ Undo(a)) \/ (\E p \in Approvals : Revoke(p))
  BY <1>2, WorldGate
<1>3. CASE UNCHANGED vars
  BY <1>3 DEF vars, ledgers, evidence, world, GateInv, TypeOK, OneInFlight, OneActionPerKey,
     InFlight, Place, Ledger, EvidenceHolds, Of, StatedInv
<1> QED BY <1>1, <1>2, <1>3 DEF Next

\* The invariant holds of every state of the gate.
THEOREM GateInvariant == Spec => []GateInv
<1> QED BY InitGate, StepGate, PTL DEF Spec
-----------------------------------------------------------------------------

\* Every variable of the gate keeps its type.
THEOREM TypeCorrect == Spec => []TypeOK
<1>1. GateInv => TypeOK BY DEF GateInv
<1> QED BY <1>1, GateInvariant, PTL

\* However many processes dispatch, die and recover, a key starts the provider at most
\* once: begin claims it for one call, and nobody gives the claim back.
THEOREM GateDispatchesOnce == Spec => []KeyDispatchedOnce
<1>1. GateInv => KeyDispatchedOnce
  <2> SUFFICES ASSUME GateInv, NEW a \in Actions, NEW b \in Actions
               PROVE  /\ dispatched[a] <= 1
                      /\ RunOf[a] = RunOf[b] /\ KeyOf[a] = KeyOf[b]
                         /\ dispatched[a] > 0 /\ dispatched[b] > 0 => a = b
    BY DEF KeyDispatchedOnce
  <2>1. Ledger(a) /\ Ledger(b) BY DEF GateInv
  <2>2. dispatched[a] <= 1 BY <2>1 DEF Ledger
  <2>3. /\ dispatched[a] > 0 => idem[a].state # "none"
        /\ dispatched[b] > 0 => idem[b].state # "none"
    BY <2>1 DEF Ledger
  <2> QED BY <2>2, <2>3 DEF GateInv, OneActionPerKey
<1> QED BY <1>1, GateInvariant, PTL

\* A committed reservation has been carried out once, and its evidence stays bound to it.
THEOREM CommitsProven == Spec => []CommittedIsProven
<1>1. GateInv => CommittedIsProven BY DEF GateInv, Ledger, CommittedIsProven
<1> QED BY <1>1, GateInvariant, PTL

\* No death and no recovery commits a key without its reservation.
THEOREM LedgersInStep == Spec => []LedgersAgree
<1>1. GateInv => LedgersAgree BY DEF GateInv, Ledger, Place, LedgersAgree
<1> QED BY <1>1, GateInvariant, PTL

\* A committed key of which the manifest tells verifies: the immutable record of one kind
\* lets only one action of the Run be committed, in either ledger.
LEMMA CommittedVerifies ==
  ASSUME GateInv, NEW a \in Actions, idem[a].state = "COMMITTED", manifest[RunOf[a]] = a
  PROVE  RecordsVerify(a)
<1>1. resv[a].state = "COMMITTED" /\ EvidenceHolds(a) /\ resv[a].result /\ resv[a].ids
      /\ idem[a].ids
  BY DEF GateInv, Ledger
<1>2. ASSUME NEW b \in Actions, RunOf[b] = RunOf[a],
             resv[b].state = "COMMITTED" \/ idem[b].state = "COMMITTED"
      PROVE  b = a
  <2>1. EvidenceHolds(b) BY <1>2 DEF GateInv, Ledger
  <2>2. 1 \in Kinds BY GateConstants DEF Kinds
  <2> QED BY <1>1, <1>2, <2>1, <2>2 DEF EvidenceHolds
<1> QED BY <1>1, <1>2 DEF RecordsVerify

\* A Run whose ExecutionState says completed is accepted by the replay until its approval is
\* taken back, and what a completed call left behind verifies whatever else is attempted in
\* its Run: only the ExecutionState of a later execution can make the replay refuse.
THEOREM CompletedVerifies == Spec => []CompletedRunVerifies
<1>1. GateInv => CompletedRunVerifies
  <2> SUFFICES ASSUME GateInv PROVE CompletedRunVerifies OBVIOUS
  <2>1. ASSUME NEW c \in Calls, pc[c] = "completed" PROVE RecordsVerify(Of(c))
    <3>1. Of(c) \in Actions /\ Place(c) BY JobTyped DEF GateInv
    <3> QED BY <2>1, <3>1, CommittedVerifies DEF Place
  <2>2. ASSUME NEW r \in Runs, stated[r].status = "completed", Approved(stated[r].action)
        PROVE  PersistedRunVerifies(r)
    <3>1. PICK a \in Actions : /\ stated[r].action = a /\ RunOf[a] = r
                               /\ idem[a].state = "COMMITTED" /\ manifest[r] = a
      BY <2>2 DEF GateInv, StatedInv
    <3>2. RecordsVerify(a) BY <3>1, CommittedVerifies
    <3> QED BY <2>2, <3>1, <3>2 DEF PersistedRunVerifies
  <2>3. \A r \in Runs : stated[r].status = "completed" => stated[r].action \in Actions
    BY DEF GateInv, StatedInv
  <2> QED BY <2>1, <2>2, <2>3 DEF CompletedRunVerifies
<1> QED BY <1>1, GateInvariant, PTL
=============================================================================
