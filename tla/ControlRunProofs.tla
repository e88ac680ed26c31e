-------------------------- MODULE ControlRunProofs --------------------------
(***************************************************************************)
(* Machine-checked facts about a Run of the Control Plane and its          *)
(* dispatches, for every number of Runs, any providers, offers, routes and *)
(* snapshots, and wherever a Run dies: no attempt goes to a weaker         *)
(* provider; an approved plan is written once; and an application that is  *)
(* called completed is one.                                                *)
(***************************************************************************)
EXTENDS ControlRun, TLAPS

(* Providers and attempts.                                                 *)

\* A provider offers the capability with what it requires.
Sound(k, p) ==
  /\ p \in Providers /\ Offers[k][p] \in Offer
  /\ Needs[k].requires \subseteq Offers[k][p].provides

AsStrong(k, p, q) ==
  /\ Offers[k][p].safety <= Offers[k][q].safety
  /\ Offers[k][p].evidence <= Offers[k][q].evidence

\* The attempts q at capability k only get stronger, and p is as strong as any of them.
Rising(k, q) ==
  /\ \A i \in DOMAIN q : Sound(k, q[i].provider)
  /\ \A i, j \in DOMAIN q : i <= j => AsStrong(k, q[i].provider, q[j].provider)
Above(k, p, q) == Sound(k, p) /\ \A i \in DOMAIN q : AsStrong(k, q[i].provider, p)

\* The provider that is resolved is sound, and not weaker than the one before it.
LEMMA Resolves ==
  ASSUME NEW k \in Capabilities, NEW facts, NEW previous, Resolved(k, facts, previous) # None
  PROVE  /\ Sound(k, Resolved(k, facts, previous))
         /\ Sound(k, previous) => AsStrong(k, previous, Resolved(k, facts, previous))
<1> DEFINE best == Best(k, Eligible(k, facts, previous))
           p == Resolved(k, facts, previous)
<1>1. p \in best
  <2>1. PICK b \in best : best = {b} BY DEF Resolved
  <2>2. p = CHOOSE one \in best : best = {one} BY <2>1 DEF Resolved
  <2> HIDE DEF p
  <2> QED BY <2>1, <2>2
<1> HIDE DEF p
<1>2. /\ p \in Providers /\ Offers[k][p] # None
      /\ Rejection(k, facts, previous, p) = "none"
  BY <1>1 DEF Best, Eligible, Candidates
<1>3. Offers[k][p] \in Offer /\ Needs[k] \in Need
  BY <1>2, DispatchConstants
<1>4. /\ ~(Offers[k][p].safety < Floors(k, previous).safety)
      /\ ~(Offers[k][p].evidence < Floors(k, previous).evidence)
      /\ Needs[k].requires \subseteq Offers[k][p].provides
  BY <1>2 DEF Rejection
<1>5. ASSUME Sound(k, previous) PROVE AsStrong(k, previous, p)
  <2>1. /\ Floors(k, previous).safety >= Offers[k][previous].safety
        /\ Floors(k, previous).evidence >= Offers[k][previous].evidence
        /\ Floors(k, previous).safety \in Nat /\ Floors(k, previous).evidence \in Nat
    BY <1>3, <1>5, DispatchConstants DEF Sound, Floors, Offer, Need, Max2
  <2>2. /\ Offers[k][p].safety \in Nat /\ Offers[k][p].evidence \in Nat
        /\ Offers[k][previous].safety \in Nat /\ Offers[k][previous].evidence \in Nat
    BY <1>3, <1>5 DEF Sound, Offer
  <2> QED BY <1>4, <2>1, <2>2 DEF AsStrong
<1> QED BY <1>2, <1>3, <1>4, <1>5 DEF Sound, p

\* A sequence with one more element.
LEMMA AppendIs ==
  ASSUME NEW S, NEW q \in Seq(S), NEW e \in S
  PROVE  /\ Append(q, e) \in Seq(S) /\ Append(q, e) # <<>>
         /\ Len(q) \in Nat /\ Len(Append(q, e)) = Len(q) + 1
         /\ DOMAIN q = 1..Len(q) /\ DOMAIN Append(q, e) = 1..(Len(q) + 1)
         /\ Append(q, e)[Len(q) + 1] = e
         /\ \A i \in 1..Len(q) : i \in 1..(Len(q) + 1) /\ Append(q, e)[i] = q[i]
<1>1. /\ Append(q, e) \in Seq(S) /\ Len(q) \in Nat /\ Len(Append(q, e)) = Len(q) + 1
      /\ DOMAIN q = 1..Len(q) /\ DOMAIN Append(q, e) = 1..(Len(q) + 1)
      /\ Append(q, e)[Len(q) + 1] = e
  OBVIOUS
<1>2. \A i \in 1..Len(q) : i \in 1..(Len(q) + 1) /\ Append(q, e)[i] = q[i] OBVIOUS
<1>3. Append(q, e) # <<>> BY <1>1
<1> QED BY <1>1, <1>2, <1>3

AttemptRecord == [provider : Providers \union {None}, result : FailureClasses \union {"passed"}]

\* One more attempt, at the provider that is above the earlier ones.
LEMMA OneMoreAttempt ==
  ASSUME NEW k, NEW q \in Seq(AttemptRecord), NEW a \in AttemptRecord,
         Rising(k, q), Above(k, a.provider, q)
  PROVE  Rising(k, Append(q, a)) /\ Above(k, a.provider, Append(q, a))
<1> DEFINE r == Append(q, a)
           n == Len(q)
<1>1. /\ n \in Nat /\ DOMAIN q = 1..n /\ DOMAIN r = 1..(n + 1) /\ r[n + 1] = a
      /\ \A i \in 1..n : r[i] = q[i]
  BY AppendIs
<1> HIDE DEF r, n
<1>2. \A i \in DOMAIN r : Sound(k, r[i].provider) /\ AsStrong(k, r[i].provider, a.provider)
  <2>1. AsStrong(k, a.provider, a.provider) BY DEF Above, Sound, AsStrong, Offer
  <2> QED BY <1>1, <2>1 DEF Rising, Above
<1>3. \A i, j \in DOMAIN r : i <= j => AsStrong(k, r[i].provider, r[j].provider)
  <2> SUFFICES ASSUME NEW i \in DOMAIN r, NEW j \in DOMAIN r, i <= j
               PROVE  AsStrong(k, r[i].provider, r[j].provider)
    OBVIOUS
  <2>1. CASE j = n + 1 BY <1>1, <1>2, <2>1
  <2>2. CASE j # n + 1
    <3>1. i \in 1..n /\ j \in 1..n BY <1>1, <2>2
    <3> QED BY <1>1, <3>1 DEF Rising
  <2> QED BY <2>1, <2>2
<1> QED BY <1>2, <1>3 DEF Rising, Above, r

\* A provider that is as strong as the last one is above the attempts, too.
LEMMA StillAbove ==
  ASSUME NEW k, NEW p, NEW r, NEW q, Above(k, p, q), Rising(k, q), Sound(k, r), AsStrong(k, p, r)
  PROVE  Above(k, r, q)
<1>1. ASSUME NEW i \in DOMAIN q PROVE AsStrong(k, q[i].provider, r)
  BY <1>1 DEF Above, Rising, Sound, AsStrong, Offer
<1> QED BY <1>1 DEF Above

-----------------------------------------------------------------------------
(* Routes and revisions.                                                   *)

\* Where an application writes its patch.
PatchPlace == CHOOSE i \in DOMAIN Sequence["apply"] : Sequence["apply"][i] = "source.patch"

\* An application writes at one place of its route.
LEMMA PatchPlaceIs ==
  /\ PatchPlace \in DOMAIN Sequence["apply"]
  /\ \A j \in DOMAIN Sequence["apply"] : (Sequence["apply"][j] = "source.patch") = (j = PatchPlace)
<1>1. PICK i \in DOMAIN Sequence["apply"] :
        \A j \in DOMAIN Sequence["apply"] : (Sequence["apply"][j] = "source.patch") = (j = i)
  BY ControlConstants
<1>2. Sequence["apply"][i] = "source.patch" BY <1>1
<1>3. PatchPlace \in DOMAIN Sequence["apply"] /\ Sequence["apply"][PatchPlace] = "source.patch"
  BY <1>2 DEF PatchPlace
<1>4. PatchPlace = i BY <1>1, <1>3
<1> QED BY <1>1, <1>3, <1>4

\* Every place of a route is one of its capabilities, and only an application patches.
LEMMA Routed ==
  ASSUME NEW kind \in Kinds
  PROVE  /\ Sequence[kind] \in Seq(Capabilities) /\ 1 \in DOMAIN Sequence[kind]
         /\ \A i \in DOMAIN Sequence[kind] :
              /\ i \in Nat /\ Sequence[kind][i] \in Capabilities
              /\ i < Len(Sequence[kind]) => i + 1 \in DOMAIN Sequence[kind]
              /\ kind # "apply" => Sequence[kind][i] # "source.patch"
<1>1. Sequence[kind] \in Seq(Capabilities) /\ Sequence[kind] # <<>> BY ControlConstants
<1>2. 1 \in DOMAIN Sequence[kind] BY <1>1
<1>3. \A i \in DOMAIN Sequence[kind] :
        /\ i \in Nat /\ Sequence[kind][i] \in Capabilities
        /\ i < Len(Sequence[kind]) => i + 1 \in DOMAIN Sequence[kind]
  BY <1>1
<1>4. kind # "apply" => \A i \in DOMAIN Sequence[kind] : Sequence[kind][i] # "source.patch"
  BY ControlConstants
<1> QED BY <1>1, <1>2, <1>3, <1>4

\* What the Project may become without a patch: an edit of the rest counts, and a patch that is
\* taken back does not come again.
Below(a, b) ==
  \/ a.rest < b.rest
  \/ a.rest = b.rest /\ (a.target = b.target \/ (a.target = "new" /\ b.target = "old"))

\* Revisions of the Project are ordered by what may become of them without a patch.
LEMMA BelowOrders ==
  /\ \A a \in Content : Below(a, a)
  /\ \A a, b, c \in Content : Below(a, b) /\ Below(b, c) => Below(a, c)
  /\ \A a, b \in Content : Below(a, b) /\ Below(b, a) => a = b
  /\ \A a, b \in Content : Below(a, b) => a.rest <= b.rest
<1>1. \A a \in Content : Below(a, a) BY DEF Below, Content
<1>2. \A a, b, c \in Content : Below(a, b) /\ Below(b, c) => Below(a, c) BY DEF Below, Content
<1>3. \A a, b \in Content : Below(a, b) /\ Below(b, a) => a = b BY DEF Below, Content
<1>4. \A a, b \in Content : Below(a, b) => a.rest <= b.rest BY DEF Below, Content
<1> QED BY <1>1, <1>2, <1>3, <1>4

-----------------------------------------------------------------------------
(* What a Run may rely on.                                                 *)

ResultRecord == [capability : Capabilities, status : {"completed", "blocked"}]
EvidenceItem ==
  [capability : Capabilities, before : Content \union {None}, after : Content]
Observation == [capability : Capabilities, content : Content]
Patching == [run : Calls, plan : Calls \union {None}, on : Content]

\* One history goes on from another.
Onto(w, v) == \A i \in DOMAIN w : i \in DOMAIN v /\ v[i] = w[i]

\* No patch of plan p was written.
Fresh(p, w) == \A i \in DOMAIN w : w[i].plan # p

\* Capability k of Run c did its work between the revisions lo and hi of the Project.
Witnessed(c, p, seen, w, k, lo, hi) ==
  /\ lo \in Content /\ hi \in Content
  /\ k # "source.patch" =>
       \E o \in seen :
         /\ o \in Observation /\ o.capability = k
         /\ Below(lo, o.content) /\ Below(o.content, hi)
  /\ k = "source.patch" =>
       \E i \in DOMAIN w :
         /\ w[i] \in Patching /\ w[i].run = c /\ w[i].plan = p /\ w[i].on.target = "old"
         /\ lo.rest <= w[i].on.rest /\ w[i].on.rest <= hi.rest

\* What is recorded as completed was done, between the revisions that its Evidence binds.
Backed(c, p, seen, w, done, items) ==
  \A n \in DOMAIN done : done[n].status = "completed" =>
    \E e \in items : /\ e.capability = done[n].capability
                     /\ Witnessed(c, p, seen, w, e.capability, e.before, e.after)

\* The property of a completed application of plan p, which is for revision base.
Exact(c, p, base, seen, w) ==
  /\ \E i \in DOMAIN w : w[i] = [run |-> c, plan |-> p, on |-> base]
  /\ \A i \in DOMAIN Sequence["apply"] : Sequence["apply"][i] # "source.patch" =>
       [capability |-> Sequence["apply"][i],
        content |-> IF Sequence["apply"][i] \notin {"source.read", "source.patch"}
                    THEN Patched(base) ELSE base] \in seen

AllCompleted(done) == \A i \in DOMAIN done : done[i].status = "completed"

\* Work that was witnessed stays so while the histories and the Project go on.
LEMMA WitnessedStays ==
  ASSUME NEW c, NEW p, NEW s, NEW w, NEW t, NEW v, NEW k, NEW lo, NEW hi, NEW top \in Content,
         s \subseteq t, Onto(w, v), Witnessed(c, p, s, w, k, lo, hi),
         k # "source.patch" => Below(hi, top), hi.rest <= top.rest
  PROVE  Witnessed(c, p, t, v, k, lo, top)
<1>1. ASSUME k # "source.patch"
      PROVE  \E o \in t :
               /\ o \in Observation /\ o.capability = k
               /\ Below(lo, o.content) /\ Below(o.content, top)
  BY <1>1, BelowOrders DEF Witnessed, Observation
<1>2. ASSUME k = "source.patch"
      PROVE  \E i \in DOMAIN v :
               /\ v[i] \in Patching /\ v[i].run = c /\ v[i].plan = p /\ v[i].on.target = "old"
               /\ lo.rest <= v[i].on.rest /\ v[i].on.rest <= top.rest
  BY <1>2 DEF Witnessed, Onto, Patching, Content
<1> QED BY <1>1, <1>2 DEF Witnessed

\* So do the results that rest on it,
LEMMA BackedStays ==
  ASSUME NEW c, NEW p, NEW s, NEW w, NEW t, NEW v, NEW done, NEW items, NEW more,
         s \subseteq t, Onto(w, v), items \subseteq more, Backed(c, p, s, w, done, items)
  PROVE  Backed(c, p, t, v, done, more)
<1>1. ASSUME NEW k, NEW lo, NEW hi, Witnessed(c, p, s, w, k, lo, hi)
      PROVE  Witnessed(c, p, t, v, k, lo, hi)
  <2>1. hi \in Content BY <1>1 DEF Witnessed
  <2>2. Below(hi, hi) /\ hi.rest <= hi.rest BY <2>1, BelowOrders DEF Content
  <2> QED BY <1>1, <2>1, <2>2, WitnessedStays
<1> QED BY <1>1 DEF Backed

\* and what an application has concluded.
LEMMA ExactStays ==
  ASSUME NEW c, NEW p, NEW base, NEW s, NEW w, NEW t, NEW v,
         s \subseteq t, Onto(w, v), Exact(c, p, base, s, w)
  PROVE  Exact(c, p, base, t, v)
BY DEF Exact, Onto

-----------------------------------------------------------------------------
(* The invariant.                                                          *)

Places == {"idle", "route", "prepare", "before", "dispatch", "wait", "after", "finish", "decide",
           "leave", "over"}
Bindings == [provider : Providers \union {None}, profile : STRING \union {None}]
Answer ==
  [status : {"none", "completed", "unacknowledged", "partial", "blocked"},
   resolution : {"none", "failed", "resolved"}]

ControlTypes ==
  /\ pc \in [Calls -> Places] /\ entry \in [Calls -> Entry] /\ index \in [Calls -> Nat]
  /\ input \in [Calls -> Content \union {None}]
  /\ results \in [Calls -> Seq(ResultRecord)] /\ evidence \in [Calls -> SUBSET EvidenceItem]
  /\ at \in [Calls -> {"idle", "attempt", "invoke", "judge", "answered"}]
  /\ request \in [Calls -> Capabilities \union {None}]
  /\ resolution \in [Calls -> Bindings]
  /\ attempts \in [Calls -> Seq(AttemptRecord)] /\ answer \in [Calls -> Answer]
  /\ owner \in Calls \union {None}
  /\ state \in [Calls -> {"none", "running", "blocked", "completed"}]
  /\ plan \in [Calls -> Content \union {None}]
  /\ application \in [Calls -> {"none", "dispatching", "completed", "blocked"}]
  /\ project \in Content /\ written \in Seq(Patching)
  /\ observed \in [Calls -> SUBSET Observation]

\* One Run is inside; a plan is for a source that is not patched yet; a patch that was written
\* is one of an application that was begun, and the only one of its plan.
Shared ==
  /\ \A c \in Calls : (pc[c] \notin {"idle", "over"}) = (owner = c)
  /\ \A p \in Calls : plan[p] # None => plan[p].target = "old"
  /\ \A i \in DOMAIN written :
       written[i].plan \in Calls /\ application[written[i].plan] # "none"
  /\ PatchedOnce

\* A Run that has not come, or is over.
Asleep(c) ==
  /\ at[c] = "idle" /\ attempts[c] = <<>> /\ entry[c] = NoEntry /\ index[c] = 1
  /\ results[c] = <<>> /\ answer[c] = NoAnswer

Going(c) ==
  /\ (pc[c] = "wait") = (at[c] # "idle")
  /\ at[c] = "idle" => attempts[c] = <<>> /\ answer[c] = NoAnswer
  /\ pc[c] = "wait" => request[c] = Capability(c)
  /\ answer[c].status = "completed" => answer[c].resolution = "resolved"
  /\ pc[c] \in {"route", "prepare"} => index[c] = 1
  /\ pc[c] \in {"before", "dispatch", "wait", "after"} =>
       index[c] \in DOMAIN Sequence[entry[c].kind]

Strongly(c) ==
  /\ Rising(request[c], attempts[c])
  /\ at[c] \in {"attempt", "invoke", "judge"} =>
       Above(request[c], resolution[c].provider, attempts[c])

Asked(c) ==
  /\ entry[c].plan \in Calls /\ Base(c) \in Content /\ Base(c).target = "old"
  /\ Expected(c) = Base(c)

\* Up to the patch, its plan is not written; and from its dispatch on the application has begun.
Once(c) ==
  /\ pc[c] \in {"before", "dispatch"} /\ index[c] <= PatchPlace => Fresh(entry[c].plan, written)
  /\ at[c] \in {"attempt", "invoke"} /\ index[c] <= PatchPlace => Fresh(entry[c].plan, written)
  /\ at[c] = "judge" /\ LastResult(c) # "passed" /\ index[c] <= PatchPlace =>
       Fresh(entry[c].plan, written)
  /\ pc[c] \in {"wait", "after"} /\ index[c] < PatchPlace => Fresh(entry[c].plan, written)
  /\ pc[c] \in {"dispatch", "wait"} /\ index[c] = PatchPlace =>
       application[entry[c].plan] # "none"

\* From the look before the dispatch to what is concluded in the end.
Looked(c) ==
  pc[c] \in {"dispatch", "wait"} =>
    /\ input[c] \in Content /\ input[c].rest <= project.rest
    /\ Capability(c) # "source.patch" => Below(input[c], project)

Passing(c) ==
  \/ at[c] = "judge" /\ LastResult(c) = "passed"
  \/ at[c] = "answered" /\ answer[c].status = "completed"

Concluded(c) ==
  \/ pc[c] = "decide" /\ AllCompleted(results[c])
  \/ pc[c] = "leave" /\ state[c] = "completed"

Did(c) ==
  /\ Looked(c)
  /\ Passing(c) =>
       Witnessed(c, entry[c].plan, observed[c], written, Capability(c), input[c], project)
  /\ Backed(c, entry[c].plan, observed[c], written, results[c], evidence[c])
  /\ Concluded(c) => Exact(c, entry[c].plan, Base(c), observed[c], written)

Awake(c) ==
  Going(c) /\ Strongly(c) /\ (entry[c].kind = "apply" => Asked(c) /\ Once(c) /\ Did(c))

Course(c) ==
  /\ pc[c] \in {"idle", "over"} => Asleep(c)
  /\ pc[c] \notin {"idle", "over"} => Awake(c)

ControlInv == ControlTypes /\ Shared /\ \A c \in Calls : Course(c)

-----------------------------------------------------------------------------
(* Types.                                                                  *)

\* Nothing that stands for something is None.
LEMMA Distinct == None \notin Calls /\ None \notin Providers /\ None \notin Content
BY DispatchConstants, ControlConstants

\* The invariant holds when no Run has come yet.
LEMMA InitControl == Init => ControlInv
<1> SUFFICES ASSUME Init PROVE ControlInv OBVIOUS
<1>1. NoEntry \in Entry BY ControlConstants DEF NoEntry, Entry
<1>2. ControlTypes
  BY <1>1 DEF Init, DispatchInit, ControlTypes, Places, Answer, NoAnswer, NoResolution, Bindings, Content,
     Patching, AttemptRecord, ResultRecord
<1>3. Shared BY Distinct DEF Init, Shared, PatchedOnce
<1>4. \A c \in Calls : Course(c)
  BY DEF Init, DispatchInit, Course, Asleep
<1> QED BY <1>2, <1>3, <1>4 DEF ControlInv

\* What is resolved is a provider, and what is answered an answer.
LEMMA ResolvedIsProvider ==
  ASSUME NEW k, NEW facts, NEW previous, Resolved(k, facts, previous) # None
  PROVE  Resolved(k, facts, previous) \in Providers
<1> DEFINE best == Best(k, Eligible(k, facts, previous))
           p == Resolved(k, facts, previous)
<1>1. PICK b \in best : best = {b} BY DEF Resolved
<1>2. p = CHOOSE one \in best : best = {one} BY <1>1 DEF Resolved
<1> HIDE DEF p
<1>3. p \in best BY <1>1, <1>2
<1> QED BY <1>3 DEF Best, Eligible, Candidates, p

Statuses == {"completed", "unacknowledged", "partial", "blocked"}
Ends == {"none", "failed", "resolved"}

\* An answer that is returned is one.
LEMMA AnswerTyped ==
  ASSUME NEW c \in Calls, answer \in [Calls -> Answer],
         NEW s \in Statuses, NEW r \in Ends, Return(c, s, r)
  PROVE  answer' \in [Calls -> Answer]
<1>1. [status |-> s, resolution |-> r] \in Answer BY DEF Answer, Statuses, Ends
<1> QED BY <1>1 DEF Return

\* The attempts of a call, and its answer.
LEMMA AttemptsTyped ==
  ASSUME ControlTypes, NEW c \in Calls, Deliberates(c)
  PROVE  ControlTypes'
<1>1. UNCHANGED <<pc, entry, index, input, results, evidence, owner, state, plan, application,
                  project, written, observed>>
  BY DEF Deliberates, runVars, fileVars, worldVars
<1>2. UNCHANGED <<request, attempts>>
  BY DEF Deliberates, Deliberate, Attempt, LoseLease, Pass, Retry, Fallback, Stop
<1>3. at' \in [Calls -> {"idle", "attempt", "invoke", "judge", "answered"}]
  BY DEF Deliberates, Deliberate, Attempt, LoseLease, Pass, Retry, Fallback, Stop, Return,
     ControlTypes
<1>4. answer' \in [Calls -> Answer]
  <2>1. UNCHANGED answer \/ \E s \in Statuses, r \in Ends : Return(c, s, r)
    BY DEF Deliberates, Deliberate, Attempt, LoseLease, Pass, Retry, Fallback, Stop, Statuses, Ends
  <2> QED BY <2>1, AnswerTyped DEF ControlTypes
<1>5. resolution' \in [Calls -> Bindings]
  <2>1. \/ UNCHANGED resolution
        \/ \E p \in Providers :
             resolution' = [resolution EXCEPT ![c] = [provider |-> p, profile |-> None]]
    <3>1. Successor(c) # None => Successor(c) \in Providers
      <4> DEFINE p == Resolved(request[c], snapshot[c], resolution[c].provider)
      <4>1. Successor(c) # None => Successor(c) = p /\ p # None BY DEF Successor
      <4>2. p # None => p \in Providers BY ResolvedIsProvider
      <4> QED BY <4>1, <4>2
    <3>2. \/ UNCHANGED resolution
          \/ /\ Successor(c) # None
             /\ resolution' = [resolution EXCEPT ![c] =
                                 [provider |-> Successor(c), profile |-> None]]
      BY DEF Deliberates, Deliberate, Attempt, LoseLease, Pass, Retry, Fallback, Stop
    <3> QED BY <3>1, <3>2
  <2>2. ASSUME NEW p \in Providers,
               resolution' = [resolution EXCEPT ![c] = [provider |-> p, profile |-> None]]
        PROVE  resolution' \in [Calls -> Bindings]
    <3> DEFINE v == [provider |-> p, profile |-> None]
    <3>1. v \in Bindings BY DEF Bindings
    <3>2. resolution' = [resolution EXCEPT ![c] = v] BY <2>2
    <3> HIDE DEF v
    <3> QED BY <3>1, <3>2 DEF ControlTypes
  <2> QED BY <2>1, <2>2 DEF ControlTypes
<1> QED BY <1>1, <1>2, <1>3, <1>4, <1>5 DEF ControlTypes

\* A call that is begun.
LEMMA BeginTyped ==
  ASSUME ControlTypes, NEW c \in Calls, Dispatch(c), Capability(c) \in Capabilities
  PROVE  ControlTypes'
<1>1. UNCHANGED <<entry, index, input, results, evidence, owner, state, plan, application,
                  project, written, observed, attempts>>
  BY DEF Dispatch, Begin, fileVars, worldVars
<1>2. request' \in [Calls -> Capabilities \union {None}]
  BY DEF Dispatch, Begin, ControlTypes
<1>3. at' \in [Calls -> {"idle", "attempt", "invoke", "judge", "answered"}]
  <2>1. \/ at' = [at EXCEPT ![c] = "answered"] \/ at' = [at EXCEPT ![c] = "attempt"]
    BY DEF Dispatch, Begin, Return
  <2> QED BY <2>1 DEF ControlTypes
<1>4. answer' \in [Calls -> Answer]
  <2>1. UNCHANGED answer \/ \E s \in Statuses, r \in Ends : Return(c, s, r)
    BY DEF Dispatch, Begin, Statuses, Ends
  <2> QED BY <2>1, AnswerTyped DEF ControlTypes
<1>5. resolution' \in [Calls -> Bindings]
  <2> DEFINE p == Resolved(Capability(c), snapshot[c], None)
             d == [provider |-> p, profile |-> Descriptors[p].profile]
  <2>1. p # None => p \in Providers /\ Descriptors[p].profile \in STRING \union {None}
    <3>1. p # None => p \in Providers BY ResolvedIsProvider
    <3> QED BY <3>1, DispatchConstants
  <2>2. \/ resolution' = [resolution EXCEPT ![c] = NoResolution]
        \/ p # None /\ resolution' = [resolution EXCEPT ![c] = d]
    BY DEF Dispatch, Begin
  <2>3. p # None => d \in Bindings BY <2>1 DEF Bindings
  <2>4. NoResolution \in Bindings BY DEF NoResolution, Bindings
  <2> HIDE DEF p, d
  <2> QED BY <2>2, <2>3, <2>4 DEF ControlTypes
<1>6. pc' \in [Calls -> Places] BY DEF Dispatch, Goto, ControlTypes, Places
<1> QED BY <1>1, <1>2, <1>3, <1>4, <1>5, <1>6 DEF ControlTypes

-----------------------------------------------------------------------------
(* One Run takes a step.                                                   *)

\* The other Runs stay as they are.
Only(c) ==
  \A d \in Calls \ {c} :
    /\ pc'[d] = pc[d] /\ at'[d] = at[d] /\ attempts'[d] = attempts[d] /\ entry'[d] = entry[d]
    /\ index'[d] = index[d] /\ results'[d] = results[d] /\ answer'[d] = answer[d]

\* One Run is inside: a step of it leaves the others as they are, outside.
LEMMA Assembled ==
  ASSUME ControlInv, NEW c \in Calls, pc[c] \notin {"idle", "over"} \/ owner = None, Only(c),
         ControlTypes', Shared', Course(c)'
  PROVE  ControlInv'
<1>1. ASSUME NEW d \in Calls \ {c} PROVE Course(d)'
  <2>1. pc[d] \in {"idle", "over"} /\ Asleep(d) BY Distinct DEF ControlInv, Shared, Course
  <2>2. pc'[d] = pc[d] /\ Asleep(d)' BY <2>1 DEF Only, Asleep
  <2> QED BY <2>1, <2>2 DEF Course
<1> QED BY <1>1 DEF ControlInv

\* What the Runs share, when a step of a Run that is inside writes no patch.
LEMMA SharedStays ==
  ASSUME ControlInv, NEW c \in Calls, pc[c] \notin {"idle", "over"}, Only(c),
         pc'[c] \notin {"idle", "over"}, UNCHANGED <<owner, plan, written>>,
         \A p \in Calls : application[p] # "none" => application'[p] # "none"
  PROVE  Shared'
<1>1. \A d \in Calls : (pc'[d] \notin {"idle", "over"}) = (owner' = d)
  BY DEF ControlInv, Shared, Only
<1>2. \A i \in DOMAIN written' :
        written'[i].plan \in Calls /\ application'[written'[i].plan] # "none"
  BY DEF ControlInv, Shared
<1>3. (\A p \in Calls : plan[p] # None => plan[p].target = "old")' /\ PatchedOnce'
  BY DEF ControlInv, Shared, PatchedOnce
<1> QED BY <1>1, <1>2, <1>3 DEF Shared

\* Where a Run is while its call is out.
LEMMA WaitsFor ==
  ASSUME ControlInv, NEW c \in Calls, pc[c] = "wait" \/ at[c] # "idle"
  PROVE  /\ pc[c] = "wait" /\ at[c] # "idle" /\ request[c] = Capability(c)
         /\ Capability(c) \in Capabilities /\ index[c] \in DOMAIN Sequence[entry[c].kind]
         /\ index[c] \in Nat /\ entry[c] \in Entry /\ Awake(c)
         /\ entry[c].kind = "apply" => (Capability(c) = "source.patch") = (index[c] = PatchPlace)
         /\ entry[c].kind # "apply" => Capability(c) # "source.patch"
<1>1. pc[c] = "wait" /\ at[c] # "idle" /\ Awake(c)
  BY DEF ControlInv, Course, Asleep, Awake, Going
<1>2. entry[c] \in Entry /\ entry[c].kind \in Kinds BY DEF ControlInv, ControlTypes, Entry
<1>3. request[c] = Capability(c) /\ index[c] \in DOMAIN Sequence[entry[c].kind]
  BY <1>1 DEF Awake, Going
<1> QED BY <1>1, <1>2, <1>3, Routed, PatchPlaceIs DEF Capability

\* The steps that a call takes by itself.
LEMMA CallSteps ==
  ASSUME ControlTypes, NEW c \in Calls, Deliberates(c)
  PROVE  /\ UNCHANGED <<runVars, fileVars, worldVars, request, attempts>>
         /\ \E x \in {"answered", "invoke", "attempt"} : at' = [at EXCEPT ![c] = x]
         /\ at[c] \in {"attempt", "invoke", "judge"}
         /\ \/ /\ at'[c] = "answered"
               /\ answer'[c].status = "completed" =>
                    /\ at[c] = "judge" /\ LastResult(c) = "passed"
                    /\ answer'[c].resolution = "resolved"
            \/ /\ at'[c] = "invoke" /\ at[c] = "attempt"
               /\ UNCHANGED <<resolution, answer>>
            \/ /\ at'[c] = "attempt" /\ at[c] = "judge" /\ LastResult(c) # "passed"
               /\ UNCHANGED answer
               /\ \/ UNCHANGED resolution
                  \/ Successor(c) # None /\ resolution'[c].provider = Successor(c)
<1>1. UNCHANGED <<runVars, fileVars, worldVars, request, attempts>>
  BY DEF Deliberates, Deliberate, Attempt, LoseLease, Pass, Retry, Fallback, Stop
<1>2. at \in [Calls -> {"idle", "attempt", "invoke", "judge", "answered"}]
      /\ answer \in [Calls -> Answer] /\ resolution \in [Calls -> Bindings]
  BY DEF ControlTypes
<1>3. ASSUME NEW s, NEW r, Return(c, s, r)
      PROVE  /\ at' = [at EXCEPT ![c] = "answered"] /\ at'[c] = "answered"
             /\ answer'[c].status = s /\ answer'[c].resolution = r
  <2>1. answer' = [answer EXCEPT ![c] = [status |-> s, resolution |-> r]] BY <1>3 DEF Return
  <2>2. answer'[c] = [status |-> s, resolution |-> r] BY <1>2, <2>1
  <2> QED BY <1>2, <1>3, <2>2 DEF Return
<1>4. CASE Attempt(c) BY <1>1, <1>2, <1>3, <1>4 DEF Attempt
<1>5. CASE LoseLease(c) BY <1>1, <1>2, <1>3, <1>5 DEF LoseLease
<1>6. CASE Pass(c) BY <1>1, <1>2, <1>3, <1>6 DEF Pass
<1>7. CASE Retry(c) BY <1>1, <1>2, <1>7 DEF Retry, Retryable
<1>8. CASE Fallback(c)
  <2>1. resolution'[c].provider = Successor(c) BY <1>2, <1>8 DEF Fallback
  <2> QED BY <1>1, <1>2, <1>8, <2>1 DEF Fallback, Movable, Reresolvable, Retryable
<1>9. CASE Stop(c) BY <1>1, <1>2, <1>3, <1>9 DEF Stop
<1> QED BY <1>4, <1>5, <1>6, <1>7, <1>8, <1>9 DEF Deliberates, Deliberate

\* They leave what was promised of the Run alone, and never go to a weaker provider.
LEMMA CallKeeps == ASSUME ControlInv, NEW c \in Calls, Deliberates(c) PROVE ControlInv'
<1>1. ControlTypes /\ ControlTypes' BY AttemptsTyped DEF ControlInv
<1>2. /\ UNCHANGED <<runVars, fileVars, worldVars, request, attempts>>
      /\ at[c] \in {"attempt", "invoke", "judge"}
  BY <1>1, CallSteps
<1>3. /\ \A d \in Calls \ {c} : at'[d] = at[d] /\ answer'[d] = answer[d]
      /\ at'[c] \in {"answered", "invoke", "attempt"}
  <2>1. UNCHANGED answer \/ \E s, r : answer' = [answer EXCEPT ![c] = [status |-> s, resolution |-> r]]
    BY DEF Deliberates, Deliberate, Attempt, LoseLease, Pass, Retry, Fallback, Stop, Return
  <2>2. \A d \in Calls \ {c} : answer'[d] = answer[d] BY <1>1, <2>1 DEF ControlTypes
  <2> QED BY <1>1, <2>2, CallSteps DEF ControlTypes
<1>4. /\ pc[c] = "wait" /\ Awake(c) /\ request[c] \in Capabilities
      /\ Going(c) /\ Strongly(c)
  BY <1>2, WaitsFor DEF Awake
<1>5. Going(c)'
  <2>1. answer'[c].status = "completed" => answer'[c].resolution = "resolved"
    BY <1>1, <1>4, CallSteps DEF Going
  <2> QED BY <1>2, <1>3, <1>4, <2>1 DEF Going, Capability, runVars
<1>6. Strongly(c)'
  <2>1. Rising(request'[c], attempts'[c]) BY <1>2, <1>4 DEF Strongly
  <2>2. ASSUME at'[c] \in {"attempt", "invoke", "judge"}
        PROVE  Above(request'[c], resolution'[c].provider, attempts'[c])
    <3>1. \/ UNCHANGED resolution
          \/ Successor(c) # None /\ resolution'[c].provider = Successor(c)
      BY <1>1, <1>3, <2>2, CallSteps
    <3>2. CASE UNCHANGED resolution BY <1>2, <1>4, <3>2 DEF Strongly
    <3>3. CASE Successor(c) # None /\ resolution'[c].provider = Successor(c)
      <4> DEFINE p == resolution[c].provider
                 r == Resolved(request[c], snapshot[c], p)
      <4>1. Successor(c) = r /\ r # None BY <3>3 DEF Successor
      <4>2. Above(request[c], p, attempts[c]) /\ Rising(request[c], attempts[c])
        BY <1>2, <1>4 DEF Strongly
      <4>3. Sound(request[c], p) BY <4>2 DEF Above
      <4>4. Sound(request[c], r) /\ AsStrong(request[c], p, r) BY <1>4, <4>1, <4>3, Resolves
      <4> HIDE DEF p, r
      <4>5. Above(request[c], r, attempts[c]) BY <4>2, <4>4, StillAbove
      <4> QED BY <1>2, <3>3, <4>1, <4>5
    <3> QED BY <3>1, <3>2, <3>3
  <2> QED BY <2>1, <2>2 DEF Strongly
<1>7. ASSUME entry[c].kind = "apply" PROVE Asked(c)' /\ Once(c)' /\ Did(c)'
  <2>1. Asked(c) /\ Once(c) /\ Did(c) BY <1>4, <1>7 DEF Awake
  <2>2. Asked(c)' BY <1>2, <2>1 DEF Asked, Base, Expected, runVars, fileVars
  <2>3. Once(c)'
    <3>1. UNCHANGED <<pc, index, entry, written, application>>
      BY <1>2 DEF runVars, fileVars, worldVars
    <3>2. at'[c] \in {"attempt", "invoke"} =>
            at[c] \in {"attempt", "invoke"} \/ (at[c] = "judge" /\ LastResult(c) # "passed")
      BY <1>1, <1>2, <1>3, CallSteps
    <3> QED BY <1>3, <2>1, <3>1, <3>2 DEF Once
  <2>4. Did(c)'
    <3>1. UNCHANGED <<pc, index, entry, input, results, evidence, state, plan, written, project,
                      observed>>
      BY <1>2 DEF runVars, fileVars, worldVars
    <3>2. Looked(c)' BY <2>1, <3>1 DEF Did, Looked, Capability
    <3>3. Passing(c)' => Passing(c)
      <4>1. at'[c] = "answered" /\ answer'[c].status = "completed" =>
              at[c] = "judge" /\ LastResult(c) = "passed"
        BY <1>1, CallSteps
      <4> QED BY <1>3, <4>1 DEF Passing
    <3>4. Concluded(c)' => Concluded(c) BY <3>1 DEF Concluded
    <3> QED BY <2>1, <3>1, <3>2, <3>3, <3>4 DEF Did, Capability, Base
  <2> QED BY <2>2, <2>3, <2>4
<1>8. Course(c)'
  <2>1. UNCHANGED <<pc, entry>> BY <1>2 DEF runVars
  <2> QED BY <1>4, <1>5, <1>6, <1>7, <2>1 DEF Course, Awake
<1>9. Only(c) BY <1>2, <1>3 DEF Only, runVars
<1>10. Shared' BY <1>2, <1>4, <1>9, SharedStays DEF runVars, fileVars, worldVars
<1> QED BY <1>1, <1>4, <1>8, <1>9, <1>10, Assembled

-----------------------------------------------------------------------------
(* People, and a Run that is not let in.                                   *)

worldKept == <<at, request, resolution, attempts, answer, index, input, results, evidence, state,
               plan, application, written, observed>>

\* An edit of the Project takes nothing from a Run.
LEMMA Elsewhere ==
  ASSUME ControlInv, NEW d \in Calls, pc'[d] = pc[d], entry'[d] = entry[d], UNCHANGED worldKept,
         Below(project, project'), project' \in Content
  PROVE  Course(d)'
<1>1. CASE pc[d] \in {"idle", "over"}
  BY <1>1 DEF ControlInv, Course, Asleep, worldKept
<1>2. CASE pc[d] \notin {"idle", "over"}
  <2>1. Awake(d) BY <1>2 DEF ControlInv, Course
  <2>2. Going(d)' BY <2>1 DEF Awake, Going, Capability, worldKept
  <2>3. Strongly(d)' BY <2>1 DEF Awake, Strongly, worldKept
  <2>4. ASSUME entry[d].kind = "apply" PROVE Asked(d)' /\ Once(d)' /\ Did(d)'
    <3>1. Asked(d) /\ Once(d) /\ Did(d) BY <2>1, <2>4 DEF Awake
    <3>2. Asked(d)' BY <3>1 DEF Asked, Base, Expected, worldKept
    <3>3. Once(d)'
      <4>1. LastResult(d)' = LastResult(d) BY DEF LastResult, worldKept
      <4> QED BY <3>1, <4>1 DEF Once, worldKept
    <3>4. project \in Content BY DEF ControlInv, ControlTypes
    <3>5. Looked(d)'
      <4>1. Capability(d)' = Capability(d) BY DEF Capability, worldKept
      <4>2. UNCHANGED input BY DEF worldKept
      <4>3. ASSUME pc[d] \in {"dispatch", "wait"}
            PROVE  /\ input[d] \in Content /\ input[d].rest <= project'.rest
                   /\ Capability(d) # "source.patch" => Below(input[d], project')
        <5>1. /\ input[d] \in Content /\ input[d].rest <= project.rest
              /\ Capability(d) # "source.patch" => Below(input[d], project)
          BY <3>1, <4>3 DEF Did, Looked
        <5>2. project.rest <= project'.rest BY <3>4, BelowOrders
        <5>3. input[d].rest <= project'.rest BY <3>4, <5>1, <5>2 DEF Content
        <5>4. Capability(d) # "source.patch" => Below(input[d], project')
          BY <3>4, <5>1, BelowOrders
        <5> QED BY <5>1, <5>3, <5>4
      <4> QED BY <4>1, <4>2, <4>3 DEF Looked
    <3>6. ASSUME Passing(d)'
          PROVE  Witnessed(d, entry[d].plan, observed[d], written, Capability(d), input[d],
                           project')
      <4>1. Passing(d) BY <3>6 DEF Passing, LastResult, worldKept
      <4>2. Witnessed(d, entry[d].plan, observed[d], written, Capability(d), input[d], project)
        BY <3>1, <4>1 DEF Did
      <4>3. project.rest <= project'.rest BY <3>4, BelowOrders
      <4>4. Onto(written, written) BY DEF Onto
      <4> QED BY <4>2, <4>3, <4>4, WitnessedStays
    <3>7. Concluded(d)' => Concluded(d) BY DEF Concluded, worldKept
    <3>8. /\ Capability(d)' = Capability(d) /\ Base(d)' = Base(d)
          /\ UNCHANGED <<observed, written, input, results, evidence>>
      BY DEF Capability, Base, worldKept
    <3> QED BY <3>1, <3>2, <3>3, <3>5, <3>6, <3>7, <3>8 DEF Did
  <2> QED BY <1>2, <2>2, <2>3, <2>4 DEF Course, Awake
<1> QED BY <1>1, <1>2

\* Approvals and edits.
LEMMA PeopleKeep ==
  ASSUME ControlInv, (\E p \in Calls : Approve(p) \/ Withdraw(p)) \/ Edit \/ UNCHANGED vars
  PROVE  ControlInv'
<1>1. /\ UNCHANGED <<pc, entry, owner>> /\ UNCHANGED worldKept
  BY DEF Approve, Withdraw, Edit, vars, dispatchVars, runVars, fileVars, worldVars, worldKept
<1>2. project \in Content BY DEF ControlInv, ControlTypes
<1>3. Below(project, project') /\ project' \in Content
  <2>1. CASE UNCHANGED project BY <1>2, <2>1, BelowOrders
  <2>2. CASE Edit BY <1>2, <2>2 DEF Edit, Below, Content
  <2>3. UNCHANGED project \/ Edit BY DEF Approve, Withdraw, vars, worldVars
  <2> QED BY <2>1, <2>2, <2>3
<1>4. ControlTypes' BY <1>1, <1>3 DEF ControlInv, ControlTypes, worldKept
<1>5. Shared' BY <1>1 DEF ControlInv, Shared, PatchedOnce, worldKept
<1>6. \A d \in Calls : Course(d)' BY <1>1, <1>3, Elsewhere
<1> QED BY <1>4, <1>5, <1>6 DEF ControlInv

\* No attempts.
LEMMA NoAttempts == \A k : Rising(k, <<>>)
BY DEF Rising

\* A Run comes: it is let in, or not.
LEMMA EnterKeeps == ASSUME ControlInv, NEW c \in Calls, Enter(c) PROVE ControlInv'
<1>1. /\ UNCHANGED worldKept /\ UNCHANGED project /\ pc[c] = "idle" /\ Asleep(c) /\ owner # c
      /\ project \in Content
  BY DEF Enter, worldVars, worldKept, ControlInv, ControlTypes, Course, Shared
<1>2. CASE owner # None
  <2>1. /\ pc' = [pc EXCEPT ![c] = "over"] /\ UNCHANGED <<entry, owner>>
    BY <1>2 DEF Enter, Goto
  <2>2. pc'[c] = "over" /\ \A d \in Calls \ {c} : pc'[d] = pc[d]
    BY <2>1 DEF ControlInv, ControlTypes
  <2>3. ControlTypes' BY <1>1, <2>1 DEF ControlInv, ControlTypes, Places, worldKept
  <2>4. Shared' BY <1>1, <2>1, <2>2 DEF ControlInv, Shared, PatchedOnce, worldKept
  <2>5. \A d \in Calls \ {c} : Course(d)' BY <1>1, <2>1, <2>2, BelowOrders, Elsewhere
  <2>6. Course(c)' BY <1>1, <2>1, <2>2 DEF Course, Asleep, worldKept
  <2> QED BY <2>3, <2>4, <2>5, <2>6 DEF ControlInv
<1>3. CASE owner = None
  <2>1. /\ pc' = [pc EXCEPT ![c] = "route"] /\ owner' = c
        /\ \/ \E kind \in Asks[c] \ {"apply"} :
                entry' = [entry EXCEPT ![c] = [kind |-> kind, plan |-> None, expected |-> project]]
           \/ \E p \in Calls :
                /\ plan[p] # None
                /\ entry' = [entry EXCEPT ![c] =
                               [kind |-> "apply", plan |-> p, expected |-> plan[p]]]
    BY <1>3 DEF Enter, Goto
  <2>2. pc'[c] = "route" /\ \A d \in Calls \ {c} : pc'[d] = pc[d]
    BY <2>1 DEF ControlInv, ControlTypes
  <2>3. \E e \in Entry :
          /\ entry' = [entry EXCEPT ![c] = e]
          /\ e.kind = "apply" => e.plan \in Calls /\ plan[e.plan] # None /\ e.expected = plan[e.plan]
    <3>1. ASSUME NEW kind \in Asks[c] \ {"apply"}
          PROVE  [kind |-> kind, plan |-> None, expected |-> project] \in Entry
      BY <1>1, ControlConstants DEF Entry
    <3>2. ASSUME NEW p \in Calls
          PROVE  [kind |-> "apply", plan |-> p, expected |-> plan[p]] \in Entry
      BY ControlConstants DEF Entry, ControlInv, ControlTypes
    <3> QED BY <2>1, <3>1, <3>2
  <2>4. PICK e \in Entry :
          /\ entry' = [entry EXCEPT ![c] = e]
          /\ e.kind = "apply" => e.plan \in Calls /\ plan[e.plan] # None /\ e.expected = plan[e.plan]
    BY <2>3
  <2>5. entry'[c] = e /\ \A d \in Calls \ {c} : entry'[d] = entry[d]
    BY <2>4 DEF ControlInv, ControlTypes
  <2>6. ControlTypes' BY <1>1, <2>1, <2>4 DEF ControlInv, ControlTypes, Places, worldKept
  <2>7. Only(c) BY <1>1, <2>2, <2>5 DEF Only, worldKept
  <2>8. Shared' BY <1>1, <1>3, <2>1, <2>2, Distinct
          DEF ControlInv, Shared, PatchedOnce, worldKept
  <2>9. Going(c)' BY <1>1, <2>2 DEF Going, Asleep, NoAnswer, worldKept
  <2>10. Strongly(c)' BY <1>1, NoAttempts DEF Strongly, Asleep, worldKept
  <2>11. ASSUME e.kind = "apply" PROVE Asked(c)' /\ Once(c)' /\ Did(c)'
    <3>1. Asked(c)'
      BY <1>1, <2>4, <2>5, <2>11 DEF Asked, Base, Expected, worldKept, ControlInv, ControlTypes, Shared
    <3>2. Once(c)' BY <1>1, <2>2 DEF Once, Asleep, worldKept
    <3>3. Looked(c)' /\ ~Passing(c)' /\ ~Concluded(c)'
      BY <1>1, <2>2 DEF Looked, Passing, Concluded, Asleep, worldKept
    <3>4. results'[c] = <<>> BY <1>1 DEF Asleep, worldKept
    <3> QED BY <3>1, <3>2, <3>3, <3>4 DEF Did, Backed
  <2>12. Course(c)' BY <2>2, <2>5, <2>9, <2>10, <2>11 DEF Course, Awake
  <2> QED BY <1>3, <2>6, <2>7, <2>8, <2>12, Assembled
<1> QED BY <1>2, <1>3

-----------------------------------------------------------------------------
(* A Run that is inside, between its calls.                                *)

\* A Run that is inside and not in a call has no attempts and no answer.
LEMMA AtRest ==
  ASSUME ControlInv, NEW c \in Calls, pc[c] \notin {"idle", "over", "wait"}
  PROVE  /\ at[c] = "idle" /\ attempts[c] = <<>> /\ Awake(c) /\ Going(c)
         /\ entry[c] \in Entry /\ entry[c].kind \in Kinds
         /\ entry[c].kind = "apply" => Asked(c) /\ Once(c) /\ Did(c)
         /\ ~Passing(c) /\ project \in Content /\ results[c] \in Seq(ResultRecord)
         /\ index[c] \in Nat
BY DEF ControlInv, ControlTypes, Course, Awake, Going, Entry, Passing

\* What such a Run does leaves its attempts and its task alone.
LEMMA RestKeeps ==
  ASSUME ControlInv, NEW c \in Calls, pc[c] \notin {"idle", "over", "wait"},
         UNCHANGED <<at, attempts, answer, entry, plan>>
  PROVE  /\ Strongly(c)' /\ ~Passing(c)'
         /\ entry[c].kind = "apply" => Asked(c)'
BY AtRest, NoAttempts DEF Strongly, Asked, Base, Expected, Passing

\* A blocked result is not believed.
Blocking(done, k) == Append(done, [capability |-> k, status |-> "blocked"])

\* One blocked result more, and not all are completed,
LEMMA BlockedAdded ==
  ASSUME NEW done \in Seq(ResultRecord), NEW k \in Capabilities
  PROVE  Blocking(done, k) \in Seq(ResultRecord) /\ ~AllCompleted(Blocking(done, k))
<1> DEFINE r == [capability |-> k, status |-> "blocked"]
<1>1. r \in ResultRecord /\ r.status # "completed" BY DEF ResultRecord
<1>2. Blocking(done, k) = Append(done, r) BY DEF Blocking
<1> HIDE DEF r
<1>3. /\ Append(done, r) \in Seq(ResultRecord) /\ Len(done) \in Nat
      /\ DOMAIN Append(done, r) = 1..(Len(done) + 1) /\ Append(done, r)[Len(done) + 1] = r
  BY <1>1, AppendIs
<1>4. ~AllCompleted(Append(done, r)) BY <1>1, <1>3 DEF AllCompleted
<1> QED BY <1>2, <1>3, <1>4

\* while those that are completed are as well founded as before.
LEMMA BlockedBacked ==
  ASSUME NEW done \in Seq(ResultRecord), NEW k \in Capabilities, NEW c, NEW p, NEW s, NEW w,
         NEW items, Backed(c, p, s, w, done, items)
  PROVE  Backed(c, p, s, w, Blocking(done, k), items)
<1> DEFINE r == [capability |-> k, status |-> "blocked"]
           more == Append(done, r)
<1>1. r \in ResultRecord /\ r.status # "completed" BY DEF ResultRecord
<1>2. Blocking(done, k) = more BY DEF Blocking
<1> HIDE DEF r
<1>3. /\ Len(done) \in Nat /\ DOMAIN done = 1..Len(done)
      /\ DOMAIN more = 1..(Len(done) + 1) /\ more[Len(done) + 1] = r
      /\ \A i \in 1..Len(done) : more[i] = done[i]
  BY <1>1, AppendIs
<1> HIDE DEF more
<1>4. ASSUME NEW n \in DOMAIN more, more[n].status = "completed"
      PROVE  n \in DOMAIN done /\ more[n] = done[n]
  BY <1>1, <1>3, <1>4
<1> QED BY <1>2, <1>4 DEF Backed

\* A step of a Run from one place to another one, in which it only moves.
LEMMA Moves ==
  ASSUME ControlInv, NEW c \in Calls, NEW to \in Places, Goto(c, to)
  PROVE  /\ pc' \in [Calls -> Places] /\ pc'[c] = to
         /\ \A d \in Calls \ {c} : pc'[d] = pc[d]
BY DEF Goto, ControlInv, ControlTypes

\* Routing lets a Run go on or ends it.
LEMMA RouteKeeps == ASSUME ControlInv, NEW c \in Calls, Route(c) PROVE ControlInv'
<1>1. /\ pc[c] = "route" /\ UNCHANGED <<entry, index, input, results, evidence, owner, plan, approval,
                                      application, project, written, observed>>
      /\ UNCHANGED <<at, request, resolution, attempts, answer>>
  BY DEF Route, worldVars, dispatchVars
<1>2. PICK to \in {"leave", "prepare"}, s \in {"blocked", "running"} :
        Goto(c, to) /\ state' = [state EXCEPT ![c] = s]
  BY DEF Route
<1>3. pc' \in [Calls -> Places] /\ pc'[c] = to /\ \A d \in Calls \ {c} : pc'[d] = pc[d]
  BY <1>2, Moves DEF Places
<1>4. state' \in [Calls -> {"none", "running", "blocked", "completed"}]
      /\ state'[c] # "completed"
  BY <1>2 DEF ControlInv, ControlTypes
<1>5. ControlTypes' BY <1>1, <1>3, <1>4 DEF ControlInv, ControlTypes
<1>6. Only(c) BY <1>1, <1>3 DEF Only
<1>7. Shared' BY <1>1, <1>3, <1>6, SharedStays
<1>8. Going(c)' BY <1>1, <1>3, AtRest DEF Going
<1>9. ASSUME entry[c].kind = "apply" PROVE Once(c)' /\ Did(c)'
  <2>1. Did(c) BY <1>1, <1>9, AtRest
  <2>2. Once(c)' BY <1>1, <1>3, AtRest DEF Once
  <2>3. Looked(c)' BY <1>1, <1>3 DEF Looked
  <2>4. ~Concluded(c)' BY <1>1, <1>3, <1>4 DEF Concluded
  <2>5. ~Passing(c)' BY <1>1, RestKeeps
  <2> QED BY <1>1, <2>1, <2>2, <2>3, <2>4, <2>5 DEF Did
<1>10. Course(c)' BY <1>1, <1>3, <1>8, <1>9, RestKeeps DEF Course, Awake
<1> QED BY <1>1, <1>5, <1>6, <1>7, <1>10, Assembled

\* A Run gives up its capability, its preparation or its end.
LEMMA BlockedKeeps ==
  ASSUME ControlInv, NEW c \in Calls, pc[c] \in {"prepare", "before", "finish"},
         NEW to \in {"finish", "decide"}, Goto(c, to), NEW k \in Capabilities,
         results' = [results EXCEPT ![c] = Append(@, [capability |-> k, status |-> "blocked"])],
         UNCHANGED <<entry, index, input, evidence, owner, state, plan, application, project,
                     written, observed, at, request, resolution, attempts, answer>>
  PROVE  ControlInv'
<1>1. pc' \in [Calls -> Places] /\ pc'[c] = to /\ \A d \in Calls \ {c} : pc'[d] = pc[d]
  BY Moves DEF Places
<1>2. results[c] \in Seq(ResultRecord) BY DEF ControlInv, ControlTypes
<1> DEFINE more == Blocking(results[c], k)
<1>3. more \in Seq(ResultRecord) /\ ~AllCompleted(more) BY <1>2, BlockedAdded
<1>4. results' = [results EXCEPT ![c] = more] BY DEF Blocking
<1>5. /\ results' \in [Calls -> Seq(ResultRecord)] /\ results'[c] = more
      /\ \A d \in Calls \ {c} : results'[d] = results[d]
  <2> HIDE DEF more
  <2> QED BY <1>3, <1>4 DEF ControlInv, ControlTypes
<1>6. ControlTypes' BY <1>1, <1>5 DEF ControlInv, ControlTypes
<1>7. Only(c) BY <1>1, <1>5 DEF Only
<1>8. Shared' BY <1>1, <1>7, SharedStays
<1>9. Going(c)' BY <1>1, AtRest DEF Going
<1>10. ASSUME entry[c].kind = "apply" PROVE Once(c)' /\ Did(c)'
  <2>1. Did(c) BY <1>10, AtRest
  <2>2. Once(c)' BY <1>1, AtRest DEF Once
  <2>3. Looked(c)' BY <1>1 DEF Looked
  <2>4. ~Concluded(c)' BY <1>1, <1>3, <1>5 DEF Concluded
  <2>5. ~Passing(c)' BY RestKeeps
  <2>6. Backed(c, entry[c].plan, observed[c], written, more, evidence[c])
    BY <1>2, <2>1, BlockedBacked DEF Did
  <2> QED BY <1>5, <2>2, <2>3, <2>4, <2>5, <2>6 DEF Did
<1>11. Course(c)' BY <1>1, <1>9, <1>10, RestKeeps DEF Course, Awake
<1> QED BY <1>6, <1>7, <1>8, <1>11, Assembled

\* What is prepared for application was never applied: its plan is not written.
LEMMA PrepareKeeps == ASSUME ControlInv, NEW c \in Calls, Prepare(c) PROVE ControlInv'
<1>1. /\ pc[c] = "prepare"
      /\ UNCHANGED <<entry, index, input, evidence, owner, state, plan, application, project,
                     written, observed, at, request, resolution, attempts, answer>>
  BY DEF Prepare, worldVars, dispatchVars, fileVars
<1>2. "source.patch" \in Capabilities BY ControlConstants
<1>3. CASE results' = [results EXCEPT ![c] =
             Append(@, [capability |-> "source.patch", status |-> "blocked"])] /\ Goto(c, "decide")
  BY <1>1, <1>2, <1>3, BlockedKeeps
<1>4. CASE (Fix(c) => Prepared(c)) /\ Goto(c, "before") /\ UNCHANGED results
  <2>1. /\ pc' \in [Calls -> Places] /\ pc'[c] = "before"
        /\ \A d \in Calls \ {c} : pc'[d] = pc[d]
    BY <1>4, Moves DEF Places
  <2>2. ControlTypes' BY <1>1, <1>4, <2>1 DEF ControlInv, ControlTypes
  <2>3. Only(c) BY <1>1, <1>4, <2>1 DEF Only
  <2>4. Shared' BY <1>1, <2>1, <2>3, SharedStays
  <2>5. Going(c)'
    <3>1. index[c] = 1 /\ entry[c].kind \in Kinds BY <1>1, AtRest DEF Going
    <3>2. index[c] \in DOMAIN Sequence[entry[c].kind] BY <3>1, Routed
    <3> QED BY <1>1, <2>1, <3>2, AtRest DEF Going
  <2>6. ASSUME entry[c].kind = "apply" PROVE Once(c)' /\ Did(c)'
    <3>1. Asked(c) /\ Did(c) BY <1>1, <2>6, AtRest
    <3>2. application[entry[c].plan] = "none" BY <1>4, <2>6 DEF Fix, Prepared
    <3>3. Fresh(entry[c].plan, written) BY <3>2 DEF Fresh, ControlInv, Shared
    <3>4. Once(c)' BY <1>1, <2>1, <3>3, AtRest DEF Once
    <3>5. Looked(c)' /\ ~Concluded(c)' BY <2>1 DEF Looked, Concluded
    <3>6. ~Passing(c)' BY <1>1, RestKeeps
    <3> QED BY <1>1, <1>4, <3>1, <3>4, <3>5, <3>6 DEF Did
  <2>7. Course(c)' BY <1>1, <2>1, <2>5, <2>6, RestKeeps DEF Course, Awake
  <2> QED BY <1>1, <2>2, <2>3, <2>4, <2>7, Assembled
<1> QED BY <1>3, <1>4 DEF Prepare

\* The capability a Run is at.
LEMMA CapabilityIs ==
  ASSUME ControlInv, NEW c \in Calls, pc[c] \in {"before", "dispatch", "after"}
  PROVE  /\ Capability(c) \in Capabilities /\ index[c] \in DOMAIN Sequence[entry[c].kind]
         /\ entry[c].kind = "apply" =>
              (Capability(c) = "source.patch") = (index[c] = PatchPlace)
         /\ entry[c].kind # "apply" => Capability(c) # "source.patch"
<1>1. /\ entry[c].kind \in Kinds /\ index[c] \in DOMAIN Sequence[entry[c].kind]
  BY AtRest DEF Going
<1> QED BY <1>1, Routed, PatchPlaceIs DEF Capability

\* The attempt is on file before anything is dispatched.
LEMMA AcceptKeeps == ASSUME ControlInv, NEW c \in Calls, Accept(c) PROVE ControlInv'
<1>1. /\ pc[c] = "before" /\ Goto(c, "dispatch") /\ input' = [input EXCEPT ![c] = project]
      /\ UNCHANGED <<entry, index, results, evidence, owner, state, plan, project, written,
                     observed, at, request, resolution, attempts, answer>>
  BY DEF Accept, worldVars, dispatchVars
<1>2. /\ pc' \in [Calls -> Places] /\ pc'[c] = "dispatch"
      /\ \A d \in Calls \ {c} : pc'[d] = pc[d]
  BY <1>1, Moves DEF Places
<1>3. /\ Capability(c) \in Capabilities /\ index[c] \in DOMAIN Sequence[entry[c].kind]
      /\ entry[c].kind = "apply" => (Capability(c) = "source.patch") = (index[c] = PatchPlace)
      /\ entry[c].kind # "apply" => Capability(c) # "source.patch"
  BY <1>1, CapabilityIs
<1>4. project \in Content BY DEF ControlInv, ControlTypes
<1>5. input' \in [Calls -> Content \union {None}] /\ input'[c] = project
  BY <1>1, <1>4 DEF ControlInv, ControlTypes
<1>6. /\ application' \in [Calls -> {"none", "dispatching", "completed", "blocked"}]
      /\ \A p \in Calls : application[p] # "none" => application'[p] # "none"
      /\ entry[c].kind = "apply" /\ index[c] = PatchPlace => application'[entry[c].plan] # "none"
  <2>1. application \in [Calls -> {"none", "dispatching", "completed", "blocked"}]
    BY DEF ControlInv, ControlTypes
  <2>2. CASE Capability(c) = "source.patch"
    <3>1. application' = [application EXCEPT ![entry[c].plan] = "dispatching"]
      BY <2>2 DEF Accept
    <3>2. entry[c].plan \in Calls BY <1>1, <1>3, <2>2, AtRest DEF Asked
    <3> QED BY <2>1, <3>1, <3>2
  <2>3. CASE Capability(c) # "source.patch"
    <3>1. UNCHANGED application BY <2>3 DEF Accept
    <3> QED BY <1>3, <2>1, <2>3, <3>1
  <2> QED BY <2>2, <2>3
<1>7. ControlTypes' BY <1>1, <1>2, <1>5, <1>6 DEF ControlInv, ControlTypes
<1>8. Only(c) BY <1>1, <1>2 DEF Only
<1>9. Shared' BY <1>1, <1>2, <1>6, <1>8, SharedStays
<1>10. Going(c)' BY <1>1, <1>2, <1>3, AtRest DEF Going
<1>11. ASSUME entry[c].kind = "apply" PROVE Once(c)' /\ Did(c)'
  <2>1. Once(c) /\ Did(c) BY <1>1, <1>11, AtRest
  <2>2. Once(c)' BY <1>1, <1>2, <1>6, <1>11, <2>1, AtRest DEF Once
  <2>3. Looked(c)'
    <3>1. Below(project, project) /\ project.rest <= project.rest
      BY <1>4, BelowOrders DEF Content
    <3> QED BY <1>1, <1>4, <1>5, <3>1 DEF Looked
  <2>4. ~Concluded(c)' BY <1>2 DEF Concluded
  <2>5. ~Passing(c)' BY <1>1, RestKeeps
  <2> QED BY <1>1, <2>1, <2>2, <2>3, <2>4, <2>5 DEF Did
<1>12. Course(c)' BY <1>1, <1>2, <1>10, <1>11, RestKeeps DEF Course, Awake
<1> QED BY <1>1, <1>7, <1>8, <1>9, <1>12, Assembled

\* A Run is completed if all of its results are.
LEMMA DecideKeeps == ASSUME ControlInv, NEW c \in Calls, Decide(c) PROVE ControlInv'
<1>1. /\ pc[c] = "decide" /\ Goto(c, "leave")
      /\ UNCHANGED <<entry, index, input, results, evidence, owner, plan, application, project,
                     written, observed, at, request, resolution, attempts, answer>>
  BY DEF Decide, worldVars, dispatchVars
<1>2. /\ pc' \in [Calls -> Places] /\ pc'[c] = "leave"
      /\ \A d \in Calls \ {c} : pc'[d] = pc[d]
  BY <1>1, Moves DEF Places
<1>3. /\ state' \in [Calls -> {"none", "running", "blocked", "completed"}]
      /\ state'[c] = "completed" => Successful(c)
  BY DEF Decide, ControlInv, ControlTypes
<1>4. ControlTypes' BY <1>1, <1>2, <1>3 DEF ControlInv, ControlTypes
<1>5. Only(c) BY <1>1, <1>2 DEF Only
<1>6. Shared' BY <1>1, <1>2, <1>5, SharedStays
<1>7. Going(c)' BY <1>1, <1>2, AtRest DEF Going
<1>8. ASSUME entry[c].kind = "apply" PROVE Once(c)' /\ Did(c)'
  <2>1. Did(c) BY <1>1, <1>8, AtRest
  <2>2. Once(c)' BY <1>1, <1>2, AtRest DEF Once
  <2>3. Looked(c)' BY <1>2 DEF Looked
  <2>4. Concluded(c)' => Concluded(c)
    BY <1>1, <1>2, <1>3 DEF Concluded, Successful, AllCompleted
  <2>5. ~Passing(c)' BY <1>1, RestKeeps
  <2>6. Base(c)' = Base(c) BY <1>1 DEF Base
  <2> QED BY <1>1, <2>1, <2>2, <2>3, <2>4, <2>5, <2>6 DEF Did
<1>9. Course(c)' BY <1>1, <1>2, <1>7, <1>8, RestKeeps DEF Course, Awake
<1> QED BY <1>1, <1>4, <1>5, <1>6, <1>9, Assembled

\* A Run is over: its variables are gone.
LEMMA OverKeeps ==
  ASSUME ControlInv, NEW c \in Calls, pc[c] \notin {"idle", "over"}, Leave(c) \/ Crash(c)
  PROVE  ControlInv'
<1>1. /\ Over(c) /\ UNCHANGED <<plan, application, project, written>> /\ owner' = None
  BY DEF Leave, Crash, Over
<1>2. /\ pc' \in [Calls -> Places] /\ pc'[c] = "over" /\ \A d \in Calls \ {c} : pc'[d] = pc[d]
  BY <1>1, Moves DEF Over, Places
<1>3. /\ entry' = [entry EXCEPT ![c] = NoEntry] /\ index' = [index EXCEPT ![c] = 1]
      /\ input' = [input EXCEPT ![c] = None] /\ results' = [results EXCEPT ![c] = <<>>]
      /\ evidence' = [evidence EXCEPT ![c] = {}] /\ observed' = [observed EXCEPT ![c] = {}]
      /\ UNCHANGED state
  BY <1>1 DEF Over
<1>4. \/ UNCHANGED <<at, request, resolution, attempts, answer>> /\ pc[c] = "leave"
      \/ /\ at' = [at EXCEPT ![c] = "idle"] /\ request' = [request EXCEPT ![c] = None]
         /\ resolution' = [resolution EXCEPT ![c] = NoResolution]
         /\ attempts' = [attempts EXCEPT ![c] = <<>>] /\ answer' = [answer EXCEPT ![c] = NoAnswer]
  BY DEF Leave, Crash, Forget
<1>5. NoEntry \in Entry BY ControlConstants DEF NoEntry, Entry
<1>6. NoResolution \in Bindings /\ NoAnswer \in Answer
  BY DEF NoResolution, Bindings, NoAnswer, Answer
<1>7. ControlTypes'
  <2>1. /\ at' \in [Calls -> {"idle", "attempt", "invoke", "judge", "answered"}]
        /\ request' \in [Calls -> Capabilities \union {None}]
        /\ resolution' \in [Calls -> Bindings]
        /\ attempts' \in [Calls -> Seq(AttemptRecord)] /\ answer' \in [Calls -> Answer]
    <3>1. CASE UNCHANGED <<at, request, resolution, attempts, answer>>
      BY <3>1 DEF ControlInv, ControlTypes
    <3>2. CASE /\ at' = [at EXCEPT ![c] = "idle"] /\ request' = [request EXCEPT ![c] = None]
               /\ resolution' = [resolution EXCEPT ![c] = NoResolution]
               /\ attempts' = [attempts EXCEPT ![c] = <<>>]
               /\ answer' = [answer EXCEPT ![c] = NoAnswer]
      <4>1. /\ at' \in [Calls -> {"idle", "attempt", "invoke", "judge", "answered"}]
            /\ request' \in [Calls -> Capabilities \union {None}]
        BY <3>2 DEF ControlInv, ControlTypes
      <4>2. resolution' \in [Calls -> Bindings] BY <1>6, <3>2 DEF ControlInv, ControlTypes
      <4>3. <<>> \in Seq(AttemptRecord) OBVIOUS
      <4>4. attempts' \in [Calls -> Seq(AttemptRecord)]
        BY <3>2, <4>3 DEF ControlInv, ControlTypes
      <4>5. answer' \in [Calls -> Answer] BY <1>6, <3>2 DEF ControlInv, ControlTypes
      <4> QED BY <4>1, <4>2, <4>4, <4>5
    <3> QED BY <1>4, <3>1, <3>2
  <2>2. /\ entry' \in [Calls -> Entry] /\ index' \in [Calls -> Nat]
        /\ input' \in [Calls -> Content \union {None}]
        /\ results' \in [Calls -> Seq(ResultRecord)]
        /\ evidence' \in [Calls -> SUBSET EvidenceItem]
        /\ observed' \in [Calls -> SUBSET Observation]
    BY <1>3, <1>5 DEF ControlInv, ControlTypes
  <2> QED BY <1>1, <1>2, <1>3, <2>1, <2>2 DEF ControlInv, ControlTypes
<1>8. Only(c) BY <1>2, <1>3, <1>4 DEF Only, ControlInv, ControlTypes
<1>9. Shared'
  <2>1. owner = c BY DEF ControlInv, Shared
  <2>2. \A d \in Calls : (pc'[d] \notin {"idle", "over"}) = (owner' = d)
    BY <1>1, <1>2, <2>1, Distinct DEF ControlInv, Shared
  <2> QED BY <1>1, <2>2 DEF ControlInv, Shared, PatchedOnce
<1>10. Asleep(c)'
  <2>1. at'[c] = "idle" /\ attempts'[c] = <<>> /\ answer'[c] = NoAnswer
    BY <1>4, AtRest DEF ControlInv, ControlTypes, Going
  <2> QED BY <1>3, <2>1 DEF Asleep, ControlInv, ControlTypes
<1>11. Course(c)' BY <1>2, <1>10 DEF Course
<1> QED BY <1>7, <1>8, <1>9, <1>11, Assembled

\* The call begins: the broker resolves the capability, or it is answered at once.
LEMMA DispatchKeeps == ASSUME ControlInv, NEW c \in Calls, Dispatch(c) PROVE ControlInv'
<1>1. /\ pc[c] = "dispatch" /\ Goto(c, "wait")
      /\ request' = [request EXCEPT ![c] = Capability(c)]
      /\ UNCHANGED <<entry, index, input, results, evidence, owner, state, plan, application,
                     project, written, observed, attempts>>
  BY DEF Dispatch, Begin, worldVars, fileVars
<1>2. /\ pc' \in [Calls -> Places] /\ pc'[c] = "wait" /\ \A d \in Calls \ {c} : pc'[d] = pc[d]
  BY <1>1, Moves DEF Places
<1>3. /\ Capability(c) \in Capabilities /\ index[c] \in DOMAIN Sequence[entry[c].kind]
      /\ entry[c].kind = "apply" => (Capability(c) = "source.patch") = (index[c] = PatchPlace)
  BY <1>1, CapabilityIs
<1>4. ControlTypes' BY <1>3, BeginTyped DEF ControlInv
<1> DEFINE p == Resolved(Capability(c), snapshot[c], None)
<1>5. /\ \E x \in {"answered", "attempt"} : at' = [at EXCEPT ![c] = x]
      /\ UNCHANGED answer \/ \E r : answer' = [answer EXCEPT ![c] =
                                                 [status |-> "blocked", resolution |-> r]]
      /\ at'[c] = "attempt" =>
           p # None /\ resolution'[c].provider = p /\ UNCHANGED answer
  <2>1. /\ at \in [Calls -> {"idle", "attempt", "invoke", "judge", "answered"}]
        /\ resolution \in [Calls -> Bindings]
    BY DEF ControlInv, ControlTypes
  <2>2. \/ \E r : Return(c, "blocked", r)
        \/ /\ p # None /\ at' = [at EXCEPT ![c] = "attempt"] /\ UNCHANGED answer
           /\ resolution' = [resolution EXCEPT ![c] =
                [provider |-> p, profile |-> Descriptors[p].profile]]
    BY DEF Dispatch, Begin
  <2> HIDE DEF p
  <2>3. CASE \E r : Return(c, "blocked", r) BY <2>1, <2>3 DEF Return
  <2>4. CASE /\ p # None /\ at' = [at EXCEPT ![c] = "attempt"] /\ UNCHANGED answer
             /\ resolution' = [resolution EXCEPT ![c] =
                  [provider |-> p, profile |-> Descriptors[p].profile]]
    BY <2>1, <2>4
  <2> QED BY <2>2, <2>3, <2>4
<1>6. /\ at'[c] \in {"answered", "attempt"} /\ answer'[c].status # "completed"
      /\ \A d \in Calls \ {c} : at'[d] = at[d] /\ answer'[d] = answer[d]
  <2>1. answer[c] = NoAnswer BY <1>1, AtRest DEF Going
  <2>2. answer'[c].status # "completed" BY <1>5, <2>1 DEF NoAnswer, ControlInv, ControlTypes
  <2> QED BY <1>5, <2>2 DEF ControlInv, ControlTypes
<1>7. request'[c] = Capability(c) BY <1>1 DEF ControlInv, ControlTypes
<1>8. Only(c) BY <1>1, <1>2, <1>6 DEF Only
<1>9. Shared' BY <1>1, <1>2, <1>8, SharedStays
<1>10. Going(c)'
  <2>1. Capability(c)' = Capability(c) BY <1>1 DEF Capability
  <2> QED BY <1>1, <1>2, <1>3, <1>6, <1>7, <2>1 DEF Going
<1>11. Strongly(c)'
  <2>1. attempts'[c] = <<>> BY <1>1, AtRest
  <2>2. ASSUME at'[c] = "attempt" PROVE Above(Capability(c), p, <<>>)
    <3>1. p # None BY <1>5, <2>2
    <3>2. Sound(Capability(c), p) BY <1>3, <3>1, Resolves
    <3> HIDE DEF p
    <3> QED BY <3>2 DEF Above
  <2> HIDE DEF p
  <2> QED BY <1>5, <1>6, <1>7, <2>1, <2>2, NoAttempts DEF Strongly
<1> HIDE DEF p
<1>12. ASSUME entry[c].kind = "apply" PROVE Asked(c)' /\ Once(c)' /\ Did(c)'
  <2>1. Asked(c) /\ Once(c) /\ Did(c) BY <1>1, <1>12, AtRest
  <2>2. Asked(c)' BY <1>1, <2>1 DEF Asked, Base, Expected
  <2>3. Once(c)'
    <3>1. index[c] \in Nat /\ PatchPlace \in Nat
      <4>1. Sequence["apply"] \in Seq(Capabilities) BY ControlConstants
      <4>2. PatchPlace \in Nat BY <4>1, PatchPlaceIs
      <4> QED BY <1>1, <4>2, AtRest
    <3>2. index[c] <= PatchPlace => Fresh(entry[c].plan, written) BY <1>1, <2>1 DEF Once
    <3>3. index[c] < PatchPlace => index[c] <= PatchPlace BY <3>1
    <3> QED BY <1>1, <1>2, <1>6, <2>1, <3>2, <3>3 DEF Once
  <2>4. Looked(c)' BY <1>1, <1>2, <2>1 DEF Did, Looked, Capability
  <2>5. ~Concluded(c)' /\ ~Passing(c)' BY <1>2, <1>6 DEF Concluded, Passing
  <2> QED BY <1>1, <2>1, <2>2, <2>3, <2>4, <2>5 DEF Did
<1>13. Course(c)' BY <1>1, <1>2, <1>10, <1>11, <1>12 DEF Course, Awake
<1> QED BY <1>1, <1>4, <1>8, <1>9, <1>13, Assembled

\* What the call came to is recorded, with the revisions before and after it.
LEMMA RecordKeeps == ASSUME ControlInv, NEW c \in Calls, Record(c) PROVE ControlInv'
<1> DEFINE status == IF answer[c].status = "completed" THEN "completed" ELSE "blocked"
           one == [capability |-> Capability(c), status |-> status]
           item == EvidenceRecord(c)
           skips == answer[c].status = "unacknowledged" \/ answer[c].resolution = "none"
<1>1. /\ pc[c] = "wait" /\ at[c] = "answered"
      /\ \E to \in {"finish", "after"} : Goto(c, to)
      /\ results' = [results EXCEPT ![c] = Append(@, one)]
      /\ evidence' = IF skips THEN evidence ELSE [evidence EXCEPT ![c] = @ \union {item}]
      /\ UNCHANGED <<entry, index, input, owner, state, plan, application, project, written,
                     observed>>
  BY DEF Record, worldVars, fileVars
<1>2. /\ at' = [at EXCEPT ![c] = "idle"] /\ request' = [request EXCEPT ![c] = None]
      /\ resolution' = [resolution EXCEPT ![c] = NoResolution]
      /\ attempts' = [attempts EXCEPT ![c] = <<>>] /\ answer' = [answer EXCEPT ![c] = NoAnswer]
  BY DEF Record, Forget
<1>3. /\ pc' \in [Calls -> Places] /\ pc'[c] \in {"finish", "after"}
      /\ \A d \in Calls \ {c} : pc'[d] = pc[d]
  BY <1>1, Moves DEF Places
<1>4. /\ Capability(c) \in Capabilities /\ index[c] \in DOMAIN Sequence[entry[c].kind]
      /\ Awake(c)
  BY <1>1, WaitsFor
<1>5. /\ one \in ResultRecord /\ item \in EvidenceItem
      /\ item.capability = Capability(c) /\ item.before = input[c] /\ item.after = project
      /\ one.capability = Capability(c)
      /\ one.status = "completed" => answer[c].status = "completed"
  BY <1>4 DEF ResultRecord, EvidenceRecord, EvidenceItem, ControlInv, ControlTypes
<1>6. one.status = "completed" => ~skips
  BY <1>4, <1>5 DEF Awake, Going
<1> HIDE DEF one, item, skips
<1> DEFINE more == Append(results[c], one)
<1>7. /\ more \in Seq(ResultRecord) /\ Len(results[c]) \in Nat
      /\ DOMAIN results[c] = 1..Len(results[c]) /\ DOMAIN more = 1..(Len(results[c]) + 1)
      /\ more[Len(results[c]) + 1] = one
      /\ \A i \in 1..Len(results[c]) : more[i] = results[c][i]
  <2>1. results[c] \in Seq(ResultRecord) BY DEF ControlInv, ControlTypes
  <2> QED BY <1>5, <2>1, AppendIs
<1>8. results' = [results EXCEPT ![c] = more] BY <1>1
<1> HIDE DEF more
<1>9. /\ results' \in [Calls -> Seq(ResultRecord)] /\ results'[c] = more
      /\ \A d \in Calls \ {c} : results'[d] = results[d]
  BY <1>7, <1>8 DEF ControlInv, ControlTypes
<1>10. /\ evidence' \in [Calls -> SUBSET EvidenceItem] /\ evidence[c] \subseteq evidence'[c]
       /\ ~skips => item \in evidence'[c]
  BY <1>1, <1>5 DEF ControlInv, ControlTypes
<1>11. /\ at' \in [Calls -> {"idle", "attempt", "invoke", "judge", "answered"}]
       /\ at'[c] = "idle" /\ \A d \in Calls \ {c} : at'[d] = at[d]
  BY <1>2 DEF ControlInv, ControlTypes
<1>12. /\ attempts' \in [Calls -> Seq(AttemptRecord)]
       /\ attempts'[c] = <<>> /\ \A d \in Calls \ {c} : attempts'[d] = attempts[d]
  <2>1. <<>> \in Seq(AttemptRecord) OBVIOUS
  <2> QED BY <1>2, <2>1 DEF ControlInv, ControlTypes
<1>13. /\ answer' \in [Calls -> Answer]
       /\ answer'[c] = NoAnswer /\ \A d \in Calls \ {c} : answer'[d] = answer[d]
  <2>1. NoAnswer \in Answer BY DEF NoAnswer, Answer
  <2> QED BY <1>2, <2>1 DEF ControlInv, ControlTypes
<1>14. request' \in [Calls -> Capabilities \union {None}] /\ resolution' \in [Calls -> Bindings]
  <2>1. NoResolution \in Bindings BY DEF NoResolution, Bindings
  <2> QED BY <1>2, <2>1 DEF ControlInv, ControlTypes
<1>15. ControlTypes'
  BY <1>1, <1>3, <1>9, <1>10, <1>11, <1>12, <1>13, <1>14 DEF ControlInv, ControlTypes
<1>16. Only(c) BY <1>1, <1>3, <1>9, <1>11, <1>12, <1>13 DEF Only
<1>17. Shared' BY <1>1, <1>3, <1>16, SharedStays
<1>18. Going(c)' BY <1>1, <1>3, <1>4, <1>11, <1>12, <1>13 DEF Going, NoAnswer
<1>19. Strongly(c)' BY <1>11, <1>12, NoAttempts DEF Strongly
<1>20. ASSUME entry[c].kind = "apply" PROVE Asked(c)' /\ Once(c)' /\ Did(c)'
  <2>1. Asked(c) /\ Once(c) /\ Did(c) BY <1>4, <1>20 DEF Awake
  <2>2. Asked(c)' BY <1>1, <2>1 DEF Asked, Base, Expected
  <2>3. Once(c)' BY <1>1, <1>3, <1>11, <2>1 DEF Once
  <2>4. Looked(c)' BY <1>3 DEF Looked
  <2>5. ~Concluded(c)' /\ ~Passing(c)' BY <1>3, <1>11 DEF Concluded, Passing
  <2>6. Backed(c, entry[c].plan, observed[c], written, more, evidence'[c])
    <3>1. ASSUME NEW n \in DOMAIN more, more[n].status = "completed"
          PROVE  \E e \in evidence'[c] :
                   /\ e.capability = more[n].capability
                   /\ Witnessed(c, entry[c].plan, observed[c], written, e.capability, e.before,
                                e.after)
      <4>1. CASE n = Len(results[c]) + 1
        <5>1. one.status = "completed" /\ more[n] = one BY <1>7, <3>1, <4>1
        <5>2. Passing(c) BY <1>1, <1>5, <5>1 DEF Passing
        <5>3. Witnessed(c, entry[c].plan, observed[c], written, item.capability, item.before,
                        item.after)
          BY <1>5, <2>1, <5>2 DEF Did
        <5>4. item \in evidence'[c] /\ item.capability = more[n].capability
          BY <1>5, <1>6, <1>10, <5>1
        <5> QED BY <5>3, <5>4
      <4>2. CASE n # Len(results[c]) + 1
        <5>1. n \in DOMAIN results[c] /\ more[n] = results[c][n] BY <1>7, <4>2
        <5> QED BY <1>10, <2>1, <3>1, <5>1 DEF Did, Backed
      <4> QED BY <4>1, <4>2
    <3> QED BY <3>1 DEF Backed
  <2> QED BY <1>1, <1>9, <2>2, <2>3, <2>4, <2>5, <2>6 DEF Did
<1>21. Course(c)' BY <1>1, <1>3, <1>18, <1>19, <1>20 DEF Course, Awake
<1> QED BY <1>1, <1>15, <1>16, <1>17, <1>21, Assembled

\* The last result is not believed any more.
LastBlocked(done) == [done EXCEPT ![Len(done)].status = "blocked"]

\* A result that is not believed is a result, of the same capability,
LEMMA OneBlocked ==
  ASSUME NEW e \in ResultRecord
  PROVE  /\ [e EXCEPT !.status = "blocked"] \in ResultRecord
         /\ [e EXCEPT !.status = "blocked"].status = "blocked"
         /\ [e EXCEPT !.status = "blocked"].capability = e.capability
BY DEF ResultRecord

\* and the results before it stay what they were.
LEMMA LastBlockedIs ==
  ASSUME NEW done \in Seq(ResultRecord)
  PROVE  /\ LastBlocked(done) \in Seq(ResultRecord)
         /\ DOMAIN LastBlocked(done) = DOMAIN done
         /\ \A n \in DOMAIN done :
              /\ LastBlocked(done)[n].status = "completed" => done[n].status = "completed"
              /\ LastBlocked(done)[n].capability = done[n].capability
<1> DEFINE r == [done[Len(done)] EXCEPT !.status = "blocked"]
           q == LastBlocked(done)
<1>1. q = [done EXCEPT ![Len(done)] = r] BY DEF LastBlocked
<1>2. Len(done) \in DOMAIN done =>
        /\ r \in ResultRecord /\ r.status = "blocked"
        /\ r.capability = done[Len(done)].capability
  <2>1. Len(done) \in DOMAIN done => done[Len(done)] \in ResultRecord OBVIOUS
  <2> QED BY <2>1, OneBlocked
<1> HIDE DEF r, q
<1>3. /\ DOMAIN q = DOMAIN done
      /\ \A n \in DOMAIN done : q[n] = IF n = Len(done) THEN r ELSE done[n]
  BY <1>1
<1>4. \A n \in DOMAIN done :
        /\ q[n] \in ResultRecord
        /\ q[n].status = "completed" => done[n].status = "completed"
        /\ q[n].capability = done[n].capability
  BY <1>2, <1>3
<1>5. q \in Seq(ResultRecord)
  <2>1. DOMAIN done = 1..Len(done) /\ Len(done) \in Nat OBVIOUS
  <2>2. q \in [1..Len(done) -> ResultRecord]
    <3>1. q = [n \in DOMAIN done |-> q[n]] BY <1>1
    <3> QED BY <1>4, <2>1, <3>1
  <2> QED BY <2>1, <2>2
<1> QED BY <1>3, <1>4, <1>5 DEF q

\* The results that are left are as well founded as before.
LEMMA LastBlockedBacked ==
  ASSUME NEW done \in Seq(ResultRecord), NEW c, NEW p, NEW s, NEW w, NEW items,
         Backed(c, p, s, w, done, items)
  PROVE  Backed(c, p, s, w, LastBlocked(done), items)
BY LastBlockedIs DEF Backed

\* The Project is looked at once more, and the next capability follows.
LEMMA AdvanceKeeps == ASSUME ControlInv, NEW c \in Calls, Advance(c) PROVE ControlInv'
<1>1. /\ pc[c] = "after"
      /\ UNCHANGED <<entry, input, evidence, owner, state, plan, application, project, written,
                     observed, at, request, resolution, attempts, answer>>
  BY DEF Advance, worldVars, dispatchVars, fileVars
<1>2. \/ /\ index[c] < Len(Sequence[entry[c].kind]) /\ index' = [index EXCEPT ![c] = @ + 1]
         /\ Goto(c, "before") /\ UNCHANGED results
      \/ /\ Goto(c, "finish") /\ UNCHANGED index
         /\ \/ UNCHANGED results
            \/ results' = [results EXCEPT ![c] = LastBlocked(results[c])]
  BY DEF Advance, LastBlocked
<1>3. /\ pc' \in [Calls -> Places] /\ pc'[c] \in {"before", "finish"}
      /\ \A d \in Calls \ {c} : pc'[d] = pc[d]
  <2>1. \E to \in {"before", "finish"} : Goto(c, to) BY <1>2
  <2> QED BY <2>1, Moves DEF Places
<1>4. index[c] \in Nat /\ index[c] \in DOMAIN Sequence[entry[c].kind] /\ entry[c].kind \in Kinds
  BY <1>1, AtRest DEF Going
<1>5. /\ index' \in [Calls -> Nat] /\ \A d \in Calls \ {c} : index'[d] = index[d]
      /\ pc'[c] = "before" =>
           index'[c] = index[c] + 1 /\ index'[c] \in DOMAIN Sequence[entry[c].kind]
  <2>1. index \in [Calls -> Nat] BY DEF ControlInv, ControlTypes
  <2>2. CASE /\ index[c] < Len(Sequence[entry[c].kind]) /\ index' = [index EXCEPT ![c] = @ + 1]
             /\ Goto(c, "before") /\ UNCHANGED results
    <3>1. index[c] + 1 \in DOMAIN Sequence[entry[c].kind] BY <1>4, <2>2, Routed
    <3> QED BY <2>1, <2>2, <3>1
  <2>3. CASE Goto(c, "finish") /\ UNCHANGED index
    <3>1. pc'[c] = "finish" BY <2>3 DEF Goto, ControlInv, ControlTypes
    <3> QED BY <2>1, <2>3, <3>1
  <2> QED BY <1>2, <2>2, <2>3
<1>6. results[c] \in Seq(ResultRecord) BY DEF ControlInv, ControlTypes
<1> DEFINE less == LastBlocked(results[c])
<1>7. less \in Seq(ResultRecord) BY <1>6, LastBlockedIs
<1>8. /\ results' \in [Calls -> Seq(ResultRecord)]
      /\ results'[c] = results[c] \/ results'[c] = less
      /\ \A d \in Calls \ {c} : results'[d] = results[d]
  <2>1. UNCHANGED results \/ results' = [results EXCEPT ![c] = less] BY <1>2
  <2> HIDE DEF less
  <2> QED BY <1>7, <2>1 DEF ControlInv, ControlTypes
<1>9. ControlTypes' BY <1>1, <1>3, <1>5, <1>8 DEF ControlInv, ControlTypes
<1>10. Only(c) BY <1>1, <1>3, <1>5, <1>8 DEF Only
<1>11. Shared' BY <1>1, <1>3, <1>10, SharedStays
<1>12. Going(c)' BY <1>1, <1>3, <1>5, AtRest DEF Going
<1>13. ASSUME entry[c].kind = "apply" PROVE Once(c)' /\ Did(c)'
  <2>1. Once(c) /\ Did(c) BY <1>1, <1>13, AtRest
  <2>2. Once(c)'
    <3>1. PatchPlace \in Nat
      <4>1. Sequence["apply"] \in Seq(Capabilities) BY ControlConstants
      <4> QED BY <4>1, PatchPlaceIs
    <3>2. index[c] < PatchPlace => Fresh(entry[c].plan, written) BY <1>1, <2>1 DEF Once
    <3>3. pc'[c] = "before" /\ index'[c] <= PatchPlace => index[c] < PatchPlace
      BY <1>4, <1>5, <3>1
    <3> QED BY <1>1, <1>3, <3>2, <3>3, AtRest DEF Once
  <2>3. Looked(c)' /\ ~Concluded(c)' BY <1>3 DEF Looked, Concluded
  <2>4. ~Passing(c)' BY <1>1, RestKeeps
  <2>5. Backed(c, entry[c].plan, observed[c], written, results'[c], evidence[c])
    <3>1. Backed(c, entry[c].plan, observed[c], written, results[c], evidence[c])
      BY <2>1 DEF Did
    <3>2. Backed(c, entry[c].plan, observed[c], written, less, evidence[c])
      BY <1>6, <3>1, LastBlockedBacked
    <3> QED BY <1>8, <3>1, <3>2
  <2> QED BY <1>1, <2>2, <2>3, <2>4, <2>5 DEF Did
<1>14. Course(c)' BY <1>1, <1>3, <1>12, <1>13, RestKeeps DEF Course, Awake
<1> QED BY <1>1, <1>9, <1>10, <1>11, <1>14, Assembled

\* What the final comparison of an application means.
LEMMA VerifiedIsExact ==
  ASSUME ControlInv, NEW c \in Calls, pc[c] = "finish", entry[c].kind = "apply", Verified(c)
  PROVE  Exact(c, entry[c].plan, Base(c), observed[c], written)
<1> DEFINE p == entry[c].plan
           base == Base(c)
<1>1. /\ base \in Content /\ base.target = "old" /\ Expected(c) = base
      /\ Backed(c, p, observed[c], written, results[c], evidence[c])
  BY AtRest DEF Asked, Did
<1> HIDE DEF p, base
<1>2. ASSUME NEW i \in DOMAIN Sequence["apply"]
      PROVE  LET k == Sequence["apply"][i] IN
               Witnessed(c, p, observed[c], written, k, Before(c, k), After(c, k))
  <2> DEFINE k == Sequence["apply"][i]
  <2>1. PICK n \in DOMAIN results[c] : results[c][n].capability = k
    BY DEF Verified, Complete
  <2>2. results[c][n].status = "completed" BY DEF Verified, Complete, Successful
  <2>3. PICK e \in evidence[c] :
          e.capability = k /\ Witnessed(c, p, observed[c], written, k, e.before, e.after)
    BY <1>1, <2>1, <2>2 DEF Backed
  <2>4. e.before = Before(c, k) /\ e.after = After(c, k)
    BY <2>3 DEF Verified, Bound, Revision
  <2> QED BY <2>3, <2>4
<1>3. \E i \in DOMAIN written : written[i] = [run |-> c, plan |-> p, on |-> base]
  <2>1. PatchPlace \in DOMAIN Sequence["apply"] /\ Sequence["apply"][PatchPlace] = "source.patch"
    BY PatchPlaceIs
  <2>2. Before(c, "source.patch") = base /\ After(c, "source.patch") = Patched(base)
    BY <1>1 DEF Before, After, base
  <2>3. Witnessed(c, p, observed[c], written, "source.patch", base, Patched(base))
    BY <1>2, <2>1, <2>2
  <2>4. PICK i \in DOMAIN written :
          /\ written[i] \in Patching /\ written[i].run = c /\ written[i].plan = p
          /\ written[i].on.target = "old"
          /\ base.rest <= written[i].on.rest /\ written[i].on.rest <= Patched(base).rest
    BY <2>3 DEF Witnessed
  <2>5. Patched(base).rest = base.rest BY <1>1 DEF Patched, Content
  <2>6. written[i].on \in Content BY <2>4 DEF Patching
  <2>7. written[i].on = base BY <1>1, <2>4, <2>5, <2>6 DEF Content
  <2>8. written[i] = [run |-> c, plan |-> p, on |-> base] BY <2>4, <2>7 DEF Patching
  <2> QED BY <2>8
<1>4. ASSUME NEW i \in DOMAIN Sequence["apply"], Sequence["apply"][i] # "source.patch"
      PROVE  [capability |-> Sequence["apply"][i],
              content |-> IF Sequence["apply"][i] \notin {"source.read", "source.patch"}
                          THEN Patched(base) ELSE base] \in observed[c]
  <2> DEFINE k == Sequence["apply"][i]
             x == IF k \notin {"source.read", "source.patch"} THEN Patched(base) ELSE base
  <2>1. Before(c, k) = x /\ After(c, k) = x BY <1>1, <1>4 DEF Before, After, base
  <2>2. x \in Content BY <1>1 DEF Patched, Content
  <2> HIDE DEF x
  <2>3. Witnessed(c, p, observed[c], written, k, x, x) BY <1>2, <2>1
  <2> HIDE DEF k
  <2>4. k # "source.patch" BY <1>4 DEF k
  <2>5. PICK o \in observed[c] :
          /\ o \in Observation /\ o.capability = k /\ Below(x, o.content) /\ Below(o.content, x)
    BY <2>3, <2>4 DEF Witnessed
  <2>6. o.content = x BY <2>2, <2>5, BelowOrders DEF Observation
  <2>7. o = [capability |-> k, content |-> x] BY <2>5, <2>6 DEF Observation
  <2> QED BY <2>7 DEF k, x
<1> QED BY <1>3, <1>4 DEF Exact, p, base

\* The Run is out of time, or what it would have to find is not there.
LEMMA BreakKeeps ==
  ASSUME ControlInv, NEW c \in Calls, Break(c) \/ FinishFails(c) PROVE ControlInv'
<1>1. UNCHANGED <<entry, index, input, evidence, owner, state, plan, application, project, written,
                  observed, at, request, resolution, attempts, answer>>
  BY DEF Break, FinishFails, worldVars, dispatchVars, fileVars
<1>2. CASE Break(c)
  <2>1. pc[c] = "before" /\ Goto(c, "finish") BY <1>2 DEF Break
  <2>2. Capability(c) \in Capabilities BY <2>1, CapabilityIs
  <2>3. results' = [results EXCEPT ![c] =
          Append(@, [capability |-> Capability(c), status |-> "blocked"])]
    BY <1>2 DEF Break
  <2> QED BY <1>1, <2>1, <2>2, <2>3, BlockedKeeps
<1>3. CASE FinishFails(c)
  <2>1. /\ pc[c] = "finish" /\ Goto(c, "decide")
        /\ results' = [results EXCEPT ![c] =
             Append(@, [capability |-> "source.patch", status |-> "blocked"])]
    BY <1>3 DEF FinishFails
  <2>2. "source.patch" \in Capabilities BY ControlConstants
  <2> QED BY <1>1, <2>1, <2>2, BlockedKeeps
<1> QED BY <1>2, <1>3

\* The end: a plan for a proposal, and the final comparison for an application.
LEMMA FinishKeeps == ASSUME ControlInv, NEW c \in Calls, Finish(c) PROVE ControlInv'
<1>1. /\ pc[c] = "finish" /\ Goto(c, "decide")
      /\ UNCHANGED <<entry, index, input, evidence, owner, state, project, written, observed,
                     at, request, resolution, attempts, answer>>
  BY DEF Finish, worldVars, dispatchVars
<1>2. /\ pc' \in [Calls -> Places] /\ pc'[c] = "decide"
      /\ \A d \in Calls \ {c} : pc'[d] = pc[d]
  BY <1>1, Moves DEF Places
<1> DEFINE more == Blocking(results[c], "source.patch")
<1>3. /\ results[c] \in Seq(ResultRecord) /\ more \in Seq(ResultRecord)
      /\ ~AllCompleted(more)
  <2>1. results[c] \in Seq(ResultRecord) BY DEF ControlInv, ControlTypes
  <2> QED BY <2>1, BlockedAdded, ControlConstants
<1>4. /\ UNCHANGED results \/ results' = [results EXCEPT ![c] = more]
      /\ entry[c].kind = "apply" /\ ~Verified(c) => results' = [results EXCEPT ![c] = more]
  BY DEF Finish, Blocking, Fix
<1> HIDE DEF more
<1>5. /\ results' \in [Calls -> Seq(ResultRecord)]
      /\ results'[c] = results[c] \/ results'[c] = more
      /\ entry[c].kind = "apply" /\ ~Verified(c) => results'[c] = more
      /\ \A d \in Calls \ {c} : results'[d] = results[d]
  BY <1>3, <1>4 DEF ControlInv, ControlTypes
<1>6. /\ plan' \in [Calls -> Content \union {None}]
      /\ \A p \in Calls : plan'[p] # None => plan'[p].target = "old"
      /\ entry[c].kind = "apply" => UNCHANGED plan
  <2>1. /\ plan \in [Calls -> Content \union {None}] /\ project \in Content
        /\ \A p \in Calls : plan[p] # None => plan[p].target = "old"
    BY DEF ControlInv, ControlTypes, Shared
  <2>2. \/ UNCHANGED plan
        \/ /\ plan' = [plan EXCEPT ![c] = project] /\ project.target = "old"
           /\ entry[c].kind = "propose"
    BY DEF Finish
  <2> QED BY <2>1, <2>2
<1>7. /\ application' \in [Calls -> {"none", "dispatching", "completed", "blocked"}]
      /\ \A p \in Calls : application[p] # "none" => application'[p] # "none"
  <2>1. application \in [Calls -> {"none", "dispatching", "completed", "blocked"}]
    BY DEF ControlInv, ControlTypes
  <2>2. \/ UNCHANGED application
        \/ application' = [application EXCEPT ![entry[c].plan] = "completed"]
        \/ application' = [application EXCEPT ![entry[c].plan] = "blocked"]
    BY DEF Finish
  <2> QED BY <2>1, <2>2
<1>8. ControlTypes' BY <1>1, <1>2, <1>5, <1>6, <1>7 DEF ControlInv, ControlTypes
<1>9. Only(c) BY <1>1, <1>2, <1>5 DEF Only
<1>10. Shared'
  <2>1. \A d \in Calls : (pc'[d] \notin {"idle", "over"}) = (owner' = d)
    BY <1>1, <1>2 DEF ControlInv, Shared
  <2>2. \A i \in DOMAIN written' :
          written'[i].plan \in Calls /\ application'[written'[i].plan] # "none"
    BY <1>1, <1>7 DEF ControlInv, Shared
  <2>3. PatchedOnce' BY <1>1 DEF ControlInv, Shared, PatchedOnce
  <2> QED BY <1>6, <2>1, <2>2, <2>3 DEF Shared
<1>11. Going(c)' BY <1>1, <1>2, AtRest DEF Going
<1>12. Strongly(c)' BY <1>1, AtRest, NoAttempts DEF Strongly
<1>13. ASSUME entry[c].kind = "apply" PROVE Asked(c)' /\ Once(c)' /\ Did(c)'
  <2>1. Asked(c) /\ Did(c) BY <1>1, <1>13, AtRest
  <2>2. Base(c)' = Base(c) BY <1>1, <1>6, <1>13 DEF Base
  <2>3. Asked(c)' BY <1>1, <2>1, <2>2 DEF Asked, Expected
  <2>4. Once(c)' BY <1>1, <1>2, AtRest DEF Once
  <2>5. Looked(c)' BY <1>2 DEF Looked
  <2>6. ~Passing(c)' BY <1>1, AtRest DEF Passing
  <2>7. Backed(c, entry[c].plan, observed[c], written, results'[c], evidence[c])
    <3>1. Backed(c, entry[c].plan, observed[c], written, results[c], evidence[c])
      BY <2>1 DEF Did
    <3>2. Backed(c, entry[c].plan, observed[c], written, more, evidence[c])
      BY <1>3, <3>1, BlockedBacked, ControlConstants DEF more
    <3> QED BY <1>5, <3>1, <3>2
  <2>8. Concluded(c)' => Exact(c, entry[c].plan, Base(c), observed[c], written)
    <3>1. Concluded(c)' => Verified(c) BY <1>2, <1>3, <1>5, <1>13 DEF Concluded
    <3> QED BY <1>1, <1>13, <3>1, VerifiedIsExact
  <2> QED BY <1>1, <2>2, <2>3, <2>4, <2>5, <2>6, <2>7, <2>8 DEF Did
<1>14. Course(c)' BY <1>1, <1>2, <1>11, <1>12, <1>13 DEF Course, Awake
<1> QED BY <1>1, <1>8, <1>9, <1>10, <1>14, Assembled

-----------------------------------------------------------------------------
(* An executor does its work.                                              *)

Doing(c, result) ==
  IF resolution[c].provider \notin Executors THEN UNCHANGED worldVars
  ELSE IF request[c] = "source.patch" THEN PatchText(c, result) ELSE Work(c, result)

OnePatch(c) == [run |-> c, plan |-> entry[c].plan, on |-> project]

\* Three things an executor may do to the world.
Nothing == UNCHANGED <<project, written, observed>>
Patches(c) ==
  /\ project.target = "old" /\ project' = Patched(project)
  /\ written' = Append(written, OnePatch(c)) /\ UNCHANGED observed
Observes(c, result) ==
  /\ observed' = IF result = "passed"
                 THEN [observed EXCEPT ![c] =
                        @ \union {[capability |-> request[c], content |-> project]}]
                 ELSE observed
  /\ UNCHANGED project \/ project' = [project EXCEPT !.rest = @ + 1]
  /\ UNCHANGED written

\* An executor that passed did what it was asked for, and no other one patches the source.
LEMMA DoingIs ==
  ASSUME NEW c \in Calls, NEW result, Invoke(c, result), Doing(c, result)
  PROVE  \/ Nothing /\ result # "passed"
         \/ request[c] = "source.patch" /\ result = "passed" /\ Patches(c)
         \/ request[c] # "source.patch" /\ Observes(c, result)
<1>1. CASE resolution[c].provider \notin Executors
  BY <1>1 DEF Doing, Invoke, worldVars, Nothing
<1>2. CASE resolution[c].provider \in Executors /\ request[c] = "source.patch"
  BY <1>2 DEF Doing, PatchText, Nothing, Patches, OnePatch
<1>3. CASE resolution[c].provider \in Executors /\ request[c] # "source.patch"
  BY <1>3 DEF Doing, Work, Observes
<1> QED BY <1>1, <1>2, <1>3

\* What every one of them does to the Project and to what was seen and written.
Typically(c, result) ==
  /\ project' \in Content /\ project.rest <= project'.rest
  /\ written' \in Seq(Patching) /\ Onto(written, written')
  /\ observed' \in [Calls -> SUBSET Observation] /\ observed[c] \subseteq observed'[c]
  /\ request[c] # "source.patch" \/ result # "passed" =>
       Below(project, project') /\ UNCHANGED written

\* Each of the three does so.
LEMMA DoingTyped ==
  ASSUME ControlInv, NEW c \in Calls, NEW result, Invoke(c, result), Doing(c, result),
         request[c] \in Capabilities, request[c] = "source.patch" => entry[c].plan \in Calls
  PROVE  Typically(c, result)
<1>1. /\ project \in Content /\ project.rest \in Nat /\ written \in Seq(Patching)
      /\ observed \in [Calls -> SUBSET Observation]
  BY DEF ControlInv, ControlTypes, Content
<1>2. Onto(written, written) BY DEF Onto
<1>3. CASE Nothing /\ result # "passed"
  BY <1>1, <1>2, <1>3, BelowOrders DEF Nothing, Typically
<1>4. CASE request[c] = "source.patch" /\ result = "passed" /\ Patches(c)
  <2>1. project' \in Content /\ project'.rest = project.rest
    BY <1>1, <1>4 DEF Patches, Patched, Content
  <2>2. OnePatch(c) \in Patching BY <1>1, <1>4 DEF OnePatch, Patching
  <2>3. written' \in Seq(Patching) /\ Onto(written, written')
    BY <1>1, <1>4, <2>2, AppendIs DEF Patches, Onto
  <2> QED BY <1>1, <1>4, <2>1, <2>3 DEF Patches, Typically
<1>5. CASE request[c] # "source.patch" /\ Observes(c, result)
  <2>1. /\ project' \in Content /\ project.rest <= project'.rest
        /\ Below(project, project')
    <3>1. CASE UNCHANGED project BY <1>1, <3>1, BelowOrders
    <3>2. CASE project' = [project EXCEPT !.rest = @ + 1]
      BY <1>1, <3>2 DEF Below, Content
    <3> QED BY <1>5, <3>1, <3>2 DEF Observes
  <2>2. observed' \in [Calls -> SUBSET Observation] /\ observed[c] \subseteq observed'[c]
    <3> DEFINE o == [capability |-> request[c], content |-> project]
    <3>1. o \in Observation BY <1>1 DEF Observation
    <3>2. UNCHANGED observed \/ observed' = [observed EXCEPT ![c] = @ \union {o}]
      BY <1>5 DEF Observes
    <3> HIDE DEF o
    <3> QED BY <1>1, <3>1, <3>2
  <2> QED BY <1>1, <1>2, <1>5, <2>1, <2>2 DEF Observes, Typically
<1> QED BY <1>3, <1>4, <1>5, DoingIs

\* A capability that passed is witnessed.
LEMMA DoingWitnessed ==
  ASSUME ControlInv, NEW c \in Calls, Invoke(c, "passed"), Doing(c, "passed"),
         request[c] \in Capabilities, request[c] = "source.patch" => entry[c].plan \in Calls,
         input[c] \in Content, input[c].rest <= project.rest,
         request[c] # "source.patch" => Below(input[c], project)
  PROVE  Witnessed(c, entry[c].plan, observed'[c], written', request[c], input[c], project')
<1>1. /\ project \in Content /\ written \in Seq(Patching)
      /\ observed \in [Calls -> SUBSET Observation]
  BY DEF ControlInv, ControlTypes
<1>2. Typically(c, "passed") BY DoingTyped
<1>3. ASSUME request[c] = "source.patch"
      PROVE  \E i \in DOMAIN written' :
               /\ written'[i] \in Patching /\ written'[i].run = c
               /\ written'[i].plan = entry[c].plan /\ written'[i].on.target = "old"
               /\ input[c].rest <= written'[i].on.rest /\ written'[i].on.rest <= project'.rest
  <2>1. Patches(c) BY <1>3, DoingIs
  <2>2. OnePatch(c) \in Patching BY <1>1, <1>3 DEF OnePatch, Patching
  <2>3. PICK i \in DOMAIN written' : written'[i] = OnePatch(c)
    <3>1. /\ Len(written) \in Nat /\ DOMAIN Append(written, OnePatch(c)) = 1..(Len(written) + 1)
          /\ Append(written, OnePatch(c))[Len(written) + 1] = OnePatch(c)
      BY <1>1, <2>2, AppendIs
    <3> QED BY <2>1, <3>1 DEF Patches
  <2>4. /\ OnePatch(c).run = c /\ OnePatch(c).plan = entry[c].plan /\ OnePatch(c).on = project
        /\ project.target = "old"
    BY <2>1 DEF OnePatch, Patches
  <2> QED BY <1>2, <2>2, <2>3, <2>4 DEF Typically
<1>4. ASSUME request[c] # "source.patch"
      PROVE  \E o \in observed'[c] :
               /\ o \in Observation /\ o.capability = request[c]
               /\ Below(input[c], o.content) /\ Below(o.content, project')
  <2> DEFINE o == [capability |-> request[c], content |-> project]
  <2>1. o \in Observation /\ o.capability = request[c] /\ o.content = project
    BY <1>1 DEF Observation
  <2>2. Observes(c, "passed") BY <1>4, DoingIs
  <2>3. o \in observed'[c]
    <3>1. observed' = [observed EXCEPT ![c] = @ \union {o}] BY <2>2 DEF Observes
    <3> HIDE DEF o
    <3> QED BY <1>1, <3>1
  <2>4. Below(input[c], project) /\ Below(project, project')
    BY <1>2, <1>4 DEF Typically
  <2> HIDE DEF o
  <2> QED BY <2>1, <2>3, <2>4
<1> QED BY <1>2, <1>3, <1>4 DEF Witnessed, Typically

\* One more attempt at the provider that was resolved; a patch is written at most once.
LEMMA ExecuteKeeps == ASSUME ControlInv, NEW c \in Calls, Execute(c) PROVE ControlInv'
<1>1. PICK result \in FailureClasses \union {"passed"} : Invoke(c, result) /\ Doing(c, result)
  BY DEF Execute, Doing
<1>2. /\ at[c] = "invoke" /\ at' = [at EXCEPT ![c] = "judge"]
      /\ UNCHANGED <<pc, entry, index, input, results, evidence, owner, state, plan, application,
                     request, resolution, answer>>
  BY <1>1 DEF Execute, Invoke, runVars, fileVars
<1>3. /\ pc[c] = "wait" /\ request[c] = Capability(c) /\ Capability(c) \in Capabilities
      /\ Awake(c) /\ Going(c) /\ Strongly(c) /\ index[c] \in Nat
      /\ entry[c].kind = "apply" => (Capability(c) = "source.patch") = (index[c] = PatchPlace)
      /\ entry[c].kind # "apply" => Capability(c) # "source.patch"
  BY <1>2, WaitsFor DEF Awake
<1>4. request[c] = "source.patch" => entry[c].kind = "apply" /\ entry[c].plan \in Calls
  BY <1>3 DEF Awake, Asked
<1>5. Typically(c, result) BY <1>1, <1>3, <1>4, DoingTyped
<1> DEFINE one == [provider |-> resolution[c].provider, result |-> result]
           more == Append(attempts[c], one)
<1>6. one \in AttemptRecord /\ one.provider = resolution[c].provider /\ one.result = result
  BY DEF AttemptRecord, ControlInv, ControlTypes, Bindings
<1>7. attempts[c] \in Seq(AttemptRecord) BY DEF ControlInv, ControlTypes
<1>8. attempts' = [attempts EXCEPT ![c] = more] BY <1>1 DEF Invoke
<1> HIDE DEF one
<1>9. /\ more \in Seq(AttemptRecord) /\ Len(more) = Len(attempts[c]) + 1
      /\ more[Len(attempts[c]) + 1] = one
  BY <1>6, <1>7, AppendIs
<1>10. Rising(request[c], more) /\ Above(request[c], resolution[c].provider, more)
  <2>1. /\ Rising(request[c], attempts[c])
        /\ Above(request[c], one.provider, attempts[c])
    BY <1>2, <1>3, <1>6 DEF Strongly
  <2> QED BY <1>6, <1>7, <2>1, OneMoreAttempt
<1> HIDE DEF more
<1>11. /\ attempts' \in [Calls -> Seq(AttemptRecord)] /\ attempts'[c] = more
       /\ \A d \in Calls \ {c} : attempts'[d] = attempts[d]
  BY <1>8, <1>9 DEF ControlInv, ControlTypes
<1>12. LastResult(c)' = result BY <1>6, <1>9, <1>11 DEF LastResult
<1>13. /\ at' \in [Calls -> {"idle", "attempt", "invoke", "judge", "answered"}]
       /\ at'[c] = "judge" /\ \A d \in Calls \ {c} : at'[d] = at[d]
  BY <1>2 DEF ControlInv, ControlTypes
<1>14. ControlTypes' BY <1>2, <1>5, <1>11, <1>13 DEF ControlInv, ControlTypes, Typically
<1>15. Only(c) BY <1>2, <1>11, <1>13 DEF Only
<1>16. ASSUME UNCHANGED written PROVE Shared'
  BY <1>2, <1>3, <1>15, <1>16, SharedStays
<1>17. ASSUME request[c] = "source.patch", result = "passed" PROVE Shared'
  <2> DEFINE p == entry[c].plan
  <2>1. /\ Fresh(p, written) /\ application[p] # "none" /\ p \in Calls
    <3>1. PatchPlace \in Nat
      <4>1. Sequence["apply"] \in Seq(Capabilities) BY ControlConstants
      <4> QED BY <4>1, PatchPlaceIs
    <3>2. Once(c) /\ index[c] = PatchPlace BY <1>3, <1>4, <1>17 DEF Awake
    <3> QED BY <1>2, <1>3, <1>4, <1>17, <3>1, <3>2 DEF Once
  <2>2. written' = Append(written, OnePatch(c)) BY <1>1, <1>17, DoingIs DEF Nothing, Patches
  <2>3. OnePatch(c) \in Patching /\ OnePatch(c).plan = p
    BY <2>1 DEF OnePatch, Patching, ControlInv, ControlTypes
  <2>4. /\ Len(written) \in Nat /\ DOMAIN written = 1..Len(written)
        /\ DOMAIN written' = 1..(Len(written) + 1) /\ written'[Len(written) + 1] = OnePatch(c)
        /\ \A i \in 1..Len(written) : written'[i] = written[i]
    <3>1. written \in Seq(Patching) BY DEF ControlInv, ControlTypes
    <3> QED BY <2>2, <2>3, <3>1, AppendIs
  <2> HIDE DEF p
  <2>5. \A d \in Calls : (pc'[d] \notin {"idle", "over"}) = (owner' = d)
    BY <1>2 DEF ControlInv, Shared
  <2>6. \A i \in DOMAIN written' :
          written'[i].plan \in Calls /\ application'[written'[i].plan] # "none"
    BY <1>2, <2>1, <2>3, <2>4 DEF ControlInv, Shared
  <2>7. PatchedOnce'
    <3> SUFFICES ASSUME NEW i \in DOMAIN written', NEW j \in DOMAIN written',
                        written'[i].plan = written'[j].plan
                 PROVE  i = j
      BY DEF PatchedOnce
    <3>1. \A n \in 1..Len(written) : written'[n].plan # p BY <2>1, <2>4 DEF Fresh
    <3>2. CASE i = Len(written) + 1 BY <2>3, <2>4, <3>1, <3>2
    <3>3. CASE j = Len(written) + 1 BY <2>3, <2>4, <3>1, <3>3
    <3>4. CASE i # Len(written) + 1 /\ j # Len(written) + 1
      <4>1. i \in DOMAIN written /\ j \in DOMAIN written BY <2>4, <3>4
      <4> QED BY <2>4, <4>1 DEF ControlInv, Shared, PatchedOnce
    <3> QED BY <3>2, <3>3, <3>4
  <2>8. \A q \in Calls : plan'[q] # None => plan'[q].target = "old"
    BY <1>2 DEF ControlInv, Shared
  <2> QED BY <2>5, <2>6, <2>7, <2>8 DEF Shared
<1>18. Shared' BY <1>5, <1>16, <1>17 DEF Typically
<1>19. Going(c)' BY <1>2, <1>3, <1>13 DEF Going, Capability
<1>20. Strongly(c)' BY <1>2, <1>10, <1>11 DEF Strongly
<1>21. ASSUME entry[c].kind = "apply" PROVE Asked(c)' /\ Once(c)' /\ Did(c)'
  <2>1. Asked(c) /\ Once(c) /\ Did(c) BY <1>3, <1>21 DEF Awake
  <2>2. Asked(c)' BY <1>2, <2>1 DEF Asked, Base, Expected
  <2>3. Once(c)'
    <3>1. index[c] <= PatchPlace => Fresh(entry[c].plan, written) BY <1>2, <2>1 DEF Once
    <3>2. result # "passed" => UNCHANGED written BY <1>5 DEF Typically
    <3>3. index[c] < PatchPlace => Fresh(entry[c].plan, written) /\ UNCHANGED written
      <4>1. PatchPlace \in Nat
        <5>1. Sequence["apply"] \in Seq(Capabilities) BY ControlConstants
        <5> QED BY <5>1, PatchPlaceIs
      <4>2. index[c] < PatchPlace => request[c] # "source.patch" BY <1>3, <1>21, <4>1
      <4> QED BY <1>3, <1>5, <2>1, <4>2 DEF Once, Typically
    <3> QED BY <1>2, <1>3, <1>12, <1>13, <2>1, <3>1, <3>2, <3>3 DEF Once
  <2>4. /\ input[c] \in Content /\ input[c].rest <= project.rest
        /\ Capability(c) # "source.patch" => Below(input[c], project)
        /\ project \in Content
    BY <1>3, <2>1 DEF Did, Looked, ControlInv, ControlTypes
  <2>5. Looked(c)'
    <3>1. input[c].rest <= project'.rest BY <1>5, <2>4 DEF Typically, Content
    <3>2. Capability(c) # "source.patch" => Below(input[c], project')
      BY <1>3, <1>5, <2>4, BelowOrders DEF Typically
    <3>3. Capability(c)' = Capability(c) BY <1>2 DEF Capability
    <3> QED BY <1>2, <2>4, <3>1, <3>2, <3>3 DEF Looked
  <2>6. Passing(c)' =>
          Witnessed(c, entry[c].plan, observed'[c], written', Capability(c), input[c], project')
    <3>1. Passing(c)' => result = "passed" BY <1>12, <1>13 DEF Passing
    <3> QED BY <1>1, <1>3, <1>4, <2>4, <3>1, DoingWitnessed
  <2>7. Backed(c, entry[c].plan, observed'[c], written', results[c], evidence[c])
    BY <1>5, <2>1, BackedStays DEF Did, Typically
  <2>8. ~Concluded(c)' BY <1>2, <1>3 DEF Concluded
  <2>9. Capability(c)' = Capability(c) BY <1>2 DEF Capability
  <2> QED BY <1>2, <2>2, <2>3, <2>5, <2>6, <2>7, <2>8, <2>9 DEF Did
<1>22. Course(c)' BY <1>2, <1>3, <1>19, <1>20, <1>21 DEF Course, Awake
<1> QED BY <1>3, <1>14, <1>15, <1>18, <1>22, Assembled

-----------------------------------------------------------------------------
(* The theorems.                                                           *)

\* Every step of every Run, and of people, keeps the invariant.
LEMMA StepKeeps == ControlInv /\ [Next]_vars => ControlInv'
<1> SUFFICES ASSUME ControlInv, [Next]_vars PROVE ControlInv' OBVIOUS
<1>1. ASSUME NEW c \in Calls, Step(c) PROVE ControlInv'
  <2>1. Leave(c) => pc[c] = "leave" BY DEF Leave
  <2> QED BY <1>1, <2>1, RouteKeeps, PrepareKeeps, AcceptKeeps, BreakKeeps, DispatchKeeps, CallKeeps,
             ExecuteKeeps, RecordKeeps, AdvanceKeeps, FinishKeeps, DecideKeeps, OverKeeps DEF Step
<1>2. ASSUME NEW c \in Calls, Crash(c) PROVE ControlInv'
  <2>1. pc[c] \notin {"idle", "over"} BY <1>2 DEF Crash
  <2> QED BY <1>2, <2>1, OverKeeps
<1>3. CASE (\E p \in Calls : Approve(p) \/ Withdraw(p)) \/ Edit \/ UNCHANGED vars
  BY <1>3, PeopleKeep
<1> QED BY <1>1, <1>2, <1>3, EnterKeeps DEF Next

\* It holds in every state that can be reached.
LEMMA ControlInvariant == Spec => []ControlInv
<1>1. Init => ControlInv BY InitControl
<1> QED BY <1>1, StepKeeps, PTL DEF Spec

\* Whatever fails, and however often providers take turns, no attempt of a call goes to a
\* provider weaker than one before it (dispatch_capability and the fallback policy).
THEOREM NeverWeaker == Spec => []FallbackNeverWeaker
<1>1. ControlInv => FallbackNeverWeaker
  <2> SUFFICES ASSUME ControlInv, NEW c \in Calls, NEW j \in DOMAIN attempts[c]
               PROVE  /\ Sound(request[c], attempts[c][j].provider)
                      /\ \A i \in 1..j : AsStrong(request[c], attempts[c][i].provider,
                                                 attempts[c][j].provider)
    BY DEF FallbackNeverWeaker, Sound, AsStrong
  <2>1. Rising(request[c], attempts[c])
    <3>1. CASE pc[c] \in {"idle", "over"}
      BY <3>1, NoAttempts DEF ControlInv, Course, Asleep
    <3>2. CASE pc[c] \notin {"idle", "over"}
      BY <3>2 DEF ControlInv, Course, Awake, Strongly
    <3> QED BY <3>1, <3>2
  <2>2. attempts[c] \in Seq(AttemptRecord) BY DEF ControlInv, ControlTypes
  <2>3. \A i \in 1..j : i \in DOMAIN attempts[c] /\ i <= j BY <2>2
  <2> QED BY <2>1, <2>3 DEF Rising
<1> QED BY <1>1, ControlInvariant, PTL

\* An approved plan is written at most once: not again after a death, an edit that takes the
\* patch back, or by another Run with the same approval (csharp_fix.prepare and before_capability).
THEOREM PatchesOnce == Spec => []PatchedOnce
<1>1. ControlInv => PatchedOnce BY DEF ControlInv, Shared
<1> QED BY <1>1, ControlInvariant, PTL

\* An application that is called completed wrote this plan's patch on the approved revision, and
\* every gate that passed was looking at its exact result (csharp_fix.finish).
THEOREM CompletedExactly == Spec => []CompletedIsExact
<1>1. ControlInv => CompletedIsExact
  <2> SUFFICES ASSUME ControlInv, NEW c \in Calls, pc[c] = "leave", state[c] = "completed",
                      entry[c].kind = "apply"
               PROVE  /\ \E i \in DOMAIN written :
                           written[i] = [run |-> c, plan |-> entry[c].plan, on |-> Base(c)]
                      /\ \A i \in DOMAIN Sequence["apply"] :
                           Sequence["apply"][i] # "source.patch" =>
                             [capability |-> Sequence["apply"][i],
                              content |-> Before(c, Sequence["apply"][i])] \in observed[c]
    BY DEF CompletedIsExact
  <2>1. /\ Exact(c, entry[c].plan, Base(c), observed[c], written)
        /\ Expected(c) = Base(c)
    BY AtRest DEF Did, Concluded, Asked
  <2>2. \A k : Before(c, k) = IF k \notin {"source.read", "source.patch"}
                             THEN Patched(Base(c)) ELSE Base(c)
    BY <2>1 DEF Before
  <2> QED BY <2>1, <2>2 DEF Exact
<1> QED BY <1>1, ControlInvariant, PTL
=============================================================================
