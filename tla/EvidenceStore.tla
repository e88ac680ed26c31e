---------------------------- MODULE EvidenceStore ----------------------------
(***************************************************************************)
(* EvidenceStore.append and verify_record (persistence/evidence/            *)
(* evidence_store.py) on the primitives of persistence/store/atomic_store.py.*)
(*                                                                         *)
(* A record is an immutable file; a line in the event log of its Run binds  *)
(* it, each line to the one before.  The two are written one after the      *)
(* other below the file lock of the Run, by processes that may die, or fail, *)
(* in between; a line may be cut short.  A hash is taken as injective: the  *)
(* hash of a record stands for the record, the hash of an event for its      *)
(* place in the log.  An identity carries the name of its Run, as            *)
(* `<run>-evidence-<n>' does.                                                *)
(***************************************************************************)
EXTENDS Integers, Sequences, FiniteSets

CONSTANTS
  Appends,      \* calls of append, each in a process of its own
  EvidenceRuns, Ids,
  EvidenceRunOf,  \* the Run in whose name an identity was made
  Bodies,       \* contents of records
  Requests,     \* what a call may be given: an identity and a content
  NoRecord, Nobody

ASSUME EvidenceConstants ==
  /\ EvidenceRunOf \in [Ids -> EvidenceRuns]
  /\ Requests \subseteq [id : Ids, body : Bodies]
  /\ NoRecord \notin Bodies /\ Nobody \notin Appends

VARIABLES
  request,  \* what each call was given
  doing,    \* where append is
  answer,   \* what it returned or raised
  held,     \* who holds the file lock of each Run
  kept,     \* the immutable file of each identity
  log,      \* the readable lines of each Run's event log
  tail,     \* how the log ends: a line, a line without its newline, a part of one
  previous  \* the length of the log a call has read

storeVars == <<request, doing, answer, held, kept, log, tail, previous>>

StoreSteps == {"locking", "looking", "writing", "reading", "binding", "leaving", "ended", "dead"}
Replies == {"none", "created", "present", "conflict", "failed"}
Event == [id : Ids, body : Bodies, previous : Nat]

RunIn(a) == EvidenceRunOf[request[a].id]

StoreInit ==
  /\ request \in [Appends -> Requests]
  /\ doing = [a \in Appends |-> "locking"] /\ answer = [a \in Appends |-> "none"]
  /\ held = [r \in EvidenceRuns |-> Nobody]
  /\ kept = [i \in Ids |-> NoRecord]
  /\ log = [r \in EvidenceRuns |-> <<>>] /\ tail = [r \in EvidenceRuns |-> "line"]
  /\ previous = [a \in Appends |-> 0]

Move(a, step) == doing' = [doing EXCEPT ![a] = step]

Reply(a, value) == answer' = [answer EXCEPT ![a] = value] /\ Move(a, "leaving")

LockShared(a) ==   \* mutant: the lock excludes nobody
  /\ doing[a] = "locking"
  /\ held' = [held EXCEPT ![RunIn(a)] = a]
  /\ Move(a, "looking")
  /\ UNCHANGED <<request, answer, kept, log, tail, previous>>

\* exclusive_file_lock waits until the OS gives it the lock of the Run.
Lock(a) ==
  /\ doing[a] = "locking"
  /\ held[RunIn(a)] = Nobody
  /\ held' = [held EXCEPT ![RunIn(a)] = a]
  /\ Move(a, "looking")
  /\ UNCHANGED <<request, answer, kept, log, tail, previous>>

\* write_immutable_json: the same content is there already, other content is, or nothing.
Look(a) ==
  /\ doing[a] = "looking"
  /\ LET found == kept[request[a].id] IN
       \/ found = NoRecord /\ Move(a, "writing") /\ UNCHANGED answer
       \/ found = request[a].body /\ Reply(a, "present")
       \/ found \notin {NoRecord, request[a].body} /\ Reply(a, "conflict")
  /\ UNCHANGED <<request, held, kept, log, tail, previous>>

\* atomic_write_json replaces the file in one step, or raises and leaves nothing.
WriteRecord(a) ==
  /\ doing[a] = "writing"
  /\ \/ /\ kept' = [kept EXCEPT ![request[a].id] = request[a].body]
        /\ Move(a, "reading") /\ UNCHANGED answer
     \/ Reply(a, "failed") /\ UNCHANGED kept
  /\ UNCHANGED <<request, held, log, tail, previous>>

\* _read_events: a log with a part of a line in it cannot be read.
Read(a) ==
  /\ doing[a] = "reading"
  /\ \/ /\ tail[RunIn(a)] # "part"
        /\ previous' = [previous EXCEPT ![a] = Len(log[RunIn(a)])]
        /\ Move(a, "binding") /\ UNCHANGED answer
     \/ Reply(a, "failed") /\ UNCHANGED previous
  /\ UNCHANGED <<request, held, kept, log, tail>>

Binding(a) == [id |-> request[a].id, body |-> request[a].body, previous |-> previous[a]]

\* What an append of a line does to the file, as far as it gets: all of it, all but
\* the newline, or a part.  Behind a line without newline it spoils both.
Line(a, end) ==
  LET r == RunIn(a) IN
    \/ /\ tail[r] = "line" /\ end \in {"line", "open"}
       /\ log' = [log EXCEPT ![r] = Append(@, Binding(a))]
       /\ tail' = [tail EXCEPT ![r] = end]
    \/ /\ tail[r] # "line" \/ end = "part"
       /\ tail' = [tail EXCEPT ![r] = "part"]
       /\ UNCHANGED log

\* append_jsonl: the line is there; or write or fsync raised, with any part of it there.
Bind(a) ==
  /\ doing[a] = "binding"
  /\ \/ Line(a, "line") /\ Reply(a, "created")
     \/ \E end \in {"line", "open", "part"} : Line(a, end) /\ Reply(a, "failed")
     \/ Reply(a, "failed") /\ UNCHANGED <<log, tail>>
  /\ UNCHANGED <<request, held, kept, previous>>

\* Both locks are context managers: they go however append is left.
Leave(a) ==
  /\ doing[a] = "leaving"
  /\ held' = [held EXCEPT ![RunIn(a)] = Nobody]
  /\ Move(a, "ended")
  /\ UNCHANGED <<request, answer, kept, log, tail, previous>>

\* The process dies, in the midst of a line perhaps; the OS frees its lock.
CrashAppending(a) ==
  /\ doing[a] \notin {"ended", "dead"}
  /\ Move(a, "dead")
  /\ held' = IF doing[a] = "locking" THEN held ELSE [held EXCEPT ![RunIn(a)] = Nobody]
  /\ \/ UNCHANGED <<log, tail>>
     \/ doing[a] = "binding" /\ \E end \in {"line", "open", "part"} : Line(a, end)
  /\ UNCHANGED <<request, answer, kept, previous>>

AppendStep(a) == Lock(a) \/ Look(a) \/ WriteRecord(a) \/ Read(a) \/ Bind(a) \/ Leave(a)

StoreNext == \E a \in Appends : AppendStep(a) \/ CrashAppending(a)

StoreSpec == StoreInit /\ [][StoreNext]_storeVars

-----------------------------------------------------------------------------
(* verify_record                                                            *)

Chained(r) == \A k \in DOMAIN log[r] : log[r][k].previous = k - 1

EventsOf(i) == {k \in DOMAIN log[EvidenceRunOf[i]] : log[EvidenceRunOf[i]][k].id = i}

Bound(i) == \E k \in EventsOf(i) : EventsOf(i) = {k} /\ log[EvidenceRunOf[i]][k].body = kept[i]

Readable(r) == tail[r] # "part"

Verifies(i) == kept[i] # NoRecord /\ Readable(EvidenceRunOf[i]) /\ Chained(EvidenceRunOf[i]) /\ Bound(i)

-----------------------------------------------------------------------------
(* Properties.                                                              *)

StoreTypeOK ==
  /\ request \in [Appends -> Requests]
  /\ doing \in [Appends -> StoreSteps] /\ answer \in [Appends -> Replies]
  /\ held \in [EvidenceRuns -> Appends \union {Nobody}]
  /\ kept \in [Ids -> Bodies \union {NoRecord}]
  /\ log \in [EvidenceRuns -> Seq(Event)]
  /\ tail \in [EvidenceRuns -> {"line", "open", "part"}]
  /\ previous \in [Appends -> Nat]

\* Whoever appends beside whom, and dies where: the lines of a log form one chain.
ChainUnbroken == \A r \in EvidenceRuns : Chained(r)

\* An event binds the record that is there, and no record is bound twice.
BoundOnce ==
  \A i \in Ids : \A k, l \in EventsOf(i) : k = l /\ log[EvidenceRunOf[i]][k].body = kept[i]

\* A record is never replaced or taken away: "Evidence is immutable".
NeverRewritten == [][\A i \in Ids : kept[i] # NoRecord => kept'[i] = kept[i]]_kept

\* Evidence that verified once verifies for ever, as long as no later line of its Run
\* is cut short.
StaysVerified ==
  [][\A i \in Ids : Verifies(i) /\ Readable(EvidenceRunOf[i])' => Verifies(i)']_<<kept, log, tail>>

\* What append answers is true: the content is in the store, and one that it created
\* verifies if the log can be read.
AnswersTrue ==
  \A a \in Appends :
    LET i == request[a].id IN
      /\ answer[a] \in {"created", "present"} => kept[i] = request[a].body
      /\ answer[a] = "created" /\ Readable(EvidenceRunOf[i]) => Verifies(i)

\* What append_runtime_execution_evidence says of both good answers: the record is
\* durable from here on - and a Checkpoint may reference durable Evidence, by verify_record.
ConfirmedVerifies ==
  \A a \in Appends :
    answer[a] \in {"created", "present"} /\ Readable(RunIn(a)) => Verifies(request[a].id)
=============================================================================
