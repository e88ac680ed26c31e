---------------------------- MODULE ReferenceGate ----------------------------
(***************************************************************************)
(* The gate of the reference runtime (runtime/reference_implementation/     *)
(* runtime.py): how one approved, typed action reaches a Unity Project at    *)
(* most once, and is called done only with durable evidence.                 *)
(*                                                                         *)
(* A call dispatches an action or recovers one that was left in doubt; calls *)
(* run in processes of their own, that may die.  Two ledgers on disk, one of *)
(* idempotency keys and one of reservations, are each read and written below *)
(* the file lock of the Run, so that one transition of one ledger is a step, *)
(* and nothing spans two steps.  An action stands for its digest, which      *)
(* covers its key, its target and its approval.  Around the gate, the Control *)
(* Plane writes the ExecutionState of the Run, when it hands over and when it *)
(* has the outcome; a later execution of the same Run writes over it.        *)
(***************************************************************************)
EXTENDS Integers, FiniteSets

CONSTANTS
  Calls,
  Actions, Runs, Keys, Approvals,
  RunOf, KeyOf, ApprovalOf,   \* an action's Run, idempotency key and approval
  KindCount,      \* how many kinds of evidence the profile requires
  Jobs,           \* what a call may be asked to do
  Nothing

Kinds == 1..KindCount
Operations == {"dispatch", "recover"}

ASSUME GateConstants ==
  /\ RunOf \in [Actions -> Runs] /\ KeyOf \in [Actions -> Keys]
  /\ ApprovalOf \in [Actions -> Approvals]
  /\ KindCount \in Nat \ {0}
  /\ Jobs \subseteq [op : Operations, action : Actions]
  /\ Nothing \notin Actions

VARIABLES
  job, pc,
  kind,       \* the kind of evidence each call writes next
  seen,       \* what a recovery observed of the target
  idem,       \* the idempotency ledger
  resv,       \* the reservation ledger
  record,     \* whose evidence the immutable record of a kind is, in each Run
  bound,      \* the kinds whose record an event binds
  manifest,   \* the action named by the manifest of each Run
  stated,     \* the ExecutionState of each Run: how it stands, and for which action
  dispatched, \* how often the provider was started for an action
  mutated,    \* how often the Project was changed for an action
  undone,     \* the actions whose change was taken back in the Editor
  revoked     \* the approvals that were revoked, or have expired

ledgers == <<idem, resv>>
evidence == <<record, bound>>
world == <<dispatched, mutated, undone, revoked>>
vars == <<job, pc, kind, seen, ledgers, evidence, manifest, stated, world>>

\* The part of a call that dispatch guards with its except clause.
Guarded == {"reserving", "resolving", "dispatching", "running", "applying", "writing",
            "verifying", "binding", "bindingKey", "committing", "committingKey"}
Ended == {"completed", "blocked", "recovered", "gone"}
Steps == Guarded \union Ended \union
  {"opening", "validating", "beginning", "replaying", "doubting", "doubtingKey", "manifest",
   "evaluating", "passed", "refused", "checking", "observing", "deciding"}
States == {"none", "PREPARED", "APPLIED", "IN_DOUBT", "ABORTED", "COMMITTED"}

Of(c) == job[c].action

Approved(a) == ApprovalOf[a] \notin revoked

Init ==
  /\ job \in [Calls -> Jobs] 
  /\ pc = [c \in Calls |-> IF job[c].op = "dispatch" THEN "opening" ELSE "validating"]
  /\ kind = [c \in Calls |-> 1] /\ seen = [c \in Calls |-> "nothing"]
  /\ idem = [a \in Actions |-> [state |-> "none", ids |-> FALSE]]
  /\ resv = [a \in Actions |-> [state |-> "none", ids |-> FALSE, result |-> FALSE]]
  /\ record = [r \in Runs |-> [k \in Kinds |-> Nothing]] /\ bound = [r \in Runs |-> {}]
  /\ manifest = [r \in Runs |-> Nothing]
  /\ stated = [r \in Runs |-> [status |-> "none", action |-> Nothing]]
  /\ dispatched = [a \in Actions |-> 0] /\ mutated = [a \in Actions |-> 0]
  /\ undone = {} /\ revoked = {}

Goto(c, step) == pc' = [pc EXCEPT ![c] = step]

Fail(c) ==
  Goto(c, IF job[c].op = "dispatch" /\ pc[c] \in Guarded THEN "doubting" ELSE "gone")

Reserved(a, state) == resv' = [resv EXCEPT ![a].state = state]

Claimed(a, state) == idem' = [idem EXCEPT ![a].state = state]

\* The ExecutionState is replaced as a whole, whatever it said before.
State(c, status, action) ==
  stated' = [stated EXCEPT ![RunOf[Of(c)]] = [status |-> status, action |-> action]]

-----------------------------------------------------------------------------
(* The Control Plane hands over.                                             *)

\* The Run is running, with the action of the handoff, which is not the typed one.
SayRunning(c) ==
  /\ pc[c] = "opening"
  /\ State(c, "running", Nothing) /\ Goto(c, "validating")
  /\ UNCHANGED <<job, kind, seen, ledgers, evidence, manifest, world>>

\* The preflight fails, and the Run is blocked before anything is dispatched.
TurnAway(c) ==
  /\ pc[c] = "opening"
  /\ State(c, "blocked", Nothing) /\ Goto(c, "blocked")
  /\ UNCHANGED <<job, kind, seen, ledgers, evidence, manifest, world>>

-----------------------------------------------------------------------------
(* dispatch                                                                 *)

\* CrossContractValidator.validate, with the approval as it is stored now.
Validate(c) ==
  /\ pc[c] = "validating" /\ Approved(Of(c))
  /\ Goto(c, IF job[c].op = "dispatch" THEN "beginning" ELSE "checking")
  /\ UNCHANGED <<job, kind, seen, ledgers, evidence, manifest, stated, world>>

BeginPerDigest(c) ==   \* mutant: a key may be used by another action
  LET a == Of(c) IN
    /\ pc[c] = "beginning"
    /\ \/ /\ idem[a].state = "none"
          /\ Claimed(a, "PREPARED") /\ Goto(c, "reserving")
       \/ /\ idem[a].state = "COMMITTED"
          /\ Goto(c, "replaying") /\ UNCHANGED idem
    /\ UNCHANGED <<job, kind, seen, resv, evidence, manifest, stated, world>>

\* IdempotencyLedger.begin: the key is claimed, or its committed record is replayed.  A
\* key in flight, or used by another action, is refused (Raise).
Begin(c) ==
  LET a == Of(c)
      foreign == {b \in Actions \ {a} : /\ RunOf[b] = RunOf[a] /\ KeyOf[b] = KeyOf[a]
                                        /\ idem[b].state # "none"} IN
    /\ pc[c] = "beginning" /\ foreign = {}
    /\ \/ /\ idem[a].state = "none"
          /\ Claimed(a, "PREPARED") /\ Goto(c, "reserving")
       \/ /\ idem[a].state = "COMMITTED"
          /\ Goto(c, "replaying") /\ UNCHANGED idem
    /\ UNCHANGED <<job, kind, seen, resv, evidence, manifest, stated, world>>

\* EvidenceStore.verify_record of every required kind, with the binding to the action.
EvidenceHolds(a) ==
  \A k \in Kinds : record[RunOf[a]][k] = a /\ k \in bound[RunOf[a]]

\* The stored result of a committed key is answered, if its evidence still holds.
Replay(c) ==
  /\ pc[c] = "replaying" /\ EvidenceHolds(Of(c)) /\ Approved(Of(c))
  /\ Goto(c, "manifest")
  /\ UNCHANGED <<job, kind, seen, ledgers, evidence, manifest, stated, world>>

\* ActionReservationStore.reserve.  Its answers for a reservation that is there already
\* are never given: whoever reserves has just made the first record of the key.
Reserve(c) ==
  /\ pc[c] = "reserving" /\ resv[Of(c)].state = "none"
  /\ Reserved(Of(c), "PREPARED") /\ Goto(c, "resolving")
  /\ UNCHANGED <<job, kind, seen, idem, evidence, manifest, stated, world>>

\* canonical_dispatch resolves the approval once more before the provider ...
Resolve(c) ==
  /\ pc[c] = "resolving" /\ Approved(Of(c))
  /\ Goto(c, "dispatching")
  /\ UNCHANGED <<job, kind, seen, ledgers, evidence, manifest, stated, world>>

\* ... and then starts it.
Dispatch(c) ==
  /\ pc[c] = "dispatching"
  /\ dispatched' = [dispatched EXCEPT ![Of(c)] = @ + 1]
  /\ Goto(c, "running")
  /\ UNCHANGED <<job, kind, seen, ledgers, evidence, manifest, stated, mutated, undone, revoked>>

\* A result comes back that passes the post-conditions, which the Project must have been
\* changed for.  Every other end of the provider - a failure, a lost answer, a budget
\* that its time exceeds, an approval revoked meanwhile - raises.
Return(c) ==
  /\ pc[c] = "running" /\ mutated[Of(c)] > 0 /\ Approved(Of(c))
  /\ Goto(c, "applying")
  /\ UNCHANGED <<job, kind, seen, ledgers, evidence, manifest, stated, world>>

\* ActionReservationStore.mark_applied
MarkApplied(c) ==
  /\ pc[c] = "applying" /\ resv[Of(c)].state = "PREPARED"
  /\ resv' = [resv EXCEPT ![Of(c)].state = "APPLIED", ![Of(c)].result = TRUE]
  /\ Goto(c, "writing")
  /\ UNCHANGED <<job, kind, seen, idem, evidence, manifest, stated, world>>

-----------------------------------------------------------------------------
(* The end of a dispatch and of a recovery: evidence, and the two commits.   *)

\* One record after the other, under identities that carry only the Run and the kind.
\* EvidenceStore creates record and event, or the record alone and fails; it confirms a
\* record of the same content.  Other content is a conflict (Raise).
Write(c) ==
  LET r == RunOf[Of(c)] IN
    /\ pc[c] = "writing" /\ record[r][kind[c]] \in {Nothing, Of(c)}
    /\ record' = [record EXCEPT ![r][kind[c]] = Of(c)]
    /\ \/ /\ bound' = IF record[r][kind[c]] = Nothing
                        THEN [bound EXCEPT ![r] = @ \union {kind[c]}] ELSE bound
          /\ IF kind[c] < KindCount
             THEN kind' = [kind EXCEPT ![c] = @ + 1] /\ UNCHANGED pc
             ELSE Goto(c, "verifying") /\ UNCHANGED kind
       \/ /\ record[r][kind[c]] = Nothing
          /\ Fail(c) /\ UNCHANGED <<bound, kind>>
    /\ UNCHANGED <<job, seen, ledgers, manifest, stated, world>>

VerifyNothing(c) ==   \* mutant: the identities that were written are taken as they are
  /\ pc[c] = "verifying"
  /\ Goto(c, "binding")
  /\ UNCHANGED <<job, kind, seen, ledgers, evidence, manifest, stated, world>>

\* validate_durable_evidence: contracts, post-conditions, and each record read back.
Verify(c) ==
  /\ pc[c] = "verifying" /\ EvidenceHolds(Of(c)) /\ Approved(Of(c))
  /\ Goto(c, "binding")
  /\ UNCHANGED <<job, kind, seen, ledgers, evidence, manifest, stated, world>>

\* set_evidence_ids of the reservation, whatever its state, ...
BindReservation(c) ==
  /\ pc[c] = "binding"
  /\ resv' = [resv EXCEPT ![Of(c)].ids = TRUE]
  /\ Goto(c, "bindingKey")
  /\ UNCHANGED <<job, kind, seen, idem, evidence, manifest, stated, world>>

\* ... and of the key.
BindKey(c) ==
  /\ pc[c] = "bindingKey"
  /\ idem' = [idem EXCEPT ![Of(c)].ids = TRUE]
  /\ Goto(c, "committing")
  /\ UNCHANGED <<job, kind, seen, resv, evidence, manifest, stated, world>>

Commit(c) ==
  LET a == Of(c) IN
    /\ pc[c] = "committing"
    /\ resv[a].state \in {"APPLIED", "IN_DOUBT", "COMMITTED"}
    /\ resv[a].result /\ resv[a].ids
    /\ Reserved(a, "COMMITTED") /\ Goto(c, "committingKey")
    /\ UNCHANGED <<job, kind, seen, idem, evidence, manifest, stated, world>>

CommitKey(c) ==
  LET a == Of(c) IN
    /\ pc[c] = "committingKey"
    /\ idem[a].ids /\ idem[a].state \in {"PREPARED", "IN_DOUBT", "COMMITTED"}
    /\ Claimed(a, "COMMITTED")
    /\ Goto(c, IF job[c].op = "dispatch" THEN "manifest" ELSE "recovered")
    /\ UNCHANGED <<job, kind, seen, resv, evidence, manifest, stated, world>>

-----------------------------------------------------------------------------
(* What follows a dispatch: the manifest and the completion gate.            *)

WriteManifest(c) ==
  /\ pc[c] = "manifest"
  /\ manifest' = [manifest EXCEPT ![RunOf[Of(c)]] = Of(c)]
  /\ Goto(c, "evaluating")
  /\ UNCHANGED <<job, kind, seen, ledgers, evidence, stated, world>>

\* EvidenceCompletionGate.evaluate and CompletionCoordinator.present: nothing uncertain is
\* called completed, and an exceeded budget blocks what is certain.
Evaluate(c) ==
  LET a == Of(c) IN
    /\ pc[c] = "evaluating"
    /\ \/ /\ Approved(a) /\ EvidenceHolds(a) /\ resv[a].state = "COMMITTED"
          /\ Goto(c, "passed")
       \/ Goto(c, "refused")
    /\ UNCHANGED <<job, kind, seen, ledgers, evidence, manifest, stated, world>>

ConcludeForNobody(c) ==   \* mutant: the action of the handoff is kept
  /\ pc[c] \in {"passed", "refused"}
  /\ IF pc[c] = "passed" THEN State(c, "completed", Nothing) /\ Goto(c, "completed")
     ELSE State(c, "blocked", Nothing) /\ Goto(c, "blocked")
  /\ UNCHANGED <<job, kind, seen, ledgers, evidence, manifest, world>>

\* The outcome becomes the ExecutionState, with the typed action and its evidence.
Conclude(c) ==
  /\ pc[c] \in {"passed", "refused"}
  /\ IF pc[c] = "passed" THEN State(c, "completed", Of(c)) /\ Goto(c, "completed")
     ELSE State(c, "blocked", Of(c)) /\ Goto(c, "blocked")
  /\ UNCHANGED <<job, kind, seen, ledgers, evidence, manifest, world>>

-----------------------------------------------------------------------------
(* The except clause of dispatch.                                            *)

\* mark_in_doubt of the reservation, if it is PREPARED or APPLIED; nobody else changes a
\* reservation in these states, so its two transactions are one step.
Doubt(c) ==
  /\ pc[c] = "doubting"
  /\ IF resv[Of(c)].state \in {"PREPARED", "APPLIED"}
     THEN Reserved(Of(c), "IN_DOUBT") ELSE UNCHANGED resv
  /\ Goto(c, "doubtingKey")
  /\ UNCHANGED <<job, kind, seen, idem, evidence, manifest, stated, world>>

DoubtKey(c) ==
  /\ pc[c] = "doubtingKey"
  /\ IF idem[Of(c)].state = "PREPARED" THEN Claimed(Of(c), "IN_DOUBT") ELSE UNCHANGED idem
  /\ Goto(c, "gone")
  /\ UNCHANGED <<job, kind, seen, resv, evidence, manifest, stated, world>>

-----------------------------------------------------------------------------
(* recover                                                                   *)

Awaiting(a) == resv[a].state = "IN_DOUBT" /\ resv[a].result

\* Only a reservation in doubt whose result was recorded is recovered.
Check(c) ==
  /\ pc[c] = "checking" /\ Awaiting(Of(c))
  /\ Goto(c, "observing")
  /\ UNCHANGED <<job, kind, seen, ledgers, evidence, manifest, stated, world>>

Unchanged(a) == mutated[a] = 0 \/ a \in undone

\* The target is read, outside every lock: it is as before the action, it proves that
\* this action changed it, it has the value without a proof, or something else.
Observe(c) ==
  /\ pc[c] = "observing"
  /\ \E sight \in {"before", "proof", "equal", "unclear"} :
       /\ sight = "before" => Unchanged(Of(c))
       /\ sight = "proof" => ~Unchanged(Of(c))
       /\ seen' = [seen EXCEPT ![c] = sight]
  /\ Goto(c, "deciding")
  /\ UNCHANGED <<job, kind, ledgers, evidence, manifest, stated, world>>

\* The state is read again: another recovery may have been faster.  What is not proved
\* is aborted or stays in doubt, and is not committed by this call.
Decide(c) ==
  LET a == Of(c) IN
    /\ pc[c] = "deciding"
    /\ \/ /\ seen[c] = "proof" /\ resv[a].state = "IN_DOUBT"
          /\ Goto(c, "writing") /\ UNCHANGED resv
       \/ /\ seen[c] \in {"before", "equal"} /\ resv[a].state = "IN_DOUBT"
          /\ Reserved(a, "ABORTED") /\ Goto(c, "gone")
    /\ UNCHANGED <<job, kind, seen, idem, evidence, manifest, stated, world>>

-----------------------------------------------------------------------------
(* What may happen at any time.                                              *)

\* A condition above does not hold, a file cannot be written, a provider fails.
Raise(c) ==
  /\ pc[c] \notin Ended
  /\ Fail(c)
  /\ UNCHANGED <<job, kind, seen, ledgers, evidence, manifest, stated, world>>

Crash(c) ==
  /\ pc[c] \notin Ended
  /\ Goto(c, "gone")
  /\ UNCHANGED <<job, kind, seen, ledgers, evidence, manifest, stated, world>>

\* A provider that was started changes the Project, however late.
Mutate(a) ==
  /\ mutated[a] < dispatched[a]
  /\ mutated' = [mutated EXCEPT ![a] = @ + 1]
  /\ UNCHANGED <<job, pc, kind, seen, ledgers, evidence, manifest, stated>>
  /\ UNCHANGED <<dispatched, undone, revoked>>

Undo(a) ==
  /\ ~Unchanged(a)
  /\ undone' = undone \union {a}
  /\ UNCHANGED <<job, pc, kind, seen, ledgers, evidence, manifest, stated>>
  /\ UNCHANGED <<dispatched, mutated, revoked>>

Revoke(p) ==
  /\ p \notin revoked
  /\ revoked' = revoked \union {p}
  /\ UNCHANGED <<job, pc, kind, seen, ledgers, evidence, manifest, stated>>
  /\ UNCHANGED <<dispatched, mutated, undone>>

Step(c) ==
  \/ SayRunning(c) \/ TurnAway(c)
  \/ Validate(c) \/ Begin(c) \/ Replay(c) \/ Reserve(c) \/ Resolve(c) \/ Dispatch(c)
  \/ Return(c) \/ MarkApplied(c) \/ Write(c) \/ Verify(c) \/ BindReservation(c) \/ BindKey(c)
  \/ Commit(c) \/ CommitKey(c) \/ WriteManifest(c) \/ Evaluate(c) \/ Conclude(c)
  \/ Doubt(c) \/ DoubtKey(c) \/ Check(c) \/ Observe(c) \/ Decide(c) \/ Raise(c) \/ Crash(c)

Next ==
  \/ \E c \in Calls : Step(c)
  \/ \E a \in Actions : Mutate(a) \/ Undo(a)
  \/ \E p \in Approvals : Revoke(p)

Spec == Init /\ [][Next]_vars

-----------------------------------------------------------------------------
(* Properties.                                                              *)

TypeOK ==
  /\ job \in [Calls -> Jobs] /\ pc \in [Calls -> Steps]
  /\ kind \in [Calls -> Kinds]
  /\ seen \in [Calls -> {"nothing", "before", "proof", "equal", "unclear"}]
  /\ idem \in [Actions -> [state : States \ {"APPLIED", "ABORTED"}, ids : BOOLEAN]]
  /\ resv \in [Actions -> [state : States, ids : BOOLEAN, result : BOOLEAN]]
  /\ record \in [Runs -> [Kinds -> Actions \union {Nothing}]]
  /\ bound \in [Runs -> SUBSET Kinds]
  /\ manifest \in [Runs -> Actions \union {Nothing}]
  /\ stated \in [Runs -> [status : {"none", "running", "completed", "blocked"},
                           action : Actions \union {Nothing}]]
  /\ dispatched \in [Actions -> Nat] /\ mutated \in [Actions -> Nat]
  /\ undone \in SUBSET Actions /\ revoked \in SUBSET Approvals

\* Over all processes, deaths, retries and recoveries an idempotency key of a Run starts
\* the provider at most once, for one action.
KeyDispatchedOnce ==
  \A a, b \in Actions :
    /\ dispatched[a] <= 1
    /\ RunOf[a] = RunOf[b] /\ KeyOf[a] = KeyOf[b] /\ dispatched[a] > 0 /\ dispatched[b] > 0
       => a = b

\* A committed reservation is a fact: the Project was changed for it, exactly once, the
\* result was recorded, and all its evidence is durable and bound to this very action.
CommittedIsProven ==
  \A a \in Actions : resv[a].state = "COMMITTED" =>
    mutated[a] = 1 /\ resv[a].result /\ resv[a].ids /\ EvidenceHolds(a)

\* A key is committed only with its reservation, which is committed for good: nothing
\* that another process decides meanwhile aborts it or puts it in doubt.
LedgersAgree ==
  \A a \in Actions :
    /\ idem[a].state = "COMMITTED" => resv[a].state = "COMMITTED"
    /\ \A c \in Calls : Of(c) = a /\ pc[c] = "committingKey" => resv[a].state = "COMMITTED"

\* What verify_persisted_run reads of an action: the manifest, exactly one commit in each
\* ledger of the Run, the result and the evidence bound there, and the evidence itself.
RecordsVerify(a) ==
  /\ manifest[RunOf[a]] = a
  /\ {b \in Actions : RunOf[b] = RunOf[a] /\ resv[b].state = "COMMITTED"} = {a}
  /\ {b \in Actions : RunOf[b] = RunOf[a] /\ idem[b].state = "COMMITTED"} = {a}
  /\ resv[a].result /\ resv[a].ids /\ idem[a].ids
  /\ EvidenceHolds(a)

\* verify_persisted_run of a Run: its ExecutionState says completed, for an action whose
\* approval stands and whose records verify.  The evidence has the same identities for
\* every action of the Run, so that those of the state need no comparison of their own.
PersistedRunVerifies(r) ==
  LET a == stated[r].action IN
    /\ stated[r].status = "completed" /\ a \in Actions /\ RunOf[a] = r
    /\ Approved(a) /\ RecordsVerify(a)

\* A Run whose ExecutionState says completed is accepted by the final gate's replay until
\* its approval is taken back, and what a completed call left behind verifies whatever else
\* is attempted in its Run: a later execution of the Run can take the word completed from
\* its state, and with it the replay, but nothing else.
CompletedRunVerifies ==
  /\ \A r \in Runs : stated[r].status = "completed" =>
       PersistedRunVerifies(r) \/ stated[r].action \in {a \in Actions : ~Approved(a)}
  /\ \A c \in Calls : pc[c] = "completed" => RecordsVerify(Of(c))

\* "Re-observe before deciding whether an interrupted apply may be committed": an apply
\* that was recorded and has no call left to finish it awaits a recovery.
InterruptedAwaitsRecovery ==
  \A a \in Actions :
    resv[a].state = "APPLIED" /\ (\A c \in Calls : Of(c) = a => pc[c] \in Ended) => Awaiting(a)
=============================================================================
