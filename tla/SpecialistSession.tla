-------------------------- MODULE SpecialistSession --------------------------
(***************************************************************************)
(* How the Runtime lets a specialist propose one camera change               *)
(* (control_plane/reference_camera_fov.py and                               *)
(* runtime/reference_implementation/{contracts,authority,isolation,          *)
(* specialist_child}.py): contracts are issued and bound to one another, a   *)
(* child process is started below a Job object and talks over a pipe, and    *)
(* what it proposed goes to the dispatch gate (ReferenceGate).               *)
(*                                                                         *)
(* A call is a process that executes the workflow, or the golden harness     *)
(* does (golden).  The calls are about one Run, and share its approval.  A   *)
(* digest covers its whole contract, so equal digests are equal contracts.   *)
(* A step of a call is one call of the operating system.                     *)
(***************************************************************************)
EXTENDS Integers, Sequences

CONSTANTS
  CameraCalls,
  Contracts,      \* the task contracts a caller's projection may issue
  ReviewedContract,   \* the one a person approved
  Fovs,           \* what a caller may propose
  ProfileRange,   \* what the profile admits
  Budgets         \* a caller may limit parent calls, tool calls and the child's time

Canonical == 35..50

ASSUME SpecialistConstants ==
  /\ ReviewedContract \in Contracts
  /\ Canonical \subseteq ProfileRange
  /\ Budgets \subseteq [{"parent", "tool", "time"} -> Nat]

VARIABLES
  asked,      \* what each call was asked for
  camera,     \* where each call is
  failing,    \* the calls whose session has raised
  holder,     \* the Job object of each call
  specialist, \* the child process of each call
  pipe,       \* the end of the pipe the call holds
  said, heard,    \* how many messages the child has sent, and the call accepted
  instructed, \* the calls that have sent the grant
  ledger,     \* what each call has spent
  handed,     \* the action given to the gate
  reviewed    \* the person's decision

specialistVars == <<asked, camera, failing, holder, specialist, pipe, said, heard, instructed,
                    ledger, handed, reviewed>>

NoAction == [value |-> -1]

\* The parts of a call: before the session, the session's try, its finally, and after it.
Preparing == {"issuing", "resolving", "granting", "planning", "listening", "grouping"}
Trying == {"creating", "assigning", "resuming", "accepting", "greeting", "instructing",
           "receiving", "reaping"}
Closing == {"killing", "burying", "ungrouping", "unlistening"}
Judging == {"accounting", "taking", "handing", "dispatching", "presenting"}
InSession == Trying \union Closing

SpecialistInit ==
  /\ asked \in [CameraCalls ->
       [golden : BOOLEAN, contract : Contracts, fov : Fovs, budget : Budgets]]
  /\ camera = [c \in CameraCalls |-> "issuing"] /\ failing = {}
  /\ holder = [c \in CameraCalls |-> "none"] /\ specialist = [c \in CameraCalls |-> "none"]
  /\ pipe = [c \in CameraCalls |-> "none"]
  /\ said = [c \in CameraCalls |-> 0] /\ heard = [c \in CameraCalls |-> 0] /\ instructed = {}
  /\ ledger = [c \in CameraCalls |-> [parent |-> 0, tool |-> 0, time |-> 0]]
  /\ handed = [c \in CameraCalls |-> NoAction]
  /\ reviewed = "active"

At(c, step) == camera[c] = step

ToStep(c, step) == camera' = [camera EXCEPT ![c] = step]

-----------------------------------------------------------------------------
(* Contracts.                                                               *)

\* The golden harness asks for itself, and approves it a moment later.
Golden(c) == asked[c].golden

\* TaskContract.issue: the goal, scope and evidence are the profile's.
Task(c) == asked[c].contract

\* ApprovalDecision: a decision is about one task contract, and admits a range.
Decision(c) == [task |-> IF Golden(c) THEN Task(c) ELSE ReviewedContract, range |-> Canonical]

\* ApprovalDecisionResolver.resolve: the stored decision binds to the task, and still holds.
DecisionHolds(c) ==
  /\ Decision(c).task = Task(c)
  /\ Golden(c) \/ reviewed = "active"

\* SurfaceGrantProjector.derive: a fresh grant of the profile's whole surface.
Grant(c) == [to |-> c, task |-> Task(c), decision |-> Decision(c)]

\* TypedAction.propose: the child builds it from what the call has sent.
Proposal(c) == [grant |-> Grant(c), task |-> Task(c), decision |-> Decision(c), value |-> asked[c].fov]

\* CrossContractValidator.validate.
Binds(c, action) ==
  /\ DecisionHolds(c)
  /\ action.grant = Grant(c) /\ action.task = Task(c) /\ action.decision = Decision(c)
  /\ action.value \in ProfileRange /\ action.value \in action.decision.range

\* RuntimeBudgetLedger.consume: a counter passes its limit never, and keeps its value.
Spends(c, counter, amount) ==
  /\ ledger[c][counter] + amount <= asked[c].budget[counter]
  /\ ledger' = [ledger EXCEPT ![c][counter] = @ + amount]

\* An error before the session, which gives the pipe back, or after it.
Refuse(c) ==
  /\ camera[c] \in (Preparing \union Judging) \ {"presenting"}
  /\ ToStep(c, "blocked")
  /\ pipe' = [pipe EXCEPT ![c] = IF camera[c] \in Preparing THEN "none" ELSE @]
  /\ UNCHANGED <<asked, failing, holder, specialist, said, heard, instructed, ledger, handed, reviewed>>

\* TaskContractIssuer.issue, below the checks of the projection, the scene and the snapshot.
IssueTask(c) ==
  /\ At(c, "issuing") /\ ToStep(c, "resolving")
  /\ UNCHANGED <<asked, failing, holder, specialist, pipe, said, heard, instructed, ledger, handed, reviewed>>

\* The approval is resolved; it must be for the canonical range.
ResolveDecision(c) ==
  /\ At(c, "resolving") /\ DecisionHolds(c) /\ Decision(c).range = Canonical
  /\ ToStep(c, "granting")
  /\ UNCHANGED <<asked, failing, holder, specialist, pipe, said, heard, instructed, ledger, handed, reviewed>>

DeriveGrant(c) ==
  /\ At(c, "granting") /\ (Golden(c) \/ reviewed # "expired")
  /\ ToStep(c, "planning")
  /\ UNCHANGED <<asked, failing, holder, specialist, pipe, said, heard, instructed, ledger, handed, reviewed>>

\* SubAgentTaskPlanner.plan spends a parent call.
PlanSession(c) ==
  /\ At(c, "planning") /\ Spends(c, "parent", 1)
  /\ ToStep(c, "listening")
  /\ UNCHANGED <<asked, failing, holder, specialist, pipe, said, heard, instructed, handed, reviewed>>

-----------------------------------------------------------------------------
(* The session.                                                             *)

\* WindowsNamedPipeServer: a pipe of its own that only this user may open.
Listen(c) ==
  /\ At(c, "listening")
  /\ pipe' = [pipe EXCEPT ![c] = "listening"] /\ ToStep(c, "grouping")
  /\ UNCHANGED <<asked, failing, holder, specialist, said, heard, instructed, ledger, handed, reviewed>>

\* WindowsJobObject: closing its last handle ends the processes in it.
Group(c) ==
  /\ At(c, "grouping")
  /\ holder' = [holder EXCEPT ![c] = "empty"] /\ ToStep(c, "creating")
  /\ UNCHANGED <<asked, failing, specialist, pipe, said, heard, instructed, ledger, handed, reviewed>>

CreateRunning(c) ==   \* mutant: the child is started before it is assigned to the Job
  /\ At(c, "creating")
  /\ specialist' = [specialist EXCEPT ![c] = "running"] /\ ToStep(c, "assigning")
  /\ UNCHANGED <<asked, failing, holder, pipe, said, heard, instructed, ledger, handed, reviewed>>

\* SuspendedWindowsProcess: the child is there, and executes nothing yet.
Create(c) ==
  /\ At(c, "creating")
  /\ specialist' = [specialist EXCEPT ![c] = "suspended"] /\ ToStep(c, "assigning")
  /\ UNCHANGED <<asked, failing, holder, pipe, said, heard, instructed, ledger, handed, reviewed>>

AssignJob(c) ==
  /\ At(c, "assigning")
  /\ holder' = [holder EXCEPT ![c] = "holding"] /\ ToStep(c, "resuming")
  /\ UNCHANGED <<asked, failing, specialist, pipe, said, heard, instructed, ledger, handed, reviewed>>

Resume(c) ==
  /\ At(c, "resuming")
  /\ specialist' = [specialist EXCEPT ![c] = IF @ = "suspended" THEN "running" ELSE @]
  /\ ToStep(c, "accepting")
  /\ UNCHANGED <<asked, failing, holder, pipe, said, heard, instructed, ledger, handed, reviewed>>

\* accept: the thread that waits for the child hands its connection over.
AcceptChild(c) ==
  /\ At(c, "accepting") /\ pipe[c] = "connected"
  /\ ToStep(c, "greeting")
  /\ UNCHANGED <<asked, failing, holder, specialist, pipe, said, heard, instructed, ledger, handed, reviewed>>

\* What the child says, in this order; it says hello first and then waits for the grant.
Script == <<"hello", "inspect", "propose_action", "capture", "evaluate", "complete">>

\* _assert_session_active, before every message: the approval is resolved again.  (The
\* golden harness gives no resolver, and its grant does not expire.)
Active(c) == Golden(c) \/ DecisionHolds(c)

\* RuntimeIPCProtocol.accept: the next message of this session.
Hears(c) ==
  /\ heard[c] < said[c] /\ Active(c)
  /\ heard' = [heard EXCEPT ![c] = @ + 1]

Greet(c) ==
  /\ At(c, "greeting") /\ Hears(c)
  /\ ToStep(c, "instructing")
  /\ UNCHANGED <<asked, failing, holder, specialist, pipe, said, instructed, ledger, handed, reviewed>>

\* The grant, the task and the approval, in envelopes of their own.
Instruct(c) ==
  /\ At(c, "instructing") /\ Active(c)
  /\ instructed' = instructed \union {c} /\ ToStep(c, "receiving")
  /\ UNCHANGED <<asked, failing, holder, specialist, pipe, said, heard, ledger, handed, reviewed>>

Receive(c) ==
  /\ At(c, "receiving") /\ Hears(c)
  /\ ToStep(c, IF Script[heard'[c]] = "complete" THEN "reaping" ELSE "receiving")
  /\ UNCHANGED <<asked, failing, holder, specialist, pipe, said, instructed, ledger, handed, reviewed>>

\* process.wait, within the deadline.
Reap(c) ==
  /\ At(c, "reaping") /\ specialist[c] = "dead"
  /\ ToStep(c, "killing")
  /\ UNCHANGED <<asked, failing, holder, specialist, pipe, said, heard, instructed, ledger, handed, reviewed>>

\* Anything of the try raises: the deadline, a message out of order, an approval that does
\* not hold any more, a child that is gone, a call of the operating system that fails.
SessionFails(c) ==
  /\ camera[c] \in Trying
  /\ failing' = failing \union {c} /\ ToStep(c, "killing")
  /\ UNCHANGED <<asked, holder, specialist, pipe, said, heard, instructed, ledger, handed, reviewed>>

\* finally: the connection is closed and a child that has not ended is killed.
Kill(c) ==
  /\ At(c, "killing")
  /\ pipe' = [pipe EXCEPT ![c] = IF @ = "connected" THEN "none" ELSE @]
  /\ \/ /\ specialist[c] \in {"suspended", "running"}
        /\ specialist' = [specialist EXCEPT ![c] = "dying"] /\ ToStep(c, "burying")
     \/ /\ specialist[c] \in {"none", "dead"}
        /\ UNCHANGED specialist /\ ToStep(c, "ungrouping")
  /\ UNCHANGED <<asked, failing, holder, said, heard, instructed, ledger, handed, reviewed>>

\* wait(timeout=5).
Bury(c) ==
  /\ At(c, "burying") /\ specialist[c] = "dead"
  /\ ToStep(c, "ungrouping")
  /\ UNCHANGED <<asked, failing, holder, specialist, pipe, said, heard, instructed, ledger, handed, reviewed>>

\* kill or wait raises, and the rest of the finally is left out: the Job stays open.
CloseFails(c) ==
  /\ camera[c] \in {"killing", "burying"} /\ specialist[c] \in {"suspended", "running", "dying"}
  /\ failing' = failing \union {c} /\ ToStep(c, "accounting")
  /\ UNCHANGED <<asked, holder, specialist, pipe, said, heard, instructed, ledger, handed, reviewed>>

\* job.close: what the Job still holds ends with it.
EndsWithJob(c) ==
  /\ holder' = [holder EXCEPT ![c] = "closed"]
  /\ specialist' = [specialist EXCEPT ![c] =
       IF holder[c] = "holding" /\ @ \in {"suspended", "running", "dying"} THEN "dead" ELSE @]

Ungroup(c) ==
  /\ At(c, "ungrouping") /\ EndsWithJob(c)
  /\ ToStep(c, "unlistening")
  /\ UNCHANGED <<asked, failing, pipe, said, heard, instructed, ledger, handed, reviewed>>

Unlisten(c) ==
  /\ At(c, "unlistening")
  /\ pipe' = [pipe EXCEPT ![c] = "none"] /\ ToStep(c, "accounting")
  /\ UNCHANGED <<asked, failing, holder, specialist, said, heard, instructed, ledger, handed, reviewed>>

-----------------------------------------------------------------------------
(* The child, specialist_child.main, and what happens to it.                *)

Connect(c) ==
  /\ specialist[c] = "running" /\ pipe[c] = "listening" /\ said[c] = 0
  /\ pipe' = [pipe EXCEPT ![c] = "connected"]
  /\ UNCHANGED <<asked, camera, failing, holder, specialist, said, heard, instructed, ledger, handed, reviewed>>

\* It says hello, and the rest once it has the grant; a value that the profile does not
\* admit, it cannot propose.
Say(c) ==
  /\ specialist[c] = "running" /\ pipe[c] = "connected" /\ said[c] < Len(Script)
  /\ said[c] > 0 => c \in instructed
  /\ Script[said[c] + 1] = "propose_action" => Proposal(c).value \in ProfileRange
  /\ said' = [said EXCEPT ![c] = @ + 1]
  /\ UNCHANGED <<asked, camera, failing, holder, specialist, pipe, heard, instructed, ledger, handed, reviewed>>

\* It has said everything and returns, or fails, or was killed: an end of its process.
ChildEnds(c) ==
  /\ specialist[c] \in {"running", "dying"}
  /\ specialist' = [specialist EXCEPT ![c] = "dead"]
  /\ UNCHANGED <<asked, camera, failing, holder, pipe, said, heard, instructed, ledger, handed, reviewed>>

\* The process of the call dies, or ends after an error, and its handles are closed.
CallDies(c) ==
  /\ camera[c] \notin {"completed", "died"}
  /\ ToStep(c, "died") /\ EndsWithJob(c)
  /\ pipe' = [pipe EXCEPT ![c] = "none"]
  /\ UNCHANGED <<asked, failing, said, heard, instructed, ledger, handed, reviewed>>

\* Somebody revokes the approval, or its time is over.
DecisionEnds ==
  /\ reviewed = "active"
  /\ reviewed' \in {"revoked", "expired"}
  /\ UNCHANGED <<asked, camera, failing, holder, specialist, pipe, said, heard, instructed, ledger, handed>>

-----------------------------------------------------------------------------
(* After the session.                                                       *)

\* record_child_observation, in a finally of its own: it may raise, and then even the
\* events of a session that went well are lost.
Account(c) ==
  /\ At(c, "accounting") /\ Spends(c, "time", 1)
  /\ ToStep(c, IF c \in failing THEN "blocked" ELSE "taking")
  /\ UNCHANGED <<asked, failing, holder, specialist, pipe, said, heard, instructed, handed, reviewed>>

\* The proposed action is for the camera and revision that were inspected, and within the
\* canonical range; it costs a tool call.
TakeAction(c) ==
  /\ At(c, "taking")
  /\ Golden(c) \/ Proposal(c).value \in Canonical
  /\ Spends(c, "tool", 1)
  /\ ToStep(c, "handing")
  /\ UNCHANGED <<asked, failing, holder, specialist, pipe, said, heard, instructed, handed, reviewed>>

\* RuntimeDispatchGate.dispatch begins with every binding, and the approval as it is now.
HandOver(c) ==
  /\ At(c, "handing") /\ Binds(c, Proposal(c))
  /\ handed' = [handed EXCEPT ![c] = Proposal(c)] /\ ToStep(c, "dispatching")
  /\ UNCHANGED <<asked, failing, holder, specialist, pipe, said, heard, instructed, ledger, reviewed>>

\* The provider has passed, its ProviderResult says what was asked for, the evidence is
\* durable and the reservation committed; every other end raises (Refuse).
GateCommits(c) ==
  /\ At(c, "dispatching") /\ DecisionHolds(c)
  /\ ToStep(c, "presenting")
  /\ UNCHANGED <<asked, failing, holder, specialist, pipe, said, heard, instructed, ledger, handed, reviewed>>

\* EvidenceCompletionGate.evaluate and CompletionCoordinator.present: completed means that
\* every binding still holds and that the parent has a call left.
PresentProof(c) ==
  /\ At(c, "presenting")
  /\ \/ /\ Binds(c, handed[c]) /\ Spends(c, "parent", 1) /\ ToStep(c, "completed")
     \/ /\ ~Binds(c, handed[c]) \/ ledger[c].parent >= asked[c].budget.parent
        /\ UNCHANGED ledger /\ ToStep(c, "blocked")
  /\ UNCHANGED <<asked, failing, holder, specialist, pipe, said, heard, instructed, handed, reviewed>>

Prepare(c) == IssueTask(c) \/ ResolveDecision(c) \/ DeriveGrant(c) \/ PlanSession(c) \/ Refuse(c)

Session(c) ==
  \/ Listen(c) \/ Group(c) \/ Create(c) \/ AssignJob(c) \/ Resume(c) \/ AcceptChild(c)
  \/ Greet(c) \/ Instruct(c) \/ Receive(c) \/ Reap(c) \/ SessionFails(c)
  \/ Kill(c) \/ Bury(c) \/ CloseFails(c) \/ Ungroup(c) \/ Unlisten(c)

Child(c) == Connect(c) \/ Say(c) \/ ChildEnds(c)

After(c) == Account(c) \/ TakeAction(c) \/ HandOver(c) \/ GateCommits(c) \/ PresentProof(c)

SpecialistNext ==
  \/ \E c \in CameraCalls : Prepare(c) \/ Session(c) \/ Child(c) \/ After(c) \/ CallDies(c)
  \/ DecisionEnds

SpecialistSpec == SpecialistInit /\ [][SpecialistNext]_specialistVars

-----------------------------------------------------------------------------
(* Properties.                                                              *)

\* A specialist executes only below a living Runtime that holds it by its Job, and while its
\* session lasts, or after one whose closing failed and whose call therefore answers
\* nothing; what it proposed is only taken up when it has ended.
SpecialistHeld ==
  \A c \in CameraCalls :
    /\ specialist[c] = "running" =>
         /\ holder[c] = "holding" /\ camera[c] # "died"
         /\ camera[c] \in InSession \/ c \in failing
    /\ handed[c] # NoAction => specialist[c] = "dead" /\ heard[c] = Len(Script)
=============================================================================
