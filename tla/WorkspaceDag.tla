---------------------------- MODULE WorkspaceDag -----------------------------
(***************************************************************************)
(* execute_workspace_dag (control_plane/workspace_tasks.py) and the serial  *)
(* integration of what its workers made (control_plane/csharp_integration). *)
(*                                                                         *)
(* A parent Run gives at most two child Runs, each in a copy of the Project,*)
(* to WorkerBatch, accepts their results after the barrier, and keeps an    *)
(* append-only history of dispatching, settled and accepted events.  Two    *)
(* verified patches may be approved and put, one after the other, into the  *)
(* original Project, whose union is verified last.  The process of the      *)
(* parent, with the threads of its children, may die anywhere.              *)
(***************************************************************************)
EXTENDS Naturals, Sequences, FiniteSets

CONSTANTS
  Looking,     \* whether the Plan begins with an inspection of the original, too
  MaxEdits,    \* bound of the model: edits from outside
  MaxCalls,    \* bound of the model: calls of execute_workspace_dag
  None

Patches == {1, 2}
Original == 0
Projects == {Original} \union Patches       \* a patch is made in the copy of its number

Worker(i) == <<"worker", i>>
Item(i) == <<"item", i>>
Look == <<"look", 0>>
Final == <<"final", 0>>
Workers == {Worker(i) : i \in Patches}
Items == {Item(i) : i \in Patches}
Integration == Items \union {Final}
Tasks == Workers \union Integration \union {Look}
InitialTasks == Workers \union IF Looking THEN {Look} ELSE {}

Workspace(t) == IF t \in Workers THEN t[2] ELSE Original
DependsOn(t) ==
  CASE t = Item(1) -> Workers
    [] t = Item(2) -> {Item(1)}
    [] t = Final   -> {Item(2)}
    [] OTHER       -> {}

\* The patches a Project has in it, and what anybody else did to it.
Content == [patches : SUBSET Patches, edits : Nat]
Revisions == [Projects -> Content]
Base == [patches |-> {}, edits |-> 0]
Union == [Base EXCEPT !.patches = Patches]

TaskStatus == {"absent", "pending", "running", "verified", "blocked", "blocked_dependency"}
TaskRecord == [status : TaskStatus, seen : Revisions \union {None}]

\* The state of a Run, in memory and on disk.
RunStatus == {"running", "verified", "blocked"}
RunState == [tasks : [Tasks -> TaskRecord], order : Seq(Tasks), refs : Nat,
             revisions : Revisions, status : RunStatus]

ASSUME WorkspaceConstants ==
  /\ Looking \in BOOLEAN /\ MaxEdits \in Nat /\ MaxCalls \in Nat
  /\ None \notin RunState

VARIABLES
  \* ---- the parent's process
  phase,      \* what the parent does next
  written,    \* how far the event it appends is: "none", "file", "audit"
  mem,        \* the state in its memory
  batch,      \* the tasks it dispatched, those it has not accepted yet, and whether all ended
  finals,     \* the revisions read after the barrier
  child,      \* what became of the child Run of each task
  \* ---- on disk
  saved,      \* the task state, None before the first call
  events,     \* the event files, in their order
  audited,    \* how many of them the audit journal lists
  integration, approval,   \* the integration Plan, and the decision about it
  applications,            \* the patches an application record was written for
  \* ---- the world
  project,
  starts,     \* how often the capabilities of a task's child Run were dispatched
  writes,     \* the contents its patch was written on
  edits, calls

parentVars == <<phase, written, mem, batch, finals>>
diskVars == <<saved, events, audited>>
peopleVars == <<integration, approval>>
vars == <<parentVars, child, diskVars, peopleVars, applications, project, starts, writes, edits, calls>>

NewState ==
  [tasks |-> [t \in Tasks |-> [status |-> IF t \in InitialTasks THEN "pending" ELSE "absent",
                               seen |-> None]],
   order |-> <<>>, refs |-> 0, revisions |-> project, status |-> "running"]

NoBatch == [tasks |-> {}, open |-> {}, clean |-> TRUE]

Init ==
  /\ phase = "idle" /\ written = "none" /\ mem = None
  /\ batch = NoBatch /\ finals = None
  /\ child = [t \in Tasks |-> "none"]
  /\ saved = None /\ events = <<>> /\ audited = 0
  /\ integration = "none" /\ approval = "none" /\ applications = {}
  /\ project = [p \in Projects |-> Base]
  /\ starts = [t \in Tasks |-> 0]
  /\ writes = [t \in Tasks |-> <<>>] /\ edits = 0 /\ calls = 0

In(state, status) == {t \in Tasks : state.tasks[t].status = status}

-----------------------------------------------------------------------------
(* A call of execute_workspace_dag.                                         *)

Begin(state) ==
  /\ phase = "idle" /\ calls < MaxCalls
  /\ calls' = calls + 1
  /\ mem' = state
  /\ saved' = state
  /\ phase' = "loop"
  /\ UNCHANGED <<written, batch, finals, child, events, audited, peopleVars, applications,
                 project, starts, writes, edits>>

Fresh == saved = None /\ Begin(NewState)

\* verify_parallel_history: state, journal and files name the same events, in whole
\* triples, and no batch was timed out, cancelled or left unstopped.
HistoryWhole ==
  /\ saved.refs = audited /\ audited = Len(events)
  /\ Len(events) % 3 = 0
  /\ \A n \in DOMAIN events : events[n].clean

\* What a Resume requires.
Resumable ==
  /\ saved # None
  /\ HistoryWhole
  /\ In(saved, "running") = {}
  /\ saved.revisions = project

ResumeRedispatching ==   \* mutant: what was running is taken up again
  /\ saved # None /\ saved.revisions = project
  /\ Begin([saved EXCEPT !.tasks = [t \in Tasks |->
              IF saved.tasks[t].status = "running"
              THEN [saved.tasks[t] EXCEPT !.status = "pending"] ELSE saved.tasks[t]]])

Resume == Resumable /\ Begin(saved)

-----------------------------------------------------------------------------
(* The loop of the parent.                                                  *)

Ready == {t \in In(mem, "pending") : DependsOn(t) \subseteq In(mem, "verified")}

\* verify_worker_workspaces: copies of their own, and none of them the original.
Isolated(S) == \A t, u \in S : t # u => {Workspace(t), Workspace(u)} \in SUBSET Patches
                                       /\ Workspace(t) # Workspace(u)

\* Two workers at once if their isolation is observed; the original Project by itself.
Selections == {S \in SUBSET Ready : Cardinality(S) \in {1, 2} /\ (Cardinality(S) = 2 => Isolated(S))}

\* The parent leaves, by an exception or with the state, and what it had in memory is gone.
Raise == phase' = "idle" /\ mem' = None /\ batch' = NoBatch /\ finals' = None

SelectWithoutRecord ==   \* mutant: the workers start before their dispatch is recorded
  /\ phase = "loop"
  /\ project = mem.revisions
  /\ \E S \in Selections : batch' = [tasks |-> S, open |-> S, clean |-> TRUE]
  /\ phase' = "run"
  /\ UNCHANGED <<mem, written, finals, child, diskVars, peopleVars, applications, project, starts,
                 writes, edits, calls>>

\* The batch is taken from the revisions the Run knows, or there is none.
Select ==
  /\ phase = "loop"
  /\ Selections # {}
  /\ \/ /\ project = mem.revisions
        /\ \E S \in Selections :
             /\ batch' = [tasks |-> S, open |-> S, clean |-> TRUE]
             /\ mem' = [mem EXCEPT !.tasks = [t \in Tasks |->
                  IF t \in S THEN [mem.tasks[t] EXCEPT !.status = "running"] ELSE mem.tasks[t]]]
        /\ phase' = "dispatching"
        /\ UNCHANGED finals
     \/ /\ project # mem.revisions
        /\ Raise
  /\ UNCHANGED <<written, child, diskVars, peopleVars, applications, project, starts,
                 writes, edits, calls>>

\* append_parallel_event: the file, a line of the audit journal, the state.
Event(kind, clean, next) ==
  /\ phase = kind
  /\ \/ /\ written = "none" /\ written' = "file"
        /\ events' = Append(events, [phase |-> kind, clean |-> clean])
        /\ UNCHANGED <<audited, mem, saved, phase>>
     \/ /\ written = "file" /\ written' = "audit"
        /\ audited' = audited + 1
        /\ UNCHANGED <<events, mem, saved, phase>>
     \/ /\ written = "audit" /\ written' = "none"
        /\ mem' = [mem EXCEPT !.refs = @ + 1]
        /\ saved' = mem'
        /\ phase' = next
        /\ UNCHANGED <<events, audited>>
  /\ UNCHANGED <<child, peopleVars, applications, project, starts, writes, edits,
                 calls>>

Dispatching == Event("dispatching", TRUE, "run") /\ UNCHANGED <<batch, finals>>

\* The barrier is over: all children answered, or time is up, it was cancelled, one is lost.
\* A child by itself runs in the parent's thread, so it has always answered.
ReportBatch ==
  /\ phase = "run"
  /\ \E clean \in BOOLEAN :
       /\ clean \/ Cardinality(batch.tasks) = 1 =>
            \A t \in batch.tasks : child[t] \in {"completed", "blocked"}
       /\ batch' = [batch EXCEPT !.clean = clean]
  /\ phase' = "settled"
  /\ UNCHANGED <<mem, written, finals, child, diskVars, peopleVars, applications, project, starts,
                 writes, edits, calls>>

Settled ==
  /\ Event("settled", batch.clean, IF batch.clean THEN "check" ELSE "give up")
  /\ UNCHANGED <<batch, finals>>

GiveUp ==
  /\ phase = "give up"
  /\ saved' = [mem EXCEPT !.status = "blocked"]
  /\ Raise
  /\ UNCHANGED <<written, child, events, audited, peopleVars, applications, project,
                 starts, writes, edits, calls>>

\* Workers leave the original alone; if it is another one now, nothing is accepted.
Check ==
  /\ phase = "check"
  /\ \/ /\ batch.tasks \subseteq Workers => project[Original] = mem.revisions[Original]
        /\ finals' = project
        /\ phase' = "accept"
        /\ UNCHANGED <<mem, batch>>
     \/ /\ batch.tasks \subseteq Workers /\ project[Original] # mem.revisions[Original]
        /\ Raise
  /\ UNCHANGED <<written, child, diskVars, peopleVars, applications, project, starts, writes,
                 edits, calls>>

\* _acceptance and update_plan: one result after the other is put in the state and saved.
Accept(t) ==
  /\ phase = "accept" /\ t \in batch.open
  /\ \A u \in batch.open : t[2] <= u[2]
  /\ \E status \in {"verified", "blocked"} :
       /\ status = "verified" => child[t] = "completed"
       /\ mem' = [mem EXCEPT !.tasks[t] = [status |-> status, seen |-> finals],
                             !.revisions = finals, !.order = Append(@, t)]
  /\ saved' = mem'
  /\ batch' = [batch EXCEPT !.open = @ \ {t}]
  /\ phase' = IF batch.open = {t} THEN "accepted" ELSE "accept"
  /\ UNCHANGED <<written, finals, child, events, audited, peopleVars, applications, project, starts,
                 writes, edits, calls>>

Accepted == Event("accepted", TRUE, "loop") /\ batch' = NoBatch /\ finals' = None

Planned(state) == Tasks \ In(state, "absent")

AnyFinalGate(state) ==   \* mutant: a gate that passed once stays passed
  \E t \in In(state, "verified") :
    /\ Workspace(t) = Original
    /\ Final \in Planned(state) => t = Final

\* verify_final_gates: they are those of the original Project as it is now; once there is an
\* integration only its last verification counts.
FinalGates(state) ==
  \E t \in In(state, "verified") :
    /\ Workspace(t) = Original
    /\ Final \in Planned(state) => t = Final
    /\ state.tasks[t].seen = project

\* Everything is done, nothing can go on, or the call is cancelled or out of time.
Finish ==
  /\ phase = "loop"
  /\ \E stuck \in BOOLEAN :
       /\ stuck => Selections = {}
       /\ LET tasks == [t \in Tasks |-> IF stuck /\ mem.tasks[t].status = "pending"
                          THEN [mem.tasks[t] EXCEPT !.status = "blocked_dependency"]
                          ELSE mem.tasks[t]]
              state == [mem EXCEPT !.tasks = tasks, !.revisions = project]
          IN saved' = [state EXCEPT !.status =
                         IF In(state, "verified") = Planned(state) /\ FinalGates(state)
                         THEN "verified" ELSE "blocked"]
  /\ Raise
  /\ UNCHANGED <<written, child, events, audited, peopleVars, applications, project,
                 starts, writes, edits, calls>>

-----------------------------------------------------------------------------
(* The child Runs.  What a child does inside is ControlRun's matter.        *)

\* After the barrier of preparations the child's capabilities are dispatched; the preparation
\* of an integration raises without an approval.
StartChild(t) ==
  /\ phase = "run" /\ t \in batch.tasks
  /\ t \in Integration => approval = "active"
  /\ child[t] \in {"none", "lost"}
  /\ child' = [child EXCEPT ![t] = "running"]
  /\ starts' = [starts EXCEPT ![t] = @ + 1]
  /\ UNCHANGED <<parentVars, diskVars, peopleVars, applications, project, writes, edits, calls>>

Prefix(i) == [Base EXCEPT !.patches = {j \in Patches : j < i}]

\* prepare and before_capability: approval and order of an Item, no earlier attempt, and the
\* exact preimage.  (The record of the attempt and the patch are two steps in ControlRun.)
MayWrite(t) ==
  \/ t \in Workers /\ project[t[2]] = Base
  \/ /\ t \in Items
     /\ approval = "active" /\ t[2] \notin applications
     /\ \A i \in Patches : i < t[2] => saved.tasks[Item(i)].status = "verified"
     /\ saved.tasks[t].status = "running"
     /\ project[Original] = Prefix(t[2])

Write(t) ==
  /\ child[t] = "running" /\ MayWrite(t)
  /\ child' = [child EXCEPT ![t] = "wrote"]
  /\ applications' = IF t \in Items THEN applications \union {t[2]} ELSE applications
  /\ project' = [project EXCEPT ![Workspace(t)].patches = @ \union {t[2]}]
  /\ writes' = [writes EXCEPT ![t] = Append(@, project[Workspace(t)])]
  /\ UNCHANGED <<parentVars, diskVars, peopleVars, starts, edits, calls>>

\* The revision a child has to leave behind to be completed.
Result(t) ==
  CASE t \in Workers -> [Base EXCEPT !.patches = {t[2]}]
    [] t \in Items   -> [Base EXCEPT !.patches = {j \in Patches : j <= t[2]}]
    [] t = Final     -> Union

EndChild(t) ==
  /\ \/ /\ child[t] = IF t \in {Look, Final} THEN "running" ELSE "wrote"
        /\ t # Look => project[Workspace(t)] = Result(t)
        /\ child' = [child EXCEPT ![t] = "completed"]
     \/ /\ child[t] \in {"running", "wrote"}
        /\ child' = [child EXCEPT ![t] = "blocked"]
  /\ UNCHANGED <<parentVars, diskVars, peopleVars, applications, project, starts, writes, edits, calls>>

-----------------------------------------------------------------------------
(* People, and the fate of the process.                                     *)

\* create_integration_plan: both patches verified, everything as the Run left it.
PlanIntegration ==
  /\ phase = "idle" /\ integration = "none"
  /\ Resumable
  /\ Workers \subseteq In(saved, "verified")
  /\ project[Original] = Base
  /\ integration' = "planned"
  /\ UNCHANGED <<parentVars, child, diskVars, approval, applications, project, starts, writes, edits, calls>>

Approve ==
  /\ integration = "planned" /\ approval = "none"
  /\ project[Original] = Base
  /\ approval' = "active"
  /\ UNCHANGED <<parentVars, child, diskVars, integration, applications, project, starts, writes, edits, calls>>

\* The phases in which somebody reads the approval or a Project; in the others, which only
\* write down what is in memory, it is all the same to do it a moment later.
Read == phase \in {"idle", "loop", "run", "check"}

Withdraw ==
  /\ Read
  /\ approval = "active"
  /\ approval' = "over"
  /\ UNCHANGED <<parentVars, child, diskVars, integration, applications, project, starts, writes, edits, calls>>

\* integrate_workspace_results: one Plan update adds the serial tasks; a Resume runs them.
AddItems ==
  /\ phase = "idle" /\ approval = "active"
  /\ saved # None /\ HistoryWhole
  /\ Integration \subseteq In(saved, "absent")
  /\ project[Original] = Base
  /\ saved' = [saved EXCEPT !.tasks = [t \in Tasks |->
        IF t \in Integration THEN [status |-> "pending", seen |-> None] ELSE saved.tasks[t]]]
  /\ UNCHANGED <<parentVars, child, events, audited, peopleVars, applications, project, starts,
                 writes, edits, calls>>

\* The process dies, or an exception ends the call and with it the process.
Crash ==
  /\ \/ phase # "idle"
     \/ \E t \in Tasks : child[t] \in {"running", "wrote"}
  /\ Raise
  /\ written' = "none"
  /\ child' = [t \in Tasks |-> IF child[t] \in {"running", "wrote"} THEN "lost" ELSE child[t]]
  /\ UNCHANGED <<diskVars, peopleVars, applications, project, starts, writes, edits, calls>>

\* Somebody edits a Project.
Edit(p) ==
  /\ Read
  /\ edits < MaxEdits
  /\ edits' = edits + 1
  /\ project' = [project EXCEPT ![p].edits = @ + 1]
  /\ UNCHANGED <<parentVars, child, diskVars, peopleVars, applications, starts, writes, calls>>

Next ==
  \/ Fresh \/ Resume \/ Select \/ Dispatching \/ ReportBatch \/ Settled \/ GiveUp \/ Check
  \/ Accepted \/ Finish \/ PlanIntegration \/ Approve \/ Withdraw \/ AddItems \/ Crash
  \/ \E t \in Tasks : Accept(t) \/ StartChild(t) \/ Write(t) \/ EndChild(t)
  \/ \E p \in Projects : Edit(p)

Spec == Init /\ [][Next]_vars

-----------------------------------------------------------------------------
(* Properties.                                                              *)

Phases == {"idle", "loop", "dispatching", "run", "settled", "give up", "check", "accept",
           "accepted"}
ChildPlaces == {"none", "running", "wrote", "completed", "blocked", "lost"}

DagTypeOK ==
  /\ phase \in Phases /\ written \in {"none", "file", "audit"}
  /\ mem \in RunState \union {None} /\ saved \in RunState \union {None}
  /\ batch \in [tasks : SUBSET Tasks, open : SUBSET Tasks, clean : BOOLEAN]
  /\ finals \in Revisions \union {None}
  /\ child \in [Tasks -> ChildPlaces]
  /\ events \in Seq([phase : Phases, clean : BOOLEAN]) /\ audited \in Nat
  /\ integration \in {"none", "planned"} /\ approval \in {"none", "active", "over"}
  /\ applications \subseteq Patches
  /\ project \in Revisions
  /\ starts \in [Tasks -> Nat] /\ writes \in [Tasks -> Seq(Content)]
  /\ edits \in Nat /\ calls \in Nat

Busy(t) == child[t] \in {"running", "wrote"}

\* "Never resent by itself": whatever dies, times out or is resumed, a child Run is started
\* once, and its patch is written once.
ChildStartedOnce == \A t \in Tasks : starts[t] <= 1 /\ Len(writes[t]) <= 1

\* A Run that may be resumed has nothing to reconcile: every child that ever started has
\* ended, and its result is accepted in the state the Resume begins with.
ResumableIsComplete ==
  Resumable => \A t \in Tasks : starts[t] > 0 =>
    /\ ~Busy(t)
    /\ \E n \in DOMAIN saved.order : saved.order[n] = t

\* When an integrated Run is called verified, the original is as it was when its last
\* verification was accepted; both patches are in it, each written once, on the revision that
\* was approved, after the worker that made it was verified.
UnionExact ==
  [][Finish /\ saved'.status = "verified" /\ Final \in Planned(saved) =>
       /\ project[Original] = saved.tasks[Final].seen[Original]
       /\ project[Original].patches = Patches
       /\ \A i \in Patches :
            /\ saved.tasks[Worker(i)].status = "verified"
            /\ writes[Item(i)] = <<Prefix(i)>>]_vars

\* "Only Gates for the same revision of the final Root Project are adopted": a Run that is
\* called verified after an integration left the union that its last verification looked at.
FinalIsUnion ==
  [][Finish /\ saved'.status = "verified" /\ Final \in Planned(saved) =>
       project[Original] = Union]_vars
=============================================================================
