----------------------------- MODULE DynamicDag ------------------------------
(***************************************************************************)
(* A Run of a dynamic task DAG: execute_task_dag with a Root contract       *)
(* (control_plane/task_execution.py), the Plan boundary it calls            *)
(* (control_plane/plan_execution.py) and the journals it writes             *)
(* (persistence/state/plan.py).                                             *)
(*                                                                         *)
(* One process owns the Run at a time (the Run lock is held by the caller). *)
(* It dispatches tasks, and after every settled task it lets a proposer     *)
(* revise the Plan.  Each durable write is a step of its own; the process   *)
(* may die, or raise, between any two of them.  A Resume goes on only from  *)
(* files that agree with each other.                                        *)
(***************************************************************************)
EXTENDS PlanRules, Sequences, SequencesExt

CONSTANTS
  InitialTasks,   \* the task set the caller submits
  Proposals,      \* the task sets the proposer may answer with
  EditingBodies,  \* the bodies whose effects may change the Project
  MaxRepairs,     \* repair candidates of a task, within its repair limit
  MaxCrashes,     \* bound of the model: deaths of the process
  MaxEdits        \* bound of the model: edits of the Project from outside

ASSUME RunConstants ==
  /\ InitialTasks \in TaskMap /\ Creatable(InitialTasks)
  /\ Proposals \subseteq TaskMap
  /\ EditingBodies \subseteq Bodies
  /\ MaxRepairs \in Nat /\ MaxCrashes \in Nat /\ MaxEdits \in Nat

VARIABLES
  \* ---- the process
  pc,             \* what it does next; "down" when there is none
  cur,            \* the task it is working on
  outcome,        \* what that task's execution came to
  answer,         \* the proposal it is registering
  mem,            \* the Run state it holds in memory
  staged,         \* the state that becomes `mem' when a Plan is activated
  \* ---- the files of the Run
  saved,          \* current/task-state.json
  journal,        \* current/plan-events.jsonl
  audit,          \* current/plan-audit-events.jsonl
  receiptFiles,   \* snapshots/plan-task
  proposalFiles,  \* snapshots/plan-proposal
  \* ---- the world
  project,        \* revision of the Project's files
  dispatched,     \* child Runs whose external effects started, in order
  crashes, edits  \* counters of the bounds

locals == <<cur, outcome, answer, mem, staged>>
files  == <<saved, journal, audit, receiptFiles, proposalFiles>>
world  == <<project, dispatched, crashes, edits>>
vars   == <<pc, locals, files, world>>

TaskStatus == {"absent", "pending", "running", "verified", "blocked", "blocked_dependency"}

\* A task's record; `plan' and `revision' are those its result was accepted under.
TaskRecord == [status : TaskStatus, attempts : Nat, plan : Nat, revision : Nat]
NewRecord(status) == [status |-> status, attempts |-> 0, plan |-> 0, revision |-> 0]

TaskReceipt == [task : Ids, record : TaskRecord, definition : Definition \union {NoTask}]
ProposalReceipt == [sequence : Nat, base : Nat, tasks : TaskMap, valid : BOOLEAN]
AuditEvent == [kind : {"task"}, ref : TaskReceipt] \union
              [kind : {"proposal"}, ref : ProposalReceipt]

RunState ==
  [status : {"absent", "running", "verified", "blocked"},
   tasks : [Ids -> TaskRecord], order : Seq(Ids), revision : Nat,
   events : Seq(Plan), audit : Seq(AuditEvent), receipts : SUBSET TaskReceipt,
   proposals : Seq(ProposalReceipt), consumed : Nat, asked : BOOLEAN]

NoState ==
  [status |-> "absent", tasks |-> [t \in Ids |-> NewRecord("absent")], order |-> <<>>,
   revision |-> 0, events |-> <<>>, audit |-> <<>>, receipts |-> {},
   proposals |-> <<>>, consumed |-> 0, asked |-> FALSE]

NoAnswer == [sequence |-> 0, base |-> 0, tasks |-> [t \in Ids |-> NoTask], valid |-> FALSE]

Smallest(S) == CHOOSE t \in S : \A u \in S : t <= u   \* sorted(S)[0]

Steps == {"down", "activate", "schedule", "dispatch", "collect", "save", "decide",
          "receipt", "audit", "boundary", "propose", "asked", "snapshot", "register",
          "count", "commit", "finished"}

ActivePlan(state) == Last(state.events)

-----------------------------------------------------------------------------
(* Starting, dying, resuming.                                               *)

Init ==
  /\ pc = "down"
  /\ cur = Smallest(Ids) /\ outcome = "none" /\ answer = NoAnswer
  /\ mem = NoState /\ staged = NoState
  /\ saved = NoState /\ journal = <<>> /\ audit = <<>>
  /\ receiptFiles = {} /\ proposalFiles = {}
  /\ project = 0 /\ dispatched = <<>>
  /\ crashes = 0 /\ edits = 0

\* The process is gone, and with it everything it held in memory.
Down ==
  /\ pc' = "down"
  /\ cur' = Smallest(Ids) /\ outcome' = "none" /\ answer' = NoAnswer
  /\ mem' = NoState /\ staged' = NoState

\* An exception leaves execute_task_dag: what is on disk stays as it is.
Raise == Down /\ UNCHANGED <<files, world>>

Crash ==
  /\ pc \notin {"down", "finished"}
  /\ crashes < MaxCrashes
  /\ Down
  /\ crashes' = crashes + 1
  /\ UNCHANGED <<files, project, dispatched, edits>>

FreshState ==
  [NoState EXCEPT
     !.status = "running",
     !.revision = project,
     !.tasks = [t \in Ids |-> NewRecord(IF t \in Planned(InitialTasks)
                                          THEN "pending" ELSE "absent")]]

\* A first start: no state file, and no journal left by an earlier attempt.
Start ==
  /\ pc = "down"
  /\ saved = NoState
  /\ journal = <<>>
  /\ staged' = FreshState
  /\ journal' = <<FirstPlan(InitialTasks)>>
  /\ pc' = "activate"
  /\ UNCHANGED <<cur, outcome, answer, mem, saved, audit, receiptFiles, proposalFiles, world>>

\* The references of one kind in a log, each with its place among those of its kind.
RefsOf(kind, events) ==
  LET at == {i \in DOMAIN events : events[i].kind = kind}
  IN {<<Cardinality({j \in at : j <= i}), events[i].ref>> : i \in at}

Numbered(s) == {<<i, s[i]>> : i \in DOMAIN s}

\* verify_task_receipts: receipts, order and attempts tell the same story.
ReceiptsAgree(state) ==
  LET executed == {t \in Ids : state.tasks[t].attempts > 0}
  IN /\ {r.task : r \in state.receipts} = executed
     /\ Range(state.order) = executed /\ Len(state.order) = Cardinality(executed)
     /\ receiptFiles = state.receipts
     /\ \A r \in state.receipts :
          /\ r.record = state.tasks[r.task]
          /\ r.definition = ActivePlan(state).tasks[r.task]

\* restore_plan: the proposals on disk are those the state counts, and every
\* proposal that was validated became a revision of the Plan.
ProposalsAgree(state) ==
  /\ state.consumed = Len(state.proposals)
  /\ Range(state.proposals) = proposalFiles
  /\ \A i \in DOMAIN state.proposals : state.proposals[i].sequence = i - 1
  /\ ActivePlan(state).revision
       = Cardinality({i \in DOMAIN state.proposals : state.proposals[i].valid})

JournalsAgree(state) ==
  /\ journal # <<>> /\ state.events = journal
  /\ state.audit = audit
  /\ RefsOf("proposal", audit) = Numbered(state.proposals)
  /\ LET receipts == RefsOf("task", audit)
     IN /\ {r[2] : r \in receipts} = state.receipts
        /\ {<<r[1], r[2].task>> : r \in receipts} = Numbered(state.order)

Restorable(state) ==
  /\ state.status # "absent"
  /\ JournalsAgree(state)
  /\ Planned(ActivePlan(state).tasks) = {t \in Ids : state.tasks[t].status # "absent"}
  /\ ~state.asked
  /\ ProposalsAgree(state)
  /\ ReceiptsAgree(state)

\* An explicit Resume: files that agree, an unchanged Project, nothing uncertain.
Resume ==
  /\ pc \in {"down", "finished"}
  /\ Restorable(saved)
  /\ saved.revision = project
  /\ \A t \in Ids : saved.tasks[t].status # "running"
  /\ mem' = saved
  /\ pc' = "schedule"
  /\ UNCHANGED <<cur, outcome, answer, staged, files, world>>

-----------------------------------------------------------------------------
(* Dispatching one task and recording what came of it.                      *)

Save(state) == mem' = state /\ saved' = state

WithRecord(state, t, record) == [state EXCEPT !.tasks = [state.tasks EXCEPT ![t] = record]]

WithStatus(state, t, status) ==
  WithRecord(state, t, [state.tasks[t] EXCEPT !.status = status])

Ready ==
  {t \in Ids : /\ mem.tasks[t].status = "pending"
               /\ \A d \in ActivePlan(mem).tasks[t].deps : mem.tasks[d].status = "verified"}

\* The record goes to disk as `running' before anything external can happen.
Schedule ==
  /\ pc = "schedule"
  /\ Ready # {}
  /\ \/ project # mem.revision /\ Raise
     \/ /\ project = mem.revision
        /\ LET t == Smallest(Ready) IN
             /\ cur' = t
             /\ Save(WithStatus(mem, t, "running"))
        /\ pc' = "dispatch"
        /\ UNCHANGED <<outcome, answer, staged, journal, audit, receiptFiles,
                       proposalFiles, world>>

\* validate_dynamic_preparation looks at the Project again; then the effects start.
Launch ==
  /\ pc = "dispatch"
  /\ \/ project # mem.revision /\ Raise
     \/ /\ project = mem.revision
        /\ dispatched' = Append(dispatched,
             [run |-> ChildRun(cur, mem.tasks[cur].attempts), task |-> cur,
              attempt |-> mem.tasks[cur].attempts,
              definition |-> ActivePlan(mem).tasks[cur]])
        /\ project' \in IF ActivePlan(mem).tasks[cur].body \in EditingBodies
                        THEN {project, project + 1} ELSE {project}
        /\ outcome' \in {"verified", "failed", "blocked"}
        /\ pc' = "collect"
        /\ UNCHANGED <<cur, answer, mem, staged, files, crashes, edits>>

\* execute answers `blocked' before it gets to the preparation: no effects.
Decline ==
  /\ pc = "dispatch"
  /\ outcome' = "blocked"
  /\ pc' = "collect"
  /\ UNCHANGED <<cur, answer, mem, staged, files, world>>

\* The result and the Project revision it is good for are put in the record.
Collect ==
  /\ pc = "collect"
  /\ mem' = WithRecord(mem, cur,
               [status   |-> IF outcome = "verified" THEN "verified" ELSE "blocked",
                attempts |-> mem.tasks[cur].attempts + 1,
                plan     |-> ActivePlan(mem).revision,
                revision |-> project])
  /\ pc' = "save"
  /\ UNCHANGED <<cur, outcome, answer, staged, files, world>>

\* The revision of the Run is read once more, and the state goes to disk.
SaveResult ==
  /\ pc = "save"
  /\ Save([mem EXCEPT !.revision = project])
  /\ pc' = "decide"
  /\ UNCHANGED <<cur, outcome, answer, staged, journal, audit, receiptFiles,
                 proposalFiles, world>>

\* A semantic repair: the next candidate, as long as one is left.
Repair ==
  /\ pc = "decide"
  /\ outcome = "failed"
  /\ mem.tasks[cur].attempts <= MaxRepairs
  /\ Save(WithStatus(mem, cur, "running"))
  /\ pc' = "dispatch"
  /\ UNCHANGED <<cur, outcome, answer, staged, journal, audit, receiptFiles,
                 proposalFiles, world>>

\* The first repair is always tried; a later one only if the failure changed.
Settle ==
  /\ pc = "decide"
  /\ outcome = "failed" => mem.tasks[cur].attempts > 1 \/ MaxRepairs = 0
  /\ Save([mem EXCEPT !.order = Append(@, cur)])
  /\ pc' = "receipt"
  /\ UNCHANGED <<cur, outcome, answer, staged, journal, audit, receiptFiles,
                 proposalFiles, world>>

-----------------------------------------------------------------------------
(* update_plan: the boundary after a settled task.                          *)

CurrentReceipt ==
  [task |-> cur, record |-> mem.tasks[cur], definition |-> ActivePlan(mem).tasks[cur]]

WriteReceipt ==
  /\ pc = "receipt"
  /\ receiptFiles' = receiptFiles \union {CurrentReceipt}
  /\ pc' = "audit"
  /\ UNCHANGED <<locals, saved, journal, audit, proposalFiles, world>>

\* append_plan_audit: the line goes to the file, then to the state in memory.
AuditReceipt ==
  /\ pc = "audit"
  /\ LET event == [kind |-> "task", ref |-> CurrentReceipt] IN
       /\ audit' = Append(audit, event)
       /\ mem' = [mem EXCEPT !.audit = Append(@, event), !.receipts = @ \union {CurrentReceipt}]
  /\ pc' = "boundary"
  /\ UNCHANGED <<cur, outcome, answer, staged, saved, journal, receiptFiles,
                 proposalFiles, world>>

SaveBoundary ==
  /\ pc = "boundary"
  /\ Save(mem)
  /\ pc' = "propose"
  /\ UNCHANGED <<cur, outcome, answer, staged, journal, audit, receiptFiles,
                 proposalFiles, world>>

\* The proposer is asked only within its budget, and never without a trace on disk.
Propose ==
  /\ pc = "propose"
  /\ \/ /\ mem.consumed >= MaxProposals
        /\ pc' = "schedule"
        /\ UNCHANGED <<mem, saved>>
     \/ /\ mem.consumed < MaxProposals
        /\ Save([mem EXCEPT !.asked = TRUE])
        /\ pc' = "asked"
  /\ UNCHANGED <<cur, outcome, answer, staged, journal, audit, receiptFiles,
                 proposalFiles, world>>

AnswerNothingUnsaved ==   \* mutant: the question is only taken back in memory
  /\ pc = "asked"
  /\ mem' = [mem EXCEPT !.asked = FALSE]
  /\ pc' = "schedule"
  /\ UNCHANGED <<cur, outcome, answer, staged, files, world>>

AskAgain ==   \* mutant: the proposer is asked until it answers
  /\ pc = "asked"
  /\ Save([mem EXCEPT !.asked = FALSE])
  /\ pc' = "propose"
  /\ UNCHANGED <<cur, outcome, answer, staged, journal, audit, receiptFiles,
                 proposalFiles, world>>

AnswerNothing ==
  /\ pc = "asked"
  /\ Save([mem EXCEPT !.asked = FALSE])
  /\ pc' = "schedule"
  /\ UNCHANGED <<cur, outcome, answer, staged, journal, audit, receiptFiles,
                 proposalFiles, world>>

\* The proposer's answer is judged at once; the verdict is part of the receipt.
AnswerPlan ==
  /\ pc = "asked"
  /\ \E tasks \in Proposals, sound \in BOOLEAN :
       answer' = [sequence |-> mem.consumed, base |-> ActivePlan(mem).revision,
                  tasks |-> tasks,
                  valid |-> Revisable(ActivePlan(mem),
                                      [t \in Ids |-> mem.tasks[t].status],
                                      mem.consumed + 1,
                                      [tasks |-> tasks, sound |-> sound])]
  /\ mem' = [mem EXCEPT !.asked = FALSE]
  /\ pc' = "snapshot"
  /\ UNCHANGED <<cur, outcome, staged, files, world>>

WriteProposal ==
  /\ pc = "snapshot"
  /\ proposalFiles' = proposalFiles \union {answer}
  /\ pc' = "register"
  /\ UNCHANGED <<locals, saved, journal, audit, receiptFiles, world>>

AuditProposal ==
  /\ pc = "register"
  /\ LET event == [kind |-> "proposal", ref |-> answer] IN
       /\ audit' = Append(audit, event)
       /\ mem' = [mem EXCEPT !.audit = Append(@, event)]
  /\ pc' = "count"
  /\ UNCHANGED <<cur, outcome, answer, staged, saved, journal, receiptFiles,
                 proposalFiles, world>>

CountProposal ==
  /\ pc = "count"
  /\ Save([mem EXCEPT !.proposals = Append(@, answer), !.consumed = answer.sequence + 1])
  /\ pc' = IF answer.valid THEN "commit" ELSE "schedule"
  /\ UNCHANGED <<cur, outcome, answer, staged, journal, audit, receiptFiles,
                 proposalFiles, world>>

\* The task set of the new Plan: who leaves is gone, who is new is pending.
Switched(tasks) ==
  [mem EXCEPT !.tasks = [t \in Ids |->
     IF t \notin Planned(tasks) THEN NewRecord("absent")
     ELSE IF mem.tasks[t].status = "absent" THEN NewRecord("pending")
     ELSE mem.tasks[t]]]

\* commit_plan checks the base it activates on, in memory and on disk.
CommitAllowed ==
  /\ saved.events = mem.events /\ mem.events = journal
  /\ answer.base = ActivePlan(saved).revision
  /\ Readable(Revised(ActivePlan(mem), answer.tasks))

Commit ==
  /\ pc = "commit"
  /\ CommitAllowed
  /\ staged' = Switched(answer.tasks)
  /\ journal' = Append(journal, Revised(ActivePlan(mem), answer.tasks))
  /\ pc' = "activate"
  /\ UNCHANGED <<cur, outcome, answer, mem, saved, audit, receiptFiles, proposalFiles, world>>

\* The journal was written first; one state file switches Plan and task set.
Activate ==
  /\ pc = "activate"
  /\ Save([staged EXCEPT !.events = journal])
  /\ staged' = NoState
  /\ pc' = "schedule"
  /\ UNCHANGED <<cur, outcome, answer, journal, audit, receiptFiles, proposalFiles, world>>

-----------------------------------------------------------------------------
(* The end of the Run.                                                      *)

FinalGatesByStatus(tasks) ==   \* mutant: stale results count
  \E t \in Ids : tasks[t].status = "verified"

\* verify_final_gates: a verified task carries the gates if its result is current.
FinalGatesPass(tasks) ==
  \E t \in Ids : tasks[t].status = "verified" /\ tasks[t].revision = project

Finish ==
  /\ pc = "schedule"
  /\ Ready = {}
  /\ LET tasks == [t \in Ids |-> IF mem.tasks[t].status = "pending"
                                 THEN [mem.tasks[t] EXCEPT !.status = "blocked_dependency"]
                                 ELSE mem.tasks[t]]
         good  == /\ \A t \in Ids : tasks[t].status \in {"absent", "verified"}
                  /\ FinalGatesPass(tasks)
     IN Save([mem EXCEPT !.tasks = tasks, !.revision = project,
                         !.status = IF good THEN "verified" ELSE "blocked"])
  /\ pc' = "finished"
  /\ UNCHANGED <<cur, outcome, answer, staged, journal, audit, receiptFiles,
                 proposalFiles, world>>

\* Somebody else edits the Project.
Edit ==
  /\ edits < MaxEdits
  /\ edits' = edits + 1
  /\ project' = project + 1
  /\ UNCHANGED <<pc, locals, files, dispatched, crashes>>

Step ==
  \/ Schedule \/ Launch \/ Decline \/ Collect \/ SaveResult \/ Repair \/ Settle
  \/ WriteReceipt \/ AuditReceipt \/ SaveBoundary
  \/ Propose \/ AnswerNothing \/ AnswerPlan \/ WriteProposal \/ AuditProposal
  \/ CountProposal \/ Commit \/ Activate \/ Finish

Next == Start \/ Resume \/ Step \/ Crash \/ Edit

Spec == Init /\ [][Next]_vars

(* A living process keeps going: execute and the proposer answer in the end. *)
(* Nothing obliges anyone to start it, to resume it, or to let it crash.     *)
FairSpec == Spec /\ WF_vars(Step)

-----------------------------------------------------------------------------
(* Properties.                                                              *)

TypeOK ==
  /\ pc \in Steps
  /\ cur \in Ids
  /\ outcome \in {"none", "verified", "failed", "blocked"}
  /\ answer \in ProposalReceipt
  /\ mem \in RunState /\ staged \in RunState /\ saved \in RunState
  /\ journal \in Seq(Plan)
  /\ audit \in Seq(AuditEvent)
  /\ receiptFiles \in SUBSET TaskReceipt
  /\ proposalFiles \in SUBSET ProposalReceipt
  /\ project \in Nat
  /\ dispatched \in Seq([run : Ids \X Nat, task : Ids, attempt : Nat,
                         definition : Definition \union {NoTask}])
  /\ crashes \in 0..MaxCrashes /\ edits \in 0..MaxEdits

\* External effects of an attempt start at most once, whatever dies and however
\* often the Run is resumed: no two dispatches share a child Run.
NoRunDispatchedTwice ==
  \A i, j \in DOMAIN dispatched : dispatched[i].run = dispatched[j].run => i = j

\* What was dispatched stays planned exactly as it was dispatched, in every later
\* Plan of the journal: revisions rewrite only what nobody has started.
DispatchedDefinitionKept ==
  journal # <<>> =>
    \A i \in DOMAIN dispatched :
      Last(journal).tasks[dispatched[i].task] = dispatched[i].definition

\* Whenever the process chooses what to do next, after any deaths and resumes, its
\* files and its memory tell one story: nothing journalled was lost or skipped.
ScheduleFromAgreement ==
  pc = "schedule" => mem = saved /\ Restorable(mem)

\* A Run called verified is verified by results that were current at the end, on a
\* Plan whose every task is verified and whose journals agree.
VerifiedIsCurrent ==
  saved.status = "verified" =>
    /\ \E t \in Ids : /\ saved.tasks[t].status = "verified"
                      /\ saved.tasks[t].revision = saved.revision
    /\ \A t \in Planned(ActivePlan(saved).tasks) : saved.tasks[t].status = "verified"

\* On disk a verified task never falls back, whatever is resumed or replanned, and
\* an executed task never becomes dispatchable again.
SettledNeverReopens ==
  [][\A t \in Ids :
       /\ saved.tasks[t].status = "verified" => saved'.tasks[t] = saved.tasks[t]
       /\ saved.tasks[t].attempts > 0 => saved'.tasks[t].status \notin {"absent", "pending"}]_vars

\* A living process reaches the end of its Run, or dies on the way.
RunEnds == pc # "down" ~> pc \in {"down", "finished"}
=============================================================================
