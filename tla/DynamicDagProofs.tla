-------------------------- MODULE DynamicDagProofs ---------------------------
(***************************************************************************)
(* Machine-checked facts about DynamicDag, for every set of tasks, every   *)
(* proposer and every number of crashes, edits, repairs and revisions: the *)
(* types; no child Run is ever dispatched twice; a verified Run rests on   *)
(* present results; what was dispatched is planned so ever after; what is  *)
(* settled stays settled; and a process that schedules holds what is on    *)
(* disk, whose journals, receipts and proposals agree with it.             *)
(***************************************************************************)
EXTENDS DynamicDag, FiniteSetTheorems, TLAPS

\* sorted(S)[0] is a member of S.
LEMMA SmallestIn ==
  ASSUME NEW S \in SUBSET Ids, S # {}
  PROVE  Smallest(S) \in S
BY PlanConstants DEF Smallest

\* An appended event is the new last one.
LEMMA LastAppended ==
  ASSUME NEW S, NEW s \in Seq(S), NEW e \in S
  PROVE  /\ Append(s, e) \in Seq(S)
         /\ Append(s, e) # <<>>
         /\ Last(Append(s, e)) = e
BY DEF Last

\* The last event of a journal that has one is an event.
LEMMA LastIn ==
  ASSUME NEW S, NEW s \in Seq(S), s # <<>>
  PROVE  Last(s) \in S
BY DEF Last

\* The state before the first start is typed.
LEMMA NoStateTyped == NoState \in RunState
<1>1. NewRecord("absent") \in TaskRecord
  BY DEF NewRecord, TaskRecord, TaskStatus
<1>2. [t \in Ids |-> NewRecord("absent")] \in [Ids -> TaskRecord]
  BY <1>1
<1>3. <<>> \in Seq(Ids) /\ <<>> \in Seq(Plan) /\ <<>> \in Seq(AuditEvent) /\ <<>> \in Seq(ProposalReceipt)
  OBVIOUS
<1> QED BY <1>2, <1>3 DEF NoState, RunState

\* Replacing one record keeps the state typed and the other records as they were.
LEMMA RecordReplaced ==
  ASSUME NEW s \in RunState, NEW t \in Ids, NEW r \in TaskRecord
  PROVE  /\ WithRecord(s, t, r) \in RunState
         /\ WithRecord(s, t, r).tasks = [s.tasks EXCEPT ![t] = r]
         /\ WithRecord(s, t, r).events = s.events
         /\ WithRecord(s, t, r).status = s.status
<1>1. [s.tasks EXCEPT ![t] = r] \in [Ids -> TaskRecord]
  BY DEF RunState
<1> QED BY <1>1 DEF WithRecord, RunState

\* Giving one task another status (`running' before a dispatch) touches nothing else.
LEMMA StatusReplaced ==
  ASSUME NEW s \in RunState, NEW t \in Ids, NEW status \in TaskStatus
  PROVE  /\ WithStatus(s, t, status) \in RunState
         /\ WithStatus(s, t, status).events = s.events
         /\ WithStatus(s, t, status).status = s.status
         /\ \A u \in Ids : u # t => WithStatus(s, t, status).tasks[u] = s.tasks[u]
         /\ WithStatus(s, t, status).tasks[t].status = status
         /\ WithStatus(s, t, status).tasks[t].attempts = s.tasks[t].attempts
<1> DEFINE r == [s.tasks[t] EXCEPT !.status = status]
<1>1. s.tasks \in [Ids -> TaskRecord]
  BY DEF RunState
<1>2. r \in TaskRecord /\ r.status = status /\ r.attempts = s.tasks[t].attempts
  BY <1>1 DEF TaskRecord
<1>3. WithStatus(s, t, status) = WithRecord(s, t, r)
  BY DEF WithStatus
<1> HIDE DEF r
<1>4. /\ WithRecord(s, t, r) \in RunState
      /\ WithRecord(s, t, r).tasks = [s.tasks EXCEPT ![t] = r]
      /\ WithRecord(s, t, r).events = s.events
      /\ WithRecord(s, t, r).status = s.status
  BY <1>2, RecordReplaced
<1> QED BY <1>1, <1>2, <1>3, <1>4

-----------------------------------------------------------------------------
(* Types.                                                                   *)

\* The empty proposal slot is typed.
LEMMA NoAnswerTyped == NoAnswer \in ProposalReceipt
BY DEF NoAnswer, ProposalReceipt, TaskMap

\* An empty Run directory and no process: everything is typed.
LEMMA InitTyped == Init => TypeOK
<1> SUFFICES ASSUME Init PROVE TypeOK
  OBVIOUS
<1>1. Smallest(Ids) \in Ids
  BY SmallestIn, PlanConstants
<1>2. journal \in Seq(Plan) /\ audit \in Seq(AuditEvent)
  BY DEF Init
<1>3. dispatched \in Seq([run : Ids \X Nat, task : Ids, attempt : Nat,
                         definition : Definition \union {NoTask}])
  BY DEF Init
<1>4. 0 \in 0..MaxCrashes /\ 0 \in 0..MaxEdits
  BY RunConstants
<1> QED BY <1>1, <1>2, <1>3, <1>4, NoStateTyped, NoAnswerTyped DEF Init, TypeOK, Steps

\* A Plan in the journal is typed, and so is the active one of a running state.
LEMMA RevisedTyped ==
  ASSUME NEW p \in Plan, NEW tasks \in TaskMap
  PROVE  Revised(p, tasks) \in Plan
BY DEF Revised, Plan, Planned

\* create_plan makes a Plan.
LEMMA FirstTyped == FirstPlan(InitialTasks) \in Plan
BY RunConstants DEF FirstPlan, Plan, Planned

\* The receipt of the task at hand is typed while a Plan is active.
LEMMA ReceiptTyped ==
  ASSUME TypeOK, mem.events # <<>>
  PROVE  CurrentReceipt \in TaskReceipt
<1>1. mem.events \in Seq(Plan) /\ mem.tasks \in [Ids -> TaskRecord] /\ cur \in Ids
  BY DEF TypeOK, RunState
<1>2. ActivePlan(mem) \in Plan
  BY <1>1, LastIn DEF ActivePlan
<1>3. ActivePlan(mem).tasks[cur] \in Definition \union {NoTask}
  BY <1>1, <1>2 DEF Plan, TaskMap
<1> QED BY <1>1, <1>3 DEF CurrentReceipt, TaskReceipt

\* A process that works has an active Plan in memory, and whoever is about to
\* switch has one in the journal.
Planning ==
  /\ pc \notin {"down", "activate"} => mem.events # <<>>
  /\ pc = "activate" => journal # <<>>

\* No step of the process, no death and no edit leaves the types.
LEMMA StepTyped == TypeOK /\ Planning /\ [Next]_vars => TypeOK' /\ Planning'
<1> SUFFICES ASSUME TypeOK, Planning, [Next]_vars PROVE TypeOK' /\ Planning'
  OBVIOUS
<1> USE DEF locals, files, world
<1>t. /\ mem \in RunState /\ saved \in RunState /\ staged \in RunState
      /\ cur \in Ids /\ answer \in ProposalReceipt /\ project \in Nat
      /\ journal \in Seq(Plan) /\ audit \in Seq(AuditEvent)
  BY DEF TypeOK
<1>d. ASSUME Down, UNCHANGED <<files, project, dispatched, edits>>,
             crashes' \in 0..MaxCrashes
      PROVE  TypeOK' /\ Planning'
  <2>1. Smallest(Ids) \in Ids
    BY SmallestIn, PlanConstants
  <2> QED BY <1>d, <2>1, NoStateTyped, NoAnswerTyped DEF Down, TypeOK, Steps, Planning
<1>r. ASSUME Raise PROVE TypeOK' /\ Planning'
  <2>1. crashes \in 0..MaxCrashes BY DEF TypeOK
  <2> QED BY <1>r, <1>d, <2>1 DEF Raise
<1>1. CASE Start
  <2>1. FreshState \in RunState
    <3>1. \A t \in Ids : NewRecord(IF t \in Planned(InitialTasks) THEN "pending" ELSE "absent")
                          \in TaskRecord
      BY DEF NewRecord, TaskRecord, TaskStatus
    <3>2. FreshState.tasks \in [Ids -> TaskRecord] /\ FreshState.status = "running"
      BY <3>1, NoStateTyped DEF FreshState, NoState
    <3> QED BY <3>1, <1>t, NoStateTyped DEF FreshState, RunState, NoState
  <2>2. journal' \in Seq(Plan) /\ journal' # <<>>
    BY <1>1, FirstTyped DEF Start
  <2> QED BY <1>1, <2>1, <2>2 DEF Start, TypeOK, Steps, Planning
<1>2. CASE Resume
  BY <1>2, <1>t DEF Resume, Restorable, JournalsAgree, TypeOK, Steps, Planning
<1>3. CASE Schedule
  <2>1. CASE Raise BY <2>1, <1>r
  <2>2. CASE ~Raise
    <3>1. Ready \subseteq Ids BY DEF Ready
    <3>2. Smallest(Ready) \in Ids BY <3>1, <1>3, SmallestIn DEF Schedule
    <3>3. cur' = Smallest(Ready) /\ mem' = WithStatus(mem, Smallest(Ready), "running")
          /\ saved' = mem' /\ pc' = "dispatch"
      BY <1>3, <2>2 DEF Schedule, Save
    <3>4. mem' \in RunState /\ mem'.events = mem.events
      <4>1. "running" \in TaskStatus BY DEF TaskStatus
      <4> QED BY <3>2, <3>3, <4>1, <1>t, StatusReplaced
    <3> QED BY <1>3, <2>2, <3>2, <3>3, <3>4 DEF Schedule, TypeOK, Steps, Planning
  <2> QED BY <2>1, <2>2
<1>4. CASE Launch
  <2>1. CASE Raise BY <2>1, <1>r
  <2>2. CASE ~Raise
    <3>1. mem.tasks \in [Ids -> TaskRecord] /\ mem.events \in Seq(Plan)
      BY <1>t DEF RunState
    <3>2. ActivePlan(mem) \in Plan
      BY <3>1, <1>4, LastIn DEF ActivePlan, Launch, Planning
    <3>3. ActivePlan(mem).tasks[cur] \in Definition \union {NoTask}
      BY <1>t, <3>2 DEF Plan, TaskMap
    <3>4. mem.tasks[cur].attempts \in Nat
      BY <1>t, <3>1 DEF TaskRecord
    <3>5. ChildRun(cur, mem.tasks[cur].attempts) \in Ids \X Nat
      BY <1>t, <3>4, PlanConstants DEF ChildRun
    <3> DEFINE d == [run |-> ChildRun(cur, mem.tasks[cur].attempts), task |-> cur,
                     attempt |-> mem.tasks[cur].attempts,
                     definition |-> ActivePlan(mem).tasks[cur]]
               Dispatch == [run : Ids \X Nat, task : Ids, attempt : Nat,
                            definition : Definition \union {NoTask}]
    <3>6. d \in Dispatch
      BY <1>t, <3>3, <3>4, <3>5
    <3>7. dispatched' = Append(dispatched, d) /\ dispatched \in Seq(Dispatch)
      BY <1>4, <2>2 DEF Launch, TypeOK
    <3>8. dispatched' \in Seq(Dispatch)
      <4> HIDE DEF d, Dispatch
      <4> QED BY <3>6, <3>7, LastAppended
    <3>9. project' \in Nat /\ outcome' \in {"none", "verified", "failed", "blocked"}
      BY <1>4, <1>t, <2>2 DEF Launch
    <3>10. pc' = "collect" /\ UNCHANGED <<cur, answer, mem, staged, files, crashes, edits>>
      BY <1>4, <2>2 DEF Launch
    <3>11. pc = "dispatch"
      BY <1>4 DEF Launch
    <3> HIDE DEF d
    <3> QED BY <3>8, <3>9, <3>10, <3>11 DEF TypeOK, Steps, Planning
  <2> QED BY <2>1, <2>2
<1>5. CASE Decline BY <1>5 DEF Decline, TypeOK, Steps, Planning
<1>6. CASE Collect
  <2>1. mem.tasks[cur].attempts + 1 \in Nat
    <3>1. mem.tasks \in [Ids -> TaskRecord]
      BY <1>t DEF RunState
    <3>2. mem.tasks[cur].attempts \in Nat
      BY <3>1, <1>t DEF TaskRecord
    <3> QED BY <3>2
  <2>2. ActivePlan(mem).revision \in Nat
    BY <1>6, <1>t, LastIn DEF ActivePlan, Collect, Planning, RunState, Plan
  <2> DEFINE r == [status   |-> IF outcome = "verified" THEN "verified" ELSE "blocked",
                   attempts |-> mem.tasks[cur].attempts + 1,
                   plan     |-> ActivePlan(mem).revision,
                   revision |-> project]
  <2>3. r \in TaskRecord
    BY <2>1, <2>2, <1>t DEF TaskRecord, TaskStatus
  <2>4. mem' = WithRecord(mem, cur, r) /\ pc' = "save"
    BY <1>6 DEF Collect
  <2> HIDE DEF r
  <2>5. mem' \in RunState /\ mem'.events = mem.events
    BY <2>3, <2>4, <1>t, RecordReplaced
  <2> QED BY <1>6, <2>4, <2>5 DEF Collect, TypeOK, Steps, Planning
<1>7. CASE SaveResult
  <2>1. [mem EXCEPT !.revision = project] \in RunState
    BY <1>t DEF RunState
  <2> QED BY <1>7, <2>1, <1>t DEF SaveResult, Save, TypeOK, Steps, Planning, RunState
<1>8. CASE Repair
  <2>1. mem' \in RunState /\ mem'.events = mem.events /\ saved' = mem'
    <3>1. "running" \in TaskStatus BY DEF TaskStatus
    <3>2. mem' = WithStatus(mem, cur, "running") /\ saved' = mem'
      BY <1>8 DEF Repair, Save
    <3> QED BY <3>1, <3>2, <1>t, StatusReplaced
  <2> QED BY <1>8, <2>1 DEF Repair, TypeOK, Steps, Planning
<1>9. CASE Settle
  <2>1. mem' = [mem EXCEPT !.order = Append(mem.order, cur)] /\ saved' = mem'
    BY <1>9 DEF Settle, Save
  <2>2. mem' \in RunState /\ mem'.events = mem.events
    <3>1. Append(mem.order, cur) \in Seq(Ids)
      BY <1>t DEF RunState
    <3> QED BY <2>1, <3>1, <1>t DEF RunState
  <2> QED BY <1>9, <2>1, <2>2 DEF Settle, TypeOK, Steps, Planning
<1>10. CASE WriteReceipt
  <2>1. CurrentReceipt \in TaskReceipt
    BY <1>10, ReceiptTyped DEF WriteReceipt, Planning
  <2> QED BY <1>10, <2>1 DEF WriteReceipt, TypeOK, Steps, Planning
<1>11. CASE AuditReceipt
  <2>1. CurrentReceipt \in TaskReceipt
    BY <1>11, ReceiptTyped DEF AuditReceipt, Planning
  <2> DEFINE e == [kind |-> "task", ref |-> CurrentReceipt]
  <2>2. e \in AuditEvent
    BY <2>1 DEF AuditEvent
  <2>3. /\ mem' = [mem EXCEPT !.audit = Append(mem.audit, e),
                             !.receipts = mem.receipts \union {CurrentReceipt}]
        /\ audit' = Append(audit, e)
    BY <1>11 DEF AuditReceipt
  <2> HIDE DEF e
  <2>4. mem' \in RunState /\ mem'.events = mem.events
    <3> HIDE DEF e
    <3>1. mem.audit \in Seq(AuditEvent) /\ mem.receipts \in SUBSET TaskReceipt
      BY <1>t DEF RunState
    <3>2. Append(mem.audit, e) \in Seq(AuditEvent)
      BY <2>2, <3>1, LastAppended
    <3>3. mem.receipts \union {CurrentReceipt} \in SUBSET TaskReceipt
      BY <2>1, <3>1
    <3> QED BY <2>3, <3>2, <3>3, <1>t DEF RunState
  <2>5. audit' \in Seq(AuditEvent)
    BY <2>2, <2>3, <1>t
  <2> QED BY <1>11, <2>4, <2>5 DEF AuditReceipt, TypeOK, Steps, Planning
<1>12. CASE SaveBoundary BY <1>12, <1>t DEF SaveBoundary, Save, TypeOK, Steps, Planning
<1>13. CASE Propose
  <2>1. /\ [mem EXCEPT !.asked = TRUE] \in RunState
        /\ [mem EXCEPT !.asked = TRUE].events = mem.events
    BY <1>t DEF RunState
  <2> QED BY <1>13, <2>1, <1>t DEF Propose, Save, TypeOK, Steps, Planning
<1>14. CASE AnswerNothing
  <2>1. /\ [mem EXCEPT !.asked = FALSE] \in RunState
        /\ [mem EXCEPT !.asked = FALSE].events = mem.events
    BY <1>t DEF RunState
  <2> QED BY <1>14, <2>1, <1>t DEF AnswerNothing, Save, TypeOK, Steps, Planning
<1>15. CASE AnswerPlan
  <2>1. /\ [mem EXCEPT !.asked = FALSE] \in RunState
        /\ [mem EXCEPT !.asked = FALSE].events = mem.events
    BY <1>t DEF RunState
  <2>2. ActivePlan(mem).revision \in Nat /\ mem.consumed \in Nat
    BY <1>15, <1>t, LastIn DEF ActivePlan, AnswerPlan, Planning, RunState, Plan
  <2>3. answer' \in ProposalReceipt
    <3> HIDE DEF Revisable
    <3>1. \A b : (b <=> TRUE) \/ (b <=> FALSE) OBVIOUS
    <3> QED BY <1>15, <2>2, RunConstants DEF AnswerPlan, ProposalReceipt, Revisable
  <2> QED BY <1>15, <2>1, <2>3, <1>t DEF AnswerPlan, TypeOK, Steps, Planning
<1>16. CASE WriteProposal BY <1>16, <1>t DEF WriteProposal, TypeOK, Steps, Planning
<1>17. CASE AuditProposal
  <2> DEFINE e == [kind |-> "proposal", ref |-> answer]
  <2>2. e \in AuditEvent
    BY <1>t DEF AuditEvent
  <2>3. /\ mem' = [mem EXCEPT !.audit = Append(mem.audit, e)]
        /\ audit' = Append(audit, e)
    BY <1>17 DEF AuditProposal
  <2> HIDE DEF e
  <2>4. mem' \in RunState /\ mem'.events = mem.events
    <3>1. mem.audit \in Seq(AuditEvent)
      BY <1>t DEF RunState
    <3>2. Append(mem.audit, e) \in Seq(AuditEvent)
      BY <2>2, <3>1, LastAppended
    <3> QED BY <2>3, <3>2, <1>t DEF RunState
  <2>5. audit' \in Seq(AuditEvent)
    BY <2>2, <2>3, <1>t
  <2> QED BY <1>17, <2>4, <2>5 DEF AuditProposal, TypeOK, Steps, Planning
<1>18. CASE CountProposal
  <2>1. /\ mem' = [mem EXCEPT !.proposals = Append(mem.proposals, answer),
                             !.consumed = answer.sequence + 1]
        /\ saved' = mem'
    BY <1>18 DEF CountProposal, Save
  <2>2. answer.sequence + 1 \in Nat
    BY <1>t DEF ProposalReceipt
  <2>3. mem' \in RunState /\ mem'.events = mem.events
    <3>1. mem.proposals \in Seq(ProposalReceipt)
      BY <1>t DEF RunState
    <3>2. Append(mem.proposals, answer) \in Seq(ProposalReceipt)
      BY <3>1, <1>t, LastAppended
    <3> QED BY <2>1, <2>2, <3>2, <1>t DEF RunState
  <2> QED BY <1>18, <2>1, <2>3 DEF CountProposal, TypeOK, Steps, Planning
<1>19. CASE Commit
  <2>1. ActivePlan(mem) \in Plan /\ answer.tasks \in TaskMap
    BY <1>19, <1>t, LastIn DEF ActivePlan, Commit, Planning, RunState, ProposalReceipt
  <2>2. journal' \in Seq(Plan) /\ journal' # <<>>
    BY <1>19, <2>1, <1>t, RevisedTyped, LastAppended DEF Commit
  <2>3. Switched(answer.tasks) \in RunState
    <3>1. \A status \in TaskStatus : NewRecord(status) \in TaskRecord
      BY DEF NewRecord, TaskRecord
    <3>2. mem.tasks \in [Ids -> TaskRecord]
      BY <1>t DEF RunState
    <3>3. [t \in Ids |->
             IF t \notin Planned(answer.tasks) THEN NewRecord("absent")
             ELSE IF mem.tasks[t].status = "absent" THEN NewRecord("pending")
             ELSE mem.tasks[t]] \in [Ids -> TaskRecord]
      BY <3>1, <3>2 DEF TaskStatus
    <3> QED BY <3>3, <1>t DEF Switched, RunState
  <2> QED BY <1>19, <2>2, <2>3 DEF Commit, TypeOK, Steps, Planning
<1>20. CASE Activate
  <2>1. [staged EXCEPT !.events = journal] \in RunState
        /\ [staged EXCEPT !.events = journal].events = journal
    BY <1>t DEF RunState
  <2> QED BY <1>20, <2>1, NoStateTyped DEF Activate, Save, TypeOK, Steps, Planning
<1>21. CASE Finish
  <2> DEFINE tasks == [t \in Ids |-> IF mem.tasks[t].status = "pending"
                                     THEN [mem.tasks[t] EXCEPT !.status = "blocked_dependency"]
                                     ELSE mem.tasks[t]]
             final(verdict) == [mem EXCEPT !.tasks = tasks, !.revision = project,
                                           !.status = verdict]
  <2>1. tasks \in [Ids -> TaskRecord]
    BY <1>t DEF RunState, TaskRecord, TaskStatus
  <2>2. \A verdict \in {"verified", "blocked"} :
          final(verdict) \in RunState /\ final(verdict).events = mem.events
    <3> HIDE DEF tasks
    <3> QED BY <2>1, <1>t DEF RunState
  <2>3. \E verdict \in {"verified", "blocked"} : Save(final(verdict))
    BY <1>21 DEF Finish
  <2> HIDE DEF final
  <2> QED BY <1>21, <2>2, <2>3 DEF Finish, Save, TypeOK, Steps, Planning
<1>22. CASE Crash
  <2>1. crashes' \in 0..MaxCrashes
    BY <1>22, RunConstants DEF Crash, TypeOK
  <2> QED BY <1>22, <2>1, <1>d DEF Crash
<1>23. CASE Edit BY <1>23, RunConstants DEF Edit, TypeOK, Steps, Planning
<1>24. CASE UNCHANGED vars BY <1>24 DEF vars, TypeOK, Planning
<1> QED BY <1>1, <1>2, <1>3, <1>4, <1>5, <1>6, <1>7, <1>8, <1>9, <1>10, <1>11, <1>12,
           <1>13, <1>14, <1>15, <1>16, <1>17, <1>18, <1>19, <1>20, <1>21, <1>22, <1>23,
           <1>24 DEF Next, Step

\* Every reachable state of a Run, its files included, is well typed.
THEOREM TypeCorrect == Spec => []TypeOK
<1>1. Init => TypeOK /\ Planning
  BY InitTyped DEF Init, Planning
<1> QED BY <1>1, StepTyped, PTL DEF Spec

-----------------------------------------------------------------------------
(* No child Run is dispatched twice.                                        *)

\* Memory and disk agree on what matters, except for the result being saved.
Agree ==
  /\ pc = "down" => mem = NoState
  /\ pc # "down" => mem.events = saved.events /\ mem.status = saved.status
  /\ pc \notin {"down", "save"} => mem.tasks = saved.tasks
  /\ pc = "save" => /\ mem.tasks = [saved.tasks EXCEPT ![cur] = mem.tasks[cur]]
                    /\ mem.tasks[cur].attempts = saved.tasks[cur].attempts + 1
                    /\ mem.tasks[cur].status \in {"verified", "blocked"}
  /\ pc \in {"dispatch", "collect", "save"} => saved.tasks[cur].status = "running"
  /\ pc = "decide" => saved.tasks[cur].status # "absent"
  /\ pc \notin {"down", "activate"} => saved.status # "absent"
  /\ saved.status = "absent" => saved = NoState

Started(tasks) ==
  \A t \in Ids : tasks[t].attempts > 0 => tasks[t].status \in {"running", "verified", "blocked"}

Covered(tasks, plan) ==
  \A t \in Ids : tasks[t].status = "absent" <=> t \notin Planned(plan.tasks)

WellNamed(plan) ==
  Planned(plan.tasks) \subseteq plan.generated /\ DistinctNames(plan.generated)

\* What the state file says at any time.
Disk ==
  /\ Started(saved.tasks)
  /\ saved.status # "absent" =>
       Covered(saved.tasks, ActivePlan(saved)) /\ WellNamed(ActivePlan(saved))

\* The state about to be activated has forgotten no attempt.
Switching ==
  pc = "activate" =>
    /\ staged.status # "absent"
    /\ Covered(staged.tasks, Last(journal)) /\ WellNamed(Last(journal))
    /\ \A t \in Ids : staged.tasks[t].attempts = saved.tasks[t].attempts
    /\ \A t \in Ids : saved.tasks[t].attempts > 0 => staged.tasks[t] = saved.tasks[t]

\* What the verdict on the proposal at hand still means when it is activated.
Verdict ==
  /\ pc \in {"snapshot", "register", "count", "commit"} /\ answer.valid =>
       /\ KeepsStarted(ActivePlan(mem), [t \in Ids |-> mem.tasks[t].status], answer.tasks)
       /\ DistinctNames(ActivePlan(mem).generated \union Planned(answer.tasks))
  /\ pc = "commit" => answer.valid

\* A dispatched attempt is behind the count on disk, or marked as running there
\* and in the hands of the process that may have died with it.
Effects ==
  /\ \A i \in DOMAIN dispatched :
       LET d == dispatched[i] IN
         /\ d.run = ChildRun(d.task, d.attempt)
         /\ \/ d.attempt < saved.tasks[d.task].attempts
            \/ /\ d.attempt = saved.tasks[d.task].attempts
               /\ saved.tasks[d.task].status = "running"
               /\ pc = "down" \/ (pc \in {"collect", "save"} /\ cur = d.task)
  /\ \A i, j \in DOMAIN dispatched :
       dispatched[i].task = dispatched[j].task /\ dispatched[i].attempt = dispatched[j].attempt
         => i = j

RunInv == Agree /\ Disk /\ Switching /\ Verdict /\ Effects

\* Two different attempts of well named tasks have two different child Runs.
LEMMA NamesApart ==
  ASSUME NEW S \in SUBSET Ids, DistinctNames(S),
         NEW t \in S, NEW a \in Nat, NEW u \in S, NEW b \in Nat,
         ChildRun(t, a) = ChildRun(u, b)
  PROVE  t = u /\ a = b
<1> DEFINE Spelled(x, n) == n = 0 /\ \E twin \in Twins : twin[3] = x
           Source(x) == CHOOSE twin \in Twins : twin[3] = x
<1>1. \A x \in Ids, n \in Nat :
        \/ Spelled(x, n) /\ Source(x) \in Twins /\ Source(x)[3] = x
             /\ ChildRun(x, n) = <<Source(x)[1], Source(x)[2]>>
        \/ ~Spelled(x, n) /\ ChildRun(x, n) = <<x, n>>
  BY DEF ChildRun
<1>2. \A x, y \in S : ~\E twin \in Twins : twin[1] = x /\ twin[3] = y
  BY DEF DistinctNames
<1>3. t \in Ids /\ u \in Ids
  OBVIOUS
<1>4. CASE Spelled(t, a) /\ Spelled(u, b)
  <2>1. /\ Source(t) \in Twins /\ Source(t)[3] = t /\ Source(u) \in Twins /\ Source(u)[3] = u
        /\ Source(t)[1] = Source(u)[1] /\ Source(t)[2] = Source(u)[2]
    BY <1>1, <1>3, <1>4
  <2>2. t = u
    <3> HIDE DEF Source
    <3> QED BY <2>1, PlanConstants
  <2> QED BY <2>2, <1>4
<1>5. CASE Spelled(t, a) /\ ~Spelled(u, b)
  <2>1. Source(t) \in Twins /\ Source(t)[3] = t /\ Source(t)[1] = u
    BY <1>1, <1>3, <1>5
  <2> QED BY <2>1, <1>2
<1>6. CASE ~Spelled(t, a) /\ Spelled(u, b)
  <2>1. Source(u) \in Twins /\ Source(u)[3] = u /\ Source(u)[1] = t
    BY <1>1, <1>3, <1>6
  <2> QED BY <2>1, <1>2
<1>7. CASE ~Spelled(t, a) /\ ~Spelled(u, b)
  <2>1. <<t, a>> = <<u, b>>
    BY <1>1, <1>3, <1>7
  <2> QED BY <2>1
<1> QED BY <1>4, <1>5, <1>6, <1>7

\* The invariant says what the property asks for.
LEMMA RunInvSuffices == TypeOK /\ RunInv => NoRunDispatchedTwice
<1> SUFFICES ASSUME TypeOK, RunInv, NEW i \in DOMAIN dispatched, NEW j \in DOMAIN dispatched,
                    dispatched[i].run = dispatched[j].run
             PROVE  i = j
  BY DEF NoRunDispatchedTwice
<1> DEFINE names == ActivePlan(saved).generated
<1>1. saved.tasks \in [Ids -> TaskRecord] /\ saved.events \in Seq(Plan)
  BY DEF TypeOK, RunState
<1>2. \A k \in DOMAIN dispatched :
        /\ dispatched[k].task \in Ids /\ dispatched[k].attempt \in Nat
        /\ dispatched[k].run = ChildRun(dispatched[k].task, dispatched[k].attempt)
  <2> DEFINE Dispatch == [run : Ids \X Nat, task : Ids, attempt : Nat,
                          definition : Definition \union {NoTask}]
  <2>1. \A k \in DOMAIN dispatched : dispatched[k] \in Dispatch
    <3>1. dispatched \in Seq(Dispatch) BY DEF TypeOK
    <3> HIDE DEF Dispatch
    <3> QED BY <3>1
  <2> QED BY <2>1 DEF RunInv, Effects
<1>3. \A k \in DOMAIN dispatched : saved.tasks[dispatched[k].task].status # "absent"
  <2> SUFFICES ASSUME NEW k \in DOMAIN dispatched
               PROVE  saved.tasks[dispatched[k].task].status # "absent"
    OBVIOUS
  <2>1. saved.tasks[dispatched[k].task].attempts \in Nat
    BY <1>1, <1>2 DEF TaskRecord
  <2>2. \/ dispatched[k].attempt < saved.tasks[dispatched[k].task].attempts
        \/ saved.tasks[dispatched[k].task].status = "running"
    BY DEF RunInv, Effects
  <2> QED BY <1>2, <2>1, <2>2 DEF RunInv, Disk, Started
<1>4. saved.status # "absent"
  <2>1. dispatched[i].task \in Ids /\ saved.tasks[dispatched[i].task].status # "absent"
    BY <1>2, <1>3
  <2>2. \A t \in Ids : NoState.tasks[t].status = "absent"
    BY DEF NoState, NewRecord
  <2> QED BY <2>1, <2>2 DEF RunInv, Agree
<1>5. Covered(saved.tasks, ActivePlan(saved)) /\ WellNamed(ActivePlan(saved))
  BY <1>4 DEF RunInv, Disk
<1>6. \A k \in DOMAIN dispatched : dispatched[k].task \in names
  BY <1>2, <1>3, <1>5 DEF Covered, WellNamed
<1>7. dispatched[i].task = dispatched[j].task /\ dispatched[i].attempt = dispatched[j].attempt
  <2>1. DistinctNames(names \intersect Ids)
    BY <1>5 DEF WellNamed, DistinctNames
  <2>2. ChildRun(dispatched[i].task, dispatched[i].attempt)
          = ChildRun(dispatched[j].task, dispatched[j].attempt)
    BY <1>2
  <2> HIDE DEF names
  <2> QED BY <1>2, <1>6, <2>1, <2>2, NamesApart
<1> QED BY <1>7 DEF RunInv, Effects

\* Steps at which nothing is running and no Plan is being switched.
Between == {"schedule", "decide", "receipt", "audit", "boundary", "propose", "asked",
            "snapshot", "register", "count", "commit", "finished"}

\* A step between two dispatches that leaves records, Plan and dispatches alone.
LEMMA QuietStep ==
  ASSUME RunInv, pc \in Between, pc' \in Between \ {"decide"}, Verdict',
         mem'.tasks = mem.tasks, mem'.events = mem.events, mem'.status = mem.status,
         saved' = saved \/ saved' = mem',
         UNCHANGED <<journal, dispatched>>
  PROVE  RunInv'
<1>1. /\ mem.events = saved.events /\ mem.status = saved.status /\ mem.tasks = saved.tasks
      /\ saved.status # "absent"
  BY DEF RunInv, Agree, Between
<1>2. /\ saved'.events = saved.events /\ saved'.status = saved.status
      /\ saved'.tasks = saved.tasks
  BY <1>1
<1>3. Agree'
  BY <1>1, <1>2 DEF Agree, Between
<1>4. Disk'
  BY <1>1, <1>2 DEF RunInv, Disk, ActivePlan
<1>5. Effects'
  BY <1>2 DEF RunInv, Effects, Between
<1>6. Switching'
  BY DEF Switching, Between
<1> QED BY <1>3, <1>4, <1>5, <1>6 DEF RunInv

\* A step that neither makes nor activates a proposal keeps the verdict's meaning.
LEMMA VerdictAway ==
  ASSUME pc' \notin {"snapshot", "register", "count", "commit"}
  PROVE  Verdict'
BY DEF Verdict

\* While a proposal is being registered its verdict speaks of an unchanged state.
LEMMA VerdictKept ==
  ASSUME Verdict, pc \in {"snapshot", "register", "count"},
         pc' = "commit" => answer.valid,
         answer' = answer, mem'.tasks = mem.tasks, mem'.events = mem.events
  PROVE  Verdict'
BY DEF Verdict, ActivePlan

\* The process dies or raises: what it had dispatched is still marked on disk.
LEMMA DownStep == RunInv /\ Down /\ UNCHANGED <<files, dispatched>> => RunInv'
<1> SUFFICES ASSUME RunInv, Down, UNCHANGED <<files, dispatched>> PROVE RunInv'
  OBVIOUS
<1> USE DEF Down, files
<1>1. Agree' BY DEF RunInv, Agree
<1>2. Disk' BY DEF RunInv, Disk, ActivePlan
<1>3. Effects' BY DEF RunInv, Effects
<1>4. Switching' /\ Verdict' BY DEF Switching, Verdict
<1> QED BY <1>1, <1>2, <1>3, <1>4 DEF RunInv

\* Every dispatch is of a task and an attempt.
LEMMA DispatchTyped ==
  ASSUME TypeOK, NEW i \in DOMAIN dispatched
  PROVE  dispatched[i].task \in Ids /\ dispatched[i].attempt \in Nat
<1> DEFINE Dispatch == [run : Ids \X Nat, task : Ids, attempt : Nat,
                        definition : Definition \union {NoTask}]
<1>1. dispatched[i] \in Dispatch
  <2>1. dispatched \in Seq(Dispatch) BY DEF TypeOK
  <2> HIDE DEF Dispatch
  <2> QED BY <2>1
<1> QED BY <1>1

\* A first start journals the submitted Plan and prepares a state without attempts.
LEMMA StartStep == TypeOK /\ RunInv /\ Start => RunInv'
<1> SUFFICES ASSUME TypeOK, RunInv, Start PROVE RunInv'
  OBVIOUS
<1>1. /\ staged' = FreshState /\ journal' = <<FirstPlan(InitialTasks)>> /\ pc' = "activate"
      /\ pc = "down" /\ saved = NoState /\ mem = NoState
      /\ mem' = mem /\ saved' = saved /\ dispatched' = dispatched
  BY DEF Start, world, RunInv, Agree
<1>2. \A t \in Ids : /\ NoState.tasks[t].status = "absent"
                     /\ NoState.tasks[t].attempts = 0
  BY DEF NoState, NewRecord
<1>3. /\ FreshState.status = "running"
      /\ \A t \in Ids :
           /\ FreshState.tasks[t].status = IF t \in Planned(InitialTasks) THEN "pending"
                                            ELSE "absent"
           /\ FreshState.tasks[t].attempts = 0
  BY DEF FreshState, NoState, NewRecord
<1>4. Last(journal') = FirstPlan(InitialTasks)
  BY <1>1, FirstTyped DEF Last
<1>5. Switching'
  <2>1. Covered(staged'.tasks, Last(journal'))
    BY <1>1, <1>3, <1>4 DEF Covered, FirstPlan
  <2>2. WellNamed(Last(journal'))
    BY <1>4, RunConstants DEF WellNamed, FirstPlan, Creatable
  <2>3. \A t \in Ids : staged'.tasks[t].attempts = 0 /\ saved'.tasks[t].attempts = 0
    BY <1>1, <1>2, <1>3
  <2> QED BY <1>1, <1>3, <2>1, <2>2, <2>3 DEF Switching
<1>6. Agree'
  BY <1>1 DEF Agree
<1>7. Disk'
  BY <1>1 DEF RunInv, Disk, ActivePlan
<1>8. DOMAIN dispatched = {}
  BY <1>1, <1>2, DispatchTyped DEF RunInv, Effects
<1>9. Effects'
  BY <1>1, <1>8 DEF Effects
<1>10. Verdict'
  BY <1>1 DEF Verdict
<1> QED BY <1>5, <1>6, <1>7, <1>9, <1>10 DEF RunInv

\* A Resume reads back a state in which nothing is running.
LEMMA ResumeStep == TypeOK /\ RunInv /\ Resume => RunInv'
<1> SUFFICES ASSUME TypeOK, RunInv, Resume PROVE RunInv'
  OBVIOUS
<1>1. /\ pc \in {"down", "finished"} /\ pc' = "schedule" /\ mem' = saved
      /\ saved' = saved /\ dispatched' = dispatched
      /\ saved.status # "absent"
      /\ \A t \in Ids : saved.tasks[t].status # "running"
  BY DEF Resume, Restorable, files, world
<1>2. Agree' BY <1>1 DEF RunInv, Agree
<1>3. Disk' BY <1>1 DEF RunInv, Disk, ActivePlan
<1>4. Effects' BY <1>1, DispatchTyped DEF RunInv, Effects
<1>5. Switching' /\ Verdict' BY <1>1 DEF Switching, Verdict
<1> QED BY <1>2, <1>3, <1>4, <1>5 DEF RunInv

\* A task marked as running for a dispatch keeps its attempts and its place.
LEMMA MarkRunning ==
  ASSUME TypeOK, RunInv, pc \in Between, pc' = "dispatch", cur' \in Ids,
         mem.tasks[cur'].status # "absent",
         mem' = WithStatus(mem, cur', "running"), saved' = mem', dispatched' = dispatched
  PROVE  RunInv'
<1>1. /\ mem.events = saved.events /\ mem.status = saved.status /\ mem.tasks = saved.tasks
      /\ saved.status # "absent"
  BY DEF RunInv, Agree, Between
<1>2. mem \in RunState /\ "running" \in TaskStatus
  BY DEF TypeOK, TaskStatus
<1>3. /\ mem'.events = saved.events /\ mem'.status = saved.status
      /\ mem'.tasks[cur'].status = "running"
      /\ \A t \in Ids : mem'.tasks[t].attempts = saved.tasks[t].attempts
      /\ \A t \in Ids \ {cur'} : mem'.tasks[t] = saved.tasks[t]
  BY <1>1, <1>2, StatusReplaced
<1>4. Agree' BY <1>1, <1>3 DEF Agree
<1>5. Disk'
  BY <1>1, <1>3 DEF RunInv, Disk, ActivePlan, Started, Covered
<1>6. Effects'
  BY <1>3, DispatchTyped DEF RunInv, Effects, Between
<1>7. Switching' /\ Verdict' BY DEF Switching, Verdict
<1> QED BY <1>4, <1>5, <1>6, <1>7 DEF RunInv

\* The effects of the attempt marked on disk start: the only step that dispatches.
LEMMA LaunchStep == TypeOK /\ Planning /\ RunInv /\ Launch => RunInv'
<1> SUFFICES ASSUME TypeOK, Planning, RunInv, Launch PROVE RunInv'
  OBVIOUS
<1>r. CASE Raise BY <1>r, DownStep DEF Raise, world
<1>l. CASE ~Raise
  <2> DEFINE d == [run |-> ChildRun(cur, mem.tasks[cur].attempts), task |-> cur,
                   attempt |-> mem.tasks[cur].attempts,
                   definition |-> ActivePlan(mem).tasks[cur]]
  <2>1. /\ dispatched' = Append(dispatched, d) /\ pc = "dispatch" /\ pc' = "collect"
        /\ cur' = cur /\ mem' = mem /\ saved' = saved /\ staged' = staged
    BY <1>l DEF Launch, files
  <2>2. /\ mem.tasks = saved.tasks /\ saved.tasks[cur].status = "running"
        /\ mem.tasks[cur].attempts = saved.tasks[cur].attempts
    BY <2>1 DEF RunInv, Agree
  <2>3. /\ d.run = ChildRun(d.task, d.attempt) /\ d.task = cur
        /\ d.attempt = saved.tasks[cur].attempts
    BY <2>2
  <2> HIDE DEF d
  <2>4. \E S : dispatched \in Seq(S)
    BY DEF TypeOK
  <2>5. /\ DOMAIN dispatched' = DOMAIN dispatched \union {Len(dispatched) + 1}
        /\ \A i \in DOMAIN dispatched : dispatched'[i] = dispatched[i]
        /\ dispatched'[Len(dispatched) + 1] = d
    BY <2>1, <2>4
  <2>6. \A i \in DOMAIN dispatched : dispatched[i].attempt < saved.tasks[dispatched[i].task].attempts
    BY <2>1 DEF RunInv, Effects
  <2>7. saved.tasks[cur].attempts \in Nat /\ cur \in Ids
    <3>1. saved.tasks \in [Ids -> TaskRecord] /\ cur \in Ids
      BY DEF TypeOK, RunState
    <3> QED BY <3>1 DEF TaskRecord
  <2>8. \A i \in DOMAIN dispatched : ~(dispatched[i].task = cur
                                       /\ dispatched[i].attempt = saved.tasks[cur].attempts)
    BY <2>6, <2>7, DispatchTyped
  <2>9. Effects'
    <3>1. \A i \in DOMAIN dispatched' :
            /\ dispatched'[i].run = ChildRun(dispatched'[i].task, dispatched'[i].attempt)
            /\ \/ dispatched'[i].attempt < saved'.tasks[dispatched'[i].task].attempts
               \/ /\ dispatched'[i].attempt = saved'.tasks[dispatched'[i].task].attempts
                  /\ saved'.tasks[dispatched'[i].task].status = "running"
                  /\ pc' = "collect" /\ cur' = dispatched'[i].task
      BY <2>1, <2>2, <2>3, <2>5, <2>6 DEF RunInv, Effects
    <3>2. ASSUME NEW i \in DOMAIN dispatched', NEW j \in DOMAIN dispatched',
                 dispatched'[i].task = dispatched'[j].task,
                 dispatched'[i].attempt = dispatched'[j].attempt
          PROVE  i = j
      BY <3>2, <2>3, <2>5, <2>8 DEF RunInv, Effects
    <3> QED BY <3>1, <3>2 DEF Effects
  <2>10. Agree' BY <2>1 DEF RunInv, Agree
  <2>11. Disk' BY <2>1 DEF RunInv, Disk, ActivePlan
  <2>12. Switching' /\ Verdict' BY <2>1 DEF Switching, Verdict
  <2> QED BY <2>9, <2>10, <2>11, <2>12 DEF RunInv
<1> QED BY <1>r, <1>l

\* The result is put in the record in memory; the disk still says running.
LEMMA CollectStep == TypeOK /\ RunInv /\ Collect => RunInv'
<1> SUFFICES ASSUME TypeOK, RunInv, Collect PROVE RunInv'
  OBVIOUS
<1> DEFINE r == [status   |-> IF outcome = "verified" THEN "verified" ELSE "blocked",
                 attempts |-> mem.tasks[cur].attempts + 1,
                 plan     |-> ActivePlan(mem).revision,
                 revision |-> project]
<1>1. /\ mem' = WithRecord(mem, cur, r) /\ pc = "collect" /\ pc' = "save"
      /\ cur' = cur /\ saved' = saved /\ dispatched' = dispatched /\ staged' = staged
  BY DEF Collect, files, world
<1>2. /\ mem.events = saved.events /\ mem.status = saved.status /\ mem.tasks = saved.tasks
      /\ saved.tasks[cur].status = "running" /\ saved.status # "absent"
  BY <1>1 DEF RunInv, Agree
<1>3. r.attempts = saved.tasks[cur].attempts + 1 /\ r.status \in {"verified", "blocked"}
  BY <1>2
<1> HIDE DEF r
<1>4. saved.tasks \in [Ids -> TaskRecord] /\ cur \in Ids
  BY DEF TypeOK, RunState
<1>5. /\ mem'.tasks = [saved.tasks EXCEPT ![cur] = r]
      /\ mem'.events = saved.events /\ mem'.status = saved.status
  <2>1. /\ mem \in [status : {"absent", "running", "verified", "blocked"},
                    tasks : [Ids -> TaskRecord], order : Seq(Ids), revision : Nat,
                    events : Seq(Plan), audit : Seq(AuditEvent), receipts : SUBSET TaskReceipt,
                    proposals : Seq(ProposalReceipt), consumed : Nat, asked : BOOLEAN]
    BY DEF TypeOK, RunState
  <2> QED BY <1>1, <1>2, <2>1 DEF WithRecord
<1>6. mem'.tasks[cur'] = r
  BY <1>1, <1>4, <1>5
<1>7. Agree' BY <1>1, <1>2, <1>3, <1>5, <1>6 DEF Agree
<1>8. Disk' BY <1>1 DEF RunInv, Disk, ActivePlan
<1>9. Effects' BY <1>1 DEF RunInv, Effects
<1>10. Switching' /\ Verdict' BY <1>1 DEF Switching, Verdict
<1> QED BY <1>7, <1>8, <1>9, <1>10 DEF RunInv

\* The result reaches the disk: the attempt it belongs to is behind the count.
LEMMA SaveStep == TypeOK /\ RunInv /\ SaveResult => RunInv'
<1> SUFFICES ASSUME TypeOK, RunInv, SaveResult PROVE RunInv'
  OBVIOUS
<1>1. /\ mem' = [mem EXCEPT !.revision = project] /\ saved' = mem' /\ pc = "save"
      /\ pc' = "decide" /\ cur' = cur /\ dispatched' = dispatched
  BY DEF SaveResult, Save, world
<1>2. /\ mem.events = saved.events /\ mem.status = saved.status /\ saved.status # "absent"
      /\ mem.tasks = [saved.tasks EXCEPT ![cur] = mem.tasks[cur]]
      /\ mem.tasks[cur].attempts = saved.tasks[cur].attempts + 1
      /\ mem.tasks[cur].status \in {"verified", "blocked"}
      /\ saved.tasks[cur].status = "running"
  BY <1>1 DEF RunInv, Agree
<1>3. mem'.tasks = mem.tasks /\ mem'.events = mem.events /\ mem'.status = mem.status
  BY <1>1 DEF TypeOK, RunState
<1>4. saved.tasks \in [Ids -> TaskRecord] /\ cur \in Ids
  BY DEF TypeOK, RunState
<1>5. \A t \in Ids \ {cur} : saved'.tasks[t] = saved.tasks[t]
  BY <1>1, <1>2, <1>3, <1>4
<1>6. /\ saved'.tasks[cur].attempts = saved.tasks[cur].attempts + 1
      /\ saved'.tasks[cur].status \in {"verified", "blocked"}
      /\ saved.tasks[cur].attempts \in Nat
  BY <1>1, <1>2, <1>3, <1>4 DEF TaskRecord
<1>7. Agree' BY <1>1, <1>2, <1>3, <1>6 DEF Agree
<1>8. Disk'
  <2>1. saved'.events = saved.events /\ saved'.status = saved.status
    BY <1>1, <1>2, <1>3
  <2>2. ActivePlan(saved') = ActivePlan(saved)
    BY <2>1 DEF ActivePlan
  <2>3. Started(saved'.tasks)
    BY <1>5, <1>6 DEF RunInv, Disk, Started
  <2>4. Covered(saved'.tasks, ActivePlan(saved)) /\ WellNamed(ActivePlan(saved))
    BY <1>2, <1>5, <1>6 DEF RunInv, Disk, Covered
  <2> QED BY <2>2, <2>3, <2>4 DEF Disk
<1>9. Effects'
  <2>1. \A i \in DOMAIN dispatched :
          dispatched[i].attempt < saved'.tasks[dispatched[i].task].attempts
    BY <1>1, <1>5, <1>6, DispatchTyped DEF RunInv, Effects
  <2> QED BY <1>1, <2>1 DEF RunInv, Effects
<1>10. Switching' /\ Verdict' BY <1>1 DEF Switching, Verdict
<1> QED BY <1>7, <1>8, <1>9, <1>10 DEF RunInv

\* The switch prepared for a validated proposal carries every attempt over.
LEMMA CommitStep == TypeOK /\ Planning /\ RunInv /\ Commit => RunInv'
<1> SUFFICES ASSUME TypeOK, Planning, RunInv, Commit PROVE RunInv'
  OBVIOUS
<1> DEFINE plan == ActivePlan(mem)
           next == Revised(plan, answer.tasks)
<1>1. /\ pc = "commit" /\ pc' = "activate" /\ staged' = Switched(answer.tasks)
      /\ journal' = Append(journal, next)
      /\ mem' = mem /\ saved' = saved /\ cur' = cur /\ dispatched' = dispatched
  BY DEF Commit, world
<1>2. /\ mem.events = saved.events /\ mem.status = saved.status /\ mem.tasks = saved.tasks
      /\ saved.status # "absent"
  BY <1>1 DEF RunInv, Agree
<1>3. /\ KeepsStarted(plan, [t \in Ids |-> mem.tasks[t].status], answer.tasks)
      /\ DistinctNames(plan.generated \union Planned(answer.tasks))
  BY <1>1 DEF RunInv, Verdict
<1>4. /\ Started(saved.tasks) /\ Covered(saved.tasks, plan) /\ WellNamed(plan)
  BY <1>2 DEF RunInv, Disk, ActivePlan
<1>5. /\ saved.tasks \in [Ids -> TaskRecord] /\ plan \in Plan /\ answer.tasks \in TaskMap
      /\ journal \in Seq(Plan)
  BY <1>1, LastIn DEF TypeOK, RunState, ProposalReceipt, Planning, ActivePlan
<1>6. Last(journal') = next
  BY <1>1, <1>5, RevisedTyped, LastAppended
<1>7. next.tasks = answer.tasks /\ next.generated = plan.generated \union Planned(answer.tasks)
  BY DEF Revised
<1>8. /\ staged'.status = mem.status
      /\ \A t \in Ids : staged'.tasks[t] = IF t \notin Planned(answer.tasks) THEN NewRecord("absent")
                                           ELSE IF saved.tasks[t].status = "absent" THEN NewRecord("pending")
                                           ELSE saved.tasks[t]
  BY <1>1, <1>2 DEF Switched, TypeOK, RunState
<1>9. \A t \in Ids : saved.tasks[t].attempts > 0 =>
        t \in Planned(answer.tasks) /\ saved.tasks[t].status # "absent"
  <2> SUFFICES ASSUME NEW t \in Ids, saved.tasks[t].attempts > 0
               PROVE  t \in Planned(answer.tasks) /\ saved.tasks[t].status # "absent"
    OBVIOUS
  <2>1. saved.tasks[t].status \in {"running", "verified", "blocked"}
    BY <1>4 DEF Started
  <2>2. t \in Planned(plan.tasks)
    BY <1>4, <2>1 DEF Covered
  <2>3. answer.tasks[t] = plan.tasks[t]
    BY <1>2, <1>3, <2>1, <2>2 DEF KeepsStarted
  <2> QED BY <2>1, <2>2, <2>3 DEF Planned
<1> HIDE DEF plan, next
<1>10. Switching'
  <2>1. Covered(staged'.tasks, next)
    BY <1>7, <1>8 DEF Covered, NewRecord
  <2>2. WellNamed(next)
    BY <1>3, <1>7 DEF WellNamed
  <2>3. \A t \in Ids : staged'.tasks[t].attempts = saved.tasks[t].attempts
    <3>1. \A t \in Ids : saved.tasks[t].attempts \in Nat
      BY <1>5 DEF TaskRecord
    <3>2. NewRecord("absent").attempts = 0 /\ NewRecord("pending").attempts = 0
      BY DEF NewRecord
    <3> QED BY <1>8, <1>9, <3>1, <3>2
  <2>4. \A t \in Ids : saved.tasks[t].attempts > 0 => staged'.tasks[t] = saved.tasks[t]
    BY <1>8, <1>9
  <2> QED BY <1>1, <1>2, <1>6, <1>8, <2>1, <2>2, <2>3, <2>4 DEF Switching
<1>11. Agree' BY <1>1, <1>2 DEF Agree
<1>12. Disk' BY <1>1 DEF RunInv, Disk, ActivePlan
<1>13. Effects' BY <1>1 DEF RunInv, Effects
<1>14. Verdict' BY <1>1 DEF Verdict
<1> QED BY <1>10, <1>11, <1>12, <1>13, <1>14 DEF RunInv

\* The switch itself: one write replaces Plan and records together.
LEMMA ActivateStep == TypeOK /\ RunInv /\ Activate => RunInv'
<1> SUFFICES ASSUME TypeOK, RunInv, Activate PROVE RunInv'
  OBVIOUS
<1>1. /\ pc = "activate" /\ pc' = "schedule" /\ mem' = [staged EXCEPT !.events = journal]
      /\ saved' = mem' /\ dispatched' = dispatched
  BY DEF Activate, Save, world
<1>2. /\ mem'.tasks = staged.tasks /\ mem'.status = staged.status /\ mem'.events = journal
  BY <1>1 DEF TypeOK, RunState
<1>3. /\ staged.status # "absent"
      /\ Covered(staged.tasks, Last(journal)) /\ WellNamed(Last(journal))
      /\ \A t \in Ids : staged.tasks[t].attempts = saved.tasks[t].attempts
      /\ \A t \in Ids : saved.tasks[t].attempts > 0 => staged.tasks[t] = saved.tasks[t]
  BY <1>1 DEF RunInv, Switching
<1>4. Agree' BY <1>1, <1>2, <1>3 DEF Agree
<1>5. Disk'
  BY <1>1, <1>2, <1>3 DEF RunInv, Disk, ActivePlan, Started
<1>6. Effects'
  <2>1. \A i \in DOMAIN dispatched :
          dispatched[i].attempt < saved'.tasks[dispatched[i].task].attempts
    BY <1>1, <1>2, <1>3, DispatchTyped DEF RunInv, Effects
  <2> QED BY <1>1, <2>1 DEF RunInv, Effects
<1>7. Switching' /\ Verdict' BY <1>1 DEF Switching, Verdict
<1> QED BY <1>4, <1>5, <1>6, <1>7 DEF RunInv

\* At the end only pending tasks change their status.
LEMMA FinishStep == TypeOK /\ RunInv /\ Finish => RunInv'
<1> SUFFICES ASSUME TypeOK, RunInv, Finish PROVE RunInv'
  OBVIOUS
<1> DEFINE tasks == [t \in Ids |-> IF mem.tasks[t].status = "pending"
                                   THEN [mem.tasks[t] EXCEPT !.status = "blocked_dependency"]
                                   ELSE mem.tasks[t]]
           final(verdict) == [mem EXCEPT !.tasks = tasks, !.revision = project,
                                         !.status = verdict]
<1>1. /\ pc = "schedule" /\ pc' = "finished" /\ dispatched' = dispatched
      /\ \E verdict \in {"verified", "blocked"} : mem' = final(verdict) /\ saved' = final(verdict)
  BY DEF Finish, Save, world
<1>2. saved' = mem' /\ mem'.tasks = tasks /\ mem'.events = mem.events /\ mem'.status # "absent"
  <2> HIDE DEF tasks
  <2> QED BY <1>1 DEF TypeOK, RunState
<1>3. /\ mem.events = saved.events /\ mem.tasks = saved.tasks /\ saved.status # "absent"
  BY <1>1 DEF RunInv, Agree
<1>4. mem.tasks \in [Ids -> TaskRecord]
  BY DEF TypeOK, RunState
<1>5. \A t \in Ids : /\ tasks[t].attempts = saved.tasks[t].attempts
                     /\ tasks[t].status = "absent" <=> saved.tasks[t].status = "absent"
                     /\ saved.tasks[t].status # "pending" => tasks[t].status = saved.tasks[t].status
  BY <1>3, <1>4 DEF TaskRecord
<1> HIDE DEF tasks, final
<1>6. Agree' BY <1>1, <1>2, <1>3 DEF Agree
<1>7. Disk'
  <2>1. ActivePlan(saved') = ActivePlan(saved)
    BY <1>2, <1>3 DEF ActivePlan
  <2>2. Started(saved'.tasks)
    BY <1>2, <1>5 DEF RunInv, Disk, Started
  <2>3. Covered(saved'.tasks, ActivePlan(saved)) /\ WellNamed(ActivePlan(saved))
    BY <1>2, <1>3, <1>5 DEF RunInv, Disk, Covered
  <2> QED BY <2>1, <2>2, <2>3 DEF Disk
<1>8. Effects'
  <2>1. \A i \in DOMAIN dispatched :
          dispatched[i].attempt < saved'.tasks[dispatched[i].task].attempts
    BY <1>1, <1>2, <1>5, DispatchTyped DEF RunInv, Effects
  <2> QED BY <1>1, <2>1 DEF RunInv, Effects
<1>9. Switching' /\ Verdict' BY <1>1 DEF Switching, Verdict
<1> QED BY <1>6, <1>7, <1>8, <1>9 DEF RunInv

\* A new dispatch is marked on disk first.
LEMMA ScheduleStep == TypeOK /\ RunInv /\ Schedule => RunInv'
<1> SUFFICES ASSUME TypeOK, RunInv, Schedule PROVE RunInv'
  OBVIOUS
<1>r. CASE Raise BY <1>r, DownStep DEF Raise, world
<1>s. CASE ~Raise
  <2>1. Ready \subseteq Ids /\ Ready # {}
    BY DEF Ready, Schedule
  <2>2. Smallest(Ready) \in Ready
    BY <2>1, SmallestIn
  <2>3. /\ cur' = Smallest(Ready) /\ mem' = WithStatus(mem, cur', "running") /\ saved' = mem'
        /\ pc = "schedule" /\ pc' = "dispatch" /\ dispatched' = dispatched
    BY <1>s DEF Schedule, Save, world
  <2>4. cur' \in Ids /\ mem.tasks[cur'].status = "pending"
    BY <2>1, <2>2, <2>3 DEF Ready
  <2> QED BY <2>3, <2>4, MarkRunning DEF Between
<1> QED BY <1>r, <1>s

\* A repair is marked on disk first: the attempts of the failed one are counted.
LEMMA RepairStep == TypeOK /\ RunInv /\ Repair => RunInv'
<1> SUFFICES ASSUME TypeOK, RunInv, Repair PROVE RunInv'
  OBVIOUS
<1>1. /\ cur' = cur /\ mem' = WithStatus(mem, cur', "running") /\ saved' = mem'
      /\ pc = "decide" /\ pc' = "dispatch" /\ dispatched' = dispatched
  BY DEF Repair, Save, world
<1>2. cur' \in Ids /\ mem.tasks[cur'].status # "absent"
  BY <1>1 DEF TypeOK, RunInv, Agree
<1> QED BY <1>1, <1>2, MarkRunning DEF Between

\* The steps of the boundary up to the proposer's answer touch no record.
LEMMA BoundaryStep ==
  ASSUME TypeOK, RunInv,
         Settle \/ WriteReceipt \/ AuditReceipt \/ SaveBoundary \/ Propose \/ AnswerNothing
  PROVE  RunInv'
<1>1. /\ pc \in Between /\ pc' \in Between \ {"decide"}
      /\ pc' \notin {"snapshot", "register", "count", "commit"}
      /\ UNCHANGED <<journal, dispatched>>
  BY DEF Settle, WriteReceipt, AuditReceipt, SaveBoundary, Propose, AnswerNothing, Between, world
<1>2. mem'.tasks = mem.tasks /\ mem'.events = mem.events /\ mem'.status = mem.status
  BY DEF Settle, WriteReceipt, AuditReceipt, SaveBoundary, Propose, AnswerNothing, Save,
         locals, TypeOK, RunState
<1>3. saved' = saved \/ saved' = mem'
  BY DEF Settle, WriteReceipt, AuditReceipt, SaveBoundary, Propose, AnswerNothing, Save
<1> QED BY <1>1, <1>2, <1>3, VerdictAway, QuietStep

\* The verdict passed on an answer says what the activation will rely on.
LEMMA AnswerStep == TypeOK /\ RunInv /\ AnswerPlan => RunInv'
<1> SUFFICES ASSUME TypeOK, RunInv, AnswerPlan PROVE RunInv'
  OBVIOUS
<1>1. /\ pc = "asked" /\ pc' = "snapshot" /\ mem' = [mem EXCEPT !.asked = FALSE]
      /\ saved' = saved /\ journal' = journal /\ dispatched' = dispatched
  BY DEF AnswerPlan, files, world
<1>2. mem'.tasks = mem.tasks /\ mem'.events = mem.events /\ mem'.status = mem.status
  BY <1>1 DEF TypeOK, RunState
<1>3. Verdict'
  <2> SUFFICES ASSUME answer'.valid
               PROVE  /\ KeepsStarted(ActivePlan(mem), [t \in Ids |-> mem.tasks[t].status],
                                      answer'.tasks)
                      /\ DistinctNames(ActivePlan(mem).generated \union Planned(answer'.tasks))
    BY <1>1, <1>2 DEF Verdict, ActivePlan
  <2>1. PICK tasks \in Proposals, sound \in BOOLEAN :
          answer' = [sequence |-> mem.consumed, base |-> ActivePlan(mem).revision,
                     tasks |-> tasks,
                     valid |-> Revisable(ActivePlan(mem), [t \in Ids |-> mem.tasks[t].status],
                                         mem.consumed + 1, [tasks |-> tasks, sound |-> sound])]
    BY DEF AnswerPlan
  <2>2. answer'.tasks = tasks
        /\ Revisable(ActivePlan(mem), [t \in Ids |-> mem.tasks[t].status],
                     mem.consumed + 1, [tasks |-> tasks, sound |-> sound])
    BY <2>1
  <2> QED BY <2>2 DEF Revisable
<1> QED BY <1>1, <1>2, <1>3, QuietStep DEF Between

\* Registering a proposal touches no record and no Plan.
LEMMA RegisterStep ==
  ASSUME TypeOK, RunInv, WriteProposal \/ AuditProposal \/ CountProposal
  PROVE  RunInv'
<1>1. /\ pc \in {"snapshot", "register", "count"}
      /\ pc' \in {"register", "count", "commit", "schedule"}
      /\ pc' = "commit" => answer.valid
      /\ answer' = answer /\ UNCHANGED <<journal, dispatched>>
  BY DEF WriteProposal, AuditProposal, CountProposal, world, locals
<1>2. mem'.tasks = mem.tasks /\ mem'.events = mem.events /\ mem'.status = mem.status
  BY DEF WriteProposal, AuditProposal, CountProposal, Save, locals, TypeOK, RunState
<1>3. saved' = saved \/ saved' = mem'
  BY DEF WriteProposal, AuditProposal, CountProposal, Save
<1>4. Verdict'
  BY <1>1, <1>2, VerdictKept DEF RunInv
<1> QED BY <1>1, <1>2, <1>3, <1>4, QuietStep DEF Between

\* What moves neither the memory nor the state file keeps the invariant.
LEMMA AsideStep ==
  ASSUME RunInv,
         \/ pc' = pc
         \/ pc = "dispatch" /\ pc' = "collect",
         UNCHANGED <<cur, answer, mem, staged, files, dispatched>>
  PROVE  RunInv'
<1> USE DEF files
<1>1. Agree' BY DEF RunInv, Agree
<1>2. Disk' BY DEF RunInv, Disk, ActivePlan
<1>3. Effects' BY DEF RunInv, Effects
<1>4. Switching' /\ Verdict' BY DEF RunInv, Switching, Verdict, ActivePlan
<1> QED BY <1>1, <1>2, <1>3, <1>4 DEF RunInv

\* An empty Run directory: nothing dispatched, nothing on disk.
LEMMA InitRun == Init => RunInv
<1> SUFFICES ASSUME Init PROVE RunInv
  OBVIOUS
<1>1. pc = "down" /\ mem = NoState /\ saved = NoState /\ dispatched = <<>>
  BY DEF Init
<1>2. NoState.status = "absent" /\ \A t \in Ids : NoState.tasks[t].attempts = 0
  BY DEF NoState, NewRecord
<1>3. Agree BY <1>1 DEF Agree
<1>4. Disk BY <1>1, <1>2 DEF Disk, Started
<1>5. Effects BY <1>1 DEF Effects
<1>6. Switching /\ Verdict BY <1>1 DEF Switching, Verdict
<1> QED BY <1>3, <1>4, <1>5, <1>6 DEF RunInv

\* Every step of the process, every death and every edit keeps the invariant.
LEMMA StepRun == TypeOK /\ Planning /\ RunInv /\ [Next]_vars => RunInv'
<1> SUFFICES ASSUME TypeOK, Planning, RunInv, [Next]_vars PROVE RunInv'
  OBVIOUS
<1>1. CASE Start BY <1>1, StartStep
<1>2. CASE Resume BY <1>2, ResumeStep
<1>3. CASE Schedule BY <1>3, ScheduleStep
<1>4. CASE Launch BY <1>4, LaunchStep
<1>5. CASE Decline BY <1>5, AsideStep DEF Decline, world
<1>6. CASE Collect BY <1>6, CollectStep
<1>7. CASE SaveResult BY <1>7, SaveStep
<1>8. CASE Repair BY <1>8, RepairStep
<1>9. CASE Settle \/ WriteReceipt \/ AuditReceipt \/ SaveBoundary \/ Propose \/ AnswerNothing
  BY <1>9, BoundaryStep
<1>10. CASE AnswerPlan BY <1>10, AnswerStep
<1>11. CASE WriteProposal \/ AuditProposal \/ CountProposal
  BY <1>11, RegisterStep
<1>12. CASE Commit BY <1>12, CommitStep
<1>13. CASE Activate BY <1>13, ActivateStep
<1>14. CASE Finish BY <1>14, FinishStep
<1>15. CASE Crash BY <1>15, DownStep DEF Crash
<1>16. CASE Edit BY <1>16, AsideStep DEF Edit, locals
<1>17. CASE UNCHANGED vars BY <1>17, AsideStep DEF vars, locals, world
<1> QED BY <1>1, <1>2, <1>3, <1>4, <1>5, <1>6, <1>7, <1>8, <1>9, <1>10, <1>11, <1>12,
           <1>13, <1>14, <1>15, <1>16, <1>17 DEF Next, Step

\* External effects of an attempt start at most once, for every task set, every
\* proposer, and however often the Run dies and is resumed.
THEOREM DispatchedOnce == Spec => []NoRunDispatchedTwice
<1>1. Init => TypeOK /\ Planning /\ RunInv
  BY InitTyped, InitRun DEF Init, Planning
<1>2. TypeOK /\ Planning /\ RunInv /\ [Next]_vars => TypeOK' /\ Planning' /\ RunInv'
  BY StepTyped, StepRun
<1>3. TypeOK /\ Planning /\ RunInv => NoRunDispatchedTwice
  BY RunInvSuffices
<1> QED BY <1>1, <1>2, <1>3, PTL DEF Spec
-----------------------------------------------------------------------------
(* What a verified Run rests on.                                            *)

\* The results a verdict `verified' was given on.
Current(state) ==
  /\ \E t \in Ids : state.tasks[t].status = "verified" /\ state.tasks[t].revision = state.revision
  /\ \A t \in Ids : state.tasks[t].status \in {"absent", "verified"}

\* A verified state file is left alone until a Resume judges it again.
CurrentInv ==
  /\ saved.status = "verified" => Current(saved) /\ pc \in {"down", "schedule", "finished"}
  /\ pc = "activate" => staged.status # "verified"

\* Before the verdict nothing the process writes says `verified'.
LEMMA WriteStep ==
  ASSUME TypeOK, RunInv, CurrentInv,
         \/ SaveResult \/ Repair \/ Settle \/ SaveBoundary \/ Propose \/ AnswerNothing
         \/ CountProposal
  PROVE  CurrentInv'
<1>1. /\ pc \in {"save", "decide", "boundary", "propose", "asked", "count"}
      /\ pc' \notin {"activate", "down"}
      /\ saved' \in {saved, mem'}
  BY DEF SaveResult, Repair, Settle, SaveBoundary, Propose, AnswerNothing, CountProposal, Save
<1>2. mem'.status = mem.status
  <2>1. CASE Repair
    <3>1. mem' = WithStatus(mem, cur, "running") /\ "running" \in TaskStatus
      BY <2>1 DEF Repair, Save, TaskStatus
    <3> QED BY <3>1, StatusReplaced DEF TypeOK
  <2>2. CASE ~Repair
    BY <2>2 DEF SaveResult, Settle, SaveBoundary, Propose, AnswerNothing, CountProposal, Save,
                TypeOK, RunState
  <2> QED BY <2>1, <2>2
<1>3. mem.status = saved.status /\ saved.status # "verified"
  BY <1>1 DEF RunInv, Agree, CurrentInv
<1> QED BY <1>1, <1>2, <1>3 DEF CurrentInv

\* The verdict is given on records of this moment; until then nobody says `verified'.
LEMMA StepCurrent == TypeOK /\ RunInv /\ CurrentInv /\ [Next]_vars => CurrentInv'
<1> SUFFICES ASSUME TypeOK, RunInv, CurrentInv, [Next]_vars PROVE CurrentInv'
  OBVIOUS
<1> USE DEF files
<1>d. ASSUME Down, saved' = saved PROVE CurrentInv'
  BY <1>d DEF Down, CurrentInv, Current
<1>1. CASE Start
  BY <1>1 DEF Start, FreshState, NoState, CurrentInv
<1>2. CASE Resume
  BY <1>2 DEF Resume, CurrentInv, Current
<1>3. CASE Schedule
  <2>1. CASE Raise BY <1>d, <2>1 DEF Raise
  <2>2. CASE ~Raise
    <3>1. /\ pc = "schedule" /\ pc' = "dispatch" /\ Ready # {} /\ Ready \subseteq Ids
          /\ mem' = WithStatus(mem, Smallest(Ready), "running") /\ saved' = mem'
      BY <1>3, <2>2 DEF Schedule, Save, Ready
    <3>2. Smallest(Ready) \in Ready
      BY <3>1, SmallestIn
    <3>3. mem.tasks[Smallest(Ready)].status = "pending" /\ mem.tasks = saved.tasks
          /\ mem.status = saved.status
      BY <3>1, <3>2 DEF Ready, RunInv, Agree
    <3>4. saved.status # "verified"
      BY <3>1, <3>2, <3>3 DEF CurrentInv, Current
    <3>5. mem'.status = mem.status
      <4>1. "running" \in TaskStatus BY DEF TaskStatus
      <4> QED BY <3>1, <3>2, <4>1, StatusReplaced DEF TypeOK
    <3> QED BY <3>1, <3>3, <3>4, <3>5 DEF CurrentInv
  <2> QED BY <2>1, <2>2
<1>4. CASE Launch
  <2>1. CASE Raise BY <1>d, <2>1 DEF Raise
  <2>2. CASE ~Raise
    <3>1. pc = "dispatch" /\ pc' = "collect" /\ saved' = saved
      BY <1>4, <2>2 DEF Launch
    <3> QED BY <3>1 DEF CurrentInv
  <2> QED BY <2>1, <2>2
<1>5. CASE Decline \/ Collect \/ WriteReceipt \/ AuditReceipt \/ AnswerPlan \/ WriteProposal
           \/ AuditProposal
  BY <1>5 DEF Decline, Collect, WriteReceipt, AuditReceipt, AnswerPlan, WriteProposal,
              AuditProposal, CurrentInv
<1>6. CASE SaveResult \/ Repair \/ Settle \/ SaveBoundary \/ Propose \/ AnswerNothing
           \/ CountProposal
  BY <1>6, WriteStep
<1>7. CASE Commit
  <2>1. /\ pc = "commit" /\ pc' = "activate" /\ saved' = saved
        /\ staged' = Switched(answer.tasks)
    BY <1>7 DEF Commit
  <2>2. staged'.status = mem.status
    BY <2>1 DEF Switched, TypeOK, RunState
  <2> QED BY <2>1, <2>2 DEF RunInv, Agree, CurrentInv
<1>8. CASE Activate
  <2>1. pc = "activate" /\ pc' = "schedule" /\ saved' = [staged EXCEPT !.events = journal]
    BY <1>8 DEF Activate, Save
  <2>2. saved'.status = staged.status
    BY <2>1 DEF TypeOK, RunState
  <2> QED BY <2>1, <2>2 DEF CurrentInv
<1>9. CASE Finish
  <2> DEFINE tasks == [t \in Ids |-> IF mem.tasks[t].status = "pending"
                                     THEN [mem.tasks[t] EXCEPT !.status = "blocked_dependency"]
                                     ELSE mem.tasks[t]]
             good == /\ \A t \in Ids : tasks[t].status \in {"absent", "verified"}
                     /\ FinalGatesPass(tasks)
             final == [mem EXCEPT !.tasks = tasks, !.revision = project,
                                  !.status = IF good THEN "verified" ELSE "blocked"]
  <2>1. pc' = "finished" /\ saved' = final
    BY <1>9 DEF Finish, Save
  <2> HIDE DEF tasks
  <2>2. /\ saved'.tasks = tasks /\ saved'.revision = project
        /\ saved'.status = IF good THEN "verified" ELSE "blocked"
    BY <2>1 DEF TypeOK, RunState
  <2>3. good => Current(saved)'
    BY <2>2 DEF FinalGatesPass, Current
  <2> HIDE DEF good, final
  <2> QED BY <2>1, <2>2, <2>3 DEF CurrentInv
<1>10. CASE Crash BY <1>10, <1>d DEF Crash
<1>11. CASE Edit \/ UNCHANGED vars
  BY <1>11 DEF Edit, vars, locals, CurrentInv, Current
<1> QED BY <1>1, <1>2, <1>3, <1>4, <1>5, <1>6, <1>7, <1>8, <1>9, <1>10, <1>11 DEF Next, Step

\* A Run is verified only by results that were current when the verdict was written,
\* for every task set, every proposer, and however often the Run died.
THEOREM VerdictCurrent == Spec => []VerifiedIsCurrent
<1>1. Init => TypeOK /\ Planning /\ RunInv /\ CurrentInv
  BY InitTyped, InitRun DEF Init, Planning, CurrentInv, NoState
<1>2. TypeOK /\ Planning /\ RunInv /\ CurrentInv /\ [Next]_vars
        => TypeOK' /\ Planning' /\ RunInv' /\ CurrentInv'
  BY StepTyped, StepRun, StepCurrent
<1>3. TypeOK /\ Planning /\ RunInv /\ CurrentInv => VerifiedIsCurrent
  <2> SUFFICES ASSUME RunInv, CurrentInv, saved.status = "verified"
               PROVE  /\ \E t \in Ids : /\ saved.tasks[t].status = "verified"
                                        /\ saved.tasks[t].revision = saved.revision
                      /\ \A t \in Planned(ActivePlan(saved).tasks) : saved.tasks[t].status = "verified"
    BY DEF VerifiedIsCurrent
  <2>1. Current(saved) /\ Covered(saved.tasks, ActivePlan(saved))
    BY DEF RunInv, Disk, CurrentInv
  <2> QED BY <2>1 DEF Current, Covered, Planned
<1> QED BY <1>1, <1>2, <1>3, PTL DEF Spec
-----------------------------------------------------------------------------
(* What was dispatched stays planned as it was.                             *)

\* The Plan in memory is the journalled one, outside a switch.
Journalled == pc \notin {"down", "activate"} => mem.events = journal

\* A dispatched task is planned, and nobody may revise it any more.
LEMMA DispatchedStarted ==
  ASSUME TypeOK, RunInv, NEW i \in DOMAIN dispatched
  PROVE  /\ dispatched[i].task \in Ids
         /\ saved.tasks[dispatched[i].task].status \in {"running", "verified", "blocked"}
         /\ saved.status # "absent"
         /\ dispatched[i].task \in Planned(ActivePlan(saved).tasks)
<1> DEFINE t == dispatched[i].task
<1>1. t \in Ids /\ dispatched[i].attempt \in Nat
  BY DispatchTyped
<1>2. saved.tasks[t].attempts \in Nat
  BY <1>1 DEF TypeOK, RunState, TaskRecord
<1>3. \/ dispatched[i].attempt < saved.tasks[t].attempts
      \/ saved.tasks[t].status = "running"
  BY DEF RunInv, Effects
<1>4. saved.tasks[t].status \in {"running", "verified", "blocked"}
  BY <1>1, <1>2, <1>3 DEF RunInv, Disk, Started
<1>5. saved.status # "absent"
  <2>1. NoState.tasks[t].status = "absent"
    BY <1>1 DEF NoState, NewRecord
  <2> QED BY <1>4, <2>1 DEF RunInv, Agree
<1>6. t \in Planned(ActivePlan(saved).tasks)
  BY <1>1, <1>4, <1>5 DEF RunInv, Disk, Covered
<1> QED BY <1>1, <1>4, <1>5, <1>6

\* Only a commit writes a Plan over another, and only a launch dispatches.
LEMMA StepKept ==
  TypeOK /\ Planning /\ RunInv /\ Journalled /\ DispatchedDefinitionKept /\ [Next]_vars
    => Journalled' /\ DispatchedDefinitionKept'
<1> SUFFICES ASSUME TypeOK, Planning, RunInv, Journalled, DispatchedDefinitionKept, [Next]_vars
             PROVE  Journalled' /\ DispatchedDefinitionKept'
  OBVIOUS
<1> USE DEF files, world, locals
<1>d. ASSUME Down, UNCHANGED <<journal, dispatched>>
      PROVE  Journalled' /\ DispatchedDefinitionKept'
  BY <1>d DEF Down, Journalled, DispatchedDefinitionKept
<1>q. ASSUME pc \notin {"down", "activate"}, mem'.events = mem.events,
             UNCHANGED <<journal, dispatched>>
      PROVE  Journalled' /\ DispatchedDefinitionKept'
  BY <1>q DEF Journalled, DispatchedDefinitionKept
<1>1. CASE Start
  <2>1. pc' = "activate" /\ saved = NoState /\ dispatched' = dispatched
    BY <1>1 DEF Start
  <2>2. DOMAIN dispatched = {}
    BY <2>1, DispatchedStarted DEF NoState
  <2> QED BY <2>1, <2>2 DEF Journalled, DispatchedDefinitionKept
<1>2. CASE Resume
  <2>1. mem' = saved /\ saved.events = journal /\ UNCHANGED <<journal, dispatched>>
    BY <1>2 DEF Resume, Restorable, JournalsAgree
  <2> QED BY <2>1 DEF Journalled, DispatchedDefinitionKept
<1>3. CASE Schedule
  <2>1. CASE Raise BY <1>d, <2>1 DEF Raise
  <2>2. CASE ~Raise
    <3>1. /\ pc = "schedule" /\ Ready # {} /\ Ready \subseteq Ids
          /\ mem' = WithStatus(mem, Smallest(Ready), "running")
          /\ UNCHANGED <<journal, dispatched>>
      BY <1>3, <2>2 DEF Schedule, Save, Ready
    <3>2. mem'.events = mem.events
      <4>1. Smallest(Ready) \in Ids /\ "running" \in TaskStatus
        BY <3>1, SmallestIn DEF TaskStatus
      <4> QED BY <3>1, <4>1, StatusReplaced DEF TypeOK
    <3> QED BY <1>q, <3>1, <3>2
  <2> QED BY <2>1, <2>2
<1>4. CASE Launch
  <2>1. CASE Raise BY <1>d, <2>1 DEF Raise
  <2>2. CASE ~Raise
    <3> DEFINE d == [run |-> ChildRun(cur, mem.tasks[cur].attempts), task |-> cur,
                     attempt |-> mem.tasks[cur].attempts,
                     definition |-> ActivePlan(mem).tasks[cur]]
    <3>1. /\ pc = "dispatch" /\ mem' = mem /\ journal' = journal
          /\ dispatched' = Append(dispatched, d)
      BY <1>4, <2>2 DEF Launch
    <3>2. d.task = cur /\ d.definition = Last(journal).tasks[cur] /\ journal # <<>>
      BY <3>1 DEF ActivePlan, Journalled, Planning
    <3> HIDE DEF d
    <3>3. \E S : dispatched \in Seq(S)
      BY DEF TypeOK
    <3>4. /\ DOMAIN dispatched' = DOMAIN dispatched \union {Len(dispatched) + 1}
          /\ \A i \in DOMAIN dispatched : dispatched'[i] = dispatched[i]
          /\ dispatched'[Len(dispatched) + 1] = d
      BY <3>1, <3>3
    <3>5. DispatchedDefinitionKept'
      BY <3>1, <3>2, <3>4 DEF DispatchedDefinitionKept
    <3>6. Journalled'
      BY <3>1 DEF Journalled
    <3> QED BY <3>5, <3>6
  <2> QED BY <2>1, <2>2
<1>5. CASE Decline \/ WriteReceipt \/ WriteProposal
  BY <1>5, <1>q DEF Decline, WriteReceipt, WriteProposal
<1>6. CASE Collect
  <2> DEFINE r == [status   |-> IF outcome = "verified" THEN "verified" ELSE "blocked",
                   attempts |-> mem.tasks[cur].attempts + 1,
                   plan     |-> ActivePlan(mem).revision,
                   revision |-> project]
  <2>1. pc = "collect" /\ mem' = WithRecord(mem, cur, r) /\ UNCHANGED <<journal, dispatched>>
    BY <1>6 DEF Collect
  <2> HIDE DEF r
  <2>2. mem'.events = mem.events
    BY <2>1 DEF WithRecord, TypeOK, RunState
  <2> QED BY <1>q, <2>1, <2>2
<1>7. CASE Repair
  <2>1. /\ pc = "decide" /\ mem' = WithStatus(mem, cur, "running")
        /\ UNCHANGED <<journal, dispatched>>
    BY <1>7 DEF Repair, Save
  <2>2. mem'.events = mem.events
    <3>1. "running" \in TaskStatus /\ cur \in Ids /\ mem \in RunState
      BY DEF TaskStatus, TypeOK
    <3> QED BY <2>1, <3>1, StatusReplaced
  <2> QED BY <1>q, <2>1, <2>2
<1>8. CASE SaveResult \/ Settle \/ AuditReceipt \/ SaveBoundary \/ Propose \/ AnswerNothing
           \/ AnswerPlan \/ AuditProposal \/ CountProposal
  <2>1. /\ pc \notin {"down", "activate"} /\ UNCHANGED <<journal, dispatched>>
    BY <1>8 DEF SaveResult, Settle, AuditReceipt, SaveBoundary, Propose, AnswerNothing,
                AnswerPlan, AuditProposal, CountProposal
  <2>2. mem'.events = mem.events
    BY <1>8 DEF SaveResult, Settle, AuditReceipt, SaveBoundary, Propose, AnswerNothing,
                AnswerPlan, AuditProposal, CountProposal, Save, TypeOK, RunState
  <2> QED BY <1>q, <2>1, <2>2
<1>9. CASE Commit
  <2> DEFINE plan == ActivePlan(mem)
             next == Revised(plan, answer.tasks)
  <2>1. /\ pc = "commit" /\ pc' = "activate" /\ journal' = Append(journal, next)
        /\ dispatched' = dispatched
    BY <1>9 DEF Commit
  <2>2. /\ mem.events = saved.events /\ mem.tasks = saved.tasks /\ mem.events = journal
        /\ mem.events # <<>>
    BY <2>1 DEF RunInv, Agree, Journalled, Planning
  <2>3. KeepsStarted(plan, [t \in Ids |-> mem.tasks[t].status], answer.tasks)
    BY <2>1 DEF RunInv, Verdict
  <2>4. Last(journal') = next /\ next.tasks = answer.tasks /\ plan = Last(journal)
    <3>1. plan \in Plan /\ answer.tasks \in TaskMap /\ journal \in Seq(Plan)
      BY <2>2, LastIn DEF TypeOK, RunState, ProposalReceipt, ActivePlan
    <3>2. next \in Plan
      BY <3>1, RevisedTyped
    <3> HIDE DEF next
    <3>3. Last(journal') = next
      BY <2>1, <3>1, <3>2, LastAppended
    <3> QED BY <2>2, <3>3 DEF next, Revised, ActivePlan
  <2>5. \A i \in DOMAIN dispatched :
          answer.tasks[dispatched[i].task] = plan.tasks[dispatched[i].task]
    <3> SUFFICES ASSUME NEW i \in DOMAIN dispatched
                 PROVE  answer.tasks[dispatched[i].task] = plan.tasks[dispatched[i].task]
      OBVIOUS
    <3>1. /\ dispatched[i].task \in Planned(plan.tasks)
          /\ mem.tasks[dispatched[i].task].status # "pending" /\ dispatched[i].task \in Ids
      BY <2>2, DispatchedStarted DEF ActivePlan
    <3> QED BY <2>3, <3>1 DEF KeepsStarted
  <2> HIDE DEF plan, next
  <2>6. DispatchedDefinitionKept'
    BY <2>1, <2>2, <2>4, <2>5 DEF DispatchedDefinitionKept
  <2> QED BY <2>1, <2>6 DEF Journalled
<1>10. CASE Activate
  <2>1. mem' = [staged EXCEPT !.events = journal] /\ UNCHANGED <<journal, dispatched>>
    BY <1>10 DEF Activate, Save
  <2>2. mem'.events = journal
    BY <2>1 DEF TypeOK, RunState
  <2> QED BY <2>1, <2>2 DEF Journalled, DispatchedDefinitionKept
<1>11. CASE Finish
  <2> DEFINE tasks == [t \in Ids |-> IF mem.tasks[t].status = "pending"
                                     THEN [mem.tasks[t] EXCEPT !.status = "blocked_dependency"]
                                     ELSE mem.tasks[t]]
  <2>1. /\ pc = "schedule" /\ UNCHANGED <<journal, dispatched>>
        /\ \E verdict \in {"verified", "blocked"} :
             mem' = [mem EXCEPT !.tasks = tasks, !.revision = project, !.status = verdict]
    BY <1>11 DEF Finish, Save
  <2> HIDE DEF tasks
  <2>2. mem'.events = mem.events
    BY <2>1 DEF TypeOK, RunState
  <2> QED BY <1>q, <2>1, <2>2
<1>12. CASE Crash BY <1>12, <1>d DEF Crash
<1>13. CASE Edit \/ UNCHANGED vars
  BY <1>13 DEF Edit, vars, Journalled, DispatchedDefinitionKept
<1> QED BY <1>1, <1>2, <1>3, <1>4, <1>5, <1>6, <1>7, <1>8, <1>9, <1>10, <1>11, <1>12, <1>13
        DEF Next, Step

\* Whatever was dispatched is planned exactly so in every later Plan, for every task
\* set and every proposer: revisions rewrite only what nobody has started.
THEOREM DefinitionsKept == Spec => []DispatchedDefinitionKept
<1>1. Init => TypeOK /\ Planning /\ RunInv /\ Journalled /\ DispatchedDefinitionKept
  BY InitTyped, InitRun DEF Init, Planning, Journalled, DispatchedDefinitionKept
<1>2. TypeOK /\ Planning /\ RunInv /\ Journalled /\ DispatchedDefinitionKept /\ [Next]_vars
        => TypeOK' /\ Planning' /\ RunInv' /\ Journalled' /\ DispatchedDefinitionKept'
  BY StepTyped, StepRun, StepKept
<1> QED BY <1>1, <1>2, PTL DEF Spec

-----------------------------------------------------------------------------
(* What is settled stays settled.                                           *)

\* An outcome but `verified' is recorded as `blocked', and only an attempt settles.
Earned(state) ==
  \A t \in Ids : state.tasks[t].status \in {"verified", "blocked"} => state.tasks[t].attempts > 0

Settling ==
  /\ Earned(saved)
  /\ pc = "activate" => Earned(staged)
  /\ pc \in {"save", "decide"} /\ outcome # "verified" => mem.tasks[cur].status = "blocked"

\* What a step may do to the records on disk.
Forward ==
  \A t \in Ids :
    /\ saved.tasks[t].status = "verified" => saved'.tasks[t] = saved.tasks[t]
    /\ saved'.tasks[t].attempts >= saved.tasks[t].attempts
    /\ saved'.tasks[t].status \in {"verified", "blocked"} => saved'.tasks[t].attempts > 0

\* Every write of the state file moves the records forward.
LEMMA StepForward ==
  TypeOK /\ Planning /\ RunInv /\ Settling /\ [Next]_vars => Forward /\ Settling'
<1> SUFFICES ASSUME TypeOK, Planning, RunInv, Settling, [Next]_vars PROVE Forward /\ Settling'
  OBVIOUS
<1> USE DEF files, locals
<1>t. /\ saved.tasks \in [Ids -> TaskRecord] /\ mem.tasks \in [Ids -> TaskRecord] /\ cur \in Ids
      /\ \A t \in Ids : saved.tasks[t].attempts \in Nat /\ mem.tasks[t].attempts \in Nat
  BY DEF TypeOK, RunState, TaskRecord
<1>s. ASSUME saved'.tasks = saved.tasks,
             \/ pc' \notin {"save", "decide", "activate"}
             \/ pc' = pc /\ outcome' = outcome /\ cur' = cur /\ mem' = mem /\ staged' = staged
      PROVE  Forward /\ Settling'
  BY <1>s, <1>t DEF Forward, Settling, Earned
<1>m. ASSUME NEW t \in Ids, mem.tasks = saved.tasks, mem' = WithStatus(mem, t, "running"),
             saved' = mem', saved.tasks[t].status # "verified", pc' = "dispatch"
      PROVE  Forward /\ Settling'
  <2>1. /\ saved'.tasks[t].status = "running"
        /\ saved'.tasks[t].attempts = saved.tasks[t].attempts
        /\ \A u \in Ids \ {t} : saved'.tasks[u] = saved.tasks[u]
    <3>1. "running" \in TaskStatus /\ mem \in RunState
      BY DEF TaskStatus, TypeOK
    <3> QED BY <1>m, <3>1, StatusReplaced
  <2> QED BY <1>m, <1>t, <2>1 DEF Forward, Settling, Earned
<1>1. CASE Start
  <2>1. staged' = FreshState /\ saved' = saved /\ pc' = "activate"
    BY <1>1 DEF Start
  <2>2. \A t \in Ids : FreshState.tasks[t].status \in {"absent", "pending"}
    BY DEF FreshState, NoState, NewRecord
  <2> QED BY <1>t, <2>1, <2>2 DEF Forward, Settling, Earned
<1>2. CASE Resume BY <1>2, <1>s DEF Resume
<1>3. CASE Schedule
  <2>1. CASE Raise BY <1>s, <2>1 DEF Raise, Down
  <2>2. CASE ~Raise
    <3>1. /\ pc = "schedule" /\ pc' = "dispatch" /\ Ready # {} /\ Ready \subseteq Ids
          /\ mem' = WithStatus(mem, Smallest(Ready), "running") /\ saved' = mem'
      BY <1>3, <2>2 DEF Schedule, Save, Ready
    <3>2. Smallest(Ready) \in Ready
      BY <3>1, SmallestIn
    <3>3. mem.tasks = saved.tasks /\ saved.tasks[Smallest(Ready)].status = "pending"
      BY <3>1, <3>2 DEF Ready, RunInv, Agree
    <3> QED BY <1>m, <3>1, <3>2, <3>3
  <2> QED BY <2>1, <2>2
<1>4. CASE Launch
  <2>1. CASE Raise BY <1>s, <2>1 DEF Raise, Down
  <2>2. CASE ~Raise
    <3>1. pc' = "collect" /\ saved' = saved
      BY <1>4, <2>2 DEF Launch
    <3> QED BY <1>s, <3>1
  <2> QED BY <2>1, <2>2
<1>5. CASE Decline \/ WriteReceipt \/ AuditReceipt \/ AnswerPlan \/ WriteProposal
           \/ AuditProposal
  BY <1>5, <1>s DEF Decline, WriteReceipt, AuditReceipt, AnswerPlan, WriteProposal,
                    AuditProposal
<1>6. CASE Collect
  <2> DEFINE r == [status   |-> IF outcome = "verified" THEN "verified" ELSE "blocked",
                   attempts |-> mem.tasks[cur].attempts + 1,
                   plan     |-> ActivePlan(mem).revision,
                   revision |-> project]
  <2>1. /\ mem' = WithRecord(mem, cur, r) /\ saved' = saved /\ outcome' = outcome /\ cur' = cur
        /\ pc' = "save"
    BY <1>6 DEF Collect
  <2>2. outcome # "verified" => r.status = "blocked"
    OBVIOUS
  <2> HIDE DEF r
  <2>3. mem'.tasks[cur] = r
    BY <1>t, <2>1 DEF WithRecord, TypeOK, RunState
  <2> QED BY <1>t, <2>1, <2>2, <2>3 DEF Forward, Settling, Earned
<1>7. CASE SaveResult
  <2>1. /\ pc = "save" /\ mem' = [mem EXCEPT !.revision = project] /\ saved' = mem'
        /\ outcome' = outcome /\ cur' = cur /\ pc' = "decide"
    BY <1>7 DEF SaveResult, Save
  <2>2. mem'.tasks = mem.tasks
    BY <2>1 DEF TypeOK, RunState
  <2>3. /\ mem.tasks = [saved.tasks EXCEPT ![cur] = mem.tasks[cur]]
        /\ mem.tasks[cur].attempts = saved.tasks[cur].attempts + 1
        /\ saved.tasks[cur].status = "running"
    BY <2>1 DEF RunInv, Agree
  <2>4. \A t \in Ids \ {cur} : saved'.tasks[t] = saved.tasks[t]
    BY <1>t, <2>1, <2>2, <2>3
  <2> QED BY <1>t, <2>1, <2>2, <2>3, <2>4 DEF Forward, Settling, Earned
<1>8. CASE Repair
  <2>1. /\ pc = "decide" /\ pc' = "dispatch" /\ outcome = "failed"
        /\ mem' = WithStatus(mem, cur, "running") /\ saved' = mem'
    BY <1>8 DEF Repair, Save
  <2>2. mem.tasks = saved.tasks /\ saved.tasks[cur].status # "verified"
    BY <2>1 DEF RunInv, Agree, Settling
  <2> QED BY <1>m, <1>t, <2>1, <2>2
<1>9. CASE Settle \/ SaveBoundary \/ Propose \/ AnswerNothing \/ CountProposal
  <2>1. pc \in {"decide", "boundary", "propose", "asked", "count"} /\ saved' \in {saved, mem'}
        /\ pc' \notin {"save", "decide", "activate"}
    BY <1>9 DEF Settle, SaveBoundary, Propose, AnswerNothing, CountProposal, Save
  <2>2. mem'.tasks = mem.tasks
    BY <1>9 DEF Settle, SaveBoundary, Propose, AnswerNothing, CountProposal, Save, TypeOK, RunState
  <2>3. mem.tasks = saved.tasks
    BY <2>1 DEF RunInv, Agree
  <2> QED BY <1>s, <2>1, <2>2, <2>3
<1>10. CASE Activate
  <2>1. pc = "activate" /\ pc' = "schedule" /\ saved' = [staged EXCEPT !.events = journal]
    BY <1>10 DEF Activate, Save
  <2>2. saved'.tasks = staged.tasks
    BY <2>1 DEF TypeOK, RunState
  <2>3. \A t \in Ids : /\ staged.tasks[t].attempts = saved.tasks[t].attempts
                       /\ saved.tasks[t].attempts > 0 => staged.tasks[t] = saved.tasks[t]
    BY <2>1 DEF RunInv, Switching
  <2>4. \A t \in Ids : staged.tasks[t].status \in {"verified", "blocked"} => staged.tasks[t].attempts > 0
    BY <2>1 DEF Settling, Earned
  <2> QED BY <1>t, <2>1, <2>2, <2>3, <2>4 DEF Forward, Settling, Earned
<1>11. CASE Finish
  <2> DEFINE tasks == [t \in Ids |-> IF mem.tasks[t].status = "pending"
                                     THEN [mem.tasks[t] EXCEPT !.status = "blocked_dependency"]
                                     ELSE mem.tasks[t]]
  <2>1. /\ pc = "schedule" /\ pc' = "finished"
        /\ \E verdict \in {"verified", "blocked"} :
             saved' = [mem EXCEPT !.tasks = tasks, !.revision = project, !.status = verdict]
    BY <1>11 DEF Finish, Save
  <2>2. mem.tasks = saved.tasks
    BY <2>1 DEF RunInv, Agree
  <2>3. \A t \in Ids : /\ tasks[t].attempts = saved.tasks[t].attempts
                       /\ \/ tasks[t] = saved.tasks[t]
                          \/ saved.tasks[t].status = "pending" /\ tasks[t].status = "blocked_dependency"
    BY <1>t, <2>2 DEF TaskRecord
  <2> HIDE DEF tasks
  <2>4. saved'.tasks = tasks
    BY <2>1 DEF TypeOK, RunState
  <2> QED BY <1>t, <2>1, <2>3, <2>4 DEF Forward, Settling, Earned
<1>14. CASE Commit
  <2>1. /\ pc = "commit" /\ pc' = "activate" /\ saved' = saved
        /\ staged' = Switched(answer.tasks)
    BY <1>14 DEF Commit
  <2>2. mem.tasks = saved.tasks
    BY <2>1 DEF RunInv, Agree
  <2>3. \A t \in Ids : \/ staged'.tasks[t].status \in {"absent", "pending"}
                       \/ staged'.tasks[t] = saved.tasks[t]
    BY <2>1, <2>2 DEF Switched, NewRecord, TypeOK, RunState
  <2> QED BY <1>t, <2>1, <2>3 DEF Forward, Settling, Earned
<1>12. CASE Crash BY <1>12, <1>s DEF Crash, Down
<1>13. CASE Edit \/ UNCHANGED vars BY <1>13, <1>s DEF Edit, vars
<1> QED BY <1>1, <1>2, <1>3, <1>4, <1>5, <1>6, <1>7, <1>8, <1>9, <1>10, <1>11, <1>12, <1>13,
           <1>14 DEF Next, Step
\* On disk a verified task never falls back and an executed one never becomes
\* dispatchable again, for every task set, every proposer, and however often the Run dies.
THEOREM SettledForever == Spec => SettledNeverReopens
<1>1. Init => TypeOK /\ Planning /\ RunInv /\ Settling
  <2>1. \A t \in Ids : NoState.tasks[t].status = "absent"
    BY DEF NoState, NewRecord
  <2> QED BY <2>1, InitTyped, InitRun DEF Init, Planning, Settling, Earned
<1>2. TypeOK /\ Planning /\ RunInv /\ Settling /\ [Next]_vars
        => TypeOK' /\ Planning' /\ RunInv' /\ Settling'
  BY StepTyped, StepRun, StepForward
<1>3. TypeOK /\ Planning /\ RunInv /\ Settling /\ [Next]_vars =>
        [\A t \in Ids :
           /\ saved.tasks[t].status = "verified" => saved'.tasks[t] = saved.tasks[t]
           /\ saved.tasks[t].attempts > 0
                => saved'.tasks[t].status \notin {"absent", "pending"}]_vars
  <2> SUFFICES ASSUME TypeOK, Planning, RunInv, Settling, [Next]_vars, NEW t \in Ids
               PROVE  /\ saved.tasks[t].status = "verified" => saved'.tasks[t] = saved.tasks[t]
                      /\ saved.tasks[t].attempts > 0
                           => saved'.tasks[t].status \notin {"absent", "pending"}
    OBVIOUS
  <2>1. Forward /\ RunInv' /\ TypeOK'
    BY StepForward, StepRun, StepTyped
  <2>2. saved.tasks[t].attempts \in Nat /\ saved'.tasks[t].attempts \in Nat
    BY <2>1 DEF TypeOK, RunState, TaskRecord
  <2>3. saved'.tasks[t].attempts > 0 => saved'.tasks[t].status \in {"running", "verified", "blocked"}
    BY <2>1 DEF RunInv, Disk, Started
  <2> QED BY <2>1, <2>2, <2>3 DEF Forward
<1> QED BY <1>1, <1>2, <1>3, PTL DEF Spec, SettledNeverReopens

-----------------------------------------------------------------------------
(* The files and the memory of a Run tell one story.                        *)

\* The events of a kind, the tasks a state has attempted, and the proposals that passed.
Marks(kind, log) == {i \in DOMAIN log : log[i].kind = kind}
Executed(s) == {t \in Ids : s.tasks[t].attempts > 0}
Validated(refs) == {i \in DOMAIN refs : refs[i].valid}

\* The order of a state names the tasks it has executed, the one in hand aside.
Ordered(s, hand) ==
  LET settled == Executed(s) \ hand IN
  Range(s.order) = settled /\ IsFiniteSet(settled) /\ Len(s.order) = Cardinality(settled)

\* Its receipts are those of the tasks it has executed, the one they are owed to aside.
Received(s, owed) ==
  /\ {r.task : r \in s.receipts} = Executed(s) \ owed
  /\ \A r \in s.receipts :
       r.record = s.tasks[r.task] /\ r.definition = ActivePlan(s).tasks[r.task]

\* A log holds these receipts, of the first n tasks of the order.
TasksLogged(log, receipts, order, n) ==
  /\ IsFiniteSet(Marks("task", log)) /\ Cardinality(Marks("task", log)) = n
  /\ {r[2] : r \in RefsOf("task", log)} = receipts
  /\ {<<r[1], r[2].task>> : r \in RefsOf("task", log)} = {<<i, order[i]>> : i \in 1..n}

\* A log holds these proposals, in this order.
ProposalsLogged(log, refs) ==
  /\ IsFiniteSet(Marks("proposal", log)) /\ Cardinality(Marks("proposal", log)) = Len(refs)
  /\ RefsOf("proposal", log) = Numbered(refs)

\* Proposals are numbered as they came, and so many of them were validated.
Counted(refs, n) ==
  /\ \A i \in DOMAIN refs : refs[i].sequence = i - 1
  /\ Cardinality(Validated(refs)) = n

-----------------------------------------------------------------------------
\* What is appended comes last, and the rest stays where it was.
LEMMA AppendedAt ==
  ASSUME NEW S, NEW s \in Seq(S), NEW e \in S
  PROVE  /\ DOMAIN Append(s, e) = DOMAIN s \union {Len(s) + 1} /\ Len(s) \in Nat
         /\ Len(Append(s, e)) = Len(s) + 1 /\ DOMAIN s = 1..Len(s)
         /\ Append(s, e)[Len(s) + 1] = e /\ Len(s) + 1 \notin DOMAIN s
         /\ \A i \in DOMAIN s : i <= Len(s) /\ Append(s, e)[i] = s[i]
OBVIOUS

\* What is appended is the one thing more.
LEMMA RangeAppended ==
  ASSUME NEW S, NEW s \in Seq(S), NEW e \in S
  PROVE  Range(Append(s, e)) = Range(s) \union {e}
<1>1. /\ Range(s) = {s[i] : i \in DOMAIN s}
      /\ Range(Append(s, e)) = {Append(s, e)[i] : i \in DOMAIN Append(s, e)}
  BY DEF Range
<1> QED BY <1>1, AppendedAt

\* A log has finitely many events of a kind.
LEMMA MarksFinite ==
  ASSUME NEW S, NEW log \in Seq(S), NEW kind PROVE IsFiniteSet(Marks(kind, log))
<1>1. IsFiniteSet(1..Len(log)) BY FS_Interval
<1>2. Marks(kind, log) \in SUBSET (1..Len(log)) BY DEF Marks
<1> QED BY <1>1, <1>2, FS_Subset

\* The place of an event among its kind, and what it refers to.
Place(kind, log, i) == Cardinality({j \in Marks(kind, log) : j <= i})
Entry(kind, log, i) == <<Place(kind, log, i), log[i].ref>>

\* The references of a kind are the entries of its events.
LEMMA RefsAre ==
  ASSUME NEW log, NEW kind
  PROVE  RefsOf(kind, log) = {Entry(kind, log, i) : i \in Marks(kind, log)}
BY DEF RefsOf, Marks, Entry, Place

\* The places of the references are those of the events.
LEMMA PlacesAre ==
  ASSUME NEW log, NEW kind
  PROVE  {r[1] : r \in RefsOf(kind, log)} = {Place(kind, log, i) : i \in Marks(kind, log)}
<1>1. \A i : Entry(kind, log, i)[1] = Place(kind, log, i) BY DEF Entry
<1>2. \A r \in RefsOf(kind, log) : \E i \in Marks(kind, log) : r = Entry(kind, log, i)
  BY RefsAre, Zenon
<1>3. \A i \in Marks(kind, log) : Entry(kind, log, i) \in RefsOf(kind, log)
  BY RefsAre, Zenon
<1>4. \A i \in Marks(kind, log) : \E r \in RefsOf(kind, log) : r[1] = Place(kind, log, i)
  BY <1>1, <1>3
<1>5. \A r \in RefsOf(kind, log) : \E i \in Marks(kind, log) : r[1] = Place(kind, log, i)
  BY <1>1, <1>2
<1>6. ASSUME NEW p PROVE p \in {r[1] : r \in RefsOf(kind, log)}
                           <=> p \in {Place(kind, log, i) : i \in Marks(kind, log)}
  BY <1>4, <1>5, Zenon
<1> QED BY <1>6

\* Another event is the last of its kind.
LEMMA RefAdded ==
  ASSUME NEW S, NEW log \in Seq(S), NEW e \in S, NEW kind, e.kind = kind
  PROVE  /\ Cardinality(Marks(kind, Append(log, e))) = Cardinality(Marks(kind, log)) + 1
         /\ RefsOf(kind, Append(log, e)) =
              RefsOf(kind, log) \union {<<Cardinality(Marks(kind, log)) + 1, e.ref>>}
<1> DEFINE before == Marks(kind, log)
           after == Marks(kind, Append(log, e))
           n == Len(log) + 1
<1>1. after = before \union {n} /\ n \notin before /\ before \subseteq DOMAIN log
  BY AppendedAt DEF Marks
<1>2. Cardinality(after) = Cardinality(before) + 1
  BY <1>1, MarksFinite, FS_AddElement
<1>3. \A i \in before : Entry(kind, Append(log, e), i) = Entry(kind, log, i)
  <2> SUFFICES ASSUME NEW i \in before
               PROVE  Entry(kind, Append(log, e), i) = Entry(kind, log, i)
    OBVIOUS
  <2>1. {j \in after : j <= i} = {j \in before : j <= i} /\ Append(log, e)[i] = log[i]
    BY <1>1, AppendedAt
  <2> QED BY <2>1 DEF Entry, Place
<1>4. Entry(kind, Append(log, e), n) = <<Cardinality(after), e.ref>>
  <2>1. {j \in after : j <= n} = after /\ Append(log, e)[n].ref = e.ref
    BY <1>1, AppendedAt
  <2> QED BY <2>1 DEF Entry, Place
<1>5. RefsOf(kind, Append(log, e)) = {Entry(kind, Append(log, e), i) : i \in after} BY RefsAre
<1>6. RefsOf(kind, log) = {Entry(kind, log, i) : i \in before} BY RefsAre
<1> HIDE DEF before, after, n
<1>7. RefsOf(kind, Append(log, e)) = RefsOf(kind, log) \union {<<Cardinality(after), e.ref>>}
  <2>1. ASSUME NEW r \in RefsOf(kind, Append(log, e))
        PROVE  r \in RefsOf(kind, log) \union {<<Cardinality(after), e.ref>>}
    <3>1. PICK i \in after : r = Entry(kind, Append(log, e), i) BY <1>5, Zenon
    <3>2. CASE i = n BY <1>4, <3>1, <3>2
    <3>3. CASE i \in before
      <4>1. r = Entry(kind, log, i) BY <1>3, <3>1, <3>3
      <4>2. r \in RefsOf(kind, log) BY <1>6, <3>3, <4>1, Zenon
      <4> QED BY <4>2
    <3> QED BY <1>1, <3>2, <3>3
  <2>2. ASSUME NEW r \in RefsOf(kind, log) PROVE r \in RefsOf(kind, Append(log, e))
    <3>1. PICK i \in before : r = Entry(kind, log, i) BY <1>6, Zenon
    <3>2. i \in after /\ r = Entry(kind, Append(log, e), i) BY <1>1, <1>3, <3>1
    <3> QED BY <1>5, <3>2, Zenon
  <2>3. <<Cardinality(after), e.ref>> \in RefsOf(kind, Append(log, e))
    <3>1. n \in after BY <1>1
    <3> QED BY <1>4, <1>5, <3>1, Zenon
  <2> QED BY <2>1, <2>2, <2>3
<1> QED BY <1>2, <1>7 DEF before, after

\* And changes nothing of the other kind.
LEMMA RefKept ==
  ASSUME NEW S, NEW log \in Seq(S), NEW e \in S, NEW kind, e.kind # kind
  PROVE  Marks(kind, Append(log, e)) = Marks(kind, log)
         /\ RefsOf(kind, Append(log, e)) = RefsOf(kind, log)
<1>1. Marks(kind, Append(log, e)) = Marks(kind, log) BY AppendedAt DEF Marks
<1>2. \A i \in Marks(kind, log) : Entry(kind, Append(log, e), i) = Entry(kind, log, i)
  <2> SUFFICES ASSUME NEW i \in Marks(kind, log)
               PROVE  Entry(kind, Append(log, e), i) = Entry(kind, log, i)
    OBVIOUS
  <2>1. Append(log, e)[i] = log[i] BY AppendedAt DEF Marks
  <2> QED BY <1>1, <2>1 DEF Entry, Place
<1>3. RefsOf(kind, Append(log, e)) = {Entry(kind, Append(log, e), i) : i \in Marks(kind, log)}
  BY <1>1, RefsAre
<1>4. RefsOf(kind, log) = {Entry(kind, log, i) : i \in Marks(kind, log)} BY RefsAre
<1>5. RefsOf(kind, Append(log, e)) = RefsOf(kind, log) BY <1>2, <1>3, <1>4, Zenon
<1> QED BY <1>1, <1>5

\* As many events are marked as their places go up to.
LEMMA RefsCounted ==
  ASSUME NEW S, NEW log \in Seq(S), NEW kind, NEW n \in Nat,
         {r[1] : r \in RefsOf(kind, log)} = 1..n
  PROVE  Cardinality(Marks(kind, log)) = n
<1> DEFINE at == Marks(kind, log)
<1>1. at \subseteq Nat /\ IsFiniteSet(at)
  <2>1. DOMAIN log \subseteq Nat OBVIOUS
  <2> QED BY <2>1, MarksFinite DEF Marks
<1>2. {Place(kind, log, i) : i \in at} = 1..n BY PlacesAre
<1>3. ASSUME NEW i \in at, NEW k \in at, i < k PROVE Place(kind, log, i) # Place(kind, log, k)
  <2> DEFINE low == {j \in at : j <= i}
             high == {j \in at : j <= k}
  <2>1. low \in SUBSET high /\ k \in high /\ k \notin low /\ high \in SUBSET at
    BY <1>1, <1>3
  <2>2. IsFiniteSet(high) BY <1>1, <2>1, FS_Subset
  <2>3. Cardinality(high) # Cardinality(low) BY <2>1, <2>2, FS_Subset
  <2> QED BY <2>3 DEF Place
<1> HIDE DEF at
<1> DEFINE place == [i \in at |-> Place(kind, log, i)]
<1>4. place \in Bijection(at, 1..n)
  <2>0. \A i \in at : place[i] = Place(kind, log, i) OBVIOUS
  <2>1. place \in [at -> 1..n]
    <3>1. \A i \in at : Place(kind, log, i) \in 1..n BY <1>2, Zenon
    <3> QED BY <3>1
  <2> HIDE DEF place
  <2>2. \A i, k \in at : place[i] = place[k] => i = k BY <1>1, <1>3, <2>0
  <2>3. \A m \in 1..n : \E i \in at : place[i] = m BY <1>2, <2>0, Zenon
  <2> QED BY <2>1, <2>2, <2>3 DEF Bijection, Injection, Surjection, IsInjective
<1>5. Cardinality(at) = Cardinality(1..n)
  BY <1>1, <1>4, FS_Bijection DEF ExistsBijection
<1>6. Cardinality(1..n) = n
  <2>1. 1 \in Int /\ n \in Int OBVIOUS
  <2>2. Cardinality(1..n) = IF 1 > n THEN 0 ELSE n - 1 + 1 BY <2>1, FS_Interval
  <2> QED BY <2>2
<1> QED BY <1>5, <1>6 DEF at

\* One more receipt, of the next task of the order.
LEMMA TaskLogged ==
  ASSUME NEW log \in Seq(AuditEvent), NEW receipts, NEW order, NEW n \in Nat,
         TasksLogged(log, receipts, order, n), NEW e \in AuditEvent, e.kind = "task",
         e.ref.task = order[n + 1]
  PROVE  TasksLogged(Append(log, e), receipts \union {e.ref}, order, n + 1)
<1> DEFINE old == RefsOf("task", log)
           new == RefsOf("task", Append(log, e))
           last == <<n + 1, e.ref>>
<1>1. /\ Cardinality(Marks("task", Append(log, e))) = n + 1 /\ new = old \union {last}
  BY RefAdded DEF TasksLogged
<1>2. IsFiniteSet(Marks("task", Append(log, e)))
  <2>1. Append(log, e) \in Seq(AuditEvent) BY LastAppended
  <2> QED BY <2>1, MarksFinite
<1>3. /\ {r[2] : r \in old} = receipts
      /\ {<<r[1], r[2].task>> : r \in old} = {<<i, order[i]>> : i \in 1..n}
  BY DEF TasksLogged
<1>4. last[1] = n + 1 /\ last[2] = e.ref OBVIOUS
<1> HIDE DEF old, new, last
<1>5. {r[2] : r \in new} = receipts \union {e.ref} BY <1>1, <1>3, <1>4
<1>6. {<<r[1], r[2].task>> : r \in new}
        = {<<r[1], r[2].task>> : r \in old} \union {<<n + 1, order[n + 1]>>}
  BY <1>1, <1>4
<1>7. {<<i, order[i]>> : i \in 1..(n + 1)}
        = {<<i, order[i]>> : i \in 1..n} \union {<<n + 1, order[n + 1]>>}
  <2>1. 1..(n + 1) = (1..n) \union {n + 1} OBVIOUS
  <2> QED BY <2>1
<1> QED BY <1>1, <1>2, <1>3, <1>5, <1>6, <1>7 DEF TasksLogged, new

\* One more proposal.
LEMMA ProposalLogged ==
  ASSUME NEW log \in Seq(AuditEvent), NEW refs \in Seq(ProposalReceipt), ProposalsLogged(log, refs),
         NEW e \in AuditEvent, e.kind = "proposal", e.ref \in ProposalReceipt
  PROVE  ProposalsLogged(Append(log, e), Append(refs, e.ref))
<1>1. Append(log, e) \in Seq(AuditEvent) BY LastAppended
<1>2. IsFiniteSet(Marks("proposal", Append(log, e))) BY <1>1, MarksFinite
<1>3. /\ Cardinality(Marks("proposal", Append(log, e))) = Len(refs) + 1
      /\ RefsOf("proposal", Append(log, e)) = Numbered(refs) \union {<<Len(refs) + 1, e.ref>>}
  BY RefAdded DEF ProposalsLogged
<1>4. Numbered(Append(refs, e.ref)) = Numbered(refs) \union {<<Len(refs) + 1, e.ref>>}
  BY AppendedAt DEF Numbered
<1> QED BY <1>2, <1>3, <1>4, AppendedAt DEF ProposalsLogged

\* An event of one kind says nothing of the other.
LEMMA OthersLogged ==
  ASSUME NEW log \in Seq(AuditEvent), NEW e \in AuditEvent
  PROVE  /\ e.kind # "task" => \A receipts, order, n :
              TasksLogged(log, receipts, order, n) => TasksLogged(Append(log, e), receipts, order, n)
         /\ e.kind # "proposal" => \A refs :
              ProposalsLogged(log, refs) => ProposalsLogged(Append(log, e), refs)
<1>1. e.kind # "task" => /\ Marks("task", Append(log, e)) = Marks("task", log)
                         /\ RefsOf("task", Append(log, e)) = RefsOf("task", log)
  BY RefKept
<1>2. e.kind # "proposal" => /\ Marks("proposal", Append(log, e)) = Marks("proposal", log)
                             /\ RefsOf("proposal", Append(log, e)) = RefsOf("proposal", log)
  BY RefKept
<1> QED BY <1>1, <1>2 DEF TasksLogged, ProposalsLogged

\* The count of validated proposals goes with the proposals.
LEMMA CountedMore ==
  ASSUME NEW refs \in Seq(ProposalReceipt), NEW n \in Nat, Counted(refs, n),
         NEW p \in ProposalReceipt, p.sequence = Len(refs)
  PROVE  Counted(Append(refs, p), IF p.valid THEN n + 1 ELSE n)
<1>1. Append(refs, p) \in Seq(ProposalReceipt) BY LastAppended
<1>2. \A i \in DOMAIN Append(refs, p) : Append(refs, p)[i].sequence = i - 1
  BY AppendedAt DEF Counted
<1>3. IsFiniteSet(Validated(refs))
  <2>1. IsFiniteSet(1..Len(refs)) BY FS_Interval
  <2>2. Validated(refs) \in SUBSET (1..Len(refs)) BY DEF Validated
  <2> QED BY <2>1, <2>2, FS_Subset
<1>4. CASE p.valid
  <2>1. Validated(Append(refs, p)) = Validated(refs) \union {Len(refs) + 1}
        /\ Len(refs) + 1 \notin Validated(refs)
    BY <1>4, AppendedAt DEF Validated
  <2>2. Cardinality(Validated(Append(refs, p))) = n + 1
    BY <1>3, <2>1, FS_AddElement DEF Counted
  <2> QED BY <1>2, <1>4, <2>2 DEF Counted
<1>5. CASE ~p.valid
  <2>1. Validated(Append(refs, p)) = Validated(refs) BY <1>5, AppendedAt DEF Validated
  <2> QED BY <1>2, <1>5, <2>1 DEF Counted
<1> QED BY <1>4, <1>5

\* What Resume asks of the logs, counted.
LEMMA LogsAgree ==
  ASSUME NEW log \in Seq(AuditEvent), NEW s \in RunState
  PROVE  (/\ RefsOf("proposal", log) = Numbered(s.proposals)
          /\ {r[2] : r \in RefsOf("task", log)} = s.receipts
          /\ {<<r[1], r[2].task>> : r \in RefsOf("task", log)} = Numbered(s.order))
         <=> /\ TasksLogged(log, s.receipts, s.order, Len(s.order))
             /\ ProposalsLogged(log, s.proposals)
<1>1. s.order \in Seq(Ids) /\ s.proposals \in Seq(ProposalReceipt) BY DEF RunState
<1>2. Numbered(s.order) = {<<i, s.order[i]>> : i \in 1..Len(s.order)} BY <1>1 DEF Numbered
<1>3. IsFiniteSet(Marks("task", log)) /\ IsFiniteSet(Marks("proposal", log)) BY MarksFinite
<1>4. ASSUME {<<r[1], r[2].task>> : r \in RefsOf("task", log)} = Numbered(s.order)
      PROVE  Cardinality(Marks("task", log)) = Len(s.order)
  <2>1. {r[1] : r \in RefsOf("task", log)} = 1..Len(s.order)
    <3>1. ASSUME NEW r \in RefsOf("task", log) PROVE r[1] \in 1..Len(s.order)
      <4>1. <<r[1], r[2].task>> \in Numbered(s.order) BY <1>4, Zenon
      <4>2. PICK i \in 1..Len(s.order) : <<r[1], r[2].task>> = <<i, s.order[i]>>
        BY <1>2, <4>1, Zenon
      <4> QED BY <4>2
    <3>2. ASSUME NEW i \in 1..Len(s.order) PROVE \E r \in RefsOf("task", log) : r[1] = i
      <4>1. <<i, s.order[i]>> \in Numbered(s.order) BY <1>2, Zenon
      <4>2. PICK r \in RefsOf("task", log) : <<i, s.order[i]>> = <<r[1], r[2].task>>
        BY <1>4, <4>1, Zenon
      <4> QED BY <4>2
    <3> QED BY <3>1, <3>2
  <2> QED BY <1>1, <2>1, RefsCounted
<1>5. ASSUME RefsOf("proposal", log) = Numbered(s.proposals)
      PROVE  Cardinality(Marks("proposal", log)) = Len(s.proposals)
  <2>1. {r[1] : r \in RefsOf("proposal", log)} = 1..Len(s.proposals)
    <3>1. Numbered(s.proposals) = {<<i, s.proposals[i]>> : i \in 1..Len(s.proposals)}
      BY <1>1 DEF Numbered
    <3>2. ASSUME NEW r \in RefsOf("proposal", log) PROVE r[1] \in 1..Len(s.proposals)
      <4>1. PICK i \in 1..Len(s.proposals) : r = <<i, s.proposals[i]>> BY <1>5, <3>1, Zenon
      <4> QED BY <4>1
    <3>3. ASSUME NEW i \in 1..Len(s.proposals)
          PROVE  \E r \in RefsOf("proposal", log) : r[1] = i
      <4>1. <<i, s.proposals[i]>> \in RefsOf("proposal", log) BY <1>5, <3>1, Zenon
      <4>2. <<i, s.proposals[i]>>[1] = i OBVIOUS
      <4> QED BY <4>1, <4>2
    <3> QED BY <3>2, <3>3
  <2> QED BY <1>1, <2>1, RefsCounted
<1> QED BY <1>2, <1>3, <1>4, <1>5 DEF TasksLogged, ProposalsLogged

-----------------------------------------------------------------------------
\* The task in hand, and the one whose receipt is not in the log yet.
AtWork == {"dispatch", "collect", "save", "decide"}
Settled == {"schedule", "boundary", "propose", "asked", "snapshot", "register", "count", "commit"}
Hand == IF pc \in AtWork THEN {cur} ELSE {}
Owed == IF pc \in AtWork \union {"receipt", "audit"} THEN {cur} ELSE {}
Working == pc \notin {"down", "activate", "finished"}

\* The proposals in the log, and those on disk: they are counted last.
Registered == IF pc = "count" THEN Append(mem.proposals, answer) ELSE mem.proposals
Filed == IF pc \in {"register", "count"} THEN Append(mem.proposals, answer) ELSE mem.proposals

TasksTold ==
  /\ Working => Ordered(mem, Hand) /\ Received(mem, Owed)
  /\ pc \in {"save", "decide"} => mem.tasks[cur].attempts > 0
  /\ pc \in {"receipt", "audit"} =>
       /\ Len(mem.order) > 0 /\ mem.order[Len(mem.order)] = cur
       /\ mem.tasks[cur].attempts > 0

ReceiptsTold ==
  Working =>
    /\ receiptFiles = mem.receipts \union (IF pc = "audit" THEN {CurrentReceipt} ELSE {})
    /\ TasksLogged(audit, mem.receipts, mem.order,
                   IF pc \in {"receipt", "audit"} THEN Len(mem.order) - 1 ELSE Len(mem.order))

ProposalsTold ==
  Working =>
    /\ proposalFiles = Range(Filed) /\ ProposalsLogged(audit, Registered)
    /\ mem.consumed = Len(mem.proposals)
    /\ pc \in {"snapshot", "register", "count"} => answer.sequence = mem.consumed
    /\ Counted(mem.proposals, IF pc = "commit" THEN ActivePlan(mem).revision + 1
                                               ELSE ActivePlan(mem).revision)

\* A state from which a Resume goes on: the files hold the whole of it.
Whole(s) ==
  /\ s.events = journal /\ s.audit = audit /\ s.consumed = Len(s.proposals) /\ ~s.asked
  /\ Ordered(s, {}) /\ Received(s, {}) /\ receiptFiles = s.receipts
  /\ TasksLogged(audit, s.receipts, s.order, Len(s.order))
  /\ proposalFiles = Range(s.proposals) /\ ProposalsLogged(audit, s.proposals)
  /\ Counted(s.proposals, ActivePlan(s).revision)

MemoryTold ==
  /\ journal = <<>> => audit = <<>> /\ receiptFiles = {} /\ proposalFiles = {}
  /\ Working => mem.audit = audit /\ (mem.asked => pc = "asked")
  /\ pc \in {"schedule", "propose"} => mem = saved
  /\ pc = "activate" => Whole([staged EXCEPT !.events = journal])

Story == TasksTold /\ ReceiptsTold /\ ProposalsTold /\ MemoryTold

-----------------------------------------------------------------------------
\* What Resume asks for, and what it asks for besides what a whole state says.
LEMMA RestorableIs ==
  ASSUME TypeOK, NEW s \in RunState, journal # <<>>, s.status # "absent",
         Covered(s.tasks, ActivePlan(s))
  PROVE  Restorable(s) <=> Whole(s)
<1>1. audit \in Seq(AuditEvent) BY DEF TypeOK
<1>2. Planned(ActivePlan(s).tasks) = {t \in Ids : s.tasks[t].status # "absent"}
  BY DEF Covered, Planned
<1>3. JournalsAgree(s) <=> /\ s.events = journal /\ s.audit = audit
                           /\ TasksLogged(audit, s.receipts, s.order, Len(s.order))
                           /\ ProposalsLogged(audit, s.proposals)
  BY <1>1, LogsAgree DEF JournalsAgree
<1>4. ProposalsAgree(s) <=> /\ s.consumed = Len(s.proposals)
                            /\ proposalFiles = Range(s.proposals)
                            /\ Counted(s.proposals, ActivePlan(s).revision)
  BY DEF ProposalsAgree, Counted, Validated
<1>5. Range(s.order) = Executed(s) => IsFiniteSet(Executed(s))
  <2>1. s.order \in Seq(Ids) /\ DOMAIN s.order = 1..Len(s.order) BY DEF RunState
  <2>2. IsFiniteSet(1..Len(s.order)) BY FS_Interval, <2>1
  <2>3. s.order \in Surjection(1..Len(s.order), Range(s.order))
    BY <2>1 DEF Surjection, Range
  <2> QED BY <2>2, <2>3, FS_Surjection
<1>6. ReceiptsAgree(s) <=> Ordered(s, {}) /\ Received(s, {}) /\ receiptFiles = s.receipts
  <2>1. Executed(s) \ {} = Executed(s) OBVIOUS
  <2>2. ReceiptsAgree(s) <=>
          /\ {r.task : r \in s.receipts} = Executed(s)
          /\ Range(s.order) = Executed(s) /\ Len(s.order) = Cardinality(Executed(s))
          /\ receiptFiles = s.receipts
          /\ \A r \in s.receipts :
               r.record = s.tasks[r.task] /\ r.definition = ActivePlan(s).tasks[r.task]
    BY DEF ReceiptsAgree, Executed
  <2> QED BY <1>5, <2>1, <2>2 DEF Ordered, Received
<1> QED BY <1>2, <1>3, <1>4, <1>6 DEF Restorable, Whole

\* A process that starts to schedule from a whole state.
LEMMA SchedulesWhole ==
  ASSUME NEW s, Whole(s), pc' = "schedule", mem' = s, saved' = s, journal # <<>>,
         UNCHANGED <<journal, audit, receiptFiles, proposalFiles>>
  PROVE  Story'
<1>1. /\ Hand' = {} /\ Owed' = {} /\ Working' /\ Registered' = s.proposals /\ Filed' = s.proposals
  BY DEF Hand, Owed, Working, Registered, Filed, AtWork
<1>2. TasksTold' BY <1>1 DEF TasksTold, Whole
<1>3. ReceiptsTold' BY DEF ReceiptsTold, Whole
<1>4. ProposalsTold' BY <1>1 DEF ProposalsTold, Whole
<1>5. MemoryTold' BY DEF MemoryTold, Whole
<1> QED BY <1>2, <1>3, <1>4, <1>5 DEF Story

\* What is scheduled from is whole.
LEMMA StorySuffices ==
  TypeOK /\ Planning /\ RunInv /\ Journalled /\ Story => ScheduleFromAgreement
<1> SUFFICES ASSUME TypeOK, Planning, RunInv, Journalled, Story, pc = "schedule"
             PROVE  mem = saved /\ Restorable(mem)
  BY DEF ScheduleFromAgreement
<1>1. mem = saved /\ mem \in RunState /\ mem.events = journal /\ journal # <<>>
  BY DEF Story, MemoryTold, TypeOK, Journalled, Planning
<1>2. mem.status # "absent" /\ Covered(mem.tasks, ActivePlan(mem))
  BY <1>1 DEF RunInv, Agree, Disk
<1>3. Hand = {} /\ Owed = {} /\ Working /\ Registered = mem.proposals /\ Filed = mem.proposals
  BY DEF Hand, Owed, Working, Registered, Filed, AtWork
<1>4. Whole(mem)
  BY <1>1, <1>3 DEF Story, TasksTold, ReceiptsTold, ProposalsTold, MemoryTold, Whole
<1> QED BY <1>1, <1>2, <1>4, RestorableIs

-----------------------------------------------------------------------------
\* A step that leaves the tasks, their order and their receipts alone.
LEMMA TasksStay ==
  ASSUME TasksTold, Working, Working',
         mem'.tasks = mem.tasks, mem'.order = mem.order, mem'.receipts = mem.receipts,
         mem'.events = mem.events, cur' = cur, Hand' = Hand, Owed' = Owed,
         pc' \in {"save", "decide"} => pc \in {"save", "decide"},
         pc' \in {"receipt", "audit"} => pc \in {"receipt", "audit"}
  PROVE  TasksTold'
<1>1. PICK m : m = mem OBVIOUS
<1>2. PICK k : k = mem' OBVIOUS
<1>3. k.tasks = m.tasks /\ k.order = m.order /\ k.receipts = m.receipts /\ k.events = m.events
  BY <1>1, <1>2
<1>4. Ordered(m, Hand) /\ Received(m, Owed) BY <1>1 DEF TasksTold
<1>5. Ordered(k, Hand) /\ Received(k, Owed)
  BY <1>3, <1>4 DEF Ordered, Received, Executed, ActivePlan
<1> QED BY <1>2, <1>5 DEF TasksTold

\* A step that logs no receipt, and leaves the receipts alone.
LEMMA ReceiptsStay ==
  ASSUME TypeOK, ReceiptsTold, Working, Working', mem'.order = mem.order,
         mem'.receipts = mem.receipts, receiptFiles' = receiptFiles,
         pc \notin {"receipt", "audit"}, pc' \notin {"receipt", "audit"},
         \/ audit' = audit
         \/ \E e \in AuditEvent : e.kind = "proposal" /\ audit' = Append(audit, e)
  PROVE  ReceiptsTold'
<1>1. audit \in Seq(AuditEvent) BY DEF TypeOK
<1>2. /\ receiptFiles = mem.receipts
      /\ TasksLogged(audit, mem.receipts, mem.order, Len(mem.order))
  BY DEF ReceiptsTold
<1>3. TasksLogged(audit', mem.receipts, mem.order, Len(mem.order))
  <2>1. CASE audit' = audit BY <1>2, <2>1
  <2>2. ASSUME NEW e \in AuditEvent, e.kind = "proposal", audit' = Append(audit, e)
        PROVE  TasksLogged(audit', mem.receipts, mem.order, Len(mem.order))
    <3>1. e.kind # "task" BY <2>2
    <3> QED BY <1>1, <1>2, <2>2, <3>1, OthersLogged
  <2> QED BY <2>1, <2>2
<1> QED BY <1>2, <1>3 DEF ReceiptsTold

\* A step that logs no proposal, and leaves the proposals alone.
LEMMA ProposalsStay ==
  ASSUME TypeOK, ProposalsTold, Working, Working', mem'.proposals = mem.proposals,
         mem'.consumed = mem.consumed, mem'.events = mem.events, proposalFiles' = proposalFiles,
         pc \notin {"snapshot", "register", "count", "commit"},
         pc' \notin {"snapshot", "register", "count", "commit"},
         \/ audit' = audit
         \/ \E e \in AuditEvent : e.kind = "task" /\ audit' = Append(audit, e)
  PROVE  ProposalsTold'
<1>1. audit \in Seq(AuditEvent) BY DEF TypeOK
<1>2. /\ proposalFiles = Range(mem.proposals) /\ ProposalsLogged(audit, mem.proposals)
      /\ mem.consumed = Len(mem.proposals)
      /\ Counted(mem.proposals, ActivePlan(mem).revision)
  BY DEF ProposalsTold, Filed, Registered
<1>3. ProposalsLogged(audit', mem.proposals)
  <2>1. CASE audit' = audit BY <1>2, <2>1
  <2>2. ASSUME NEW e \in AuditEvent, e.kind = "task", audit' = Append(audit, e)
        PROVE  ProposalsLogged(audit', mem.proposals)
    <3>1. e.kind # "proposal" BY <2>2
    <3> QED BY <1>1, <1>2, <2>2, <3>1, OthersLogged
  <2> QED BY <2>1, <2>2
<1>4. ActivePlan(mem)' = ActivePlan(mem) BY DEF ActivePlan
<1>5. Filed' = mem.proposals /\ Registered' = mem.proposals BY DEF Filed, Registered
<1> QED BY <1>2, <1>3, <1>4, <1>5 DEF ProposalsTold

\* A step at whose end no process works, that writes nothing.
LEMMA NobodyTells ==
  ASSUME Story, pc' \in {"down", "finished"},
         UNCHANGED <<journal, audit, receiptFiles, proposalFiles>>
  PROVE  Story'
BY DEF Story, TasksTold, ReceiptsTold, ProposalsTold, MemoryTold, Working

\* A step of the process that only moves the state in memory and its file.
LEMMA Quiet ==
  ASSUME TypeOK, Story, Working, Working',
         mem'.tasks = mem.tasks, mem'.order = mem.order, mem'.receipts = mem.receipts,
         mem'.events = mem.events, mem'.proposals = mem.proposals, mem'.consumed = mem.consumed,
         mem'.audit = mem.audit, cur' = cur,
         UNCHANGED <<journal, audit, receiptFiles, proposalFiles>>,
         Hand' = Hand, Owed' = Owed,
         pc' \in {"save", "decide"} => pc \in {"save", "decide"},
         pc \notin {"receipt", "audit", "snapshot", "register", "count", "commit"},
         pc' \notin {"receipt", "audit", "snapshot", "register", "count", "commit"},
         mem'.asked => pc' = "asked", pc' \in {"schedule", "propose"} => mem' = saved'
  PROVE  Story'
<1>1. TasksTold' BY TasksStay DEF Story
<1>2. ReceiptsTold' BY ReceiptsStay DEF Story
<1>3. ProposalsTold' BY ProposalsStay DEF Story
<1>4. MemoryTold' BY DEF Story, MemoryTold, Working
<1> QED BY <1>1, <1>2, <1>3, <1>4 DEF Story

\* A first Plan is journalled for a state that has told nothing.
LEMMA StartTells == TypeOK /\ Story /\ Start => Story'
<1> SUFFICES ASSUME TypeOK, Story, Start PROVE Story' OBVIOUS
<1>1. /\ pc' = "activate" /\ staged' = FreshState /\ journal' = <<FirstPlan(InitialTasks)>>
      /\ audit' = <<>> /\ receiptFiles' = {} /\ proposalFiles' = {}
  BY DEF Start, Story, MemoryTold
<1>2. PICK s : s = [FreshState EXCEPT !.events = <<FirstPlan(InitialTasks)>>] OBVIOUS
<1>3. /\ s.events = <<FirstPlan(InitialTasks)>> /\ s.audit = <<>> /\ s.order = <<>>
      /\ s.receipts = {} /\ s.proposals = <<>> /\ s.consumed = 0 /\ ~s.asked
      /\ \A t \in Ids : s.tasks[t].attempts = 0
  BY <1>2 DEF FreshState, NoState, NewRecord
<1>4. ActivePlan(s).revision = 0 BY <1>3 DEF ActivePlan, Last, FirstPlan
<1>5. Executed(s) \ {} = {} BY <1>3 DEF Executed
<1>6. Ordered(s, {}) /\ Received(s, {})
  <2>1. Range(<<>>) = {} /\ Len(<<>>) = 0 BY DEF Range
  <2> QED BY <1>3, <1>5, <2>1, FS_EmptySet DEF Ordered, Received
<1>7. \A kind : Marks(kind, <<>>) = {} /\ RefsOf(kind, <<>>) = {} BY DEF Marks, RefsOf
<1>8. TasksLogged(<<>>, {}, <<>>, 0)
  <2>1. 1..0 = {} OBVIOUS
  <2> QED BY <1>7, <2>1, FS_EmptySet DEF TasksLogged
<1>9. ProposalsLogged(<<>>, <<>>) /\ Range(<<>>) = {}
  BY <1>7, FS_EmptySet DEF ProposalsLogged, Numbered, Range
<1>10. Counted(<<>>, 0)
  <2>1. Validated(<<>>) = {} BY DEF Validated
  <2> QED BY <2>1, FS_EmptySet DEF Counted
<1>11. Whole(s)'
  <2>1. Len(<<>>) = 0 OBVIOUS
  <2> QED BY <1>1, <1>3, <1>4, <1>6, <1>8, <1>9, <1>10, <2>1 DEF Whole
<1>12. [staged' EXCEPT !.events = journal'] = s BY <1>1, <1>2
<1>13. MemoryTold' BY <1>1, <1>11, <1>12 DEF MemoryTold, Working
<1> QED BY <1>1, <1>13 DEF Story, TasksTold, ReceiptsTold, ProposalsTold, Working

\* A Resume goes on from what it has verified.
LEMMA ResumeTells == TypeOK /\ RunInv /\ Story /\ Resume => Story'
<1> SUFFICES ASSUME TypeOK, RunInv, Story, Resume PROVE Story' OBVIOUS
<1>1. /\ Restorable(saved) /\ mem' = saved /\ saved' = saved /\ pc' = "schedule"
      /\ UNCHANGED <<journal, audit, receiptFiles, proposalFiles>>
  BY DEF Resume, files
<1>2. saved \in RunState /\ saved.status # "absent" /\ journal # <<>>
  BY <1>1 DEF TypeOK, Restorable, JournalsAgree
<1>3. Covered(saved.tasks, ActivePlan(saved)) BY <1>2 DEF RunInv, Disk
<1>4. Whole(saved) BY <1>1, <1>2, <1>3, RestorableIs
<1>5. PICK s : s = saved OBVIOUS
<1> QED BY <1>1, <1>2, <1>4, <1>5, SchedulesWhole

\* The switch leads to the state that was prepared.
LEMMA ActivateTells == TypeOK /\ Planning /\ Story /\ Activate => Story'
<1> SUFFICES ASSUME TypeOK, Planning, Story, Activate PROVE Story' OBVIOUS
<1>1. PICK s : s = [staged EXCEPT !.events = journal] OBVIOUS
<1>2. /\ mem' = s /\ saved' = s /\ pc' = "schedule" /\ pc = "activate"
      /\ UNCHANGED <<journal, audit, receiptFiles, proposalFiles>>
  BY <1>1 DEF Activate, Save
<1>3. Whole(s) BY <1>1, <1>2 DEF Story, MemoryTold
<1>4. journal # <<>> BY <1>2 DEF Planning
<1> QED BY <1>2, <1>3, <1>4, SchedulesWhole

\* While the record of one task changes, the others keep their receipts.
LEMMA OthersKeep ==
  ASSUME NEW m, NEW k, NEW t \in Ids, NEW hand, NEW owed,
         k.order = m.order, k.receipts = m.receipts, k.events = m.events,
         \A u \in Ids \ {t} : k.tasks[u] = m.tasks[u],
         Ordered(m, hand), Received(m, owed),
         Executed(m) \ hand = Executed(m) \ {t}, Executed(m) \ owed = Executed(m) \ {t}
  PROVE  Ordered(k, {t}) /\ Received(k, {t})
<1>1. Executed(k) \ {t} = Executed(m) \ {t} BY DEF Executed
<1>2. ASSUME NEW r \in k.receipts
      PROVE  r.record = k.tasks[r.task] /\ r.definition = ActivePlan(k).tasks[r.task]
  <2>1. r.task \in Executed(m) \ {t} BY DEF Received
  <2>2. k.tasks[r.task] = m.tasks[r.task] BY <2>1 DEF Executed
  <2> QED BY <2>2 DEF Received, ActivePlan
<1> QED BY <1>1, <1>2 DEF Ordered, Received

\* The task to be dispatched was never executed.
LEMMA ScheduleTells == TypeOK /\ RunInv /\ Story /\ Schedule => Story'
<1> SUFFICES ASSUME TypeOK, RunInv, Story, Schedule PROVE Story' OBVIOUS
<1>1. CASE Raise BY <1>1, NobodyTells DEF Raise, Down, files
<1>2. CASE ~Raise
  <2>1. PICK t : t = Smallest(Ready) OBVIOUS
  <2>2. t \in Ready /\ t \in Ids BY <1>2, <2>1, SmallestIn DEF Schedule, Ready
  <2>3. /\ cur' = t /\ mem' = WithStatus(mem, t, "running") /\ pc = "schedule" /\ pc' = "dispatch"
        /\ UNCHANGED <<journal, audit, receiptFiles, proposalFiles>>
    BY <1>2, <2>1 DEF Schedule, Save
  <2>4. PICK m : m = mem OBVIOUS
  <2>5. PICK k : k = WithStatus(m, t, "running") OBVIOUS
  <2>6. m \in RunState /\ m.tasks \in [Ids -> TaskRecord] BY <2>4 DEF TypeOK, RunState
  <2>7. /\ k.order = m.order /\ k.receipts = m.receipts /\ k.events = m.events
        /\ k.proposals = m.proposals /\ k.consumed = m.consumed /\ k.audit = m.audit
        /\ k.asked = m.asked /\ \A u \in Ids \ {t} : k.tasks[u] = m.tasks[u]
    BY <2>2, <2>5, <2>6 DEF WithStatus, WithRecord, RunState
  <2>8. m.tasks[t].attempts \in Nat /\ m.tasks[t].status = "pending"
    BY <2>2, <2>4, <2>6 DEF Ready, TaskRecord
  <2>9. t \notin Executed(m)
    <3>1. Started(m.tasks) BY <2>3, <2>4 DEF RunInv, Agree, Disk
    <3> QED BY <2>2, <2>8, <3>1 DEF Started, Executed
  <2>10. Ordered(m, {}) /\ Received(m, {})
    BY <2>3, <2>4 DEF Story, TasksTold, Working, Hand, Owed, AtWork
  <2>11. Ordered(k, {t}) /\ Received(k, {t})
    <3>1. Executed(m) \ {} = Executed(m) \ {t} BY <2>9
    <3> QED BY <2>2, <2>7, <2>10, <3>1, OthersKeep
  <2>12. mem' = k /\ Hand' = {t} /\ Owed' = {t} /\ Working /\ Working'
    BY <2>3, <2>4, <2>5 DEF Hand, Owed, AtWork, Working
  <2>13. TasksTold' BY <2>3, <2>11, <2>12 DEF TasksTold
  <2>14. ReceiptsTold' BY <2>3, <2>4, <2>7, <2>12, ReceiptsStay DEF Story
  <2>15. ProposalsTold' BY <2>3, <2>4, <2>7, <2>12, ProposalsStay DEF Story
  <2>16. MemoryTold' BY <2>3, <2>4, <2>7, <2>12 DEF Story, MemoryTold, Working
  <2> QED BY <2>13, <2>14, <2>15, <2>16 DEF Story
<1> QED BY <1>1, <1>2

\* A repair leaves what was told of the other tasks.
LEMMA RepairTells == TypeOK /\ Story /\ Repair => Story'
<1> SUFFICES ASSUME TypeOK, Story, Repair PROVE Story' OBVIOUS
<1>1. /\ cur' = cur /\ mem' = WithStatus(mem, cur, "running") /\ pc = "decide" /\ pc' = "dispatch"
      /\ UNCHANGED <<journal, audit, receiptFiles, proposalFiles>>
  BY DEF Repair, Save
<1>2. PICK m : m = mem OBVIOUS
<1>3. PICK t \in Ids : t = cur BY DEF TypeOK
<1>4. PICK k : k = WithStatus(m, t, "running") OBVIOUS
<1>5. m \in RunState BY <1>2 DEF TypeOK
<1>6. /\ k.order = m.order /\ k.receipts = m.receipts /\ k.events = m.events
      /\ k.proposals = m.proposals /\ k.consumed = m.consumed /\ k.audit = m.audit
      /\ k.asked = m.asked /\ \A u \in Ids \ {t} : k.tasks[u] = m.tasks[u]
  BY <1>4, <1>5 DEF WithStatus, WithRecord, RunState
<1>7. /\ mem' = k /\ Working /\ Working' /\ Hand = {t} /\ Owed = {t} /\ Hand' = {t} /\ Owed' = {t}
  BY <1>1, <1>2, <1>3, <1>4 DEF Hand, Owed, AtWork, Working
<1>8. Ordered(m, {t}) /\ Received(m, {t}) BY <1>2, <1>7 DEF Story, TasksTold
<1>9. Ordered(k, {t}) /\ Received(k, {t}) BY <1>6, <1>8, OthersKeep
<1>10. TasksTold' BY <1>1, <1>7, <1>9 DEF TasksTold
<1>11. ReceiptsTold' BY <1>1, <1>2, <1>6, <1>7, ReceiptsStay DEF Story
<1>12. ProposalsTold' BY <1>1, <1>2, <1>6, <1>7, ProposalsStay DEF Story
<1>13. MemoryTold' BY <1>1, <1>2, <1>6, <1>7 DEF Story, MemoryTold, Working
<1> QED BY <1>10, <1>11, <1>12, <1>13 DEF Story

\* The result of an attempt is the record of the task in hand.
LEMMA CollectTells == TypeOK /\ Story /\ Collect => Story'
<1> SUFFICES ASSUME TypeOK, Story, Collect PROVE Story' OBVIOUS
<1>1. PICK r : /\ r = [status   |-> IF outcome = "verified" THEN "verified" ELSE "blocked",
                       attempts |-> mem.tasks[cur].attempts + 1,
                       plan     |-> ActivePlan(mem).revision,
                       revision |-> project]
               /\ mem' = WithRecord(mem, cur, r)
  BY DEF Collect
<1>2. /\ cur' = cur /\ pc = "collect" /\ pc' = "save"
      /\ UNCHANGED <<journal, audit, receiptFiles, proposalFiles>>
  BY DEF Collect, files
<1>3. PICK m : m = mem OBVIOUS
<1>4. PICK t \in Ids : t = cur BY DEF TypeOK
<1>5. PICK k : k = WithRecord(m, t, r) OBVIOUS
<1>6. m \in RunState /\ m.tasks \in [Ids -> TaskRecord] BY <1>3 DEF TypeOK, RunState
<1>7. /\ k.order = m.order /\ k.receipts = m.receipts /\ k.events = m.events
      /\ k.proposals = m.proposals /\ k.consumed = m.consumed /\ k.audit = m.audit
      /\ k.asked = m.asked /\ \A u \in Ids \ {t} : k.tasks[u] = m.tasks[u]
      /\ k.tasks[t] = r
  BY <1>5, <1>6 DEF WithRecord, RunState
<1>8. m.tasks[t].attempts \in Nat BY <1>6 DEF TaskRecord
<1>9. k.tasks[t].attempts > 0 BY <1>1, <1>3, <1>4, <1>7, <1>8
<1>10. /\ mem' = k /\ Working /\ Working' /\ Hand = {t} /\ Owed = {t} /\ Hand' = {t} /\ Owed' = {t}
  BY <1>1, <1>2, <1>3, <1>4, <1>5 DEF Hand, Owed, AtWork, Working
<1>11. Ordered(m, {t}) /\ Received(m, {t}) BY <1>3, <1>10 DEF Story, TasksTold
<1>12. Ordered(k, {t}) /\ Received(k, {t}) BY <1>7, <1>11, OthersKeep
<1>13. TasksTold' BY <1>2, <1>4, <1>9, <1>10, <1>12 DEF TasksTold
<1>14. ReceiptsTold' BY <1>2, <1>3, <1>7, <1>10, ReceiptsStay DEF Story
<1>15. ProposalsTold' BY <1>2, <1>3, <1>7, <1>10, ProposalsStay DEF Story
<1>16. MemoryTold' BY <1>2, <1>3, <1>7, <1>10 DEF Story, MemoryTold, Working
<1> QED BY <1>13, <1>14, <1>15, <1>16 DEF Story

\* Steps that move nothing that is told.
LEMMA QuietTells ==
  TypeOK /\ Story /\ (Launch \/ Decline \/ SaveResult \/ SaveBoundary \/ Propose \/ AnswerNothing)
    => Story'
<1> SUFFICES ASSUME TypeOK, Story,
                    Launch \/ Decline \/ SaveResult \/ SaveBoundary \/ Propose \/ AnswerNothing
             PROVE  Story'
  OBVIOUS
<1> USE DEF files, world, locals
<1>0. mem \in RunState BY DEF TypeOK
<1>1. CASE Launch
  <2>1. CASE Raise BY <2>1, NobodyTells DEF Raise, Down
  <2>2. CASE ~Raise
    <3>1. /\ pc = "dispatch" /\ pc' = "collect" /\ mem' = mem /\ cur' = cur
          /\ UNCHANGED <<journal, audit, receiptFiles, proposalFiles>>
      BY <1>1, <2>2 DEF Launch
    <3>2. Hand' = Hand /\ Owed' = Owed /\ Working /\ Working' /\ ~mem.asked
      BY <3>1 DEF Hand, Owed, AtWork, Working, Story, MemoryTold
    <3> QED BY <3>1, <3>2, Quiet
  <2> QED BY <2>1, <2>2
<1>2. CASE Decline
  <2>1. /\ pc = "dispatch" /\ pc' = "collect" /\ mem' = mem /\ cur' = cur
        /\ UNCHANGED <<journal, audit, receiptFiles, proposalFiles>>
    BY <1>2 DEF Decline
  <2>2. Hand' = Hand /\ Owed' = Owed /\ Working /\ Working' /\ ~mem.asked
    BY <2>1 DEF Hand, Owed, AtWork, Working, Story, MemoryTold
  <2> QED BY <2>1, <2>2, Quiet
<1>3. CASE SaveResult
  <2>1. /\ pc = "save" /\ pc' = "decide" /\ mem' = [mem EXCEPT !.revision = project] /\ cur' = cur
        /\ UNCHANGED <<journal, audit, receiptFiles, proposalFiles>>
    BY <1>3 DEF SaveResult, Save
  <2>2. Hand' = Hand /\ Owed' = Owed /\ Working /\ Working' /\ ~mem.asked
    BY <2>1 DEF Hand, Owed, AtWork, Working, Story, MemoryTold
  <2>3. /\ mem'.tasks = mem.tasks /\ mem'.order = mem.order /\ mem'.receipts = mem.receipts
        /\ mem'.events = mem.events /\ mem'.proposals = mem.proposals
        /\ mem'.consumed = mem.consumed /\ mem'.audit = mem.audit /\ mem'.asked = mem.asked
    BY <1>0, <2>1 DEF RunState
  <2> QED BY <2>1, <2>2, <2>3, Quiet
<1>4. CASE SaveBoundary
  <2>1. /\ pc = "boundary" /\ pc' = "propose" /\ mem' = mem /\ saved' = mem /\ cur' = cur
        /\ UNCHANGED <<journal, audit, receiptFiles, proposalFiles>>
    BY <1>4 DEF SaveBoundary, Save
  <2>2. Hand' = Hand /\ Owed' = Owed /\ Working /\ Working' /\ ~mem.asked
    BY <2>1 DEF Hand, Owed, AtWork, Working, Story, MemoryTold
  <2> QED BY <2>1, <2>2, Quiet
<1>5. CASE Propose
  <2>1. CASE pc' = "schedule"
    <3>1. /\ pc = "propose" /\ mem' = mem /\ saved' = saved /\ cur' = cur
          /\ UNCHANGED <<journal, audit, receiptFiles, proposalFiles>>
      BY <1>5, <2>1 DEF Propose
    <3>2. Hand' = Hand /\ Owed' = Owed /\ Working /\ Working' /\ ~mem.asked /\ mem = saved
      BY <2>1, <3>1 DEF Hand, Owed, AtWork, Working, Story, MemoryTold
    <3> QED BY <2>1, <3>1, <3>2, Quiet
  <2>2. CASE pc' # "schedule"
    <3>1. /\ pc = "propose" /\ pc' = "asked" /\ mem' = [mem EXCEPT !.asked = TRUE] /\ cur' = cur
          /\ UNCHANGED <<journal, audit, receiptFiles, proposalFiles>>
      BY <1>5, <2>2 DEF Propose, Save
    <3>2. Hand' = Hand /\ Owed' = Owed /\ Working /\ Working'
      BY <3>1 DEF Hand, Owed, AtWork, Working
    <3>3. /\ mem'.tasks = mem.tasks /\ mem'.order = mem.order /\ mem'.receipts = mem.receipts
          /\ mem'.events = mem.events /\ mem'.proposals = mem.proposals
          /\ mem'.consumed = mem.consumed /\ mem'.audit = mem.audit
      BY <1>0, <3>1 DEF RunState
    <3> QED BY <3>1, <3>2, <3>3, Quiet
  <2> QED BY <2>1, <2>2
<1>6. CASE AnswerNothing
  <2>1. /\ pc = "asked" /\ pc' = "schedule" /\ mem' = [mem EXCEPT !.asked = FALSE]
        /\ saved' = mem' /\ cur' = cur
        /\ UNCHANGED <<journal, audit, receiptFiles, proposalFiles>>
    BY <1>6 DEF AnswerNothing, Save
  <2>2. Hand' = Hand /\ Owed' = Owed /\ Working /\ Working'
    BY <2>1 DEF Hand, Owed, AtWork, Working
  <2>3. /\ mem'.tasks = mem.tasks /\ mem'.order = mem.order /\ mem'.receipts = mem.receipts
        /\ mem'.events = mem.events /\ mem'.proposals = mem.proposals
        /\ mem'.consumed = mem.consumed /\ mem'.audit = mem.audit /\ ~mem'.asked
    BY <1>0, <2>1 DEF RunState
  <2> QED BY <2>1, <2>2, <2>3, Quiet
<1> QED BY <1>1, <1>2, <1>3, <1>4, <1>5, <1>6

\* A settled task is the next of the order, and its receipt is owed.
LEMMA SettleTells == TypeOK /\ Story /\ Settle => Story'
<1> SUFFICES ASSUME TypeOK, Story, Settle PROVE Story' OBVIOUS
<1>1. /\ cur' = cur /\ mem' = [mem EXCEPT !.order = Append(mem.order, cur)]
      /\ pc = "decide" /\ pc' = "receipt"
      /\ UNCHANGED <<journal, audit, receiptFiles, proposalFiles>>
  BY DEF Settle, Save
<1>2. PICK m : m = mem OBVIOUS
<1>3. PICK t \in Ids : t = cur BY DEF TypeOK
<1>4. PICK k : k = [m EXCEPT !.order = Append(m.order, t)] OBVIOUS
<1>5. m \in RunState /\ m.order \in Seq(Ids) BY <1>2 DEF TypeOK, RunState
<1>6. /\ k.order = Append(m.order, t) /\ k.receipts = m.receipts /\ k.events = m.events
      /\ k.proposals = m.proposals /\ k.consumed = m.consumed /\ k.audit = m.audit
      /\ k.asked = m.asked /\ k.tasks = m.tasks
  BY <1>4, <1>5 DEF RunState
<1>7. /\ mem' = k /\ Working /\ Working' /\ Hand = {t} /\ Owed = {t} /\ Hand' = {} /\ Owed' = {t}
  BY <1>1, <1>2, <1>3, <1>4 DEF Hand, Owed, AtWork, Working
<1>8. Ordered(m, {t}) /\ Received(m, {t}) /\ t \in Executed(m)
  BY <1>1, <1>2, <1>3, <1>7 DEF Story, TasksTold, Executed
<1>9. Ordered(k, {})
  <2>1. Executed(k) \ {} = (Executed(m) \ {t}) \union {t} BY <1>6, <1>8 DEF Executed
  <2>2. Range(k.order) = Range(m.order) \union {t} BY <1>5, <1>6, RangeAppended
  <2>3. Len(k.order) = Len(m.order) + 1 BY <1>5, <1>6
  <2>4. /\ IsFiniteSet((Executed(m) \ {t}) \union {t})
        /\ Cardinality((Executed(m) \ {t}) \union {t}) = Cardinality(Executed(m) \ {t}) + 1
    BY <1>8, FS_AddElement DEF Ordered
  <2> QED BY <1>8, <2>1, <2>2, <2>3, <2>4 DEF Ordered
<1>10. Received(k, {t}) BY <1>6, <1>8 DEF Received, Executed, ActivePlan
<1>11. Len(m.order) \in Nat /\ Len(k.order) = Len(m.order) + 1 /\ k.order[Len(m.order) + 1] = t
       /\ \A i \in 1..Len(m.order) : k.order[i] = m.order[i]
  BY <1>5, <1>6, AppendedAt
<1>12. TasksTold'
  <2>1. Len(k.order) > 0 /\ k.order[Len(k.order)] = t /\ k.tasks[t].attempts > 0
    BY <1>6, <1>8, <1>11 DEF Executed
  <2> QED BY <1>1, <1>3, <1>7, <1>9, <1>10, <2>1 DEF TasksTold
<1>13. ReceiptsTold'
  <2>1. receiptFiles = m.receipts /\ TasksLogged(audit, m.receipts, m.order, Len(m.order))
    BY <1>1, <1>2, <1>7 DEF Story, ReceiptsTold
  <2>2. TasksLogged(audit, m.receipts, k.order, Len(m.order))
    <3>1. {<<i, k.order[i]>> : i \in 1..Len(m.order)} = {<<i, m.order[i]>> : i \in 1..Len(m.order)}
      BY <1>11
    <3> QED BY <2>1, <3>1 DEF TasksLogged
  <2>3. Len(k.order) - 1 = Len(m.order) BY <1>11
  <2> QED BY <1>1, <1>6, <1>7, <2>1, <2>2, <2>3 DEF ReceiptsTold
<1>14. ProposalsTold' BY <1>1, <1>2, <1>6, <1>7, ProposalsStay DEF Story
<1>15. MemoryTold' BY <1>1, <1>2, <1>6, <1>7 DEF Story, MemoryTold, Working
<1> QED BY <1>12, <1>13, <1>14, <1>15 DEF Story

\* The receipt is on disk before the log says so.
LEMMA WriteTells == TypeOK /\ Planning /\ Journalled /\ Story /\ WriteReceipt => Story'
<1> SUFFICES ASSUME TypeOK, Planning, Journalled, Story, WriteReceipt PROVE Story' OBVIOUS
<1>1. /\ cur' = cur /\ mem' = mem /\ pc = "receipt" /\ pc' = "audit" /\ saved' = saved
      /\ receiptFiles' = receiptFiles \union {CurrentReceipt}
      /\ UNCHANGED <<journal, audit, proposalFiles>>
  BY DEF WriteReceipt, locals
<1>2. Working /\ Working' /\ Hand' = Hand /\ Owed' = Owed
  BY <1>1 DEF Hand, Owed, AtWork, Working
<1>3. journal # <<>> BY <1>1 DEF Planning, Journalled
<1>4. TasksTold' BY <1>1, <1>2, TasksStay DEF Story
<1>5. ReceiptsTold'
  <2>1. CurrentReceipt' = CurrentReceipt BY <1>1 DEF CurrentReceipt, ActivePlan
  <2> QED BY <1>1, <1>2, <2>1 DEF Story, ReceiptsTold
<1>6. ProposalsTold' BY <1>1, <1>2, ProposalsStay DEF Story
<1>7. MemoryTold' BY <1>1, <1>2, <1>3 DEF Story, MemoryTold, Working
<1> QED BY <1>4, <1>5, <1>6, <1>7 DEF Story

\* The log and the memory take the receipt together.
LEMMA AuditTells == TypeOK /\ Planning /\ Journalled /\ Story /\ AuditReceipt => Story'
<1> SUFFICES ASSUME TypeOK, Planning, Journalled, Story, AuditReceipt PROVE Story' OBVIOUS
<1>1. PICK c : c = CurrentReceipt OBVIOUS
<1>2. PICK e : e = [kind |-> "task", ref |-> c] OBVIOUS
<1>3. /\ cur' = cur /\ pc = "audit" /\ pc' = "boundary" /\ saved' = saved
      /\ audit' = Append(audit, e)
      /\ mem' = [mem EXCEPT !.audit = Append(mem.audit, e), !.receipts = mem.receipts \union {c}]
      /\ UNCHANGED <<journal, receiptFiles, proposalFiles>>
  BY <1>1, <1>2 DEF AuditReceipt
<1>4. mem.events # <<>> /\ journal # <<>> BY <1>3 DEF Planning, Journalled
<1>5. c \in TaskReceipt /\ e \in AuditEvent /\ e.kind = "task" /\ e.ref = c
  BY <1>1, <1>2, <1>4, ReceiptTyped DEF AuditEvent
<1>6. PICK m : m = mem OBVIOUS
<1>7. PICK t \in Ids : t = cur BY DEF TypeOK
<1>8. PICK k : k = [m EXCEPT !.audit = Append(m.audit, e), !.receipts = m.receipts \union {c}]
  OBVIOUS
<1>9. m \in RunState /\ m.order \in Seq(Ids) /\ audit \in Seq(AuditEvent)
  BY <1>6 DEF TypeOK, RunState
<1>10. /\ k.order = m.order /\ k.receipts = m.receipts \union {c} /\ k.events = m.events
       /\ k.proposals = m.proposals /\ k.consumed = m.consumed /\ k.audit = Append(m.audit, e)
       /\ k.asked = m.asked /\ k.tasks = m.tasks
  BY <1>8, <1>9 DEF RunState
<1>11. /\ mem' = k /\ Working /\ Working' /\ Hand = {} /\ Owed = {t} /\ Hand' = {} /\ Owed' = {}
  BY <1>3, <1>6, <1>7, <1>8 DEF Hand, Owed, AtWork, Working
<1>12. /\ Ordered(m, {}) /\ Received(m, {t}) /\ t \in Executed(m)
       /\ Len(m.order) > 0 /\ m.order[Len(m.order)] = t
  BY <1>3, <1>6, <1>7, <1>11 DEF Story, TasksTold, Executed
<1>13. c.task = t /\ c.record = m.tasks[t] /\ c.definition = ActivePlan(m).tasks[t]
  BY <1>1, <1>6, <1>7 DEF CurrentReceipt
<1>14. ActivePlan(k) = ActivePlan(m) /\ Executed(k) = Executed(m)
  BY <1>10 DEF ActivePlan, Executed
<1>15. Ordered(k, {}) BY <1>10, <1>12, <1>14 DEF Ordered
<1>16. Received(k, {})
  <2>1. {r.task : r \in k.receipts} = {r.task : r \in m.receipts} \union {t} BY <1>10, <1>13
  <2>2. {r.task : r \in k.receipts} = Executed(k) \ {} BY <1>12, <1>14, <2>1 DEF Received
  <2>3. \A r \in k.receipts :
          r.record = k.tasks[r.task] /\ r.definition = ActivePlan(k).tasks[r.task]
    BY <1>10, <1>12, <1>13, <1>14 DEF Received
  <2> QED BY <2>2, <2>3 DEF Received
<1>17. TasksTold' BY <1>3, <1>11, <1>15, <1>16 DEF TasksTold
<1>18. ReceiptsTold'
  <2>1. /\ receiptFiles = m.receipts \union {c}
        /\ TasksLogged(audit, m.receipts, m.order, Len(m.order) - 1)
    BY <1>1, <1>3, <1>6, <1>11 DEF Story, ReceiptsTold
  <2>2. PICK n \in Nat : n = Len(m.order) - 1 /\ n + 1 = Len(m.order)
    <3>1. PICK l : l = Len(m.order) OBVIOUS
    <3>2. l \in Nat /\ l > 0 BY <1>9, <1>12, <3>1
    <3>3. l - 1 \in Nat /\ (l - 1) + 1 = l BY <3>2
    <3> QED BY <3>1, <3>3
  <2>3. TasksLogged(Append(audit, e), m.receipts \union {c}, m.order, n + 1)
    BY <1>5, <1>9, <1>12, <1>13, <2>1, <2>2, TaskLogged
  <2> QED BY <1>3, <1>10, <1>11, <2>1, <2>2, <2>3 DEF ReceiptsTold
<1>19. ProposalsTold' BY <1>3, <1>5, <1>6, <1>10, <1>11, ProposalsStay DEF Story
<1>20. MemoryTold' BY <1>3, <1>4, <1>6, <1>10, <1>11 DEF Story, MemoryTold, Working
<1> QED BY <1>17, <1>18, <1>19, <1>20 DEF Story

\* A proposal bears the number of those counted before it.
LEMMA AnswerTells == TypeOK /\ Planning /\ Journalled /\ Story /\ AnswerPlan => Story'
<1> SUFFICES ASSUME TypeOK, Planning, Journalled, Story, AnswerPlan PROVE Story' OBVIOUS
<1>1. /\ cur' = cur /\ pc = "asked" /\ pc' = "snapshot" /\ mem' = [mem EXCEPT !.asked = FALSE]
      /\ answer'.sequence = mem.consumed
      /\ UNCHANGED <<journal, audit, receiptFiles, proposalFiles>>
  BY DEF AnswerPlan, files
<1>2. mem \in RunState BY DEF TypeOK
<1>3. /\ mem'.tasks = mem.tasks /\ mem'.order = mem.order /\ mem'.receipts = mem.receipts
      /\ mem'.events = mem.events /\ mem'.proposals = mem.proposals
      /\ mem'.consumed = mem.consumed /\ mem'.audit = mem.audit /\ ~mem'.asked
  BY <1>1, <1>2 DEF RunState
<1>4. /\ Hand' = Hand /\ Owed' = Owed /\ Working /\ Working'
      /\ Filed = mem.proposals /\ Filed' = mem.proposals
      /\ Registered = mem.proposals /\ Registered' = mem.proposals
  BY <1>1, <1>3 DEF Hand, Owed, AtWork, Working, Filed, Registered
<1>5. TasksTold' BY <1>1, <1>3, <1>4, TasksStay DEF Story
<1>6. ReceiptsTold' BY <1>1, <1>3, <1>4, ReceiptsStay DEF Story
<1>7. ProposalsTold'
  <2>1. ActivePlan(mem)' = ActivePlan(mem) BY <1>3 DEF ActivePlan
  <2> QED BY <1>1, <1>3, <1>4, <2>1 DEF Story, ProposalsTold
<1>8. MemoryTold' BY <1>1, <1>3, <1>4 DEF Story, MemoryTold, Working
<1> QED BY <1>5, <1>6, <1>7, <1>8 DEF Story

\* The proposal is on disk before the log says so.
LEMMA FileTells == TypeOK /\ Planning /\ Journalled /\ Story /\ WriteProposal => Story'
<1> SUFFICES ASSUME TypeOK, Planning, Journalled, Story, WriteProposal PROVE Story' OBVIOUS
<1>1. /\ cur' = cur /\ mem' = mem /\ answer' = answer /\ saved' = saved
      /\ pc = "snapshot" /\ pc' = "register"
      /\ proposalFiles' = proposalFiles \union {answer}
      /\ UNCHANGED <<journal, audit, receiptFiles>>
  BY DEF WriteProposal, locals
<1>2. /\ Hand' = Hand /\ Owed' = Owed /\ Working /\ Working'
      /\ Filed = mem.proposals /\ Filed' = Append(mem.proposals, answer)
      /\ Registered = mem.proposals /\ Registered' = mem.proposals
  BY <1>1 DEF Hand, Owed, AtWork, Working, Filed, Registered
<1>3. journal # <<>> BY <1>1 DEF Planning, Journalled
<1>4. TasksTold' BY <1>1, <1>2, TasksStay DEF Story
<1>5. ReceiptsTold' BY <1>1, <1>2, ReceiptsStay DEF Story
<1>6. ProposalsTold'
  <2>1. ActivePlan(mem)' = ActivePlan(mem) BY <1>1
  <2>2. mem.proposals \in Seq(ProposalReceipt) /\ answer \in ProposalReceipt
    BY DEF TypeOK, RunState
  <2>3. Range(Append(mem.proposals, answer)) = Range(mem.proposals) \union {answer}
    BY <2>2, RangeAppended
  <2> QED BY <1>1, <1>2, <2>1, <2>3 DEF Story, ProposalsTold
<1>7. MemoryTold' BY <1>1, <1>2, <1>3 DEF Story, MemoryTold, Working
<1> QED BY <1>4, <1>5, <1>6, <1>7 DEF Story

\* The log and the memory's copy of it take the proposal together.
LEMMA RegisterTells == TypeOK /\ Planning /\ Journalled /\ Story /\ AuditProposal => Story'
<1> SUFFICES ASSUME TypeOK, Planning, Journalled, Story, AuditProposal PROVE Story' OBVIOUS
<1>1. PICK e : e = [kind |-> "proposal", ref |-> answer] OBVIOUS
<1>2. /\ cur' = cur /\ answer' = answer /\ saved' = saved /\ pc = "register" /\ pc' = "count"
      /\ audit' = Append(audit, e) /\ mem' = [mem EXCEPT !.audit = Append(mem.audit, e)]
      /\ UNCHANGED <<journal, receiptFiles, proposalFiles>>
  BY <1>1 DEF AuditProposal
<1>3. /\ answer \in ProposalReceipt /\ e \in AuditEvent /\ e.kind = "proposal" /\ e.ref = answer
      /\ mem \in RunState /\ mem.proposals \in Seq(ProposalReceipt) /\ audit \in Seq(AuditEvent)
  BY <1>1 DEF TypeOK, AuditEvent, RunState
<1>4. /\ mem'.tasks = mem.tasks /\ mem'.order = mem.order /\ mem'.receipts = mem.receipts
      /\ mem'.events = mem.events /\ mem'.proposals = mem.proposals
      /\ mem'.consumed = mem.consumed /\ mem'.audit = Append(mem.audit, e)
      /\ mem'.asked = mem.asked
  BY <1>2, <1>3 DEF RunState
<1>5. /\ Hand' = Hand /\ Owed' = Owed /\ Working /\ Working'
      /\ Filed = Append(mem.proposals, answer) /\ Filed' = Append(mem.proposals, answer)
      /\ Registered = mem.proposals /\ Registered' = Append(mem.proposals, answer)
  BY <1>2, <1>4 DEF Hand, Owed, AtWork, Working, Filed, Registered
<1>6. journal # <<>> BY <1>2 DEF Planning, Journalled
<1>7. TasksTold' BY <1>2, <1>4, <1>5, TasksStay DEF Story
<1>8. ReceiptsTold' BY <1>2, <1>3, <1>4, <1>5, ReceiptsStay DEF Story
<1>9. ProposalsTold'
  <2>1. ActivePlan(mem)' = ActivePlan(mem) BY <1>4 DEF ActivePlan
  <2>2. ProposalsLogged(audit, mem.proposals) BY <1>5 DEF Story, ProposalsTold
  <2>3. ProposalsLogged(audit', Append(mem.proposals, answer))
    BY <1>2, <1>3, <2>2, ProposalLogged
  <2> QED BY <1>2, <1>4, <1>5, <2>1, <2>3 DEF Story, ProposalsTold
<1>10. MemoryTold' BY <1>2, <1>4, <1>5, <1>6 DEF Story, MemoryTold, Working
<1> QED BY <1>7, <1>8, <1>9, <1>10 DEF Story

\* A counted proposal is a whole one: a rejected one changes nothing else.
LEMMA CountTells == TypeOK /\ Planning /\ Journalled /\ Story /\ CountProposal => Story'
<1> SUFFICES ASSUME TypeOK, Planning, Journalled, Story, CountProposal PROVE Story' OBVIOUS
<1>1. /\ cur' = cur /\ answer' = answer /\ pc = "count" /\ saved' = mem'
      /\ pc' = (IF answer.valid THEN "commit" ELSE "schedule")
      /\ mem' = [mem EXCEPT !.proposals = Append(mem.proposals, answer),
                            !.consumed = answer.sequence + 1]
      /\ UNCHANGED <<journal, audit, receiptFiles, proposalFiles>>
  BY DEF CountProposal, Save
<1>2. PICK refs : refs = Append(mem.proposals, answer) OBVIOUS
<1>3. /\ answer \in ProposalReceipt /\ answer.valid \in BOOLEAN /\ answer.sequence \in Nat
      /\ mem \in RunState /\ mem.proposals \in Seq(ProposalReceipt)
  BY DEF TypeOK, RunState, ProposalReceipt
<1>4. /\ mem'.tasks = mem.tasks /\ mem'.order = mem.order /\ mem'.receipts = mem.receipts
      /\ mem'.events = mem.events /\ mem'.proposals = refs
      /\ mem'.consumed = answer.sequence + 1 /\ mem'.audit = mem.audit
      /\ mem'.asked = mem.asked
  BY <1>1, <1>2, <1>3 DEF RunState
<1>5. /\ Hand' = Hand /\ Owed' = Owed /\ Working /\ Working'
      /\ Filed = refs /\ Filed' = refs /\ Registered = refs /\ Registered' = refs
  BY <1>1, <1>2, <1>4 DEF Hand, Owed, AtWork, Working, Filed, Registered
<1>6. pc' \in {"commit", "schedule"} /\ journal # <<>>
  BY <1>1, <1>3 DEF Planning, Journalled
<1>7. TasksTold' BY <1>1, <1>4, <1>5, <1>6, TasksStay DEF Story
<1>8. ReceiptsTold' BY <1>1, <1>4, <1>5, <1>6, ReceiptsStay DEF Story
<1>9. ProposalsTold'
  <2>1. ActivePlan(mem)' = ActivePlan(mem) BY <1>4 DEF ActivePlan
  <2>2. /\ proposalFiles = Range(refs) /\ ProposalsLogged(audit, refs)
        /\ answer.sequence = mem.consumed /\ mem.consumed = Len(mem.proposals)
        /\ Counted(mem.proposals, ActivePlan(mem).revision)
    BY <1>1, <1>5 DEF Story, ProposalsTold
  <2>3. ActivePlan(mem).revision \in Nat
    <3>1. mem.events \in Seq(Plan) /\ mem.events # <<>> BY <1>1, <1>3 DEF RunState, Planning
    <3>2. ActivePlan(mem) \in Plan BY <3>1, LastIn DEF ActivePlan
    <3> QED BY <3>2 DEF Plan
  <2>4. Counted(refs, IF answer.valid THEN ActivePlan(mem).revision + 1
                                      ELSE ActivePlan(mem).revision)
    BY <1>2, <1>3, <2>2, <2>3, CountedMore
  <2>5. Len(refs) = Len(mem.proposals) + 1 BY <1>2, <1>3, AppendedAt
  <2>6. mem'.consumed = Len(refs) BY <1>4, <2>2, <2>5
  <2>7. pc' \notin {"snapshot", "register", "count"} BY <1>6
  <2>8. (pc' = "commit") <=> answer.valid BY <1>1
  <2>9. PICK was : was = ActivePlan(mem).revision OBVIOUS
  <2>10. PICK n : n = (IF answer.valid THEN was + 1 ELSE was) OBVIOUS
  <2>11. ActivePlan(mem)'.revision = was BY <2>1, <2>9
  <2>12. n = IF pc' = "commit" THEN ActivePlan(mem)'.revision + 1 ELSE ActivePlan(mem)'.revision
    BY <1>1, <2>8, <2>10, <2>11
  <2>13. Counted(refs, n) BY <2>4, <2>9, <2>10
  <2>14. proposalFiles' = proposalFiles /\ audit' = audit BY <1>1
  <2> QED BY <1>4, <1>5, <2>2, <2>6, <2>7, <2>12, <2>13, <2>14 DEF ProposalsTold
<1>10. MemoryTold' BY <1>1, <1>4, <1>5, <1>6 DEF Story, MemoryTold, Working
<1> QED BY <1>7, <1>8, <1>9, <1>10 DEF Story

\* The state prepared for a new Plan is whole once that Plan is journalled: nothing that
\* was executed is replanned, and the Plan is one revision further.
LEMMA CommitTells == TypeOK /\ Planning /\ RunInv /\ Journalled /\ Story /\ Commit => Story'
<1> SUFFICES ASSUME TypeOK, Planning, RunInv, Journalled, Story, Commit PROVE Story' OBVIOUS
<1>1. PICK plan : plan = ActivePlan(mem) OBVIOUS
<1>2. PICK next : next = Revised(plan, answer.tasks) OBVIOUS
<1>3. PICK m : m = mem OBVIOUS
<1>4. PICK s : s = [Switched(answer.tasks) EXCEPT !.events = Append(journal, next)] OBVIOUS
<1>5. /\ pc = "commit" /\ pc' = "activate" /\ staged' = Switched(answer.tasks)
      /\ journal' = Append(journal, next)
      /\ audit' = audit /\ receiptFiles' = receiptFiles /\ proposalFiles' = proposalFiles
  BY <1>1, <1>2 DEF Commit
<1>6. /\ m \in RunState /\ m.tasks \in [Ids -> TaskRecord] /\ plan \in Plan
      /\ plan.revision \in Nat /\ answer.tasks \in TaskMap /\ journal \in Seq(Plan)
  <2>1. mem \in RunState /\ mem.events \in Seq(Plan) /\ mem.events # <<>>
    BY <1>5 DEF TypeOK, RunState, Planning
  <2>2. plan \in Plan BY <1>1, <2>1, LastIn DEF ActivePlan
  <2> QED BY <1>3, <2>1, <2>2 DEF TypeOK, RunState, Plan, ProposalReceipt
<1>7. /\ next \in Plan /\ next.tasks = answer.tasks /\ next.revision = plan.revision + 1
  BY <1>2, <1>6, RevisedTyped DEF Revised
<1>8. /\ s.events = Append(journal, next) /\ s.audit = m.audit /\ s.order = m.order
      /\ s.receipts = m.receipts /\ s.proposals = m.proposals /\ s.consumed = m.consumed
      /\ s.asked = m.asked
      /\ \A t \in Ids : s.tasks[t] = IF t \notin Planned(answer.tasks) THEN NewRecord("absent")
                                     ELSE IF m.tasks[t].status = "absent" THEN NewRecord("pending")
                                     ELSE m.tasks[t]
  BY <1>3, <1>4, <1>6 DEF Switched, RunState
<1>9. ActivePlan(s) = next BY <1>6, <1>7, <1>8, LastAppended DEF ActivePlan
<1>10. /\ KeepsStarted(plan, [t \in Ids |-> m.tasks[t].status], answer.tasks)
       /\ Started(m.tasks) /\ Covered(m.tasks, plan)
  BY <1>1, <1>3, <1>5 DEF RunInv, Verdict, Agree, Disk, ActivePlan
<1>11. ASSUME NEW t \in Executed(m)
       PROVE  t \in Ids /\ s.tasks[t] = m.tasks[t] /\ next.tasks[t] = plan.tasks[t]
  <2>1. t \in Ids /\ m.tasks[t].status \in {"running", "verified", "blocked"}
    BY <1>10 DEF Started, Executed
  <2>2. t \in Planned(plan.tasks) BY <1>10, <2>1 DEF Covered
  <2>3. answer.tasks[t] = plan.tasks[t] BY <1>10, <2>1, <2>2 DEF KeepsStarted
  <2>4. t \in Planned(answer.tasks) BY <2>2, <2>3 DEF Planned
  <2> QED BY <1>7, <1>8, <2>1, <2>3, <2>4
<1>12. Executed(s) = Executed(m)
  <2>1. \A t \in Ids : m.tasks[t].attempts \in Nat BY <1>6 DEF TaskRecord
  <2>2. NewRecord("absent").attempts = 0 /\ NewRecord("pending").attempts = 0 BY DEF NewRecord
  <2>3. \A t \in Ids : s.tasks[t].attempts > 0 => m.tasks[t].attempts > 0 BY <1>8, <2>1, <2>2
  <2>4. \A t \in Executed(m) : s.tasks[t].attempts > 0 BY <1>11 DEF Executed
  <2> QED BY <2>3, <2>4 DEF Executed
<1>13. /\ Hand = {} /\ Owed = {} /\ Working /\ Filed = m.proposals /\ Registered = m.proposals
  BY <1>3, <1>5 DEF Hand, Owed, AtWork, Working, Filed, Registered
<1>14. Ordered(m, {}) /\ Received(m, {}) BY <1>3, <1>13 DEF Story, TasksTold
<1>15. Ordered(s, {}) BY <1>8, <1>12, <1>14 DEF Ordered
<1>16. Received(s, {})
  <2>1. {r.task : r \in s.receipts} = Executed(s) \ {} BY <1>8, <1>12, <1>14 DEF Received
  <2>2. ASSUME NEW r \in s.receipts
        PROVE  r.record = s.tasks[r.task] /\ r.definition = ActivePlan(s).tasks[r.task]
    <3>1. r.task \in Executed(m) BY <1>8, <1>14, <2>2 DEF Received
    <3>2. r.record = m.tasks[r.task] /\ r.definition = plan.tasks[r.task]
      BY <1>1, <1>3, <1>8, <1>14, <2>2 DEF Received
    <3> QED BY <1>9, <1>11, <3>1, <3>2
  <2> QED BY <2>1, <2>2 DEF Received
<1>17. /\ receiptFiles = m.receipts /\ TasksLogged(audit, m.receipts, m.order, Len(m.order))
  BY <1>3, <1>5, <1>13 DEF Story, ReceiptsTold
<1>18. /\ proposalFiles = Range(m.proposals) /\ ProposalsLogged(audit, m.proposals)
       /\ m.consumed = Len(m.proposals) /\ Counted(m.proposals, next.revision)
  BY <1>1, <1>3, <1>5, <1>7, <1>13 DEF Story, ProposalsTold
<1>19. m.audit = audit /\ ~m.asked BY <1>3, <1>5, <1>13 DEF Story, MemoryTold
<1>20. Whole(s)'
  BY <1>5, <1>8, <1>9, <1>15, <1>16, <1>17, <1>18, <1>19 DEF Whole
<1>21. [staged' EXCEPT !.events = journal'] = s BY <1>4, <1>5
<1>22. journal' # <<>> BY <1>5, <1>6, <1>7, LastAppended
<1>23. MemoryTold' BY <1>5, <1>20, <1>21, <1>22 DEF MemoryTold, Working
<1> QED BY <1>5, <1>23 DEF Story, TasksTold, ReceiptsTold, ProposalsTold, Working

\* Every step leaves the story whole, or leaves nobody to tell it.
LEMMA StepTells ==
  TypeOK /\ Planning /\ RunInv /\ Journalled /\ Story /\ [Next]_vars => Story'
<1> SUFFICES ASSUME TypeOK, Planning, RunInv, Journalled, Story, [Next]_vars PROVE Story'
  OBVIOUS
<1>1. CASE Start BY <1>1, StartTells
<1>2. CASE Resume BY <1>2, ResumeTells
<1>3. CASE Schedule BY <1>3, ScheduleTells
<1>4. CASE Launch \/ Decline \/ SaveResult \/ SaveBoundary \/ Propose \/ AnswerNothing
  BY <1>4, QuietTells
<1>5. CASE Collect BY <1>5, CollectTells
<1>6. CASE Repair BY <1>6, RepairTells
<1>7. CASE Settle BY <1>7, SettleTells
<1>8. CASE WriteReceipt BY <1>8, WriteTells
<1>9. CASE AuditReceipt BY <1>9, AuditTells
<1>10. CASE AnswerPlan BY <1>10, AnswerTells
<1>11. CASE WriteProposal BY <1>11, FileTells
<1>12. CASE AuditProposal BY <1>12, RegisterTells
<1>13. CASE CountProposal BY <1>13, CountTells
<1>14. CASE Commit BY <1>14, CommitTells
<1>15. CASE Activate BY <1>15, ActivateTells
<1>16. CASE Finish BY <1>16, NobodyTells DEF Finish
<1>17. CASE Crash BY <1>17, NobodyTells DEF Crash, Down, files
<1>18. CASE Edit \/ UNCHANGED vars
  <2>1. UNCHANGED <<pc, locals, files>> BY <1>18 DEF Edit, vars
  <2>2. CurrentReceipt' = CurrentReceipt BY <2>1 DEF CurrentReceipt, ActivePlan, locals
  <2>3. UNCHANGED <<pc, cur, answer, mem, staged, saved, journal, audit, receiptFiles,
                    proposalFiles>>
    BY <2>1 DEF locals, files
  <2>4. Hand' = Hand /\ Owed' = Owed /\ Filed' = Filed /\ Registered' = Registered
        /\ (Working' <=> Working) /\ ActivePlan(mem)' = ActivePlan(mem)
    BY <2>3 DEF Hand, Owed, Filed, Registered, Working, AtWork
  <2>5. TasksTold' BY <2>3, <2>4 DEF Story, TasksTold
  <2>6. ReceiptsTold' BY <2>2, <2>3, <2>4 DEF Story, ReceiptsTold
  <2>7. ProposalsTold' BY <2>3, <2>4 DEF Story, ProposalsTold
  <2>8. PICK s : s = [staged EXCEPT !.events = journal] OBVIOUS
  <2>9. [staged' EXCEPT !.events = journal'] = s BY <2>3, <2>8
  <2>10. Whole(s) => Whole(s)' BY <2>3 DEF Whole
  <2>11. MemoryTold' BY <2>3, <2>4, <2>8, <2>9, <2>10 DEF Story, MemoryTold
  <2> QED BY <2>5, <2>6, <2>7, <2>11 DEF Story
<1> QED BY <1>1, <1>2, <1>3, <1>4, <1>5, <1>6, <1>7, <1>8, <1>9, <1>10, <1>11, <1>12, <1>13,
           <1>14, <1>15, <1>16, <1>17, <1>18
        DEF Next, Step

\* For any tasks, any proposer and any number of deaths, Resumes and revisions: a process that
\* chooses what to do next holds what is on disk, and the journal of Plans, the audit log, the
\* receipts and the proposals on disk are exactly those its state counts.
THEOREM SchedulesFromAgreement == Spec => []ScheduleFromAgreement
<1> DEFINE Inv == TypeOK /\ Planning /\ RunInv /\ Journalled /\ DispatchedDefinitionKept /\ Story
<1>1. Init => Inv
  <2>1. Init => Planning /\ Journalled /\ DispatchedDefinitionKept
    BY DEF Init, Planning, Journalled, DispatchedDefinitionKept
  <2>2. Init => Story
    BY DEF Init, Story, TasksTold, ReceiptsTold, ProposalsTold, MemoryTold, Working
  <2> QED BY <2>1, <2>2, InitTyped, InitRun
<1>2. Inv /\ [Next]_vars => Inv' BY StepTyped, StepRun, StepKept, StepTells
<1>3. Inv => ScheduleFromAgreement BY StorySuffices
<1> QED BY <1>1, <1>2, <1>3, PTL DEF Spec
=============================================================================
