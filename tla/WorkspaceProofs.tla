-------------------------- MODULE WorkspaceProofs --------------------------
(***************************************************************************)
(* Machine-checked facts about the work on copies of the Project: for any  *)
(* number of calls and edits of WorkspaceDag, wherever the parent or a     *)
(* child dies, that every child is started once, that a Run that may be    *)
(* resumed has lost no result, and that the union is exact; and for any    *)
(* number of live Runs and sittings of CameraLive, that what the           *)
(* completion gate believes was reviewed and applied once.                 *)
(***************************************************************************)
EXTENDS WorkspaceDag, CameraLive, TLAPS

(* WorkspaceDag: what is started, what is resumed and what is written.     *)

Over(c, t) == c[t] \in {"completed", "blocked"}

\* What a state of the Run says of the children: none that started is to be started, and a
\* result that was accepted is that of a child that has ended.
Known(s, c) ==
  \A t \in Tasks :
    /\ c[t] # "none" => s.tasks[t].status \in {"running", "verified", "blocked"}
    /\ s.tasks[t].status \in {"verified", "blocked"} =>
         Over(c, t) /\ \E n \in DOMAIN s.order : s.order[n] = t
    /\ s.tasks[t].status = "verified" => c[t] = "completed"
    /\ t \in Workers => s.tasks[t].status # "absent"
    /\ t \in Items /\ s.tasks[Final].status # "absent" => s.tasks[t].status # "absent"

\* The parent's memory is the file, but for the batch it is about to record.
MemoryInv ==
  /\ phase = "idle" => mem = None
  /\ phase # "idle" => mem \in RunState /\ saved \in RunState /\ Known(mem, child)
  /\ phase \notin {"idle", "dispatching"} => mem = saved

DiskInv ==
  /\ saved = None => \A t \in Tasks : child[t] = "none"
  /\ saved # None => Known(saved, child)

\* What is dispatched is running in every state that may be read, until it is accepted.
BatchInv ==
  /\ batch.open \subseteq batch.tasks
  /\ phase = "dispatching" => \A t \in batch.tasks : child[t] = "none"
  /\ phase \in {"dispatching", "run", "settled", "check"} => batch.open = batch.tasks
  /\ phase \in {"dispatching", "run", "settled", "check", "accept"} =>
       \A t \in batch.open : mem.tasks[t].status = "running"
  /\ phase = "run" => \A t \in batch.tasks : child[t] # "lost"
  /\ phase \in {"check", "accept"} \/ (phase = "settled" /\ batch.clean) =>
       \A t \in batch.tasks : Over(child, t)
  /\ phase = "accept" => finals \in Revisions

\* The course of a child: started once, its patch written once and on the approved revision.
Course(t) ==
  /\ starts[t] = IF child[t] = "none" THEN 0 ELSE 1
  /\ child[t] \in {"none", "running"} => writes[t] = <<>>
  /\ Len(writes[t]) <= 1
  /\ t \in Items => writes[t] \in {<<>>, <<Prefix(t[2])>>}
  /\ t \in Items /\ child[t] \in {"wrote", "completed"} => writes[t] # <<>>

ChildInv == \A t \in Tasks : Course(t)

UnionInv == child[Final] = "completed" => project[Original].patches = Patches

DagInv == DagTypeOK /\ MemoryInv /\ DiskInv /\ BatchInv /\ ChildInv /\ UnionInv

\* The four kinds of tasks are different ones.
LEMMA TaskKinds ==
  /\ Workers \subseteq Tasks /\ Items \subseteq Tasks /\ Final \in Tasks /\ Look \in Tasks
  /\ Integration \subseteq Tasks /\ Integration = Items \union {Final}
  /\ \A t \in Workers : t \notin Integration /\ t # Look /\ t[2] \in Patches
  /\ \A t \in Items : t # Final /\ t # Look /\ t[2] \in Patches
  /\ Final # Look
  /\ \A i \in Patches : /\ Worker(i) \in Workers /\ Item(i) \in Items /\ Item(i)[2] = i
                        /\ Worker(i)[2] = i
  /\ \A t \in Tasks : t \in Workers \/ t \in Items \/ t \in {Final, Look}
  /\ \A t \in Tasks : Workspace(t) \in Projects
  /\ Workers \subseteq InitialTasks /\ InitialTasks \subseteq Tasks
  /\ \A t \in Integration : t \notin InitialTasks
<1>1. \A i \in Patches : /\ Worker(i)[1] = "worker" /\ Worker(i)[2] = i
                         /\ Item(i)[1] = "item" /\ Item(i)[2] = i
  BY DEF Worker, Item
<1>2. Look[1] = "look" /\ Final[1] = "final" BY DEF Look, Final
<1>3. \A t \in Workers : t[1] = "worker" /\ t[2] \in Patches BY <1>1 DEF Workers
<1>4. \A t \in Items : t[1] = "item" /\ t[2] \in Patches BY <1>1 DEF Items
<1>5. \A t \in Tasks : t \in Workers \/ t \in Items \/ t \in {Final, Look}
  BY DEF Tasks, Integration
<1>6. \A t \in Tasks : Workspace(t) \in Projects
  BY <1>3 DEF Workspace, Projects
<1>7. Workers \subseteq InitialTasks /\ InitialTasks \subseteq Tasks BY DEF InitialTasks, Tasks
<1>8. \A t \in InitialTasks : t \in Workers \/ t = Look BY DEF InitialTasks
<1>9. \A i \in Patches : Worker(i) \in Workers /\ Item(i) \in Items BY DEF Workers, Items
<1>10. Workers \subseteq Tasks /\ Items \subseteq Tasks /\ Final \in Tasks /\ Look \in Tasks
       /\ Integration \subseteq Tasks /\ Integration = Items \union {Final}
  BY DEF Tasks, Integration
<1>11. \A t \in Workers : t \notin Integration /\ t # Look
  BY <1>2, <1>3, <1>4, <1>10
<1>12. \A t \in Items : t # Final /\ t # Look BY <1>2, <1>4
<1>13. Final # Look BY <1>2
<1>14. \A t \in Integration : t \notin InitialTasks
  BY <1>2, <1>4, <1>8, <1>10, <1>11, <1>13
<1> QED BY <1>1, <1>3, <1>4, <1>5, <1>6, <1>7, <1>9, <1>10, <1>11, <1>12, <1>13, <1>14

\* What a state is made of.
LEMMA StateParts ==
  ASSUME NEW r \in RunState
  PROVE  /\ r.tasks \in [Tasks -> TaskRecord] /\ r.order \in Seq(Tasks) /\ r.refs \in Nat
         /\ r.revisions \in Revisions /\ r.status \in RunStatus
         /\ \A t \in Tasks : r.tasks[t] \in TaskRecord /\ r.tasks[t].status \in TaskStatus
BY DEF RunState, TaskRecord

\* A state in which other things are written down knows what the first one knew.
LEMMA SameTasks ==
  ASSUME NEW r, NEW s, NEW c, Known(r, c), s.tasks = r.tasks, s.order = r.order
  PROVE  Known(s, c)
BY DEF Known

\* Tasks whose child never started may change, but not to an accepted result.
LEMMA Rewritten ==
  ASSUME NEW r, NEW s, NEW c, Known(r, c), s.order = r.order,
         \A t \in Tasks :
           \/ s.tasks[t].status = r.tasks[t].status
           \/ /\ c[t] = "none"
              /\ s.tasks[t].status \in {"pending", "running", "blocked_dependency"},
         r.tasks[Final].status = "absent" /\ s.tasks[Final].status # "absent" =>
           \A t \in Items : s.tasks[t].status # "absent"
  PROVE  Known(s, c)
BY TaskKinds DEF Known

\* A child may go on if its task is running.
LEMMA ChildMoves ==
  ASSUME NEW s, NEW c, NEW d, Known(s, c),
         \A t \in Tasks : \/ d[t] = c[t]
                          \/ ~Over(c, t) /\ (c[t] = "none" => s.tasks[t].status = "running")
  PROVE  Known(s, d)
BY DEF Known, Over

\* The states that the parent makes of another one.
LEMMA NewTyped == project \in Revisions => NewState \in RunState
<1> SUFFICES ASSUME project \in Revisions PROVE NewState \in RunState OBVIOUS
<1> DEFINE T == [t \in Tasks |-> [status |-> IF t \in InitialTasks THEN "pending" ELSE "absent",
                                  seen |-> None]]
<1>1. T \in [Tasks -> TaskRecord] BY DEF TaskRecord, TaskStatus
<1>2. <<>> \in Seq(Tasks) OBVIOUS
<1> HIDE DEF T
<1>3. [tasks |-> T, order |-> <<>>, refs |-> 0, revisions |-> project, status |-> "running"]
        \in RunState
  BY <1>1, <1>2 DEF RunState, RunStatus
<1> QED BY <1>3 DEF NewState, T

WithTasks(r, T) == [r EXCEPT !.tasks = T]
Counted(r) == [r EXCEPT !.refs = @ + 1]
Concluded(r, v) == [r EXCEPT !.status = v]
Took(r, T, f, q) == [r EXCEPT !.tasks = T, !.revisions = f, !.order = q]
Closed(r, T, f) == [r EXCEPT !.tasks = T, !.revisions = f]

\* A state of the run with other tasks is one.
LEMMA WithTasksIs ==
  ASSUME NEW r \in RunState, NEW T \in [Tasks -> TaskRecord]
  PROVE  /\ WithTasks(r, T) \in RunState
         /\ WithTasks(r, T).tasks = T /\ WithTasks(r, T).order = r.order
BY DEF RunState, WithTasks

\* So is one with one more reference to its evidence,
LEMMA CountedIs ==
  ASSUME NEW r \in RunState
  PROVE  /\ Counted(r) \in RunState
         /\ Counted(r).tasks = r.tasks /\ Counted(r).order = r.order
<1>1. r.refs + 1 \in Nat BY StateParts
<1>2. Counted(r) = [r EXCEPT !.refs = r.refs + 1] BY DEF Counted, RunState
<1> QED BY <1>1, <1>2 DEF RunState

\* one that is concluded,
LEMMA ConcludedIs ==
  ASSUME NEW r \in RunState, NEW v \in RunStatus
  PROVE  /\ Concluded(r, v) \in RunState /\ Concluded(r, v).status = v
         /\ Concluded(r, v).tasks = r.tasks /\ Concluded(r, v).order = r.order
BY DEF RunState, Concluded

\* one with other tasks, revisions and order,
LEMMA TookIs ==
  ASSUME NEW r \in RunState, NEW T \in [Tasks -> TaskRecord], NEW q \in Seq(Tasks),
         NEW f \in Revisions
  PROVE  /\ Took(r, T, f, q) \in RunState
         /\ Took(r, T, f, q).tasks = T /\ Took(r, T, f, q).order = q
BY DEF RunState, Took

\* and one with other tasks and revisions.
LEMMA ClosedIs ==
  ASSUME NEW r \in RunState, NEW T \in [Tasks -> TaskRecord], NEW f \in Revisions
  PROVE  /\ Closed(r, T, f) \in RunState
         /\ Closed(r, T, f).tasks = T /\ Closed(r, T, f).order = r.order
BY DEF RunState, Closed

\* The run begins typed.
LEMMA InitTyped == Init => DagTypeOK
<1> SUFFICES ASSUME Init PROVE DagTypeOK OBVIOUS
<1>1. Base \in Content BY DEF Base, Content
<1>2. project \in Revisions BY <1>1 DEF Init, Revisions
<1>3. batch \in [tasks : SUBSET Tasks, open : SUBSET Tasks, clean : BOOLEAN]
  BY DEF Init, NoBatch
<1> QED BY <1>2, <1>3 DEF Init, DagTypeOK, Phases, ChildPlaces

\* Tasks of which some have another status.
Restated(T, S, v) == [t \in Tasks |-> IF t \in S THEN [T[t] EXCEPT !.status = v] ELSE T[t]]

\* Tasks of which some are in another status are tasks.
LEMMA RestatedTyped ==
  ASSUME NEW T \in [Tasks -> TaskRecord], NEW S, NEW v \in TaskStatus
  PROVE  /\ Restated(T, S, v) \in [Tasks -> TaskRecord]
         /\ \A t \in Tasks : Restated(T, S, v)[t].status = IF t \in S THEN v ELSE T[t].status
<1>1. ASSUME NEW t \in Tasks
      PROVE  /\ [T[t] EXCEPT !.status = v] \in TaskRecord
             /\ [T[t] EXCEPT !.status = v].status = v
  BY DEF TaskRecord
<1>2. \A t \in Tasks : Restated(T, S, v)[t] = IF t \in S THEN [T[t] EXCEPT !.status = v] ELSE T[t]
  BY DEF Restated
<1>3. Restated(T, S, v) \in [Tasks -> TaskRecord] BY <1>1 DEF Restated
<1>4. \A t \in Tasks : Restated(T, S, v)[t].status = IF t \in S THEN v ELSE T[t].status
  BY <1>1, <1>2
<1> QED BY <1>3, <1>4

\* What is said of the children and of the original holds while they are left alone.
LEMMA WorldAlone ==
  ASSUME ChildInv, UnionInv, UNCHANGED <<child, starts, writes, project>>
  PROVE  ChildInv' /\ UnionInv'
BY DEF ChildInv, Course, UnionInv

\* The parent leaves: with it goes what it remembers, and the file stays true.
LEMMA Leaves ==
  ASSUME DagInv, DagTypeOK', Raise, UNCHANGED <<child, starts, writes, project>>,
         saved' = saved \/ (saved' \in RunState /\ Known(saved', child))
  PROVE  DagInv'
<1>1. MemoryInv' BY DEF Raise, MemoryInv
<1>2. DiskInv' BY WorkspaceConstants DEF DagInv, DiskInv
<1>3. BatchInv' BY DEF Raise, BatchInv, NoBatch
<1>4. ChildInv' /\ UnionInv' BY WorldAlone DEF DagInv
<1> QED BY <1>1, <1>2, <1>3, <1>4 DEF DagInv

\* What leaving does to the types.
LEMMA LeavesTyped ==
  ASSUME DagTypeOK, Raise, written' \in {"none", "file", "audit"},
         saved' \in RunState \union {None},
         UNCHANGED <<events, audited, peopleVars, applications, project, starts, writes, edits,
                     calls>>,
         child' \in [Tasks -> ChildPlaces]
  PROVE  DagTypeOK'
<1>1. batch' \in [tasks : SUBSET Tasks, open : SUBSET Tasks, clean : BOOLEAN]
  BY DEF Raise, NoBatch
<1> QED BY <1>1 DEF DagTypeOK, Raise, Phases, peopleVars

\* A call begins with a fresh state, or with the one on disk.
LEMMA DagBegins == ASSUME DagInv, Fresh \/ Resume PROVE DagInv'
<1>1. \E s \in RunState : Begin(s) /\ Known(s, child)
  <2>1. CASE Fresh
    <3>1. NewState \in RunState BY NewTyped DEF DagInv, DagTypeOK
    <3>2. Known(NewState, child)
      <4>1. \A t \in Tasks : NewState.tasks[t].status =
                               IF t \in InitialTasks THEN "pending" ELSE "absent"
        BY DEF NewState
      <4>2. \A t \in Tasks : child[t] = "none" BY <2>1 DEF Fresh, DagInv, DiskInv
      <4> QED BY <4>1, <4>2, TaskKinds DEF Known
    <3> QED BY <2>1, <3>1, <3>2 DEF Fresh
  <2>2. CASE Resume
    BY <2>2 DEF Resume, Resumable, DagInv, DiskInv, DagTypeOK
  <2> QED BY <2>1, <2>2
<1>2. PICK s \in RunState : Begin(s) /\ Known(s, child) BY <1>1
<1>3. DagTypeOK'
  <2>1. phase' \in Phases BY <1>2 DEF Begin, Phases
  <2>2. calls' \in Nat BY <1>2 DEF Begin, DagInv, DagTypeOK
  <2> QED BY <1>2, <2>1, <2>2 DEF Begin, DagInv, DagTypeOK, peopleVars
<1>4. MemoryInv' /\ DiskInv'
  BY <1>2, WorkspaceConstants DEF Begin, MemoryInv, DiskInv
<1>5. BatchInv' BY <1>2 DEF Begin, DagInv, BatchInv
<1>6. ChildInv' /\ UnionInv' BY <1>2, WorldAlone DEF Begin, DagInv
<1> QED BY <1>3, <1>4, <1>5, <1>6 DEF DagInv

\* A batch is taken from tasks whose child never started.
LEMMA SelectKeeps == ASSUME DagInv, Select PROVE DagInv'
<1>1. CASE Raise
  <2>1. DagTypeOK'
    BY <1>1, LeavesTyped DEF Select, DagInv, DagTypeOK, diskVars
  <2> QED BY <1>1, <2>1, Leaves DEF Select, diskVars
<1>2. CASE ~Raise
  <2>1. PICK S \in Selections :
          /\ batch' = [tasks |-> S, open |-> S, clean |-> TRUE]
          /\ mem' = [mem EXCEPT !.tasks = [t \in Tasks |->
               IF t \in S THEN [mem.tasks[t] EXCEPT !.status = "running"] ELSE mem.tasks[t]]]
    BY <1>2 DEF Select
  <2>2. /\ phase = "loop" /\ phase' = "dispatching"
        /\ UNCHANGED <<written, finals, child, saved, events, audited, peopleVars, applications,
                       project, starts, writes, edits, calls>>
    BY <1>2 DEF Select, diskVars
  <2>3. PICK m \in RunState : m = mem /\ m = saved /\ Known(m, child)
    BY <2>2 DEF DagInv, MemoryInv
  <2>4. PICK n : n = mem' OBVIOUS
  <2> DEFINE T == Restated(m.tasks, S, "running")
  <2>5. n = WithTasks(m, T) BY <2>1, <2>3, <2>4 DEF WithTasks, Restated
  <2>6. m.tasks \in [Tasks -> TaskRecord] BY StateParts
  <2>7. /\ T \in [Tasks -> TaskRecord]
        /\ \A t \in Tasks : T[t].status = IF t \in S THEN "running" ELSE m.tasks[t].status
    BY <2>6, RestatedTyped DEF TaskStatus
  <2> HIDE DEF T
  <2>8. n \in RunState /\ n.tasks = T /\ n.order = m.order BY <2>5, <2>7, WithTasksIs
  <2>9. S \subseteq Tasks /\ \A t \in S : m.tasks[t].status = "pending" /\ child[t] = "none"
    BY <2>3 DEF Selections, Ready, In, Known
  <2>10. Known(n, child)
    <3>1. \A t \in Tasks :
            \/ n.tasks[t].status = m.tasks[t].status
            \/ /\ child[t] = "none"
               /\ n.tasks[t].status \in {"pending", "running", "blocked_dependency"}
      BY <2>7, <2>8, <2>9
    <3>2. ~(m.tasks[Final].status = "absent" /\ n.tasks[Final].status # "absent")
      BY <2>7, <2>8, <2>9, TaskKinds
    <3> QED BY <2>3, <2>8, <3>1, <3>2, Rewritten
  <2>11. DagTypeOK'
    <3>1. batch' \in [tasks : SUBSET Tasks, open : SUBSET Tasks, clean : BOOLEAN]
      BY <2>1, <2>9
    <3> QED BY <2>2, <2>4, <2>8, <3>1 DEF DagInv, DagTypeOK, Phases, peopleVars
  <2>12. MemoryInv' /\ DiskInv'
    BY <2>2, <2>3, <2>4, <2>8, <2>10 DEF DagInv, MemoryInv, DiskInv
  <2>13. BatchInv'
    <3>1. PICK b : b = batch' OBVIOUS
    <3>2. b.tasks = S /\ b.open = S BY <2>1, <3>1
    <3>3. \A t \in S : n.tasks[t].status = "running" BY <2>7, <2>8, <2>9
    <3> QED BY <2>2, <2>4, <2>9, <3>1, <3>2, <3>3 DEF BatchInv
  <2>14. ChildInv' /\ UnionInv' BY <2>2, WorldAlone DEF DagInv
  <2> QED BY <2>11, <2>12, <2>13, <2>14 DEF DagInv
<1> QED BY <1>1, <1>2

\* Two thirds of an event leave the state alone, the last one writes it down as it is in memory.
LEMMA EventSteps ==
  ASSUME DagInv, NEW kind \in {"dispatching", "settled", "accepted"}, NEW clean \in BOOLEAN,
         NEW next \in Phases, Event(kind, clean, next)
  PROVE  /\ phase = kind
         /\ UNCHANGED <<child, peopleVars, applications, project, starts, writes, edits, calls>>
         /\ written' \in {"none", "file", "audit"}
         /\ events' \in Seq([phase : Phases, clean : BOOLEAN]) /\ audited' \in Nat
         /\ \/ UNCHANGED <<mem, saved, phase>>
            \/ /\ phase' = next /\ mem' \in RunState /\ saved' = mem'
               /\ Known(mem', child) /\ \A t \in Tasks : mem'.tasks[t] = mem.tasks[t]
<1>1. CASE written = "none"
  <2> DEFINE line == [phase |-> kind, clean |-> clean]
             Lines == [phase : Phases, clean : BOOLEAN]
  <2>1. line \in Lines BY DEF Phases
  <2>2. events \in Seq(Lines) /\ audited \in Nat BY DEF DagInv, DagTypeOK
  <2>3. events' = Append(events, line) BY <1>1 DEF Event
  <2> HIDE DEF line, Lines
  <2>4. events' \in Seq(Lines) BY <2>1, <2>2, <2>3
  <2>5. /\ phase = kind /\ written' = "file" /\ UNCHANGED <<audited, mem, saved, phase>>
        /\ UNCHANGED <<child, peopleVars, applications, project, starts, writes, edits, calls>>
    BY <1>1 DEF Event
  <2> QED BY <2>2, <2>4, <2>5 DEF Lines
<1>2. CASE written = "file" BY <1>2 DEF Event, DagInv, DagTypeOK
<1>3. CASE written = "audit"
  <2>1. PICK m \in RunState : m = mem /\ Known(m, child)
    BY DEF Event, DagInv, MemoryInv
  <2>2. PICK n : n = mem' OBVIOUS
  <2>3. n = Counted(m) /\ saved' = n /\ phase' = next
    BY <1>3, <2>1, <2>2 DEF Event, Counted
  <2>4. n \in RunState /\ n.tasks = m.tasks /\ n.order = m.order BY <2>3, CountedIs
  <2>5. Known(n, child) BY <2>1, <2>4, SameTasks
  <2>6. \A t \in Tasks : n.tasks[t] = m.tasks[t] BY <2>4
  <2> QED BY <1>3, <2>1, <2>2, <2>3, <2>4, <2>5, <2>6 DEF Event, DagInv, DagTypeOK
<1> QED BY <1>1, <1>2, <1>3 DEF DagInv, DagTypeOK

\* An event is recorded before the next thing happens.
LEMMA EventKeeps == ASSUME DagInv, Dispatching \/ Settled \/ Accepted PROVE DagInv'
<1>1. CASE Dispatching \/ Settled
  <2>1. PICK kind \in {"dispatching", "settled"}, clean \in BOOLEAN, next \in Phases :
          /\ Event(kind, clean, next) /\ UNCHANGED <<batch, finals>>
          /\ kind = "dispatching" => next = "run"
          /\ kind = "settled" => next = IF batch.clean THEN "check" ELSE "give up"
    <3>1. CASE Dispatching BY <3>1 DEF Dispatching, Phases
    <3>2. CASE Settled
      <4>1. batch.clean \in BOOLEAN BY DEF DagInv, DagTypeOK
      <4>2. (IF batch.clean THEN "check" ELSE "give up") \in Phases BY DEF Phases
      <4> QED BY <3>2, <4>1, <4>2 DEF Settled
    <3> QED BY <1>1, <3>1, <3>2
  <2>2. /\ phase = kind
        /\ UNCHANGED <<child, peopleVars, applications, project, starts, writes, edits, calls>>
        /\ written' \in {"none", "file", "audit"}
        /\ events' \in Seq([phase : Phases, clean : BOOLEAN]) /\ audited' \in Nat
        /\ \/ UNCHANGED <<mem, saved, phase>>
           \/ /\ phase' = next /\ mem' \in RunState /\ saved' = mem'
              /\ Known(mem', child) /\ \A t \in Tasks : mem'.tasks[t] = mem.tasks[t]
    BY <2>1, EventSteps
  <2>3. DagTypeOK' BY <2>1, <2>2 DEF DagInv, DagTypeOK, peopleVars
  <2>4. MemoryInv' /\ DiskInv'
    <3>1. mem \in RunState /\ saved \in RunState BY <2>2 DEF DagInv, MemoryInv
    <3> QED BY <2>1, <2>2, <3>1, WorkspaceConstants DEF DagInv, MemoryInv, DiskInv
  <2>5. BatchInv'
    <3>1. \A t \in batch.open : mem'.tasks[t].status = "running"
      <4>1. batch.open \subseteq Tasks BY DEF DagInv, DagTypeOK
      <4> QED BY <2>2, <4>1 DEF DagInv, BatchInv
    <3>2. CASE UNCHANGED phase BY <2>1, <2>2, <3>1, <3>2 DEF DagInv, BatchInv
    <3>3. CASE phase' = next
      BY <2>1, <2>2, <3>1, <3>3 DEF DagInv, BatchInv
    <3> QED BY <2>2, <3>2, <3>3
  <2>6. ChildInv' /\ UnionInv' BY <2>2, WorldAlone DEF DagInv
  <2> QED BY <2>3, <2>4, <2>5, <2>6 DEF DagInv
<1>2. CASE Accepted
  <2>1. /\ phase = "accepted" /\ batch' = NoBatch /\ finals' = None
        /\ UNCHANGED <<child, peopleVars, applications, project, starts, writes, edits, calls>>
        /\ written' \in {"none", "file", "audit"}
        /\ events' \in Seq([phase : Phases, clean : BOOLEAN]) /\ audited' \in Nat
        /\ \/ UNCHANGED <<mem, saved, phase>>
           \/ /\ phase' = "loop" /\ mem' \in RunState /\ saved' = mem'
              /\ Known(mem', child) /\ \A t \in Tasks : mem'.tasks[t] = mem.tasks[t]
    BY <1>2, EventSteps DEF Accepted, Phases
  <2>2. DagTypeOK'
    <3>1. batch' \in [tasks : SUBSET Tasks, open : SUBSET Tasks, clean : BOOLEAN]
      BY <2>1 DEF NoBatch
    <3>2. phase' \in Phases BY <2>1 DEF Phases
    <3> QED BY <2>1, <3>1, <3>2 DEF DagInv, DagTypeOK, peopleVars
  <2>3. MemoryInv' /\ DiskInv'
    <3>1. mem \in RunState /\ saved \in RunState BY <2>1 DEF DagInv, MemoryInv
    <3> QED BY <2>1, <3>1, WorkspaceConstants DEF DagInv, MemoryInv, DiskInv
  <2>4. BatchInv' BY <2>1 DEF BatchInv, NoBatch
  <2>5. ChildInv' /\ UnionInv' BY <2>1, WorldAlone DEF DagInv
  <2> QED BY <2>2, <2>3, <2>4, <2>5 DEF DagInv
<1> QED BY <1>1, <1>2

\* The barrier is over: a clean batch has ended.
LEMMA DagReports == ASSUME DagInv, ReportBatch PROVE DagInv'
<1>1. PICK b, c : b = batch /\ c = batch' OBVIOUS
<1>2. PICK clean \in BOOLEAN :
        /\ clean => \A t \in b.tasks : Over(child, t)
        /\ c = [b EXCEPT !.clean = clean]
  BY <1>1 DEF ReportBatch, Over
<1>3. b \in [tasks : SUBSET Tasks, open : SUBSET Tasks, clean : BOOLEAN]
  BY <1>1 DEF DagInv, DagTypeOK
<1>4. /\ c.tasks = b.tasks /\ c.open = b.open /\ c.clean = clean
      /\ c \in [tasks : SUBSET Tasks, open : SUBSET Tasks, clean : BOOLEAN]
  BY <1>2, <1>3
<1>5. /\ phase = "run" /\ phase' = "settled"
      /\ UNCHANGED <<mem, written, finals, child, diskVars, peopleVars, applications, project,
                     starts, writes, edits, calls>>
  BY DEF ReportBatch
<1>6. DagTypeOK'
  <2>1. phase' \in Phases BY <1>5 DEF Phases
  <2> QED BY <1>1, <1>4, <1>5, <2>1 DEF DagInv, DagTypeOK, diskVars, peopleVars
<1>7. MemoryInv' /\ DiskInv' BY <1>5 DEF DagInv, MemoryInv, DiskInv, diskVars
<1>8. BatchInv' BY <1>1, <1>2, <1>4, <1>5 DEF DagInv, BatchInv
<1>9. ChildInv' /\ UnionInv' BY <1>5, WorldAlone DEF DagInv
<1> QED BY <1>6, <1>7, <1>8, <1>9 DEF DagInv

\* A batch that was not clean ends the call, and its tasks stay running.
LEMMA GiveUpKeeps == ASSUME DagInv, GiveUp PROVE DagInv'
<1>1. PICK m \in RunState : m = mem /\ Known(m, child)
  BY DEF GiveUp, DagInv, MemoryInv
<1>2. PICK n : n = saved' OBVIOUS
<1>3. n = Concluded(m, "blocked") BY <1>1, <1>2 DEF GiveUp, Concluded
<1>4. n \in RunState /\ n.tasks = m.tasks /\ n.order = m.order
  BY <1>3, ConcludedIs DEF RunStatus
<1>5. Known(n, child) BY <1>1, <1>4, SameTasks
<1>6. DagTypeOK' BY <1>2, <1>4, LeavesTyped DEF GiveUp, DagInv, DagTypeOK
<1> QED BY <1>2, <1>4, <1>5, <1>6, Leaves DEF GiveUp

\* The revisions are looked at once all have ended.
LEMMA CheckKeeps == ASSUME DagInv, Check PROVE DagInv'
<1>1. CASE Raise
  <2>1. DagTypeOK' BY <1>1, LeavesTyped DEF Check, DagInv, DagTypeOK, diskVars
  <2> QED BY <1>1, <2>1, Leaves DEF Check, diskVars
<1>2. CASE ~Raise
  <2>1. /\ phase = "check" /\ phase' = "accept" /\ finals' = project
        /\ UNCHANGED <<mem, batch, written, child, diskVars, peopleVars, applications, project,
                       starts, writes, edits, calls>>
    BY <1>2 DEF Check
  <2>2. DagTypeOK'
    <3>1. phase' \in Phases BY <2>1 DEF Phases
    <3> QED BY <2>1, <3>1 DEF DagInv, DagTypeOK, diskVars, peopleVars
  <2>3. MemoryInv' /\ DiskInv' BY <2>1 DEF DagInv, MemoryInv, DiskInv, diskVars
  <2>4. BatchInv' BY <2>1 DEF DagInv, DagTypeOK, BatchInv
  <2>5. ChildInv' /\ UnionInv' BY <2>1, WorldAlone DEF DagInv
  <2> QED BY <2>2, <2>3, <2>4, <2>5 DEF DagInv
<1> QED BY <1>1, <1>2

\* What is in a sequence that one was appended to.
LEMMA AppendParts ==
  ASSUME NEW S, NEW q \in Seq(S), NEW e \in S
  PROVE  /\ Append(q, e) \in Seq(S) /\ \E k \in DOMAIN Append(q, e) : Append(q, e)[k] = e
         /\ \A k \in DOMAIN q : k \in DOMAIN Append(q, e) /\ Append(q, e)[k] = q[k]
<1> DEFINE a == Append(q, e)
           n == Len(q)
<1>1. n \in Nat /\ DOMAIN q = 1..n /\ a \in Seq(S) OBVIOUS
<1>2. DOMAIN a = 1..(n + 1) /\ a[n + 1] = e /\ \A i \in 1..n : a[i] = q[i]
  OBVIOUS
<1> HIDE DEF a, n
<1>3. n + 1 \in 1..(n + 1) /\ \A i \in 1..n : i \in 1..(n + 1) BY <1>1
<1>4. /\ a \in Seq(S) /\ \E k \in DOMAIN a : a[k] = e
      /\ \A k \in DOMAIN q : k \in DOMAIN a /\ a[k] = q[k]
  BY <1>1, <1>2, <1>3
<1> QED BY <1>4 DEF a

\* A result is taken from a child that has ended, and its task is put in the order.
LEMMA AcceptKeeps == ASSUME DagInv, NEW t \in Tasks, Accept(t) PROVE DagInv'
<1>1. PICK m \in RunState : m = mem /\ m = saved /\ Known(m, child)
  BY DEF Accept, DagInv, MemoryInv
<1>2. PICK n : n = mem' OBVIOUS
<1>3. PICK f \in Revisions : f = finals BY DEF Accept, DagInv, BatchInv
<1>4. PICK status \in {"verified", "blocked"} :
        /\ status = "verified" => child[t] = "completed"
        /\ mem' = [mem EXCEPT !.tasks[t] = [status |-> status, seen |-> finals],
                              !.revisions = finals, !.order = Append(@, t)]
  BY DEF Accept
<1> DEFINE new == [status |-> status, seen |-> f]
           T == [m.tasks EXCEPT ![t] = new]
           q == Append(m.order, t)
<1>5. m.tasks \in [Tasks -> TaskRecord] /\ m.order \in Seq(Tasks) BY StateParts
<1>6. new \in TaskRecord /\ new.status = status BY DEF TaskRecord, TaskStatus
<1>7. n = Took(m, T, f, q)
  <2>1. n = [m EXCEPT !.tasks[t] = new, !.revisions = f, !.order = Append(@, t)]
    BY <1>1, <1>2, <1>3, <1>4
  <2> QED BY <2>1 DEF Took, RunState
<1> HIDE DEF new
<1>8. /\ T \in [Tasks -> TaskRecord] /\ T[t] = new
      /\ \A u \in Tasks \ {t} : T[u] = m.tasks[u]
  BY <1>5, <1>6
<1>9. /\ q \in Seq(Tasks) /\ \E k \in DOMAIN q : q[k] = t
      /\ \A k \in DOMAIN m.order : k \in DOMAIN q /\ q[k] = m.order[k]
  BY <1>5, AppendParts
<1> HIDE DEF T, q
<1>10. n \in RunState /\ n.tasks = T /\ n.order = q BY <1>7, <1>8, <1>9, TookIs
<1>11. PICK b, c : b = batch /\ c = batch' OBVIOUS
<1>12. b \in [tasks : SUBSET Tasks, open : SUBSET Tasks, clean : BOOLEAN]
  BY <1>11 DEF DagInv, DagTypeOK
<1>13. c = [b EXCEPT !.open = b.open \ {t}] BY <1>11, <1>12 DEF Accept
<1>14. /\ c.tasks = b.tasks /\ c.open = b.open \ {t}
       /\ c \in [tasks : SUBSET Tasks, open : SUBSET Tasks, clean : BOOLEAN]
  BY <1>12, <1>13
<1>15. /\ phase = "accept" /\ t \in b.open /\ b.open \subseteq b.tasks
       /\ phase' \in {"accept", "accepted"} /\ saved' = n
       /\ UNCHANGED <<written, finals, child, events, audited, peopleVars, applications, project,
                      starts, writes, edits, calls>>
  BY <1>2, <1>11 DEF Accept, DagInv, BatchInv
<1>16. Over(child, t) /\ child[t] # "none"
  BY <1>11, <1>15 DEF DagInv, BatchInv, Over
<1>17. Known(n, child)
  <2>1. \A u \in Tasks \ {t} : n.tasks[u] = m.tasks[u] BY <1>8, <1>10
  <2>2. n.tasks[t].status = status BY <1>6, <1>8, <1>10
  <2>3. \A u \in Tasks : n.tasks[u].status = "absent" => m.tasks[u].status = "absent"
    BY <1>4, <2>1, <2>2
  <2>4. m.tasks[t].status = "running" BY <1>1, <1>11, <1>15 DEF DagInv, BatchInv
  <2>5. n.tasks[Final].status # "absent" => m.tasks[Final].status # "absent"
    BY <2>1, <2>4, TaskKinds
  <2>6. ASSUME NEW u \in Tasks
        PROVE  /\ child[u] # "none" => n.tasks[u].status \in {"running", "verified", "blocked"}
               /\ n.tasks[u].status \in {"verified", "blocked"} =>
                    Over(child, u) /\ \E k \in DOMAIN n.order : n.order[k] = u
               /\ n.tasks[u].status = "verified" => child[u] = "completed"
    <3>1. CASE u = t BY <1>4, <1>9, <1>10, <1>16, <2>2, <3>1
    <3>2. CASE u # t
      <4>1. n.tasks[u] = m.tasks[u] BY <2>1, <3>2
      <4>2. (\E k \in DOMAIN m.order : m.order[k] = u) => \E k \in DOMAIN n.order : n.order[k] = u
        BY <1>9, <1>10
      <4> QED BY <1>1, <4>1, <4>2 DEF Known
    <3> QED BY <3>1, <3>2
  <2> QED BY <1>1, <2>3, <2>5, <2>6 DEF Known
<1>18. DagTypeOK'
  <2>1. phase' \in Phases BY <1>15 DEF Phases
  <2> QED BY <1>2, <1>10, <1>11, <1>14, <1>15, <2>1 DEF DagInv, DagTypeOK, peopleVars
<1>19. MemoryInv' /\ DiskInv'
  BY <1>2, <1>10, <1>15, <1>17, WorkspaceConstants DEF MemoryInv, DiskInv
<1>20. BatchInv'
  <2>1. \A u \in c.open : n.tasks[u].status = "running"
    <3>1. c.open \subseteq Tasks BY <1>14
    <3> QED BY <1>1, <1>8, <1>10, <1>11, <1>14, <1>15, <3>1 DEF DagInv, BatchInv
  <2>2. \A u \in c.tasks : Over(child, u) BY <1>11, <1>14, <1>15 DEF DagInv, BatchInv
  <2> QED BY <1>2, <1>3, <1>11, <1>14, <1>15, <2>1, <2>2 DEF BatchInv
<1>21. ChildInv' /\ UnionInv' BY <1>15, WorldAlone DEF DagInv
<1> QED BY <1>18, <1>19, <1>20, <1>21 DEF DagInv

\* The state a call leaves behind: what waits in vain is blocked by what it depends on.
FinalTasks(m, stuck) ==
  Restated(m.tasks, {t \in Tasks : stuck /\ m.tasks[t].status = "pending"}, "blocked_dependency")

FinalState(m, stuck) == Closed(m, FinalTasks(m, stuck), project)

FinalStatus(m, stuck) ==
  LET state == FinalState(m, stuck) IN
    IF In(state, "verified") = Planned(state) /\ FinalGates(state) THEN "verified" ELSE "blocked"

\* The end writes the state with one of the final statuses.
LEMMA FinishWrites ==
  ASSUME Finish
  PROVE  \E stuck \in BOOLEAN :
           saved' = Concluded(FinalState(mem, stuck), FinalStatus(mem, stuck))
<1>1. PICK stuck \in BOOLEAN :
        LET tasks == [t \in Tasks |-> IF stuck /\ mem.tasks[t].status = "pending"
                        THEN [mem.tasks[t] EXCEPT !.status = "blocked_dependency"]
                        ELSE mem.tasks[t]]
            state == [mem EXCEPT !.tasks = tasks, !.revisions = project]
        IN saved' = [state EXCEPT !.status =
                       IF In(state, "verified") = Planned(state) /\ FinalGates(state)
                       THEN "verified" ELSE "blocked"]
  BY DEF Finish
<1> DEFINE T == FinalTasks(mem, stuck)
           state == FinalState(mem, stuck)
           v == FinalStatus(mem, stuck)
<1>2. T = [t \in Tasks |-> IF stuck /\ mem.tasks[t].status = "pending"
                             THEN [mem.tasks[t] EXCEPT !.status = "blocked_dependency"]
                             ELSE mem.tasks[t]]
  BY DEF FinalTasks, Restated
<1>3. state = [mem EXCEPT !.tasks = T, !.revisions = project] BY DEF FinalState, Closed
<1>4. v = IF In(state, "verified") = Planned(state) /\ FinalGates(state)
          THEN "verified" ELSE "blocked"
  BY DEF FinalStatus
<1> HIDE DEF T, state, v
<1>5. saved' = [state EXCEPT !.status = v] BY <1>1, <1>2, <1>3, <1>4
<1>6. saved' = Concluded(state, v) BY <1>5 DEF Concluded
<1> QED BY <1>6 DEF state, v

\* The parts of that state.
LEMMA FinalParts ==
  ASSUME NEW m \in RunState, NEW stuck \in BOOLEAN, project \in Revisions
  PROVE  /\ FinalState(m, stuck) \in RunState /\ FinalStatus(m, stuck) \in RunStatus
         /\ FinalState(m, stuck).tasks = FinalTasks(m, stuck)
         /\ FinalState(m, stuck).order = m.order
         /\ \A t \in Tasks :
              FinalTasks(m, stuck)[t] = m.tasks[t]
              \/ /\ m.tasks[t].status = "pending"
                 /\ FinalTasks(m, stuck)[t].status = "blocked_dependency"
<1> DEFINE S == {t \in Tasks : stuck /\ m.tasks[t].status = "pending"}
           T == FinalTasks(m, stuck)
<1>1. m.tasks \in [Tasks -> TaskRecord] BY StateParts
<1>2. /\ T \in [Tasks -> TaskRecord]
      /\ \A t \in Tasks :
           T[t].status = IF t \in S THEN "blocked_dependency" ELSE m.tasks[t].status
  BY <1>1, RestatedTyped DEF TaskStatus, FinalTasks
<1>3. \A t \in Tasks : t \notin S => T[t] = m.tasks[t] BY DEF FinalTasks, Restated
<1>4. \A t \in S : m.tasks[t].status = "pending" OBVIOUS
<1> HIDE DEF S, T
<1>5. \A t \in Tasks : T[t] = m.tasks[t] \/ (/\ m.tasks[t].status = "pending"
                                             /\ T[t].status = "blocked_dependency")
  BY <1>2, <1>3, <1>4
<1>6. /\ Closed(m, T, project) \in RunState
      /\ Closed(m, T, project).tasks = T /\ Closed(m, T, project).order = m.order
  BY <1>2, ClosedIs
<1>7. FinalStatus(m, stuck) \in RunStatus BY DEF FinalStatus, RunStatus
<1> QED BY <1>5, <1>6, <1>7 DEF FinalState, T

\* The state a call leaves behind is as true as the one it had.
LEMMA FinishKeeps == ASSUME DagInv, Finish PROVE DagInv'
<1>1. PICK m \in RunState : m = mem /\ m = saved /\ Known(m, child)
  BY DEF Finish, DagInv, MemoryInv
<1>2. PICK stuck \in BOOLEAN : saved' = Concluded(FinalState(m, stuck), FinalStatus(m, stuck))
  BY <1>1, FinishWrites
<1>3. PICK s : s = saved' OBVIOUS
<1> DEFINE T == FinalTasks(m, stuck)
<1>4. /\ FinalState(m, stuck) \in RunState /\ FinalStatus(m, stuck) \in RunStatus
      /\ FinalState(m, stuck).tasks = T /\ FinalState(m, stuck).order = m.order
      /\ \A t \in Tasks : T[t] = m.tasks[t] \/ (/\ m.tasks[t].status = "pending"
                                                /\ T[t].status = "blocked_dependency")
  BY FinalParts DEF DagInv, DagTypeOK
<1> HIDE DEF T
<1>5. s \in RunState /\ s.tasks = T /\ s.order = m.order BY <1>2, <1>3, <1>4, ConcludedIs
<1>6. Known(s, child)
  <2>1. \A t \in Tasks :
          \/ s.tasks[t].status = m.tasks[t].status
          \/ child[t] = "none" /\ s.tasks[t].status \in {"pending", "running", "blocked_dependency"}
    BY <1>1, <1>4, <1>5 DEF Known
  <2>2. ~(m.tasks[Final].status = "absent" /\ s.tasks[Final].status # "absent")
    BY <1>4, <1>5, TaskKinds
  <2> QED BY <1>1, <1>5, <2>1, <2>2, Rewritten
<1>7. DagTypeOK' BY <1>3, <1>5, LeavesTyped DEF Finish, DagInv, DagTypeOK
<1> QED BY <1>3, <1>5, <1>6, <1>7, Leaves DEF Finish

\* A child that goes on leaves the parent alone.
LEMMA ChildKeeps ==
  ASSUME DagInv, DagTypeOK', ChildInv', UnionInv', UNCHANGED <<parentVars, diskVars>>,
         \A t \in Tasks :
           \/ child'[t] = child[t]
           \/ /\ ~Over(child, t)
              /\ child[t] = "none" => /\ phase = "run" /\ t \in batch.tasks
              /\ phase = "run" => child'[t] # "lost"
  PROVE  DagInv'
<1> USE DEF parentVars, diskVars
<1>1. \A t \in Tasks : child'[t] # child[t] /\ child[t] = "none" =>
        saved # None /\ saved.tasks[t].status = "running"
  BY WorkspaceConstants DEF DagInv, MemoryInv, BatchInv
<1>2. saved # None => Known(saved, child')
  <2>1. PICK s, c, d : s = saved /\ c = child /\ d = child' OBVIOUS
  <2>2. s # None => Known(s, c) BY <2>1 DEF DagInv, DiskInv
  <2>3. \A t \in Tasks : \/ d[t] = c[t]
                         \/ ~Over(c, t) /\ (c[t] = "none" => s.tasks[t].status = "running")
    BY <1>1, <2>1
  <2> QED BY <2>1, <2>2, <2>3, ChildMoves
<1>3. mem # None => Known(mem, child')
  <2>1. PICK s, c, d : s = mem /\ c = child /\ d = child' OBVIOUS
  <2>2. s # None => Known(s, c) BY <2>1 DEF DagInv, MemoryInv
  <2>3. \A t \in Tasks : \/ d[t] = c[t]
                         \/ ~Over(c, t) /\ (c[t] = "none" => s.tasks[t].status = "running")
    BY <2>1 DEF DagInv, BatchInv
  <2> QED BY <2>1, <2>2, <2>3, ChildMoves
<1>4. MemoryInv' BY <1>3, WorkspaceConstants DEF DagInv, MemoryInv
<1>5. DiskInv' BY <1>1, <1>2 DEF DagInv, DiskInv
<1>6. BatchInv'
  <2>1. batch.tasks \subseteq Tasks /\ batch.open \subseteq Tasks BY DEF DagInv, DagTypeOK
  <2>2. \A t \in Tasks : Over(child, t) => Over(child', t) BY DEF Over
  <2>3. phase = "dispatching" => \A t \in batch.tasks : child'[t] = "none"
    BY <2>1 DEF DagInv, BatchInv
  <2>4. phase = "run" => \A t \in batch.tasks : child'[t] # "lost"
    BY <2>1 DEF DagInv, BatchInv
  <2>5. phase \in {"check", "accept"} \/ (phase = "settled" /\ batch.clean) =>
          \A t \in batch.tasks : Over(child', t)
    BY <2>1, <2>2 DEF DagInv, BatchInv
  <2> QED BY <2>1, <2>3, <2>4, <2>5 DEF DagInv, BatchInv
<1> QED BY <1>4, <1>5, <1>6 DEF DagInv

\* A child is started where none was.
LEMMA StartKeeps == ASSUME DagInv, NEW t \in Tasks, StartChild(t) PROVE DagInv'
<1>1. /\ phase = "run" /\ t \in batch.tasks /\ child[t] = "none"
      /\ child' = [child EXCEPT ![t] = "running"] /\ starts' = [starts EXCEPT ![t] = @ + 1]
      /\ UNCHANGED <<parentVars, diskVars, peopleVars, applications, project, writes, edits, calls>>
  BY DEF StartChild, DagInv, BatchInv
<1>2. /\ child \in [Tasks -> ChildPlaces] /\ starts \in [Tasks -> Nat]
  BY DEF DagInv, DagTypeOK
<1>3. /\ child'[t] = "running" /\ \A u \in Tasks \ {t} : child'[u] = child[u]
      /\ starts'[t] = starts[t] + 1 /\ \A u \in Tasks \ {t} : starts'[u] = starts[u]
  BY <1>1, <1>2
<1>4. DagTypeOK'
  <2>1. child' \in [Tasks -> ChildPlaces] BY <1>1, <1>2 DEF ChildPlaces
  <2>2. starts' \in [Tasks -> Nat] BY <1>1, <1>2
  <2> QED BY <1>1, <2>1, <2>2 DEF DagInv, DagTypeOK, parentVars, diskVars, peopleVars
<1>5. ChildInv'
  <2>1. starts[t] = 0 /\ writes[t] = <<>> /\ Len(writes[t]) <= 1
    BY <1>1 DEF DagInv, ChildInv, Course
  <2>2. Course(t)' BY <1>1, <1>3, <2>1 DEF DagInv, ChildInv, Course
  <2>3. ASSUME NEW u \in Tasks \ {t} PROVE Course(u)'
    BY <1>1, <1>3 DEF DagInv, ChildInv, Course
  <2> QED BY <2>2, <2>3 DEF ChildInv
<1>6. UnionInv' BY <1>1, <1>3, TaskKinds DEF DagInv, UnionInv
<1> QED BY <1>1, <1>3, <1>4, <1>5, <1>6, ChildKeeps DEF Over

\* A Project has patches in it, and a prefix of them is a content.
LEMMA Contents ==
  /\ \A p \in Projects : project \in Revisions =>
       project[p] \in Content /\ project[p].patches \subseteq Patches
  /\ \A i \in Patches : Prefix(i) \in Content
  /\ Base \in Content /\ Union.patches = Patches
BY DEF Revisions, Content, Prefix, Base, Union

\* The first line of a journal is the only one.
LEMMA FirstLine ==
  ASSUME NEW S, NEW e \in S
  PROVE  Append(<<>>, e) = <<e>> /\ Len(<<e>>) = 1 /\ <<e>> # <<>> /\ <<e>> \in Seq(S)
OBVIOUS

\* A patch is written once, on the content that was approved.
LEMMA WriteKeeps == ASSUME DagInv, NEW t \in Tasks, Write(t) PROVE DagInv'
<1> DEFINE p == Workspace(t)
           old == project[p]
<1>1. /\ child[t] = "running" /\ writes[t] = <<>> /\ child' = [child EXCEPT ![t] = "wrote"]
      /\ UNCHANGED <<parentVars, diskVars, peopleVars, starts, edits, calls>>
  BY DEF Write, DagInv, ChildInv, Course
<1>2. /\ (t \in Workers \/ t \in Items) /\ t[2] \in Patches /\ p \in Projects
      /\ t \in Items => old = Prefix(t[2])
  BY TaskKinds DEF Write, MayWrite, Workspace
<1>3. /\ child \in [Tasks -> ChildPlaces] /\ writes \in [Tasks -> Seq(Content)]
      /\ project \in Revisions /\ old \in Content
  BY <1>2, Contents DEF DagInv, DagTypeOK
<1>4. /\ child'[t] = "wrote" /\ \A u \in Tasks \ {t} : child'[u] = child[u]
  BY <1>1, <1>3
<1>5. /\ writes' = [writes EXCEPT ![t] = <<old>>]
      /\ writes'[t] = <<old>> /\ \A u \in Tasks \ {t} : writes'[u] = writes[u]
  <2>1. writes' = [writes EXCEPT ![t] = Append(writes[t], old)] BY DEF Write
  <2> HIDE DEF old
  <2>2. Append(writes[t], old) = <<old>> BY <1>1, <1>3, FirstLine
  <2> QED BY <1>3, <2>1, <2>2
<1> DEFINE new == [old EXCEPT !.patches = old.patches \union {t[2]}]
<1>6. /\ project' = [project EXCEPT ![p] = new]
      /\ new \in Content /\ old.patches \subseteq new.patches
  <2>1. t[2] \in Patches BY <1>2, TaskKinds
  <2>2. new \in Content /\ old.patches \subseteq new.patches BY <1>3, <2>1 DEF Content
  <2>3. project' = [project EXCEPT ![p].patches = @ \union {t[2]}] BY DEF Write
  <2>4. project' = [project EXCEPT ![p] = new] BY <1>2, <1>3, <2>3 DEF Revisions
  <2> QED BY <2>2, <2>4
<1> HIDE DEF new, old, p
<1>7. DagTypeOK'
  <2>1. child' \in [Tasks -> ChildPlaces] BY <1>1, <1>3 DEF ChildPlaces
  <2>2. writes' \in [Tasks -> Seq(Content)] BY <1>3, <1>5, FirstLine
  <2>3. project' \in Revisions BY <1>2, <1>3, <1>6 DEF Revisions
  <2>4. applications' \subseteq Patches
    BY <1>2, TaskKinds DEF Write, DagInv, DagTypeOK
  <2> QED BY <1>1, <2>1, <2>2, <2>3, <2>4 DEF DagInv, DagTypeOK, parentVars, diskVars, peopleVars
<1>8. ChildInv'
  <2>1. /\ Len(writes'[t]) = 1 /\ writes'[t] # <<>>
        /\ t \in Items => writes'[t] = <<Prefix(t[2])>>
    BY <1>2, <1>3, <1>5, FirstLine
  <2>2. /\ starts' = starts /\ starts[t] = 1 BY <1>1 DEF DagInv, ChildInv, Course
  <2>3. \A u \in Tasks : u = t \/ (child'[u] = child[u] /\ writes'[u] = writes[u])
    BY <1>4, <1>5
  <2>4. Course(t)' BY <1>4, <2>1, <2>2 DEF Course
  <2>5. ASSUME NEW u \in Tasks \ {t} PROVE Course(u)'
    BY <2>2, <2>3 DEF DagInv, ChildInv, Course
  <2> QED BY <2>4, <2>5 DEF ChildInv
<1>9. UnionInv'
  <2>1. child'[Final] = child[Final] BY <1>2, <1>4, TaskKinds
  <2>2. project[Original].patches \subseteq project'[Original].patches
    BY <1>2, <1>3, <1>6 DEF Revisions, Projects, old
  <2>3. project'[Original].patches \subseteq Patches
    <3>1. project' \in Revisions BY <1>2, <1>3, <1>6 DEF Revisions
    <3>2. PICK q : q = project' OBVIOUS
    <3> QED BY <3>1, <3>2 DEF Revisions, Content, Projects
  <2> QED BY <2>1, <2>2, <2>3 DEF DagInv, UnionInv
<1> QED BY <1>1, <1>4, <1>7, <1>8, <1>9, ChildKeeps DEF Over

\* A child ends: completed with the revision it has to leave behind, or blocked.
LEMMA EndKeeps == ASSUME DagInv, NEW t \in Tasks, EndChild(t) PROVE DagInv'
<1>1. /\ child[t] \in {"running", "wrote"}
      /\ UNCHANGED <<parentVars, diskVars, peopleVars, applications, project, starts, writes,
                     edits, calls>>
  BY DEF EndChild
<1>2. PICK v \in {"completed", "blocked"} :
        /\ child' = [child EXCEPT ![t] = v]
        /\ v = "completed" => /\ t \in Items => child[t] = "wrote"
                              /\ t # Look => project[Workspace(t)] = Result(t)
  BY TaskKinds DEF EndChild
<1>3. child \in [Tasks -> ChildPlaces] BY DEF DagInv, DagTypeOK
<1>4. child'[t] = v /\ \A u \in Tasks \ {t} : child'[u] = child[u] BY <1>2, <1>3
<1>5. DagTypeOK'
  <2>1. child' \in [Tasks -> ChildPlaces] BY <1>2, <1>3 DEF ChildPlaces
  <2> QED BY <1>1, <2>1 DEF DagInv, DagTypeOK, parentVars, diskVars, peopleVars
<1>6. ChildInv'
  <2>1. t \in Items /\ v = "completed" => writes[t] # <<>>
    BY <1>2 DEF DagInv, ChildInv, Course
  <2>2. /\ starts[t] = 1 /\ Len(writes[t]) <= 1
        /\ t \in Items => writes[t] \in {<<>>, <<Prefix(t[2])>>}
    BY <1>1 DEF DagInv, ChildInv, Course
  <2>3. Course(t)' BY <1>1, <1>4, <2>1, <2>2 DEF Course
  <2>4. ASSUME NEW u \in Tasks \ {t} PROVE Course(u)'
    BY <1>1, <1>4 DEF DagInv, ChildInv, Course
  <2> QED BY <2>3, <2>4 DEF ChildInv
<1>7. UnionInv'
  <2>1. CASE t = Final /\ v = "completed"
    <3>1. Workspace(Final) = Original /\ Result(Final) = Union
      BY TaskKinds DEF Workspace, Result
    <3>2. project[Original].patches = Patches BY <1>2, <2>1, <3>1, TaskKinds, Contents
    <3> QED BY <1>1, <3>2 DEF UnionInv
  <2>2. CASE t = Final /\ v # "completed" BY <1>4, <2>2 DEF UnionInv
  <2>3. CASE t # Final
    <3>1. child'[Final] = child[Final] BY <1>4, <2>3, TaskKinds
    <3> QED BY <1>1, <3>1 DEF DagInv, UnionInv
  <2> QED BY <2>1, <2>2, <2>3
<1> QED BY <1>1, <1>4, <1>5, <1>6, <1>7, ChildKeeps DEF Over

\* People plan and approve, and leave everything else alone.
LEMMA PeopleKeep == ASSUME DagInv, PlanIntegration \/ Approve \/ Withdraw PROVE DagInv'
<1>1. /\ UNCHANGED <<parentVars, child, diskVars, applications, project, starts, writes, edits,
                     calls>>
      /\ integration' \in {integration, "planned"} /\ approval' \in {approval, "active", "over"}
  BY DEF PlanIntegration, Approve, Withdraw
<1>2. DagTypeOK' BY <1>1 DEF DagInv, DagTypeOK, parentVars, diskVars
<1>3. MemoryInv' /\ DiskInv' /\ BatchInv'
  BY <1>1 DEF DagInv, MemoryInv, DiskInv, BatchInv, parentVars, diskVars
<1>4. ChildInv' /\ UnionInv' BY <1>1, WorldAlone DEF DagInv
<1> QED BY <1>2, <1>3, <1>4 DEF DagInv

\* The serial tasks are added to a state without them, and so without their children.
LEMMA AddKeeps == ASSUME DagInv, AddItems PROVE DagInv'
<1>1. PICK m \in RunState : m = saved /\ Known(m, child)
  BY DEF AddItems, DagInv, DagTypeOK, DiskInv
<1>2. PICK s : s = saved' OBVIOUS
<1> DEFINE T == [t \in Tasks |-> IF t \in Integration THEN [status |-> "pending", seen |-> None]
                                 ELSE m.tasks[t]]
<1>3. s = WithTasks(m, T) BY <1>1, <1>2 DEF AddItems, WithTasks
<1>4. T \in [Tasks -> TaskRecord]
  <2>1. \A t \in Tasks : m.tasks[t] \in TaskRecord BY StateParts
  <2>2. [status |-> "pending", seen |-> None] \in TaskRecord BY DEF TaskRecord, TaskStatus
  <2> QED BY <2>1, <2>2
<1>5. \A t \in Tasks : T[t].status = IF t \in Integration THEN "pending" ELSE m.tasks[t].status
  OBVIOUS
<1>6. \A t \in Integration : m.tasks[t].status = "absent" /\ child[t] = "none"
  BY <1>1, TaskKinds DEF AddItems, In, Known
<1> HIDE DEF T
<1>7. s \in RunState /\ s.tasks = T /\ s.order = m.order BY <1>3, <1>4, WithTasksIs
<1>8. Known(s, child)
  <2>1. \A t \in Tasks :
          \/ s.tasks[t].status = m.tasks[t].status
          \/ child[t] = "none" /\ s.tasks[t].status \in {"pending", "running", "blocked_dependency"}
    BY <1>5, <1>6, <1>7
  <2>2. \A t \in Items : s.tasks[t].status # "absent" BY <1>5, <1>7, TaskKinds
  <2> QED BY <1>1, <1>7, <2>1, <2>2, Rewritten
<1>9. /\ phase = "idle"
      /\ UNCHANGED <<parentVars, child, events, audited, peopleVars, applications, project, starts,
                     writes, edits, calls>>
  BY DEF AddItems
<1>10. DagTypeOK' BY <1>2, <1>7, <1>9 DEF DagInv, DagTypeOK, parentVars, peopleVars
<1>11. MemoryInv' /\ DiskInv'
  BY <1>2, <1>7, <1>8, <1>9, WorkspaceConstants DEF DagInv, MemoryInv, DiskInv, parentVars
<1>12. BatchInv' BY <1>9 DEF DagInv, BatchInv, parentVars
<1>13. ChildInv' /\ UnionInv' BY <1>9, WorldAlone DEF DagInv
<1> QED BY <1>10, <1>11, <1>12, <1>13 DEF DagInv

\* With the process its children are lost, wherever they are; nothing on disk changes.
LEMMA CrashKeeps == ASSUME DagInv, Crash PROVE DagInv'
<1>1. /\ Raise /\ written' = "none"
      /\ UNCHANGED <<diskVars, peopleVars, applications, project, starts, writes, edits, calls>>
      /\ child' = [t \in Tasks |-> IF child[t] \in {"running", "wrote"} THEN "lost" ELSE child[t]]
  BY DEF Crash
<1>2. \A t \in Tasks : \/ child'[t] = child[t]
                       \/ child[t] \in {"running", "wrote"} /\ child'[t] = "lost"
  BY <1>1
<1>3. DagTypeOK'
  <2>1. child' \in [Tasks -> ChildPlaces] BY <1>1 DEF DagInv, DagTypeOK, ChildPlaces
  <2> QED BY <1>1, <2>1, LeavesTyped DEF DagInv, DagTypeOK, diskVars
<1>4. MemoryInv' BY <1>1 DEF Raise, MemoryInv
<1>5. saved # None => Known(saved, child')
  <2>1. PICK s, c, d : s = saved /\ c = child /\ d = child' OBVIOUS
  <2>2. s # None => Known(s, c) BY <2>1 DEF DagInv, DiskInv
  <2>3. \A t \in Tasks : \/ d[t] = c[t]
                         \/ ~Over(c, t) /\ (c[t] = "none" => s.tasks[t].status = "running")
    BY <1>2, <2>1 DEF Over
  <2> QED BY <2>1, <2>2, <2>3, ChildMoves
<1>6. DiskInv' BY <1>1, <1>2, <1>5 DEF DagInv, DiskInv, diskVars
<1>7. BatchInv' BY <1>1 DEF Raise, BatchInv, NoBatch
<1>8. ChildInv'
  <2> SUFFICES ASSUME NEW t \in Tasks PROVE Course(t)' BY DEF ChildInv
  <2> QED BY <1>1, <1>2 DEF DagInv, ChildInv, Course
<1>9. UnionInv' BY <1>1, <1>2, TaskKinds DEF DagInv, UnionInv
<1> QED BY <1>3, <1>4, <1>6, <1>7, <1>8, <1>9 DEF DagInv

\* An edit leaves the patches where they are.
LEMMA EditKeeps == ASSUME DagInv, NEW p \in Projects, Edit(p) PROVE DagInv'
<1> DEFINE old == project[p]
           new == [old EXCEPT !.edits = old.edits + 1]
<1>1. project \in Revisions /\ old \in Content /\ edits \in Nat
  BY Contents DEF DagInv, DagTypeOK
<1>2. new \in Content /\ new.patches = old.patches
  <2>1. old.edits + 1 \in Nat BY <1>1 DEF Content
  <2> QED BY <1>1, <2>1 DEF Content
<1>3. project' = [project EXCEPT ![p] = new]
  <2>1. project' = [project EXCEPT ![p].edits = @ + 1] BY DEF Edit
  <2>2. project[p].edits \in Nat BY <1>1 DEF Content
  <2> QED BY <1>1, <2>1, <2>2 DEF Revisions
<1>4. /\ edits' = edits + 1
      /\ UNCHANGED <<parentVars, child, diskVars, peopleVars, applications, starts, writes, calls>>
  BY DEF Edit
<1> HIDE DEF new, old
<1>5. DagTypeOK'
  <2>1. project' \in Revisions BY <1>1, <1>2, <1>3 DEF Revisions
  <2>2. edits' \in Nat BY <1>1, <1>4
  <2> QED BY <1>4, <2>1, <2>2 DEF DagInv, DagTypeOK, parentVars, diskVars, peopleVars
<1>6. MemoryInv' /\ DiskInv' /\ BatchInv'
  BY <1>4 DEF DagInv, MemoryInv, DiskInv, BatchInv, parentVars, diskVars
<1>7. ChildInv' BY <1>4 DEF DagInv, ChildInv, Course
<1>8. UnionInv'
  <2>1. project'[Original].patches = project[Original].patches
    <3>1. CASE p = Original BY <1>1, <1>2, <1>3, <3>1 DEF Revisions, old
    <3>2. CASE p # Original
      <4>1. project'[Original] = project[Original] BY <1>3, <3>2, <1>1 DEF Revisions
      <4> QED BY <4>1
    <3> QED BY <3>1, <3>2
  <2> QED BY <1>4, <2>1 DEF DagInv, UnionInv
<1> QED BY <1>5, <1>6, <1>7, <1>8 DEF DagInv

\* At first nothing has happened.
LEMMA InitDag == Init => DagInv
<1> SUFFICES ASSUME Init PROVE DagInv OBVIOUS
<1>1. DagTypeOK BY InitTyped
<1>2. MemoryInv /\ DiskInv BY DEF Init, MemoryInv, DiskInv
<1>3. BatchInv BY DEF Init, BatchInv, NoBatch
<1>4. ChildInv
  <2>1. \A t \in Tasks : child[t] = "none" /\ starts[t] = 0 /\ writes[t] = <<>> BY DEF Init
  <2>2. Len(<<>>) <= 1 OBVIOUS
  <2> QED BY <2>1, <2>2 DEF ChildInv, Course
<1>5. UnionInv BY TaskKinds DEF Init, UnionInv
<1> QED BY <1>1, <1>2, <1>3, <1>4, <1>5 DEF DagInv

\* The invariant is inductive: one lemma per action.
LEMMA StepDag == DagInv /\ [Next]_vars => DagInv'
<1> SUFFICES ASSUME DagInv, [Next]_vars PROVE DagInv'
  OBVIOUS
<1>1. CASE Next
  BY <1>1, DagBegins, SelectKeeps, EventKeeps, DagReports, GiveUpKeeps, CheckKeeps, FinishKeeps,
     PeopleKeep, AddKeeps, CrashKeeps, AcceptKeeps, StartKeeps, WriteKeeps, EndKeeps, EditKeeps
  DEF Next
<1>2. CASE UNCHANGED vars
  <2> USE <1>2 DEF vars, parentVars, diskVars, peopleVars
  <2>1. DagTypeOK' BY DEF DagInv, DagTypeOK
  <2>2. MemoryInv' /\ DiskInv' /\ BatchInv' BY DEF DagInv, MemoryInv, DiskInv, BatchInv
  <2>3. ChildInv' /\ UnionInv' BY WorldAlone DEF DagInv
  <2> QED BY <2>1, <2>2, <2>3 DEF DagInv
<1> QED BY <1>1, <1>2

\* The invariant of the run always holds.
LEMMA DagInvariant == Spec => []DagInv
BY InitDag, StepDag, PTL DEF Spec

\* The types of the parent, of the files, of the children and of the Projects.
THEOREM DagTypes == Spec => []DagTypeOK
<1>1. DagInv => DagTypeOK BY DEF DagInv
<1> QED BY <1>1, DagInvariant, PTL

\* However often the parent dies and is resumed, a child Run is started once at most and its
\* patch is written once at most.
THEOREM ChildrenOnce == Spec => []ChildStartedOnce
<1>1. DagInv => ChildStartedOnce BY DEF DagInv, ChildInv, Course, ChildStartedOnce
<1> QED BY <1>1, DagInvariant, PTL

\* A Run that may be resumed leaves no child unanswered and no result unaccepted.
THEOREM ResumeIsComplete == Spec => []ResumableIsComplete
<1>1. ASSUME DagInv PROVE ResumableIsComplete
  <2> SUFFICES ASSUME Resumable, NEW t \in Tasks, starts[t] > 0
               PROVE  ~Busy(t) /\ \E n \in DOMAIN saved.order : saved.order[n] = t
    BY DEF ResumableIsComplete
  <2>1. child[t] # "none" BY <1>1 DEF DagInv, ChildInv, Course
  <2>2. Known(saved, child) /\ saved.tasks[t].status # "running"
    BY <1>1 DEF Resumable, In, DagInv, DiskInv
  <2>3. saved.tasks[t].status \in {"verified", "blocked"} BY <2>1, <2>2 DEF Known
  <2> QED BY <2>2, <2>3 DEF Known, Over, Busy
<1> QED BY <1>1, DagInvariant, PTL

\* A Run that integrated and is called verified left the exact union of both patches, each
\* written once on the revision that was approved.
THEOREM UnionIsExact == Spec => UnionExact
<1>1. ASSUME DagInv, Finish, saved'.status = "verified", Final \in Planned(saved)
      PROVE  /\ project[Original] = saved.tasks[Final].seen[Original]
             /\ project[Original].patches = Patches
             /\ \A i \in Patches :
                  /\ saved.tasks[Worker(i)].status = "verified"
                  /\ writes[Item(i)] = <<Prefix(i)>>
  <2>1. PICK m \in RunState : m = mem /\ m = saved /\ Known(m, child)
    BY <1>1 DEF Finish, DagInv, MemoryInv
  <2>2. PICK stuck \in BOOLEAN : saved' = Concluded(FinalState(m, stuck), FinalStatus(m, stuck))
    BY <1>1, <2>1, FinishWrites
  <2> DEFINE T == FinalTasks(m, stuck)
             state == FinalState(m, stuck)
  <2>3. /\ state \in RunState /\ FinalStatus(m, stuck) \in RunStatus /\ state.tasks = T
        /\ \A t \in Tasks : T[t] = m.tasks[t] \/ (/\ m.tasks[t].status = "pending"
                                                  /\ T[t].status = "blocked_dependency")
    BY <1>1, FinalParts DEF DagInv, DagTypeOK
  <2>4. In(state, "verified") = Planned(state) /\ FinalGates(state)
    <3>1. PICK s : s = saved' OBVIOUS
    <3>2. s.status = FinalStatus(m, stuck) BY <2>2, <2>3, <3>1, ConcludedIs
    <3> QED BY <1>1, <3>1, <3>2 DEF FinalStatus
  <2> HIDE DEF T, state
  <2>5. \A t \in Tasks : m.tasks[t].status # "absent" =>
          m.tasks[t].status = "verified" /\ T[t] = m.tasks[t]
    BY <2>3, <2>4 DEF In, Planned
  <2>6. m.tasks[Final].status # "absent" BY <1>1, <2>1, TaskKinds DEF Planned, In
  <2>7. m.tasks[Final].status = "verified" /\ T[Final] = m.tasks[Final] BY <2>5, <2>6, TaskKinds
  <2>8. T[Final].seen = project
    <3>1. Final \in Planned(state) BY <2>3, <2>6, <2>7, TaskKinds DEF Planned, In
    <3> QED BY <2>3, <2>4, <3>1 DEF FinalGates
  <2>9. project[Original].patches = Patches
    BY <1>1, <2>1, <2>7, TaskKinds DEF Known, DagInv, UnionInv
  <2>10. ASSUME NEW i \in Patches
         PROVE  m.tasks[Worker(i)].status = "verified" /\ writes[Item(i)] = <<Prefix(i)>>
    <3>1. Worker(i) \in Workers /\ Item(i) \in Items /\ Item(i)[2] = i BY TaskKinds
    <3>2. m.tasks[Worker(i)].status = "verified" BY <2>1, <2>5, <3>1, TaskKinds DEF Known
    <3>3. child[Item(i)] = "completed" BY <2>1, <2>5, <2>6, <3>1, TaskKinds DEF Known
    <3>4. writes[Item(i)] = <<Prefix(i)>>
      BY <1>1, <3>1, <3>3, TaskKinds DEF DagInv, ChildInv, Course
    <3> QED BY <3>2, <3>4
  <2> QED BY <2>1, <2>7, <2>8, <2>9, <2>10
<1>2. DagInv /\ [Next]_vars =>
        [Finish /\ saved'.status = "verified" /\ Final \in Planned(saved) =>
           /\ project[Original] = saved.tasks[Final].seen[Original]
           /\ project[Original].patches = Patches
           /\ \A i \in Patches :
                /\ saved.tasks[Worker(i)].status = "verified"
                /\ writes[Item(i)] = <<Prefix(i)>>]_vars
  BY <1>1
<1> QED BY <1>2, DagInvariant, PTL DEF UnionExact, Spec

-----------------------------------------------------------------------------
(* CameraLive: what a live Run with a gate record is proof of.             *)

LiveSteps == {"stop", "prepare", "open", "scene", "hash", "inspect", "plan", "preview", "keep",
              "resume", "again", "review", "apply", "capture", "after", "saved", "verify", "write",
              "record", "close"}
AfterApply == {"capture", "after", "saved", "verify", "write", "record"}

\* A sitting that goes on, and one that has ended.
Holding ==
  [at : LiveSteps, order : LiveOrder, hash : SceneContents, seen : SceneContents, design : Nat,
   consent : Nat, applied : [from : SceneContents, to : SceneContents] \union {Untold},
   after : SceneContents, report : Report \union {Untold}]
Ended == [at : {"ended"}, order : LiveOrder, outcome : {"none", "blocked", "failed", "passed"}]

\* What one of them may rely on, at each of its steps.
HasPlan(h) == h.design \in DOMAIN designs /\ designs[h.design].base = h.seen

IsReviewed(h, r) ==
  /\ pending[r] # Untold
  /\ pending[r].design = h.design /\ pending[r].hash = h.hash /\ pending[r].seen = h.seen

WasApplied(h) ==
  \E m \in changed : m.design = h.design /\ h.applied = [from |-> m.from, to |-> m.to]

Relies(h) ==
  /\ h.at \in {"preview", "keep"} => HasPlan(h)
  /\ h.at = "resume" => pending[h.order.run] # Untold
  /\ h.at \in {"again", "review", "apply"} \union AfterApply => IsReviewed(h, h.order.run)
  /\ h.at \notin {"apply", "close"} \union AfterApply =>
       h.consent = h.order.consent /\ h.consent <= Len(consents)
  /\ h.at = "apply" => h.consent \in DOMAIN consents
  /\ h.at \in AfterApply => WasApplied(h)
  /\ h.at \in {"write", "record"} =>
       /\ h.report \in Report /\ h.report.hash = h.hash /\ h.report.seen = h.seen
       /\ h.report.design = h.design /\ h.report.applied = h.applied
       /\ h.report.applied.to = h.report.after
  /\ h.at = "record" => told[h.order.run] = h.report
  /\ h.at = "close" => proven[h.order.run] # Untold

Knows(h) ==
  \/ h = NotBegun
  \/ h \in Ended /\ (h.outcome = "passed" => proven[h.order.run] # Untold)
  \/ h \in Holding /\ Relies(h)

\* The files, the Editor, and what was done in it.
LiveTypes ==
  /\ onDisk \in SceneContents /\ inEditor \in SceneContents \union {Shut} /\ sources \in {0, 1}
  /\ designs \in Seq([run : LiveRuns, base : SceneContents])
  /\ remembers \subseteq DOMAIN designs
  /\ consents \in Seq([design : Nat, spent : BOOLEAN])
  /\ pending \in [LiveRuns -> Review \union {Untold}]
  /\ told \in [LiveRuns -> Report \union {Untold}]
  /\ proven \in [LiveRuns -> Report \union {Untold}]
  /\ changed \subseteq [design : Nat, consent : Nat, from : SceneContents, to : SceneContents]

\* A plan is applied once, to the scene it was made for, by an approval of it that is spent.
AppliedOnce ==
  /\ \A m \in changed :
       /\ m.design \in DOMAIN designs \ remembers
       /\ m.consent \in DOMAIN consents
       /\ consents[m.consent] = [design |-> m.design, spent |-> TRUE]
       /\ m.from = designs[m.design].base /\ m.to = [m.from EXCEPT !.fov = FovAfter]
  /\ \A m, n \in changed : m.design = n.design => m = n

ReviewsKept == \A r \in LiveRuns : pending[r] # Untold => HasPlan(pending[r])

ProofsKept ==
  \A r \in LiveRuns : proven[r] # Untold =>
    /\ told[r] = proven[r] /\ IsReviewed(proven[r], r) /\ WasApplied(proven[r])
    /\ proven[r].applied.to = proven[r].after

Files == LiveTypes /\ AppliedOnce /\ ReviewsKept /\ ProofsKept

GoalProven == goal.terminal = "GOAL_COMPLETE" => goal.run \in LiveRuns /\ proven[goal.run] # Untold

CameraInv ==
  /\ Files /\ GoalProven
  /\ DOMAIN sitting = LiveNumbers /\ \A s \in LiveNumbers : Knows(sitting[s])

\* The invariant of the camera run holds at first.
LEMMA InitCamera == LiveInit => CameraInv
BY LiveConstants
   DEF LiveInit, CameraInv, Files, LiveTypes, AppliedOnce, ReviewsKept, ProofsKept, GoalProven,
       Knows

\* Plans, approvals, what is left for review, reports, records and mutations only come to it.
Grows ==
  /\ Len(consents) <= Len(consents') /\ DOMAIN consents \subseteq DOMAIN consents'
  /\ \A d \in DOMAIN designs : d \in DOMAIN designs' /\ designs'[d] = designs[d]
  /\ \A r \in LiveRuns :
       /\ pending[r] # Untold => pending'[r] = pending[r]
       /\ told[r] # Untold => told'[r] = told[r]
       /\ proven[r] # Untold => proven'[r] # Untold
  /\ changed \subseteq changed'

\* So what a sitting relies on stays.
LEMMA StillKnows ==
  ASSUME LiveTypes, Grows, NEW h, Knows(h)
  PROVE  Knows(h)'
<1>1. CASE h \in Ended /\ (h.outcome = "passed" => proven[h.order.run] # Untold)
  <2>1. h.order.run \in LiveRuns
    BY <1>1 DEF Ended, LiveOrder
  <2> QED BY <1>1, <2>1 DEF Knows, Grows
<1>2. CASE h \in Holding /\ Relies(h)
  <2>1. h.order.run \in LiveRuns /\ h.consent \in Nat /\ Untold \notin Report
    BY <1>2, LiveConstants DEF Holding, LiveOrder
  <2>2. h.consent <= Len(consents) => h.consent <= Len(consents')
    BY <2>1 DEF Grows, LiveTypes
  <2>3. Relies(h)'
    BY <1>2, <2>1, <2>2 DEF Relies, Grows, HasPlan, IsReviewed, WasApplied
  <2> QED BY <1>2, <2>3 DEF Knows
<1> QED BY <1>1, <1>2 DEF Knows

\* A step of one sitting, and of whatever it works on.
LEMMA AllStillKnow ==
  ASSUME CameraInv, NEW s \in LiveNumbers, NEW h, sitting' = [sitting EXCEPT ![s] = h],
         Grows, Knows(h)'
  PROVE  DOMAIN sitting' = LiveNumbers /\ \A q \in LiveNumbers : Knows(sitting[q])'
<1>1. DOMAIN sitting' = LiveNumbers
  BY DEF CameraInv
<1>2. ASSUME NEW q \in LiveNumbers PROVE Knows(sitting[q])'
  <2>1. PICK k : k = sitting[q] /\ Knows(k)
    BY DEF CameraInv
  <2>2. Knows(k)'
    BY <2>1, StillKnows DEF CameraInv, Files
  <2>3. CASE q = s
    <3>1. sitting'[q] = h
      BY <2>3 DEF CameraInv
    <3> QED BY <3>1 DEF Knows, Relies, HasPlan, IsReviewed, WasApplied
  <2>4. CASE q # s
    <3>1. sitting'[q] = k
      BY <2>1, <2>4
    <3> QED BY <2>2, <3>1 DEF Knows, Relies, HasPlan, IsReviewed, WasApplied
  <2> QED BY <2>3, <2>4
<1> QED BY <1>1, <1>2

\* A step of one sitting that only adds to the files, and knows what they say, keeps it.
LEMMA SittingStep ==
  ASSUME CameraInv, NEW s \in LiveNumbers, NEW h, sitting' = [sitting EXCEPT ![s] = h],
         Grows, Files', Knows(h)', UNCHANGED goal
  PROVE  CameraInv'
<1>1. GoalProven'
  BY DEF GoalProven, CameraInv, Grows
<1> QED BY <1>1, AllStillKnow DEF CameraInv

\* A sitting under way has what it relies on.
LEMMA HoldingAt ==
  ASSUME CameraInv, NEW s \in LiveNumbers, Held(s).at \notin {"idle", "ended"}
  PROVE  sitting[s] \in Holding /\ Relies(sitting[s])
BY DEF CameraInv, Knows, Held, NotBegun, Ended

\* Steps that leave the plans, the approvals and the files alone.
LEMMA FilesStay ==
  ASSUME Files, UNCHANGED <<designs, consents, pending, told, proven, changed>>,
         onDisk' \in SceneContents, inEditor' \in SceneContents \union {Shut}, sources' \in {0, 1},
         remembers' \subseteq remembers
  PROVE  Files' /\ Grows
<1>1. Grows
  BY DEF Grows, Files, LiveTypes
<1>2. LiveTypes' /\ AppliedOnce' /\ ReviewsKept' /\ ProofsKept'
  BY DEF Files, LiveTypes, AppliedOnce, ReviewsKept, ProofsKept, HasPlan, IsReviewed, WasApplied
<1> QED BY <1>1, <1>2 DEF Files

\* A sitting that ends says that it passed only with a gate record.
LEMMA SittingEnds ==
  ASSUME CameraInv, NEW s \in LiveNumbers, sitting[s] \in Holding,
         NEW how \in {"blocked", "failed", "passed"}, EndsWith(s, how),
         how = "passed" => proven'[sitting[s].order.run] # Untold,
         Files', Grows, UNCHANGED goal
  PROVE  CameraInv'
<1>1. PICK h : h = AnswerOf(Order(s), how)
  OBVIOUS
<1>2. h \in Ended /\ h.order = sitting[s].order /\ h.outcome \in {"none", how}
  BY <1>1 DEF AnswerOf, Order, Ended, Holding
<1>3. Knows(h)'
  BY <1>2 DEF Knows
<1>4. sitting' = [sitting EXCEPT ![s] = h]
  BY <1>1 DEF EndsWith
<1> QED BY <1>3, <1>4, SittingStep

\* A sitting that goes on keeps what it has, but for its step.
Same(h, k) ==
  /\ h.order = k.order /\ h.hash = k.hash /\ h.seen = k.seen /\ h.design = k.design
  /\ h.consent = k.consent /\ h.applied = k.applied /\ h.after = k.after /\ h.report = k.report

\* A sitting that goes on holds what it held.
LEMMA GoesOn ==
  ASSUME NEW s \in LiveNumbers, sitting[s] \in Holding, NEW to \in LiveSteps, Goes(s, to)
  PROVE  \E h \in Holding :
           h.at = to /\ Same(h, sitting[s]) /\ sitting' = [sitting EXCEPT ![s] = h]
<1>1. PICK k \in Holding : k = sitting[s]
  OBVIOUS
<1>2. PICK h : h = [k EXCEPT !.at = to]
  OBVIOUS
<1>3. h \in Holding /\ h.at = to /\ Same(h, k)
  BY <1>2 DEF Holding, Same
<1>4. sitting' = [sitting EXCEPT ![s] = h]
  BY <1>1, <1>2 DEF Goes
<1> QED BY <1>1, <1>3, <1>4

\* And one that learns something holds that.
LEMMA LearnsSomething ==
  ASSUME NEW s \in LiveNumbers, NEW k \in Holding, NEW to \in LiveSteps, Learns(s, to, k)
  PROVE  \E h \in Holding :
           h.at = to /\ Same(h, k) /\ sitting' = [sitting EXCEPT ![s] = h]
<1>1. PICK h : h = [k EXCEPT !.at = to]
  OBVIOUS
<1>2. h \in Holding /\ h.at = to /\ Same(h, k)
  BY <1>1 DEF Holding, Same
<1>3. sitting' = [sitting EXCEPT ![s] = h]
  BY <1>1 DEF Learns
<1> QED BY <1>2, <1>3

\* A step that only looks, or stops, keeps the invariant.
LEMMA LookingSteps ==
  ASSUME CameraInv, NEW s \in LiveNumbers,
         \/ StopFixtureEditor(s) \/ PrepareFixture(s) \/ OpenEditor(s) \/ OpenScene(s)
            \/ HashScene(s)
         \/ InspectBefore(s) \/ PreviewFov(s) \/ ResumePending(s) \/ InspectAgain(s) \/ Capture(s)
         \/ InspectAfter(s) \/ CheckUnsaved(s) \/ VerifyReport(s) \/ CloseFixture(s)
         \/ \E how \in {"blocked", "failed"} : StopSitting(s, how)
  PROVE  CameraInv'
<1>1. sitting[s] \in Holding /\ Relies(sitting[s])
  BY HoldingAt
     DEF StopFixtureEditor, PrepareFixture, OpenEditor, OpenScene, HashScene, InspectBefore,
         PreviewFov, ResumePending, InspectAgain, Capture, InspectAfter, CheckUnsaved, VerifyReport,
         CloseFixture, StopSitting
<1>2. Files' /\ Grows /\ UNCHANGED <<designs, consents, pending, told, proven, changed, goal>>
  <2>1. Files
    BY DEF CameraInv
  <2>2. UNCHANGED <<designs, consents, pending, told, proven, changed, goal>>
    BY DEF StopFixtureEditor, PrepareFixture, OpenEditor, OpenScene, HashScene, InspectBefore,
           PreviewFov, ResumePending, InspectAgain, Capture, InspectAfter, CheckUnsaved,
           VerifyReport, CloseFixture, StopSitting
  <2>3. /\ onDisk' \in SceneContents /\ inEditor' \in SceneContents \union {Shut}
           /\ sources' \in {0, 1}
        /\ remembers' \subseteq remembers
    BY <2>1, LiveConstants
       DEF StopFixtureEditor, PrepareFixture, OpenEditor, OpenScene, HashScene, InspectBefore,
           PreviewFov, ResumePending, InspectAgain, Capture, InspectAfter, CheckUnsaved,
           VerifyReport, CloseFixture, StopSitting, Files, LiveTypes
  <2> QED BY <2>1, <2>2, <2>3, FilesStay
<1>3. CASE \E how \in {"blocked", "failed"} : EndsWith(s, how)
  BY <1>1, <1>2, <1>3, SittingEnds
<1>4. CASE CloseFixture(s)
  <2>1. proven'[sitting[s].order.run] # Untold
    BY <1>1, <1>2, <1>4 DEF CloseFixture, Held, Relies
  <2> QED BY <1>1, <1>2, <1>4, <2>1, SittingEnds DEF CloseFixture
<1>5. CASE \E to \in {"prepare", "open", "hash", "scene", "keep", "review", "after", "verify"} :
             /\ Goes(s, to)
             /\ to = "keep" => sitting[s].at = "preview"
             /\ to = "review" => sitting[s].at = "again"
             /\ to = "after" => sitting[s].at = "capture"
             /\ to = "verify" => sitting[s].at = "saved"
             /\ to \in {"prepare", "open", "hash", "scene"} =>
                  sitting[s].at \in {"stop", "prepare", "open", "scene"}
  <2>1. PICK to \in {"prepare", "open", "hash", "scene", "keep", "review", "after", "verify"} :
             /\ Goes(s, to)
             /\ to = "keep" => sitting[s].at = "preview"
             /\ to = "review" => sitting[s].at = "again"
             /\ to = "after" => sitting[s].at = "capture"
             /\ to = "verify" => sitting[s].at = "saved"
             /\ to \in {"prepare", "open", "hash", "scene"} =>
                  sitting[s].at \in {"stop", "prepare", "open", "scene"}
    BY <1>5
  <2>2. to \in LiveSteps
    BY DEF LiveSteps
  <2>3. PICK h \in Holding : h.at = to /\ Same(h, sitting[s])
             /\ sitting' = [sitting EXCEPT ![s] = h]
    BY <1>1, <2>1, <2>2, GoesOn
  <2>4. Relies(h)'
    BY <1>1, <1>2, <2>1, <2>3 DEF Relies, AfterApply, Same, HasPlan, IsReviewed, WasApplied
  <2> QED BY <1>2, <2>3, <2>4, SittingStep DEF Knows
<1>6. CASE HashScene(s) /\ sitting[s].at = "hash"
           /\ Learns(s, "inspect", [Held(s) EXCEPT !.hash = onDisk])
  <2>1. PICK k : k = [sitting[s] EXCEPT !.hash = onDisk]
    OBVIOUS
  <2>2. k \in Holding /\ k.order = sitting[s].order /\ k.consent = sitting[s].consent
    BY <1>1, <2>1 DEF Holding, CameraInv, Files, LiveTypes
  <2>3. PICK h \in Holding : h.at = "inspect" /\ Same(h, k) /\ sitting' = [sitting EXCEPT ![s] = h]
    BY <1>6, <2>1, <2>2, LearnsSomething DEF Held, LiveSteps
  <2>4. Relies(h)'
    BY <1>1, <1>2, <1>6, <2>2, <2>3 DEF Relies, AfterApply, Same
  <2> QED BY <1>2, <2>3, <2>4, SittingStep DEF Knows
<1>7. CASE InspectBefore(s) /\ Learns(s, "plan", [Held(s) EXCEPT !.seen = inEditor])
  <2>1. PICK k : k = [sitting[s] EXCEPT !.seen = inEditor]
    OBVIOUS
  <2>2. k \in Holding /\ k.order = sitting[s].order /\ k.consent = sitting[s].consent
    BY <1>1, <1>7, <2>1 DEF Holding, CameraInv, Files, LiveTypes, InspectBefore
  <2>3. PICK h \in Holding : h.at = "plan" /\ Same(h, k) /\ sitting' = [sitting EXCEPT ![s] = h]
    BY <1>7, <2>1, <2>2, LearnsSomething DEF Held, LiveSteps
  <2>4. Relies(h)'
    BY <1>1, <1>2, <1>7, <2>2, <2>3 DEF Relies, AfterApply, Same, InspectBefore, Held
  <2> QED BY <1>2, <2>3, <2>4, SittingStep DEF Knows
<1>8. CASE InspectAfter(s) /\ Learns(s, "saved", [Held(s) EXCEPT !.after = inEditor])
  <2>1. PICK k : k = [sitting[s] EXCEPT !.after = inEditor]
    OBVIOUS
  <2>2. /\ k \in Holding /\ k.order = sitting[s].order /\ k.hash = sitting[s].hash
        /\ k.seen = sitting[s].seen /\ k.design = sitting[s].design
           /\ k.applied = sitting[s].applied
    BY <1>1, <1>8, <2>1 DEF Holding, CameraInv, Files, LiveTypes, InspectAfter
  <2>3. PICK h \in Holding : h.at = "saved" /\ Same(h, k) /\ sitting' = [sitting EXCEPT ![s] = h]
    BY <1>8, <2>1, <2>2, LearnsSomething DEF Held, LiveSteps
  <2>4. Relies(h)'
    BY <1>1, <1>2, <1>8, <2>2, <2>3
       DEF Relies, AfterApply, Same, InspectAfter, Held, IsReviewed, WasApplied
  <2> QED BY <1>2, <2>3, <2>4, SittingStep DEF Knows
<1>9. CASE VerifyReport(s) /\ VerifiedLive(ReportOf(s))
           /\ Learns(s, "write", [Held(s) EXCEPT !.report = ReportOf(s)])
  <2>1. PICK t : t = ReportOf(s)
    OBVIOUS
  <2>2. sitting[s].at = "verify" /\ WasApplied(sitting[s])
    BY <1>1, <1>9 DEF VerifyReport, Held, Relies, AfterApply
  <2>3. /\ t \in Report /\ t.hash = sitting[s].hash /\ t.seen = sitting[s].seen
        /\ t.design = sitting[s].design /\ t.applied = sitting[s].applied /\ t.applied.to = t.after
    BY <1>1, <1>9, <2>1, <2>2
       DEF ReportOf, Report, VerifiedLive, RevisionsFollow, Held, Order, Holding, LiveOrder,
           CameraInv, Files, LiveTypes, WasApplied
  <2>4. PICK k : k = [sitting[s] EXCEPT !.report = t]
    OBVIOUS
  <2>5. /\ k \in Holding /\ k.order = sitting[s].order /\ k.hash = sitting[s].hash /\ k.report = t
        /\ k.seen = sitting[s].seen /\ k.design = sitting[s].design
           /\ k.applied = sitting[s].applied
    BY <1>1, <2>3, <2>4 DEF Holding
  <2>6. PICK h \in Holding : h.at = "write" /\ Same(h, k) /\ sitting' = [sitting EXCEPT ![s] = h]
    BY <1>9, <2>1, <2>4, <2>5, LearnsSomething DEF Held, LiveSteps
  <2>7. Relies(h)'
    BY <1>1, <1>2, <2>2, <2>3, <2>5, <2>6 DEF Relies, AfterApply, Same, IsReviewed, WasApplied
  <2> QED BY <1>2, <2>6, <2>7, SittingStep DEF Knows
<1>10. CASE ResumePending(s)
            /\ Learns(s, "again", [Held(s) EXCEPT !.hash = pending[Order(s).run].hash,
                       !.seen = pending[Order(s).run].seen,
                         !.design = pending[Order(s).run].design])
  <2>1. PICK r \in LiveRuns : r = sitting[s].order.run
    BY <1>1 DEF Holding, LiveOrder
  <2>2. PICK w \in Review : w = pending[r]
    BY <1>1, <1>10, <2>1 DEF ResumePending, Held, Relies, CameraInv, Files, LiveTypes
  <2>3. PICK k : k = [sitting[s] EXCEPT !.hash = w.hash, !.seen = w.seen, !.design = w.design]
    OBVIOUS
  <2>4. /\ k \in Holding /\ k.order = sitting[s].order /\ k.consent = sitting[s].consent
        /\ k.hash = w.hash /\ k.seen = w.seen /\ k.design = w.design
    BY <1>1, <2>2, <2>3 DEF Holding, Review
  <2>5. Learns(s, "again", k)
    BY <1>10, <2>1, <2>2, <2>3 DEF Held, Order
  <2>6. PICK h \in Holding : h.at = "again" /\ Same(h, k) /\ sitting' = [sitting EXCEPT ![s] = h]
    BY <2>4, <2>5, LearnsSomething DEF LiveSteps
  <2>7. w # Untold
    BY LiveConstants
  <2>8. Relies(h)'
    BY <1>1, <1>2, <1>10, <2>1, <2>2, <2>4, <2>6, <2>7
       DEF Relies, AfterApply, Same, IsReviewed, ResumePending, Held
  <2> QED BY <1>2, <2>6, <2>8, SittingStep DEF Knows
<1> QED
  <2>1. CASE StopFixtureEditor(s) \/ PrepareFixture(s) \/ OpenEditor(s) \/ OpenScene(s)
             \/ PreviewFov(s)
    BY <1>3, <1>5, <2>1
       DEF StopFixtureEditor, PrepareFixture, OpenEditor, OpenScene, PreviewFov, Held
  <2>2. CASE InspectAgain(s) \/ Capture(s) \/ CheckUnsaved(s)
    BY <1>3, <1>5, <2>2 DEF InspectAgain, Capture, CheckUnsaved, Held
  <2>3. CASE HashScene(s) \/ InspectBefore(s) \/ InspectAfter(s) \/ VerifyReport(s)
    BY <1>3, <1>6, <1>7, <1>8, <1>9, <2>3
       DEF HashScene, InspectBefore, InspectAfter, VerifyReport, Held
  <2>4. CASE ResumePending(s)
    BY <1>3, <1>10, <2>4 DEF ResumePending
  <2>5. CASE CloseFixture(s) \/ \E how \in {"blocked", "failed"} : StopSitting(s, how)
    BY <1>3, <1>4, <2>5 DEF StopSitting
  <2> QED BY <2>1, <2>2, <2>3, <2>4, <2>5

-----------------------------------------------------------------------------
(* The steps that add to the files.                                          *)

\* So does the beginning of a sitting,
LEMMA BeginKeeps ==
  ASSUME CameraInv, NEW s \in LiveNumbers, NEW o \in LiveOrders, BeginSitting(s, o)
  PROVE  CameraInv'
<1>1. o \in LiveOrder /\ o.run \in LiveRuns /\ BaseScene \in SceneContents
  BY LiveConstants DEF LiveOrder
<1>2. PICK h : h = [at |-> IF Resuming(o) THEN "resume" ELSE IF o.fixture THEN "stop" ELSE "open",
        order |-> o, hash |-> BaseScene, seen |-> BaseScene, design |-> 0,
        consent |-> o.consent, applied |-> Untold, after |-> BaseScene, report |-> Untold]
  OBVIOUS
<1>3. h \in Holding
  BY <1>1, <1>2 DEF Holding, LiveSteps, LiveOrder
<1>4. Files' /\ Grows /\ UNCHANGED goal
  <2>1. Files
    BY DEF CameraInv
  <2> QED BY <2>1, FilesStay DEF BeginSitting, Files, LiveTypes
<1>5. /\ h.at \in {"resume", "stop", "open"} /\ (h.at = "resume" => Resuming(o))
      /\ h.order = o /\ h.consent = o.consent
  BY <1>2
<1>6. Relies(h)'
  BY <1>4, <1>5 DEF Relies, BeginSitting, Resuming, AfterApply, CameraInv, Files, LiveTypes
<1>7. sitting' = [sitting EXCEPT ![s] = h]
  BY <1>2 DEF BeginSitting
<1> QED BY <1>3, <1>4, <1>6, <1>7, SittingStep DEF Knows

\* the design of a field of view,
LEMMA PlanKeeps ==
  ASSUME CameraInv, NEW s \in LiveNumbers, PlanFov(s)
  PROVE  CameraInv'
<1>1. sitting[s] \in Holding /\ Relies(sitting[s])
  BY HoldingAt DEF PlanFov
<1>2. PICK d \in Nat : d = Len(designs) + 1
  BY DEF CameraInv, Files, LiveTypes
<1>3. PICK p \in [run : LiveRuns, base : SceneContents] :
        p = [run |-> Order(s).run, base |-> inEditor]
  BY <1>1 DEF PlanFov, CameraInv, Files, LiveTypes, Holding, LiveOrder, Order
<1>4. /\ designs' = Append(designs, p) /\ remembers' = remembers \union {d}
      /\ UNCHANGED <<onDisk, inEditor, sources, consents, pending, told, proven, goal, changed>>
  BY <1>2, <1>3 DEF PlanFov
<1>5. /\ designs' \in Seq([run : LiveRuns, base : SceneContents])
      /\ DOMAIN designs' = DOMAIN designs \union {d} /\ d \notin DOMAIN designs
      /\ designs'[d] = p /\ \A k \in DOMAIN designs : designs'[k] = designs[k]
  BY <1>2, <1>4 DEF CameraInv, Files, LiveTypes
<1>6. Grows
  BY <1>4, <1>5 DEF Grows, CameraInv, Files, LiveTypes
<1>7. Files'
  <2>1. LiveTypes'
    BY <1>4, <1>5 DEF CameraInv, Files, LiveTypes
  <2>2. AppliedOnce'
    BY <1>4, <1>5 DEF CameraInv, Files, AppliedOnce
  <2>3. ReviewsKept' /\ ProofsKept'
    BY <1>4, <1>5 DEF CameraInv, Files, ReviewsKept, ProofsKept, HasPlan, IsReviewed, WasApplied
  <2> QED BY <2>1, <2>2, <2>3 DEF Files
<1>8. CASE EndsWith(s, "failed")
  BY <1>1, <1>4, <1>6, <1>7, <1>8, SittingEnds
<1>9. CASE Learns(s, "preview", [Held(s) EXCEPT !.design = d]) /\ inEditor = Held(s).seen
  <2>1. PICK k : k = [sitting[s] EXCEPT !.design = d]
    OBVIOUS
  <2>2. /\ k \in Holding /\ k.order = sitting[s].order /\ k.consent = sitting[s].consent
        /\ k.seen = sitting[s].seen /\ k.design = d
    BY <1>1, <2>1 DEF Holding
  <2>3. PICK h \in Holding : h.at = "preview" /\ Same(h, k) /\ sitting' = [sitting EXCEPT ![s] = h]
    BY <1>9, <2>1, <2>2, LearnsSomething DEF Held, LiveSteps
  <2>4. Relies(h)'
    BY <1>1, <1>3, <1>4, <1>5, <1>9, <2>2, <2>3
       DEF Relies, AfterApply, Same, HasPlan, Held, PlanFov
  <2> QED BY <1>4, <1>6, <1>7, <2>3, <2>4, SittingStep DEF Knows
<1> QED BY <1>2, <1>8, <1>9 DEF PlanFov

\* the record of a pending design,
LEMMA PendingKeeps ==
  ASSUME CameraInv, NEW s \in LiveNumbers, KeepPending(s)
  PROVE  CameraInv'
<1>1. sitting[s] \in Holding /\ Relies(sitting[s]) /\ sitting[s].at = "keep"
  BY HoldingAt DEF KeepPending, Held
<1>2. PICK r \in LiveRuns : r = sitting[s].order.run
  BY <1>1 DEF Holding, LiveOrder
<1>3. UNCHANGED <<onDisk, inEditor, remembers, sources, designs, consents, told, proven, goal,
        changed>>
  BY DEF KeepPending
<1>4. CASE pending[r] # Untold
  <2>1. EndsWith(s, "failed") /\ UNCHANGED pending
    BY <1>2, <1>4 DEF KeepPending, Order
  <2>2. Files' /\ Grows
    <3>1. Files
      BY DEF CameraInv
    <3> QED BY <1>3, <2>1, <3>1, FilesStay DEF Files, LiveTypes
  <2> QED BY <1>1, <1>3, <2>1, <2>2, SittingEnds
<1>5. CASE pending[r] = Untold
  <2>1. PICK w : w = ToReview(s)
    OBVIOUS
  <2>2. /\ w \in Review /\ w.hash = sitting[s].hash /\ w.seen = sitting[s].seen
        /\ w.design = sitting[s].design
    BY <1>1, <2>1
       DEF ToReview, Review, Held, Order, Holding, LiveOrder, CameraInv, Files, LiveTypes
  <2>3. pending' = [pending EXCEPT ![r] = w] /\ Goes(s, "review")
    BY <1>2, <1>5, <2>1 DEF KeepPending, Order
  <2>4. pending'[r] = w /\ w # Untold /\ \A q \in LiveRuns \ {r} : pending'[q] = pending[q]
    BY <2>2, <2>3, LiveConstants DEF CameraInv, Files, LiveTypes
  <2>5. Grows
    BY <1>3, <1>5, <2>4 DEF Grows
  <2>6. Files'
    <3>1. LiveTypes'
      BY <1>3, <2>2, <2>3 DEF CameraInv, Files, LiveTypes
    <3>2. AppliedOnce'
      BY <1>3 DEF CameraInv, Files, AppliedOnce
    <3>3. ReviewsKept'
      BY <1>1, <1>3, <2>2, <2>4 DEF CameraInv, Files, ReviewsKept, HasPlan, Relies
    <3>4. ProofsKept'
      BY <1>3, <1>5, <2>4 DEF CameraInv, Files, ProofsKept, IsReviewed, WasApplied
    <3> QED BY <3>1, <3>2, <3>3, <3>4 DEF Files
  <2>7. PICK h \in Holding : h.at = "review" /\ Same(h, sitting[s])
             /\ sitting' = [sitting EXCEPT ![s] = h]
    BY <1>1, <2>3, GoesOn DEF LiveSteps
  <2>8. Relies(h)'
    BY <1>1, <1>2, <1>3, <2>2, <2>4, <2>7 DEF Relies, AfterApply, Same, IsReviewed
  <2> QED BY <1>3, <2>5, <2>6, <2>7, <2>8, SittingStep DEF Knows
<1> QED BY <1>4, <1>5

\* (one more consent is kept with those there were)
LEMMA ConsentsGrow ==
  ASSUME Files, NEW c \in [design : Nat, spent : BOOLEAN], consents' = Append(consents, c),
         UNCHANGED <<onDisk, inEditor, remembers, sources, designs, pending, told, proven, changed>>
  PROVE  Files' /\ Grows /\ Len(consents') = Len(consents) + 1
<1>1. /\ consents' \in Seq([design : Nat, spent : BOOLEAN]) /\ Len(consents') = Len(consents) + 1
      /\ \A k \in DOMAIN consents : k \in DOMAIN consents' /\ consents'[k] = consents[k]
  BY DEF Files, LiveTypes
<1>2. Grows
  BY <1>1 DEF Grows, Files, LiveTypes
<1>3. LiveTypes' /\ AppliedOnce' /\ ReviewsKept' /\ ProofsKept'
  BY <1>1
     DEF Files, LiveTypes, AppliedOnce, ReviewsKept, ProofsKept, HasPlan, IsReviewed, WasApplied
<1> QED BY <1>1, <1>2, <1>3 DEF Files

\* its review,
LEMMA ReviewKeeps ==
  ASSUME CameraInv, NEW s \in LiveNumbers, ReviewFov(s)
  PROVE  CameraInv'
<1>1. sitting[s] \in Holding /\ Relies(sitting[s]) /\ sitting[s].at = "review"
  BY HoldingAt DEF ReviewFov, Held
<1>2. UNCHANGED <<onDisk, inEditor, remembers, sources, designs, pending, told, proven, goal,
        changed>>
  BY DEF ReviewFov
<1>3. CASE Order(s).approve
  <2>1. PICK c : c = [design |-> Held(s).design, spent |-> FALSE]
    OBVIOUS
  <2>2. c \in [design : Nat, spent : BOOLEAN] /\ consents' = Append(consents, c)
    BY <1>1, <1>3, <2>1 DEF ReviewFov, Holding, Held
  <2>3. Files' /\ Grows /\ Len(consents') = Len(consents) + 1
    BY <1>2, <2>2, ConsentsGrow DEF CameraInv
  <2>4. PICK n \in Nat : n = Len(consents) + 1 /\ n \in DOMAIN consents'
    BY <2>3 DEF CameraInv, Files, LiveTypes
  <2>5. PICK k : k = [sitting[s] EXCEPT !.consent = n]
    OBVIOUS
  <2>6. /\ k \in Holding /\ k.order = sitting[s].order /\ k.consent = n
        /\ k.hash = sitting[s].hash /\ k.seen = sitting[s].seen /\ k.design = sitting[s].design
    BY <1>1, <2>5 DEF Holding
  <2>7. PICK h \in Holding : h.at = "apply" /\ Same(h, k) /\ sitting' = [sitting EXCEPT ![s] = h]
    BY <1>3, <2>4, <2>5, <2>6, LearnsSomething DEF ReviewFov, Held, LiveSteps
  <2>8. Relies(h)'
    BY <1>1, <1>2, <2>4, <2>6, <2>7 DEF Relies, AfterApply, Same, IsReviewed
  <2> QED BY <1>2, <2>3, <2>7, <2>8, SittingStep DEF Knows
<1>4. CASE ~Order(s).approve
  <2>1. UNCHANGED consents
    BY <1>4 DEF ReviewFov
  <2>2. Files' /\ Grows
    <3>1. Files
      BY DEF CameraInv
    <3> QED BY <1>2, <2>1, <3>1, FilesStay DEF Files, LiveTypes
  <2>3. CASE Order(s).consent = 0
    BY <1>1, <1>2, <1>4, <2>2, <2>3, SittingEnds DEF ReviewFov
  <2>4. CASE Order(s).consent # 0
    <3>1. PICK h \in Holding : h.at = "apply" /\ Same(h, sitting[s])
               /\ sitting' = [sitting EXCEPT ![s] = h]
      BY <1>1, <1>4, <2>4, GoesOn DEF ReviewFov, LiveSteps
    <3>2. h.consent \in DOMAIN consents
      BY <1>1, <2>4, <3>1
         DEF Same, Relies, AfterApply, Holding, LiveOrder, Order, CameraInv, Files, LiveTypes
    <3>3. Relies(h)'
      BY <1>1, <1>2, <2>1, <3>1, <3>2 DEF Relies, AfterApply, Same, IsReviewed
    <3> QED BY <1>2, <2>2, <3>1, <3>3, SittingStep DEF Knows
  <2> QED BY <2>3, <2>4
<1> QED BY <1>3, <1>4

\* (an element of a sequence is typed)
LEMMA SeqElement == ASSUME NEW S, NEW q \in Seq(S), NEW i \in DOMAIN q PROVE q[i] \in S
<1>1. i \in 1 .. Len(q)
  OBVIOUS
<1> QED BY <1>1

\* (a consent that is spent is for the same design)
LEMMA SpentRecord ==
  ASSUME NEW d, NEW v, NEW w
  PROVE  [[design |-> d, spent |-> v] EXCEPT !.spent = w] = [design |-> d, spent |-> w]
OBVIOUS

\* its application,
LEMMA ApplyKeeps ==
  ASSUME CameraInv, NEW s \in LiveNumbers, Apply(s)
  PROVE  CameraInv'
<1>1. sitting[s] \in Holding /\ Relies(sitting[s]) /\ sitting[s].at = "apply"
  BY HoldingAt DEF Apply, Held
<1>2. UNCHANGED <<onDisk, sources, designs, pending, told, proven, goal>>
  BY DEF Apply
<1>3. PICK d \in Nat, c \in Nat : d = Held(s).design /\ c = Held(s).consent
  BY <1>1 DEF Held, Holding
<1>4. PICK r \in LiveRuns : r = sitting[s].order.run
  BY <1>1 DEF Holding, LiveOrder
<1>5. /\ c \in DOMAIN consents /\ d \in DOMAIN designs /\ designs[d].base \in SceneContents
  <2>1. c \in DOMAIN consents /\ pending[r] # Untold /\ pending[r].design = d
    BY <1>1, <1>3, <1>4 DEF Relies, AfterApply, IsReviewed, Held
  <2>2. d \in DOMAIN designs
    BY <2>1 DEF CameraInv, Files, ReviewsKept, HasPlan
  <2>3. designs[d] \in [run : LiveRuns, base : SceneContents]
    <3>1. designs \in Seq([run : LiveRuns, base : SceneContents])
      BY DEF CameraInv, Files, LiveTypes
    <3> QED BY <2>2, <3>1, SeqElement
  <2> QED BY <2>1, <2>2, <2>3
<1>6. CASE EndsWith(s, "failed") /\ UNCHANGED <<inEditor, remembers, consents, changed>>
  <2>1. Files' /\ Grows
    <3>1. Files
      BY DEF CameraInv
    <3> QED BY <1>2, <1>6, <3>1, FilesStay DEF Files, LiveTypes
  <2> QED BY <1>1, <1>2, <1>6, <2>1, SittingEnds
<1>7. CASE /\ consents[c] = [design |-> d, spent |-> FALSE] /\ d \in remembers
              /\ inEditor = designs[d].base
           /\ inEditor' = [inEditor EXCEPT !.fov = FovAfter] /\ remembers' = remembers \ {d}
           /\ consents' = [consents EXCEPT ![c].spent = TRUE]
           /\ changed' = changed \union {[design |-> d, consent |-> c, from |-> inEditor,
                to |-> inEditor']}
           /\ Learns(s, "capture", [Held(s) EXCEPT !.applied = [from |-> inEditor,
                to |-> inEditor']])
  <2>1. PICK e, f \in SceneContents :
          e = designs[d].base /\ e = inEditor /\ f = inEditor' /\ f = [e EXCEPT !.fov = FovAfter]
    BY <1>5, <1>7, LiveConstants DEF SceneContents
  <2>2. PICK m : m = [design |-> d, consent |-> c, from |-> e, to |-> f]
    OBVIOUS
  <2>3. /\ m \in [design : Nat, consent : Nat, from : SceneContents, to : SceneContents]
        /\ m.design = d /\ m.consent = c /\ m.from = e /\ m.to = f
        /\ changed' = changed \union {m}
    BY <1>3, <1>7, <2>1, <2>2
  <2>4. /\ consents' \in Seq([design : Nat, spent : BOOLEAN]) /\ Len(consents') = Len(consents)
        /\ DOMAIN consents' = DOMAIN consents
        /\ consents'[c] = [design |-> d, spent |-> TRUE]
        /\ \A k \in DOMAIN consents \ {c} : consents'[k] = consents[k]
    <3>2. [consents[c] EXCEPT !.spent = TRUE] = [design |-> d, spent |-> TRUE]
      <4>1. [[design |-> d, spent |-> FALSE] EXCEPT !.spent = TRUE] = [design |-> d, spent |-> TRUE]
        BY SpentRecord, Zenon
      <4> QED BY <1>7, <4>1
    <3>3. consents' = [consents EXCEPT ![c] = [design |-> d, spent |-> TRUE]]
      BY <1>7, <3>2
    <3>4. [design |-> d, spent |-> TRUE] \in [design : Nat, spent : BOOLEAN]
      BY <1>3
    <3> HIDE <1>7
    <3> QED BY <1>5, <3>3, <3>4 DEF CameraInv, Files, LiveTypes
  <2>5. ASSUME NEW n \in changed PROVE n.design # d /\ n.consent # c
    <3>1. n.design \notin remembers /\ consents[n.consent] = [design |-> n.design, spent |-> TRUE]
      BY DEF CameraInv, Files, AppliedOnce
    <3>2. [design |-> n.design, spent |-> TRUE] # [design |-> d, spent |-> FALSE]
      BY SMT
    <3> QED BY <1>7, <3>1, <3>2
  <2>6. Grows
    BY <1>2, <2>3, <2>4 DEF Grows, CameraInv, Files, LiveTypes
  <2>7. Files'
    <3>1. LiveTypes'
      BY <1>2, <1>7, <2>1, <2>3, <2>4 DEF CameraInv, Files, LiveTypes
    <3>2. AppliedOnce'
      <4>1. ASSUME NEW n \in changed'
            PROVE  /\ n.design \in DOMAIN designs' \ remembers'
                   /\ n.consent \in DOMAIN consents'
                   /\ consents'[n.consent] = [design |-> n.design, spent |-> TRUE]
                   /\ n.from = designs'[n.design].base /\ n.to = [n.from EXCEPT !.fov = FovAfter]
        <5>1. CASE n = m
          BY <1>2, <1>5, <1>7, <2>1, <2>3, <2>4, <5>1
        <5>2. CASE n \in changed
          BY <1>2, <1>7, <2>4, <2>5, <5>2 DEF CameraInv, Files, AppliedOnce
        <5> QED BY <2>3, <5>1, <5>2
      <4>2. \A n, k \in changed' : n.design = k.design => n = k
        BY <2>3, <2>5 DEF CameraInv, Files, AppliedOnce
      <4> QED BY <4>1, <4>2 DEF AppliedOnce
    <3>3. ReviewsKept' /\ ProofsKept'
      BY <1>2, <2>3 DEF CameraInv, Files, ReviewsKept, ProofsKept, HasPlan, IsReviewed, WasApplied
    <3> QED BY <3>1, <3>2, <3>3 DEF Files
  <2>8. PICK k : k = [sitting[s] EXCEPT !.applied = [from |-> e, to |-> f]]
    OBVIOUS
  <2>9. /\ k \in Holding /\ k.order = sitting[s].order /\ k.applied = [from |-> e, to |-> f]
        /\ k.hash = sitting[s].hash /\ k.seen = sitting[s].seen /\ k.design = d
    BY <1>1, <1>3, <2>1, <2>8 DEF Holding, Held
  <2>10. Learns(s, "capture", k)
    BY <1>7, <2>1, <2>8 DEF Held
  <2>11. PICK h \in Holding : h.at = "capture" /\ Same(h, k) /\ sitting' = [sitting EXCEPT ![s] = h]
    BY <2>9, <2>10, LearnsSomething DEF LiveSteps
  <2>12. WasApplied(h)'
    BY <2>3, <2>9, <2>11 DEF WasApplied, Same
  <2>13. Relies(h)'
    BY <1>1, <1>2, <1>3, <2>9, <2>11, <2>12 DEF Relies, AfterApply, Same, IsReviewed, Held
  <2> QED BY <1>2, <2>6, <2>7, <2>11, <2>13, SittingStep DEF Knows
<1> QED BY <1>3, <1>6, <1>7 DEF Apply

\* the report,
LEMMA ReportKeeps ==
  ASSUME CameraInv, NEW s \in LiveNumbers, WriteReport(s)
  PROVE  CameraInv'
<1>1. sitting[s] \in Holding /\ Relies(sitting[s]) /\ sitting[s].at = "write"
  BY HoldingAt DEF WriteReport, Held
<1>2. PICK r \in LiveRuns : r = sitting[s].order.run
  BY <1>1 DEF Holding, LiveOrder
<1>3. UNCHANGED <<onDisk, inEditor, remembers, sources, designs, consents, pending, proven,
        goal, changed>>
  BY DEF WriteReport
<1>4. CASE told[r] # Untold
  <2>1. EndsWith(s, "failed") /\ UNCHANGED told
    BY <1>2, <1>4 DEF WriteReport, Order
  <2>2. Files' /\ Grows
    <3>1. Files
      BY DEF CameraInv
    <3> QED BY <1>3, <2>1, <3>1, FilesStay DEF Files, LiveTypes
  <2> QED BY <1>1, <1>3, <2>1, <2>2, SittingEnds
<1>5. CASE told[r] = Untold
  <2>1. PICK t \in Report : t = sitting[s].report
    BY <1>1 DEF Relies
  <2>2. told' = [told EXCEPT ![r] = t] /\ Goes(s, "record")
    BY <1>2, <1>5, <2>1 DEF WriteReport, Order, Held
  <2>3. told'[r] = t /\ \A q \in LiveRuns \ {r} : told'[q] = told[q]
    BY <2>2 DEF CameraInv, Files, LiveTypes
  <2>4. Grows
    BY <1>3, <1>5, <2>3 DEF Grows
  <2>5. Files'
    <3>1. LiveTypes'
      BY <1>3, <2>2 DEF CameraInv, Files, LiveTypes
    <3>2. AppliedOnce' /\ ReviewsKept'
      BY <1>3 DEF CameraInv, Files, AppliedOnce, ReviewsKept, HasPlan
    <3>3. ProofsKept'
      BY <1>3, <1>5, <2>3 DEF CameraInv, Files, ProofsKept, IsReviewed, WasApplied
    <3> QED BY <3>1, <3>2, <3>3 DEF Files
  <2>6. PICK h \in Holding : h.at = "record" /\ Same(h, sitting[s])
             /\ sitting' = [sitting EXCEPT ![s] = h]
    BY <1>1, <2>2, GoesOn DEF LiveSteps
  <2>7. Relies(h)'
    BY <1>1, <1>2, <1>3, <2>1, <2>3, <2>6 DEF Relies, AfterApply, Same, IsReviewed, WasApplied
  <2> QED BY <1>3, <2>4, <2>5, <2>6, <2>7, SittingStep DEF Knows
<1> QED BY <1>4, <1>5

\* the record of the gate,
LEMMA RecordKeeps ==
  ASSUME CameraInv, NEW s \in LiveNumbers, WriteGateRecord(s)
  PROVE  CameraInv'
<1>1. sitting[s] \in Holding /\ Relies(sitting[s]) /\ sitting[s].at = "record"
  BY HoldingAt DEF WriteGateRecord, Held
<1>2. PICK r \in LiveRuns : r = sitting[s].order.run
  BY <1>1 DEF Holding, LiveOrder
<1>3. UNCHANGED <<onDisk, inEditor, remembers, sources, designs, consents, pending, told, goal,
        changed>>
  BY DEF WriteGateRecord
<1>4. PICK t \in Report : t = sitting[s].report
  BY <1>1 DEF Relies
<1>5. t # Untold /\ told[r] = t /\ IsReviewed(t, r) /\ WasApplied(t) /\ t.applied.to = t.after
  BY <1>1, <1>2, <1>4, LiveConstants DEF Relies, AfterApply, IsReviewed, WasApplied
<1>6. proven' = [proven EXCEPT ![r] = t]
  BY <1>2, <1>4 DEF WriteGateRecord, Order, Held
<1>7. proven'[r] = t /\ \A q \in LiveRuns \ {r} : proven'[q] = proven[q]
  BY <1>6 DEF CameraInv, Files, LiveTypes
<1>8. Grows
  BY <1>3, <1>5, <1>7 DEF Grows
<1>9. Files'
  <2>1. LiveTypes'
    BY <1>3, <1>6 DEF CameraInv, Files, LiveTypes
  <2>2. AppliedOnce' /\ ReviewsKept'
    BY <1>3 DEF CameraInv, Files, AppliedOnce, ReviewsKept, HasPlan
  <2>3. ProofsKept'
    BY <1>3, <1>5, <1>7 DEF CameraInv, Files, ProofsKept, IsReviewed, WasApplied
  <2> QED BY <2>1, <2>2, <2>3 DEF Files
<1>10. CASE EndsWith(s, "passed")
  BY <1>1, <1>2, <1>3, <1>5, <1>7, <1>8, <1>9, <1>10, SittingEnds
<1>11. CASE Goes(s, "close")
  <2>1. PICK h \in Holding : h.at = "close" /\ Same(h, sitting[s])
             /\ sitting' = [sitting EXCEPT ![s] = h]
    BY <1>1, <1>11, GoesOn DEF LiveSteps
  <2>2. Relies(h)'
    BY <1>1, <1>2, <1>5, <1>7, <2>1 DEF Relies, AfterApply, Same
  <2> QED BY <1>3, <1>8, <1>9, <2>1, <2>2, SittingStep DEF Knows
<1> QED BY <1>10, <1>11 DEF WriteGateRecord

\* and the conclusion of a sitting.
LEMMA ConcludeKeeps ==
  ASSUME CameraInv, NEW s \in LiveNumbers, NEW others \in BOOLEAN, ConcludeSitting(s, others)
  PROVE  CameraInv'
<1>1. PICK k : k = sitting[s] /\ k \in Ended /\ (k.outcome = "passed" =>
             proven[k.order.run] # Untold)
  BY DEF ConcludeSitting, Held, CameraInv, Knows, NotBegun, Holding, LiveSteps
<1>2. k.order \in LiveOrder /\ k.order.run \in LiveRuns
  BY <1>1 DEF Ended, LiveOrder
<1>3. PICK h : h = AnswerOf([k.order EXCEPT !.gated = FALSE], "none")
  OBVIOUS
<1>4. h \in Ended /\ h.outcome = "none"
  <2>1. [k.order EXCEPT !.gated = FALSE] \in LiveOrder
    BY <1>2 DEF LiveOrder
  <2> QED BY <1>3, <2>1 DEF AnswerOf, Ended
<1>5. Files' /\ Grows
  <2>1. Files
    BY DEF CameraInv
  <2> QED BY <2>1, FilesStay DEF ConcludeSitting, Files, LiveTypes
<1>6. sitting' = [sitting EXCEPT ![s] = h]
  BY <1>1, <1>3 DEF ConcludeSitting, Order
<1>7. GoalProven'
  BY <1>1, <1>2 DEF ConcludeSitting, GoalProven, Terminal, Held, Order
<1>8. Knows(h)'
  BY <1>4 DEF Knows
<1> QED BY <1>5, <1>6, <1>7, <1>8, AllStillKnow DEF CameraInv

\* What sittings know stays known while the files only grow.
LEMMA SittingsUntouched ==
  ASSUME CameraInv, Grows, UNCHANGED sitting
  PROVE  DOMAIN sitting' = LiveNumbers /\ \A s \in LiveNumbers : Knows(sitting[s])'
<1>1. ASSUME NEW s \in LiveNumbers PROVE Knows(sitting[s])'
  <2>1. PICK k : k = sitting[s] /\ Knows(k)
    BY DEF CameraInv
  <2>2. Knows(k)'
    BY <2>1, StillKnows DEF CameraInv, Files
  <2>3. sitting'[s] = k
    BY <2>1
  <2> QED BY <2>2, <2>3 DEF Knows, Relies, HasPlan, IsReviewed, WasApplied
<1> QED BY <1>1 DEF CameraInv

\* A Run that is reconsidered keeps the invariant, too.
LEMMA ReconsiderKeeps ==
  ASSUME CameraInv, NEW r \in LiveRuns, NEW others \in BOOLEAN, Reconsider(r, others)
  PROVE  CameraInv'
<1>1. GoalProven'
  BY DEF Reconsider, GoalProven, Terminal
<1>2. Files' /\ Grows
  <2>1. Files
    BY DEF CameraInv
  <2> QED BY <2>1, FilesStay DEF Reconsider, Files, LiveTypes
<1> QED BY <1>1, <1>2, SittingsUntouched DEF CameraInv, Reconsider

\* What people do disturbs no sitting's knowledge.
LEMMA OthersKeep ==
  ASSUME CameraInv, ApproveDesign \/ EditLiveScene \/ SaveLiveScene \/ TurnEditor \/ EditSources
  PROVE  CameraInv'
<1>1. Files' /\ Grows
  <2>1. CASE ApproveDesign
    <3>1. PICK d \in DOMAIN designs : consents' = Append(consents, [design |-> d, spent |-> FALSE])
      BY <2>1 DEF ApproveDesign
    <3>2. [design |-> d, spent |-> FALSE] \in [design : Nat, spent : BOOLEAN]
      BY <3>1 DEF CameraInv, Files, LiveTypes
    <3> QED BY <2>1, <3>1, <3>2, ConsentsGrow DEF ApproveDesign, CameraInv
  <2>2. CASE EditLiveScene \/ SaveLiveScene \/ TurnEditor \/ EditSources
    <3>1. Files
      BY DEF CameraInv
    <3> QED BY <2>2, <3>1, FilesStay
            DEF EditLiveScene, SaveLiveScene, TurnEditor, EditSources, Files, LiveTypes
  <2> QED BY <2>1, <2>2
<1>2. UNCHANGED <<sitting, goal>>
  BY DEF ApproveDesign, EditLiveScene, SaveLiveScene, TurnEditor, EditSources
<1>3. GoalProven'
  BY <1>1, <1>2 DEF GoalProven, CameraInv, Grows
<1> QED BY <1>1, <1>2, <1>3, SittingsUntouched DEF CameraInv

\* Every step keeps the invariant,
LEMMA CameraStep == CameraInv /\ [LiveNext]_liveVars => CameraInv'
<1> SUFFICES ASSUME CameraInv, [LiveNext]_liveVars PROVE CameraInv'
  OBVIOUS
<1>1. CASE UNCHANGED liveVars
  BY <1>1
     DEF liveVars, CameraInv, Files, GoalProven, LiveTypes, AppliedOnce, ReviewsKept, ProofsKept,
         Knows, Relies, HasPlan, IsReviewed, WasApplied
<1>2. ASSUME NEW s \in LiveNumbers, SitStep(s) PROVE CameraInv'
  BY <1>2, LookingSteps, BeginKeeps, PlanKeeps, PendingKeeps, ReviewKeeps, ApplyKeeps, ReportKeeps,
     RecordKeeps, ConcludeKeeps DEF SitStep
<1> QED BY <1>1, <1>2, ReconsiderKeeps, OthersKeep DEF LiveNext

\* and so it always holds;
LEMMA CameraInvariant == LiveSpec => []CameraInv
BY InitCamera, CameraStep, PTL DEF LiveSpec

\* it says that what is proven was reviewed.
LEMMA InvIsReviewed == CameraInv => ProvenIsReviewed
<1> SUFFICES ASSUME CameraInv PROVE ProvenIsReviewed
  OBVIOUS
<1>1. goal.terminal = "GOAL_COMPLETE" => proven[goal.run] # Untold
  BY DEF CameraInv, GoalProven
<1>2. ASSUME NEW r \in LiveRuns, proven[r] # Untold, NEW t, t = proven[r]
      PROVE  /\ told[r] = t /\ pending[r].design = t.design /\ pending[r].hash = t.hash
             /\ pending[r].seen = t.applied.from
                /\ t.after = [pending[r].seen EXCEPT !.fov = FovAfter]
             /\ {[from |-> m.from, to |-> m.to] : m \in {n \in changed :
                  n.design = t.design}} = {t.applied}
             /\ \E m \in changed : \A n \in changed : n.design = t.design =>
                  n = m /\ consents[n.consent] = [design |-> t.design, spent |-> TRUE]
  <2>1. /\ told[r] = t /\ pending[r].design = t.design /\ pending[r].hash = t.hash
        /\ pending[r].seen = t.seen /\ pending[r] # Untold /\ t.applied.to = t.after
    BY <1>2 DEF CameraInv, Files, ProofsKept, IsReviewed
  <2>2. PICK m \in changed : m.design = t.design /\ t.applied = [from |-> m.from, to |-> m.to]
    BY <1>2 DEF CameraInv, Files, ProofsKept, WasApplied
  <2>3. designs[t.design].base = t.seen
    BY <1>2, <2>1 DEF CameraInv, Files, ReviewsKept, HasPlan
  <2>4. /\ m.from = designs[m.design].base /\ m.to = [m.from EXCEPT !.fov = FovAfter]
        /\ consents[m.consent] = [design |-> m.design, spent |-> TRUE]
        /\ \A n \in changed : n.design = t.design => n = m
    BY <2>2 DEF CameraInv, Files, AppliedOnce
  <2>5. t.applied.from = m.from /\ t.applied.to = m.to
    BY <2>2
  <2>6. pending[r].seen = m.from
    BY <2>1, <2>2, <2>3, <2>4
  <2> QED BY <2>1, <2>2, <2>4, <2>5, <2>6
<1> QED BY <1>1, <1>2 DEF ProvenIsReviewed

\* Whatever stops, dies, is edited or begins again: a live Run with a gate record is what a person
\* reviewed, applied once by an approval of it, and seen afterwards as planned
\* (run_live, verify_live_evidence, the completion gate).
THEOREM ReviewedIsProven == LiveSpec => []ProvenIsReviewed
BY CameraInvariant, InvIsReviewed, PTL
=============================================================================
