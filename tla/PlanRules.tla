------------------------------ MODULE PlanRules ------------------------------
(***************************************************************************)
(* The pure rules of a dynamic Plan (orchestration/graph/plan.py): what a   *)
(* Plan is, which task sets may be planned, and when a proposal revises the *)
(* current Plan.  A digest is injective, so a Plan stands for its digest.   *)
(***************************************************************************)
EXTENDS Integers, FiniteSets

CONSTANTS
  Ids,           \* task identities; numbers, because ready tasks are sorted
  Bodies,        \* what a task definition asks for, dependencies aside
  RootBodies,    \* the bodies that stay inside the Root contract
  Twins,         \* triples <<t, n, u>>: the identity u is spelled `t-repair<n>'
  MaxUpdates, MaxProposals, MaxTasks   \* LIMITS

\* Names can be sorted, and a name spells at most one repair of one identity.
ASSUME PlanConstants ==
  /\ Ids \subseteq Int
  /\ RootBodies \subseteq Bodies
  /\ \A S \in SUBSET Ids : S # {} => \E t \in S : \A u \in S : t <= u
  /\ Ids # {}
  /\ Twins \subseteq Ids \X (Nat \ {0}) \X Ids
  /\ \A x, y \in Twins : x[1] = y[1] /\ x[2] = y[2] => x[3] = y[3]
  /\ MaxUpdates \in Nat /\ MaxProposals \in Nat /\ MaxTasks \in Nat

\* A task's definition; NoTask marks an identity the Plan does not hold.
NoTask == [deps |-> {}, body |-> "none"]
Definition == [deps : SUBSET Ids, body : Bodies]
TaskMap == [Ids -> Definition \union {NoTask}]

Planned(tasks) == {t \in Ids : tasks[t] # NoTask}

Plan == [revision : Nat, tasks : TaskMap, generated : SUBSET Ids, cancelled : SUBSET Ids]

\* plan_task_batches accepts the set: not empty, dependencies known, no cycle.
Schedulable(tasks) ==
  /\ Planned(tasks) # {}
  /\ \A t \in Planned(tasks) : tasks[t].deps \subseteq Planned(tasks) \ {t}
  /\ \A S \in SUBSET Planned(tasks) :
       S # {} => \E t \in S : tasks[t].deps \intersect S = {}

\* _validate_tasks and validate_tasks: schedulable, and inside the Root contract.
ValidTasks(tasks) ==
  /\ Schedulable(tasks)
  /\ \A t \in Planned(tasks) : tasks[t].body \in RootBodies

AnyNames(ids) == TRUE   \* mutant: repair names are not compared

\* _validate_identities: no identity is spelled like a repair of another one.
DistinctNames(ids) == ~\E twin \in Twins : {twin[1], twin[3]} \subseteq ids

\* The child Run of an attempt: `run-t', then `run-t-repair1', ...
ChildRun(t, attempt) ==
  IF attempt = 0 /\ \E twin \in Twins : twin[3] = t
  THEN LET twin == CHOOSE twin \in Twins : twin[3] = t IN <<twin[1], twin[2]>>
  ELSE <<t, attempt>>

\* create_plan
Creatable(tasks) ==
  /\ ValidTasks(tasks)
  /\ DistinctNames(Planned(tasks))
  /\ Cardinality(Planned(tasks)) <= MaxTasks

FirstPlan(tasks) ==
  [revision |-> 0, tasks |-> tasks, generated |-> Planned(tasks), cancelled |-> {}]

\* A proposal is a task set with everything else that may be wrong with it: its
\* shape, its base digest, its reason, the Evidence it rests on.
Proposal == [tasks : TaskMap, sound : BOOLEAN]

KeepsVerified(plan, status, tasks) ==   \* mutant: only verified tasks are protected
  \A t \in Planned(plan.tasks) : status[t] = "verified" => tasks[t] = plan.tasks[t]

KeepsNothing(plan, status, tasks) == TRUE   \* mutant: the check is missing

\* revise_plan refuses to touch what was already started or stopped.
KeepsStarted(plan, status, tasks) ==
  \A t \in Planned(plan.tasks) : status[t] # "pending" => tasks[t] = plan.tasks[t]

\* revise_plan never gives the identity of a cancelled task to a new one.
ReusesNoCancelled(plan, tasks) == Planned(tasks) \intersect plan.cancelled = {}

Revisable(plan, status, consumed, proposal) ==
  /\ proposal.sound
  /\ \A t \in Planned(plan.tasks) : status[t] # "running"
  /\ consumed \in 1..MaxProposals
  /\ plan.revision < MaxUpdates
  /\ ValidTasks(proposal.tasks)
  /\ ReusesNoCancelled(plan, proposal.tasks)
  /\ KeepsStarted(plan, status, proposal.tasks)
  /\ DistinctNames(plan.generated \union Planned(proposal.tasks))
  /\ Cardinality(plan.generated \union Planned(proposal.tasks)) <= MaxTasks

Revised(plan, tasks) ==
  [revision  |-> plan.revision + 1,
   tasks     |-> tasks,
   generated |-> plan.generated \union Planned(tasks),
   cancelled |-> plan.cancelled \union (Planned(plan.tasks) \ Planned(tasks))]

\* read_plan: the identity sets of a stored Plan agree.
Readable(plan) ==
  /\ Planned(plan.tasks) \subseteq plan.generated
  /\ plan.cancelled \intersect Planned(plan.tasks) = {}
=============================================================================
