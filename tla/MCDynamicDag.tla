---------------------------- MODULE MCDynamicDag -----------------------------
(***************************************************************************)
(* A small Run for TLC: tasks 1 and 2 are submitted, 2 depends on 1.  The   *)
(* proposer may add 3 next to 2, replace 2 by 3, bring 2 back, rewrite 1 or *)
(* 2, plan 4 (which is spelled like a repair of 1), or ask for a cycle.     *)
(***************************************************************************)
EXTENDS DynamicDag, TLC

MCIds == 1..4
MCBodies == {"edit", "verify", "foreign"}
MCRootBodies == {"edit", "verify"}
MCEditingBodies == {"edit"}
MCTwins == {<<1, 1, 4>>}

Task(deps, body) == [deps |-> deps, body |-> body]
Tasks(f) == [t \in MCIds |-> IF t \in DOMAIN f THEN f[t] ELSE NoTask]

MCInitialTasks == Tasks(<<Task({}, "edit"), Task({1}, "edit")>>)

MCProposals ==
  { Tasks(<<Task({}, "edit"), Task({1}, "edit"), Task({1}, "verify")>>),
    Tasks(1 :> Task({}, "edit") @@ 3 :> Task({1}, "verify")),
    Tasks(<<Task({}, "verify"), Task({1}, "edit")>>),
    Tasks(<<Task({}, "edit"), Task({3}, "verify"), Task({}, "edit")>>),
    Tasks(<<Task({}, "edit"), Task({1}, "edit"), NoTask, Task({}, "edit")>>),
    Tasks(<<Task({}, "edit"), Task({3}, "edit"), Task({2}, "edit")>>) }
\* The proposals of the run about repairs and edits from outside.
MCFewProposals ==
  { Tasks(1 :> Task({}, "edit") @@ 3 :> Task({1}, "verify")),
    Tasks(<<Task({}, "verify"), Task({1}, "edit")>>),
    Tasks(<<Task({}, "edit"), Task({1}, "edit"), NoTask, Task({}, "edit")>>) }
=============================================================================
