------------------------------ MODULE RockImport ------------------------------
(***************************************************************************)
(* The import of one reviewed rock, and its rollback: control_plane/         *)
(* rock_import.py, rock_import_provider.py, guardrails/staged_assets.py and   *)
(* RockImportBridge.cs.                                                       *)
(*                                                                         *)
(* A run is one call of apply_rock_import or rollback_rock_import.  Below    *)
(* the Runtime lease it stages the model, writes a ticket and starts a batch *)
(* Editor, which checks everything once more, imports or deletes, and leaves *)
(* a receipt and a result.  The run may die with the Editor at work, or kill *)
(* it when the time is up; people put files into the target, take them away, *)
(* or withdraw an approval at any time.                                      *)
(*                                                                         *)
(* Of a file only its author is told apart; the metas go with their assets,  *)
(* and material, prefab and scene are one thing, which may be there in part. *)
(***************************************************************************)
EXTENDS Naturals, FiniteSets

CONSTANTS
  Imports,    \* calls of apply_rock_import and rollback_rock_import
  NoImport,
  MaxTouches  \* bound of the model: edits from outside

ASSUME RockConstants == NoImport \notin Imports /\ MaxTouches \in Nat

VARIABLES
  \* ---- the Project
  area,       \* the target: its model, what is derived from it, anything else
  moved,      \* the rest of the Project is not what was planned for
  touches,
  \* ---- files of the state root
  grant,      \* the approvals of the three kinds
  staging,    \* staging/<plan>/manifest.json is there
  tickets, results,   \* tickets and results, by action
  receipt,    \* receipt.json: the target as it was captured
  leased,     \* the Runtime lease of the Project
  \* ---- processes
  where, action,      \* where a run is, and what it was called for
  unity       \* the batch Editor: the run that started it, and its step

projectVars == <<area, moved, touches>>
rockFileVars == <<grant, staging, tickets, results, receipt, leased>>
runVarsOfRock == <<where, action, unity>>
rockVars == <<projectVars, rockFileVars, runVarsOfRock>>

ImportActions == {"apply", "rollback"}
Empty == [model |-> "nothing", derived |-> "nothing", extra |-> "nothing"]
NoReceipt == Empty
NoEditor == [of |-> NoImport, action |-> "none", step |-> "none"]

RockInit ==
  /\ area = Empty /\ moved = FALSE /\ touches = 0
  /\ grant = [k \in {"mutation", "save", "rollback"} |-> "none"]
  /\ staging = FALSE /\ tickets = {} /\ results = {} /\ receipt = NoReceipt
  /\ leased = NoImport
  /\ where = [r \in Imports |-> "idle"] /\ action = [r \in Imports |-> "none"]
  /\ unity = NoEditor

\* _check_approval, RequireApproval: every approval the action needs.
Granted(a) ==
  IF a = "apply" THEN grant["mutation"] = "active" /\ grant["save"] = "active"
  ELSE grant["rollback"] = "active"

\* _verify_receipt: the target holds what was captured, and nothing besides.
AsCaptured == receipt # NoReceipt /\ area = receipt

-----------------------------------------------------------------------------
(* A run.                                                                   *)

ImportGoes(r, from, to) == where[r] = from /\ where' = [where EXCEPT ![r] = to]

\* _apply: the planned Project (whose target was empty) and the approvals.
BeginImport(r, a) ==
  /\ where[r] = "idle"
  /\ action' = [action EXCEPT ![r] = a]
  /\ IF Granted(a) /\ (a = "apply" => ~moved /\ area = Empty)
     THEN ImportGoes(r, "idle", "dispatching") ELSE ImportGoes(r, "idle", "over")
  /\ UNCHANGED <<projectVars, rockFileVars, unity>>

\* dispatch_capability takes the Runtime lease, or answers.
LeaseImport(r) ==
  /\ IF leased = NoImport
     THEN ImportGoes(r, "dispatching", "checking") /\ leased' = r
     ELSE ImportGoes(r, "dispatching", "over") /\ UNCHANGED leased
  /\ UNCHANGED <<projectVars, grant, staging, tickets, results, receipt, action, unity>>

\* execute: an apply has left nothing behind, its target is empty; prepare records what
\* will be written before anything is.
CheckApply(r) ==
  /\ where[r] = "checking" /\ action[r] = "apply"
  /\ IF Granted("apply") /\ "apply" \notin results /\ receipt = NoReceipt /\ area = Empty
     THEN ImportGoes(r, "checking", "staging") /\ staging' = TRUE
     ELSE ImportGoes(r, "checking", "failing") /\ UNCHANGED staging
  /\ UNCHANGED <<projectVars, grant, tickets, results, receipt, leased, action, unity>>

\* StagedAssets._write: only over what was there when it was prepared, still approved.
StageModel(r) ==
  /\ where[r] = "staging"
  /\ IF Granted("apply") /\ area.model = "nothing"
     THEN ImportGoes(r, "staging", "ticketing") /\ area' = [area EXCEPT !.model = "ours"]
     ELSE ImportGoes(r, "staging", "failing") /\ UNCHANGED area
  /\ UNCHANGED <<moved, touches, rockFileVars, action, unity>>

WriteTicket(r) ==
  /\ ImportGoes(r, "ticketing", "launching")
  /\ tickets' = tickets \union {"apply"}
  /\ UNCHANGED <<projectVars, grant, staging, results, receipt, leased, action, unity>>

\* execute: a rollback was not tried before, and the target is as captured.
CheckRollback(r) ==
  /\ where[r] = "checking" /\ action[r] = "rollback"
  /\ IF Granted("rollback") /\ "rollback" \notin results /\ AsCaptured
     THEN ImportGoes(r, "checking", "launching") /\ tickets' = tickets \union {"rollback"}
     ELSE ImportGoes(r, "checking", "failing") /\ UNCHANGED tickets
  /\ UNCHANGED <<projectVars, grant, staging, results, receipt, leased, action, unity>>

\* _run_editor: refused while an Editor has the Project open.
Launch(r) ==
  /\ IF unity = NoEditor
     THEN /\ ImportGoes(r, "launching", "watching")
          /\ unity' = [of |-> r, action |-> action[r], step |-> "checking"]
     ELSE ImportGoes(r, "launching", "failing") /\ UNCHANGED unity
  /\ UNCHANGED <<projectVars, rockFileVars, action>>

\* The Editor has ended: its result, and what is in the Project, decide.
JudgeEditor(r) ==
  /\ where[r] = "watching" /\ unity = NoEditor
  /\ IF action[r] \in results /\ (IF action[r] = "apply" THEN AsCaptured ELSE area = Empty)
     THEN ImportGoes(r, "watching", "passing") ELSE ImportGoes(r, "watching", "failing")
  /\ UNCHANGED <<projectVars, rockFileVars, action, unity>>

\* What people did while an Editor was at work is theirs like everything else afterwards.
Settled(content) ==
  [f \in DOMAIN content |-> IF content[f] = "meanwhile" THEN "theirs" ELSE content[f]]
EditorEnds == unity' = NoEditor /\ area' = Settled(area)

\* Ten minutes are over: the process tree is ended.
KillEditor(r) ==
  /\ unity # NoEditor /\ unity.of = r
  /\ ImportGoes(r, "watching", "failing")
  /\ EditorEnds
  /\ UNCHANGED <<moved, touches, rockFileVars, action>>

\* The lease is given back, Evidence and state are saved.
FinishImport(r) ==
  /\ where[r] \in {"passing", "failing"}
  /\ where' = [where EXCEPT ![r] = IF where[r] = "passing" THEN "completed" ELSE "over"]
  /\ leased' = NoImport
  /\ UNCHANGED <<projectVars, grant, staging, tickets, results, receipt, action, unity>>

\* The process dies: the lease stays, and an Editor it started goes on.
DieImporting(r) ==
  /\ where[r] \notin {"idle", "over", "completed"}
  /\ where' = [where EXCEPT ![r] = "over"]
  /\ UNCHANGED <<projectVars, rockFileVars, action, unity>>

-----------------------------------------------------------------------------
(* The batch Editor.                                                        *)

EditorAt(a, step) == unity.action = a /\ unity.step = step
Proceed(step) == unity' = [unity EXCEPT !.step = step]

\* ApplyApproved: approvals, and a target that holds the staged model and nothing else.
EditorChecks ==
  /\ EditorAt("apply", "checking")
  /\ IF Granted("apply") /\ area = [Empty EXCEPT !.model = "ours"]
     THEN Proceed("importing") /\ UNCHANGED area
     ELSE EditorEnds
  /\ UNCHANGED <<moved, touches, rockFileVars, where, action>>

\* The assets are made one after the other, over whatever has come since.
EditorImports ==
  /\ \/ /\ EditorAt("apply", "importing")
        /\ area' = [area EXCEPT !.derived = "part"] /\ Proceed("saving")
     \/ /\ EditorAt("apply", "saving")
        /\ area' = [area EXCEPT !.derived = "ours"] /\ Proceed("capturing")
  /\ UNCHANGED <<moved, touches, rockFileVars, where, action>>

\* Capture: every owned file must be there, and counts as ours, whoever touched it since.
EditorCaptures ==
  /\ EditorAt("apply", "capturing")
  /\ area.model # "nothing" /\ area.derived # "nothing"
  /\ LET captured == [Empty EXCEPT !.model = "ours", !.derived = "ours"]
     IN receipt' = captured /\ area' = [captured EXCEPT !.extra = area.extra]
  /\ Proceed("reporting")
  /\ UNCHANGED <<moved, touches, grant, staging, tickets, results, leased, where, action>>

EditorReports ==
  /\ unity.step = "reporting"
  /\ results' = results \union {unity.action}
  /\ EditorEnds
  /\ UNCHANGED <<moved, touches, grant, staging, tickets, receipt, leased, where, action>>

DeletesOwned ==   \* mutant: what is not in the receipt is not looked for
  /\ EditorAt("rollback", "checking")
  /\ IF Granted("rollback") /\ receipt # NoReceipt
        /\ area.model = receipt.model /\ area.derived = receipt.derived
     THEN area' = Empty /\ Proceed("reporting")
     ELSE EditorEnds
  /\ UNCHANGED <<moved, touches, rockFileVars, where, action>>

\* RollbackApproved: the target as captured, and still approved; then all of it goes.
EditorDeletes ==
  /\ EditorAt("rollback", "checking")
  /\ IF Granted("rollback") /\ AsCaptured
     THEN area' = Empty /\ Proceed("reporting")
     ELSE EditorEnds
  /\ UNCHANGED <<moved, touches, rockFileVars, where, action>>

\* It throws, or dies, at any point, with whatever it has made so far.
EditorFails ==
  /\ unity # NoEditor
  /\ EditorEnds
  /\ UNCHANGED <<moved, touches, rockFileVars, where, action>>

-----------------------------------------------------------------------------
(* People.                                                                  *)

Grant(k) ==
  /\ grant[k] = "none" /\ grant' = [grant EXCEPT ![k] = "active"]
  /\ UNCHANGED <<projectVars, staging, tickets, results, receipt, leased, runVarsOfRock>>

WithdrawGrant(k) ==
  /\ grant[k] = "active" /\ grant' = [grant EXCEPT ![k] = "over"]
  /\ UNCHANGED <<projectVars, staging, tickets, results, receipt, leased, runVarsOfRock>>

\* The Editor is past its last look.
AtWork == unity.step \in {"importing", "saving", "capturing", "reporting"}

Touch ==
  /\ touches < MaxTouches /\ touches' = touches + 1
  /\ \/ moved' = TRUE /\ UNCHANGED area
     \/ /\ \E f \in DOMAIN area :
             area' = [area EXCEPT ![f] = IF AtWork THEN "meanwhile" ELSE "theirs"]
        /\ UNCHANGED moved
     \/ (\E f \in DOMAIN area : area' = [area EXCEPT ![f] = "nothing"]) /\ UNCHANGED moved
  /\ UNCHANGED <<rockFileVars, runVarsOfRock>>

\* The lease directory of a process that is gone is removed by hand.
ClearLease ==
  /\ leased # NoImport /\ where[leased] \in {"over", "completed"}
  /\ leased' = NoImport
  /\ UNCHANGED <<projectVars, grant, staging, tickets, results, receipt, runVarsOfRock>>

-----------------------------------------------------------------------------

ImportStep(r) ==
  \/ \E a \in ImportActions : BeginImport(r, a)
  \/ LeaseImport(r) \/ CheckApply(r) \/ StageModel(r) \/ WriteTicket(r) \/ CheckRollback(r)
  \/ Launch(r) \/ JudgeEditor(r) \/ KillEditor(r) \/ FinishImport(r) \/ DieImporting(r)

RockNext ==
  \/ \E r \in Imports : ImportStep(r)
  \/ EditorChecks \/ EditorImports \/ EditorCaptures \/ EditorReports \/ EditorDeletes
  \/ EditorFails
  \/ \E k \in DOMAIN grant : Grant(k) \/ WithdrawGrant(k)
  \/ Touch \/ ClearLease

RockSpec == RockInit /\ [][RockNext]_rockVars

-----------------------------------------------------------------------------
(* Properties.                                                              *)

\* What other people had put into the target before the Editor's last look at it is
\* neither overwritten nor deleted: only they take it away again.
TheirsIsKept ==
  [][\A f \in DOMAIN area :
       area[f] = "theirs" /\ touches' = touches => area'[f] = "theirs"]_rockVars
=============================================================================
