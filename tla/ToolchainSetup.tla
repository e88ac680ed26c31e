---------------------------- MODULE ToolchainSetup ----------------------------
(* The setup of the toolchain: a Run of the Control Plane has the installer   *)
(* look at the products of a host (doctor), plan what to do about them, or    *)
(* apply a plan that a person approved; what it answered becomes evidence of  *)
(* the Run, what it installed a receipt of the plan.  The products belong to  *)
(* the host: others install and remove them at any time.                      *)
EXTENDS Naturals

CONSTANTS
  SetupRuns,       \* the Runs; each is one setup command
  SetupOps,        \* the operations each may be asked for
  SetupAsks,       \* the sets of products it may be asked about
  FirstHosts,      \* what the host may have to begin with
  MaxHostChanges,  \* how often others change the host
  Unset            \* a field nothing was written to

VARIABLES
  host,            \* what the host has of each product
  setups,          \* the command of each Run: where it is, and what it has seen
  setupState,      \* the execution state of each Run
  setupEvidence,   \* the status each Run's evidence records
  installReceipts, \* the receipt of each plan, named after it
  touched,         \* the Runs that called for a marketplace or plugin to be added
  hostChanges      \* how often others changed the host

setupVars == <<host, setups, setupState, setupEvidence, installReceipts, touched, hostChanges>>

Products == {"unity_cli", "artist", "codex", "plugin", "optional"}

\* The marketplace is no product, but has a name another source may own.
Things == Products \union {"market"}
HostHas(t) ==
  CASE t = "codex" -> {"gone", "works", "broken"}
    [] t = "market" -> {"gone", "ours", "foreign"}
    [] t = "plugin" -> {"gone", "disabled", "old", "here"}
    [] OTHER -> {"gone", "here"}
Hosts ==
  {h \in [Things -> UNION {HostHas(t) : t \in Things}] : \A t \in Things : h[t] \in HostHas(t)}

Statuses == {"verified", "installed", "unavailable", "needs_codex", "stale", "failed"}
Seen == [Products -> Statuses \union {Unset}]
EntriesOf == [Products -> {Unset, "verified", "installed", "unavailable"}]
Receipts == [run : SetupRuns, entries : EntriesOf]

ASSUME SetupAssumption ==
  /\ SetupOps \in [SetupRuns -> SUBSET {"doctor", "plan", "apply"}]
  /\ SetupAsks \subseteq SUBSET Products
  /\ FirstHosts \subseteq Hosts
  /\ MaxHostChanges \in Nat
  /\ Unset \notin Statuses \union SetupRuns \union {"passed", "plan"} \union Receipts

\* The plugin as the list of plugins has it: a missing or disabled one is to be had, a version
\* of another channel is stale.
PluginSeen(h) ==
  IF h["codex"] = "gone" THEN "needs_codex"
  ELSE IF h["codex"] = "broken" THEN "failed"
  ELSE IF h.plugin \in {"gone", "disabled"} THEN "unavailable"
  ELSE IF h.plugin = "old" THEN "stale" ELSE "verified"

\* The Codex CLI at the path asked for, on PATH or where it is usually installed has to answer.
CodexSeen(h) ==
  CASE h["codex"] = "gone" -> "unavailable"
    [] h["codex"] = "broken" -> "failed"
    [] OTHER -> "verified"

\* What looking for a product gives.  An optional backend that is found is not verified by that.
ProductSeen(h, p) ==
  CASE p = "codex" -> CodexSeen(h)
    [] p = "plugin" -> PluginSeen(h)
    [] p \in {"unity_cli", "artist", "optional"} ->
         IF h[p] = "gone" THEN "unavailable" ELSE IF p = "optional" THEN "installed" ELSE "verified"

\* What a plan does about a product; "" where it was not asked for one.
ActionFor(p, status) ==
  CASE status = Unset -> ""
    [] status = "failed" -> "blocked_by_observation"
    [] status = "verified" -> "verify"
    [] status \in {"installed", "unavailable", "needs_codex", "stale"} ->
         IF p \in {"codex", "optional", "artist"} THEN "manual_required"
         ELSE IF status = "needs_codex" THEN "blocked_by_dependency" ELSE "install_then_verify"

\* A plan is approved and applied as a whole, or not.
Executable(seen) ==
  \A p \in Products : ActionFor(p, seen[p]) \in {"", "verify", "install_then_verify"}

\* The plan of a Run is what its command printed in the end; its id is a digest of all it saw
\* and of when, and so is its own.
Published(q) == setups[q].op = "plan" /\ setups[q].pc = "done"

\* Entries of a receipt.  What was verified by the plan is entered as the plan has it, without
\* another look; official tools are never installed; the plugin is entered as `installed` once
\* it was.
EntryFor(p, seen) ==
  IF ActionFor(p, seen[p]) = "" THEN Unset
  ELSE IF ActionFor(p, seen[p]) = "verify" THEN "verified"
  ELSE IF p = "plugin" THEN "installed" ELSE "unavailable"
Entries(seen) == [p \in Products |-> EntryFor(p, seen)]
AllThere(entries) == \A p \in Products : entries[p] \in {Unset, "installed", "verified"}

InSetup == {"look", "asked", "offer", "market", "add_market", "add_plugin", "check", "conclude",
            "answered", "receipt", "save"}

IdleSetup == [pc |-> "idle", op |-> "none", ask |-> {}, seen |-> [p \in Products |-> Unset],
         given |-> Unset, expected |-> Unset, checked |-> Unset, result |-> Unset]

SetupInit ==
  /\ host \in FirstHosts
  /\ setups = [r \in SetupRuns |-> IdleSetup]
  /\ setupState = [r \in SetupRuns |-> "none"]
  /\ setupEvidence = [r \in SetupRuns |-> Unset]
  /\ installReceipts = [q \in SetupRuns |-> Unset]
  /\ touched = {}
  /\ hostChanges = 0

\* A step of a command that writes no record.
SetupGoes(r, command) ==
  /\ setups' = [setups EXCEPT ![r] = command]
  /\ UNCHANGED <<setupState, setupEvidence, installReceipts, hostChanges>>
SetupFails(r) == SetupGoes(r, [setups[r] EXCEPT !.pc = "answered", !.result = "failed"])

\* The request passed the contract, and the Run is saved as running.
BeginLook(r) ==
  /\ setups[r].pc = "idle"
  /\ \E op \in SetupOps[r] \ {"apply"}, ask \in SetupAsks :
       setups' = [setups EXCEPT ![r].pc = "look", ![r].op = op, ![r].ask = ask]
  /\ setupState' = [setupState EXCEPT ![r] = "running"]
  /\ UNCHANGED <<host, setupEvidence, installReceipts, touched, hostChanges>>

\* Applying takes an approval, the id of a plan and a plan, which a person hands over.
BeginInstall(r) ==
  /\ setups[r].pc = "idle" /\ "apply" \in SetupOps[r]
  /\ \E q, e \in {s \in SetupRuns : Published(s)} :
       setups' = [setups EXCEPT ![r] =
         [@ EXCEPT !.pc = "asked", !.op = "apply", !.given = q, !.expected = e]]
  /\ setupState' = [setupState EXCEPT ![r] = "running"]
  /\ UNCHANGED <<host, setupEvidence, installReceipts, touched, hostChanges>>

\* The registry has no provider for this, or more than one: nothing is done or recorded.
Unresolved(r) ==
  /\ setups[r].pc = "asked" \/ (setups[r].pc = "look" /\ setups[r].seen = IdleSetup.seen)
  /\ setups' = [setups EXCEPT ![r].pc = "done", ![r].op = "none"]
  /\ setupState' = [setupState EXCEPT ![r] = "blocked"]
  /\ UNCHANGED <<host, setupEvidence, installReceipts, touched, hostChanges>>

\* The doctor looks at one product after the other; any look may fail.
ObserveProduct(r, p) ==
  /\ setups[r].pc = "look" /\ p \in setups[r].ask /\ setups[r].seen[p] = Unset
  /\ \E status \in {ProductSeen(host, p), "failed"} :
       SetupGoes(r, [setups[r] EXCEPT !.seen[p] = status])
  /\ UNCHANGED <<host, touched>>

\* The doctor passes unless a look failed, the plan if it can be carried out.
ReportSetup(r) ==
  LET s == setups[r]
      passes == IF s.op = "doctor" THEN \A p \in Products : s.seen[p] # "failed"
                ELSE Executable(s.seen)
      fails == IF s.op = "doctor" THEN "failed" ELSE "unavailable"
  IN /\ s.pc = "look" /\ \A p \in s.ask : s.seen[p] # Unset
     /\ SetupGoes(r, [s EXCEPT !.pc = "answered", !.result = IF passes THEN "passed" ELSE fails])
     /\ UNCHANGED <<host, touched>>

PlanGiven(r) == setups[setups[r].given].seen
PlanApproved(r) == setups[r].given = setups[r].expected /\ Executable(PlanGiven(r))
PluginToInstall(r) == ActionFor("plugin", PlanGiven(r)["plugin"]) = "install_then_verify"

\* Another plan than the one expected, or one that cannot be carried out, is refused.
RefuseApply(r) ==
  /\ setups[r].pc = "asked" /\ ~PlanApproved(r)
  /\ SetupFails(r)
  /\ UNCHANGED <<host, touched>>

StartApply(r) ==
  /\ setups[r].pc = "asked" /\ PlanApproved(r)
  /\ SetupGoes(r, [setups[r] EXCEPT !.pc = IF PluginToInstall(r) THEN "offer" ELSE "conclude"])
  /\ UNCHANGED <<host, touched>>

\* A plugin that a marketplace offers is added from there.  A list that cannot be read offers
\* nothing; a CLI that cannot run fails.
LookForOffer(r) ==
  /\ setups[r].pc = "offer"
  /\ \/ SetupGoes(r, [setups[r] EXCEPT !.pc = "market"])
     \/ /\ host.codex = "works" /\ host.market # "gone"
        /\ SetupGoes(r, [setups[r] EXCEPT !.pc = "add_plugin"])
     \/ SetupFails(r)
  /\ UNCHANGED <<host, touched>>

\* Another source that owns the marketplace's name is left alone.
LookForMarket(r) ==
  /\ setups[r].pc = "market"
  /\ \/ /\ host.codex = "works" /\ host.market # "foreign"
        /\ SetupGoes(r, [setups[r] EXCEPT
             !.pc = IF host.market = "ours" THEN "add_plugin" ELSE "add_market"])
     \/ SetupFails(r)
  /\ UNCHANGED <<host, touched>>

\* A command that adds may have done so and still be taken as failed, by its answer or its time.
AddMarket(r) ==
  /\ setups[r].pc = "add_market"
  /\ touched' = touched \union {r}
  /\ \/ /\ host.codex = "works"
        /\ host' = [host EXCEPT !.market = IF @ = "gone" THEN "ours" ELSE @]
        /\ SetupGoes(r, [setups[r] EXCEPT !.pc = "add_plugin"]) \/ SetupFails(r)
     \/ UNCHANGED host /\ SetupFails(r)

\* What is added is as the marketplace has it: of this channel or not.
AddPlugin(r) ==
  /\ setups[r].pc = "add_plugin"
  /\ touched' = touched \union {r}
  /\ \/ /\ host.codex = "works" /\ host.market # "gone"
        /\ \E version \in {"here", "old"} : host' = [host EXCEPT !.plugin = version]
        /\ SetupGoes(r, [setups[r] EXCEPT !.pc = "check"]) \/ SetupFails(r)
     \/ UNCHANGED host /\ SetupFails(r)

\* What was added is looked at again, and has to be verified.
CheckPlugin(r) ==
  /\ setups[r].pc = "check"
  /\ \E status \in {PluginSeen(host), "failed"} :
       IF status = "verified"
       THEN SetupGoes(r, [setups[r] EXCEPT !.pc = "conclude", !.checked = status])
       ELSE SetupFails(r)
  /\ UNCHANGED <<host, touched>>

\* All entries have to be there for the apply to pass; the receipt is written either way.
ConcludeApply(r) ==
  /\ setups[r].pc = "conclude"
  /\ SetupGoes(r, [setups[r] EXCEPT !.pc = "answered",
                !.result = IF AllThere(Entries(PlanGiven(r))) THEN "passed" ELSE "unavailable"])
  /\ UNCHANGED <<host, touched>>

\* An apply that came to its end has a receipt to store; one that was refused or failed has none.
HasReceipt(r) == setups[r].op = "apply" /\ setups[r].result # "failed"

RecordSetup(r) ==
  /\ setups[r].pc = "answered"
  /\ setupEvidence' = [setupEvidence EXCEPT ![r] = setups[r].result]
  /\ setups' = [setups EXCEPT ![r].pc = IF HasReceipt(r) THEN "receipt" ELSE "save"]
  /\ UNCHANGED <<host, setupState, installReceipts, touched, hostChanges>>

ReceiptBy(r) == [run |-> r, entries |-> Entries(PlanGiven(r))]

StoreReceiptAgain(r) ==   \* mutant: the file of a receipt is written like any other
  /\ setups[r].pc = "receipt"
  /\ installReceipts' = [installReceipts EXCEPT ![setups[r].given] = ReceiptBy(r)]
  /\ setups' = [setups EXCEPT ![r].pc = "save"]
  /\ UNCHANGED <<host, setupState, setupEvidence, touched, hostChanges>>

\* A receipt is named after its plan and names its Run, so that a second one of the plan is a
\* conflict: the command ends there, and its Run stays saved as running.
StoreReceipt(r) ==
  /\ setups[r].pc = "receipt"
  /\ \/ /\ installReceipts[setups[r].given] = Unset
        /\ installReceipts' = [installReceipts EXCEPT ![setups[r].given] = ReceiptBy(r)]
        /\ setups' = [setups EXCEPT ![r].pc = "save"]
     \/ /\ installReceipts[setups[r].given] # Unset
        /\ setups' = [setups EXCEPT ![r].pc = "ended"]
        /\ UNCHANGED installReceipts
  /\ UNCHANGED <<host, setupState, setupEvidence, touched, hostChanges>>

SaveSetup(r) ==
  /\ setups[r].pc = "save"
  /\ setupState' = [setupState EXCEPT
       ![r] = IF setups[r].result = "passed" THEN "completed" ELSE "blocked"]
  /\ setups' = [setups EXCEPT ![r].pc = "done"]
  /\ UNCHANGED <<host, setupEvidence, installReceipts, touched, hostChanges>>

\* The process may end at any time; nothing takes the setup up again.
DieInSetup(r) ==
  /\ setups[r].pc \in InSetup
  /\ SetupGoes(r, [setups[r] EXCEPT !.pc = "ended"])
  /\ UNCHANGED <<host, touched>>

\* Others install, remove or break one thing of the host.
ChangeHost ==
  /\ hostChanges < MaxHostChanges
  /\ \E t \in Things : \E v \in HostHas(t) \ {host[t]} : host' = [host EXCEPT ![t] = v]
  /\ hostChanges' = hostChanges + 1
  /\ UNCHANGED <<setups, setupState, setupEvidence, installReceipts, touched>>

SetupStep(r) ==
  \/ BeginLook(r) \/ BeginInstall(r) \/ Unresolved(r)
  \/ (\E p \in Products : ObserveProduct(r, p)) \/ ReportSetup(r)
  \/ RefuseApply(r) \/ StartApply(r) \/ LookForOffer(r) \/ LookForMarket(r)
  \/ AddMarket(r) \/ AddPlugin(r) \/ CheckPlugin(r) \/ ConcludeApply(r)
  \/ RecordSetup(r) \/ StoreReceipt(r) \/ SaveSetup(r) \/ DieInSetup(r)

SetupNext == ChangeHost \/ \E r \in SetupRuns : SetupStep(r)

SetupSpec == SetupInit /\ [][SetupNext]_setupVars

-------------------------------------------------------------------------------
SetupCommand ==
  [pc : InSetup \union {"idle", "done", "ended"}, op : {"none", "doctor", "plan", "apply"},
   ask : SUBSET Products, seen : Seen, given : SetupRuns \union {Unset},
   expected : SetupRuns \union {Unset}, checked : {Unset, "verified"},
   result : {Unset, "passed", "failed", "unavailable"}]

SetupTypeOK ==
  /\ host \in Hosts
  /\ setups \in [SetupRuns -> SetupCommand]
  /\ setupState \in [SetupRuns -> {"none", "running", "completed", "blocked"}]
  /\ setupEvidence \in [SetupRuns -> {Unset, "passed", "failed", "unavailable"}]
  /\ installReceipts \in [SetupRuns -> {Unset} \union Receipts]
  /\ touched \subseteq SetupRuns
  /\ hostChanges \in 0..MaxHostChanges

\* Only Runs that apply a plan which was printed, is the one expected and can be carried out add
\* to the host, and only if it has the plugin installed.
AddedAsApproved ==
  \A r \in touched :
    setups[r].op = "apply" /\ Published(setups[r].given) /\ PlanApproved(r) /\ PluginToInstall(r)

\* A receipt is that of a Run which applied its plan as approved and has evidence of how that
\* ended; it calls the plugin installed only if that Run added it and saw it verified after.
ReceiptIsProven ==
  \A q \in SetupRuns : installReceipts[q] # Unset =>
    LET r == installReceipts[q].run
    IN /\ setups[r].given = q /\ PlanApproved(r)
       /\ setupEvidence[r] = setups[r].result /\ setupEvidence[r] # Unset
       /\ installReceipts[q].entries["plugin"] = "installed" =>
            r \in touched /\ setups[r].checked = "verified"

\* A Run that applied a plan and is called completed has the plan's only receipt, and there is
\* nothing in it which is not there.
CompletedHasReceipt ==
  \A r \in SetupRuns : setupState[r] = "completed" /\ setups[r].op = "apply" =>
    LET receipt == installReceipts[setups[r].given]
    IN receipt # Unset /\ receipt.run = r /\ AllThere(receipt.entries)

\* What the Control Plane says of a setup: its completed Runs have receipts, its receipts have
\* evidence and an approved plan behind them, and the host was changed by such Runs only,
\* whatever others do to the host, however commands fail, and wherever a Run dies.
ReceiptIsBacked == AddedAsApproved /\ ReceiptIsProven /\ CompletedHasReceipt
===============================================================================
