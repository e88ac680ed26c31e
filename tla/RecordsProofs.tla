----------------------------- MODULE RecordsProofs -----------------------------
(***************************************************************************)
(* What Runs leave behind and go by, proved for any number of them and of   *)
(* jobs: the receipts of the toolchain's setup (ToolchainSetup), the        *)
(* progress of the private CI (StagedCi), the specialist a session holds    *)
(* (SpecialistSession), the imports of the catalog (CatalogImport), the     *)
(* providers that serve (ProviderResolution), and what specialists reason   *)
(* on (SpecialistReasoning).                                                *)
(***************************************************************************)
EXTENDS ToolchainSetup, StagedCi, SpecialistSession, CatalogImport, ProviderResolution,
        SpecialistReasoning, FiniteSetTheorems, TLAPS

-------------------------------------------------------------------------------
(***************************************************************************)
(* What a setup of the toolchain leaves behind is backed, for any number of *)
(* Runs that plan and apply, whatever others do to the host, and wherever a *)
(* Run dies.                                                                *)
(***************************************************************************)

(* A Run that applies a plan goes by the plan as it was published, and no     *)
(* step changes what a published plan saw: that is why what was approved when *)
(* the apply began is still what is approved when it is recorded.             *)
GoesByPlan(r) ==
  setups[r].given \in SetupRuns /\ Published(setups[r].given) /\ PlanApproved(r)

PluginIsIn(r) == PluginToInstall(r) => r \in touched /\ setups[r].checked = "verified"

Installing == {"offer", "market", "add_market", "add_plugin", "check"}
Recorded == {"receipt", "save", "done"}

\* Before it applies anything, a command has added nothing and answered nothing.
Untouched(r) ==
  /\ setups[r].pc \in {"idle", "look", "asked"} => setups[r].result = Unset /\ r \notin touched
  /\ setups[r].pc \in {"idle", "look"} => setups[r].op # "apply"
  /\ setups[r].pc = "asked" =>
       setups[r].op = "apply" /\ setups[r].given \in SetupRuns /\ Published(setups[r].given)

\* While it applies a plan, it goes by it, and concludes with the plugin in.
Applies(r) ==
  /\ setups[r].pc \in Installing \union {"conclude"} =>
       setups[r].op = "apply" /\ GoesByPlan(r) /\ setups[r].result = Unset
  /\ setups[r].pc \in Installing => PluginToInstall(r)
  /\ setups[r].pc = "check" => r \in touched
  /\ setups[r].pc = "conclude" => PluginIsIn(r)

\* An answer that has a receipt was reached that way; no other Run stores one.
Answered(r) ==
  /\ setups[r].pc \in {"answered"} \union Recorded /\ HasReceipt(r) =>
       /\ GoesByPlan(r) /\ PluginIsIn(r)
       /\ setups[r].result = "passed" => AllThere(Entries(PlanGiven(r)))
  /\ setups[r].pc \in {"answered", "receipt", "save"} => setups[r].result # Unset
  /\ setups[r].pc = "receipt" => HasReceipt(r)

\* What is recorded of it is what it answered, its receipt is its own, and it completes last.
Recording(r) ==
  /\ setups[r].pc \in Recorded /\ setups[r].op # "none" => setupEvidence[r] = setups[r].result
  /\ setups[r].pc \in {"save", "done"} /\ HasReceipt(r) =>
       /\ setups[r].result # Unset
       /\ installReceipts[setups[r].given] = ReceiptBy(r)
  /\ setupState[r] = "completed" => setups[r].pc = "done" /\ setups[r].result = "passed"

RunHolds(r) == Untouched(r) /\ Applies(r) /\ Answered(r) /\ Recording(r)

\* A receipt is as the Run it names wrote it, which is past writing.
ReceiptHolds(q) ==
  installReceipts[q] # Unset =>
    LET r == installReceipts[q].run
    IN /\ setups[r].pc \in {"save", "done", "ended"} /\ HasReceipt(r)
       /\ setups[r].given = q /\ GoesByPlan(r) /\ PluginIsIn(r)
       /\ setupEvidence[r] = setups[r].result /\ setups[r].result # Unset
       /\ installReceipts[q] = ReceiptBy(r)

AddedByPlan ==
  \A r \in touched : setups[r].op = "apply" /\ GoesByPlan(r) /\ PluginToInstall(r)

SetupInv ==
  /\ SetupTypeOK
  /\ AddedByPlan
  /\ \A r \in SetupRuns : RunHolds(r)
  /\ \A q \in SetupRuns : ReceiptHolds(q)

-------------------------------------------------------------------------------
(* Types.                                                                     *)

\* What a record of a setup command is made of.
LEMMA CommandIs ==
  ASSUME NEW s \in SetupCommand
  PROVE  /\ s.pc \in InSetup \union {"idle", "done", "ended"}
         /\ s.op \in {"none", "doctor", "plan", "apply"}
         /\ s.seen \in Seen /\ s.given \in SetupRuns \union {Unset}
         /\ s.checked \in {Unset, "verified"}
         /\ s.result \in {Unset, "passed", "failed", "unavailable"}
BY DEF SetupCommand

\* A command that goes on, with or without an answer, is a command.
LEMMA CommandMoves ==
  ASSUME NEW s \in SetupCommand, NEW pc \in InSetup \union {"idle", "done", "ended"},
         NEW result \in {Unset, "passed", "failed", "unavailable"},
         NEW op \in {"none", "doctor", "plan", "apply"}
  PROVE  /\ [s EXCEPT !.pc = pc] \in SetupCommand
         /\ [s EXCEPT !.pc = pc, !.result = result] \in SetupCommand
         /\ [s EXCEPT !.pc = pc, !.op = op] \in SetupCommand
         /\ [s EXCEPT !.pc = pc, !.checked = "verified"] \in SetupCommand
         /\ \A ask \in SUBSET Products :
              [s EXCEPT !.pc = pc, !.op = op, !.ask = ask] \in SetupCommand
         /\ \A q, e \in SetupRuns :
              [s EXCEPT !.pc = pc, !.op = op, !.given = q, !.expected = e] \in SetupCommand
<1>1. [s EXCEPT !.pc = pc] \in SetupCommand BY DEF SetupCommand
<1>2. [s EXCEPT !.pc = pc, !.result = result] \in SetupCommand BY DEF SetupCommand
<1>3. [s EXCEPT !.pc = pc, !.op = op] \in SetupCommand BY DEF SetupCommand
<1>4. [s EXCEPT !.pc = pc, !.checked = "verified"] \in SetupCommand BY DEF SetupCommand
<1>5. ASSUME NEW ask \in SUBSET Products
      PROVE  [s EXCEPT !.pc = pc, !.op = op, !.ask = ask] \in SetupCommand
  BY DEF SetupCommand
<1>6. ASSUME NEW q \in SetupRuns, NEW e \in SetupRuns
      PROVE  [s EXCEPT !.pc = pc, !.op = op, !.given = q, !.expected = e] \in SetupCommand
  BY DEF SetupCommand
<1> QED BY <1>1, <1>2, <1>3, <1>4, <1>5, <1>6

\* And so is one that has seen one more product.
LEMMA CommandSees ==
  ASSUME NEW s \in SetupCommand, NEW p \in Products, NEW status \in Statuses
  PROVE  [s EXCEPT !.seen[p] = status] \in SetupCommand
<1>1. s.seen \in Seen BY DEF SetupCommand
<1>2. [s.seen EXCEPT ![p] = status] \in Seen BY <1>1 DEF Seen
<1>3. PICK seen \in Seen : seen = [s.seen EXCEPT ![p] = status] BY <1>2
<1>4. [s EXCEPT !.seen = seen] \in SetupCommand BY DEF SetupCommand
<1> QED BY <1>3, <1>4

\* What is seen of the products makes the entries of a plan.
LEMMA EntriesTyped ==
  ASSUME NEW seen
  PROVE  Entries(seen) \in EntriesOf
<1>1. \A p \in Products : EntryFor(p, seen) \in {Unset, "verified", "installed", "unavailable"}
  BY DEF EntryFor
<1> QED BY <1>1 DEF Entries, EntriesOf

\* A product is seen in one of the statuses.
LEMMA SeenTyped ==
  ASSUME NEW h, NEW p \in Products
  PROVE  ProductSeen(h, p) \in Statuses
<1>1. PluginSeen(h) \in Statuses BY DEF PluginSeen, Statuses
<1>2. CodexSeen(h) \in Statuses BY DEF CodexSeen, Statuses
<1>3. {"unavailable", "installed", "verified"} \subseteq Statuses BY DEF Statuses
<1> QED BY <1>1, <1>2, <1>3 DEF ProductSeen, Products

\* A host of which one thing is changed is a host.
LEMMA HostChanges ==
  ASSUME NEW h \in Hosts, NEW t \in Things, NEW v \in HostHas(t)
  PROVE  [h EXCEPT ![t] = v] \in Hosts
BY DEF Hosts

\* A step that moves one command, the host and what was touched is typed.
LEMMA GoesTyped ==
  ASSUME SetupTypeOK, NEW r \in SetupRuns, NEW k \in SetupCommand, SetupGoes(r, k),
         host' \in Hosts, touched' \subseteq SetupRuns
  PROVE  SetupTypeOK'
BY DEF SetupTypeOK, SetupGoes

\* Every step of a setup is typed.
LEMMA SetupTypeStep ==
  ASSUME SetupTypeOK, [SetupNext]_setupVars
  PROVE  SetupTypeOK'
<1> USE DEF SetupTypeOK
<1>1. CASE UNCHANGED setupVars BY <1>1 DEF setupVars
<1>2. CASE ChangeHost
  <2>1. PICK t \in Things : \E v \in HostHas(t) : host' = [host EXCEPT ![t] = v]
    BY <1>2 DEF ChangeHost
  <2>2. PICK v \in HostHas(t) : host' = [host EXCEPT ![t] = v] BY <2>1
  <2>3. host' \in Hosts BY <2>2, HostChanges
  <2>4. hostChanges' \in 0..MaxHostChanges BY <1>2, SetupAssumption DEF ChangeHost
  <2> QED BY <1>2, <2>3, <2>4 DEF ChangeHost
<1>3. ASSUME NEW r \in SetupRuns, SetupStep(r) PROVE SetupTypeOK'
  <2> DEFINE s == setups[r]
  <2>0. s \in SetupCommand OBVIOUS
  <2> HIDE DEF s
  <2> USE DEF InSetup
  <2>f. ASSUME SetupFails(r), host' \in Hosts, touched' \subseteq SetupRuns PROVE SetupTypeOK'
    <3>1. PICK k \in SetupCommand : k = [s EXCEPT !.pc = "answered", !.result = "failed"]
      BY <2>0, CommandMoves
    <3>2. SetupGoes(r, k) BY <2>f, <3>1 DEF SetupFails, s
    <3> HIDE DEF SetupTypeOK
    <3> QED BY <2>f, <3>2, GoesTyped
  <2>g. ASSUME NEW pc \in InSetup \union {"ended"}, SetupGoes(r, [s EXCEPT !.pc = pc]),
               host' \in Hosts, touched' \subseteq SetupRuns
        PROVE  SetupTypeOK'
    <3>1. PICK k \in SetupCommand : k = [s EXCEPT !.pc = pc]
      BY <2>0, CommandMoves
    <3> HIDE DEF SetupTypeOK
    <3> QED BY <2>g, <3>1, GoesTyped
  <2>r. ASSUME NEW result \in {"passed", "failed", "unavailable"},
               SetupGoes(r, [s EXCEPT !.pc = "answered", !.result = result]),
               UNCHANGED <<host, touched>>
        PROVE  SetupTypeOK'
    <3>1. PICK k \in SetupCommand : k = [s EXCEPT !.pc = "answered", !.result = result]
      BY <2>0, CommandMoves
    <3>2. host' \in Hosts /\ touched' \subseteq SetupRuns BY <2>r
    <3> HIDE DEF SetupTypeOK
    <3> QED BY <2>r, <3>1, <3>2, GoesTyped
  <2>1. CASE BeginLook(r)
    <3>1. PICK op \in SetupOps[r] \ {"apply"}, ask \in SetupAsks :
            setups' = [setups EXCEPT ![r].pc = "look", ![r].op = op, ![r].ask = ask]
      BY <2>1 DEF BeginLook
    <3>2. op \in {"none", "doctor", "plan", "apply"} /\ ask \in SUBSET Products
      BY SetupAssumption
    <3>3. PICK k \in SetupCommand : k = [s EXCEPT !.pc = "look", !.op = op, !.ask = ask]
      BY <2>0, <3>2, CommandMoves
    <3>4. setups' = [setups EXCEPT ![r] = k] BY <3>1, <3>3 DEF s
    <3> QED BY <2>1, <3>4 DEF BeginLook
  <2>2. CASE BeginInstall(r)
    <3>1. PICK q \in SetupRuns, e \in SetupRuns :
            setups' = [setups EXCEPT ![r] =
              [@ EXCEPT !.pc = "asked", !.op = "apply", !.given = q, !.expected = e]]
      BY <2>2 DEF BeginInstall
    <3>2. PICK k \in SetupCommand :
            k = [s EXCEPT !.pc = "asked", !.op = "apply", !.given = q, !.expected = e]
      BY <2>0, CommandMoves
    <3>3. setups' = [setups EXCEPT ![r] = k] BY <3>1, <3>2 DEF s
    <3> QED BY <2>2, <3>3 DEF BeginInstall
  <2>3. CASE Unresolved(r)
    <3>1. PICK k \in SetupCommand : k = [s EXCEPT !.pc = "done", !.op = "none"]
      BY <2>0, CommandMoves
    <3>2. setups' = [setups EXCEPT ![r] = k] BY <2>3, <3>1 DEF Unresolved, s
    <3>3. /\ setupState' = [setupState EXCEPT ![r] = "blocked"]
          /\ UNCHANGED <<host, setupEvidence, installReceipts, touched, hostChanges>>
      BY <2>3 DEF Unresolved
    <3> QED BY <3>2, <3>3
  <2>4. ASSUME NEW p \in Products, ObserveProduct(r, p) PROVE SetupTypeOK'
    <3>1. PICK status \in Statuses : SetupGoes(r, [s EXCEPT !.seen[p] = status])
      BY <2>4, SeenTyped DEF ObserveProduct, Statuses, s
    <3>2. PICK k \in SetupCommand : k = [s EXCEPT !.seen[p] = status]
      BY <2>0, CommandSees
    <3>3. host' \in Hosts /\ touched' \subseteq SetupRuns BY <2>4 DEF ObserveProduct
    <3> HIDE DEF SetupTypeOK
    <3> QED BY <3>1, <3>2, <3>3, GoesTyped
  <2>5. CASE ReportSetup(r)
    <3>1. PICK result \in {"passed", "failed", "unavailable"} :
            SetupGoes(r, [s EXCEPT !.pc = "answered", !.result = result])
      BY <2>5 DEF ReportSetup, s
    <3> QED BY <2>5, <3>1, <2>r DEF ReportSetup
  <2>6. CASE RefuseApply(r) BY <2>6, <2>f DEF RefuseApply
  <2>7. CASE StartApply(r)
    <3>1. PICK pc \in InSetup : SetupGoes(r, [s EXCEPT !.pc = pc])
      BY <2>7 DEF StartApply, s
    <3> QED BY <2>7, <3>1, <2>g DEF StartApply
  <2>8. CASE LookForOffer(r) \/ LookForMarket(r)
    <3>1. SetupFails(r) \/ \E pc \in InSetup : SetupGoes(r, [s EXCEPT !.pc = pc])
      BY <2>8 DEF LookForOffer, LookForMarket, s
    <3>2. host' \in Hosts /\ touched' \subseteq SetupRuns
      BY <2>8 DEF LookForOffer, LookForMarket
    <3> QED BY <3>1, <3>2, <2>f, <2>g
  <2>9. CASE AddMarket(r)
    <3>1. SetupFails(r) \/ SetupGoes(r, [s EXCEPT !.pc = "add_plugin"])
      BY <2>9 DEF AddMarket, s
    <3>2. "market" \in Things /\ HostHas("market") = {"gone", "ours", "foreign"}
      BY DEF Things, HostHas
    <3>3. host' = [host EXCEPT !["market"] = IF @ = "gone" THEN "ours" ELSE @] \/ host' = host
      BY <2>9 DEF AddMarket
    <3>4. host["market"] \in HostHas("market") BY <3>2 DEF Hosts
    <3>5. (IF host["market"] = "gone" THEN "ours" ELSE host["market"]) \in HostHas("market")
      BY <3>2, <3>4
    <3>6. host' \in Hosts BY <3>2, <3>3, <3>5, HostChanges
    <3>7. touched' \subseteq SetupRuns BY <2>9 DEF AddMarket
    <3> QED BY <3>1, <3>6, <3>7, <2>f, <2>g
  <2>10. CASE AddPlugin(r)
    <3>1. SetupFails(r) \/ SetupGoes(r, [s EXCEPT !.pc = "check"])
      BY <2>10 DEF AddPlugin, s
    <3>2. "plugin" \in Things /\ {"here", "old"} \subseteq HostHas("plugin")
      BY DEF Things, Products, HostHas
    <3>3. \/ \E version \in {"here", "old"} : host' = [host EXCEPT !["plugin"] = version]
          \/ host' = host
      BY <2>10 DEF AddPlugin
    <3>4. host' \in Hosts BY <3>2, <3>3, HostChanges
    <3>5. touched' \subseteq SetupRuns BY <2>10 DEF AddPlugin
    <3> QED BY <3>1, <3>4, <3>5, <2>f, <2>g
  <2>11. CASE CheckPlugin(r)
    <3>0. host' \in Hosts /\ touched' \subseteq SetupRuns BY <2>11 DEF CheckPlugin
    <3>1. CASE SetupFails(r) BY <3>0, <3>1, <2>f
    <3>2. CASE SetupGoes(r, [s EXCEPT !.pc = "conclude", !.checked = "verified"])
      <4>1. PICK k \in SetupCommand : k = [s EXCEPT !.pc = "conclude", !.checked = "verified"]
        BY <2>0, CommandMoves
      <4> HIDE DEF SetupTypeOK
      <4> QED BY <3>0, <3>2, <4>1, GoesTyped
    <3> QED BY <2>11, <3>1, <3>2 DEF CheckPlugin, s
  <2>12. CASE ConcludeApply(r)
    <3>1. PICK result \in {"passed", "failed", "unavailable"} :
            SetupGoes(r, [s EXCEPT !.pc = "answered", !.result = result])
      BY <2>12 DEF ConcludeApply, s
    <3> QED BY <2>12, <3>1, <2>r DEF ConcludeApply
  <2>13. CASE RecordSetup(r)
    <3>1. PICK pc \in InSetup : setups' = [setups EXCEPT ![r].pc = pc]
      BY <2>13 DEF RecordSetup
    <3>2. PICK k \in SetupCommand : k = [s EXCEPT !.pc = pc] BY <2>0, CommandMoves
    <3>3. setups' = [setups EXCEPT ![r] = k] BY <3>1, <3>2 DEF s
    <3>4. setups[r].result \in {Unset, "passed", "failed", "unavailable"}
      BY <2>0, CommandIs DEF s
    <3> QED BY <2>13, <3>3, <3>4 DEF RecordSetup
  <2>14. CASE StoreReceipt(r)
    <3>1. PICK pc \in {"save", "ended"} : setups' = [setups EXCEPT ![r].pc = pc]
      BY <2>14 DEF StoreReceipt
    <3>2. PICK k \in SetupCommand : k = [s EXCEPT !.pc = pc] BY <2>0, CommandMoves
    <3>3. setups' = [setups EXCEPT ![r] = k] BY <3>1, <3>2 DEF s
    <3>4. PICK receipt \in Receipts : receipt = ReceiptBy(r)
      BY EntriesTyped DEF ReceiptBy, Receipts
    <3>5. installReceipts' \in [SetupRuns -> {Unset} \union Receipts]
      BY <2>14, <3>4 DEF StoreReceipt
    <3> QED BY <2>14, <3>3, <3>5 DEF StoreReceipt
  <2>15. CASE SaveSetup(r)
    <3>2. PICK k \in SetupCommand : k = [s EXCEPT !.pc = "done"] BY <2>0, CommandMoves
    <3>3. setups' = [setups EXCEPT ![r] = k] BY <2>15, <3>2 DEF SaveSetup, s
    <3> QED BY <2>15, <3>3 DEF SaveSetup
  <2>16. CASE DieInSetup(r) BY <2>16, <2>g DEF DieInSetup, s
  <2> QED BY <1>3, <2>1, <2>2, <2>3, <2>4, <2>5, <2>6, <2>7, <2>8, <2>9, <2>10, <2>11, <2>12,
             <2>13, <2>14, <2>15, <2>16 DEF SetupStep
<1> QED BY <1>1, <1>2, <1>3 DEF SetupNext

-------------------------------------------------------------------------------
(* What a step of one Run leaves alone.                                       *)

OthersStay(r) ==
  /\ \E k \in SetupCommand : setups' = [setups EXCEPT ![r] = k]
  /\ setups[r].pc \notin {"done", "ended"}
  /\ \A p \in SetupRuns \ {r} :
       /\ setupState'[p] = setupState[p] /\ setupEvidence'[p] = setupEvidence[p]
       /\ p \in touched' <=> p \in touched
  /\ \A q \in SetupRuns : installReceipts[q] # Unset => installReceipts'[q] = installReceipts[q]

\* A step of one Run leaves the commands and the records of the others.
LEMMA OthersStayed ==
  ASSUME SetupTypeOK, SetupTypeOK', NEW r \in SetupRuns, SetupStep(r)
  PROVE  OthersStay(r)
<1>1. setups' = [setups EXCEPT ![r] = setups'[r]] /\ setups'[r] \in SetupCommand
  <2> SUFFICES ASSUME NEW p \in SetupRuns \ {r} PROVE setups'[p] = setups[p]
    BY DEF SetupTypeOK
  <2>g. ASSUME NEW k, SetupGoes(r, k) PROVE setups'[p] = setups[p]
    BY <2>g DEF SetupGoes, SetupTypeOK
  <2>1. CASE BeginLook(r) BY <2>1 DEF BeginLook, SetupTypeOK
  <2>2. CASE BeginInstall(r) BY <2>2 DEF BeginInstall, SetupTypeOK
  <2>3. CASE Unresolved(r) BY <2>3 DEF Unresolved, SetupTypeOK
  <2>4. CASE RecordSetup(r) \/ StoreReceipt(r) \/ SaveSetup(r)
    BY <2>4 DEF RecordSetup, StoreReceipt, SaveSetup, SetupTypeOK
  <2>5. CASE (\E q \in Products : ObserveProduct(r, q)) \/ ReportSetup(r)
    BY <2>5, <2>g DEF ObserveProduct, ReportSetup
  <2>6. CASE RefuseApply(r) \/ StartApply(r) \/ ConcludeApply(r) \/ DieInSetup(r)
    BY <2>6, <2>g DEF RefuseApply, StartApply, ConcludeApply, DieInSetup, SetupFails
  <2>7. CASE LookForOffer(r) \/ LookForMarket(r) \/ CheckPlugin(r)
    BY <2>7, <2>g DEF LookForOffer, LookForMarket, CheckPlugin, SetupFails
  <2>8. CASE AddMarket(r) \/ AddPlugin(r) BY <2>8, <2>g DEF AddMarket, AddPlugin, SetupFails
  <2> QED BY <2>1, <2>2, <2>3, <2>4, <2>5, <2>6, <2>7, <2>8 DEF SetupStep
<1>2. setups[r].pc \notin {"done", "ended"}
  BY DEF SetupStep, BeginLook, BeginInstall, Unresolved, ObserveProduct, ReportSetup,
         RefuseApply, StartApply, LookForOffer, LookForMarket, AddMarket, AddPlugin, CheckPlugin,
         ConcludeApply, RecordSetup, StoreReceipt, SaveSetup, DieInSetup, InSetup
<1>3. \A p \in SetupRuns \ {r} :
         /\ setupState'[p] = setupState[p] /\ setupEvidence'[p] = setupEvidence[p]
         /\ p \in touched' <=> p \in touched
  BY DEF SetupTypeOK, SetupStep, BeginLook, BeginInstall, Unresolved, ObserveProduct, ReportSetup,
         RefuseApply, StartApply, LookForOffer, LookForMarket, AddMarket, AddPlugin, CheckPlugin,
         ConcludeApply, RecordSetup, StoreReceipt, SaveSetup, DieInSetup, SetupGoes, SetupFails
<1>4. \A q \in SetupRuns : installReceipts[q] # Unset => installReceipts'[q] = installReceipts[q]
  BY DEF SetupTypeOK, SetupStep, BeginLook, BeginInstall, Unresolved, ObserveProduct, ReportSetup,
         RefuseApply, StartApply, LookForOffer, LookForMarket, AddMarket, AddPlugin, CheckPlugin,
         ConcludeApply, RecordSetup, StoreReceipt, SaveSetup, DieInSetup, SetupGoes, SetupFails
<1> QED BY <1>1, <1>2, <1>3, <1>4 DEF OthersStay

\* A plan that was published stays as it is, and with it all that is said of who goes by it.
LEMMA PlanStays ==
  ASSUME SetupTypeOK, NEW r \in SetupRuns, OthersStay(r),
         NEW p \in SetupRuns, setups[p].given \in SetupRuns, Published(setups[p].given),
         setups'[p].given = setups[p].given, setups'[p].expected = setups[p].expected
  PROVE  /\ Published(setups[p].given)'
         /\ PlanGiven(p)' = PlanGiven(p)
         /\ PlanApproved(p)' <=> PlanApproved(p)
         /\ PluginToInstall(p)' <=> PluginToInstall(p)
         /\ ReceiptBy(p)' = ReceiptBy(p)
<1> DEFINE q == setups[p].given
<1>1. setups'[q] = setups[q] BY DEF OthersStay, Published, SetupTypeOK
<1>2. PlanGiven(p)' = PlanGiven(p) BY <1>1 DEF PlanGiven
<1>3. Published(q)' BY <1>1 DEF Published
<1> QED BY <1>2, <1>3 DEF PlanApproved, PluginToInstall, ReceiptBy

\* What holds of those others holds after it.
LEMMA OthersHold ==
  ASSUME SetupTypeOK, NEW r \in SetupRuns, OthersStay(r),
         NEW p \in SetupRuns \ {r}, RunHolds(p)
  PROVE  RunHolds(p)'
<1>1. /\ setups'[p] = setups[p] /\ setupState'[p] = setupState[p]
      /\ setupEvidence'[p] = setupEvidence[p] /\ (p \in touched' <=> p \in touched)
  BY DEF OthersStay, SetupTypeOK
<1>2. HasReceipt(p)' <=> HasReceipt(p) BY <1>1 DEF HasReceipt
<1>3. CASE ~(setups[p].given \in SetupRuns /\ Published(setups[p].given))
  <2>1. Untouched(p)' BY <1>1, <1>3 DEF RunHolds, Untouched
  <2>2. Applies(p)' BY <1>1, <1>3 DEF RunHolds, Applies, GoesByPlan, Installing
  <2>3. Answered(p)' BY <1>1, <1>2, <1>3 DEF RunHolds, Answered, GoesByPlan
  <2>4. Recording(p)'
    BY <1>1, <1>2, <1>3 DEF RunHolds, Recording, Answered, GoesByPlan, Recorded
  <2> QED BY <2>1, <2>2, <2>3, <2>4 DEF RunHolds
<1>4. CASE setups[p].given \in SetupRuns /\ Published(setups[p].given)
  <2>0. /\ Published(setups[p].given)' /\ PlanGiven(p)' = PlanGiven(p)
        /\ PlanApproved(p)' <=> PlanApproved(p)
        /\ PluginToInstall(p)' <=> PluginToInstall(p)
        /\ ReceiptBy(p)' = ReceiptBy(p)
    BY <1>1, <1>4, PlanStays
  <2>p. (GoesByPlan(p)' <=> GoesByPlan(p)) /\ (PluginIsIn(p)' <=> PluginIsIn(p))
    BY <1>1, <1>4, <2>0 DEF GoesByPlan, PluginIsIn
  <2>1. Untouched(p)' BY <1>1, <2>0 DEF RunHolds, Untouched
  <2>2. Applies(p)' BY <1>1, <2>0, <2>p DEF RunHolds, Applies
  <2>3. Answered(p)' BY <1>1, <1>2, <2>0, <2>p DEF RunHolds, Answered
  <2>4. Recording(p)'
    <3>1. ASSUME HasReceipt(p), setups[p].pc \in {"save", "done"}
          PROVE  installReceipts'[setups[p].given] = ReceiptBy(p)
      <4>1. installReceipts[setups[p].given] = ReceiptBy(p) BY <3>1 DEF RunHolds, Recording
      <4>2. ReceiptBy(p) \in Receipts BY EntriesTyped DEF ReceiptBy, Receipts
      <4>3. installReceipts[setups[p].given] # Unset BY <4>1, <4>2, SetupAssumption
      <4> QED BY <1>4, <4>1, <4>3 DEF OthersStay
    <3> QED BY <1>1, <1>2, <2>0, <3>1 DEF RunHolds, Recording
  <2> QED BY <2>1, <2>2, <2>3, <2>4 DEF RunHolds
<1> QED BY <1>3, <1>4

-------------------------------------------------------------------------------
(* What a step makes of its own Run.                                          *)

\* What was not answered is none of the answers.
LEMMA Distinct == Unset \notin {"passed", "failed", "unavailable", "verified", "installed"}
BY SetupAssumption DEF Statuses

\* What holds of the Run that steps holds after its step.
LEMMA OwnHolds ==
  ASSUME SetupTypeOK, SetupTypeOK', NEW r \in SetupRuns, SetupStep(r), OthersStay(r), RunHolds(r)
  PROVE  RunHolds(r)'
<1> DEFINE s == setups[r]
<1>0. s \in SetupCommand BY DEF SetupTypeOK
<1> HIDE DEF s
<1> USE DEF InSetup
<1>p. ASSUME s.given \in SetupRuns, Published(s.given),
             setups'[r].given = s.given, setups'[r].expected = s.expected
      PROVE  /\ Published(s.given)' /\ PlanGiven(r)' = PlanGiven(r)
             /\ PlanApproved(r)' <=> PlanApproved(r)
             /\ PluginToInstall(r)' <=> PluginToInstall(r)
             /\ ReceiptBy(r)' = ReceiptBy(r)
             /\ GoesByPlan(r)' <=> GoesByPlan(r)
  BY <1>p, PlanStays DEF GoesByPlan, s
<1>f. ASSUME SetupFails(r), s.pc # "done" PROVE RunHolds(r)'
  <2>1. setups'[r] = [s EXCEPT !.pc = "answered", !.result = "failed"]
    BY <1>f DEF SetupFails, SetupGoes, SetupTypeOK, s
  <2>2. setups'[r].pc = "answered" /\ setups'[r].result = "failed"
    BY <1>0, <2>1 DEF SetupCommand
  <2>3. setupState'[r] # "completed"
    BY <1>f DEF SetupFails, SetupGoes, RunHolds, Recording, s
  <2>4. Untouched(r)' /\ Applies(r)' BY <2>2 DEF Untouched, Applies, Installing
  <2>5. Answered(r)' BY <2>2, Distinct DEF Answered, HasReceipt
  <2>6. Recording(r)' BY <2>2, <2>3 DEF Recording, Recorded
  <2> QED BY <2>4, <2>5, <2>6 DEF RunHolds
<1>1. CASE BeginLook(r)
  <2>1. PICK op \in SetupOps[r] \ {"apply"}, ask \in SetupAsks :
          setups' = [setups EXCEPT ![r].pc = "look", ![r].op = op, ![r].ask = ask]
    BY <1>1 DEF BeginLook
  <2>2. /\ setups'[r].pc = "look" /\ setups'[r].op = op /\ setups'[r].result = s.result
        /\ s.pc = "idle" /\ touched' = touched /\ setupState'[r] = "running"
    BY <1>0, <1>1, <2>1 DEF BeginLook, SetupTypeOK, SetupCommand, s
  <2>3. Untouched(r)' BY <2>2 DEF RunHolds, Untouched, s
  <2>4. Applies(r)' /\ Answered(r)' /\ Recording(r)'
    BY <2>2 DEF Applies, Answered, Recording, Installing, Recorded
  <2> QED BY <2>3, <2>4 DEF RunHolds
<1>2. CASE BeginInstall(r)
  <2>1. PICK q \in SetupRuns, e \in SetupRuns :
          /\ Published(q)
          /\ setups' = [setups EXCEPT ![r] =
               [@ EXCEPT !.pc = "asked", !.op = "apply", !.given = q, !.expected = e]]
    BY <1>2 DEF BeginInstall
  <2>0. /\ s.pc = "idle" /\ touched' = touched
        /\ setupState' = [setupState EXCEPT ![r] = "running"]
    BY <1>2 DEF BeginInstall, s
  <2>2. /\ setups'[r].pc = "asked" /\ setups'[r].op = "apply" /\ setups'[r].result = s.result
        /\ setups'[r].given = q
        /\ s.pc = "idle" /\ touched' = touched /\ setupState'[r] = "running"
    BY <1>0, <2>0, <2>1 DEF SetupTypeOK, SetupCommand, s
  <2>3. setups'[q] = setups[q] BY <2>1 DEF OthersStay, Published, SetupTypeOK
  <2>4. Published(setups[r].given)' BY <2>1, <2>2, <2>3 DEF Published
  <2>5. Untouched(r)' BY <2>2, <2>4 DEF RunHolds, Untouched, s
  <2>6. Applies(r)' /\ Answered(r)' /\ Recording(r)'
    BY <2>2 DEF Applies, Answered, Recording, Installing, Recorded
  <2> QED BY <2>5, <2>6 DEF RunHolds
<1>3. CASE Unresolved(r)
  <2>1. /\ setups'[r].pc = "done" /\ setups'[r].op = "none" /\ setupState'[r] = "blocked"
    BY <1>0, <1>3 DEF Unresolved, SetupTypeOK, SetupCommand, s
  <2> QED BY <2>1 DEF RunHolds, Untouched, Applies, Answered, Recording, Installing, Recorded,
                      HasReceipt
<1>4. ASSUME NEW p \in Products, ObserveProduct(r, p) PROVE RunHolds(r)'
  <2>1. PICK status : setups' = [setups EXCEPT ![r] = [s EXCEPT !.seen[p] = status]]
    BY <1>4 DEF ObserveProduct, SetupGoes, s
  <2>2. /\ setups'[r].pc = "look" /\ setups'[r].op = s.op /\ setups'[r].result = s.result
        /\ s.pc = "look" /\ touched' = touched /\ setupState'[r] = setupState[r]
    BY <1>0, <1>4, <2>1 DEF ObserveProduct, SetupGoes, SetupTypeOK, SetupCommand, s
  <2>3. Untouched(r)' BY <2>2 DEF RunHolds, Untouched, s
  <2>4. Applies(r)' /\ Answered(r)' /\ Recording(r)'
    BY <2>2 DEF RunHolds, Applies, Answered, Recording, Installing, Recorded, s
  <2> QED BY <2>3, <2>4 DEF RunHolds
<1>5. CASE ReportSetup(r)
  <2>1. PICK result \in {"passed", "failed", "unavailable"} :
          setups' = [setups EXCEPT ![r] = [s EXCEPT !.pc = "answered", !.result = result]]
    BY <1>5 DEF ReportSetup, SetupGoes, s
  <2>0. s.pc = "look" /\ setupState' = setupState BY <1>5 DEF ReportSetup, SetupGoes, s
  <2>2. /\ setups'[r].pc = "answered" /\ setups'[r].op = s.op /\ setups'[r].result = result
        /\ s.pc = "look" /\ setupState'[r] = setupState[r]
    BY <1>0, <2>0, <2>1 DEF SetupTypeOK, SetupCommand
  <2>3. s.op # "apply" BY <2>2 DEF RunHolds, Untouched, s
  <2>4. Untouched(r)' /\ Applies(r)' /\ Recording(r)'
    BY <2>2 DEF RunHolds, Untouched, Applies, Recording, Installing, Recorded, s
  <2>5. Answered(r)' BY <2>2, <2>3, Distinct DEF Answered, HasReceipt
  <2> QED BY <2>4, <2>5 DEF RunHolds
<1>6. CASE RefuseApply(r) BY <1>6, <1>f DEF RefuseApply, s
<1>7. CASE StartApply(r)
  <2>1. PICK pc \in {"offer", "conclude"} :
          /\ pc = IF PluginToInstall(r) THEN "offer" ELSE "conclude"
          /\ setups' = [setups EXCEPT ![r] = [s EXCEPT !.pc = pc]]
    BY <1>7 DEF StartApply, SetupGoes, s
  <2>2. /\ setups'[r].pc = pc /\ setups'[r].op = s.op /\ setups'[r].result = s.result
        /\ setups'[r].given = s.given /\ setups'[r].expected = s.expected
        /\ s.pc = "asked" /\ setupState'[r] = setupState[r] /\ touched' = touched
        /\ PlanApproved(r)
    BY <1>0, <1>7, <2>1 DEF StartApply, SetupGoes, SetupTypeOK, SetupCommand, s
  <2>3. s.op = "apply" /\ s.given \in SetupRuns /\ Published(s.given) /\ s.result = Unset
    BY <2>2 DEF RunHolds, Untouched, s
  <2>4. GoesByPlan(r) BY <2>2, <2>3 DEF GoesByPlan, s
  <2>5. GoesByPlan(r)' /\ (PluginToInstall(r)' <=> PluginToInstall(r))
    BY <2>2, <2>3, <2>4, <1>p
  <2>6. Untouched(r)' /\ Answered(r)' /\ Recording(r)'
    BY <2>2 DEF RunHolds, Untouched, Answered, Recording, Recorded, s
  <2>7. Applies(r)' BY <2>1, <2>2, <2>3, <2>5 DEF Applies, Installing, PluginIsIn
  <2> QED BY <2>6, <2>7 DEF RunHolds
<1>i. ASSUME NEW pc \in Installing \ {"check"}, s.pc \in Installing,
             SetupGoes(r, [s EXCEPT !.pc = pc])
      PROVE  RunHolds(r)'
  <2>2. /\ setups'[r].pc = pc /\ setups'[r].op = s.op /\ setups'[r].result = s.result
        /\ setups'[r].given = s.given /\ setups'[r].expected = s.expected
        /\ setupState'[r] = setupState[r]
    BY <1>0, <1>i DEF SetupGoes, SetupTypeOK, SetupCommand, s
  <2>3. s.op = "apply" /\ GoesByPlan(r) /\ s.result = Unset /\ PluginToInstall(r)
    BY <1>i DEF RunHolds, Applies, s
  <2>4. GoesByPlan(r)' /\ PluginToInstall(r)'
    BY <2>2, <2>3, <1>p DEF GoesByPlan, s
  <2>5. Untouched(r)' /\ Answered(r)' /\ Recording(r)'
    BY <1>i, <2>2 DEF RunHolds, Untouched, Answered, Recording, Recorded, Installing, s
  <2>6. Applies(r)' BY <1>i, <2>2, <2>3, <2>4 DEF Applies, Installing
  <2> QED BY <2>5, <2>6 DEF RunHolds
<1>8. CASE LookForOffer(r) \/ LookForMarket(r)
  <2>1. \/ SetupFails(r)
        \/ \E pc \in Installing \ {"check"} : SetupGoes(r, [s EXCEPT !.pc = pc])
    BY <1>8 DEF LookForOffer, LookForMarket, Installing, s
  <2>2. s.pc \in Installing BY <1>8 DEF LookForOffer, LookForMarket, Installing, s
  <2> QED BY <2>1, <2>2, <1>f, <1>i DEF Installing
<1>9. CASE AddMarket(r)
  <2>1. SetupFails(r) \/ SetupGoes(r, [s EXCEPT !.pc = "add_plugin"])
    BY <1>9 DEF AddMarket, s
  <2>2. s.pc \in Installing BY <1>9 DEF AddMarket, Installing, s
  <2> QED BY <2>1, <2>2, <1>f, <1>i DEF Installing
<1>10. CASE AddPlugin(r)
  <2>0. s.pc = "add_plugin" BY <1>10 DEF AddPlugin, s
  <2>1. CASE SetupFails(r) BY <2>0, <2>1, <1>f
  <2>2. CASE SetupGoes(r, [s EXCEPT !.pc = "check"])
    <3>1. /\ setups'[r].pc = "check" /\ setups'[r].op = s.op /\ setups'[r].result = s.result
          /\ setups'[r].given = s.given /\ setups'[r].expected = s.expected
          /\ setupState'[r] = setupState[r]
      BY <1>0, <2>2 DEF SetupGoes, SetupTypeOK, SetupCommand, s
    <3>2. s.op = "apply" /\ GoesByPlan(r) /\ s.result = Unset /\ PluginToInstall(r)
      BY <2>0 DEF RunHolds, Applies, Installing, s
    <3>3. GoesByPlan(r)' /\ PluginToInstall(r)'
      BY <3>1, <3>2, <1>p DEF GoesByPlan, s
    <3>4. r \in touched' BY <1>10 DEF AddPlugin
    <3>5. Untouched(r)' /\ Answered(r)' /\ Recording(r)'
      BY <2>0, <3>1 DEF RunHolds, Untouched, Answered, Recording, Recorded, s
    <3>6. Applies(r)' BY <3>1, <3>2, <3>3, <3>4 DEF Applies, Installing
    <3> QED BY <3>5, <3>6 DEF RunHolds
  <2> QED BY <1>10, <2>1, <2>2 DEF AddPlugin, s
<1>11. CASE CheckPlugin(r)
  <2>0. s.pc = "check" /\ touched' = touched BY <1>11 DEF CheckPlugin, s
  <2>1. CASE SetupFails(r) BY <2>0, <2>1, <1>f
  <2>2. CASE SetupGoes(r, [s EXCEPT !.pc = "conclude", !.checked = "verified"])
    <3>1. /\ setups'[r].pc = "conclude" /\ setups'[r].op = s.op /\ setups'[r].result = s.result
          /\ setups'[r].given = s.given /\ setups'[r].expected = s.expected
          /\ setups'[r].checked = "verified" /\ setupState'[r] = setupState[r]
      BY <1>0, <2>2 DEF SetupGoes, SetupTypeOK, SetupCommand, s
    <3>2. s.op = "apply" /\ GoesByPlan(r) /\ s.result = Unset /\ r \in touched
      BY <2>0 DEF RunHolds, Applies, Installing, s
    <3>3. GoesByPlan(r)' BY <3>1, <3>2, <1>p DEF GoesByPlan, s
    <3>5. Untouched(r)' /\ Answered(r)' /\ Recording(r)'
      BY <2>0, <3>1 DEF RunHolds, Untouched, Answered, Recording, Recorded, s
    <3>6. Applies(r)' BY <2>0, <3>1, <3>2, <3>3 DEF Applies, Installing, PluginIsIn
    <3> QED BY <3>5, <3>6 DEF RunHolds
  <2> QED BY <1>11, <2>1, <2>2 DEF CheckPlugin, s
<1>12. CASE ConcludeApply(r)
  <2>1. PICK result \in {"passed", "unavailable"} :
          /\ result = IF AllThere(Entries(PlanGiven(r))) THEN "passed" ELSE "unavailable"
          /\ setups' = [setups EXCEPT ![r] = [s EXCEPT !.pc = "answered", !.result = result]]
    BY <1>12 DEF ConcludeApply, SetupGoes, s
  <2>2. /\ setups'[r].pc = "answered" /\ setups'[r].op = s.op /\ setups'[r].result = result
        /\ setups'[r].given = s.given /\ setups'[r].expected = s.expected
        /\ setups'[r].checked = s.checked
        /\ s.pc = "conclude" /\ setupState'[r] = setupState[r] /\ touched' = touched
    BY <1>0, <1>12, <2>1 DEF ConcludeApply, SetupGoes, SetupTypeOK, SetupCommand, s
  <2>3. GoesByPlan(r) /\ PluginIsIn(r) BY <2>2 DEF RunHolds, Applies, s
  <2>4. /\ GoesByPlan(r)' /\ PlanGiven(r)' = PlanGiven(r)
        /\ PluginToInstall(r)' <=> PluginToInstall(r)
    BY <2>2, <2>3, <1>p DEF GoesByPlan, s
  <2>5. Untouched(r)' /\ Applies(r)' /\ Recording(r)'
    BY <2>2 DEF RunHolds, Untouched, Applies, Recording, Installing, Recorded, s
  <2>6. PluginIsIn(r)' BY <2>2, <2>3, <2>4 DEF PluginIsIn, s
  <2>7. Answered(r)' BY <2>1, <2>2, <2>4, <2>6, Distinct DEF Answered, Recorded
  <2> QED BY <2>5, <2>7 DEF RunHolds
<1>a. ASSUME NEW pc \in {"receipt", "save", "done"}, setups' = [setups EXCEPT ![r].pc = pc],
             s.pc \in {"answered", "receipt", "save"}, touched' = touched,
             pc = "receipt" => HasReceipt(r)
      PROVE  /\ setups'[r].pc = pc /\ setups'[r].op = s.op /\ setups'[r].result = s.result
             /\ setups'[r].given = s.given
             /\ s.result # Unset /\ (HasReceipt(r)' <=> HasReceipt(r))
             /\ HasReceipt(r) => ReceiptBy(r)' = ReceiptBy(r)
             /\ Untouched(r)' /\ Applies(r)' /\ Answered(r)'
  <2>1. /\ setups'[r].pc = pc /\ setups'[r].op = s.op /\ setups'[r].result = s.result
        /\ setups'[r].given = s.given /\ setups'[r].expected = s.expected
        /\ setups'[r].checked = s.checked
    BY <1>0, <1>a DEF SetupTypeOK, SetupCommand, s
  <2>2. HasReceipt(r)' <=> HasReceipt(r) BY <2>1 DEF HasReceipt, s
  <2>3. s.result # Unset BY <1>a DEF RunHolds, Answered, s
  <2>4. Untouched(r)' /\ Applies(r)' BY <2>1, <1>a DEF Untouched, Applies, Installing
  <2>5. CASE HasReceipt(r)
    <3>1. /\ GoesByPlan(r) /\ PluginIsIn(r)
          /\ s.result = "passed" => AllThere(Entries(PlanGiven(r)))
      BY <1>a, <2>5 DEF RunHolds, Answered, Recorded, s
    <3>2. /\ GoesByPlan(r)' /\ PlanGiven(r)' = PlanGiven(r) /\ ReceiptBy(r)' = ReceiptBy(r)
          /\ PluginToInstall(r)' <=> PluginToInstall(r)
      BY <2>1, <3>1, <1>p DEF GoesByPlan, s
    <3>3. PluginIsIn(r)' BY <1>a, <2>1, <3>1, <3>2 DEF PluginIsIn, s
    <3>4. Answered(r)' BY <2>1, <2>2, <2>3, <2>5, <3>1, <3>2, <3>3 DEF Answered, s
    <3> QED BY <2>1, <2>2, <2>3, <2>4, <3>2, <3>4
  <2>6. CASE ~HasReceipt(r)
    <3>1. Answered(r)' BY <1>a, <2>1, <2>2, <2>3, <2>6 DEF Answered
    <3> QED BY <2>1, <2>2, <2>3, <2>4, <2>6, <3>1
  <2> QED BY <2>5, <2>6
<1>13. CASE RecordSetup(r)
  <2>1. PICK pc \in {"receipt", "save"} :
          /\ pc = IF HasReceipt(r) THEN "receipt" ELSE "save"
          /\ setups' = [setups EXCEPT ![r].pc = pc]
    BY <1>13 DEF RecordSetup
  <2>2. /\ s.pc = "answered" /\ touched' = touched /\ setupState' = setupState
        /\ setupEvidence'[r] = s.result
    BY <1>13 DEF RecordSetup, SetupTypeOK, s
  <2>3. /\ setups'[r].pc = pc /\ setups'[r].result = s.result
        /\ (HasReceipt(r)' <=> HasReceipt(r))
        /\ Untouched(r)' /\ Applies(r)' /\ Answered(r)'
    BY <2>1, <2>2, <1>a
  <2>4. Recording(r)' BY <2>1, <2>2, <2>3 DEF RunHolds, Recording, Recorded, s
  <2> QED BY <2>3, <2>4 DEF RunHolds
<1>14. CASE StoreReceipt(r)
  <2>1. s.pc = "receipt" /\ touched' = touched /\ setupState' = setupState
        /\ setupEvidence' = setupEvidence
    BY <1>14 DEF StoreReceipt, s
  <2>2. HasReceipt(r) /\ s.given \in SetupRuns
    BY <2>1 DEF RunHolds, Answered, Recorded, GoesByPlan, s
  <2>3. CASE setups' = [setups EXCEPT ![r].pc = "save"]
             /\ installReceipts' = [installReceipts EXCEPT ![s.given] = ReceiptBy(r)]
    <3>1. /\ setups'[r].pc = "save" /\ setups'[r].result = s.result /\ setups'[r].op = s.op
          /\ setups'[r].given = s.given /\ s.result # Unset
          /\ ReceiptBy(r)' = ReceiptBy(r)
          /\ Untouched(r)' /\ Applies(r)' /\ Answered(r)'
      BY <2>1, <2>2, <2>3, <1>a
    <3>2. installReceipts'[s.given] = ReceiptBy(r) BY <2>2, <2>3 DEF SetupTypeOK
    <3>3. Recording(r)'
      BY <2>1, <3>1, <3>2 DEF RunHolds, Recording, Recorded, s
    <3> QED BY <3>1, <3>3 DEF RunHolds
  <2>4. CASE setups' = [setups EXCEPT ![r].pc = "ended"]
    <3>1. setups'[r].pc = "ended" BY <1>0, <2>4 DEF SetupTypeOK, SetupCommand, s
    <3> QED BY <2>1, <3>1 DEF RunHolds, Untouched, Applies, Answered, Recording, Installing,
                             Recorded, s
  <2> QED BY <1>14, <2>3, <2>4 DEF StoreReceipt, s
<1>15. CASE SaveSetup(r)
  <2>1. /\ setups' = [setups EXCEPT ![r].pc = "done"]
        /\ s.pc = "save" /\ touched' = touched /\ setupEvidence' = setupEvidence
        /\ installReceipts' = installReceipts
        /\ setupState'[r] = "completed" => s.result = "passed"
    BY <1>15 DEF SaveSetup, SetupTypeOK, s
  <2>2. /\ setups'[r].pc = "done" /\ setups'[r].op = s.op /\ setups'[r].result = s.result
        /\ setups'[r].given = s.given
        /\ (HasReceipt(r)' <=> HasReceipt(r))
        /\ HasReceipt(r) => ReceiptBy(r)' = ReceiptBy(r)
        /\ Untouched(r)' /\ Applies(r)' /\ Answered(r)'
    BY <2>1, <1>a
  <2>3. Recording(r)' BY <2>1, <2>2 DEF RunHolds, Recording, Recorded, s
  <2> QED BY <2>2, <2>3 DEF RunHolds
<1>16. CASE DieInSetup(r)
  <2>1. setups'[r].pc = "ended" /\ setupState'[r] = setupState[r] /\ s.pc # "done"
    BY <1>0, <1>16 DEF DieInSetup, SetupGoes, SetupTypeOK, SetupCommand, s
  <2> QED BY <2>1 DEF RunHolds, Untouched, Applies, Answered, Recording, Installing,
                      Recorded, s
<1> QED BY <1>1, <1>2, <1>3, <1>4, <1>5, <1>6, <1>7, <1>8, <1>9, <1>10, <1>11, <1>12,
           <1>13, <1>14, <1>15, <1>16 DEF SetupStep

-------------------------------------------------------------------------------
(* Receipts.                                                                  *)

\* The plan's command tells an installed plugin from one that was there.
LEMMA EnteredAsInstalled ==
  ASSUME NEW seen, Executable(seen), Entries(seen)["plugin"] = "installed"
  PROVE  ActionFor("plugin", seen["plugin"]) = "install_then_verify"
<1>1. "plugin" \in Products BY DEF Products
<1>2. EntryFor("plugin", seen) = "installed" BY <1>1 DEF Entries
<1>3. ActionFor("plugin", seen["plugin"]) = "" => EntryFor("plugin", seen) = Unset
  BY DEF EntryFor
<1>4. ActionFor("plugin", seen["plugin"]) = "verify" => EntryFor("plugin", seen) = "verified"
  BY DEF EntryFor
<1> QED BY <1>1, <1>2, <1>3, <1>4, Distinct DEF Executable

\* A receipt that is stored stays backed: nobody overwrites another plan's.
LEMMA ReceiptsHold ==
  ASSUME SetupTypeOK, SetupTypeOK', NEW r \in SetupRuns, SetupStep(r), OthersStay(r), RunHolds(r),
         NEW q \in SetupRuns, ReceiptHolds(q)
  PROVE  ReceiptHolds(q)'
<1>0. PICK p : p = installReceipts[q].run OBVIOUS
<1>1. CASE installReceipts[q] # Unset
  <2>1. installReceipts'[q] = installReceipts[q] BY <1>1 DEF OthersStay
  <2>2. p \in SetupRuns BY <1>0, <1>1 DEF SetupTypeOK, Receipts
  <2>3. /\ setups[p].pc \in {"save", "done", "ended"} /\ HasReceipt(p)
        /\ setups[p].given = q /\ GoesByPlan(p) /\ PluginIsIn(p)
        /\ setupEvidence[p] = setups[p].result /\ setups[p].result # Unset
        /\ installReceipts[q] = ReceiptBy(p)
    BY <1>0, <1>1 DEF ReceiptHolds
  <2>4. /\ setups'[p].pc \in {"save", "done", "ended"}
        /\ setups'[p].op = setups[p].op /\ setups'[p].given = setups[p].given
        /\ setups'[p].expected = setups[p].expected /\ setups'[p].checked = setups[p].checked
        /\ setups'[p].result = setups[p].result
        /\ setupEvidence'[p] = setupEvidence[p] /\ (p \in touched => p \in touched')
    <3>1. CASE p # r BY <2>2, <2>3, <3>1 DEF OthersStay, SetupTypeOK
    <3>2. CASE p = r
      <4>0. setups[r] \in SetupCommand BY DEF SetupTypeOK
      <4>1. setups[r].pc = "save" BY <2>3, <3>2 DEF OthersStay
      <4>2. SaveSetup(r) \/ DieInSetup(r)
        BY <4>1 DEF SetupStep, BeginLook, BeginInstall, Unresolved, ObserveProduct, ReportSetup,
             RefuseApply, StartApply, LookForOffer, LookForMarket, AddMarket, AddPlugin,
             CheckPlugin, ConcludeApply, RecordSetup, StoreReceipt
      <4>3. \E pc \in {"done", "ended"} : setups' = [setups EXCEPT ![r].pc = pc]
        BY <4>2 DEF SaveSetup, DieInSetup, SetupGoes
      <4>4. setupEvidence' = setupEvidence /\ touched' = touched
        BY <4>2 DEF SaveSetup, DieInSetup, SetupGoes
      <4> QED BY <3>2, <4>0, <4>3, <4>4 DEF SetupTypeOK, SetupCommand
    <3> QED BY <3>1, <3>2
  <2>5. /\ Published(setups[p].given)' /\ PlanGiven(p)' = PlanGiven(p)
        /\ PlanApproved(p)' <=> PlanApproved(p)
        /\ PluginToInstall(p)' <=> PluginToInstall(p)
        /\ ReceiptBy(p)' = ReceiptBy(p)
    BY <2>2, <2>3, <2>4, PlanStays DEF GoesByPlan
  <2>6. GoesByPlan(p)' BY <2>3, <2>4, <2>5 DEF GoesByPlan
  <2>7. PluginIsIn(p)' BY <2>3, <2>4, <2>5 DEF PluginIsIn
  <2>8. HasReceipt(p)' BY <2>3, <2>4 DEF HasReceipt
  <2> QED BY <1>0, <2>1, <2>3, <2>4, <2>5, <2>6, <2>7, <2>8 DEF ReceiptHolds
<1>2. CASE installReceipts[q] = Unset /\ installReceipts'[q] # Unset
  <2>1. /\ StoreReceipt(r) /\ setups[r].pc = "receipt"
        /\ installReceipts' = [installReceipts EXCEPT ![setups[r].given] = ReceiptBy(r)]
        /\ setups' = [setups EXCEPT ![r].pc = "save"]
        /\ touched' = touched /\ setupEvidence' = setupEvidence
    BY <1>2 DEF SetupStep, BeginLook, BeginInstall, Unresolved, ObserveProduct, ReportSetup,
         RefuseApply, StartApply, LookForOffer, LookForMarket, AddMarket, AddPlugin,
         CheckPlugin, ConcludeApply, RecordSetup, StoreReceipt, SaveSetup, DieInSetup,
         SetupGoes, SetupFails
  <2>2. setups[r].given = q /\ installReceipts'[q] = ReceiptBy(r)
    BY <1>2, <2>1 DEF SetupTypeOK
  <2>3. installReceipts'[q].run = r BY <2>2 DEF ReceiptBy
  <2>4. /\ HasReceipt(r) /\ GoesByPlan(r) /\ PluginIsIn(r) /\ setups[r].result # Unset
        /\ setupEvidence[r] = setups[r].result
    BY <2>1 DEF RunHolds, Answered, Recording, Recorded, HasReceipt
  <2>5. /\ setups'[r].pc = "save" /\ setups'[r].op = setups[r].op
        /\ setups'[r].given = setups[r].given /\ setups'[r].expected = setups[r].expected
        /\ setups'[r].checked = setups[r].checked /\ setups'[r].result = setups[r].result
    <3>1. setups[r] \in SetupCommand BY DEF SetupTypeOK
    <3> QED BY <2>1, <3>1 DEF SetupTypeOK, SetupCommand
  <2>6. /\ Published(setups[r].given)'
        /\ PlanApproved(r)' <=> PlanApproved(r)
        /\ PluginToInstall(r)' <=> PluginToInstall(r)
        /\ ReceiptBy(r)' = ReceiptBy(r)
    BY <2>4, <2>5, PlanStays DEF GoesByPlan
  <2>7. GoesByPlan(r)' BY <2>4, <2>5, <2>6 DEF GoesByPlan
  <2>8. PluginIsIn(r)' BY <2>1, <2>4, <2>5, <2>6 DEF PluginIsIn
  <2>9. HasReceipt(r)' BY <2>4, <2>5 DEF HasReceipt
  <2> QED BY <2>1, <2>2, <2>3, <2>4, <2>5, <2>6, <2>7, <2>8, <2>9 DEF ReceiptHolds
<1>3. CASE installReceipts'[q] = Unset BY <1>3 DEF ReceiptHolds
<1> QED BY <1>1, <1>2, <1>3

\* Past the question, a command stays the one it is.
LEMMA CommandStays ==
  ASSUME SetupTypeOK, NEW r \in SetupRuns, SetupStep(r),
         setups[r].pc \notin {"idle", "look", "asked"}
  PROVE  /\ setups'[r].op = setups[r].op /\ setups'[r].given = setups[r].given
         /\ setups'[r].expected = setups[r].expected
<1> DEFINE s == setups[r]
<1>0. s \in SetupCommand BY DEF SetupTypeOK
<1> HIDE DEF s
<1>1. ASSUME NEW pc, NEW x,
             \/ setups' = [setups EXCEPT ![r] = [s EXCEPT !.pc = pc]]
             \/ setups' = [setups EXCEPT ![r] = [s EXCEPT !.pc = pc, !.result = x]]
             \/ setups' = [setups EXCEPT ![r] = [s EXCEPT !.pc = pc, !.checked = x]]
      PROVE  setups'[r].op = s.op /\ setups'[r].given = s.given /\ setups'[r].expected = s.expected
  <2>1. \/ setups'[r] = [s EXCEPT !.pc = pc]
        \/ setups'[r] = [s EXCEPT !.pc = pc, !.result = x]
        \/ setups'[r] = [s EXCEPT !.pc = pc, !.checked = x]
    BY <1>1 DEF SetupTypeOK
  <2> QED BY <1>0, <2>1 DEF SetupCommand
<1>2. CASE LookForOffer(r) \/ LookForMarket(r) \/ AddMarket(r) \/ AddPlugin(r)
  <2>1. PICK pc \in InSetup : SetupGoes(r, [s EXCEPT !.pc = pc]) \/ SetupFails(r)
    BY <1>2 DEF LookForOffer, LookForMarket, AddMarket, AddPlugin, InSetup, s
  <2> QED BY <2>1, <1>1 DEF SetupFails, SetupGoes, s
<1>3. CASE CheckPlugin(r) BY <1>3, <1>1 DEF CheckPlugin, SetupFails, SetupGoes, s
<1>4. CASE ConcludeApply(r)
  <2>1. PICK result : SetupGoes(r, [s EXCEPT !.pc = "answered", !.result = result])
    BY <1>4 DEF ConcludeApply, s
  <2>2. setups' = [setups EXCEPT ![r] = [s EXCEPT !.pc = "answered", !.result = result]]
    BY <2>1 DEF SetupGoes
  <2> HIDE <2>1
  <2> QED BY <2>2, <1>1 DEF s
<1>5. CASE RecordSetup(r) \/ StoreReceipt(r) \/ SaveSetup(r) \/ DieInSetup(r)
  <2>1. \E pc : setups' = [setups EXCEPT ![r].pc = pc]
    BY <1>5 DEF RecordSetup, StoreReceipt, SaveSetup, DieInSetup, SetupGoes
  <2> QED BY <2>1, <1>1 DEF s
<1> QED BY <1>2, <1>3, <1>4, <1>5 DEF SetupStep, BeginLook, BeginInstall, Unresolved,
           ObserveProduct, ReportSetup, RefuseApply, StartApply, s

\* Who adds to the host goes by its plan, then and later.
LEMMA AddedHolds ==
  ASSUME SetupTypeOK, SetupTypeOK', NEW r \in SetupRuns, SetupStep(r), OthersStay(r),
         \A p \in SetupRuns : RunHolds(p), AddedByPlan
  PROVE  AddedByPlan'
<1> SUFFICES ASSUME NEW p \in touched'
             PROVE  setups'[p].op = "apply" /\ GoesByPlan(p)' /\ PluginToInstall(p)'
  BY DEF AddedByPlan
<1>0. p \in SetupRuns /\ setups[p] \in SetupCommand BY DEF SetupTypeOK
<1>1. /\ setups[p].op = "apply" /\ GoesByPlan(p) /\ PluginToInstall(p)
      /\ setups[p].pc \notin {"idle", "look", "asked"}
  <2>1. CASE p \in touched
    <3>1. setups[p].pc \notin {"idle", "look", "asked"} BY <1>0, <2>1 DEF RunHolds, Untouched
    <3> QED BY <2>1, <3>1 DEF AddedByPlan
  <2>2. CASE p \notin touched
    <3>1. p = r BY <1>0, <2>2 DEF OthersStay
    <3>2. setups[r].pc \in {"add_market", "add_plugin"}
      BY <2>2, <3>1 DEF SetupStep, BeginLook, BeginInstall, Unresolved, ObserveProduct, ReportSetup,
           RefuseApply, StartApply, LookForOffer, LookForMarket, AddMarket, AddPlugin,
           CheckPlugin, ConcludeApply, RecordSetup, StoreReceipt, SaveSetup, DieInSetup,
           SetupGoes, SetupFails
    <3> QED BY <1>0, <3>1, <3>2 DEF RunHolds, Applies, Installing
  <2> QED BY <2>1, <2>2
<1>2. /\ setups'[p].op = setups[p].op /\ setups'[p].given = setups[p].given
      /\ setups'[p].expected = setups[p].expected
  <2>1. CASE p # r BY <1>0, <2>1 DEF OthersStay, SetupTypeOK
  <2>2. CASE p = r BY <1>1, <2>2, CommandStays
  <2> QED BY <2>1, <2>2
<1>3. /\ Published(setups[p].given)' /\ (PlanApproved(p)' <=> PlanApproved(p))
      /\ PluginToInstall(p)' <=> PluginToInstall(p)
  BY <1>0, <1>1, <1>2, PlanStays DEF GoesByPlan
<1> QED BY <1>1, <1>2, <1>3 DEF GoesByPlan

-------------------------------------------------------------------------------
(* The invariant.                                                             *)

\* The invariant of the setup holds at first,
LEMMA SetupInitInv ==
  ASSUME SetupInit
  PROVE  SetupInv
<1>1. IdleSetup \in SetupCommand BY DEF IdleSetup, SetupCommand, Seen
<1>2. SetupTypeOK BY <1>1, SetupAssumption DEF SetupInit, SetupTypeOK
<1>3. /\ IdleSetup.pc = "idle" /\ IdleSetup.op = "none" /\ IdleSetup.result = Unset
  BY DEF IdleSetup
<1>4. ASSUME NEW r \in SetupRuns PROVE RunHolds(r)
  <2>1. setups[r] = IdleSetup /\ setupState[r] = "none" /\ r \notin touched BY DEF SetupInit
  <2> QED BY <1>3, <2>1 DEF RunHolds, Untouched, Applies, Answered, Recording, Installing, Recorded
<1> QED BY <1>2, <1>4 DEF SetupInit, SetupInv, AddedByPlan, ReceiptHolds

\* and every step keeps it;
LEMMA SetupStepInv ==
  ASSUME SetupInv, [SetupNext]_setupVars
  PROVE  SetupInv'
<1>0. SetupTypeOK /\ SetupTypeOK' BY SetupTypeStep DEF SetupInv
<1>1. CASE UNCHANGED setupVars \/ ChangeHost
  <2>1. UNCHANGED <<setups, setupState, setupEvidence, installReceipts, touched>>
    BY <1>1 DEF setupVars, ChangeHost
  <2> USE DEF SetupInv, PlanGiven, Published
  <2>2. ASSUME NEW r
        PROVE  /\ GoesByPlan(r)' <=> GoesByPlan(r)
               /\ PluginToInstall(r)' <=> PluginToInstall(r)
               /\ PluginIsIn(r)' <=> PluginIsIn(r)
               /\ HasReceipt(r)' <=> HasReceipt(r)
               /\ ReceiptBy(r)' = ReceiptBy(r)
    BY <2>1 DEF GoesByPlan, PluginIsIn, PluginToInstall, HasReceipt, ReceiptBy, PlanApproved
  <2>3. AddedByPlan' BY <2>1, <2>2 DEF AddedByPlan
  <2>4. ASSUME NEW r \in SetupRuns PROVE RunHolds(r)'
    BY <2>1, <2>2 DEF RunHolds, Untouched, Applies, Answered, Recording
  <2>5. ASSUME NEW q \in SetupRuns PROVE ReceiptHolds(q)'
    BY <2>1, <2>2 DEF ReceiptHolds
  <2> QED BY <1>0, <2>3, <2>4, <2>5
<1>2. ASSUME NEW r \in SetupRuns, SetupStep(r) PROVE SetupInv'
  <2>1. OthersStay(r) BY <1>0, <1>2, OthersStayed
  <2>2. AddedByPlan' BY <1>0, <1>2, <2>1, AddedHolds DEF SetupInv
  <2>3. ASSUME NEW p \in SetupRuns PROVE RunHolds(p)'
    BY <1>0, <1>2, <2>1, OwnHolds, OthersHold DEF SetupInv
  <2>4. ASSUME NEW q \in SetupRuns PROVE ReceiptHolds(q)'
    BY <1>0, <1>2, <2>1, ReceiptsHold DEF SetupInv
  <2> QED BY <1>0, <2>2, <2>3, <2>4 DEF SetupInv
<1> QED BY <1>1, <1>2 DEF SetupNext

\* it says that receipts are backed.
LEMMA SetupInvBacks ==
  ASSUME SetupInv
  PROVE  ReceiptIsBacked
<1>1. AddedAsApproved BY DEF SetupInv, AddedByPlan, AddedAsApproved, GoesByPlan
<1>2. ReceiptIsProven
  <2> SUFFICES ASSUME NEW q \in SetupRuns, installReceipts[q] # Unset,
                      NEW r, r = installReceipts[q].run
               PROVE  /\ setups[r].given = q /\ PlanApproved(r)
                      /\ setupEvidence[r] = setups[r].result /\ setupEvidence[r] # Unset
                      /\ installReceipts[q].entries["plugin"] = "installed" =>
                           r \in touched /\ setups[r].checked = "verified"
    BY DEF ReceiptIsProven
  <2>1. /\ setups[r].given = q /\ GoesByPlan(r) /\ PluginIsIn(r)
        /\ setupEvidence[r] = setups[r].result /\ setups[r].result # Unset
        /\ installReceipts[q] = ReceiptBy(r)
    BY DEF SetupInv, ReceiptHolds
  <2>2. ASSUME installReceipts[q].entries["plugin"] = "installed" PROVE PluginToInstall(r)
    <3>1. Entries(PlanGiven(r))["plugin"] = "installed" BY <2>1, <2>2 DEF ReceiptBy
    <3>2. Executable(PlanGiven(r)) BY <2>1 DEF GoesByPlan, PlanApproved
    <3> QED BY <3>1, <3>2, EnteredAsInstalled DEF PluginToInstall
  <2> QED BY <2>1, <2>2 DEF GoesByPlan, PluginIsIn
<1>3. CompletedHasReceipt
  <2> SUFFICES ASSUME NEW r \in SetupRuns, setupState[r] = "completed", setups[r].op = "apply"
               PROVE  LET receipt == installReceipts[setups[r].given]
                      IN receipt # Unset /\ receipt.run = r /\ AllThere(receipt.entries)
    BY DEF CompletedHasReceipt
  <2>1. setups[r].pc = "done" /\ setups[r].result = "passed"
    BY DEF SetupInv, RunHolds, Recording
  <2>2. HasReceipt(r) BY <2>1 DEF HasReceipt
  <2>3. installReceipts[setups[r].given] = ReceiptBy(r)
    BY <2>1, <2>2 DEF SetupInv, RunHolds, Recording
  <2>4. AllThere(Entries(PlanGiven(r)))
    BY <2>1, <2>2 DEF SetupInv, RunHolds, Answered, Recorded
  <2>5. ReceiptBy(r) # Unset BY EntriesTyped, SetupAssumption DEF ReceiptBy, Receipts
  <2> QED BY <2>3, <2>4, <2>5 DEF ReceiptBy
<1> QED BY <1>1, <1>2, <1>3 DEF ReceiptIsBacked

\* The variables of the setup keep their types.
THEOREM SetupTypesHold == SetupSpec => []SetupTypeOK
<1>1. SetupInv => SetupTypeOK BY DEF SetupInv
<1> QED BY <1>1, SetupInitInv, SetupStepInv, PTL DEF SetupSpec

\* Whoever plans and applies, and wherever it dies: the host is added to by Runs only that apply
\* a plan as published and approved, a receipt has such a Run with its evidence behind it, and a
\* completed Run has a receipt of its own.
THEOREM ReceiptBacked == SetupSpec => []ReceiptIsBacked
BY SetupInitInv, SetupStepInv, SetupInvBacks, PTL DEF SetupSpec

-------------------------------------------------------------------------------
(***************************************************************************)
(* The private CI: one command at a time has the Run's lock, one job is at  *)
(* work, and what the progress calls completed was written before it.       *)
(***************************************************************************)

Locked == {"verifying", "registering", "reverifying", "receipt", "execution", "workflow",
           "checkpoint", "progress"}
AtWork == {"driving", "acting", "driven", "reverifying", "receipt", "execution", "workflow",
           "checkpoint", "progress"}
Steps == Locked \union AtWork \union {"idle", "over"}

CiTypes ==
  /\ progress \in {None} \union Progresses
  /\ receipts \in [StageNames -> {None} \union StageReceipts]
  /\ project \in CiContents /\ review \in [AllKinds -> {None} \union Attestations]
  /\ jobAt \in [WorkflowRuns -> Steps]
  /\ stageOf \in [WorkflowRuns -> StageNames \union {None}]
  /\ given \in [WorkflowRuns -> SUBSET Attestations]
  /\ left \in [WorkflowRuns -> SUBSET AllKinds]
  /\ dismissals \in Nat /\ clock \in Nat

\* One command has the lock, and the job of the stage at work is the one the progress names.
OneAtWork(j) ==
  /\ jobAt[j] \in Locked => stageLock = j
  /\ jobAt[j] \in {"verifying", "registering"} =>
       progress # None /\ progress.status = "waiting" /\ NextStage # None /\ stageOf[j] = NextStage
  /\ jobAt[j] \in AtWork =>
       /\ progress # None /\ progress.status = "running"
       /\ progress.active.job = j /\ progress.active.stage = stageOf[j]
       /\ NextStage # None /\ stageOf[j] = NextStage

\* What a completing job has written so far.
Writing(j) ==
  /\ jobAt[j] \in {"execution", "workflow", "checkpoint", "progress"} =>
       receipts[stageOf[j]] # None
  /\ jobAt[j] \in {"workflow", "checkpoint"} => execution = stageOf[j]
  /\ jobAt[j] = "checkpoint" => workflow = stageOf[j]
  /\ jobAt[j] = "progress" =>
       \E c \in checkpoints : /\ c.id = receipts[stageOf[j]]
                              /\ c.execution = stageOf[j] /\ c.workflow = stageOf[j]

RunningIsNext ==
  progress # None /\ progress.status = "running" =>
    NextStage # None /\ progress.active # None /\ progress.active.stage = NextStage

\* What was edited between two stages is in the Project of no stage at work, nor in what is
\* expected after it.
EditsApart ==
  /\ project.edits \subseteq made /\ between \subseteq made
  /\ progress # None => progress.expected.edits \subseteq made \ between
  /\ progress # None /\ progress.status = "running" => project.edits \intersect between = {}
  /\ \A j \in WorkflowRuns :
       /\ jobAt[j] \in Locked => project.edits \intersect between = {}
       /\ jobAt[j] \in {"execution", "workflow", "checkpoint", "progress"} =>
            receipts[stageOf[j]].after.edits \subseteq made \ between

CiInv ==
  /\ CiTypes /\ ProgressIsBacked /\ RunningIsNext /\ EditsApart
  /\ \A j \in WorkflowRuns : OneAtWork(j) /\ Writing(j)

-----------------------------------------------------------------------------
\* There are four stages.
LEMMA StagesAre == DOMAIN Stages = 1..4 /\ Len(Stages) = 4
BY DEF Stages

\* The next stage is the one after those that are completed.
LEMMA NextIs ==
  ASSUME NextStage # None, progress \in Progresses
  PROVE  /\ Len(progress.completed) \in 0..3
         /\ NextStage = Stages[Len(progress.completed) + 1] /\ NextStage \in StageNames
<1>1. PICK n \in Nat : n = Len(progress.completed) BY DEF Progresses
<1>2. n < 4 /\ NextStage = Stages[n + 1]
  BY <1>1, StagesAre DEF NextStage
<1>3. n \in 0..3 /\ n + 1 \in DOMAIN Stages BY <1>2, StagesAre
<1>4. Stages[n + 1] \in StageNames BY <1>3 DEF StageNames
<1> QED BY <1>1, <1>2, <1>3, <1>4

\* A stage may change kinds that are kinds.
LEMMA KindsTyped ==
  ASSUME NEW stage \in StageNames
  PROVE  KindsOf(stage) \subseteq AllKinds
BY DEF AllKinds

\* What the Project holds, with an import or other edits.
LEMMA ContentsMove ==
  ASSUME NEW p \in CiContents
  PROVE  /\ p.edits \subseteq Edits
         /\ \A v \in BOOLEAN : /\ [p EXCEPT !.imported = v] \in CiContents
                              /\ [p EXCEPT !.imported = v].edits = p.edits
         /\ \A e \in SUBSET Edits : /\ [p EXCEPT !.edits = e] \in CiContents
                                   /\ [p EXCEPT !.edits = e].edits = e
BY DEF CiContents

\* The Project as it was when the workflow began has no edits.
LEMMA OriginalIs == Original \in CiContents /\ Original.edits = {}
BY DEF Original, CiContents

\* A progress that begins waits with nothing completed.
LEMMA NewProgressIs ==
  /\ NewProgress \in Progresses /\ NewProgress.status = "waiting"
  /\ NewProgress.completed = <<>> /\ NewProgress.active = None /\ NewProgress.expected = Original
BY OriginalIs DEF NewProgress, Progresses

\* What a job begins with, and what completing its stage makes of the progress.
RunningAs(p, stage, j, attestations) ==
  [p EXCEPT !.status = "running",
            !.active = [stage |-> stage, job |-> j, attestations |-> attestations]]

\* A progress that runs a stage has completed what it had completed.
LEMMA RunningIs ==
  ASSUME NEW p \in Progresses, NEW stage \in StageNames, NEW j \in WorkflowRuns,
         NEW attestations \in SUBSET Attestations
  PROVE  /\ RunningAs(p, stage, j, attestations) \in Progresses
         /\ RunningAs(p, stage, j, attestations).status = "running"
         /\ RunningAs(p, stage, j, attestations).completed = p.completed
         /\ RunningAs(p, stage, j, attestations).expected = p.expected
         /\ RunningAs(p, stage, j, attestations).active # None
         /\ RunningAs(p, stage, j, attestations).active.stage = stage
         /\ RunningAs(p, stage, j, attestations).active.job = j
<1>1. PICK active : active = [stage |-> stage, job |-> j, attestations |-> attestations] OBVIOUS
<1>2. active \in Actives /\ active.stage = stage /\ active.job = j BY <1>1 DEF Actives
<1>3. PICK q : q = [p EXCEPT !.status = "running", !.active = active] OBVIOUS
<1>4. /\ q \in Progresses /\ q.status = "running" /\ q.completed = p.completed
      /\ q.expected = p.expected /\ q.active = active
  BY <1>2, <1>3 DEF Progresses
<1>5. active # None BY <1>2, StagedCiConstants
<1>6. RunningAs(p, stage, j, attestations) = q BY <1>1, <1>3 DEF RunningAs
<1> QED BY <1>2, <1>4, <1>5, <1>6

\* A completion adds the receipt of the stage, and expects what that left.
LEMMA CompletedIs ==
  ASSUME progress \in Progresses, NEW j \in WorkflowRuns, stageOf[j] \in StageNames,
         receipts[stageOf[j]] \in StageReceipts
  PROVE  /\ Completed(j) \in Progresses
         /\ Completed(j).completed = Append(progress.completed,
              [stage |-> stageOf[j], receipt |-> receipts[stageOf[j]]])
         /\ Completed(j).status # "running"
         /\ Completed(j).expected = receipts[stageOf[j]].after
<1>1. PICK e : e = [stage |-> stageOf[j], receipt |-> receipts[stageOf[j]]] OBVIOUS
<1>2. e \in StageEntries BY <1>1 DEF StageEntries
<1>3. PICK s : s = Append(progress.completed, e) OBVIOUS
<1>4. s \in Seq(StageEntries) BY <1>2, <1>3 DEF Progresses
<1>5. PICK after \in CiContents : after = receipts[stageOf[j]].after BY DEF StageReceipts
<1>6. PICK status \in {"waiting", "completed"} :
         status = IF Len(s) < Len(Stages) THEN "waiting" ELSE "completed"
  OBVIOUS
<1>7. Completed(j) = [status |-> status, completed |-> s, active |-> None, expected |-> after]
  BY <1>1, <1>3, <1>5, <1>6 DEF Completed
<1> QED BY <1>1, <1>3, <1>4, <1>5, <1>7 DEF Progresses

-----------------------------------------------------------------------------
\* What a step changes that only moves the job j: the files it writes are none of those the
\* other jobs rest on.
Kept == <<progress, receipts, execution, workflow, checkpoints, project, review,
          dismissals, clock, made, between>>

OtherJobsStay(j) ==
  \A k \in WorkflowRuns \ {j} :
    /\ jobAt'[k] = jobAt[k] /\ stageOf'[k] = stageOf[k]
    /\ jobAt[k] \in Locked => stageLock' = k

\* A step inside one job, which writes no record and takes no lock wrongly, keeps it all.
LEMMA JobMoves ==
  ASSUME CiInv, NEW j \in WorkflowRuns, UNCHANGED Kept, OtherJobsStay(j),
         jobAt' \in [WorkflowRuns -> Steps],
         stageOf' \in [WorkflowRuns -> StageNames \union {None}],
         given' \in [WorkflowRuns -> SUBSET Attestations],
         left' \in [WorkflowRuns -> SUBSET AllKinds],
         OneAtWork(j)', jobAt'[j] \notin {"execution", "workflow", "checkpoint", "progress"},
         jobAt'[j] \in Locked => project.edits \intersect between = {}
  PROVE  CiInv'
<1>1. CiTypes' BY DEF CiInv, CiTypes, Kept
<1>2. NextStage' = NextStage BY DEF NextStage, Kept
<1>3. ProgressIsBacked' BY DEF CiInv, ProgressIsBacked, Kept
<1>4. RunningIsNext' BY <1>2 DEF CiInv, RunningIsNext, Kept
<1>5. ASSUME NEW k \in WorkflowRuns PROVE OneAtWork(k)' /\ Writing(k)'
  <2>1. CASE k = j BY <2>1 DEF Writing
  <2>2. CASE k # j
    <3>1. /\ jobAt'[k] = jobAt[k] /\ stageOf'[k] = stageOf[k]
          /\ jobAt[k] \in Locked => stageLock' = k
      BY <2>2 DEF OtherJobsStay
    <3> QED BY <3>1, <1>2 DEF CiInv, OneAtWork, Writing, Kept
  <2> QED BY <2>1, <2>2
<1>6. EditsApart'
  <2>1. /\ project' = project /\ made' = made /\ between' = between /\ progress' = progress
        /\ receipts' = receipts
    BY DEF Kept
  <2>2. ASSUME NEW k \in WorkflowRuns
        PROVE  /\ jobAt'[k] \in Locked => project.edits \intersect between = {}
               /\ jobAt'[k] \in {"execution", "workflow", "checkpoint", "progress"} =>
                    receipts[stageOf'[k]].after.edits \subseteq made \ between
    <3>1. CASE k = j BY <3>1
    <3>2. CASE k # j BY <3>2 DEF CiInv, EditsApart, OtherJobsStay
    <3> QED BY <3>1, <3>2
  <2> QED BY <2>1, <2>2 DEF CiInv, EditsApart
<1> QED BY <1>1, <1>3, <1>4, <1>5, <1>6 DEF CiInv

\* Beginning a stage keeps the invariant of the stages.
LEMMA Begins ==
  ASSUME CiInv, NEW j \in WorkflowRuns, BeginStage(j) PROVE CiInv'
<1>1. /\ jobAt[j] = "idle" /\ stageLock = None /\ progress # None
      /\ project = progress.expected /\ progress.status = "waiting" /\ NextStage # None
      /\ Start(j, NextStage)
  BY DEF BeginStage, Load
<1>2. UNCHANGED Kept BY <1>1 DEF Start, Kept, files, history
<1>3. NextStage' = NextStage BY <1>2 DEF NextStage, Kept
<1>4. NextStage \in StageNames BY <1>1, NextIs DEF CiInv, CiTypes
<1>5. KindsOf(NextStage) \subseteq AllKinds BY <1>4, KindsTyped
<1>6. /\ jobAt' \in [WorkflowRuns -> Steps] /\ jobAt'[j] = "verifying"
      /\ stageOf' \in [WorkflowRuns -> StageNames \union {None}] /\ stageOf'[j] = NextStage
      /\ stageLock' = j
  BY <1>1, <1>4 DEF CiInv, CiTypes, Start, MoveJob, Steps, Locked
<1>7. /\ given' \in [WorkflowRuns -> SUBSET Attestations]
      /\ left' \in [WorkflowRuns -> SUBSET AllKinds]
  BY <1>1, <1>5 DEF CiInv, CiTypes, Start
<1>8. OneAtWork(j)'
  BY <1>1, <1>2, <1>3, <1>6 DEF OneAtWork, Kept, Locked, AtWork
<1>9. project.edits \intersect between = {} BY <1>1 DEF CiInv, EditsApart
<1>10. \A k \in WorkflowRuns : jobAt[k] \notin Locked
  BY <1>1, StagedCiConstants DEF CiInv, OneAtWork
<1>11. OtherJobsStay(j) BY <1>1, <1>10 DEF OtherJobsStay, Start, MoveJob, CiInv, CiTypes
<1> QED BY <1>2, <1>6, <1>7, <1>8, <1>9, <1>11, JobMoves

\* A job that has the lock is the only one with it, and so is a job at work.
LEMMA OnlyOne ==
  ASSUME CiInv, NEW j \in WorkflowRuns, NEW k \in WorkflowRuns, k # j
  PROVE  /\ jobAt[j] \in Locked => jobAt[k] \notin Locked
         /\ jobAt[j] \in AtWork => jobAt[k] \notin AtWork
         /\ jobAt[j] \in AtWork => jobAt[k] \notin {"verifying", "registering"}
BY DEF CiInv, OneAtWork

\* So does the review that is verified before a stage,
LEMMA Verifies ==
  ASSUME CiInv, NEW j \in WorkflowRuns, VerifyReview(j) PROVE CiInv'
<1>1. /\ jobAt[j] = "verifying" /\ stageOf' = stageOf
      /\ UNCHANGED <<files, project, review, history>>
  BY DEF VerifyReview
<1>2. UNCHANGED Kept BY <1>1 DEF Kept, files, history
<1>3. NextStage' = NextStage BY <1>2 DEF NextStage, Kept
<1>4. /\ progress # None /\ progress.status = "waiting" /\ NextStage # None
      /\ stageOf[j] = NextStage /\ stageLock = j
  BY <1>1 DEF CiInv, OneAtWork, Locked
<1>5. NextStage \in StageNames BY <1>4, NextIs DEF CiInv, CiTypes
<1>6. KindsOf(stageOf[j]) \subseteq AllKinds BY <1>4, <1>5, KindsTyped
<1>7. project.edits \intersect between = {} BY <1>1 DEF CiInv, EditsApart, Locked
<1>8. \A k \in WorkflowRuns \ {j} : jobAt[k] \notin Locked BY <1>1, OnlyOne DEF Locked
<1>9. PICK kind \in left[j] :
        LET answer == Attested(kind, stageOf[j], progress.expected) IN
        \/ /\ answer # None
           /\ given' = [given EXCEPT ![j] = @ \union {answer}]
           /\ left' = [left EXCEPT ![j] = IF @ = {kind} THEN KindsOf(stageOf[j]) \ {"stage"}
                                                        ELSE @ \ {kind}]
           /\ MoveJob(j, IF left[j] = {kind} THEN "registering" ELSE "verifying")
           /\ UNCHANGED stageLock
        \/ Over(j)
  BY DEF VerifyReview
<1>a. PICK answer : answer = Attested(kind, stageOf[j], progress.expected) OBVIOUS
<1>10. CASE Over(j)
  <2>1. /\ jobAt' = [jobAt EXCEPT ![j] = "over"] /\ left' = [left EXCEPT ![j] = {}]
        /\ given' = [given EXCEPT ![j] = {}]
    BY <1>10 DEF Over, Ends, MoveJob
  <2>2. /\ jobAt' \in [WorkflowRuns -> Steps] /\ jobAt'[j] = "over"
        /\ given' \in [WorkflowRuns -> SUBSET Attestations]
        /\ left' \in [WorkflowRuns -> SUBSET AllKinds]
    BY <2>1 DEF CiInv, CiTypes, Steps
  <2>3. OneAtWork(j)' BY <2>2 DEF OneAtWork, Locked, AtWork
  <2>4. OtherJobsStay(j) BY <2>1, <1>1, <1>8 DEF OtherJobsStay, CiInv, CiTypes
  <2>5. stageOf' \in [WorkflowRuns -> StageNames \union {None}] BY <1>1 DEF CiInv, CiTypes
  <2> QED BY <2>2, <2>3, <2>4, <2>5, <1>2, <1>7, JobMoves
<1>11. CASE /\ answer # None
            /\ given' = [given EXCEPT ![j] = @ \union {answer}]
            /\ left' = [left EXCEPT ![j] = IF @ = {kind} THEN KindsOf(stageOf[j]) \ {"stage"}
                                                         ELSE @ \ {kind}]
            /\ MoveJob(j, IF left[j] = {kind} THEN "registering" ELSE "verifying")
            /\ UNCHANGED stageLock
  <2>1. PICK step \in {"registering", "verifying"} : jobAt' = [jobAt EXCEPT ![j] = step]
    BY <1>11 DEF MoveJob
  <2>2. answer \in Attestations
    BY <1>a, <1>11 DEF Attested, CiInv, CiTypes
  <2>3. /\ jobAt' \in [WorkflowRuns -> Steps] /\ jobAt'[j] = step
        /\ stageOf' \in [WorkflowRuns -> StageNames \union {None}]
    BY <2>1, <1>1 DEF CiInv, CiTypes, Steps, Locked
  <2>4. given' \in [WorkflowRuns -> SUBSET Attestations] BY <2>2, <1>11 DEF CiInv, CiTypes
  <2>5. left' \in [WorkflowRuns -> SUBSET AllKinds] BY <1>6, <1>11 DEF CiInv, CiTypes
  <2>6. OneAtWork(j)'
    BY <1>1, <1>2, <1>3, <1>4, <1>11, <2>3 DEF OneAtWork, Kept, Locked, AtWork
  <2>7. OtherJobsStay(j) BY <2>1, <1>1, <1>8 DEF OtherJobsStay, CiInv, CiTypes
  <2> QED BY <2>1, <2>3, <2>4, <2>5, <2>6, <2>7, <1>2, <1>7, JobMoves
<1> QED BY <1>9, <1>a, <1>10, <1>11

\* the registration of its decision,
LEMMA Registers ==
  ASSUME CiInv, NEW j \in WorkflowRuns, RegisterDecision(j) PROVE CiInv'
<1>1. /\ UNCHANGED Kept /\ UNCHANGED <<jobAt, stageOf, given, stageLock>>
      /\ jobAt[j] = "registering"
  BY DEF RegisterDecision, Kept, history
<1>2. NextStage' = NextStage BY <1>1 DEF NextStage, Kept
<1>3. PICK kind : left' = [left EXCEPT ![j] = @ \ {kind}] BY DEF RegisterDecision
<1>4. left' \in [WorkflowRuns -> SUBSET AllKinds] BY <1>3 DEF CiInv, CiTypes
<1>5. OneAtWork(j)' BY <1>1, <1>2 DEF CiInv, OneAtWork, Kept
<1>6. OtherJobsStay(j) BY <1>1 DEF OtherJobsStay, CiInv, OneAtWork
<1>7. project.edits \intersect between = {} BY <1>1 DEF CiInv, EditsApart, Locked
<1> QED BY <1>1, <1>4, <1>5, <1>6, <1>7, JobMoves DEF CiInv, CiTypes

\* the check of its driver,
LEMMA Checks ==
  ASSUME CiInv, NEW j \in WorkflowRuns, DriverChecks(j) PROVE CiInv'
<1>1. /\ jobAt[j] = "driving"
      /\ UNCHANGED <<files, project, review, stageOf, left, given, stageLock, history>>
  BY DEF DriverChecks
<1>2. PICK step \in {"acting", "over"} : jobAt' = [jobAt EXCEPT ![j] = step]
  BY DEF DriverChecks, MoveJob
<1>3. UNCHANGED Kept BY <1>1 DEF Kept, files, history
<1>4. NextStage' = NextStage BY <1>3 DEF NextStage, Kept
<1>5. jobAt' \in [WorkflowRuns -> Steps] /\ jobAt'[j] = step
  BY <1>2 DEF CiInv, CiTypes, Steps, AtWork
<1>6. OneAtWork(j)'
  BY <1>1, <1>3, <1>4, <1>5 DEF CiInv, OneAtWork, Kept, AtWork, Locked
<1>7. OtherJobsStay(j) BY <1>1, <1>2 DEF OtherJobsStay, CiInv, CiTypes, OneAtWork
<1> QED BY <1>1, <1>2, <1>3, <1>5, <1>6, <1>7, JobMoves DEF CiInv, CiTypes, Locked

\* a completion,
LEMMA Completes ==
  ASSUME CiInv, NEW j \in WorkflowRuns, Complete(j) PROVE CiInv'
<1>1. /\ jobAt[j] \in {"driven", "idle"} /\ stageLock = None /\ progress # None
      /\ progress.status = "running" /\ progress.active.stage = stageOf[j]
      /\ progress.active.job = j /\ stageLock' = j
      /\ jobAt' = [jobAt EXCEPT ![j] = "reverifying"]
      /\ left' = [left EXCEPT ![j] = {a.kind : a \in progress.active.attestations}]
      /\ UNCHANGED <<files, project, review, stageOf, given, history>>
  BY DEF Complete, MoveJob
<1>2. UNCHANGED Kept BY <1>1 DEF Kept, files, history
<1>3. NextStage' = NextStage BY <1>2 DEF NextStage, Kept
<1>4. NextStage # None /\ progress.active # None /\ progress.active.stage = NextStage
  BY <1>1 DEF CiInv, RunningIsNext
<1>5. progress.active \in Actives BY <1>1, <1>4 DEF CiInv, CiTypes, Progresses
<1>6. \A a \in progress.active.attestations : a.kind \in AllKinds
  BY <1>5 DEF Actives, Attestations
<1>7. left' \in [WorkflowRuns -> SUBSET AllKinds] BY <1>1, <1>6 DEF CiInv, CiTypes
<1>8. jobAt' \in [WorkflowRuns -> Steps] /\ jobAt'[j] = "reverifying"
  BY <1>1 DEF CiInv, CiTypes, Steps, Locked
<1>9. OneAtWork(j)'
  BY <1>1, <1>2, <1>3, <1>4, <1>8 DEF OneAtWork, Kept, AtWork, Locked
<1>10. \A k \in WorkflowRuns : jobAt[k] \notin Locked
  BY <1>1, StagedCiConstants DEF CiInv, OneAtWork
<1>11. OtherJobsStay(j) BY <1>1, <1>10 DEF OtherJobsStay, CiInv, CiTypes
<1>12. project.edits \intersect between = {} BY <1>1 DEF CiInv, EditsApart
<1> QED BY <1>1, <1>2, <1>7, <1>8, <1>9, <1>11, <1>12, JobMoves DEF CiInv, CiTypes

\* the review that is verified again at the end,
LEMMA Reverifies ==
  ASSUME CiInv, NEW j \in WorkflowRuns, ReverifyReview(j) PROVE CiInv'
<1>1. jobAt[j] = "reverifying" /\ UNCHANGED <<files, project, review, stageOf, history>>
  BY DEF ReverifyReview
<1>2. UNCHANGED Kept BY <1>1 DEF Kept, files, history
<1>3. NextStage' = NextStage BY <1>2 DEF NextStage, Kept
<1>4. PICK kind :
        \/ /\ left' = [left EXCEPT ![j] = @ \ {kind}]
           /\ MoveJob(j, IF left[j] = {kind} THEN "receipt" ELSE "reverifying")
           /\ UNCHANGED <<given, stageLock>>
        \/ Over(j)
  BY DEF ReverifyReview
<1>5. PICK step \in {"receipt", "reverifying", "over"} :
        /\ jobAt' = [jobAt EXCEPT ![j] = step] /\ (step = "over" \/ UNCHANGED stageLock)
  BY <1>4 DEF Over, Ends, MoveJob
<1>6. /\ given' \in [WorkflowRuns -> SUBSET Attestations]
      /\ left' \in [WorkflowRuns -> SUBSET AllKinds]
  BY <1>4 DEF Over, CiInv, CiTypes
<1>7. jobAt' \in [WorkflowRuns -> Steps] /\ jobAt'[j] = step
  BY <1>5 DEF CiInv, CiTypes, Steps, AtWork
<1>8. OneAtWork(j)'
  BY <1>1, <1>2, <1>3, <1>5, <1>7 DEF CiInv, OneAtWork, Kept, AtWork, Locked
<1>9. \A k \in WorkflowRuns \ {j} : jobAt[k] \notin Locked BY <1>1, OnlyOne DEF Locked
<1>10. OtherJobsStay(j) BY <1>1, <1>5, <1>9 DEF OtherJobsStay, CiInv, CiTypes
<1>11. project.edits \intersect between = {} BY <1>1 DEF CiInv, EditsApart, Locked
<1> QED BY <1>1, <1>2, <1>5, <1>6, <1>7, <1>8, <1>10, <1>11, JobMoves DEF CiInv, CiTypes

\* the death of a job,
LEMMA Dies ==
  ASSUME CiInv, NEW j \in WorkflowRuns, Die(j) PROVE CiInv'
<1>1. /\ jobAt' = [jobAt EXCEPT ![j] = "idle"] /\ left' = [left EXCEPT ![j] = {}]
      /\ stageLock' = (IF stageLock = j THEN None ELSE stageLock)
      /\ given' = [given EXCEPT ![j] = {}] /\ stageOf' = stageOf
  BY DEF Die, MoveJob
<1>2. UNCHANGED Kept BY DEF Die, Kept, files
<1>3. jobAt' \in [WorkflowRuns -> Steps] /\ jobAt'[j] = "idle"
  BY <1>1 DEF CiInv, CiTypes, Steps
<1>4. OneAtWork(j)' BY <1>3 DEF OneAtWork, Locked, AtWork
<1>5. OtherJobsStay(j) BY <1>1 DEF OtherJobsStay, CiInv, CiTypes, OneAtWork
<1> QED BY <1>1, <1>2, <1>3, <1>4, <1>5, JobMoves DEF CiInv, CiTypes, Locked

-----------------------------------------------------------------------------
\* the registration of a workflow,
LEMMA RunRegistered ==
  ASSUME CiInv, Register PROVE CiInv'
<1>1. /\ progress = None /\ progress' \in {None, NewProgress}
      /\ UNCHANGED <<receipts, execution, workflow, checkpoints, project, review, locals, history>>
  BY DEF Register
<1>2. /\ progress' # None => progress'.completed = <<>> /\ progress'.status = "waiting"
                             /\ progress'.expected.edits = {}
      /\ progress' \in {None} \union Progresses
  BY <1>1, NewProgressIs, OriginalIs
<1>3. CiTypes' BY <1>1, <1>2 DEF CiInv, CiTypes, locals, history
<1>4. ProgressIsBacked' BY <1>2 DEF ProgressIsBacked
<1>5. RunningIsNext' BY <1>2 DEF RunningIsNext
<1>6. EditsApart' BY <1>1, <1>2 DEF CiInv, EditsApart, locals, history
<1>7. ASSUME NEW k \in WorkflowRuns PROVE OneAtWork(k)' /\ Writing(k)'
  <2>1. jobAt[k] \notin AtWork \union {"verifying", "registering"} /\ jobAt' = jobAt
        /\ stageLock' = stageLock
    BY <1>1 DEF CiInv, OneAtWork, locals
  <2> QED BY <2>1 DEF CiInv, OneAtWork, Writing, AtWork
<1> QED BY <1>3, <1>4, <1>5, <1>6, <1>7 DEF CiInv

\* the record that a stage runs,
LEMMA Runs ==
  ASSUME CiInv, NEW j \in WorkflowRuns, SaveRunning(j) PROVE CiInv'
<1>1. /\ jobAt[j] = "registering" /\ jobAt' = [jobAt EXCEPT ![j] = "driving"]
      /\ progress' = [progress EXCEPT !.status = "running",
           !.active = [stage |-> stageOf[j], job |-> j, attestations |-> given[j]]]
      /\ stageLock' = None /\ given' = [given EXCEPT ![j] = {}]
      /\ UNCHANGED <<receipts, execution, workflow, checkpoints, project, review, stageOf, left,
                     dismissals, clock, made, between>>
  BY DEF SaveRunning, Ends, MoveJob
<1>2. /\ progress # None /\ NextStage # None /\ stageOf[j] = NextStage
      /\ progress.status = "waiting" /\ stageLock = j
  BY <1>1 DEF CiInv, OneAtWork, Locked
<1>3. stageOf[j] \in StageNames BY <1>2, NextIs DEF CiInv, CiTypes
<1>p. PICK p : p = progress /\ p \in Progresses BY <1>2 DEF CiInv, CiTypes
<1>q. PICK q : q = RunningAs(p, stageOf[j], j, given[j]) OBVIOUS
<1>g. given[j] \in SUBSET Attestations BY DEF CiInv, CiTypes
<1>r. progress' = q BY <1>1, <1>p, <1>q DEF RunningAs
<1>4. /\ progress' = q /\ progress = p
      /\ q \in Progresses /\ q.status = "running"
      /\ q.completed = p.completed /\ q.expected = p.expected
      /\ q.active # None /\ q.active.stage = stageOf[j] /\ q.active.job = j
  BY <1>p, <1>q, <1>r, <1>3, <1>g, RunningIs
<1>5. NextStage' = NextStage BY <1>4 DEF NextStage
<1>6. progress' # None BY <1>4, StagedCiConstants
<1>7. CiTypes' BY <1>1, <1>4 DEF CiInv, CiTypes, Steps, AtWork
<1>8. ProgressIsBacked' BY <1>1, <1>2, <1>4 DEF CiInv, ProgressIsBacked
<1>9. RunningIsNext' BY <1>2, <1>4, <1>5 DEF RunningIsNext
<1>10. \A k \in WorkflowRuns \ {j} :
          /\ jobAt'[k] = jobAt[k] /\ stageOf'[k] = stageOf[k]
          /\ jobAt[k] \notin Locked \union AtWork
  BY <1>1, <1>2, OnlyOne DEF CiInv, CiTypes, OneAtWork, Locked
<1>11. jobAt'[j] = "driving" /\ stageOf'[j] = stageOf[j] BY <1>1 DEF CiInv, CiTypes
<1>12. ASSUME NEW k \in WorkflowRuns PROVE OneAtWork(k)' /\ Writing(k)'
  <2>1. CASE k = j
    BY <2>1, <1>2, <1>4, <1>5, <1>6, <1>11 DEF OneAtWork, Writing, Locked
  <2>2. CASE k # j BY <2>2, <1>10 DEF OneAtWork, Writing, Locked, AtWork
  <2> QED BY <2>1, <2>2
<1>13. EditsApart'
  <2>1. project.edits \intersect between = {} BY <1>1 DEF CiInv, EditsApart, Locked
  <2>2. \A k \in WorkflowRuns : jobAt'[k] \notin Locked
    BY <1>10, <1>11 DEF Locked
  <2>3. progress.expected.edits \subseteq made \ between BY <1>2 DEF CiInv, EditsApart
  <2> QED BY <1>1, <1>4, <2>1, <2>2, <2>3 DEF CiInv, EditsApart, Locked
<1> QED BY <1>7, <1>8, <1>9, <1>12, <1>13 DEF CiInv

\* The job at work is the only one whose writing the states and the Project can concern.
LEMMA Drives ==
  ASSUME CiInv, NEW j \in WorkflowRuns, DriverActs(j) PROVE CiInv'
<1>1. /\ jobAt[j] = "acting"
      /\ project' \in {project, [project EXCEPT !.imported = TRUE],
                       [project EXCEPT !.imported = FALSE]}
      /\ UNCHANGED <<progress, receipts, workflow, checkpoints, review, stageOf, left, given,
                     stageLock, history>>
  BY DEF DriverActs
<1>2. PICK step \in {"driven", "over"} : jobAt' = [jobAt EXCEPT ![j] = step]
  BY DEF DriverActs, MoveJob
<1>3. NextStage' = NextStage BY <1>1 DEF NextStage
<1>4. project' \in CiContents /\ project'.edits = project.edits
  BY <1>1, ContentsMove DEF CiInv, CiTypes
<1>5. CiTypes'
  <2>1. jobAt' \in [WorkflowRuns -> Steps] BY <1>2 DEF CiInv, CiTypes, Steps, AtWork
  <2> QED BY <2>1, <1>1, <1>4 DEF CiInv, CiTypes, history
<1>6. ProgressIsBacked' BY <1>1 DEF CiInv, ProgressIsBacked
<1>7. RunningIsNext' BY <1>1, <1>3 DEF CiInv, RunningIsNext
<1>8. jobAt'[j] = step BY <1>2 DEF CiInv, CiTypes
<1>9. \A k \in WorkflowRuns \ {j} : jobAt'[k] = jobAt[k] /\ jobAt[k] \notin AtWork
  BY <1>1, <1>2, OnlyOne DEF CiInv, CiTypes, AtWork
<1>10. ASSUME NEW k \in WorkflowRuns PROVE OneAtWork(k)' /\ Writing(k)'
  <2>1. CASE k = j
    BY <2>1, <1>1, <1>3, <1>8 DEF CiInv, OneAtWork, Writing, Locked, AtWork
  <2>2. CASE k # j
    BY <2>2, <1>1, <1>3, <1>9 DEF CiInv, OneAtWork, Writing, AtWork
  <2> QED BY <2>1, <2>2
<1>11. EditsApart'
  <2>1. ASSUME NEW k \in WorkflowRuns
        PROVE  /\ jobAt'[k] \in Locked => jobAt[k] \in Locked
               /\ jobAt'[k] \notin {"execution", "workflow", "checkpoint", "progress"}
    BY <1>8, <1>9 DEF Locked, AtWork
  <2> QED BY <2>1, <1>1, <1>4 DEF CiInv, EditsApart, history
<1> QED BY <1>5, <1>6, <1>7, <1>10, <1>11 DEF CiInv

-----------------------------------------------------------------------------
\* The writes of complete_stage.
LEMMA ReceiptWritten ==
  ASSUME CiInv, NEW j \in WorkflowRuns, WriteReceipt(j) PROVE CiInv'
<1>1. /\ jobAt[j] = "receipt" /\ clock' = clock + 1
      /\ UNCHANGED <<progress, execution, workflow, checkpoints, project, review, stageOf,
                     dismissals, made, between>>
  BY DEF WriteReceipt
<1>2. /\ progress # None /\ progress.status = "running" /\ NextStage # None
      /\ stageOf[j] = NextStage /\ stageLock = j /\ progress.active.job = j
      /\ progress.active.stage = stageOf[j]
  BY <1>1 DEF CiInv, OneAtWork, Locked, AtWork
<1>3. NextStage' = NextStage BY <1>1 DEF NextStage
<1>4. stageOf[j] \in StageNames BY <1>2, NextIs DEF CiInv, CiTypes
<1>5. project.edits \intersect between = {} /\ project.edits \subseteq made
  BY <1>1 DEF CiInv, EditsApart, Locked
<1>6. \A k \in WorkflowRuns \ {j} : jobAt[k] \notin Locked \union AtWork
  BY <1>1, <1>2, OnlyOne DEF Locked, AtWork
<1>7. CASE Over(j) /\ UNCHANGED receipts
  <2>1. /\ jobAt' = [jobAt EXCEPT ![j] = "over"] /\ left' = [left EXCEPT ![j] = {}]
        /\ given' = [given EXCEPT ![j] = {}]
    BY <1>7 DEF Over, Ends, MoveJob
  <2>2. CiTypes' BY <2>1, <1>1, <1>7 DEF CiInv, CiTypes, Steps
  <2>3. ProgressIsBacked' BY <1>1, <1>7 DEF CiInv, ProgressIsBacked
  <2>4. RunningIsNext' BY <1>1, <1>3 DEF CiInv, RunningIsNext
  <2>5. ASSUME NEW k \in WorkflowRuns
        PROVE  jobAt'[k] \notin Locked \union AtWork
    BY <2>1, <1>6 DEF CiInv, CiTypes, Locked, AtWork
  <2>6. \A k \in WorkflowRuns : OneAtWork(k)' /\ Writing(k)'
    BY <2>5 DEF OneAtWork, Writing, Locked, AtWork
  <2>7. EditsApart' BY <2>5, <1>1, <1>7 DEF CiInv, EditsApart, Locked
  <2> QED BY <2>2, <2>3, <2>4, <2>6, <2>7 DEF CiInv
<1>8. CASE /\ receipts[stageOf[j]] = None
           /\ receipts' = [receipts EXCEPT ![stageOf[j]] =
               [stage |-> stageOf[j], job |-> j, at |-> clock,
                before |-> progress.expected, after |-> project]]
           /\ MoveJob(j, "execution") /\ UNCHANGED <<left, given, stageLock>>
  <2>1. PICK r : r = [stage |-> stageOf[j], job |-> j, at |-> clock,
                      before |-> progress.expected, after |-> project]
    OBVIOUS
  <2>2. progress.expected \in CiContents BY <1>2 DEF CiInv, CiTypes, Progresses
  <2>3. r \in StageReceipts /\ r.after = project
    BY <2>1, <2>2, <1>4 DEF StageReceipts, CiInv, CiTypes
  <2>4. r # None BY <2>3, StagedCiConstants
  <2>5. receipts' = [receipts EXCEPT ![stageOf[j]] = r] BY <1>8, <2>1
  <2>6. receipts'[stageOf[j]] = r
        /\ \A s \in StageNames \ {stageOf[j]} : receipts'[s] = receipts[s]
    BY <2>5, <1>4 DEF CiInv, CiTypes
  <2>7. jobAt' = [jobAt EXCEPT ![j] = "execution"] BY <1>8 DEF MoveJob
  <2>8. jobAt'[j] = "execution" /\ \A k \in WorkflowRuns \ {j} : jobAt'[k] = jobAt[k]
    BY <2>7 DEF CiInv, CiTypes
  <2>9. CiTypes'
    <3>1. receipts' \in [StageNames -> {None} \union StageReceipts]
      BY <2>5, <2>3 DEF CiInv, CiTypes
    <3>2. jobAt' \in [WorkflowRuns -> Steps] BY <2>7 DEF CiInv, CiTypes, Steps, AtWork
    <3> QED BY <3>1, <3>2, <1>1, <1>8 DEF CiInv, CiTypes
  <2>10. ProgressIsBacked'
    <3>1. PICK done : done = progress.completed OBVIOUS
    <3>2. done \in Seq(StageEntries)
      BY <3>1, <1>2 DEF CiInv, CiTypes, Progresses
    <3>3. ASSUME NEW i \in DOMAIN done
          PROVE  receipts'[done[i].stage] = done[i].receipt
      <4>1. done[i] \in StageEntries BY <3>2
      <4>t. done[i].stage \in StageNames /\ done[i].receipt \in StageReceipts
        BY <4>1 DEF StageEntries
      <4>2. receipts[done[i].stage] = done[i].receipt
        BY <3>1, <1>2 DEF CiInv, ProgressIsBacked
      <4>3. done[i].receipt # None BY <4>t, StagedCiConstants
      <4>4. done[i].stage # stageOf[j] BY <4>2, <4>3, <1>8
      <4> QED BY <4>t, <4>2, <4>4, <2>6
    <3> QED BY <3>1, <3>3, <1>1 DEF CiInv, ProgressIsBacked
  <2>11. RunningIsNext' BY <1>1, <1>3 DEF CiInv, RunningIsNext
  <2>12. ASSUME NEW k \in WorkflowRuns PROVE OneAtWork(k)' /\ Writing(k)'
    <3>1. CASE k = j
      BY <3>1, <2>4, <2>6, <2>8, <1>1, <1>2, <1>3, <1>8
      DEF OneAtWork, Writing, Locked, AtWork
    <3>2. CASE k # j
      BY <3>2, <2>8, <1>6 DEF OneAtWork, Writing, Locked, AtWork
    <3> QED BY <3>1, <3>2
  <2>13. EditsApart'
    <3>1. ASSUME NEW k \in WorkflowRuns, jobAt'[k] \in Locked PROVE k = j
      BY <3>1, <2>8, <1>6
    <3>2. receipts'[stageOf[j]].after.edits \subseteq made \ between
      BY <2>3, <2>6, <1>5
    <3> QED BY <3>1, <3>2, <1>1, <1>5 DEF CiInv, EditsApart, Locked
  <2> QED BY <2>9, <2>10, <2>11, <2>12, <2>13 DEF CiInv
<1> QED BY <1>7, <1>8 DEF WriteReceipt

\* The two states and the checkpoint: files of the job at work, that no completed stage rests on.
LEMMA StatesWritten ==
  ASSUME CiInv, NEW j \in WorkflowRuns, NEW from, NEW to,
         <<from, to>> \in {<<"execution", "workflow">>, <<"workflow", "checkpoint">>,
                           <<"checkpoint", "progress">>},
         jobAt[j] = from, MoveJob(j, to), checkpoints \subseteq checkpoints',
         UNCHANGED <<progress, receipts, project, review, stageOf, left, given, stageLock,
                     dismissals, clock, made, between>>,
         Writing(j)'
  PROVE  CiInv'
<1>1. jobAt' = [jobAt EXCEPT ![j] = to] /\ to \in {"workflow", "checkpoint", "progress"}
      /\ from \in {"execution", "workflow", "checkpoint"}
  BY DEF MoveJob
<1>2. jobAt'[j] = to /\ \A k \in WorkflowRuns \ {j} : jobAt'[k] = jobAt[k]
  BY <1>1 DEF CiInv, CiTypes
<1>3. NextStage' = NextStage BY DEF NextStage
<1>4. CiTypes'
  <2>1. jobAt' \in [WorkflowRuns -> Steps] BY <1>1 DEF CiInv, CiTypes, Steps, AtWork
  <2> QED BY <2>1 DEF CiInv, CiTypes
<1>5. ProgressIsBacked' BY DEF CiInv, ProgressIsBacked
<1>6. RunningIsNext' BY <1>3 DEF CiInv, RunningIsNext
<1>7. \A k \in WorkflowRuns \ {j} : jobAt[k] \notin Locked \union AtWork
  BY <1>1, OnlyOne DEF CiInv, OneAtWork, Locked, AtWork
<1>8. ASSUME NEW k \in WorkflowRuns PROVE OneAtWork(k)' /\ Writing(k)'
  <2>1. CASE k = j
    BY <2>1, <1>1, <1>2, <1>3 DEF CiInv, OneAtWork, Locked, AtWork
  <2>2. CASE k # j BY <2>2, <1>2, <1>7 DEF OneAtWork, Writing, Locked, AtWork
  <2> QED BY <2>1, <2>2
<1>9. EditsApart'
  <2>1. ASSUME NEW k \in WorkflowRuns, jobAt'[k] \in Locked PROVE k = j
    BY <2>1, <1>2, <1>7
  <2> QED BY <2>1, <1>1 DEF CiInv, EditsApart, Locked
<1> QED BY <1>4, <1>5, <1>6, <1>8, <1>9 DEF CiInv

\* the record of its execution,
LEMMA ExecutionSaved ==
  ASSUME CiInv, NEW j \in WorkflowRuns, SaveExecution(j) PROVE CiInv'
<1>1. jobAt'[j] = "workflow" /\ stageOf' = stageOf /\ receipts' = receipts
      /\ execution' = stageOf[j] /\ jobAt[j] = "execution"
  BY DEF SaveExecution, MoveJob, CiInv, CiTypes
<1>2. Writing(j)' BY <1>1 DEF CiInv, Writing
<1> QED BY <1>2, StatesWritten DEF SaveExecution, history

\* the record of the workflow,
LEMMA WorkflowSaved ==
  ASSUME CiInv, NEW j \in WorkflowRuns, SaveWorkflow(j) PROVE CiInv'
<1>1. jobAt'[j] = "checkpoint" /\ UNCHANGED <<stageOf, receipts, execution>>
      /\ workflow' = stageOf[j] /\ jobAt[j] = "workflow"
  BY DEF SaveWorkflow, MoveJob, CiInv, CiTypes
<1>2. Writing(j)' BY <1>1 DEF CiInv, Writing
<1> QED BY <1>2, StatesWritten DEF SaveWorkflow, history

\* the checkpoint,
LEMMA CheckpointCreated ==
  ASSUME CiInv, NEW j \in WorkflowRuns, CreateCheckpoint(j) PROVE CiInv'
<1>1. jobAt'[j] = "progress" /\ UNCHANGED <<stageOf, receipts, execution, workflow>>
      /\ jobAt[j] = "checkpoint"
  BY DEF CreateCheckpoint, MoveJob, CiInv, CiTypes
<1>2. PICK c : c = [id |-> receipts[stageOf[j]], execution |-> execution, workflow |-> workflow]
  OBVIOUS
<1>3. checkpoints' = checkpoints \union {c} BY <1>2 DEF CreateCheckpoint
<1>4. /\ receipts[stageOf[j]] # None /\ c.id = receipts[stageOf[j]]
      /\ c.execution = stageOf[j] /\ c.workflow = stageOf[j]
  BY <1>1, <1>2 DEF CiInv, Writing
<1>5. Writing(j)' BY <1>1, <1>3, <1>4 DEF Writing
<1> QED BY <1>3, <1>5, StatesWritten DEF CreateCheckpoint, history

\* the record of the progress,
LEMMA ProgressSaved ==
  ASSUME CiInv, NEW j \in WorkflowRuns, SaveProgress(j) PROVE CiInv'
<1>1. /\ jobAt[j] = "progress" /\ progress' = Completed(j)
      /\ jobAt' = [jobAt EXCEPT ![j] = "over"] /\ stageLock' = None
      /\ UNCHANGED <<receipts, execution, workflow, checkpoints, project, review, stageOf, left,
                     given, dismissals, clock, made, between>>
  BY DEF SaveProgress, Ends, MoveJob, history
<1>2. /\ progress # None /\ NextStage # None /\ stageOf[j] = NextStage
      /\ receipts[stageOf[j]] # None
  BY <1>1 DEF CiInv, OneAtWork, Writing, AtWork
<1>3. progress \in Progresses /\ stageOf[j] \in StageNames
  BY <1>2, NextIs DEF CiInv, CiTypes
<1>4. receipts[stageOf[j]] \in StageReceipts BY <1>2, <1>3 DEF CiInv, CiTypes
<1>5. PICK e : e = [stage |-> stageOf[j], receipt |-> receipts[stageOf[j]]] OBVIOUS
<1>6. PICK q : q = Completed(j) OBVIOUS
<1>7. /\ progress' = q /\ q \in Progresses /\ q.status # "running"
      /\ q.completed = Append(progress.completed, e)
      /\ q.expected = receipts[stageOf[j]].after
  BY <1>1, <1>3, <1>4, <1>5, <1>6, CompletedIs
<1>8. PICK n : n = Len(progress.completed) OBVIOUS
<1>9. /\ n \in 0..3 /\ stageOf[j] = Stages[n + 1]
      /\ DOMAIN progress.completed = 1..n /\ DOMAIN q.completed = 1..(n + 1)
      /\ q.completed[n + 1] = e
      /\ \A i \in 1..n : q.completed[i] = progress.completed[i]
  <2>1. n \in 0..3 /\ stageOf[j] = Stages[n + 1] BY <1>2, <1>3, <1>8, NextIs
  <2>2. progress.completed \in Seq(StageEntries) /\ e \in StageEntries
    BY <1>3, <1>4, <1>5 DEF Progresses, StageEntries
  <2> QED BY <2>1, <2>2, <1>7, <1>8
<1>10. CiTypes'
  <2>1. jobAt' \in [WorkflowRuns -> Steps] BY <1>1 DEF CiInv, CiTypes, Steps
  <2> QED BY <2>1, <1>1, <1>7 DEF CiInv, CiTypes
<1>11. PICK c \in checkpoints : /\ c.id = receipts[stageOf[j]]
                                /\ c.execution = stageOf[j] /\ c.workflow = stageOf[j]
  BY <1>1 DEF CiInv, Writing
<1>12. ProgressIsBacked'
  <2>1. e.stage = stageOf[j] /\ e.receipt = receipts[stageOf[j]] BY <1>5
  <2>2. ASSUME NEW i \in 1..(n + 1)
        PROVE  /\ q.completed[i].stage = Stages[i]
               /\ receipts[q.completed[i].stage] = q.completed[i].receipt
               /\ \E d \in checkpoints : /\ d.id = q.completed[i].receipt
                                         /\ d.execution = q.completed[i].stage
                                         /\ d.workflow = q.completed[i].stage
    <3>1. CASE i = n + 1 BY <3>1, <2>1, <1>9, <1>11
    <3>2. CASE i \in 1..n
      <4>1. q.completed[i] = progress.completed[i] /\ i \in DOMAIN progress.completed
        BY <3>2, <1>9
      <4> QED BY <4>1, <1>2 DEF CiInv, ProgressIsBacked
    <3> QED BY <3>1, <3>2, <1>9
  <2> QED BY <2>2, <1>1, <1>7, <1>9 DEF ProgressIsBacked
<1>13. RunningIsNext' BY <1>7 DEF RunningIsNext
<1>14. \A k \in WorkflowRuns : jobAt'[k] \notin Locked \union AtWork
  <2>1. \A k \in WorkflowRuns \ {j} : jobAt[k] \notin Locked \union AtWork
    BY <1>1, OnlyOne DEF CiInv, OneAtWork, Locked, AtWork
  <2> QED BY <2>1, <1>1 DEF CiInv, CiTypes, Locked, AtWork
<1>15. \A k \in WorkflowRuns : OneAtWork(k)' /\ Writing(k)'
  BY <1>14 DEF OneAtWork, Writing, Locked, AtWork
<1>16. EditsApart'
  <2>1. receipts[stageOf[j]].after.edits \subseteq made \ between
    BY <1>1 DEF CiInv, EditsApart
  <2> QED BY <2>1, <1>1, <1>7, <1>14 DEF CiInv, EditsApart, Locked
<1> QED BY <1>10, <1>12, <1>13, <1>15, <1>16 DEF CiInv

-----------------------------------------------------------------------------
\* The others' steps.
LEMMA Reviewed ==
  ASSUME CiInv, NEW kind \in AllKinds, Review(kind) PROVE CiInv'
<1>1. /\ progress # None /\ NextStage # None
      /\ UNCHANGED <<files, project, locals, clock, made, between>>
  BY DEF Review
<1>2. UNCHANGED <<progress, receipts, execution, workflow, checkpoints, jobAt, stageOf, left,
                  given, stageLock, project, clock, made, between>>
  BY <1>1 DEF files, locals
<1>3. NextStage \in StageNames /\ progress.expected \in CiContents
  BY <1>1, NextIs DEF CiInv, CiTypes, Progresses
<1>4. dismissals' \in Nat /\ review' \in [AllKinds -> {None} \union Attestations]
  <2>1. CASE /\ review' = [review EXCEPT ![kind] =
                 [kind |-> kind, version |-> dismissals, stage |-> NextStage,
                  revision |-> progress.expected]]
             /\ UNCHANGED dismissals
    <3>1. PICK a : a = [kind |-> kind, version |-> dismissals, stage |-> NextStage,
                        revision |-> progress.expected]
      OBVIOUS
    <3>2. a \in Attestations BY <3>1, <1>3 DEF Attestations, CiInv, CiTypes
    <3>3. review' = [review EXCEPT ![kind] = a] BY <2>1, <3>1
    <3> QED BY <2>1, <3>2, <3>3 DEF CiInv, CiTypes
  <2>2. CASE review' = [review EXCEPT ![kind] = None] /\ dismissals' = dismissals + 1
    BY <2>2 DEF CiInv, CiTypes
  <2> QED BY <2>1, <2>2 DEF Review
<1>5. CiTypes' BY <1>2, <1>4 DEF CiInv, CiTypes
<1>6. NextStage' = NextStage BY <1>2 DEF NextStage
<1>7. ProgressIsBacked' BY <1>2 DEF CiInv, ProgressIsBacked
<1>8. RunningIsNext' BY <1>2, <1>6 DEF CiInv, RunningIsNext
<1>9. \A k \in WorkflowRuns : OneAtWork(k)' /\ Writing(k)'
  BY <1>2, <1>6 DEF CiInv, OneAtWork, Writing
<1>10. EditsApart' BY <1>2 DEF CiInv, EditsApart
<1> QED BY <1>5, <1>7, <1>8, <1>9, <1>10 DEF CiInv

\* and an edit of somebody else.
LEMMA EditsKept ==
  ASSUME CiInv, NEW e \in Edits, Edit(e) PROVE CiInv'
<1>1. UNCHANGED <<progress, receipts, execution, workflow, checkpoints, jobAt, stageOf, left,
                  given, stageLock, review, dismissals, clock>>
  BY DEF Edit, files, locals
<1>2. /\ progress # None
      /\ \/ e \notin made /\ made' = made \union {e}
            /\ project' = [project EXCEPT !.edits = project.edits \union {e}]
         \/ e \in project.edits /\ UNCHANGED made
            /\ project' = [project EXCEPT !.edits = project.edits \ {e}]
      /\ between' = IF e \notin made /\ stageLock = None /\ progress.status # "running"
                    THEN between \union {e} ELSE between
  BY DEF Edit
<1>3. project \in CiContents /\ project.edits \subseteq Edits
  BY ContentsMove DEF CiInv, CiTypes
<1>a. PICK p, q, es : /\ p = project /\ q = project' /\ q = [p EXCEPT !.edits = es]
                      /\ \/ es = p.edits \union {e} /\ e \notin made /\ e \in made'
                         \/ es = p.edits \ {e} /\ e \in p.edits
  BY <1>2
<1>b. es \in SUBSET Edits BY <1>3, <1>a
<1>c. q \in CiContents /\ q.edits = es BY <1>3, <1>a, <1>b DEF CiContents
<1>4. /\ project' \in CiContents /\ made \subseteq made'
      /\ \/ project'.edits = project.edits \union {e} /\ e \notin made /\ e \in made'
         \/ project'.edits = project.edits \ {e} /\ e \in project.edits
  BY <1>2, <1>a, <1>c
<1>5. CiTypes' BY <1>1, <1>4 DEF CiInv, CiTypes
<1>6. NextStage' = NextStage BY <1>1 DEF NextStage
<1>7. ProgressIsBacked' BY <1>1 DEF CiInv, ProgressIsBacked
<1>8. RunningIsNext' BY <1>1, <1>6 DEF CiInv, RunningIsNext
<1>9. \A k \in WorkflowRuns : OneAtWork(k)' /\ Writing(k)'
  BY <1>1, <1>6 DEF CiInv, OneAtWork, Writing
<1>10. /\ project.edits \subseteq made /\ between \subseteq made
       /\ project'.edits \subseteq made' /\ between' \subseteq made'
  BY <1>2, <1>4 DEF CiInv, EditsApart
\* Where an edit counts as made between stages nothing is at work, and where the Project is
\* read an edit that is new is in no such set.
<1>11. ASSUME project.edits \intersect between = {},
              progress.status = "running" \/ stageLock # None
       PROVE  project'.edits \intersect between' = {}
  BY <1>2, <1>4, <1>10, <1>11
<1>12. ASSUME NEW S, S \subseteq made \ between PROVE S \subseteq made' \ between'
  BY <1>2, <1>4, <1>12
<1>13. EditsApart'
  <2>1. progress'.expected.edits \subseteq made' \ between'
    BY <1>1, <1>2, <1>12 DEF CiInv, EditsApart
  <2>2. progress'.status = "running" => project'.edits \intersect between' = {}
    BY <1>1, <1>2, <1>11 DEF CiInv, EditsApart
  <2>3. ASSUME NEW k \in WorkflowRuns, jobAt'[k] \in Locked
        PROVE  project'.edits \intersect between' = {}
    <3>1. stageLock = k BY <1>1, <2>3 DEF CiInv, OneAtWork
    <3>2. stageLock # None BY <3>1, StagedCiConstants
    <3>3. project.edits \intersect between = {} BY <1>1, <2>3 DEF CiInv, EditsApart
    <3> QED BY <3>2, <3>3, <1>11
  <2>4. ASSUME NEW k \in WorkflowRuns,
               jobAt'[k] \in {"execution", "workflow", "checkpoint", "progress"}
        PROVE  receipts'[stageOf'[k]].after.edits \subseteq made' \ between'
    <3>1. receipts[stageOf[k]].after.edits \subseteq made \ between
      BY <1>1, <2>4 DEF CiInv, EditsApart
    <3> QED BY <1>1, <1>12, <3>1
  <2> QED BY <1>10, <2>1, <2>2, <2>3, <2>4 DEF EditsApart
<1> QED BY <1>5, <1>7, <1>8, <1>9, <1>13 DEF CiInv

-----------------------------------------------------------------------------
\* The invariant of the stages holds at first,
LEMMA StagedStarts == StagedInit => CiInv
<1> SUFFICES ASSUME StagedInit PROVE CiInv OBVIOUS
<1>1. CiTypes BY OriginalIs DEF StagedInit, CiTypes, Steps
<1>2. progress = None /\ project.edits = {} /\ made = {} /\ between = {}
      /\ \A j \in WorkflowRuns : jobAt[j] = "idle"
  BY OriginalIs DEF StagedInit
<1> QED BY <1>1, <1>2 DEF CiInv, ProgressIsBacked, RunningIsNext, EditsApart, OneAtWork, Writing,
                          Locked, AtWork

\* and every step keeps it.
LEMMA StagedSteps == CiInv /\ [StagedNext]_stagedVars => CiInv'
<1> SUFFICES ASSUME CiInv, [StagedNext]_stagedVars PROVE CiInv' OBVIOUS
<1>1. CASE Register BY <1>1, RunRegistered
<1>2. ASSUME NEW j \in WorkflowRuns, JobStep(j) \/ Die(j) PROVE CiInv'
  BY <1>2, Begins, Verifies, Registers, Runs, Checks, Drives, Completes, Reverifies,
     ReceiptWritten, ExecutionSaved, WorkflowSaved, CheckpointCreated, ProgressSaved, Dies
  DEF JobStep
<1>3. ASSUME NEW kind \in AllKinds, Review(kind) PROVE CiInv' BY <1>3, Reviewed
<1>4. ASSUME NEW e \in Edits, Edit(e) PROVE CiInv' BY <1>4, EditsKept
<1>5. CASE UNCHANGED stagedVars
  <2>1. UNCHANGED <<progress, receipts, execution, workflow, checkpoints, project, review, jobAt,
                    stageOf, left, given, stageLock, dismissals, clock, made, between>>
    BY <1>5 DEF stagedVars, files, locals, history
  <2>2. NextStage' = NextStage BY <2>1 DEF NextStage
  <2> QED BY <2>1, <2>2 DEF CiInv, CiTypes, ProgressIsBacked, RunningIsNext, EditsApart,
                            OneAtWork, Writing
<1> QED BY <1>1, <1>2, <1>3, <1>4, <1>5 DEF StagedNext

\* Whatever the progress file calls completed is there in full (complete_stage's order of
\* writes), for any number of jobs, deaths, edits and reviews.
THEOREM CompletedIsBacked == StagedSpec => []ProgressIsBacked
<1>1. CiInv => ProgressIsBacked BY DEF CiInv
<1> QED BY <1>1, StagedStarts, StagedSteps, PTL DEF StagedSpec

\* What is edited while no stage is at work gets into the Project of no completed stage
\* (_load's comparison, and the lock between it and the stage).
THEOREM EditsStop == StagedSpec => []EditBetweenStagesStops
<1>1. CiInv => EditBetweenStagesStops BY DEF CiInv, EditsApart, EditBetweenStagesStops
<1> QED BY <1>1, StagedStarts, StagedSteps, PTL DEF StagedSpec

-------------------------------------------------------------------------------
(***************************************************************************)
(* A specialist's session: the child executes only below a Job that holds it.*)
(***************************************************************************)

CameraSteps == Preparing \union InSession \union Judging \union {"completed", "blocked", "died"}

SessionTypes ==
  /\ camera \in [CameraCalls -> CameraSteps] /\ failing \subseteq CameraCalls
  /\ holder \in [CameraCalls -> {"none", "empty", "holding", "closed"}]
  /\ specialist \in [CameraCalls -> {"none", "suspended", "running", "dying", "dead"}]
  /\ said \in [CameraCalls -> 0..6] /\ heard \in [CameraCalls -> 0..6]
  /\ handed = [c \in CameraCalls |-> handed[c]]

\* The child has ended, and was heard to the end.
Finished(c) == specialist[c] = "dead" /\ heard[c] = 6

\* A child executes only below a Job, and there is none before the Job or after its end.
Held(c) ==
  /\ camera[c] \in Preparing \union {"creating"} => specialist[c] = "none"
  /\ camera[c] \in {"resuming", "accepting", "greeting", "instructing", "receiving", "reaping"} =>
       holder[c] = "holding"
  /\ camera[c] \in {"ungrouping", "unlistening"} => specialist[c] \in {"none", "dead"}
  /\ specialist[c] = "running" =>
       /\ holder[c] = "holding" /\ camera[c] # "died"
       /\ camera[c] \in InSession \/ c \in failing

\* A session that has not failed was heard to the end, and only such a one proposes.
Heard(c) ==
  /\ camera[c] = "reaping" => heard[c] = 6
  /\ camera[c] \in Closing \union {"accounting"} => Finished(c) \/ c \in failing
  /\ camera[c] \in {"taking", "handing", "dispatching", "presenting", "completed"} => Finished(c)
  /\ handed[c] # NoAction => Finished(c)

SessionInv == SessionTypes /\ \A c \in CameraCalls : Held(c) /\ Heard(c)

\* A session completes in its last step only.
LEMMA ScriptIs ==
  /\ Len(Script) = 6
  /\ \A n \in 1..6 : Script[n] = "complete" => n = 6
<1>1. Len(Script) = 6 BY DEF Script
<1>2. /\ Script[1] = "hello" /\ Script[2] = "inspect" /\ Script[3] = "propose_action"
      /\ Script[4] = "capture" /\ Script[5] = "evaluate"
  BY DEF Script
<1> QED BY <1>1, <1>2

\* Every step of a call is typed.
LEMMA SessionTypeStep ==
  ASSUME SessionTypes, NEW c \in CameraCalls,
         Prepare(c) \/ Session(c) \/ Child(c) \/ After(c) \/ CallDies(c)
  PROVE  SessionTypes'
<1> USE DEF SessionTypes
<1>t. ASSUME NEW step \in CameraSteps, ToStep(c, step)
      PROVE  camera' \in [CameraCalls -> CameraSteps]
  BY <1>t DEF ToStep
<1> USE DEF CameraSteps, Preparing, InSession, Trying, Closing, Judging
<1>1. CASE Prepare(c)
  BY <1>1, <1>t DEF Prepare, IssueTask, ResolveDecision, DeriveGrant, PlanSession, Refuse
<1>2. CASE Listen(c) \/ Reap(c) \/ AcceptChild(c) \/ Unlisten(c) \/ Bury(c)
  BY <1>2, <1>t DEF Listen, Reap, AcceptChild, Unlisten, Bury
<1>3. CASE Group(c) \/ Create(c) \/ AssignJob(c)
  BY <1>3, <1>t DEF Group, Create, AssignJob
<1>4. CASE Resume(c)
  <2>1. (IF specialist[c] = "suspended" THEN "running" ELSE specialist[c])
          \in {"none", "suspended", "running", "dying", "dead"}
    OBVIOUS
  <2> QED BY <1>4, <1>t, <2>1 DEF Resume
<1>5. CASE Greet(c) \/ Receive(c)
  <2>1. heard' \in [CameraCalls -> 0..6] BY <1>5 DEF Greet, Receive, Hears
  <2>2. camera' \in [CameraCalls -> CameraSteps] BY <1>5, <1>t DEF Greet, Receive
  <2> QED BY <1>5, <2>1, <2>2 DEF Greet, Receive
<1>6. CASE Instruct(c) \/ SessionFails(c) \/ CloseFails(c)
  BY <1>6, <1>t DEF Instruct, SessionFails, CloseFails
<1>7. CASE Kill(c)
  <2>1. camera' \in [CameraCalls -> CameraSteps] BY <1>7, <1>t DEF Kill
  <2> QED BY <1>7, <2>1 DEF Kill
<1>e. ASSUME EndsWithJob(c)
      PROVE  /\ holder' \in [CameraCalls -> {"none", "empty", "holding", "closed"}]
             /\ specialist' \in [CameraCalls -> {"none", "suspended", "running", "dying", "dead"}]
  BY <1>e DEF EndsWithJob
<1>8. CASE Ungroup(c) BY <1>8, <1>t, <1>e DEF Ungroup
<1>9. CASE CallDies(c) BY <1>9, <1>t, <1>e DEF CallDies
<1>10. CASE Connect(c) \/ ChildEnds(c) BY <1>10 DEF Connect, ChildEnds
<1>11. CASE Say(c) BY <1>11, ScriptIs DEF Say
<1>12. CASE Account(c) \/ TakeAction(c) \/ GateCommits(c)
  BY <1>12, <1>t DEF Account, TakeAction, GateCommits
<1>13. CASE HandOver(c)
  <2>1. camera' \in [CameraCalls -> CameraSteps] BY <1>13, <1>t DEF HandOver
  <2>2. PICK action : handed' = [handed EXCEPT ![c] = action] BY <1>13 DEF HandOver
  <2>3. handed' = [d \in CameraCalls |-> handed'[d]] BY <2>2
  <2> QED BY <1>13, <2>1, <2>3 DEF HandOver
<1>14. CASE PresentProof(c)
  <2>1. camera' \in [CameraCalls -> CameraSteps] BY <1>14, <1>t DEF PresentProof
  <2> QED BY <1>14, <2>1 DEF PresentProof
<1> QED BY <1>1, <1>2, <1>3, <1>4, <1>5, <1>6, <1>7, <1>8, <1>9, <1>10, <1>11, <1>12, <1>13, <1>14
        DEF Session, Child, After

\* A step of one call leaves what the others hold and heard.
LEMMA SessionOthers ==
  ASSUME SessionTypes, NEW c \in CameraCalls, NEW d \in CameraCalls, d # c,
         Prepare(c) \/ Session(c) \/ Child(c) \/ After(c) \/ CallDies(c), Held(d), Heard(d)
  PROVE  Held(d)' /\ Heard(d)'
<1>1. /\ camera'[d] = camera[d] /\ (d \in failing' <=> d \in failing)
      /\ holder'[d] = holder[d] /\ specialist'[d] = specialist[d] /\ heard'[d] = heard[d]
      /\ handed'[d] = handed[d]
  <2> USE DEF SessionTypes, ToStep, EndsWithJob, Hears
  <2>1. CASE Prepare(c)
    BY <2>1 DEF Prepare, IssueTask, ResolveDecision, DeriveGrant, PlanSession, Refuse
  <2>2. CASE Session(c)
    BY <2>2 DEF Session, Listen, Group, Create, AssignJob, Resume, AcceptChild, Greet, Instruct,
         Receive, Reap, SessionFails, Kill, Bury, CloseFails, Ungroup, Unlisten
  <2>3. CASE Child(c) \/ CallDies(c) BY <2>3 DEF Child, Connect, Say, ChildEnds, CallDies
  <2>4. CASE After(c) BY <2>4 DEF After, Account, TakeAction, HandOver, GateCommits, PresentProof
  <2> QED BY <2>1, <2>2, <2>3, <2>4
<1> QED BY <1>1 DEF Held, Heard, Finished

\* And what the call holds and heard is its specialist's after its step.
LEMMA SessionOwn ==
  ASSUME SessionTypes, NEW c \in CameraCalls, Held(c), Heard(c),
         Prepare(c) \/ Session(c) \/ Child(c) \/ After(c) \/ CallDies(c)
  PROVE  Held(c)' /\ Heard(c)'
<1> USE DEF SessionTypes, Held, Heard, Finished, At, ToStep,
            Preparing, InSession, Trying, Closing, Judging
<1>1. CASE Prepare(c)
  BY <1>1 DEF Prepare, IssueTask, ResolveDecision, DeriveGrant, PlanSession, Refuse
<1>2. CASE Listen(c) \/ Reap(c) \/ AcceptChild(c) \/ Unlisten(c) \/ Bury(c)
  BY <1>2 DEF Listen, Reap, AcceptChild, Unlisten, Bury
<1>3. CASE Group(c) \/ Create(c) \/ AssignJob(c)
  BY <1>3 DEF Group, Create, AssignJob
<1>4. CASE Resume(c) BY <1>4 DEF Resume
<1>5. CASE Greet(c) BY <1>5 DEF Greet, Hears
<1>15. CASE Receive(c)
  <2>1. heard[c] < 6 /\ heard'[c] = heard[c] + 1 BY <1>15 DEF Receive, Hears
  <2>2. heard'[c] \in 1..6 BY <2>1
  <2>3. Script[heard'[c]] = "complete" => heard'[c] = 6 BY <2>2, ScriptIs
  <2>4. camera'[c] = (IF Script[heard'[c]] = "complete" THEN "reaping" ELSE "receiving")
    BY <1>15 DEF Receive
  <2>5. handed[c] = NoAction BY <2>1
  <2>6. UNCHANGED <<failing, holder, specialist, handed>> /\ camera[c] = "receiving"
    BY <1>15 DEF Receive
  <2> QED BY <2>1, <2>3, <2>4, <2>5, <2>6
<1>6. CASE Instruct(c) \/ SessionFails(c) \/ CloseFails(c)
  BY <1>6 DEF Instruct, SessionFails, CloseFails
<1>7. CASE Kill(c) BY <1>7 DEF Kill
<1>8. CASE Ungroup(c) BY <1>8 DEF Ungroup, EndsWithJob
<1>9. CASE CallDies(c) BY <1>9 DEF CallDies, EndsWithJob
<1>10. CASE Connect(c) \/ ChildEnds(c) BY <1>10 DEF Connect, ChildEnds
<1>11. CASE Say(c) BY <1>11 DEF Say
<1>12. CASE Account(c) \/ TakeAction(c) \/ GateCommits(c)
  BY <1>12 DEF Account, TakeAction, GateCommits
<1>13. CASE HandOver(c) BY <1>13 DEF HandOver
<1>14. CASE PresentProof(c) BY <1>14 DEF PresentProof
<1> QED BY <1>1, <1>2, <1>3, <1>4, <1>5, <1>6, <1>7, <1>8, <1>9, <1>10, <1>11, <1>12, <1>13,
           <1>14, <1>15
        DEF Session, Child, After

\* Whoever revokes or dies, and wherever a session fails: a specialist executes only below a
\* living Runtime that holds it, and what it proposed is taken up only when it has ended.
THEOREM SpecialistIsHeld == SpecialistSpec => []SpecialistHeld
<1>1. SpecialistInit => SessionInv
  BY DEF SpecialistInit, SessionInv, SessionTypes, CameraSteps, Preparing, Held, Heard, InSession,
         Judging, Closing, Trying
<1>2. SessionInv /\ [SpecialistNext]_specialistVars => SessionInv'
  <2> SUFFICES ASSUME SessionInv, [SpecialistNext]_specialistVars PROVE SessionInv' OBVIOUS
  <2>1. CASE UNCHANGED specialistVars \/ DecisionEnds
    BY <2>1 DEF specialistVars, DecisionEnds, SessionInv, SessionTypes, Held, Heard, Finished
  <2>2. ASSUME NEW c \in CameraCalls,
               Prepare(c) \/ Session(c) \/ Child(c) \/ After(c) \/ CallDies(c)
        PROVE  SessionInv'
    <3>1. SessionTypes' BY <2>2, SessionTypeStep DEF SessionInv
    <3>2. ASSUME NEW d \in CameraCalls PROVE Held(d)' /\ Heard(d)'
      BY <2>2, SessionOthers, SessionOwn DEF SessionInv
    <3> QED BY <3>1, <3>2 DEF SessionInv
  <2> QED BY <2>1, <2>2 DEF SpecialistNext
<1>3. SessionInv => SpecialistHeld
  BY ScriptIs DEF SessionInv, SpecialistHeld, Held, Heard, Finished
<1> QED BY <1>1, <1>2, <1>3, PTL DEF SpecialistSpec

-----------------------------------------------------------------------------
(* Imports of the catalog of specialists.                                  *)

\* Catalog new says of every profile of base what base says of it, but for the title.
Extends(base, new) ==
  /\ DOMAIN base.profiles \subseteq DOMAIN new.profiles /\ new.default = base.default
  /\ \A id \in DOMAIN base.profiles : \A f \in ProfileFields \ {"title"} :
       new.profiles[id][f] = base.profiles[id][f]

\* A plan that is not blocked extends the catalog it was made for, and leads to one in which a
\* goal and a capability have one profile.
Safe(plan) ==
  /\ IsCatalog(plan.new)
  /\ plan.status = "requires_pull_request" => Extends(plan.base, plan.new) /\ Resolves(plan.new)

CatalogInv ==
  /\ origin \in {"edited", "imported"} /\ IsCatalog(catalog)
  /\ head \in DOMAIN Exports /\ lock \in DOMAIN Exports
  /\ file \in Snapshots
  /\ origin = "edited" => catalog = written
  /\ origin = "imported" => Extends(written, catalog) /\ Resolves(catalog)
  /\ \A plan \in importPlans : Safe(plan)

\* One extension after another is an extension.
LEMMA ExtendsFurther ==
  ASSUME NEW a, NEW b, NEW c, Extends(a, b), Extends(b, c) PROVE Extends(a, c)
BY DEF Extends

\* Changes that do not block leave every field but the title, the profiles and the default.
LEMMA UnblockedExtends ==
  ASSUME NEW base, NEW new, IsCatalog(base), Status(Changes(base, new)) = "requires_pull_request"
  PROVE  Extends(base, new)
<1>1. ~Blocking(Changes(base, new)) BY DEF Status
<1>2. Changes(base, new).removed = {} /\ ~Changes(base, new).default
  BY <1>1 DEF Blocking
<1>3. DOMAIN base.profiles \subseteq DOMAIN new.profiles /\ new.default = base.default
  BY <1>2 DEF Changes
<1>4. ASSUME NEW id \in DOMAIN base.profiles, NEW f \in ProfileFields \ {"title"}
      PROVE  new.profiles[id][f] = base.profiles[id][f]
  <2> DEFINE before == base.profiles[id]
             after == new.profiles[id]
             changed == Changes(base, new).changed
  <2>1. id \in DOMAIN changed /\ changed[id] = DiffPaths(before, after)
    BY <1>3 DEF Changes
  <2>2. f \notin changed[id] BY <1>1, <2>1 DEF Blocking, IsProtected
  <2>3. f \in DOMAIN before BY DEF IsCatalog
  <2> QED BY <2>1, <2>2, <2>3 DEF DiffPaths
<1> QED BY <1>3, <1>4 DEF Extends

\* What is read of a snapshot is a catalog.
LEMMA SnapshotIsCatalog ==
  ASSUME NEW s, IsCatalog(catalog), s.from # "hub" => IsCatalog(s.catalog),
         LoadSnapshot(s, catalog) # Rejected
  PROVE  IsCatalog(LoadSnapshot(s, catalog))
<1>1. CASE s.from # "hub" BY <1>1 DEF LoadSnapshot
<1>2. CASE s.from = "hub"
  <2> DEFINE ids == ActiveManifests(s)
             p(id) == [catalog.profiles[id] EXCEPT
                         !.title = s.manifests[id].title,
                         !.capabilities = s.manifests[id].capabilities,
                         !.evidence = s.manifests[id].evidence, !.facts = s.manifests[id].facts]
             all == [id \in ids |-> p(id)]
             read == [default |-> catalog.default, profiles |-> all]
  <2>1. AdmitsHub(s, catalog) /\ LoadSnapshot(s, catalog) = Adapted(s, catalog)
    BY <1>2 DEF LoadSnapshot
  <2>2. ids \subseteq DOMAIN catalog.profiles BY <2>1 DEF AdmitsHub
  <2>3. \A id \in ids : DOMAIN p(id) = ProfileFields
    <3> TAKE id \in ids
    <3>1. DOMAIN p(id) = DOMAIN catalog.profiles[id] OBVIOUS
    <3> QED BY <2>2, <3>1 DEF IsCatalog
  <2>4. Adapted(s, catalog) = read BY DEF Adapted
  <2> HIDE DEF p
  <2>5. DOMAIN all = ids /\ \A id \in ids : all[id] = p(id) OBVIOUS
  <2>6. DOMAIN read = {"default", "profiles"} /\ read.profiles = all OBVIOUS
  <2> HIDE DEF all, read, ids
  <2>7. IsCatalog(read) BY <2>3, <2>5, <2>6 DEF IsCatalog
  <2> QED BY <2>1, <2>4, <2>7
<1> QED BY <1>1, <1>2

\* A plan that is made is safe.
LEMMA PlansSafe ==
  ASSUME CatalogInv, NEW s, s.from # "hub" => IsCatalog(s.catalog), NEW mode, NEW commit,
         PlanOf(s, mode, commit)
  PROVE  \A plan \in importPlans' : Safe(plan)
<1> DEFINE new == LoadSnapshot(s, catalog)
           plan == [base |-> catalog, new |-> new, status |-> Status(Changes(catalog, new)),
                    risk |-> Risk(Changes(catalog, new)), mode |-> mode, commit |-> commit,
                    of |-> s]
<1>1. new # Rejected /\ Semantics(new) /\ importPlans' = importPlans \union {plan} BY DEF PlanOf
<1>2. IsCatalog(catalog) BY DEF CatalogInv
<1>3. IsCatalog(new) BY <1>1, <1>2, SnapshotIsCatalog
<1>4. Resolves(new) BY <1>1 DEF Semantics
<1>5. Status(Changes(catalog, new)) = "requires_pull_request" => Extends(catalog, new)
  BY <1>2, UnblockedExtends
<1>6. /\ plan.base = catalog /\ plan.new = new
      /\ plan.status = Status(Changes(catalog, new))
  OBVIOUS
<1> HIDE DEF new, plan
<1>7. Safe(plan) BY <1>3, <1>4, <1>5, <1>6 DEF Safe
<1> QED BY <1>1, <1>7 DEF CatalogInv

\* Every edit, plan and import keeps the catalogs and the plans as they should be.
LEMMA CatalogStep == CatalogInv /\ [CatalogNext]_catalogVars => CatalogInv'
<1> SUFFICES ASSUME CatalogInv, [CatalogNext]_catalogVars PROVE CatalogInv' OBVIOUS
<1>1. ASSUME NEW mode \in {"pinned", "development"}, ImportHub(mode) PROVE CatalogInv'
  <2> DEFINE commit == IF mode = "pinned" THEN lock ELSE head
  <2>1. commit \in DOMAIN Exports /\ PlanOf(Exports[commit], mode, commit)
    BY <1>1 DEF ImportHub, CatalogInv
  <2>2. Exports[commit].from = "hub" BY <2>1, CatalogConstants
  <2> HIDE DEF commit
  <2>3. \A plan \in importPlans' : Safe(plan) BY <2>1, <2>2, PlansSafe
  <2> QED BY <1>1, <2>3 DEF ImportHub, CatalogInv
<1>2. CASE ImportFile
  <2>1. PlanOf(file, "file", 0) /\ (file.from # "hub" => IsCatalog(file.catalog))
    BY <1>2, CatalogConstants DEF ImportFile, CatalogInv
  <2>2. \A plan \in importPlans' : Safe(plan) BY <2>1, PlansSafe
  <2> QED BY <1>2, <2>2 DEF ImportFile, CatalogInv
<1>3. CASE ImportItself
  <2> DEFINE s == [from |-> "profiles", catalog |-> catalog]
  <2>1. PlanOf(s, "checked-in", 0) BY <1>3 DEF ImportItself
  <2>2. s.from # "hub" => IsCatalog(s.catalog) BY DEF CatalogInv
  <2> HIDE DEF s
  <2>3. \A plan \in importPlans' : Safe(plan) BY <2>1, <2>2, PlansSafe
  <2> QED BY <1>3, <2>3 DEF ImportItself, CatalogInv
<1>4. ASSUME NEW plan \in importPlans, ApplyPlan(plan) PROVE CatalogInv'
  <2>1. /\ IsCatalog(plan.new) /\ Extends(catalog, plan.new) /\ Resolves(plan.new)
    BY <1>4 DEF ApplyPlan, CatalogInv, Safe
  <2>2. Extends(written, catalog) BY DEF CatalogInv, Extends
  <2>3. Extends(written, plan.new) BY <2>1, <2>2, ExtendsFurther
  <2> QED BY <1>4, <2>1, <2>3 DEF ApplyPlan, CatalogInv
<1>5. CASE EditCatalog BY <1>5, CatalogConstants DEF EditCatalog, Moved, CatalogInv
<1>6. ASSUME NEW b \in Backends, SwitchProvider(b) PROVE CatalogInv'
  BY <1>6 DEF SwitchProvider, CatalogInv
<1>7. CASE HubAdvances
  <2>1. head + 1 \in DOMAIN Exports
    BY <1>7, CatalogConstants DEF HubAdvances, CatalogInv
  <2> QED BY <1>7, <2>1 DEF HubAdvances, CatalogInv
<1>8. CASE MoveLock BY <1>8 DEF MoveLock, CatalogInv
<1>9. CASE ReplaceFile BY <1>9 DEF ReplaceFile, CatalogInv
<1>10. CASE UNCHANGED catalogVars BY <1>10 DEF catalogVars, CatalogInv
<1> QED BY <1>1, <1>2, <1>3, <1>4, <1>5, <1>6, <1>7, <1>8, <1>9, <1>10 DEF CatalogNext

\* In an extension where a goal and a capability have one profile, everything people gave to a
\* profile is still answered by it, and by it alone.
LEMMA ExtensionAnswers ==
  ASSUME NEW old, NEW cat, Extends(old, cat), Resolves(cat)
  PROVE  /\ \A goal \in Goals(old) : GoalOwners(cat, goal) = GoalOwners(old, goal)
         /\ \A capability \in Capabilities(old) : \A there :
              AvailableOwners(cat, capability, there) = AvailableOwners(old, capability, there)
<1>1. \A id \in DOMAIN old.profiles :
        /\ id \in DOMAIN cat.profiles /\ cat.profiles[id].goal = old.profiles[id].goal
        /\ cat.profiles[id].capabilities = old.profiles[id].capabilities
        /\ cat.profiles[id].facts = old.profiles[id].facts
  BY DEF Extends, ProfileFields
<1>2. ASSUME NEW goal \in Goals(old) PROVE GoalOwners(cat, goal) = GoalOwners(old, goal)
  <2>1. PICK w \in DOMAIN old.profiles : old.profiles[w].goal = goal BY DEF Goals
  <2>2. w \in GoalOwners(cat, goal) /\ goal \in Goals(cat) BY <1>1, <2>1 DEF GoalOwners, Goals
  <2>3. \A x \in GoalOwners(cat, goal) : x = w BY <2>2 DEF Resolves, AtMostOne
  <2>4. \A x \in GoalOwners(old, goal) : x \in GoalOwners(cat, goal) BY <1>1 DEF GoalOwners
  <2>5. w \in GoalOwners(old, goal) BY <2>1 DEF GoalOwners
  <2> QED BY <2>2, <2>3, <2>4, <2>5
<1>3. ASSUME NEW capability \in Capabilities(old)
      PROVE  CapabilityOwners(cat, capability) = CapabilityOwners(old, capability)
  <2>1. PICK w \in DOMAIN old.profiles : capability \in old.profiles[w].capabilities
    BY DEF Capabilities
  <2>2. w \in CapabilityOwners(cat, capability) /\ capability \in Capabilities(cat)
    BY <1>1, <2>1 DEF CapabilityOwners, Capabilities
  <2>3. \A x \in CapabilityOwners(cat, capability) : x = w BY <2>2 DEF Resolves, AtMostOne
  <2>4. \A x \in CapabilityOwners(old, capability) : x \in CapabilityOwners(cat, capability)
    BY <1>1 DEF CapabilityOwners
  <2>5. w \in CapabilityOwners(old, capability) BY <2>1 DEF CapabilityOwners
  <2> QED BY <2>2, <2>3, <2>4, <2>5
<1>4. ASSUME NEW capability \in Capabilities(old), NEW there
      PROVE  AvailableOwners(cat, capability, there) = AvailableOwners(old, capability, there)
  <2>1. \A id \in CapabilityOwners(old, capability) :
          cat.profiles[id].facts = old.profiles[id].facts
    BY <1>1 DEF CapabilityOwners
  <2> QED BY <1>3, <2>1 DEF AvailableOwners, Eligible
<1> QED BY <1>2, <1>4

\* However imports, edits of the catalog and the registry, the Hub, its lock and the reviewed file
\* interleave: an imported catalog gives every goal and capability to the profile that people gave
\* it to (build_import_plan and resolve_available_capability).
THEOREM ImportsAnswer == CatalogSpec => []ImportsKeepAnswers
<1>1. CatalogInit => CatalogInv
  BY CatalogConstants DEF CatalogInit, CatalogInv
<1>2. CatalogInv => ImportsKeepAnswers
  <2> SUFFICES ASSUME CatalogInv, origin = "imported" PROVE ImportsKeepAnswers
    BY DEF ImportsKeepAnswers
  <2>1. Extends(written, catalog) /\ Resolves(catalog) BY DEF CatalogInv
  <2>2. \A goal \in Goals(written) : GoalOwners(catalog, goal) = GoalOwners(written, goal)
    BY <2>1, ExtensionAnswers
  <2>3. ASSUME NEW capability \in Capabilities(written), NEW there \in SUBSET KnownFacts
        PROVE  AvailableOwners(catalog, capability, there) =
                 AvailableOwners(written, capability, there)
    BY <2>1, ExtensionAnswers
  <2>4. \A id \in DOMAIN written.profiles : \A f \in {"provider", "value", "approval", "evidence"} :
          catalog.profiles[id][f] = written.profiles[id][f]
    BY <2>1 DEF Extends, ProfileFields
  <2>5. catalog.default = written.default BY <2>1 DEF Extends
  <2> QED BY <2>2, <2>3, <2>4, <2>5 DEF ImportsKeepAnswers
<1> QED BY <1>1, <1>2, CatalogStep, PTL DEF CatalogSpec

-----------------------------------------------------------------------------
(* The choice of a provider.                                               *)

\* Each probe in its place.
LEMMA ProbesAre ==
  /\ Len(Probes) = 7 /\ DOMAIN Probes = 1..7
  /\ SeenAt("project") = probed[1] /\ SeenAt("editor") = probed[2] /\ SeenAt("cli") = probed[3]
  /\ SeenAt("package") = probed[4] /\ SeenAt("surface") = probed[5]
  /\ SeenAt("artist") = probed[6] /\ SeenAt("rest") = probed[7]
<1>1. /\ Len(Probes) = 7 /\ DOMAIN Probes = 1..7
      /\ Probes[1] = "project" /\ Probes[2] = "editor" /\ Probes[3] = "cli"
      /\ Probes[4] = "package" /\ Probes[5] = "surface" /\ Probes[6] = "artist"
      /\ Probes[7] = "rest"
  BY DEF Probes
<1>2. \A i \in 1..7 : i = 1 \/ i = 2 \/ i = 3 \/ i = 4 \/ i = 5 \/ i = 6 \/ i = 7 OBVIOUS
<1> HIDE DEF Probes
<1>3. ASSUME NEW i \in 1..7 PROVE (CHOOSE j \in DOMAIN Probes : Probes[j] = Probes[i]) = i
  <2>1. \A j \in DOMAIN Probes : Probes[j] = Probes[i] => j = i BY <1>1, <1>2
  <2> QED BY <1>1, <2>1
<1>4. \A i \in 1..7 : SeenAt(Probes[i]) = probed[i] BY <1>3 DEF SeenAt
<1> QED BY <1>1, <1>4

\* What the facts of a snapshot say of what was there when each probe was made.
OneOf(S) == Cardinality(OfOurs(S)) = 1
EditorFacts ==
  /\ Fact("exists") = "yes" => 1 \in DOMAIN probed /\ probed[1].project
  /\ Fact("editorBound") = "yes" =>
       2 \in DOMAIN probed /\ ~probed[2].hidden /\ OneOf(probed[2].editors)
  /\ Fact("safeMode") = "no" => 2 \in DOMAIN probed /\ ~probed[2].safe
  /\ Fact("cli") = "yes" => 3 \in DOMAIN probed /\ probed[3].cli = "well"
  /\ Fact("artistPackage") = "yes" => 4 \in DOMAIN probed /\ "artist" \in probed[4].manifest
ArtistFacts ==
  /\ Fact("listed") = "yes" =>
       /\ Fact("artistPackage") = "yes" /\ Fact("cli") = "yes"
       /\ 5 \in DOMAIN probed /\ probed[5].cli = "well" /\ "pipeline" \in probed[5].manifest
       /\ "artist.inspect" \in probed[5].commands
  /\ Fact("artistBound") = "yes" =>
       /\ Fact("listed") = "yes" /\ 6 \in DOMAIN probed
       /\ probed[6].cli = "well" /\ probed[6].pipe = "ours"
  /\ Fact("artist") = "yes" => Fact("artistBound") = "yes" /\ Compatible(probed[6]) = "yes"
RestFacts ==
  /\ Fact("pipelineReach") = "yes" =>
       /\ Fact("artistBound") = "yes" /\ 7 \in DOMAIN probed
       /\ "pipeline" \in probed[7].manifest
  /\ Fact("mcpBound") = "yes" => 7 \in DOMAIN probed /\ OneOf(probed[7].instances)
VersionFacts ==
  /\ 1 \in DOMAIN probed => Fact("version") = probed[1].version
  /\ Fact("artistBound") = "yes" => Fact("artistVersion") = probed[6].editor.version
  /\ Fact("versionMatch") = "yes" =>
       /\ 2 \in DOMAIN probed
       /\ \/ probed[1].version \in probed[2].disk
          \/ /\ 7 \in DOMAIN probed /\ ~probed[2].hidden /\ OneOf(probed[2].editors)
             /\ probed[6].pipe = "ours" /\ probed[6].editor.version = probed[1].version

\* What a probe finds is added to the facts, and replaces what was there.
LEMMA SeesIs ==
  ASSUME NEW name, NEW found, See(name, found), probed \in Seq(World), around \in World
  PROVE  /\ probed' \in Seq(World) /\ Len(probed) \in Nat
         /\ DOMAIN probed = 1..Len(probed) /\ DOMAIN probed' = 1..(Len(probed) + 1)
         /\ probed'[Len(probed) + 1] = around
         /\ \A i \in DOMAIN probed : i \in DOMAIN probed' /\ probed'[i] = probed[i]
         /\ name = Probes[Len(probed) + 1] /\ Len(probed) < 7
         /\ \A f : Fact(f)' = IF f \in DOMAIN found THEN found[f] ELSE Fact(f)
<1>1. probed' = Append(probed, around) BY DEF See
<1>2. \A f : Fact(f)' = IF f \in DOMAIN found THEN found[f] ELSE Fact(f)
  BY DEF See, Fact
<1>3. name = Probes[Len(probed) + 1] /\ Len(probed) < 7 BY ProbesAre DEF See
<1>4. /\ probed' \in Seq(World) /\ Len(probed) \in Nat
      /\ DOMAIN probed = 1..Len(probed) /\ DOMAIN probed' = 1..(Len(probed) + 1)
      /\ probed'[Len(probed) + 1] = around
  BY <1>1
<1>5. \A i \in DOMAIN probed : i \in DOMAIN probed' /\ probed'[i] = probed[i] BY <1>1
<1> QED BY <1>2, <1>3, <1>4, <1>5

FactsInv ==
  /\ around \in World /\ probed \in Seq(World)
  /\ EditorFacts /\ ArtistFacts /\ RestFacts /\ VersionFacts

\* What each probe is, by its name.
LEMMA NamesAre ==
  /\ Probes[1] = "project" /\ Probes[2] = "editor" /\ Probes[3] = "cli" /\ Probes[4] = "package"
  /\ Probes[5] = "surface" /\ Probes[6] = "artist" /\ Probes[7] = "rest"
BY DEF Probes

\* And which of them is made when so many were made before it.
LEMMA PlaceOf ==
  ASSUME NEW n \in Nat, n < 7
  PROVE  /\ Probes[n + 1] = "project" => n = 0
         /\ Probes[n + 1] = "editor" => n = 1
         /\ Probes[n + 1] = "cli" => n = 2
         /\ Probes[n + 1] = "package" => n = 3
         /\ Probes[n + 1] = "surface" => n = 4
         /\ Probes[n + 1] = "artist" => n = 5
         /\ Probes[n + 1] = "rest" => n = 6
<1>1. n = 0 \/ n = 1 \/ n = 2 \/ n = 3 \/ n = 4 \/ n = 5 \/ n = 6 OBVIOUS
<1>2. n = 0 => n + 1 = 1 OBVIOUS
<1>3. n = 1 => n + 1 = 2 OBVIOUS
<1>4. n = 2 => n + 1 = 3 OBVIOUS
<1>5. n = 3 => n + 1 = 4 OBVIOUS
<1>6. n = 4 => n + 1 = 5 OBVIOUS
<1>7. n = 5 => n + 1 = 6 OBVIOUS
<1>8. n = 6 => n + 1 = 7 OBVIOUS
<1> QED BY <1>1, <1>2, <1>3, <1>4, <1>5, <1>6, <1>7, <1>8, NamesAre

\* What is bound is the only one of ours.
LEMMA BoundIs ==
  ASSUME NEW S, NEW nobody \in {"not_running", "unbound"}, BoundTo(S, nobody).status = "bound"
  PROVE  OneOf(S)
BY DEF BoundTo, OneOf

\* The look at the Project keeps what the facts say,
LEMMA SeeProjectKeeps == ASSUME FactsInv, SeeProject PROVE FactsInv'
<1> DEFINE found == [exists |-> Tri(around.project), readable |-> Tri(around.project),
                     writable |-> IF around.project THEN "unknown" ELSE "no",
                     version |-> around.version]
<1>1. See("project", found) BY DEF SeeProject
<1>2. /\ DOMAIN found = {"exists", "readable", "writable", "version"}
      /\ found["exists"] = "yes" => around.project
  BY DEF Tri
<1>7. found["version"] = around.version OBVIOUS
<1> HIDE DEF found
<1>3. Len(probed) = 0 BY <1>1, SeesIs, PlaceOf DEF FactsInv
<1>4. EditorFacts' BY <1>1, <1>2, <1>3, SeesIs DEF FactsInv, EditorFacts
<1>5. ArtistFacts' BY <1>1, <1>2, <1>3, SeesIs DEF FactsInv, ArtistFacts
<1>6. RestFacts' BY <1>1, <1>2, <1>3, SeesIs DEF FactsInv, RestFacts
<1>8. VersionFacts'
  BY <1>1, <1>2, <1>3, <1>7, SeesIs DEF FactsInv, ArtistFacts, VersionFacts
<1> QED BY <1>1, <1>4, <1>5, <1>6, <1>8, SeesIs DEF FactsInv, See

\* so do the look at the Editors,
LEMMA SeeEditorKeeps == ASSUME FactsInv, SeeEditor PROVE FactsInv'
<1> DEFINE bound == EditorBinding(around)
           version == InstalledVersion(around, Fact("version"))
           found ==
             [installed |-> IF around.disk # {} \/ (~around.hidden /\ around.editors # {})
                            THEN "yes" ELSE "unknown",
              editorVersion |-> version,
              versionMatch |-> IF "unknown" \in {version, Fact("version")} THEN "unknown"
                               ELSE Tri(version = Fact("version")),
              running |-> IF around.hidden THEN "unknown" ELSE Tri(around.editors # {}),
              safeMode |-> IF bound.status = "bound" THEN Tri(around.safe) ELSE "unknown",
              editorBound |-> IF around.hidden THEN "unknown" ELSE Tri(bound.status = "bound")]
<1>1. See("editor", found) BY DEF SeeEditor
<1>2. DOMAIN found =
        {"installed", "editorVersion", "versionMatch", "running", "safeMode", "editorBound"}
  OBVIOUS
<1>3. found["safeMode"] = "no" => ~around.safe BY DEF Tri
<1>4. found["editorBound"] = "yes" => ~around.hidden /\ bound.status = "bound" BY DEF Tri
<1>5. found["editorBound"] = "yes" => ~around.hidden /\ OneOf(around.editors)
  <2>1. ~around.hidden => bound = BoundTo(around.editors, "not_running") BY DEF EditorBinding
  <2> QED BY <1>4, <2>1, BoundIs
<1>10. found["versionMatch"] = "yes" => Fact("version") \in around.disk
  <2>1. found["versionMatch"] = "yes" => version = Fact("version") /\ version # "unknown" BY DEF Tri
  <2>2. version # "unknown" => version \in around.disk BY DEF InstalledVersion
  <2> HIDE DEF version, found
  <2> QED BY <2>1, <2>2
<1> HIDE DEF found
<1>6. Len(probed) = 1 BY <1>1, SeesIs, PlaceOf DEF FactsInv
<1>7. EditorFacts' BY <1>1, <1>2, <1>3, <1>5, <1>6, SeesIs DEF FactsInv, EditorFacts
<1>8. ArtistFacts' BY <1>1, <1>2, <1>6, SeesIs DEF FactsInv, ArtistFacts
<1>9. RestFacts' BY <1>1, <1>2, <1>6, SeesIs DEF FactsInv, RestFacts
<1>11. VersionFacts'
  BY <1>1, <1>2, <1>6, <1>10, SeesIs DEF FactsInv, ArtistFacts, VersionFacts
<1> QED BY <1>1, <1>7, <1>8, <1>9, <1>11, SeesIs DEF FactsInv, See

\* the look at the CLI,
LEMMA SeeCliKeeps == ASSUME FactsInv, SeeCli PROVE FactsInv'
<1> DEFINE found == [cli |-> Tri(around.cli = "well")]
<1>1. See("cli", found) BY DEF SeeCli
<1>2. DOMAIN found = {"cli"} /\ (found["cli"] = "yes" => around.cli = "well") BY DEF Tri
<1> HIDE DEF found
<1>3. Len(probed) = 2 BY <1>1, SeesIs, PlaceOf DEF FactsInv
<1>4. EditorFacts' BY <1>1, <1>2, <1>3, SeesIs DEF FactsInv, EditorFacts
<1>5. ArtistFacts' BY <1>1, <1>2, <1>3, SeesIs DEF FactsInv, ArtistFacts
<1>6. RestFacts' BY <1>1, <1>2, <1>3, SeesIs DEF FactsInv, RestFacts
<1>7. VersionFacts' BY <1>1, <1>2, <1>3, SeesIs DEF FactsInv, ArtistFacts, VersionFacts
<1> QED BY <1>1, <1>4, <1>5, <1>6, <1>7, SeesIs DEF FactsInv, See

\* the look at the package of the Artist,
LEMMA SeePackageKeeps == ASSUME FactsInv, SeePackage PROVE FactsInv'
<1> DEFINE found == [artistPackage |-> PackageFact(around, "artist")]
<1>1. See("package", found) BY DEF SeePackage
<1>2. /\ DOMAIN found = {"artistPackage"}
      /\ found["artistPackage"] = "yes" => "artist" \in around.manifest
  BY DEF PackageFact, Tri
<1> HIDE DEF found
<1>3. Len(probed) = 3 BY <1>1, SeesIs, PlaceOf DEF FactsInv
<1>4. EditorFacts' BY <1>1, <1>2, <1>3, SeesIs DEF FactsInv, EditorFacts
<1>5. ArtistFacts' BY <1>1, <1>2, <1>3, SeesIs DEF FactsInv, ArtistFacts
<1>6. RestFacts' BY <1>1, <1>2, <1>3, SeesIs DEF FactsInv, RestFacts
<1>7. VersionFacts' BY <1>1, <1>2, <1>3, SeesIs DEF FactsInv, ArtistFacts, VersionFacts
<1> QED BY <1>1, <1>4, <1>5, <1>6, <1>7, SeesIs DEF FactsInv, See

\* the look at the commands of the CLI,
LEMMA SeeSurfaceKeeps == ASSUME FactsInv, SeeSurface PROVE FactsInv'
<1> DEFINE found == [artistReach |-> IF MayAsk THEN SurfaceReaches(around) ELSE "unknown",
                     listed |-> Tri(MayAsk /\ "artist.inspect" \in CatalogOf(around))]
<1>1. See("surface", found) BY DEF SeeSurface
<1>2. DOMAIN found = {"artistReach", "listed"} OBVIOUS
<1>3. found["listed"] = "yes" => MayAsk /\ "artist.inspect" \in CatalogOf(around) BY DEF Tri
<1>4. found["listed"] = "yes" =>
        /\ Fact("artistPackage") = "yes" /\ Fact("cli") = "yes" /\ around.cli = "well"
        /\ "pipeline" \in around.manifest /\ "artist.inspect" \in around.commands
  BY <1>3 DEF MayAsk, CatalogOf, SurfaceHealthy, PackageFact, Tri
<1> HIDE DEF found
<1>5. Len(probed) = 4 BY <1>1, SeesIs, PlaceOf DEF FactsInv
<1>6. EditorFacts' BY <1>1, <1>2, <1>5, SeesIs DEF FactsInv, EditorFacts
<1>7. ArtistFacts' BY <1>1, <1>2, <1>4, <1>5, SeesIs DEF FactsInv, ArtistFacts
<1>8. RestFacts' BY <1>1, <1>2, <1>5, SeesIs DEF FactsInv, RestFacts
<1>9. VersionFacts' BY <1>1, <1>2, <1>5, SeesIs DEF FactsInv, ArtistFacts, VersionFacts
<1> QED BY <1>1, <1>6, <1>7, <1>8, <1>9, SeesIs DEF FactsInv, See

\* the question to the Editor of the Artist,
LEMMA SeeArtistKeeps == ASSUME FactsInv, SeeArtist PROVE FactsInv'
<1> DEFINE wanted == Fact("listed") = "yes"
           answered == wanted /\ SurfaceHealthy(around) /\ around.pipe # "silent"
           ours == answered /\ around.pipe = "ours"
           compatible == Compatible(around)
<1>1. PICK found :
        /\ See("artist", found)
        /\ DOMAIN found \subseteq {"artist", "artistCompatible", "artistBound", "artistReach",
                                   "artistVersion"}
        /\ {"artist", "artistBound"} \subseteq DOMAIN found
        /\ found["artist"] = "yes" => ours /\ compatible = "yes"
        /\ found["artistBound"] = "yes" => ours
        /\ ours => found["artistBound"] = "yes"
        /\ ours => /\ "artistVersion" \in DOMAIN found
                   /\ found["artistVersion"] = around.editor.version
  <2> DEFINE one == [artist |-> Tri(compatible = "yes"), artistCompatible |-> compatible,
                     artistBound |-> "yes", artistReach |-> "yes",
                     artistVersion |-> around.editor.version]
             two == [artist |-> "no", artistCompatible |-> "unknown",
                     artistBound |-> "no", artistVersion |-> "unknown"]
             three == [artist |-> "no", artistCompatible |-> "unknown",
                       artistBound |-> "unknown", artistVersion |-> "unknown"]
  <2>1. CASE ours
    <3>1. See("artist", one) BY <2>1 DEF SeeArtist
    <3>2. /\ DOMAIN one = {"artist", "artistCompatible", "artistBound", "artistReach",
                           "artistVersion"}
          /\ one["artist"] = "yes" => compatible = "yes"
          /\ one["artistBound"] = "yes" /\ one["artistVersion"] = around.editor.version
      BY DEF Tri
    <3> HIDE DEF one
    <3> QED BY <2>1, <3>1, <3>2
  <2>2. CASE answered /\ ~ours
    <3>1. See("artist", two) BY <2>2 DEF SeeArtist
    <3>2. /\ DOMAIN two = {"artist", "artistCompatible", "artistBound", "artistVersion"}
          /\ two["artist"] = "no" /\ two["artistBound"] = "no"
      OBVIOUS
    <3> HIDE DEF two
    <3> QED BY <2>2, <3>1, <3>2
  <2>3. CASE ~answered
    <3>1. See("artist", three) BY <2>3 DEF SeeArtist
    <3>2. /\ DOMAIN three = {"artist", "artistCompatible", "artistBound", "artistVersion"}
          /\ three["artist"] = "no" /\ three["artistBound"] = "unknown"
      OBVIOUS
    <3> HIDE DEF three
    <3> QED BY <2>3, <3>1, <3>2
  <2> QED BY <2>1, <2>2, <2>3
<1>2. ours => Fact("listed") = "yes" /\ around.cli = "well" /\ around.pipe = "ours"
  BY DEF SurfaceHealthy
<1> HIDE DEF ours, compatible
<1>3. Len(probed) = 5 BY <1>1, SeesIs, PlaceOf DEF FactsInv
<1>4. EditorFacts' BY <1>1, <1>3, SeesIs DEF FactsInv, EditorFacts
<1>5. ArtistFacts'
  <2>1. /\ Fact("listed")' = Fact("listed") /\ Fact("artistPackage")' = Fact("artistPackage")
        /\ Fact("cli")' = Fact("cli")
    BY <1>1, SeesIs DEF FactsInv
  <2>2. /\ Fact("artistBound")' = found["artistBound"] /\ Fact("artist")' = found["artist"]
    BY <1>1, SeesIs DEF FactsInv
  <2>3. 6 \in DOMAIN probed' /\ probed'[6] = around BY <1>1, <1>3, SeesIs DEF FactsInv
  <2>4. Compatible(probed'[6]) = compatible BY <2>3 DEF compatible
  <2>5. 5 \in DOMAIN probed' /\ probed'[5] = probed[5] BY <1>1, <1>3, SeesIs DEF FactsInv
  <2> QED BY <1>1, <1>2, <2>1, <2>2, <2>3, <2>4, <2>5 DEF FactsInv, ArtistFacts
<1>6. RestFacts'
  <2>1. Fact("pipelineReach")' # "yes" /\ Fact("mcpBound")' # "yes"
    BY <1>1, <1>3, SeesIs DEF FactsInv, RestFacts
  <2> QED BY <2>1 DEF RestFacts
<1>7. VersionFacts'
  <2>1. /\ Fact("version")' = Fact("version") /\ Fact("versionMatch")' = Fact("versionMatch")
        /\ Fact("artistBound")' = found["artistBound"]
        /\ ours => Fact("artistVersion")' = found["artistVersion"]
    BY <1>1, SeesIs DEF FactsInv
  <2>2. 6 \in DOMAIN probed' /\ probed'[6] = around BY <1>1, <1>3, SeesIs DEF FactsInv
  <2>3. \A i \in {1, 2} : i \in DOMAIN probed /\ i \in DOMAIN probed' /\ probed'[i] = probed[i]
    BY <1>1, <1>3, SeesIs DEF FactsInv
  <2>4. 7 \notin DOMAIN probed BY <1>1, <1>3, SeesIs DEF FactsInv
  <2> QED BY <1>1, <2>1, <2>2, <2>3, <2>4 DEF FactsInv, VersionFacts
<1> QED BY <1>1, <1>4, <1>5, <1>6, <1>7, SeesIs DEF FactsInv, See

\* and the rest.
LEMMA SeeRestKeeps == ASSUME FactsInv, SeeRest PROVE FactsInv'
<1> DEFINE bound == BindInstances(around)
           pipeline == PackageFact(around, "pipeline")
           sameEditor == /\ Inferred /\ Fact("installed") = "yes"
                         /\ Fact("editorVersion") = "unknown" /\ Fact("editorBound") = "yes"
                         /\ Fact("version") # "unknown"
                         /\ Fact("artistVersion") = Fact("version")
           found ==
             [versionMatch |-> IF sameEditor THEN "yes" ELSE Fact("versionMatch"),
              pipelineReach |-> CASE pipeline = "no" -> "no"
                                  [] pipeline = "yes" /\ Inferred -> "yes"
                                  [] OTHER -> "unknown",
              tests |-> PackageFact(around, "tests"),
              mcp |-> IF bound = Unseen THEN "unknown" ELSE Tri(bound.status = "bound"),
              mcpBound |-> IF bound = Unseen THEN "unknown" ELSE Tri(bound.status = "bound")]
<1>1. See("rest", found) BY DEF SeeRest
<1>2. DOMAIN found = {"versionMatch", "pipelineReach", "tests", "mcp", "mcpBound"} OBVIOUS
<1>3. found["pipelineReach"] = "yes" => pipeline = "yes" /\ Inferred OBVIOUS
<1>4. found["pipelineReach"] = "yes" =>
        Fact("artistBound") = "yes" /\ "pipeline" \in around.manifest
  BY <1>3 DEF Inferred, PackageFact, Tri
<1>5. found["mcpBound"] = "yes" => bound.status = "bound" BY DEF Tri
<1>6. found["mcpBound"] = "yes" => OneOf(around.instances)
  <2>1. bound.status = "bound" => bound = BoundTo(around.instances, "unbound")
    BY DEF BindInstances, Unseen
  <2> HIDE DEF bound
  <2> QED BY <1>5, <2>1, BoundIs
<1>11. found["versionMatch"] = IF sameEditor THEN "yes" ELSE Fact("versionMatch") OBVIOUS
<1>12. sameEditor => /\ Fact("artistBound") = "yes" /\ Fact("editorBound") = "yes"
                     /\ Fact("artistVersion") = Fact("version")
  BY DEF Inferred
<1> HIDE DEF found, sameEditor
<1>7. Len(probed) = 6 BY <1>1, SeesIs, PlaceOf DEF FactsInv
<1>8. EditorFacts'
  <2>1. \A f \in {"exists", "editorBound", "safeMode", "cli", "artistPackage"} : Fact(f)' = Fact(f)
    BY <1>1, <1>2, SeesIs DEF FactsInv
  <2>2. \A i \in 1..4 : i \in DOMAIN probed' /\ probed'[i] = probed[i]
    BY <1>1, <1>7, SeesIs DEF FactsInv
  <2> QED BY <2>1, <2>2 DEF FactsInv, EditorFacts
<1>9. ArtistFacts'
  <2>1. \A f \in {"listed", "artistPackage", "cli", "artistBound", "artist"} : Fact(f)' = Fact(f)
    BY <1>1, <1>2, SeesIs DEF FactsInv
  <2>2. \A i \in {5, 6} : i \in DOMAIN probed' /\ probed'[i] = probed[i]
    BY <1>1, <1>7, SeesIs DEF FactsInv
  <2> QED BY <2>1, <2>2 DEF FactsInv, ArtistFacts
<1>10. RestFacts'
  BY <1>1, <1>2, <1>4, <1>6, <1>7, SeesIs DEF FactsInv, RestFacts
<1>13. VersionFacts'
  <2>1. \A f \in {"version", "artistBound", "artistVersion"} : Fact(f)' = Fact(f)
    BY <1>1, <1>2, SeesIs DEF FactsInv
  <2>2. Fact("versionMatch")' = found["versionMatch"] BY <1>1, <1>2, SeesIs DEF FactsInv
  <2>3. \A i \in 1..6 : i \in DOMAIN probed /\ i \in DOMAIN probed' /\ probed'[i] = probed[i]
    BY <1>1, <1>7, SeesIs DEF FactsInv
  <2>4. 7 \in DOMAIN probed' /\ 7 \notin DOMAIN probed BY <1>1, <1>7, SeesIs DEF FactsInv
  <2>5. CASE sameEditor
    BY <1>12, <2>1, <2>3, <2>4, <2>5
       DEF FactsInv, EditorFacts, ArtistFacts, VersionFacts
  <2>6. CASE ~sameEditor
    BY <1>11, <2>1, <2>2, <2>3, <2>4, <2>6 DEF FactsInv, VersionFacts
  <2> QED BY <2>5, <2>6
<1> QED BY <1>1, <1>8, <1>9, <1>10, <1>13, SeesIs DEF FactsInv, See

-----------------------------------------------------------------------------
(* Who serves.                                                             *)

\* What a provider that serves rests on; it is what was there when the probes were made.
Rests(r, p) ==
  LET d == Registry[p]
      needs == d.offers[r.capability].needs
  IN
  /\ d.enabled /\ r.root = "ours" /\ SeenAt("project").project
  /\ d.binding = "environment" => OneOf(SeenAt("rest").instances)
  /\ <<"cli", "yes">> \in needs => SeenAt("cli").cli = "well"
  /\ <<"editorBound", "yes">> \in needs =>
       ~SeenAt("editor").hidden /\ OneOf(SeenAt("editor").editors)
  /\ <<"safeMode", "no">> \in needs => ~SeenAt("editor").safe
  /\ <<"versionMatch", "yes">> \in needs => VersionWasThere
  /\ <<"pipelineReach", "yes">> \in needs =>
       "pipeline" \in SeenAt("rest").manifest /\ SeenAt("artist").pipe = "ours"
  /\ ArtistAsked(r) => ArtistWasThere

\* It is one that offers the capability, so strongly.
Serves(r, p) == p \in Providers /\ r.capability \in DOMAIN Registry[p].offers
NoStronger(r, p, q) ==
  LET a == Registry[p].offers[r.capability]
      b == Registry[q].offers[r.capability]
  IN a.safety <= b.safety /\ a.proof <= b.proof

\* The gate of the Artist is open only where its Editor answered.
LEMMA ArtistGate ==
  ASSUME NEW r, ArtistAsked(r), GateOf(r, "unity_cli") = "none" PROVE Fact("artist") = "yes"
<1> DEFINE mapped == {f \in Profiles : f.provider = "unity_cli" /\ (f.artist => ArtistAsked(r))}
<1>1. mapped # {} BY ResolutionConstants
<1>2. PICK f \in mapped : ProfileGate(f) = "none"
  <2>1. ProfileGate(CHOOSE f \in mapped : TRUE) = "none" BY <1>1 DEF GateOf
  <2> QED BY <1>1, <2>1
<1>3. \A x \in f.facts : Fact(x) = "yes" BY <1>2 DEF ProfileGate
<1> QED BY <1>2, <1>3, ResolutionConstants

\* The fact that there is an Artist is one of an Artist that answered as it should.
LEMMA ArtistThere ==
  ASSUME FactsInv, Fact("artist") = "yes" PROVE ArtistWasThere
<1>1. /\ Fact("artistBound") = "yes" /\ Compatible(probed[6]) = "yes" /\ Fact("listed") = "yes"
      /\ Fact("artistPackage") = "yes" /\ Fact("cli") = "yes"
      /\ 6 \in DOMAIN probed /\ probed[6].cli = "well" /\ probed[6].pipe = "ours"
      /\ probed[5].cli = "well" /\ "pipeline" \in probed[5].manifest
      /\ "artist.inspect" \in probed[5].commands
      /\ probed[3].cli = "well" /\ "artist" \in probed[4].manifest
  BY DEF FactsInv, ArtistFacts, EditorFacts
<1> DEFINE w == probed[6]
<1>2. w \in World BY <1>1 DEF FactsInv
<1>3. w.editor = [version |-> w.version, tier |-> "primary", approval |-> "current",
                  context |-> "current"]
  <2>1. /\ w.editor.version = w.version /\ w.editor.tier \in {"primary", "unstated"}
        /\ w.editor.approval # "old" /\ w.editor.context # "old"
        /\ w.editor.tier # "unstated" /\ w.editor.approval # "unstated"
        /\ w.editor.context # "unstated"
    BY <1>1 DEF Compatible
  <2> QED BY <1>2, <2>1 DEF World
<1> QED BY <1>1, <1>3, ProbesAre DEF ArtistWasThere

\* A provider that is not rejected rests on what was there.
LEMMA EligibleRests ==
  ASSUME FactsInv, NEW r, NEW c, NEW p, Rejection(r, c, p) = "none"
  PROVE  Rests(r, p)
<1> DEFINE d == Registry[p]
           offer == d.offers[r.capability]
<1>1. /\ Excluded(r, p) = "none" /\ d.enabled /\ BindingFailure(d, r) = "none"
      /\ EnvironmentFailure(offer) = "none"
  BY DEF Rejection
<1>2. /\ r.root = "ours" /\ Fact("exists") = "yes"
      /\ d.binding = "environment" => Fact("mcpBound") = "yes"
  BY <1>1 DEF BindingFailure
<1>3. \A need \in offer.needs : Fact(need[1]) = need[2] BY <1>1 DEF EnvironmentFailure
<1>4. /\ <<"cli", "yes">> \in offer.needs => Fact("cli") = "yes"
      /\ <<"editorBound", "yes">> \in offer.needs => Fact("editorBound") = "yes"
      /\ <<"safeMode", "no">> \in offer.needs => Fact("safeMode") = "no"
      /\ <<"versionMatch", "yes">> \in offer.needs => Fact("versionMatch") = "yes"
      /\ <<"pipelineReach", "yes">> \in offer.needs => Fact("pipelineReach") = "yes"
  BY <1>3
<1>5. ArtistAsked(r) => ArtistWasThere
  <2>1. ArtistAsked(r) => GateOf(r, "unity_cli") = "none" BY <1>1 DEF Excluded
  <2> QED BY <2>1, ArtistGate, ArtistThere
<1>6. Fact("versionMatch") = "yes" => VersionWasThere
  BY ProbesAre DEF FactsInv, VersionFacts, VersionWasThere, OneOf
<1> QED BY <1>1, <1>2, <1>4, <1>5, <1>6, ProbesAre
        DEF Rests, FactsInv, EditorFacts, ArtistFacts, RestFacts

\* What is served: by those that rest on what was there, none weaker than one before it, and a
\* change with its approval; nothing is asked before everything was looked at.
ServedInv ==
  /\ servers \in Seq(Providers)
  /\ asking = <<>> => servers = <<>> /\ verdict # "resolved"
  /\ asking # <<>> => Observed
  /\ verdict = "resolved" => servers # <<>>
  /\ \A r : r = asking[1] /\ servers # <<>> /\ Policies[r.capability].approval = "hard" =>
       r.approval /\ asking[2].complete
  /\ \A r, p : r = asking[1] /\ (\E i \in DOMAIN servers : p = servers[i]) =>
       Serves(r, p) /\ Rests(r, p)
  /\ \A r, p, q : r = asking[1] /\ (\E i, j \in DOMAIN servers :
                                       j <= i /\ p = servers[j] /\ q = servers[i]) =>
       NoStronger(r, p, q)

\* How strong an offer is, is one of six.
LEMMA StrengthsAre ==
  ASSUME NEW r, NEW p, Serves(r, p)
  PROVE  /\ Registry[p].offers[r.capability].safety \in 0..5
         /\ Registry[p].offers[r.capability].proof \in 0..5
<1>1. ParsedOffer(Registry[p], Registry[p].offers[r.capability])
  BY ResolutionConstants DEF Serves, ParsedRegistry
<1> QED BY <1>1 DEF ParsedOffer, Strengths

\* One that is not rejected is at least as strong as the one tried before it.
LEMMA EligibleIsStrong ==
  ASSUME ServedInv, NEW c, NEW r, r = asking[1], servers # <<>>,
         NEW p \in EligibleFor(r, c)
  PROVE  NoStronger(r, servers[Len(servers)], p)
<1> DEFINE q == servers[Len(servers)]
           a == Registry[q].offers[r.capability]
           b == Registry[p].offers[r.capability]
           k == r.capability
<1>1. q \in Providers /\ Serves(r, q) BY DEF ServedInv
<1>2. /\ p \in Providers /\ k \in DOMAIN Registry[p].offers
      /\ ~ (b.safety < FloorFor(k, servers).safety) /\ ~ (b.proof < FloorFor(k, servers).proof)
  BY DEF EligibleFor, Candidates, Rejection
<1>3. k \in DOMAIN Registry[q].offers BY <1>1 DEF Serves
<1>4. /\ a.safety \in 0..5 /\ a.proof \in 0..5 /\ b.safety \in 0..5 /\ b.proof \in 0..5
      /\ Floors[k].safety \in 0..5 /\ Floors[k].proof \in 0..5
  <2>1. /\ a.safety \in 0..5 /\ a.proof \in 0..5 /\ b.safety \in 0..5 /\ b.proof \in 0..5
    BY <1>1, <1>2, StrengthsAre DEF Serves
  <2>2. k \in Capable BY <1>2, ResolutionConstants DEF ParsedRegistry
  <2>3. Floors[k] \in [safety : Strengths, proof : Strengths]
    BY <2>2, ResolutionConstants DEF ParsedRegistry
  <2> QED BY <2>1, <2>3 DEF Strengths
<1>5. /\ FloorFor(k, servers).safety =
           IF a.safety > Floors[k].safety THEN a.safety ELSE Floors[k].safety
      /\ FloorFor(k, servers).proof = IF a.proof > Floors[k].proof THEN a.proof ELSE Floors[k].proof
  BY DEF FloorFor
<1> HIDE DEF a, b, q, k
<1>6. a.safety <= b.safety /\ a.proof <= b.proof BY <1>2, <1>4, <1>5
<1> QED BY <1>6 DEF NoStronger, a, b, q, k

\* A resolution adds one that may serve, or nobody.
LEMMA ResolveIs ==
  ASSUME NEW r, NEW c, ResolveWith(r, c)
  PROVE  \/ verdict' # "resolved" /\ servers' = servers
         \/ \E p \in EligibleFor(r, c) : verdict' = "resolved" /\ servers' = Append(servers, p)
<1>1. CASE Best(r, c) = {}
  <2>1. ~ (Cardinality(Best(r, c)) > 1) BY <1>1, FS_EmptySet
  <2>3. verdict' = Gravest(r, c) /\ servers' = servers BY <1>1, <2>1 DEF ResolveWith
  <2>2. Gravest(r, c) # "resolved"
    <3> DEFINE graver ==
                 <<"ambiguous_binding", "scope_violation", "unhealthy", "unknown", "unsupported">>
               found == {i \in DOMAIN graver :
                           graver[i] \in {Rejection(r, c, p) : p \in Candidates(r)}}
               least == CHOOSE i \in found : \A j \in found : i <= j
    <3>1. \A i \in 1..5 : graver[i] # "resolved"
      <4>1. \A i \in 1..5 : i = 1 \/ i = 2 \/ i = 3 \/ i = 4 \/ i = 5 OBVIOUS
      <4> QED BY <4>1
    <3>2. DOMAIN graver = 1..5 OBVIOUS
    <3>3. Gravest(r, c) = IF found = {} THEN "unavailable" ELSE graver[least] BY DEF Gravest
    <3> HIDE DEF graver
    <3>4. found # {} => least \in found
      <4>1. found \subseteq Nat BY <3>2
      <4>2. ASSUME found # {} PROVE \E i \in found : \A j \in found : i <= j
        <5>1. \A i \in found : i \in 1..5 BY <3>2
        <5>2. \E i \in found : i = 1 \/ i = 2 \/ i = 3 \/ i = 4 \/ i = 5 BY <4>2, <5>1
        <5> HIDE DEF found
        <5>3. CASE 1 \in found BY <5>1, <5>3
        <5>4. CASE 1 \notin found /\ 2 \in found BY <5>1, <5>4
        <5>5. CASE 1 \notin found /\ 2 \notin found /\ 3 \in found BY <5>1, <5>5
        <5>6. CASE 1 \notin found /\ 2 \notin found /\ 3 \notin found /\ 4 \in found
          BY <5>1, <5>6
        <5>7. CASE 1 \notin found /\ 2 \notin found /\ 3 \notin found /\ 4 \notin found
          BY <5>1, <5>2, <5>7
        <5> QED BY <5>3, <5>4, <5>5, <5>6, <5>7
      <4> HIDE DEF found
      <4> QED BY <4>2
    <3> QED BY <3>1, <3>2, <3>3, <3>4
  <2> QED BY <2>2, <2>3
<1>2. CASE Best(r, c) # {} /\ Cardinality(Best(r, c)) > 1 BY <1>2 DEF ResolveWith
<1>3. CASE Best(r, c) # {} /\ ~ (Cardinality(Best(r, c)) > 1)
  <2> DEFINE p == CHOOSE x \in Best(r, c) : TRUE
  <2>1. verdict' = "resolved" /\ servers' = Append(servers, p) BY <1>3 DEF ResolveWith
  <2>2. p \in Best(r, c) BY <1>3
  <2>3. p \in EligibleFor(r, c) BY <2>2 DEF Best
  <2> QED BY <2>1, <2>3
<1> QED BY <1>1, <1>2, <1>3

\* What a provider rests on is as it was seen, while nothing more is seen.
LEMMA RestStays ==
  ASSUME probed' = probed
  PROVE  /\ \A r, p : Rests(r, p)' <=> Rests(r, p)
         /\ \A r, p : Serves(r, p)' <=> Serves(r, p)
         /\ \A r, p, q : NoStronger(r, p, q)' <=> NoStronger(r, p, q)
<1>1. \A name \in {"project", "editor", "cli", "package", "surface", "artist", "rest"} :
        SeenAt(name)' = SeenAt(name)
  BY DEF SeenAt, Probes
<1>2. ArtistWasThere' <=> ArtistWasThere BY <1>1 DEF ArtistWasThere
<1>6. VersionWasThere' <=> VersionWasThere BY <1>1 DEF VersionWasThere, OfOurs
<1>3. ASSUME NEW r, NEW p PROVE Rests(r, p)' <=> Rests(r, p)
  BY <1>1, <1>2, <1>6 DEF Rests, ArtistAsked, OneOf, OfOurs
<1>4. \A r, p : Serves(r, p)' <=> Serves(r, p) BY DEF Serves, Providers
<1>5. \A r, p, q : NoStronger(r, p, q)' <=> NoStronger(r, p, q) BY DEF NoStronger
<1> QED BY <1>3, <1>4, <1>5

\* A step that resolves for the request that is asked keeps what is known of those who serve.
LEMMA ResolveKeeps ==
  ASSUME FactsInv, ServedInv, NEW r, NEW c, r = asking[1] \/ servers = <<>>, ResolveWith(r, c),
         servers = <<>> /\ Policies[r.capability].approval = "hard" => r.approval /\ c.complete,
         asking'[1] = r, asking'[2] = c, asking' # <<>>,
         servers # <<>> => asking[1] = r /\ asking[2] = c,
         probed' = probed, Observed
  PROVE  ServedInv'
<1>1. /\ asking'[1] = r /\ asking'[2] = c /\ asking' # <<>> OBVIOUS
<1>2. Observed' BY DEF Observed
<1>3. CASE verdict' # "resolved" /\ servers' = servers
  <2>1. servers # <<>> => asking'[1] = asking[1] /\ asking'[2] = asking[2] OBVIOUS
  <2> QED BY <1>1, <1>2, <1>3, <2>1, RestStays DEF ServedInv
<1>4. ASSUME NEW p \in EligibleFor(r, c), verdict' = "resolved", servers' = Append(servers, p)
      PROVE  ServedInv'
  <2>1. /\ p \in Providers /\ Serves(r, p) /\ Rests(r, p)
    BY EligibleRests DEF EligibleFor, Candidates, Serves
  <2>2. /\ servers' \in Seq(Providers) /\ DOMAIN servers' = 1..(Len(servers) + 1)
        /\ servers' # <<>> /\ DOMAIN servers = 1..Len(servers) /\ Len(servers) \in Nat
        /\ servers'[Len(servers) + 1] = p
        /\ \A i \in DOMAIN servers : servers'[i] = servers[i]
    BY <1>4, <2>1 DEF ServedInv
  <2>3. \A s : s = r /\ servers' # <<>> /\ Policies[s.capability].approval = "hard" =>
          s.approval /\ c.complete
    BY <1>1 DEF ServedInv
  <2>4. \A s, x : s = r /\ (\E i \in DOMAIN servers' : x = servers'[i]) =>
          Serves(s, x) /\ Rests(s, x)
    BY <2>1, <2>2 DEF ServedInv
  <2>5. NoStronger(r, p, p)
    <3>1. /\ Registry[p].offers[r.capability].safety \in 0..5
          /\ Registry[p].offers[r.capability].proof \in 0..5
      BY <2>1, StrengthsAre
    <3> QED BY <3>1 DEF NoStronger
  <2>6. \A j \in DOMAIN servers : NoStronger(r, servers[j], p)
    <3> SUFFICES ASSUME NEW j \in DOMAIN servers PROVE NoStronger(r, servers[j], p) OBVIOUS
    <3> DEFINE q == servers[Len(servers)]
               x == servers[j]
    <3>1. servers # <<>> /\ r = asking[1] /\ Len(servers) \in DOMAIN servers /\ j <= Len(servers)
      BY <2>2
    <3>2. NoStronger(r, q, p) BY <3>1, EligibleIsStrong
    <3>3. NoStronger(r, x, q) BY <3>1 DEF ServedInv
    <3>4. x \in Providers /\ q \in Providers /\ Serves(r, x) /\ Serves(r, q)
      BY <3>1 DEF ServedInv
    <3> HIDE DEF x, q
    <3>5. \A z \in {x, q, p} : Registry[z].offers[r.capability].safety \in 0..5
                               /\ Registry[z].offers[r.capability].proof \in 0..5
      BY <2>1, <3>4, StrengthsAre
    <3>6. NoStronger(r, x, p) BY <3>2, <3>3, <3>5 DEF NoStronger
    <3> QED BY <3>6 DEF x
  <2>7. \A s, x, q : s = r /\ (\E i, j \in DOMAIN servers' :
                                 j <= i /\ x = servers'[j] /\ q = servers'[i]) =>
          NoStronger(s, x, q)
    <3> SUFFICES ASSUME NEW i \in DOMAIN servers', NEW j \in DOMAIN servers', j <= i
                 PROVE  NoStronger(r, servers'[j], servers'[i])
      OBVIOUS
    <3>1. CASE i = Len(servers) + 1 /\ j = i BY <2>2, <2>5, <3>1
    <3>2. CASE i = Len(servers) + 1 /\ j # i
      <4>1. j \in DOMAIN servers BY <2>2, <3>2
      <4> QED BY <2>2, <2>6, <3>2, <4>1
    <3>3. CASE i # Len(servers) + 1
      <4>1. i \in DOMAIN servers /\ j \in DOMAIN servers BY <2>2, <3>3
      <4>2. servers # <<>> /\ r = asking[1] BY <2>2, <4>1
      <4> QED BY <2>2, <4>1, <4>2 DEF ServedInv
    <3> QED BY <3>1, <3>2, <3>3
  <2> QED BY <1>1, <1>2, <1>4, <2>2, <2>3, <2>4, <2>7, RestStays DEF ServedInv
<1> QED BY <1>3, <1>4, ResolveIs

ResolutionInv == FactsInv /\ ServedInv

\* The invariant of the resolution holds at first,
LEMMA ResolutionInvInit == ResolutionInit => ResolutionInv
<1> SUFFICES ASSUME ResolutionInit PROVE ResolutionInv OBVIOUS
<1>1. around \in World /\ probed = <<>> /\ facts = <<>> /\ DOMAIN facts = {}
  BY ResolutionConstants DEF ResolutionInit
<1>2. \A f : Fact(f) = "unknown" BY <1>1 DEF Fact
<1>3. FactsInv BY <1>1, <1>2 DEF FactsInv, EditorFacts, ArtistFacts, RestFacts, VersionFacts
<1>4. servers = <<>> /\ DOMAIN servers = {} /\ asking = <<>> /\ verdict = "none"
  BY DEF ResolutionInit
<1>5. ServedInv BY <1>4 DEF ServedInv
<1> QED BY <1>3, <1>5 DEF ResolutionInv

\* Nobody serves while something is still to be seen.
LEMMA UnservedStays ==
  ASSUME ServedInv, ~Observed, UNCHANGED <<asking, verdict, servers>> PROVE ServedInv'
<1>1. asking = <<>> /\ servers = <<>> /\ verdict # "resolved" /\ DOMAIN servers = {}
  BY DEF ServedInv
<1>2. asking' = <<>> /\ servers' = <<>> /\ verdict' # "resolved" /\ DOMAIN servers' = {}
  BY <1>1
<1> QED BY <1>2 DEF ServedInv

\* Where nothing but the changes of the world moves, what was seen is kept.
LEMMA SeenStays ==
  ASSUME FactsInv, around' \in World, UNCHANGED <<probed, facts>> PROVE FactsInv'
<1>1. \A f : Fact(f)' = Fact(f) BY DEF Fact
<1>2. EditorFacts' BY <1>1 DEF FactsInv, EditorFacts
<1>3. ArtistFacts' BY <1>1 DEF FactsInv, ArtistFacts, Compatible
<1>4. RestFacts' BY <1>1 DEF FactsInv, RestFacts
<1>5. VersionFacts' BY <1>1 DEF FactsInv, VersionFacts
<1> QED BY <1>2, <1>3, <1>4, <1>5 DEF FactsInv

\* and every step keeps it,
LEMMA ResolutionInvStep ==
  ResolutionInv /\ [ResolutionNext]_resolutionVars => ResolutionInv'
<1> SUFFICES ASSUME ResolutionInv, [ResolutionNext]_resolutionVars PROVE ResolutionInv'
  OBVIOUS
<1> USE DEF ResolutionInv
<1>1. ASSUME NEW name, NEW found, See(name, found) PROVE ServedInv'
  <2>1. ~Observed BY <1>1, ProbesAre DEF See, Observed
  <2> QED BY <1>1, <2>1, UnservedStays DEF See
<1>2. CASE SeeProject
  <2>1. ServedInv' BY <1>1, <1>2 DEF SeeProject
  <2> QED BY <1>2, <2>1, SeeProjectKeeps
<1>3. CASE SeeEditor
  <2>1. ServedInv' BY <1>1, <1>3 DEF SeeEditor
  <2> QED BY <1>3, <2>1, SeeEditorKeeps
<1>4. CASE SeeCli
  <2>1. ServedInv' BY <1>1, <1>4 DEF SeeCli
  <2> QED BY <1>4, <2>1, SeeCliKeeps
<1>5. CASE SeePackage
  <2>1. ServedInv' BY <1>1, <1>5 DEF SeePackage
  <2> QED BY <1>5, <2>1, SeePackageKeeps
<1>6. CASE SeeSurface
  <2>1. ServedInv' BY <1>1, <1>6 DEF SeeSurface
  <2> QED BY <1>6, <2>1, SeeSurfaceKeeps
<1>7. CASE SeeArtist
  <2>1. ServedInv' BY <1>1, <1>7 DEF SeeArtist
  <2> QED BY <1>7, <2>1, SeeArtistKeeps
<1>8. CASE SeeRest
  <2>1. ServedInv' BY <1>1, <1>8 DEF SeeRest
  <2> QED BY <1>8, <2>1, SeeRestKeeps
<1>9. ASSUME NEW r \in Asks, NEW c \in Contexts, Ask(r, c) PROVE ResolutionInv'
  <2>1. Observed /\ asking = <<>> /\ servers = <<>> /\ asking' = <<r, c>>
        /\ UNCHANGED <<around, probed, facts>>
    BY <1>9 DEF Ask, ServedInv
  <2>2. FactsInv' BY <2>1, SeenStays DEF FactsInv
  <2>3. CASE GuardRefusal(r, c) # "none"
    <3>1. verdict' = GuardRefusal(r, c) /\ servers' = servers BY <1>9, <2>3 DEF Ask
    <3>2. verdict' # "resolved" BY <3>1 DEF GuardRefusal
    <3>3. servers' = <<>> /\ DOMAIN servers' = {} BY <2>1, <3>1
    <3>4. asking' # <<>> BY <2>1, Zenon
    <3>5. Observed' BY <2>1 DEF Observed
    <3> QED BY <2>2, <3>2, <3>3, <3>4, <3>5 DEF ServedInv
  <2>4. CASE GuardRefusal(r, c) = "none"
    <3>1. ResolveWith(r, c) BY <1>9, <2>4 DEF Ask
    <3>2. ~MissingApproval(r, c) BY <2>4 DEF GuardRefusal
    <3>3. Policies[r.capability].approval = "hard" => r.approval /\ c.complete
      BY <3>2 DEF MissingApproval
    <3>4. asking'[1] = r /\ asking'[2] = c /\ asking' # <<>> BY <2>1, Zenon
    <3>5. ServedInv' BY <2>1, <3>1, <3>3, <3>4, ResolveKeeps
    <3> QED BY <2>2, <3>5
  <2> QED BY <2>3, <2>4
<1>10. CASE AskAnother
  <2>1. verdict = "resolved" /\ ResolveWith(asking[1], asking[2])
        /\ UNCHANGED <<around, probed, facts, asking>>
    BY <1>10 DEF AskAnother
  <2>2. FactsInv' BY <2>1, SeenStays DEF FactsInv
  <2>3. servers # <<>> /\ asking # <<>> /\ Observed BY <2>1 DEF ServedInv
  <2> QED BY <2>1, <2>2, <2>3, ResolveKeeps
<1>11. ASSUME NEW w \in Worlds, Shift(w) PROVE ResolutionInv'
  <2>1. /\ ~Observed /\ around' \in World
        /\ UNCHANGED <<probed, facts, asking, verdict, servers>>
    BY <1>11, ResolutionConstants DEF Shift
  <2> QED BY <2>1, SeenStays, UnservedStays
<1>12. CASE UNCHANGED resolutionVars
  <2>1. UNCHANGED <<around, probed, facts, asking, verdict, servers>>
    BY <1>12 DEF resolutionVars
  <2>2. FactsInv' BY <2>1, SeenStays DEF FactsInv
  <2>3. ServedInv' BY <2>1, RestStays DEF ServedInv, Observed
  <2> QED BY <2>2, <2>3
<1> QED BY <1>2, <1>3, <1>4, <1>5, <1>6, <1>7, <1>8, <1>9, <1>10, <1>11, <1>12
        DEF ResolutionNext

\* and so those who serve are what was seen.
LEMMA ServedIsSeen == ResolutionInv => ServedAsSeen
<1> SUFFICES ASSUME ResolutionInv, NEW i \in DOMAIN servers
             PROVE  LET r == asking[1]
                        c == asking[2]
                        d == Registry[servers[i]]
                        offer == d.offers[r.capability]
                    IN
    /\ d.enabled /\ r.root = "ours" /\ SeenAt("project").project
    /\ d.binding = "environment" => Cardinality(OfOurs(SeenAt("rest").instances)) = 1
    /\ <<"cli", "yes">> \in offer.needs => SeenAt("cli").cli = "well"
    /\ <<"editorBound", "yes">> \in offer.needs =>
         ~SeenAt("editor").hidden /\ Cardinality(OfOurs(SeenAt("editor").editors)) = 1
    /\ <<"safeMode", "no">> \in offer.needs => ~SeenAt("editor").safe
    /\ <<"versionMatch", "yes">> \in offer.needs => VersionWasThere
    /\ <<"pipelineReach", "yes">> \in offer.needs =>
         "pipeline" \in SeenAt("rest").manifest /\ SeenAt("artist").pipe = "ours"
    /\ ArtistAsked(r) => ArtistWasThere
    /\ Policies[r.capability].approval = "hard" => r.approval /\ c.complete
    /\ \A j \in 1..i : LET earlier == Registry[servers[j]].offers[r.capability] IN
         earlier.safety <= offer.safety /\ earlier.proof <= offer.proof
  BY DEF ServedAsSeen
<1>1. Rests(asking[1], servers[i]) BY DEF ResolutionInv, ServedInv
<1>2. servers # <<>> /\ 1..i \subseteq DOMAIN servers BY DEF ResolutionInv, ServedInv
<1>3. Policies[asking[1].capability].approval = "hard" => asking[1].approval /\ asking[2].complete
  BY <1>2 DEF ResolutionInv, ServedInv
<1>4. \A j \in 1..i : NoStronger(asking[1], servers[j], servers[i])
  BY <1>2 DEF ResolutionInv, ServedInv
<1> QED BY <1>1, <1>3, <1>4 DEF Rests, NoStronger, OneOf

\* However the world moves between the probes, and whichever provider is tried first or after
\* another: it rests on what was there when it was looked at, it has the approval a change needs,
\* and it is no weaker than those tried before it.
THEOREM ProvidersAsSeen == ResolutionSpec => []ServedAsSeen
<1>1. ResolutionSpec => []ResolutionInv
  BY ResolutionInvInit, ResolutionInvStep, PTL DEF ResolutionSpec
<1> QED BY <1>1, ServedIsSeen, PTL

-----------------------------------------------------------------------------
(***************************************************************************)
(* The reasoning of specialists, for any number of calls that repeat under  *)
(* any number of Runs, wherever a call dies, and whoever edits the Project. *)
(***************************************************************************)

\* Where a call is that has chosen no Context yet, where it observes and reasons, and where it
\* is at work: there it has the lease.
Apart == {"idle", "blocked", "raised", "done", "lost"}
Early == Apart \union {"routing", "selecting"}
Pondering == {"handing", "observing", "reading", "starting", "thinking", "verifying", "recording"}
AtThought == {"routing", "selecting", "finishing"} \union Pondering

MindFields == {"outcomes", "context", "first", "started", "ended", "answer", "judged"}
Replied == {"source.read", "project.inspect", "profiler.observe",
              "world", "graphics", "performance"}
Outcome == [capability : Replied, status : {"completed", "blocked"},
            proof : {"preflight", "evidence", "reasoning"} \X Nat]

\* A Context that may be reasoned on: what ProvenReasoning says of it.
ViewOk(r, view) ==
  /\ view \in manifests[r]
  /\ {i.capability : i \in view.items} = Required(view.given.kind)
  /\ \A i \in view.items :
       /\ Reads(r, i.proof, i.capability) /\ proofs[r][i.proof].payload = i.content
       /\ proofs[r][i.proof].definition = [view EXCEPT !.items = {}]
       /\ i.capability = "project.inspect" => PipelineIn[i.content] \in SupportedPipelines
  /\ view.given.version \in SupportedVersions

\* The result of an observation is the one its route dispatches there.
Observation(c, n, o) ==
  /\ o.capability = Dispatched(Kind(c))[n]
  /\ LET proof == proofs[RunBy(c)][o.proof] IN
       proof.source = "provider" => proof.capability = o.capability

\* What a call that is at t holds in its memory m.
Defined(c, t, m) ==
  /\ t \in Early => m = Blank
  /\ t = "selecting" \/ t \notin Early => Activates(inquiry[c].version)
  /\ t \notin Early => m.first = Materialized(c, {}) /\ m.first \in manifests[RunBy(c)]
  /\ t \in {"handing", "observing", "reading"} => m.context = m.first
Observes(c, t, m) ==
  /\ \A n \in DOMAIN m.outcomes : m.outcomes[n].proof \in DOMAIN proofs[RunBy(c)]
  /\ t \in Pondering =>
       /\ Len(m.outcomes) <= Len(Dispatched(Kind(c)))
       /\ \A n \in DOMAIN m.outcomes : Observation(c, n, m.outcomes[n])
  /\ t \in {"handing", "observing"} => Len(m.outcomes) < Len(Dispatched(Kind(c)))
Concludes(c, t, m) ==
  /\ t \in {"handing", "observing", "reading", "starting", "thinking"} => ~m.judged
  /\ t \in {"starting", "thinking", "verifying"} \/ (t = "recording" /\ m.judged) =>
       ViewOk(RunBy(c), m.context)
  /\ t \in {"verifying", "recording"} /\ m.judged => m.started = m.ended
  /\ t = "recording" /\ m.judged =>
       m.answer \in artifacts[RunBy(c)] /\ m.answer.names = m.context /\ m.answer.kept
  /\ t = "finishing" /\ AllCompleted(m.outcomes) => HasReasoned(RunBy(c))
CallOk(c, t, m) ==
  /\ DOMAIN m = MindFields /\ m.outcomes \in Seq(Outcome)
  /\ Defined(c, t, m) /\ Observes(c, t, m) /\ Concludes(c, t, m)

RunOk(r) ==
  /\ HasReasoned(r) => ProvenReasoning(r)
  /\ states[r] # Absent =>
       /\ states[r].refs \subseteq DOMAIN proofs[r]
       /\ states[r].status = "completed" => HasReasoned(r)

ReasoningTypes ==
  /\ inquiry \in [Thinkers -> Inquiries]
  /\ thought \in [Thinkers -> Apart \union AtThought]
  /\ DOMAIN mind = Thinkers
  /\ DOMAIN proofs = ThoughtRuns /\ DOMAIN manifests = ThoughtRuns
  /\ DOMAIN artifacts = ThoughtRuns /\ DOMAIN states = ThoughtRuns

ReasoningInv ==
  /\ ReasoningTypes
  /\ \A c \in Thinkers : thought[c] \in AtThought => reasoner = c
  /\ \A c \in Thinkers : \A t, m : t = thought[c] /\ m = mind[c] => CallOk(c, t, m)
  /\ \A r \in ThoughtRuns : RunOk(r)

-----------------------------------------------------------------------------
\* Evidence, manifests and artifacts are only added to.
Grown ==
  \A r \in ThoughtRuns :
    /\ \A id \in DOMAIN proofs[r] : id \in DOMAIN proofs'[r] /\ proofs'[r][id] = proofs[r][id]
    /\ manifests[r] \subseteq manifests'[r] /\ artifacts[r] \subseteq artifacts'[r]

\* A call of a known thinker is in a Run of the model and asks a question of it.
LEMMA RunTyped ==
  ASSUME ReasoningTypes, NEW c \in Thinkers
  PROVE  RunBy(c) \in ThoughtRuns /\ inquiry[c] \in Inquiries
BY DEF ReasoningTypes, RunBy, ThoughtRuns

\* A record that is put is added to the evidence of its Run.
LEMMA PutIs ==
  ASSUME ReasoningTypes, NEW c \in Thinkers, NEW id, NEW proof, Put(c, id, proof), Fresh(c, id)
  PROVE  /\ DOMAIN proofs' = ThoughtRuns
         /\ DOMAIN proofs'[RunBy(c)] = DOMAIN proofs[RunBy(c)] \union {id}
         /\ proofs'[RunBy(c)][id] = proof
         /\ \A r \in ThoughtRuns : \A i \in DOMAIN proofs[r] :
              i \in DOMAIN proofs'[r] /\ proofs'[r][i] = proofs[r][i]
         /\ \A r \in ThoughtRuns \ {RunBy(c)} : proofs'[r] = proofs[r]
<1> DEFINE before == proofs[RunBy(c)]
           after == [i \in DOMAIN before \union {id} |-> IF i = id THEN proof ELSE before[i]]
<1>1. proofs' = [proofs EXCEPT ![RunBy(c)] = after] BY DEF Put
<1>2. /\ DOMAIN after = DOMAIN before \union {id} /\ after[id] = proof
      /\ \A i \in DOMAIN before : i # id /\ after[i] = before[i]
  BY DEF Fresh
<1> HIDE DEF after
<1> QED BY <1>1, <1>2, RunTyped DEF ReasoningTypes

\* A Context that may be reasoned on stays one when more is recorded.
LEMMA ViewStays ==
  ASSUME NEW r \in ThoughtRuns, NEW view, ViewOk(r, view), Grown PROVE ViewOk(r, view)'
<1>1. view \in manifests'[r] BY DEF Grown, ViewOk
<1>2. ASSUME NEW i \in view.items
      PROVE  /\ Reads(r, i.proof, i.capability)' /\ proofs'[r][i.proof].payload = i.content
             /\ proofs'[r][i.proof].definition = [view EXCEPT !.items = {}]
             /\ i.capability = "project.inspect" => PipelineIn[i.content] \in SupportedPipelines
  <2>1. /\ Reads(r, i.proof, i.capability) /\ proofs[r][i.proof].payload = i.content
        /\ proofs[r][i.proof].definition = [view EXCEPT !.items = {}]
        /\ i.capability = "project.inspect" => PipelineIn[i.content] \in SupportedPipelines
    BY DEF ViewOk
  <2>2. i.proof \in DOMAIN proofs[r] BY <2>1 DEF Reads
  <2>3. i.proof \in DOMAIN proofs'[r] /\ proofs'[r][i.proof] = proofs[r][i.proof]
    BY <2>2 DEF Grown
  <2>4. Reads(r, i.proof, i.capability)' BY <2>1, <2>3 DEF Reads
  <2> QED BY <2>1, <2>3, <2>4
<1>3. /\ {i.capability : i \in view.items} = Required(view.given.kind)
      /\ view.given.version \in SupportedVersions
  BY DEF ViewOk
<1> QED BY <1>1, <1>2, <1>3 DEF ViewOk

\* What is proven is a Context that may be reasoned on, and an artifact that was kept.
LEMMA ProvenIs ==
  ASSUME NEW r
  PROVE  ProvenReasoning(r) <=>
           LET proof == proofs[r][Reasoned] IN
           /\ proof.started = proof.ended
           /\ proof.artifact \in artifacts[r] /\ proof.artifact.names = proof.definition
           /\ ViewOk(r, proof.definition) /\ proof.artifact.kept
BY DEF ProvenReasoning, ViewOk

\* A reasoning that is proven stays proven when more is recorded.
LEMMA ProvenStays ==
  ASSUME NEW r \in ThoughtRuns, HasReasoned(r), ProvenReasoning(r), Grown
  PROVE  HasReasoned(r)' /\ ProvenReasoning(r)'
<1> DEFINE proof == proofs[r][Reasoned]
<1>1. PICK p : p = proof OBVIOUS
<1>2. Reasoned \in DOMAIN proofs'[r] /\ proofs'[r][Reasoned] = p
  BY <1>1 DEF Grown, HasReasoned
<1>3. /\ p.started = p.ended /\ p.artifact \in artifacts[r] /\ p.artifact.names = p.definition
      /\ ViewOk(r, p.definition) /\ p.artifact.kept
  BY <1>1, ProvenIs
<1>4. p.artifact \in artifacts'[r] BY <1>3 DEF Grown
<1>5. PICK v : v = p.definition OBVIOUS
<1>6. ViewOk(r, v)' BY <1>3, <1>5, ViewStays
<1>7. HasReasoned(r)' BY <1>1, <1>2 DEF HasReasoned
<1>8. ProvenReasoning(r)' BY <1>2, <1>3, <1>4, <1>5, <1>6 DEF ProvenReasoning, ViewOk
<1> QED BY <1>7, <1>8

\* What a call holds in its memory stays right when another call records more.
LEMMA CallStays ==
  ASSUME ReasoningTypes, NEW c \in Thinkers, NEW t, NEW m, CallOk(c, t, m), Grown,
         inquiry' = inquiry, \A r \in ThoughtRuns : HasReasoned(r) => HasReasoned(r)'
  PROVE  CallOk(c, t, m)'
<1> DEFINE r == RunBy(c)
<1>1. r \in ThoughtRuns /\ RunBy(c)' = r /\ Kind(c)' = Kind(c)
  BY RunTyped DEF RunBy, Kind
<1>2. Defined(c, t, m)'
  <2>1. Materialized(c, {})' = Materialized(c, {})
    BY DEF Materialized, Given, Facts, Kind
  <2> QED BY <1>1, <2>1 DEF CallOk, Defined, Grown
<1>3. Observes(c, t, m)'
  <2>1. \A n \in DOMAIN m.outcomes :
          /\ m.outcomes[n].proof \in DOMAIN proofs[r]
          /\ m.outcomes[n].proof \in DOMAIN proofs'[r]
          /\ proofs'[r][m.outcomes[n].proof] = proofs[r][m.outcomes[n].proof]
    BY <1>1 DEF CallOk, Observes, Grown
  <2>2. \A n \in DOMAIN m.outcomes : Observation(c, n, m.outcomes[n]) =>
          Observation(c, n, m.outcomes[n])'
    BY <1>1, <2>1 DEF Observation
  <2> QED BY <1>1, <2>1, <2>2 DEF CallOk, Observes
<1>4. Concludes(c, t, m)'
  <2>1. PICK v : v = m.context OBVIOUS
  <2>2. ViewOk(r, v) => ViewOk(r, v)' BY <1>1, ViewStays
  <2>3. HasReasoned(r) => HasReasoned(r)' BY <1>1
  <2>4. artifacts[r] \subseteq artifacts'[r] BY <1>1 DEF Grown
  <2>5. PICK q : q = r OBVIOUS
  <2>6. RunBy(c)' = q BY <1>1, <2>5
  <2> QED BY <2>1, <2>2, <2>3, <2>4, <2>5, <2>6 DEF CallOk, Concludes
<1> QED BY <1>2, <1>3, <1>4 DEF CallOk

\* A Run whose own state and reasoning no step writes stays believed as it was.
LEMMA RunStays ==
  ASSUME NEW r \in ThoughtRuns, RunOk(r), Grown, states'[r] = states[r],
         HasReasoned(r)' => HasReasoned(r)
  PROVE  RunOk(r)'
<1>1. HasReasoned(r) => HasReasoned(r)' BY DEF HasReasoned, Grown
<1>2. HasReasoned(r)' => ProvenReasoning(r)' BY ProvenStays DEF RunOk
<1>3. PICK s : s = states[r] OBVIOUS
<1>4. s # Absent => /\ s.refs \subseteq DOMAIN proofs'[r]
                    /\ s.status = "completed" => HasReasoned(r)'
  BY <1>1, <1>3 DEF RunOk, Grown
<1> QED BY <1>2, <1>3, <1>4 DEF RunOk

\* A call that has begun nothing, or has come back.
LEMMA BlankOk ==
  ASSUME NEW c, NEW t \in Apart \union {"routing"} PROVE CallOk(c, t, Blank) /\ CallOk(c, t, Blank)'
<1>1. DOMAIN Blank = MindFields /\ Blank.outcomes = <<>> /\ DOMAIN Blank.outcomes = {}
      /\ Blank.outcomes \in Seq(Outcome) /\ ~Blank.judged
  BY DEF Blank, MindFields
<1> HIDE DEF Blank
<1>2. t \in Early /\ t \notin Pondering /\ t # "finishing" /\ t # "selecting"
      /\ t \notin {"handing", "observing", "reading", "starting", "thinking", "verifying",
                   "recording"}
  BY DEF Early, Apart, Pondering
<1> QED BY <1>1, <1>2 DEF CallOk, Defined, Observes, Concludes

\* A step of one call that moves to t and holds m from then on.
LEMMA CallMoves ==
  ASSUME ReasoningInv, NEW c \in Thinkers, NEW t \in Apart \union AtThought, NEW m,
         thought' = [thought EXCEPT ![c] = t],
         DOMAIN mind' = Thinkers, mind'[c] = m, \A d \in Thinkers \ {c} : mind'[d] = mind[d],
         inquiry' = inquiry, Grown,
         DOMAIN proofs' = ThoughtRuns, DOMAIN manifests' = ThoughtRuns,
         DOMAIN artifacts' = ThoughtRuns, DOMAIN states' = ThoughtRuns,
         CallOk(c, t, m)', t \in AtThought => reasoner' = c,
         reasoner' = reasoner \/ reasoner = c \/ reasoner = Absent,
         \A r \in ThoughtRuns : RunOk(r)'
  PROVE  ReasoningInv'
<1>1. ReasoningTypes' BY DEF ReasoningInv, ReasoningTypes
<1>2. ASSUME NEW d \in Thinkers, thought'[d] \in AtThought PROVE reasoner' = d
  <2>1. CASE d = c BY <1>2, <2>1 DEF ReasoningInv, ReasoningTypes
  <2>2. CASE d # c
    <3>1. thought[d] \in AtThought BY <1>2, <2>2 DEF ReasoningInv, ReasoningTypes
    <3>2. reasoner = d /\ d # Absent BY <3>1, ReasoningConstants DEF ReasoningInv
    <3> QED BY <2>2, <3>2
  <2> QED BY <2>1, <2>2
<1>3. ASSUME NEW d \in Thinkers, NEW u, NEW k, u = thought'[d], k = mind'[d]
      PROVE  CallOk(d, u, k)'
  <2>1. CASE d = c BY <1>3, <2>1 DEF ReasoningInv, ReasoningTypes
  <2>2. CASE d # c
    <3>1. u = thought[d] /\ k = mind[d] BY <1>3, <2>2 DEF ReasoningInv, ReasoningTypes
    <3>2. CallOk(d, u, k) BY <3>1 DEF ReasoningInv
    <3>3. \A r \in ThoughtRuns : HasReasoned(r) => HasReasoned(r)' BY DEF HasReasoned, Grown
    <3> QED BY <3>2, <3>3, CallStays DEF ReasoningInv
  <2> QED BY <2>1, <2>2
<1> QED BY <1>1, <1>2, <1>3 DEF ReasoningInv

\* A step that writes nothing to the disk.
LEMMA DiskStays ==
  ASSUME ReasoningInv, UNCHANGED <<manifests, artifacts, proofs, states>>
  PROVE  /\ Grown /\ \A r \in ThoughtRuns : RunOk(r)' /\ (HasReasoned(r)' <=> HasReasoned(r))
         /\ DOMAIN proofs' = ThoughtRuns /\ DOMAIN manifests' = ThoughtRuns
         /\ DOMAIN artifacts' = ThoughtRuns /\ DOMAIN states' = ThoughtRuns
<1>1. proofs' = proofs /\ manifests' = manifests /\ artifacts' = artifacts /\ states' = states
  OBVIOUS
<1>2. Grown BY <1>1 DEF Grown
<1>3. \A r \in ThoughtRuns : HasReasoned(r)' <=> HasReasoned(r) BY <1>1 DEF HasReasoned
<1>4. \A r \in ThoughtRuns : RunOk(r)' BY <1>1, <1>2, <1>3, RunStays DEF ReasoningInv
<1> QED BY <1>1, <1>2, <1>3, <1>4 DEF ReasoningInv, ReasoningTypes

\* Calls that moved, and hold what they held.
LEMMA CallIs ==
  ASSUME ReasoningInv, NEW c \in Thinkers
  PROVE  /\ CallOk(c, thought[c], mind[c]) /\ DOMAIN mind = Thinkers
         /\ thought[c] \in AtThought => reasoner = c
         /\ thought[c] \in Early => mind[c] = Blank
         /\ RunBy(c) \in ThoughtRuns
BY RunTyped DEF ReasoningInv, ReasoningTypes, CallOk, Defined

\* The call comes back, whatever it wrote.
LEMMA Returns ==
  ASSUME ReasoningInv, NEW c \in Thinkers, NEW how \in Apart, EndCall(c, how),
         thought[c] \in AtThought, inquiry' = inquiry, Grown,
         DOMAIN proofs' = ThoughtRuns, DOMAIN manifests' = ThoughtRuns,
         DOMAIN artifacts' = ThoughtRuns, DOMAIN states' = ThoughtRuns,
         \A r \in ThoughtRuns : RunOk(r)'
  PROVE  ReasoningInv'
<1>1. /\ thought' = [thought EXCEPT ![c] = how] /\ mind' = [mind EXCEPT ![c] = Blank]
      /\ reasoner' = Absent
  BY DEF EndCall, Think
<1>2. how \notin AtThought BY DEF Apart, AtThought, Pondering
<1>3. reasoner = c BY CallIs
<1>4. DOMAIN mind' = Thinkers /\ mind'[c] = Blank /\ \A d \in Thinkers \ {c} : mind'[d] = mind[d]
  BY <1>1, CallIs
<1>5. CallOk(c, how, Blank)' BY BlankOk
<1> QED BY <1>1, <1>2, <1>3, <1>4, <1>5, CallMoves

\* It is blocked before it dispatched anything.
LEMMA Blocks ==
  ASSUME ReasoningInv, NEW c \in Thinkers, BlockBefore(c), thought[c] \in AtThought,
         UNCHANGED <<worldVars, manifests, artifacts>>
  PROVE  ReasoningInv'
<1> DEFINE r == RunBy(c)
           id == <<"preflight", 1>>
<1>1. inquiry' = inquiry /\ manifests' = manifests /\ artifacts' = artifacts BY DEF worldVars
<1>2. CASE Fresh(c, id)
  <2>1. /\ Put(c, id, Preflight) /\ EndCall(c, "blocked")
        /\ states' = [states EXCEPT ![r] = [status |-> "blocked", refs |-> {id}]]
    BY <1>2 DEF BlockBefore
  <2>2. ReasoningTypes /\ r \in ThoughtRuns BY CallIs DEF ReasoningInv
  <2>3. /\ DOMAIN proofs' = ThoughtRuns /\ DOMAIN proofs'[r] = DOMAIN proofs[r] \union {id}
        /\ \A q \in ThoughtRuns : \A i \in DOMAIN proofs[q] :
              i \in DOMAIN proofs'[q] /\ proofs'[q][i] = proofs[q][i]
        /\ \A q \in ThoughtRuns \ {r} : proofs'[q] = proofs[q]
    BY <1>2, <2>1, <2>2, PutIs
  <2>4. Grown BY <1>1, <2>3 DEF Grown
  <2>5. id # Reasoned BY DEF Reasoned
  <2>6. \A q \in ThoughtRuns : HasReasoned(q)' => HasReasoned(q)
    BY <2>2, <2>3, <2>5 DEF HasReasoned
  <2>7. ASSUME NEW q \in ThoughtRuns PROVE RunOk(q)'
    <3>1. CASE q # r
      <4>1. states'[q] = states[q] BY <2>1, <2>2, <3>1 DEF ReasoningTypes
      <4> QED BY <2>4, <2>6, <4>1, RunStays DEF ReasoningInv
    <3>2. CASE q = r
      <4>1. states'[q] = [status |-> "blocked", refs |-> {id}]
        BY <2>1, <2>2, <3>2 DEF ReasoningTypes
      <4>2. id \in DOMAIN proofs'[q] BY <2>3, <3>2
      <4>3. HasReasoned(q)' => ProvenReasoning(q)'
        BY <2>4, <2>6, ProvenStays DEF ReasoningInv, RunOk
      <4>4. PICK s : s = [status |-> "blocked", refs |-> {id}] OBVIOUS
      <4>5. s.status # "completed" /\ s.refs = {id} BY <4>4
      <4> QED BY <4>1, <4>2, <4>3, <4>4, <4>5 DEF RunOk
    <3> QED BY <3>1, <3>2
  <2>8. DOMAIN states' = ThoughtRuns BY <2>1, <2>2 DEF ReasoningTypes
  <2>9. DOMAIN manifests' = ThoughtRuns /\ DOMAIN artifacts' = ThoughtRuns
    BY <1>1, <2>2 DEF ReasoningTypes
  <2>10. "blocked" \in Apart BY DEF Apart
  <2> QED BY <1>1, <2>1, <2>3, <2>4, <2>7, <2>8, <2>9, <2>10, Returns
<1>3. CASE ~Fresh(c, id)
  <2>1. EndCall(c, "raised") /\ UNCHANGED <<proofs, states>> BY <1>3 DEF BlockBefore
  <2>2. UNCHANGED <<manifests, artifacts, proofs, states>> BY <1>1, <2>1
  <2>3. "raised" \in Apart BY DEF Apart
  <2> QED BY <1>1, <2>1, <2>2, <2>3, DiskStays, Returns
<1> QED BY <1>2, <1>3

\* A step of one call in its memory only, or one that is to come.
LEMMA Goes ==
  ASSUME ReasoningInv, NEW c \in Thinkers, NEW t \in AtThought, NEW m,
         thought' = [thought EXCEPT ![c] = t],
         DOMAIN mind' = Thinkers, mind'[c] = m, \A d \in Thinkers \ {c} : mind'[d] = mind[d],
         UNCHANGED <<manifests, artifacts, proofs, states, worldVars>>,
         CallOk(c, t, m)', reasoner' = c, reasoner = c \/ reasoner = Absent
  PROVE  ReasoningInv'
<1>1. inquiry' = inquiry BY DEF worldVars
<1> QED BY <1>1, DiskStays, CallMoves

\* A call that takes the lease holds nothing yet.
LEMMA Enters == ASSUME ReasoningInv, NEW c \in Thinkers, Enter(c) PROVE ReasoningInv'
<1>1. /\ thought[c] = "idle" /\ reasoner = Absent /\ reasoner' = c
      /\ thought' = [thought EXCEPT ![c] = "routing"] /\ mind' = mind
      /\ UNCHANGED <<manifests, artifacts, proofs, states, worldVars>>
  BY DEF Enter, Thinks, Think, diskVars
<1>2. mind[c] = Blank /\ DOMAIN mind = Thinkers BY <1>1, CallIs DEF Early, Apart
<1>3. CallOk(c, "routing", Blank)' BY BlankOk
<1>4. "routing" \in AtThought BY DEF AtThought
<1> QED BY <1>1, <1>2, <1>3, <1>4, Goes

\* A call that finds the lease taken comes back as it came.
LEMMA IsBusy == ASSUME ReasoningInv, NEW c \in Thinkers, Busy(c) PROVE ReasoningInv'
<1>1. /\ thought[c] = "idle" /\ reasoner' = reasoner
      /\ thought' = [thought EXCEPT ![c] = "blocked"] /\ mind' = mind
      /\ UNCHANGED <<manifests, artifacts, proofs, states>> /\ inquiry' = inquiry
  BY DEF Busy, Thinks, Think, diskVars, worldVars
<1>2. mind[c] = Blank /\ DOMAIN mind = Thinkers BY <1>1, CallIs DEF Early, Apart
<1>3. CallOk(c, "blocked", Blank)' BY BlankOk DEF Apart
<1>4. "blocked" \in Apart /\ "blocked" \notin AtThought BY DEF AtThought, Apart, Pondering
<1> QED BY <1>1, <1>2, <1>3, <1>4, DiskStays, CallMoves

\* A call that is routed goes on to choose its Context.
LEMMA Prepares == ASSUME ReasoningInv, NEW c \in Thinkers, PrepareContext(c) PROVE ReasoningInv'
<1>1. /\ thought[c] = "routing" /\ UNCHANGED <<manifests, artifacts, proofs, states, worldVars>>
      /\ inquiry' = inquiry
  BY DEF PrepareContext, Thinks, diskVars, worldVars
<1>2. thought[c] \in AtThought /\ reasoner = c /\ mind[c] = Blank /\ DOMAIN mind = Thinkers
  BY <1>1, CallIs DEF AtThought, Early
<1>3. CASE Activates(inquiry[c].version)
  <2>1. thought' = [thought EXCEPT ![c] = "selecting"] /\ mind' = mind /\ reasoner' = c
    BY <1>2, <1>3 DEF PrepareContext, Think
  <2>2. CallOk(c, "routing", Blank)' BY BlankOk
  <2>3. Activates(inquiry[c].version)' BY <1>1, <1>3 DEF Activates
  <2>4. CallOk(c, "selecting", Blank)'
    BY <2>2, <2>3 DEF CallOk, Defined, Observes, Concludes, Early, Pondering
  <2>5. "selecting" \in AtThought BY DEF AtThought
  <2> QED BY <1>1, <1>2, <2>1, <2>4, <2>5, Goes
<1>4. CASE ~Activates(inquiry[c].version)
  <2>1. EndCall(c, "blocked") BY <1>4 DEF PrepareContext
  <2>2. "blocked" \in Apart BY DEF Apart
  <2> QED BY <1>1, <1>2, <2>1, <2>2, DiskStays, Returns
<1> QED BY <1>3, <1>4

\* A manifest that is kept is added to those of its Run.
LEMMA KeepIs ==
  ASSUME ReasoningInv, NEW c \in Thinkers, NEW view, Keep(c, view),
         UNCHANGED <<artifacts, proofs, states>>
  PROVE  /\ Grown /\ view \in manifests'[RunBy(c)]
         /\ \A r \in ThoughtRuns : RunOk(r)'
         /\ DOMAIN proofs' = ThoughtRuns /\ DOMAIN manifests' = ThoughtRuns
         /\ DOMAIN artifacts' = ThoughtRuns /\ DOMAIN states' = ThoughtRuns
<1>1. RunBy(c) \in ThoughtRuns /\ ReasoningTypes BY CallIs DEF ReasoningInv
<1>2. manifests' = [manifests EXCEPT ![RunBy(c)] = @ \union {view}] BY DEF Keep
<1>3. Grown BY <1>1, <1>2 DEF Grown, ReasoningTypes
<1>4. \A r \in ThoughtRuns : HasReasoned(r)' => HasReasoned(r) BY DEF HasReasoned
<1>5. \A r \in ThoughtRuns : RunOk(r)' BY <1>3, <1>4, RunStays DEF ReasoningInv
<1> QED BY <1>1, <1>2, <1>3, <1>5 DEF ReasoningTypes

\* The first Context a call materializes is that of its own question.
LEMMA Selects == ASSUME ReasoningInv, NEW c \in Thinkers, SelectContext(c) PROVE ReasoningInv'
<1>1. thought[c] = "selecting" /\ UNCHANGED <<worldVars, artifacts>> /\ inquiry' = inquiry
  BY DEF SelectContext, Thinks, worldVars
<1>2. /\ thought[c] \in AtThought /\ reasoner = c /\ mind[c] = Blank /\ DOMAIN mind = Thinkers
      /\ RunBy(c) \in ThoughtRuns
  BY <1>1, CallIs DEF AtThought, Early
<1>9. PICK view : view = Materialized(c, {}) OBVIOUS
<1>3. CASE BlockBefore(c) /\ UNCHANGED manifests BY <1>1, <1>2, <1>3, Blocks
<1>4. CASE Keep(c, view) /\ UNCHANGED <<proofs, states>> /\ EndCall(c, "blocked")
  <2>1. "blocked" \in Apart BY DEF Apart
  <2> QED BY <1>1, <1>2, <1>4, <2>1, KeepIs, Returns
<1>5. CASE /\ Keep(c, view) /\ UNCHANGED <<proofs, states>> /\ Think(c, "handing")
           /\ mind' = [mind EXCEPT ![c].context = view, ![c].first = view] /\ UNCHANGED reasoner
  <2> DEFINE n == [Blank EXCEPT !.context = view, !.first = view]
  <2>1. mind' = [mind EXCEPT ![c] = n] BY <1>2, <1>5
  <2>2. /\ DOMAIN n = MindFields /\ n.outcomes = <<>> /\ n.context = view /\ n.first = view
        /\ ~n.judged
    BY DEF Blank, MindFields
  <2> HIDE DEF n
  <2>9. PICK m : m = n OBVIOUS
  <2>3. DOMAIN mind' = Thinkers /\ mind'[c] = m /\ \A d \in Thinkers \ {c} : mind'[d] = mind[d]
    BY <1>2, <2>1, <2>9
  <2>4. CallOk(c, "handing", m)'
    <3>1. Materialized(c, {})' = view
      BY <1>1, <1>9 DEF Materialized, Given, Facts, Kind
    <3>2. Activates(inquiry[c].version)'
      <4>1. CallOk(c, "selecting", mind[c]) BY <1>1, CallIs
      <4>2. Activates(inquiry[c].version) BY <4>1 DEF CallOk, Defined
      <4> QED BY <1>1, <4>2 DEF Activates
    <3>3. RunBy(c)' = RunBy(c) BY <1>1 DEF RunBy
    <3>4. m.first \in manifests'[RunBy(c)] BY <1>1, <1>5, <2>2, <2>9, KeepIs
    <3>5. Defined(c, "handing", m)'
      BY <2>2, <2>9, <3>1, <3>2, <3>3, <3>4 DEF Defined, Early, Apart
    <3>6. m.outcomes \in Seq(Outcome) /\ DOMAIN m.outcomes = {} /\ Len(m.outcomes) = 0
      <4>1. m.outcomes = <<>> BY <2>2, <2>9
      <4>2. \A q : q = <<>> => q \in Seq(Outcome) /\ DOMAIN q = {} /\ Len(q) = 0 OBVIOUS
      <4> QED BY <4>1, <4>2
    <3>7. Len(Dispatched(Kind(c))') \in 1..2
      <4>1. inquiry[c].kind \in {"world", "graphics", "performance"}
        BY ReasoningConstants, RunTyped DEF ReasoningInv
      <4> QED BY <1>1, <4>1 DEF Kind, Dispatched
    <3>8. Observes(c, "handing", m)' BY <3>6, <3>7 DEF Observes
    <3>9. Concludes(c, "handing", m)' BY <2>2, <2>9 DEF Concludes
    <3> QED BY <2>2, <2>9, <3>5, <3>6, <3>8, <3>9 DEF CallOk
  <2>5. thought' = [thought EXCEPT ![c] = "handing"] /\ reasoner' = c BY <1>2, <1>5 DEF Think
  <2>6. "handing" \in AtThought BY DEF AtThought, Pondering
  <2>7. UNCHANGED <<artifacts, proofs, states>> BY <1>1, <1>5
  <2>8. Keep(c, view) BY <1>5
  <2> QED BY <1>1, <1>2, <2>3, <2>4, <2>5, <2>6, <2>7, <2>8, KeepIs, CallMoves
<1> QED BY <1>3, <1>4, <1>5, <1>9 DEF SelectContext

\* The state of a Run is its last, and its evidence was there.
LEMMA StateKept ==
  ASSUME ReasoningTypes, NEW x \in ThoughtRuns, Grown, \A r \in ThoughtRuns : RunOk(r), NEW s,
         states' = [states EXCEPT ![x] = s], s.refs \subseteq DOMAIN proofs'[x],
         s.status = "completed" => HasReasoned(x)',
         \A r \in ThoughtRuns : HasReasoned(r)' => HasReasoned(r)
  PROVE  DOMAIN states' = ThoughtRuns /\ \A r \in ThoughtRuns : RunOk(r)'
<1>1. DOMAIN states' = ThoughtRuns /\ states'[x] = s BY DEF ReasoningTypes
<1>2. ASSUME NEW r \in ThoughtRuns PROVE RunOk(r)'
  <2>1. CASE r # x
    <3>1. states'[r] = states[r] BY <2>1 DEF ReasoningTypes
    <3> QED BY <3>1, RunStays
  <2>2. CASE r = x
    <3>1. HasReasoned(r)' => ProvenReasoning(r)' BY ProvenStays DEF RunOk
    <3> QED BY <1>1, <2>2, <3>1 DEF RunOk
  <2> QED BY <2>1, <2>2
<1> QED BY <1>1, <1>2

\* A call whose Run begins goes on with the Context it materialized.
LEMMA Starts == ASSUME ReasoningInv, NEW c \in Thinkers, StartRun(c) PROVE ReasoningInv'
<1>1. /\ thought[c] = "handing" /\ thought' = [thought EXCEPT ![c] = "observing"]
      /\ inquiry' = inquiry /\ UNCHANGED <<mind, manifests, artifacts, proofs, reasoner>>
      /\ states' = [states EXCEPT ![RunBy(c)] = [status |-> "running", refs |-> {}]]
  BY DEF StartRun, Thinks, Think, worldVars
<1>2. PICK m : m = mind[c] OBVIOUS
<1>3. CallOk(c, "handing", m) /\ reasoner = c /\ DOMAIN mind = Thinkers
  BY <1>1, <1>2, CallIs DEF AtThought, Pondering
<1>4. Grown /\ \A r \in ThoughtRuns : HasReasoned(r)' <=> HasReasoned(r)
  BY <1>1 DEF Grown, HasReasoned
<1>5. CallOk(c, "observing", m)
  BY <1>3 DEF CallOk, Defined, Observes, Concludes, Early, Apart, Pondering
<1>6. CallOk(c, "observing", m)' BY <1>1, <1>4, <1>5, CallStays DEF ReasoningInv
<1>7. DOMAIN states' = ThoughtRuns /\ \A r \in ThoughtRuns : RunOk(r)'
  <2>1. PICK s : s = [status |-> "running", refs |-> {}] OBVIOUS
  <2>2. s.refs = {} /\ s.status # "completed" BY <2>1
  <2>3. PICK x : x = RunBy(c) OBVIOUS
  <2> QED BY <1>1, <1>4, <2>1, <2>2, <2>3, CallIs, StateKept DEF ReasoningInv
<1>8. "observing" \in AtThought BY DEF AtThought, Pondering
<1> QED BY <1>1, <1>2, <1>3, <1>4, <1>6, <1>7, <1>8, CallMoves DEF ReasoningInv, ReasoningTypes

\* One more result is kept with those there were.
LEMMA ResultKept ==
  ASSUME NEW q \in Seq(Outcome), NEW o \in Outcome
  PROVE  /\ Append(q, o) \in Seq(Outcome) /\ Len(Append(q, o)) = Len(q) + 1
         /\ DOMAIN Append(q, o) = 1..(Len(q) + 1) /\ DOMAIN q = 1..Len(q) /\ Len(q) \in Nat
         /\ Append(q, o)[Len(q) + 1] = o
         /\ \A n \in DOMAIN q : Append(q, o)[n] = q[n]
OBVIOUS

\* An observation is recorded under an identity of its own, as its route dispatches it.
LEMMA ObservesNext ==
  ASSUME ReasoningInv, NEW c \in Thinkers, NEW f, ObserveNext(c, f) PROVE ReasoningInv'
<1>1. /\ thought[c] = "observing" /\ inquiry' = inquiry
      /\ UNCHANGED <<worldVars, manifests, artifacts>>
  BY DEF ObserveNext, Thinks, worldVars
<1>2. PICK m : m = mind[c] OBVIOUS
<1>3. /\ CallOk(c, "observing", m) /\ reasoner = c /\ DOMAIN mind = Thinkers
      /\ thought[c] \in AtThought /\ RunBy(c) \in ThoughtRuns /\ ReasoningTypes
  BY <1>1, <1>2, CallIs DEF AtThought, Pondering, ReasoningInv
<1>4. PICK r : r = RunBy(c) OBVIOUS
<1>5. m.outcomes \in Seq(Outcome) /\ Len(m.outcomes) \in Nat /\ DOMAIN m = MindFields
  BY <1>3 DEF CallOk
<1>6. PICK n : n = Len(m.outcomes) + 1 OBVIOUS
<1>7. /\ n \in 1..2 /\ n <= Len(Dispatched(Kind(c))) /\ Len(Dispatched(Kind(c))) \in 1..2
      /\ Dispatched(Kind(c))[n] \in Replied
  <2>1. inquiry[c].kind \in {"world", "graphics", "performance"}
    BY <1>3, ReasoningConstants, RunTyped
  <2>2. PICK d : d = Dispatched(Kind(c)) OBVIOUS
  <2>3. Len(d) \in 1..2 /\ \A k \in 1..Len(d) : d[k] \in Replied
    <3>1. CASE inquiry[c].kind = "world"
      <4>1. d = <<"project.inspect">> BY <2>2, <3>1 DEF Kind, Dispatched
      <4>2. Len(d) = 1 /\ d[1] = "project.inspect" BY <4>1
      <4> QED BY <4>2 DEF Replied
    <3>2. CASE inquiry[c].kind = "graphics"
      <4>1. d = <<"source.read", "project.inspect">> BY <2>2, <3>2 DEF Kind, Dispatched
      <4>2. Len(d) = 2 /\ d[1] = "source.read" /\ d[2] = "project.inspect" BY <4>1
      <4> QED BY <4>2 DEF Replied
    <3>3. CASE inquiry[c].kind = "performance"
      <4>1. d = <<"project.inspect", "profiler.observe">> BY <2>2, <3>3 DEF Kind, Dispatched
      <4>2. Len(d) = 2 /\ d[1] = "project.inspect" /\ d[2] = "profiler.observe" BY <4>1
      <4> QED BY <4>2 DEF Replied
    <3> QED BY <2>1, <3>1, <3>2, <3>3
  <2>4. Len(m.outcomes) < Len(d) BY <1>3, <2>2 DEF CallOk, Observes
  <2>5. n \in 1..2 /\ n <= Len(d) BY <1>5, <1>6, <2>3, <2>4
  <2>6. n \in 1..Len(d) BY <2>3, <2>5
  <2> QED BY <2>2, <2>3, <2>5, <2>6
<1>8. PICK capability : capability = Dispatched(Kind(c))[n] OBVIOUS
<1>9. capability \in Replied BY <1>7, <1>8
<1>10. PICK id : id = <<IF f.status = "unresolved" THEN "preflight" ELSE "evidence", n>> OBVIOUS
<1>11. PICK o : o = [capability |-> capability, proof |-> id,
                     status |-> IF f.status = "passed" THEN "completed" ELSE "blocked"]
  OBVIOUS
<1>12. id \in {"preflight", "evidence", "reasoning"} \X Nat /\ id # Reasoned
  BY <1>7, <1>10 DEF Reasoned
<1>13. o \in Outcome /\ o.proof = id /\ o.capability = capability
  <2>1. PICK status \in {"completed", "blocked"} :
          status = IF f.status = "passed" THEN "completed" ELSE "blocked"
    OBVIOUS
  <2>2. o = [capability |-> capability, proof |-> id, status |-> status] BY <1>11, <2>1
  <2> QED BY <1>9, <1>12, <2>1, <2>2 DEF Outcome
<1>14. PICK results : results = Append(m.outcomes, o) OBVIOUS
<1>15. CASE f.status = "malformed" \/ ~Fresh(c, id)
  <2>1. EndCall(c, "raised") /\ UNCHANGED <<proofs, states>>
    BY <1>2, <1>6, <1>10, <1>15 DEF ObserveNext
  <2>2. "raised" \in Apart BY DEF Apart
  <2> QED BY <1>1, <1>3, <2>1, <2>2, DiskStays, Returns
<1>16. CASE ~ (f.status = "malformed" \/ ~Fresh(c, id))
  <2>1. PICK proof : proof = IF f.status = "unresolved" THEN Preflight
                             ELSE Normalized(c, capability, f)
    OBVIOUS
  <2>2. /\ Put(c, id, proof) /\ mind' = [mind EXCEPT ![c].outcomes = results]
        /\ states' = [states EXCEPT ![r] = [status |-> "running", refs |-> Refs(results)]]
        /\ IF n < Len(Dispatched(Kind(c))) THEN UNCHANGED thought
           ELSE Think(c, IF AllCompleted(results) THEN "reading" ELSE "finishing")
        /\ reasoner' = reasoner
    BY <1>2, <1>4, <1>6, <1>8, <1>10, <1>11, <1>14, <1>16, <2>1 DEF ObserveNext
  <2>3. Fresh(c, id) BY <1>16
  <2>4. proof.source = "provider" => proof.capability = capability
    BY <2>1 DEF Preflight, Normalized
  <2>5. /\ DOMAIN proofs' = ThoughtRuns /\ DOMAIN proofs'[r] = DOMAIN proofs[r] \union {id}
        /\ proofs'[r][id] = proof
        /\ \A q \in ThoughtRuns : \A i \in DOMAIN proofs[q] :
              i \in DOMAIN proofs'[q] /\ proofs'[q][i] = proofs[q][i]
        /\ \A q \in ThoughtRuns \ {r} : proofs'[q] = proofs[q]
    BY <1>3, <1>4, <2>2, <2>3, PutIs
  <2>6. Grown BY <1>1, <2>5 DEF Grown
  <2>7. \A q \in ThoughtRuns : HasReasoned(q)' <=> HasReasoned(q)
    BY <1>3, <1>4, <1>12, <2>5 DEF HasReasoned
  <2>8. /\ results \in Seq(Outcome) /\ Len(results) = n /\ DOMAIN results = 1..n
        /\ results[n] = o /\ \A k \in DOMAIN m.outcomes : results[k] = m.outcomes[k]
        /\ \A k \in DOMAIN results : k \in DOMAIN m.outcomes \/ k = n
    BY <1>5, <1>6, <1>13, <1>14, ResultKept
  <2>9. PICK h : h = [m EXCEPT !.outcomes = results] OBVIOUS
  <2>10. /\ DOMAIN h = MindFields /\ h.outcomes = results /\ h.context = m.context
         /\ h.first = m.first /\ h.judged = m.judged
    BY <1>5, <2>9 DEF MindFields
  <2>11. DOMAIN mind' = Thinkers /\ mind'[c] = h /\ \A d \in Thinkers \ {c} : mind'[d] = mind[d]
    BY <1>2, <1>3, <2>2, <2>9
  <2>12. \A k \in DOMAIN results : results[k].proof \in DOMAIN proofs'[r]
    BY <1>3, <1>4, <1>13, <2>5, <2>8 DEF CallOk, Observes
  <2>13. DOMAIN states' = ThoughtRuns /\ \A q \in ThoughtRuns : RunOk(q)'
    <3>1. PICK s : s = [status |-> "running", refs |-> Refs(results)] OBVIOUS
    <3>2. s.refs \subseteq DOMAIN proofs'[r] /\ s.status # "completed"
      BY <2>12, <3>1 DEF Refs
    <3>3. states' = [states EXCEPT ![r] = s] BY <2>2, <3>1
    <3> QED BY <1>3, <1>4, <2>6, <2>7, <3>2, <3>3, StateKept DEF ReasoningInv
  <2>14. Kind(c)' = Kind(c) /\ RunBy(c)' = r BY <1>1, <1>4 DEF Kind, RunBy
  <2>15. PICK t : t = thought'[c] OBVIOUS
  <2>16. /\ thought' = [thought EXCEPT ![c] = t]
         /\ \/ t = "observing" /\ n < Len(Dispatched(Kind(c)))
            \/ t = "reading"
            \/ t = "finishing" /\ ~AllCompleted(results)
    <3>1. CASE n < Len(Dispatched(Kind(c)))
      <4>1. t = "observing" /\ thought' = thought BY <1>1, <2>2, <2>15, <3>1
      <4> QED BY <1>1, <1>3, <3>1, <4>1 DEF ReasoningTypes
    <3>2. CASE ~ (n < Len(Dispatched(Kind(c))))
      <4>1. thought' = [thought EXCEPT ![c] = IF AllCompleted(results) THEN "reading"
                                             ELSE "finishing"]
        BY <2>2, <3>2 DEF Think
      <4> QED BY <1>3, <2>15, <4>1 DEF ReasoningTypes
    <3> QED BY <3>1, <3>2
  <2>17. t \in AtThought /\ t \notin Early BY <2>16 DEF AtThought, Pondering, Early, Apart
  <2>18. Defined(c, t, h)'
    <3>1. Defined(c, "observing", m)' BY <1>1, <1>3, <2>6, <2>7, CallStays DEF CallOk
    <3> QED BY <2>10, <2>17, <3>1 DEF Defined, Early, Apart
  <2>19. Observes(c, t, h)'
    <3>1. Observes(c, "observing", m)' BY <1>1, <1>3, <2>6, <2>7, CallStays DEF CallOk
    <3>2. \A k \in DOMAIN m.outcomes : Observation(c, k, m.outcomes[k])'
      BY <3>1 DEF Observes, Pondering
    <3>3. Observation(c, n, o)' BY <1>4, <1>8, <1>13, <2>4, <2>5, <2>14 DEF Observation
    <3>4. \A k \in DOMAIN results : Observation(c, k, results[k])' BY <2>8, <3>2, <3>3
    <3> QED BY <1>7, <2>8, <2>10, <2>12, <2>14, <2>16, <3>4 DEF Observes
  <2>20. Concludes(c, t, h)'
    <3>1. ~m.judged BY <1>3 DEF CallOk, Concludes
    <3> QED BY <2>10, <2>16, <3>1 DEF Concludes
  <2>21. CallOk(c, t, h)' BY <2>8, <2>10, <2>18, <2>19, <2>20 DEF CallOk
  <2>22. DOMAIN manifests' = ThoughtRuns /\ DOMAIN artifacts' = ThoughtRuns
    BY <1>1, <1>3 DEF ReasoningTypes
  <2> QED BY <1>1, <1>3, <2>2, <2>5, <2>6, <2>11, <2>13, <2>16, <2>17, <2>21, <2>22, CallMoves
<1> QED BY <1>15, <1>16

\* A route dispatches nothing twice.
LEMMA DispatchedOnce ==
  ASSUME NEW kind \in {"world", "graphics", "performance"}
  PROVE  /\ \A k, n \in 1..2 : k <= Len(Dispatched(kind)) /\ n <= Len(Dispatched(kind)) /\ k # n =>
              Dispatched(kind)[k] # Dispatched(kind)[n]
         /\ Len(Dispatched(kind)) \in 1..2
<1>1. PICK d : d = Dispatched(kind) OBVIOUS
<1>2. (\A k, n \in 1..2 : k <= Len(d) /\ n <= Len(d) /\ k # n => d[k] # d[n]) /\ Len(d) \in 1..2
  <2>1. CASE kind = "world"
    <3>1. d = <<"project.inspect">> BY <1>1, <2>1 DEF Dispatched
    <3>2. Len(d) = 1 BY <3>1
    <3> QED BY <3>2
  <2>2. CASE kind = "graphics"
    <3>1. d = <<"source.read", "project.inspect">> BY <1>1, <2>2 DEF Dispatched
    <3>2. Len(d) = 2 /\ d[1] = "source.read" /\ d[2] = "project.inspect" BY <3>1
    <3>3. \A k \in 1..2 : k = 1 \/ k = 2 OBVIOUS
    <3> QED BY <3>2, <3>3
  <2>3. CASE kind = "performance"
    <3>1. d = <<"project.inspect", "profiler.observe">> BY <1>1, <2>3 DEF Dispatched
    <3>2. Len(d) = 2 /\ d[1] = "project.inspect" /\ d[2] = "profiler.observe" BY <3>1
    <3>3. \A k \in 1..2 : k = 1 \/ k = 2 OBVIOUS
    <3> QED BY <3>2, <3>3
  <2> QED BY <2>1, <2>2, <2>3
<1> QED BY <1>1, <1>2

\* The observations that are bound are what the profile requires, each of them proven.
LEMMA UsableIs ==
  ASSUME ReasoningInv, NEW c \in Thinkers, thought[c] = "reading", Usable(c),
         NEW view, view = Materialized(c, Items(c)), NEW r, r = RunBy(c)
  PROVE  /\ {i.capability : i \in view.items} = Required(view.given.kind)
         /\ \A i \in view.items :
              /\ Reads(r, i.proof, i.capability) /\ proofs[r][i.proof].payload = i.content
              /\ proofs[r][i.proof].definition = [view EXCEPT !.items = {}]
              /\ i.capability = "project.inspect" => PipelineIn[i.content] \in SupportedPipelines
         /\ view.given.version \in SupportedVersions
<1>1. PICK m : m = mind[c] OBVIOUS
<1>2. PICK kind : kind = Kind(c) OBVIOUS
<1>3. CallOk(c, "reading", m) BY <1>1, CallIs
<1>4. kind \in {"world", "graphics", "performance"}
  BY <1>2, ReasoningConstants, RunTyped DEF ReasoningInv, Kind
<1>5. /\ Activates(inquiry[c].version) /\ m.first = Materialized(c, {})
      /\ m.outcomes \in Seq(Outcome) /\ Len(m.outcomes) <= Len(Dispatched(kind))
      /\ \A n \in DOMAIN m.outcomes : Observation(c, n, m.outcomes[n])
  BY <1>2, <1>3 DEF CallOk, Defined, Observes, Early, Apart, Pondering
<1>6. /\ view.items = Items(c) /\ view.given.kind = kind /\ view.given.version = inquiry[c].version
      /\ [view EXCEPT !.items = {}] = m.first
  <2>1. PICK g : g = Given(c) OBVIOUS
  <2>2. g.kind = kind /\ g.version = inquiry[c].version BY <1>2, <2>1 DEF Given
  <2>3. view = [given |-> g, items |-> Items(c)] /\ m.first = [given |-> g, items |-> {}]
    BY <1>5, <2>1 DEF Materialized
  <2>4. view.items = Items(c) /\ view.given = g BY <2>3
  <2>5. [view EXCEPT !.items = {}] = m.first BY <2>3
  <2> QED BY <2>2, <2>4, <2>5
<1>7. DOMAIN m.outcomes = 1..Len(m.outcomes) /\ Len(m.outcomes) \in Nat
  BY <1>5
<1>8. \A k, n \in DOMAIN m.outcomes : k # n => m.outcomes[k].capability # m.outcomes[n].capability
  <2>1. Len(Dispatched(kind)) \in 1..2 BY <1>4, DispatchedOnce
  <2>2. \A k \in DOMAIN m.outcomes :
          /\ k \in 1..2 /\ k <= Len(Dispatched(kind))
          /\ m.outcomes[k].capability = Dispatched(kind)[k]
    BY <1>2, <1>5, <1>7, <2>1 DEF Observation
  <2> QED BY <1>4, <2>2, DispatchedOnce
<1>9. ASSUME NEW capability \in Required(kind)
      PROVE  \E n \in DOMAIN m.outcomes :
               /\ m.outcomes[n].capability = capability
               /\ Reads(r, m.outcomes[n].proof, capability)
               /\ proofs[r][m.outcomes[n].proof].definition = m.first
  <2>1. PICK n \in DOMAIN m.outcomes :
          /\ Reads(r, m.outcomes[n].proof, capability)
          /\ proofs[r][m.outcomes[n].proof].definition = m.first
    BY <1>1, <1>2 DEF Usable
  <2>2. m.outcomes[n].capability = capability BY <1>5, <2>1 DEF Reads, Observation
  <2> QED BY <2>1, <2>2
<1>10. Items(c) = {[proof |-> m.outcomes[n].proof, capability |-> m.outcomes[n].capability,
                    content |-> proofs[r][m.outcomes[n].proof].payload] :
                      n \in {k \in DOMAIN m.outcomes : m.outcomes[k].capability \in Required(kind)}}
  BY <1>1, <1>2 DEF Items
<1>11. ASSUME NEW i \in view.items
       PROVE  \E n \in DOMAIN m.outcomes :
                /\ m.outcomes[n].capability \in Required(kind)
                /\ i.proof = m.outcomes[n].proof /\ i.capability = m.outcomes[n].capability
                /\ i.content = proofs[r][m.outcomes[n].proof].payload
  <2>1. PICK n \in {k \in DOMAIN m.outcomes : m.outcomes[k].capability \in Required(kind)} :
          i = [proof |-> m.outcomes[n].proof, capability |-> m.outcomes[n].capability,
               content |-> proofs[r][m.outcomes[n].proof].payload]
    <3>1. i \in Items(c) BY <1>6
    <3> QED BY <1>10, <3>1, Zenon
  <2> QED BY <2>1
<1>12. ASSUME NEW i \in view.items
       PROVE  /\ i.capability \in Required(kind)
              /\ Reads(r, i.proof, i.capability) /\ proofs[r][i.proof].payload = i.content
              /\ proofs[r][i.proof].definition = m.first
  <2>1. PICK n \in DOMAIN m.outcomes :
          /\ m.outcomes[n].capability \in Required(kind)
          /\ i.proof = m.outcomes[n].proof /\ i.capability = m.outcomes[n].capability
          /\ i.content = proofs[r][m.outcomes[n].proof].payload
    BY <1>11
  <2>2. PICK k \in DOMAIN m.outcomes :
          /\ m.outcomes[k].capability = i.capability
          /\ Reads(r, m.outcomes[k].proof, i.capability)
          /\ proofs[r][m.outcomes[k].proof].definition = m.first
    BY <1>9, <2>1
  <2>3. k = n BY <1>8, <2>1, <2>2
  <2> QED BY <2>1, <2>2, <2>3
<1>13. Required(kind) \subseteq {i.capability : i \in view.items}
  <2> SUFFICES ASSUME NEW capability \in Required(kind)
               PROVE  \E i \in view.items : i.capability = capability
    OBVIOUS
  <2>1. PICK n \in DOMAIN m.outcomes : m.outcomes[n].capability = capability BY <1>9
  <2>2. PICK i : i = [proof |-> m.outcomes[n].proof, capability |-> m.outcomes[n].capability,
                      content |-> proofs[r][m.outcomes[n].proof].payload]
    OBVIOUS
  <2>3. i.capability = capability /\ i \in view.items BY <1>6, <1>10, <2>1, <2>2
  <2> QED BY <2>3
<1>14. {i.capability : i \in view.items} = Required(kind) BY <1>12, <1>13
<1>15. ASSUME NEW i \in view.items, i.capability = "project.inspect"
       PROVE  PipelineIn[i.content] \in SupportedPipelines
  <2>1. kind = "graphics" BY <1>4, <1>12, <1>15 DEF Required
  <2>2. SelectsOn(c, Items(c)) BY DEF Usable
  <2> QED BY <1>2, <1>6, <1>15, <2>1, <2>2 DEF SelectsOn
<1>16. view.given.version \in SupportedVersions BY <1>5, <1>6 DEF Activates
<1> QED BY <1>6, <1>12, <1>14, <1>15, <1>16

\* A Context bound to what was observed names exactly those verified observations.
LEMMA BindsSeen == ASSUME ReasoningInv, NEW c \in Thinkers, BindObserved(c) PROVE ReasoningInv'
<1>1. /\ thought[c] = "reading" /\ Usable(c) /\ inquiry' = inquiry /\ reasoner' = reasoner
      /\ UNCHANGED <<artifacts, proofs, states, worldVars>>
  BY DEF BindObserved, Thinks, worldVars
<1>2. PICK m : m = mind[c] OBVIOUS
<1>3. /\ CallOk(c, "reading", m) /\ reasoner = c /\ DOMAIN mind = Thinkers
      /\ RunBy(c) \in ThoughtRuns /\ ReasoningTypes
  BY <1>1, <1>2, CallIs DEF AtThought, Pondering, ReasoningInv
<1>4. PICK r : r = RunBy(c) OBVIOUS
<1>5. PICK view : view = Materialized(c, Items(c)) OBVIOUS
<1>6. CASE UNCHANGED <<mind, manifests>> /\ Think(c, "recording")
  <2>1. CallOk(c, "recording", m)
    BY <1>3 DEF CallOk, Defined, Observes, Concludes, Early, Apart, Pondering
  <2>2. CallOk(c, "recording", m)'
    BY <1>1, <1>6, <2>1, DiskStays, CallStays DEF ReasoningInv
  <2>3. "recording" \in AtThought BY DEF AtThought, Pondering
  <2> QED BY <1>1, <1>2, <1>3, <1>6, <2>2, <2>3, Goes DEF Think
<1>7. CASE /\ Keep(c, view) /\ mind' = [mind EXCEPT ![c].context = view]
           /\ Think(c, "starting")
  <2>1. PICK h : h = [m EXCEPT !.context = view] OBVIOUS
  <2>2. /\ DOMAIN h = MindFields /\ h.outcomes = m.outcomes /\ h.context = view
        /\ h.first = m.first /\ h.judged = m.judged
    BY <1>3, <2>1 DEF CallOk, MindFields
  <2>3. DOMAIN mind' = Thinkers /\ mind'[c] = h /\ \A d \in Thinkers \ {c} : mind'[d] = mind[d]
    BY <1>2, <1>3, <1>7, <2>1
  <2>4. /\ Grown /\ view \in manifests'[RunBy(c)] /\ \A q \in ThoughtRuns : RunOk(q)'
        /\ DOMAIN proofs' = ThoughtRuns /\ DOMAIN manifests' = ThoughtRuns
        /\ DOMAIN artifacts' = ThoughtRuns /\ DOMAIN states' = ThoughtRuns
    BY <1>1, <1>7, KeepIs
  <2>5. ViewOk(r, view)'
    <3>1. /\ {i.capability : i \in view.items} = Required(view.given.kind)
          /\ \A i \in view.items :
               /\ Reads(r, i.proof, i.capability) /\ proofs[r][i.proof].payload = i.content
               /\ proofs[r][i.proof].definition = [view EXCEPT !.items = {}]
               /\ i.capability = "project.inspect" => PipelineIn[i.content] \in SupportedPipelines
          /\ view.given.version \in SupportedVersions
      BY <1>1, <1>4, <1>5, UsableIs
    <3>2. \A i \in view.items : Reads(r, i.proof, i.capability)' BY <1>1, <3>1 DEF Reads
    <3>3. view \in manifests'[r] BY <1>4, <2>4
    <3> QED BY <1>1, <3>1, <3>2, <3>3 DEF ViewOk
  <2>6. CallOk(c, "reading", m)'
    <3>1. \A q \in ThoughtRuns : HasReasoned(q) => HasReasoned(q)' BY <1>1 DEF HasReasoned
    <3> QED BY <1>1, <1>3, <2>4, <3>1, CallStays
  <2>7. RunBy(c)' = r BY <1>1, <1>4 DEF RunBy
  <2>8. CallOk(c, "starting", h)'
    <3>1. Defined(c, "starting", h)' BY <2>2, <2>6 DEF CallOk, Defined, Early, Apart
    <3>2. Observes(c, "starting", h)' BY <2>2, <2>6 DEF CallOk, Observes, Pondering
    <3>3. Concludes(c, "starting", h)' BY <2>2, <2>5, <2>6, <2>7 DEF CallOk, Concludes
    <3> QED BY <2>2, <2>6, <3>1, <3>2, <3>3 DEF CallOk
  <2>9. "starting" \in AtThought BY DEF AtThought, Pondering
  <2>10. thought' = [thought EXCEPT ![c] = "starting"] BY <1>7 DEF Think
  <2> QED BY <1>1, <1>3, <2>3, <2>4, <2>8, <2>9, <2>10, CallMoves
<1> QED BY <1>1, <1>5, <1>6, <1>7 DEF BindObserved

\* A step that changes nothing but where the call is.
LEMMA Onward ==
  ASSUME ReasoningInv, NEW c \in Thinkers, thought[c] \in AtThought, NEW t \in AtThought,
         thought' = [thought EXCEPT ![c] = t], mind' = mind, reasoner' = reasoner,
         UNCHANGED <<manifests, artifacts, proofs, states, worldVars>>,
         CallOk(c, t, mind[c])
  PROVE  ReasoningInv'
<1>1. PICK m : m = mind[c] OBVIOUS
<1>2. inquiry' = inquiry BY DEF worldVars
<1>3. reasoner = c /\ DOMAIN mind = Thinkers BY CallIs
<1>4. CallOk(c, t, m)' BY <1>1, <1>2, DiskStays, CallStays DEF ReasoningInv
<1> QED BY <1>1, <1>3, <1>4, Goes

\* A call whose observations may not be used never reasons.
LEMMA Unbinds == ASSUME ReasoningInv, NEW c \in Thinkers, Unbound(c) PROVE ReasoningInv'
<1>1. /\ thought[c] = "reading" /\ mind' = mind /\ reasoner' = reasoner
      /\ thought' = [thought EXCEPT ![c] = "recording"]
      /\ UNCHANGED <<manifests, artifacts, proofs, states, worldVars>>
  BY DEF Unbound, Thinks, Think, diskVars
<1>2. CallOk(c, "reading", mind[c]) BY <1>1, CallIs
<1>3. CallOk(c, "recording", mind[c])
  BY <1>2 DEF CallOk, Defined, Observes, Concludes, Early, Apart, Pondering
<1>4. "reading" \in AtThought /\ "recording" \in AtThought BY DEF AtThought, Pondering
<1> QED BY <1>1, <1>3, <1>4, Onward

\* A call whose profile requires no observation reasons on its first Context.
LEMMA BindsBefore == ASSUME ReasoningInv, NEW c \in Thinkers, BoundBefore(c) PROVE ReasoningInv'
<1>1. /\ thought[c] = "reading" /\ mind' = mind /\ reasoner' = reasoner
      /\ thought' = [thought EXCEPT ![c] = "starting"] /\ Required(Kind(c)) = {}
      /\ UNCHANGED <<manifests, artifacts, proofs, states, worldVars>>
  BY DEF BoundBefore, Thinks, Think, diskVars
<1>2. PICK m : m = mind[c] OBVIOUS
<1>3. CallOk(c, "reading", m) BY <1>1, <1>2, CallIs
<1>4. /\ m.context = Materialized(c, {}) /\ m.context \in manifests[RunBy(c)] /\ ~m.judged
      /\ Activates(inquiry[c].version)
  BY <1>3 DEF CallOk, Defined, Concludes, Early, Apart
<1>5. ViewOk(RunBy(c), m.context)
  <2>1. /\ m.context.items = {} /\ m.context.given.kind = Kind(c)
        /\ m.context.given.version = inquiry[c].version
    BY <1>4 DEF Materialized, Given
  <2> QED BY <1>1, <1>4, <2>1 DEF ViewOk, Activates
<1>6. CallOk(c, "starting", m)
  BY <1>3, <1>5 DEF CallOk, Defined, Observes, Concludes, Early, Apart, Pondering
<1>7. "reading" \in AtThought /\ "starting" \in AtThought BY DEF AtThought, Pondering
<1> QED BY <1>1, <1>2, <1>6, <1>7, Onward

\* What the model is started on is the Context that may be reasoned on.
LEMMA StartsModel == ASSUME ReasoningInv, NEW c \in Thinkers, StartModel(c) PROVE ReasoningInv'
<1>1. /\ thought[c] = "starting" /\ reasoner' = reasoner
      /\ UNCHANGED <<manifests, artifacts, proofs, states, worldVars>> /\ inquiry' = inquiry
  BY DEF StartModel, Thinks, diskVars, worldVars
<1>2. PICK m : m = mind[c] OBVIOUS
<1>3. CallOk(c, "starting", m) /\ reasoner = c /\ DOMAIN mind = Thinkers
  BY <1>1, <1>2, CallIs DEF AtThought, Pondering
<1>4. {"starting", "thinking", "recording"} \subseteq AtThought BY DEF AtThought, Pondering
<1>5. CASE inquiry[c].model
  <2>1. thought' = [thought EXCEPT ![c] = "thinking"]
        /\ mind' = [mind EXCEPT ![c].started = contents]
    BY <1>5 DEF StartModel, Think
  <2>2. PICK h : h = [m EXCEPT !.started = contents] OBVIOUS
  <2>3. /\ DOMAIN h = MindFields /\ h.outcomes = m.outcomes /\ h.context = m.context
        /\ h.first = m.first /\ h.judged = m.judged
    BY <1>3, <2>2 DEF CallOk, MindFields
  <2>4. DOMAIN mind' = Thinkers /\ mind'[c] = h /\ \A d \in Thinkers \ {c} : mind'[d] = mind[d]
    BY <1>2, <1>3, <2>1, <2>2
  <2>5. CallOk(c, "thinking", h)
    BY <1>3, <2>3 DEF CallOk, Defined, Observes, Concludes, Early, Apart, Pondering
  <2>6. CallOk(c, "thinking", h)' BY <1>1, <2>5, DiskStays, CallStays DEF ReasoningInv
  <2> QED BY <1>1, <1>3, <1>4, <2>1, <2>4, <2>6, Goes
<1>6. CASE ~inquiry[c].model
  <2>1. thought' = [thought EXCEPT ![c] = "recording"] /\ mind' = mind
    BY <1>6 DEF StartModel, Think
  <2>2. CallOk(c, "recording", m)
    BY <1>3 DEF CallOk, Defined, Observes, Concludes, Early, Apart, Pondering
  <2> QED BY <1>1, <1>2, <1>4, <2>1, <2>2, Onward
<1> QED BY <1>5, <1>6

\* An answer is judged only when the Project stayed as it was.
LEMMA EndsModel == ASSUME ReasoningInv, NEW c \in Thinkers, EndModel(c) PROVE ReasoningInv'
<1>1. /\ thought[c] = "thinking" /\ reasoner' = reasoner
      /\ thought' = [thought EXCEPT ![c] = "verifying"]
      /\ UNCHANGED <<manifests, artifacts, proofs, states, worldVars>> /\ inquiry' = inquiry
  BY DEF EndModel, Thinks, Think, diskVars, worldVars
<1>2. PICK m : m = mind[c] OBVIOUS
<1>3. CallOk(c, "thinking", m) /\ reasoner = c /\ DOMAIN mind = Thinkers
  BY <1>1, <1>2, CallIs DEF AtThought, Pondering
<1>4. PICK reply : mind' = [mind EXCEPT ![c].answer = reply, ![c].ended = contents,
                             ![c].judged = reply # Absent /\ contents = mind[c].started]
  BY DEF EndModel
<1>5. PICK now : now = contents OBVIOUS
<1>6. PICK judged \in BOOLEAN : judged = (reply # Absent /\ now = m.started) OBVIOUS
<1>7. PICK h : h = [m EXCEPT !.answer = reply, !.ended = now, !.judged = judged] OBVIOUS
<1>8. /\ DOMAIN h = MindFields /\ h.outcomes = m.outcomes /\ h.context = m.context
      /\ h.first = m.first /\ h.started = m.started /\ h.ended = now /\ h.judged = judged
  BY <1>3, <1>7 DEF CallOk, MindFields
<1>9. DOMAIN mind' = Thinkers /\ mind'[c] = h /\ \A d \in Thinkers \ {c} : mind'[d] = mind[d]
  BY <1>2, <1>3, <1>4, <1>5, <1>6, <1>7
<1>10. h.judged => h.started = h.ended BY <1>6, <1>8
<1>11. CallOk(c, "verifying", h)
  BY <1>3, <1>8, <1>10 DEF CallOk, Defined, Observes, Concludes, Early, Apart, Pondering
<1>12. CallOk(c, "verifying", h)' BY <1>1, <1>11, DiskStays, CallStays DEF ReasoningInv
<1>13. "verifying" \in AtThought BY DEF AtThought, Pondering
<1> QED BY <1>1, <1>3, <1>9, <1>12, <1>13, Goes

\* An answer that convinces is kept before it is recorded.
LEMMA VerifiesAnswer ==
  ASSUME ReasoningInv, NEW c \in Thinkers, VerifyAnswer(c) PROVE ReasoningInv'
<1>1. /\ thought[c] = "verifying" /\ reasoner' = reasoner
      /\ thought' = [thought EXCEPT ![c] = "recording"]
      /\ UNCHANGED <<manifests, proofs, states>> /\ inquiry' = inquiry
  BY DEF VerifyAnswer, Thinks, Think, worldVars
<1>2. PICK m : m = mind[c] OBVIOUS
<1>3. /\ CallOk(c, "verifying", m) /\ reasoner = c /\ DOMAIN mind = Thinkers
      /\ RunBy(c) \in ThoughtRuns /\ ReasoningTypes
  BY <1>1, <1>2, CallIs DEF AtThought, Pondering, ReasoningInv
<1>4. PICK r : r = RunBy(c) OBVIOUS
<1>5. PICK passes \in BOOLEAN : passes = (mind[c].judged /\ RunBy(c) \notin outputs /\ Convinces(c))
  OBVIOUS
<1>6. /\ mind' = [mind EXCEPT ![c].judged = passes]
      /\ artifacts' = IF passes THEN [artifacts EXCEPT ![r] = @ \union {m.answer}] ELSE artifacts
  BY <1>2, <1>4, <1>5 DEF VerifyAnswer
<1>7. PICK h : h = [m EXCEPT !.judged = passes] OBVIOUS
<1>8. /\ DOMAIN h = MindFields /\ h.outcomes = m.outcomes /\ h.context = m.context
      /\ h.first = m.first /\ h.started = m.started /\ h.ended = m.ended /\ h.judged = passes
      /\ h.answer = m.answer
  BY <1>3, <1>7 DEF CallOk, MindFields
<1>9. DOMAIN mind' = Thinkers /\ mind'[c] = h /\ \A d \in Thinkers \ {c} : mind'[d] = mind[d]
  BY <1>2, <1>3, <1>6, <1>7
<1>10. /\ DOMAIN artifacts' = ThoughtRuns /\ (passes => m.answer \in artifacts'[r])
       /\ \A q \in ThoughtRuns : artifacts[q] \subseteq artifacts'[q]
  BY <1>3, <1>4, <1>6 DEF ReasoningTypes
<1>11. Grown BY <1>1, <1>10 DEF Grown
<1>12. \A q \in ThoughtRuns : HasReasoned(q)' <=> HasReasoned(q) BY <1>1 DEF HasReasoned
<1>13. \A q \in ThoughtRuns : RunOk(q)' BY <1>1, <1>11, <1>12, RunStays DEF ReasoningInv
<1>14. CallOk(c, "verifying", m)' BY <1>1, <1>3, <1>11, <1>12, CallStays
<1>15. passes => m.judged /\ m.answer.names = m.context /\ m.answer.kept
  BY <1>2, <1>5 DEF Convinces, BindsContext
<1>16. CallOk(c, "recording", h)'
  <2>1. Defined(c, "recording", h)' BY <1>8, <1>14 DEF CallOk, Defined, Early, Apart
  <2>2. Observes(c, "recording", h)' BY <1>8, <1>14 DEF CallOk, Observes, Pondering
  <2>3. RunBy(c)' = r BY <1>1, <1>4 DEF RunBy
  <2>4. PICK v : v = h.context OBVIOUS
  <2>5. ViewOk(r, v)' BY <1>8, <1>14, <2>3, <2>4 DEF CallOk, Concludes
  <2>6. h.judged => h.started = h.ended BY <1>8, <1>14, <1>15 DEF CallOk, Concludes
  <2>7. Concludes(c, "recording", h)'
    BY <1>8, <1>10, <1>15, <2>3, <2>4, <2>5, <2>6 DEF Concludes
  <2> QED BY <1>8, <1>14, <2>1, <2>2, <2>7 DEF CallOk
<1>17. "recording" \in AtThought BY DEF AtThought, Pondering
<1>18. /\ DOMAIN proofs' = ThoughtRuns /\ DOMAIN manifests' = ThoughtRuns
       /\ DOMAIN states' = ThoughtRuns
  BY <1>1, <1>3 DEF ReasoningTypes
<1> QED BY <1>1, <1>3, <1>9, <1>10, <1>11, <1>13, <1>16, <1>17, <1>18, CallMoves

\* A reasoning is recorded only of an answer that was kept.
LEMMA Records == ASSUME ReasoningInv, NEW c \in Thinkers, RecordReasoning(c) PROVE ReasoningInv'
<1>1. /\ thought[c] = "recording" /\ inquiry' = inquiry
      /\ UNCHANGED <<worldVars, manifests, artifacts, states>>
  BY DEF RecordReasoning, Thinks, worldVars
<1>2. PICK m : m = mind[c] OBVIOUS
<1>3. /\ CallOk(c, "recording", m) /\ reasoner = c /\ DOMAIN mind = Thinkers
      /\ thought[c] \in AtThought /\ RunBy(c) \in ThoughtRuns /\ ReasoningTypes
  BY <1>1, <1>2, CallIs DEF AtThought, Pondering, ReasoningInv
<1>4. PICK r : r = RunBy(c) OBVIOUS
<1>5. CASE Fresh(c, Reasoned)
  <2>1. PICK proof : proof =
          [source |-> "reasoning", status |-> IF mind[c].judged THEN "passed" ELSE "failed",
           definition |-> mind[c].context,
           artifact |-> IF mind[c].judged THEN mind[c].answer ELSE Absent,
           started |-> mind[c].started, ended |-> mind[c].ended]
    OBVIOUS
  <2>2. PICK o : o = [capability |-> Kind(c), proof |-> Reasoned,
                      status |-> IF mind[c].judged THEN "completed" ELSE "blocked"]
    OBVIOUS
  <2>3. /\ Put(c, Reasoned, proof) /\ thought' = [thought EXCEPT ![c] = "finishing"]
        /\ reasoner' = reasoner
        /\ mind' = [mind EXCEPT ![c].outcomes = Append(@, o)]
    BY <1>5, <2>1, <2>2 DEF RecordReasoning, Think
  <2>4. /\ m.judged => proof.status = "passed" /\ proof.artifact = m.answer
        /\ ~m.judged => proof.status # "passed"
        /\ proof.definition = m.context /\ proof.started = m.started /\ proof.ended = m.ended
    BY <1>2, <2>1
  <2>5. /\ DOMAIN proofs' = ThoughtRuns
        /\ DOMAIN proofs'[r] = DOMAIN proofs[r] \union {Reasoned}
        /\ proofs'[r][Reasoned] = proof
        /\ \A q \in ThoughtRuns : \A i \in DOMAIN proofs[q] :
              i \in DOMAIN proofs'[q] /\ proofs'[q][i] = proofs[q][i]
        /\ \A q \in ThoughtRuns \ {r} : proofs'[q] = proofs[q]
    BY <1>3, <1>4, <1>5, <2>3, PutIs
  <2>6. Grown BY <1>1, <2>5 DEF Grown
  <2>7. /\ \A q \in ThoughtRuns : HasReasoned(q) => HasReasoned(q)'
        /\ \A q \in ThoughtRuns \ {r} : HasReasoned(q)' => HasReasoned(q)
        /\ HasReasoned(r)' <=> m.judged
    BY <1>4, <2>4, <2>5 DEF HasReasoned
  <2>8. CallOk(c, "recording", m)' BY <1>1, <1>3, <2>6, <2>7, CallStays
  <2>9. RunBy(c)' = r /\ Kind(c)' = Kind(c) BY <1>1, <1>4 DEF RunBy, Kind
  <2>10. m.judged => ProvenReasoning(r)'
    <3>1. SUFFICES ASSUME m.judged PROVE ProvenReasoning(r)' OBVIOUS
    <3>2. PICK v : v = m.context OBVIOUS
    <3>3. /\ ViewOk(r, v)' /\ m.started = m.ended
          /\ m.answer \in artifacts'[r] /\ m.answer.names = v /\ m.answer.kept
      BY <2>8, <2>9, <3>1, <3>2 DEF CallOk, Concludes
    <3>4. /\ proof.definition = v /\ proof.artifact \in artifacts'[r] /\ proof.artifact.names = v
          /\ proof.artifact.kept /\ proof.started = proof.ended
      BY <2>4, <3>1, <3>2, <3>3
    <3>5. proofs'[r][Reasoned] = proof BY <2>5
    <3>6. /\ v \in manifests'[r] /\ {i.capability : i \in v.items} = Required(v.given.kind)
          /\ \A i \in v.items :
               /\ Reads(r, i.proof, i.capability)' /\ proofs'[r][i.proof].payload = i.content
               /\ proofs'[r][i.proof].definition = [v EXCEPT !.items = {}]
               /\ i.capability = "project.inspect" => PipelineIn[i.content] \in SupportedPipelines
          /\ v.given.version \in SupportedVersions
      BY <3>3 DEF ViewOk
    <3> QED BY <3>4, <3>5, <3>6 DEF ProvenReasoning
  <2>11. ASSUME NEW q \in ThoughtRuns PROVE RunOk(q)'
    <3>1. CASE q # r BY <1>1, <2>6, <2>7, <3>1, RunStays DEF ReasoningInv
    <3>2. CASE q = r
      <4>1. RunOk(q) /\ states' = states BY <1>1 DEF ReasoningInv
      <4>2. PICK s : s = states[q] OBVIOUS
      <4>3. s # Absent => /\ s.refs \subseteq DOMAIN proofs'[q]
                          /\ s.status = "completed" => HasReasoned(q)'
        BY <2>5, <2>7, <4>1, <4>2 DEF RunOk
      <4>4. HasReasoned(q)' => ProvenReasoning(q)' BY <2>7, <2>10, <3>2
      <4> QED BY <4>1, <4>2, <4>3, <4>4 DEF RunOk
    <3> QED BY <3>1, <3>2
  <2>12. o \in Outcome /\ o.proof = Reasoned /\ (o.status = "completed" <=> m.judged)
    <3>1. Kind(c) \in Replied
      BY <1>3, ReasoningConstants, RunTyped DEF Kind, Replied
    <3>2. PICK status \in {"completed", "blocked"} :
            status = IF mind[c].judged THEN "completed" ELSE "blocked"
      OBVIOUS
    <3>3. o = [capability |-> Kind(c), proof |-> Reasoned, status |-> status] BY <2>2, <3>2
    <3>4. Reasoned \in {"preflight", "evidence", "reasoning"} \X Nat BY DEF Reasoned
    <3>5. o \in Outcome BY <3>1, <3>3, <3>4 DEF Outcome
    <3>6. o.proof = Reasoned /\ o.status = status BY <3>3
    <3> QED BY <1>2, <3>2, <3>5, <3>6
  <2>13. PICK results : results = Append(m.outcomes, o) OBVIOUS
  <2>14. /\ results \in Seq(Outcome) /\ \A n \in DOMAIN results :
                n \in DOMAIN m.outcomes \/ n = Len(m.outcomes) + 1
         /\ results[Len(m.outcomes) + 1] = o /\ Len(m.outcomes) + 1 \in DOMAIN results
         /\ \A n \in DOMAIN m.outcomes : results[n] = m.outcomes[n]
    <3>1. m.outcomes \in Seq(Outcome) BY <1>3 DEF CallOk
    <3> QED BY <2>12, <2>13, <3>1, ResultKept
  <2>15. PICK h : h = [m EXCEPT !.outcomes = results] OBVIOUS
  <2>16. /\ DOMAIN h = MindFields /\ h.outcomes = results /\ h.first = m.first
    BY <1>3, <2>15 DEF CallOk, MindFields
  <2>17. DOMAIN mind' = Thinkers /\ mind'[c] = h /\ \A d \in Thinkers \ {c} : mind'[d] = mind[d]
    BY <1>2, <1>3, <2>3, <2>13, <2>15
  <2>18. CallOk(c, "finishing", h)'
    <3>1. Defined(c, "finishing", h)' BY <2>8, <2>16 DEF CallOk, Defined, Early, Apart
    <3>2. \A n \in DOMAIN results : results[n].proof \in DOMAIN proofs'[r]
      <4>1. \A n \in DOMAIN m.outcomes : m.outcomes[n].proof \in DOMAIN proofs'[r]
        BY <2>8, <2>9 DEF CallOk, Observes
      <4> QED BY <2>5, <2>12, <2>14, <4>1
    <3>3. Observes(c, "finishing", h)' BY <2>9, <2>16, <3>2 DEF Observes, Pondering
    <3>4. AllCompleted(results) => m.judged BY <2>12, <2>14 DEF AllCompleted
    <3>5. Concludes(c, "finishing", h)' BY <2>7, <2>9, <2>16, <3>4 DEF Concludes
    <3> QED BY <2>14, <2>16, <3>1, <3>3, <3>5 DEF CallOk
  <2>19. "finishing" \in AtThought BY DEF AtThought
  <2>20. DOMAIN manifests' = ThoughtRuns /\ DOMAIN artifacts' = ThoughtRuns
         /\ DOMAIN states' = ThoughtRuns
    BY <1>1, <1>3 DEF ReasoningTypes
  <2> QED BY <1>1, <1>3, <2>3, <2>5, <2>6, <2>11, <2>17, <2>18, <2>19, <2>20, CallMoves
<1>6. CASE ~Fresh(c, Reasoned)
  <2>1. EndCall(c, "raised") /\ UNCHANGED proofs BY <1>6 DEF RecordReasoning
  <2>2. "raised" \in Apart BY DEF Apart
  <2> QED BY <1>1, <1>3, <2>1, <2>2, DiskStays, Returns
<1> QED BY <1>5, <1>6

\* A Run is completed only once its reasoning is recorded.
LEMMA Finishes == ASSUME ReasoningInv, NEW c \in Thinkers, Finish(c) PROVE ReasoningInv'
<1>1. /\ thought[c] = "finishing" /\ inquiry' = inquiry /\ EndCall(c, "done")
      /\ UNCHANGED <<manifests, artifacts, proofs>>
  BY DEF Finish, Thinks, worldVars
<1>2. PICK m : m = mind[c] OBVIOUS
<1>3. /\ CallOk(c, "finishing", m) /\ thought[c] \in AtThought /\ RunBy(c) \in ThoughtRuns
      /\ ReasoningTypes
  BY <1>1, <1>2, CallIs DEF AtThought, ReasoningInv
<1>4. PICK r : r = RunBy(c) OBVIOUS
<1>5. PICK s : s = [status |-> IF AllCompleted(m.outcomes) THEN "completed" ELSE "blocked",
                    refs |-> Refs(m.outcomes)]
  OBVIOUS
<1>6. states' = [states EXCEPT ![r] = s] BY <1>2, <1>4, <1>5 DEF Finish
<1>7. Grown /\ \A q \in ThoughtRuns : HasReasoned(q)' <=> HasReasoned(q)
  BY <1>1 DEF Grown, HasReasoned
<1>8. s.refs \subseteq DOMAIN proofs'[r]
  BY <1>1, <1>3, <1>4, <1>5 DEF Refs, CallOk, Observes
<1>9. s.status = "completed" => HasReasoned(r)'
  <2>1. s.status = "completed" => AllCompleted(m.outcomes) BY <1>5
  <2> QED BY <1>3, <1>4, <1>7, <2>1 DEF CallOk, Concludes
<1>10. DOMAIN states' = ThoughtRuns /\ \A q \in ThoughtRuns : RunOk(q)'
  BY <1>3, <1>4, <1>6, <1>7, <1>8, <1>9, StateKept DEF ReasoningInv
<1>11. "done" \in Apart BY DEF Apart
<1>12. /\ DOMAIN proofs' = ThoughtRuns /\ DOMAIN manifests' = ThoughtRuns
       /\ DOMAIN artifacts' = ThoughtRuns
  BY <1>1, <1>3 DEF ReasoningTypes
<1> QED BY <1>1, <1>3, <1>7, <1>10, <1>11, <1>12, Returns

\* A call that dies leaves its Run as it was recorded.
LEMMA Loses == ASSUME ReasoningInv, NEW c \in Thinkers, Lose(c) PROVE ReasoningInv'
<1>1. /\ reasoner = c /\ reasoner' = c /\ thought' = [thought EXCEPT ![c] = "lost"]
      /\ mind' = [mind EXCEPT ![c] = Blank] /\ inquiry' = inquiry
      /\ UNCHANGED <<manifests, artifacts, proofs, states>>
  BY DEF Lose, Think, diskVars
<1>2. DOMAIN mind = Thinkers BY CallIs
<1>3. DOMAIN mind' = Thinkers /\ mind'[c] = Blank /\ \A d \in Thinkers \ {c} : mind'[d] = mind[d]
  BY <1>1, <1>2
<1>4. "lost" \in Apart BY DEF Apart
<1>5. CallOk(c, "lost", Blank)' BY <1>4, BlankOk
<1> QED BY <1>1, <1>3, <1>4, <1>5, DiskStays, CallMoves

\* Nothing of a call moves.
LEMMA CallsStay ==
  ASSUME ReasoningInv, UNCHANGED <<inquiry, thought, mind, manifests, artifacts, proofs, states>>,
         \A c \in Thinkers : thought[c] \in AtThought => reasoner' = c
  PROVE  ReasoningInv'
<1>1. ReasoningTypes' BY DEF ReasoningInv, ReasoningTypes
<1>2. ASSUME NEW c \in Thinkers, NEW t, NEW m, t = thought'[c], m = mind'[c] PROVE CallOk(c, t, m)'
  <2>1. CallOk(c, t, m) BY <1>2 DEF ReasoningInv
  <2> QED BY <2>1, DiskStays, CallStays DEF ReasoningInv
<1> QED BY <1>1, <1>2, DiskStays DEF ReasoningInv

\* Nothing is recorded at first.
LEMMA ReasoningStarts == ReasoningInit => ReasoningInv
<1> SUFFICES ASSUME ReasoningInit PROVE ReasoningInv OBVIOUS
<1>1. ReasoningTypes BY DEF ReasoningInit, ReasoningTypes, Apart
<1>2. \A c \in Thinkers : thought[c] = "idle" /\ mind[c] = Blank BY DEF ReasoningInit
<1>3. "idle" \in Apart /\ "idle" \notin AtThought BY DEF Apart, AtThought, Pondering
<1>4. \A c \in Thinkers : CallOk(c, "idle", Blank) BY <1>3, BlankOk
<1>5. ASSUME NEW r \in ThoughtRuns PROVE RunOk(r)
  <2>1. proofs[r] = <<>> /\ states[r] = Absent BY DEF ReasoningInit
  <2>2. DOMAIN proofs[r] = {} BY <2>1
  <2> QED BY <2>1, <2>2 DEF RunOk, HasReasoned
<1> QED BY <1>1, <1>2, <1>3, <1>4, <1>5 DEF ReasoningInv

\* Every step of every call keeps the invariant.
LEMMA ReasoningSteps == ReasoningInv /\ [ThinkNext]_reasoningVars => ReasoningInv'
<1> SUFFICES ASSUME ReasoningInv, [ThinkNext]_reasoningVars PROVE ReasoningInv' OBVIOUS
<1>1. ASSUME NEW c \in Thinkers, Enter(c) PROVE ReasoningInv' BY <1>1, Enters
<1>2. ASSUME NEW c \in Thinkers, Busy(c) PROVE ReasoningInv' BY <1>2, IsBusy
<1>3. ASSUME NEW c \in Thinkers, Unrouted(c) \/ Unprepared(c) PROVE ReasoningInv'
  <2>1. /\ thought[c] = "routing" /\ BlockBefore(c) /\ UNCHANGED <<worldVars, manifests, artifacts>>
    BY <1>3 DEF Unrouted, Unprepared, Thinks
  <2>2. "routing" \in AtThought BY DEF AtThought
  <2> QED BY <2>1, <2>2, Blocks
<1>4. ASSUME NEW c \in Thinkers, PrepareContext(c) PROVE ReasoningInv' BY <1>4, Prepares
<1>5. ASSUME NEW c \in Thinkers, SelectContext(c) PROVE ReasoningInv' BY <1>5, Selects
<1>6. ASSUME NEW c \in Thinkers, StartRun(c) PROVE ReasoningInv' BY <1>6, Starts
<1>7. ASSUME NEW c \in Thinkers, NEW f \in Findings, ObserveNext(c, f) PROVE ReasoningInv'
  BY <1>7, ObservesNext
<1>8. ASSUME NEW c \in Thinkers, BindObserved(c) PROVE ReasoningInv' BY <1>8, BindsSeen
<1>9. ASSUME NEW c \in Thinkers, Unbound(c) PROVE ReasoningInv' BY <1>9, Unbinds
<1>10. ASSUME NEW c \in Thinkers, BoundBefore(c) PROVE ReasoningInv' BY <1>10, BindsBefore
<1>11. ASSUME NEW c \in Thinkers, StartModel(c) PROVE ReasoningInv' BY <1>11, StartsModel
<1>12. ASSUME NEW c \in Thinkers, EndModel(c) PROVE ReasoningInv' BY <1>12, EndsModel
<1>13. ASSUME NEW c \in Thinkers, VerifyAnswer(c) PROVE ReasoningInv' BY <1>13, VerifiesAnswer
<1>14. ASSUME NEW c \in Thinkers, RecordReasoning(c) PROVE ReasoningInv' BY <1>14, Records
<1>15. ASSUME NEW c \in Thinkers, Finish(c) PROVE ReasoningInv' BY <1>15, Finishes
<1>16. ASSUME NEW c \in Thinkers, Lose(c) PROVE ReasoningInv' BY <1>16, Loses
<1>17. CASE Rewrite
  BY <1>17, CallsStay DEF Rewrite, diskVars, ReasoningInv
<1>18. CASE ClearLease
  <2>1. /\ UNCHANGED <<inquiry, thought, mind, manifests, artifacts, proofs, states>>
        /\ reasoner # Absent /\ thought[reasoner] = "lost"
    BY <1>18 DEF ClearLease, Thinks, diskVars, worldVars
  <2>2. "lost" \notin AtThought BY DEF AtThought, Pondering
  <2>3. \A c \in Thinkers : thought[c] \notin AtThought BY <2>1, <2>2 DEF ReasoningInv
  <2> QED BY <2>1, <2>3, CallsStay
<1>19. CASE UNCHANGED reasoningVars
  BY <1>19, CallsStay DEF reasoningVars, diskVars, worldVars, ReasoningInv
<1> QED BY <1>1, <1>2, <1>3, <1>4, <1>5, <1>6, <1>7, <1>8, <1>9, <1>10, <1>11, <1>12, <1>13, <1>14,
           <1>15, <1>16, <1>17, <1>18, <1>19
        DEF ThinkNext

\* However calls are repeated under the same Run, wherever they die, and whoever edits the
\* Project meanwhile: a Run is believed only on a reasoning whose kept answer names the kept
\* Context, with exactly the verified observations its profile requires, and during which the
\* Project stayed as it was; and its state names only evidence that is there.
THEOREM ReasonedAsObserved == ReasoningSpec => []ReasonedOnObserved
<1>1. ReasoningSpec => []ReasoningInv BY ReasoningStarts, ReasoningSteps, PTL DEF ReasoningSpec
<1>2. ReasoningInv => ReasonedOnObserved BY DEF ReasoningInv, RunOk, ReasonedOnObserved
<1> QED BY <1>1, <1>2, PTL
===============================================================================
