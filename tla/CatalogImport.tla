---------------------------- MODULE CatalogImport ----------------------------
(***************************************************************************)
(* The catalog of SubAgent profiles, and how a snapshot of the Hub, or of   *)
(* another catalog, becomes a plan to change it (catalog_import_gate.py,    *)
(* profiles.py, tools/import_subagent_catalog.py and                        *)
(* tools/validate_catalog_import_gate.py).                                  *)
(*                                                                         *)
(* A plan is only ever read: a person applies it by a pull request, to the  *)
(* very catalog whose digest it names.  Meanwhile people edit the catalog   *)
(* and the provider registry, the Hub moves on, its lock is moved, and the  *)
(* file under review is replaced.  What a profile says is kept to what the  *)
(* rules tell apart; text that is not of the asked form is "malformed".     *)
(***************************************************************************)
EXTENDS Naturals, Sequences, FiniteSets

CONSTANTS
  Exports,       \* the snapshot that each commit of the Hub exports, in order
  Snapshots,     \* files somebody may offer instead
  Edited,        \* catalogs people may write by hand
  FirstCatalog,
  Backends,      \* the providers
  Observing,     \* what each of them observes
  KnownFacts,    \* the tri-state facts of an environment snapshot
  MaxImports, MaxMoves   \* bounds of the model

\* SubAgentProfile, and a catalog of such profiles by their identities.
ProfileFields ==
  {"title", "kind", "provider", "goal", "primary", "capabilities", "evidence", "facts", "value",
   "approval", "observes", "contract"}
IsCatalog(cat) ==
  /\ DOMAIN cat = {"default", "profiles"}
  /\ \A id \in DOMAIN cat.profiles : DOMAIN cat.profiles[id] = ProfileFields

ASSUME CatalogConstants ==
  /\ IsCatalog(FirstCatalog) /\ \A edit \in Edited : IsCatalog(edit)
  /\ \A s \in Snapshots : s.from # "hub" => IsCatalog(s.catalog)
  /\ 1 \in DOMAIN Exports /\ DOMAIN Exports = 1..Len(Exports) /\ Len(Exports) \in Nat
  /\ \A k \in DOMAIN Exports : Exports[k].from = "hub"

VARIABLES
  catalog,       \* subagent-catalog.yaml
  origin,        \* how it came to be as it is: "edited" or "imported"
  written,       \* what people wrote there last
  enabled,       \* the providers that are enabled in the registry
  head, lock,    \* of the Hub: the commit that is checked out, and the one the lock names
  file, reviewedFile,   \* the offered file, and the one whose digest was taken
  importPlans,   \* the plans so far
  moves

catalogVars == <<catalog, origin, written, enabled, head, lock, file, reviewedFile, importPlans, moves>>

\* What has no default of its own or no profile is no catalog.
Rejected == [default |-> "", profiles |-> <<>>]

-----------------------------------------------------------------------------
(* What a catalog must be.                                                  *)

AtMostOne(S) == \A x, y \in S : x = y

\* SubAgentProfile.from_mapping and validate_execution_contract: a reasoning profile has no
\* provider and no authority, and does not observe what it is itself asked for.
Admissible(p) ==
  /\ p.primary \in p.capabilities /\ p.facts # {}
  /\ p.kind = "reasoning" =>
       p.observes \intersect p.capabilities = {} /\ p.provider = "" /\ p.value = {}

\* SubAgentProfileCatalog.from_mapping
WellFormed(cat) ==
  /\ cat.default \in DOMAIN cat.profiles
  /\ \A id \in DOMAIN cat.profiles : Admissible(cat.profiles[id])

Goals(cat) == {cat.profiles[id].goal : id \in DOMAIN cat.profiles}
Capabilities(cat) == UNION {cat.profiles[id].capabilities : id \in DOMAIN cat.profiles}

\* resolve_goal, and resolve_capability: exactly one profile, or an error.
GoalOwners(cat, goal) == {id \in DOMAIN cat.profiles : cat.profiles[id].goal = goal}
CapabilityOwners(cat, capability) ==
  {id \in DOMAIN cat.profiles : capability \in cat.profiles[id].capabilities}

Resolves(cat) ==
  /\ \A goal \in Goals(cat) : AtMostOne(GoalOwners(cat, goal))
  /\ \A capability \in Capabilities(cat) : AtMostOne(CapabilityOwners(cat, capability))

\* eligibility_failure: a profile is there only where each of its facts is known and true.
Eligible(p, facts) == p.facts \subseteq facts

\* resolve_available_capability
AvailableOwners(cat, capability, facts) ==
  {id \in CapabilityOwners(cat, capability) : Eligible(cat.profiles[id], facts)}

\* _environment_fact_paths: facts the environment can answer.
FactsKnown(cat) == \A id \in DOMAIN cat.profiles : cat.profiles[id].facts \subseteq KnownFacts

Backed(cat) == {id \in DOMAIN cat.profiles : cat.profiles[id].kind = "provider_backed"}

\* _validate_semantics
Semantics(cat) ==
  /\ Resolves(cat) /\ FactsKnown(cat)
  /\ \A id \in DOMAIN cat.profiles :
       /\ cat.profiles[id].goal \in cat.profiles[id].capabilities
       /\ cat.profiles[id].approval \subseteq cat.profiles[id].value
  /\ \A id \in Backed(cat) :
       /\ cat.profiles[id].provider \in enabled
       /\ AtMostOne({other \in Backed(cat) : cat.profiles[other].provider = cat.profiles[id].provider})
  /\ \A id \in DOMAIN cat.profiles \ Backed(cat) :
       cat.profiles[id].observes \subseteq UNION {Observing[b] : b \in enabled}

-----------------------------------------------------------------------------
(* What a snapshot makes of it.                                             *)

\* The identities of the manifests that are active: the others are checked and left out.
ActiveManifests(snapshot) == {id \in DOMAIN snapshot.manifests : snapshot.manifests[id].lifecycle = "active"}

\* The provider a profile has stays its provider: the Hub must offer it, as a dependency
\* whose gate is asked before resolution.
BindsProvider(p, m) == p.provider \in m.backends /\ m.gate \in m.facts

\* Manifest v5: the kind, and for reasoning the contracts that both sides have pinned.
SameContract(p, m) ==
  p.kind = m.kind /\ (m.kind = "reasoning" => p.contract = m.contract /\ p.observes = m.observes /\ m.backends = {})

\* _validate_hub_schema: the schemas of the snapshot's version.
FollowsSchema(snapshot) == snapshot.form = "well"

\* _hub_profile_catalog: what is known here, with the name, the
\* capabilities, the evidence and the facts of the Hub.
AdmitsHub(snapshot, current) ==
  /\ FollowsSchema(snapshot) /\ ActiveManifests(snapshot) # {}
  /\ ActiveManifests(snapshot) \subseteq DOMAIN current.profiles
  /\ \A id \in ActiveManifests(snapshot) :
       LET p == current.profiles[id]
           m == snapshot.manifests[id]
       IN SameContract(p, m) /\ (m.kind = "provider_backed" => BindsProvider(p, m))

Adapted(snapshot, current) ==
  [default |-> current.default,
   profiles |-> [id \in ActiveManifests(snapshot) |->
     LET m == snapshot.manifests[id] IN
     [current.profiles[id] EXCEPT !.title = m.title, !.capabilities = m.capabilities,
                                  !.evidence = m.evidence, !.facts = m.facts]]]

\* _load_snapshot: a Hub snapshot, or the form the catalog itself has.
LoadSnapshot(snapshot, current) ==
  LET read == IF snapshot.from = "hub"
              THEN IF AdmitsHub(snapshot, current) THEN Adapted(snapshot, current) ELSE Rejected
              ELSE snapshot.catalog
  IN IF WellFormed(read) THEN read ELSE Rejected

\* _diff_paths
DiffPaths(before, after) == {f \in DOMAIN before : before[f] # after[f]}

IsProtectedLoosely(field) == field \notin {"title", "capabilities"}   \* mutant: a field is forgotten

\* _is_protected: every field but the name that is shown.
IsProtected(field) == field \notin {"title"}

Changes(base, new) ==
  [added |-> DOMAIN new.profiles \ DOMAIN base.profiles,
   removed |-> DOMAIN base.profiles \ DOMAIN new.profiles,
   changed |-> [id \in DOMAIN base.profiles \intersect DOMAIN new.profiles |->
                  DiffPaths(base.profiles[id], new.profiles[id])],
   default |-> base.default # new.default]

\* _change_risk: who looks at the pull request, and how.
Risk(changes) ==
  IF changes.added # {} \/ changes.removed # {} \/ changes.default
       \/ \E id \in DOMAIN changes.changed : \E f \in changes.changed[id] : IsProtected(f)
  THEN "high"
  ELSE IF \E id \in DOMAIN changes.changed : changes.changed[id] # {} THEN "low" ELSE "none"

Blocking(changes) ==
  \/ changes.removed # {} \/ changes.default
  \/ \E id \in DOMAIN changes.changed : \E f \in changes.changed[id] : IsProtected(f)

Status(changes) ==
  IF Blocking(changes) THEN "blocked"
  ELSE IF changes.added # {} \/ Risk(changes) # "none" THEN "requires_pull_request"
  ELSE "no_op"

-----------------------------------------------------------------------------
(* Plans.                                                                   *)

CatalogInit ==
  /\ catalog = FirstCatalog /\ written = FirstCatalog /\ origin = "edited"
  /\ enabled = Backends
  /\ head = 1 /\ lock = 1
  /\ file \in Snapshots /\ reviewedFile = file
  /\ importPlans = {} /\ moves = 0

\* build_import_plan: both catalogs must be sound, the one that is there too.
PlanOf(snapshot, mode, commit) ==
  LET new == LoadSnapshot(snapshot, catalog) IN
  /\ new # Rejected /\ Semantics(new) /\ Semantics(catalog)
  /\ importPlans' = importPlans \union
       {[base |-> catalog, new |-> new, status |-> Status(Changes(catalog, new)),
         risk |-> Risk(Changes(catalog, new)), mode |-> mode, commit |-> commit, of |-> snapshot]}

Imports == Cardinality(importPlans) < MaxImports

\* validate_hub_source: the commit itself is unpacked, never what is checked out; a pinned
\* source is the one of the lock, and must be there.
ImportHub(mode) ==
  /\ Imports
  /\ LET commit == IF mode = "pinned" THEN lock ELSE head IN
     commit <= head /\ PlanOf(Exports[commit], mode, commit)
  /\ UNCHANGED <<catalog, origin, written, enabled, head, lock, file, reviewedFile, moves>>

\* import_subagent_catalog: the exact bytes that were reviewed.
ImportFile ==
  /\ Imports /\ file = reviewedFile
  /\ PlanOf(file, "file", 0)
  /\ UNCHANGED <<catalog, origin, written, enabled, head, lock, file, reviewedFile, moves>>

\* validate_catalog_import_gate: the catalog against itself.
ImportItself ==
  /\ Imports
  /\ PlanOf([from |-> "profiles", catalog |-> catalog], "checked-in", 0)
  /\ UNCHANGED <<catalog, origin, written, enabled, head, lock, file, reviewedFile, moves>>

\* A person applies a plan that is not blocked, to the catalog it was made for.
ApplyPlan(plan) ==
  /\ plan \in importPlans /\ plan.status = "requires_pull_request" /\ plan.base = catalog
  /\ catalog' = plan.new /\ origin' = "imported"
  /\ UNCHANGED <<written, enabled, head, lock, file, reviewedFile, importPlans, moves>>

-----------------------------------------------------------------------------
(* The world.                                                               *)

Moved == moves < MaxMoves /\ moves' = moves + 1

EditCatalog ==
  /\ Moved
  /\ \E edit \in Edited : catalog' = edit /\ written' = edit /\ origin' = "edited"
  /\ UNCHANGED <<enabled, head, lock, file, reviewedFile, importPlans>>

SwitchProvider(b) ==
  /\ Moved
  /\ enabled' = IF b \in enabled THEN enabled \ {b} ELSE enabled \union {b}
  /\ UNCHANGED <<catalog, origin, written, head, lock, file, reviewedFile, importPlans>>

HubAdvances ==
  /\ Moved /\ head < Len(Exports) /\ head' = head + 1
  /\ UNCHANGED <<catalog, origin, written, enabled, lock, file, reviewedFile, importPlans>>

MoveLock ==
  /\ Moved /\ \E k \in DOMAIN Exports \ {lock} : lock' = k
  /\ UNCHANGED <<catalog, origin, written, enabled, head, file, reviewedFile, importPlans>>

ReplaceFile ==
  /\ Moved /\ \E s \in Snapshots \ {file} : file' = s
  /\ UNCHANGED <<catalog, origin, written, enabled, head, lock, reviewedFile, importPlans>>

CatalogNext ==
  \/ \E mode \in {"pinned", "development"} : ImportHub(mode)
  \/ ImportFile \/ ImportItself
  \/ \E plan \in importPlans : ApplyPlan(plan)
  \/ EditCatalog \/ (\E b \in Backends : SwitchProvider(b)) \/ HubAdvances \/ MoveLock \/ ReplaceFile

CatalogSpec == CatalogInit /\ [][CatalogNext]_catalogVars

-----------------------------------------------------------------------------

\* An import never changes who answers: for every goal and capability that people gave to a
\* profile, in every environment, the catalog after any sequence of imports names the same
\* profile, with the same provider, range and approval.
ImportsKeepAnswers ==
  origin = "imported" =>
    /\ \A goal \in Goals(written) : GoalOwners(catalog, goal) = GoalOwners(written, goal)
    /\ \A capability \in Capabilities(written), facts \in SUBSET KnownFacts :
         AvailableOwners(catalog, capability, facts) = AvailableOwners(written, capability, facts)
    /\ \A id \in DOMAIN written.profiles : \A f \in {"provider", "value", "approval", "evidence"} :
         catalog.profiles[id][f] = written.profiles[id][f]
    /\ catalog.default = written.default

=============================================================================
