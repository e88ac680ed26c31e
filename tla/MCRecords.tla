------------------------------ MODULE MCRecords ------------------------------
(* The records by which a Run is believed later.  The components share no     *)
(* file, so a behaviour is about one of them: EvidenceStore, the reference    *)
(* gate, the staged CI bridge, the specialist that proposes what the gate     *)
(* dispatches, the one that reasons, the imports of the catalog of            *)
(* specialists, or the choice of a provider.  The others rest in their        *)
(* initial states.                                                            *)
EXTENDS EvidenceStore, ReferenceGate, StagedCi, SpecialistSession, SpecialistReasoning,
  CatalogImport, ProviderResolution, Functions

CONSTANTS StoreScene, GateScene, CiScene, SpecialistScene, ReasoningScene, CatalogScene,
  ProviderScene

VARIABLE about   \* the component a behaviour is about

CONSTANTS b1, b2, b3, run, approval

\* Two Runs; one of them meets itself on an identity with two contents and appends another
\* one, the other Run is beside it.
MCEvidenceRunOf == [i \in Ids |-> IF i = "other-evidence-1" THEN "other" ELSE "run"]
MCIds == {"run-evidence-1", "run-evidence-2", "other-evidence-1"}
MCRequestList == <<[id |-> "run-evidence-1", body |-> "a"], [id |-> "run-evidence-1", body |-> "b"],
                   [id |-> "run-evidence-2", body |-> "a"], [id |-> "other-evidence-1", body |-> "a"]>>
MCRequests == Range(MCRequestList)

\* One Run and its approval, with three actions, two of which use the same key.
MCRunOf == [a \in Actions |-> run]
MCKeyOf == [a \in Actions |-> IF a = b3 THEN "other" ELSE "key"]
MCApprovalOf == [a \in Actions |-> approval]
MCJobList == <<[op |-> "dispatch", action |-> b1], [op |-> "dispatch", action |-> b2],
               [op |-> "dispatch", action |-> b3], [op |-> "recover", action |-> b1]>>
MCJobs == Range(MCJobList)

\* The first call dispatches b1, and no two others are the same; b3 comes with a recovery.
MCJobsGiven ==
  /\ job[1] = MCJobList[1] /\ \A m, n \in Calls \ {1} : job[m] = job[n] => m = n
  /\ MCJobList[3] \in Range(job) => MCJobList[4] \in Range(job)

\* Calls are interchangeable, and so numbered by what they were given.
Ordered(calls, list) ==
  \A m, n \in DOMAIN calls : m < n =>
    \E k, l \in DOMAIN list : k <= l /\ calls[m] = list[k] /\ calls[n] = list[l]

\* A caller may have too few parent calls, or none of the child's time.
MCBudgets == [parent : {1, 2}, tool : {1}, time : {0, 1}]
MCProfileRange == Canonical \union {60}

\* What a call is asked for matters in its own scene only.
MCAskedPlain == [golden |-> TRUE, contract |-> ReviewedContract, fov |-> 43,
                 budget |-> [parent |-> 1, tool |-> 1, time |-> 0]]

\* Requests under one Run meet each other's records.  Of the second call they may pass; the
\* first may also have no route, no target, no model, or a version no profile supports.  Calls
\* are interchangeable, and so numbered as they begin.
MCVersionIn == [p \in Contents |-> IF p = "old" THEN "2022" ELSE "6000"]
MCPipelineIn == [p \in Contents |-> IF p = "custom" THEN "custom" ELSE "urp"]
MCAsk(task, name) ==
  [kind |-> task, run |-> name, version |-> "6000", routed |-> TRUE, model |-> TRUE, target |-> TRUE]
MCPassing == {MCAsk("graphics", "run"), MCAsk("world", "run")}
MCInquiries ==
  MCPassing \union {[MCAsk("world", "run") EXCEPT !.routed = FALSE],
                    [MCAsk("performance", "run") EXCEPT !.target = FALSE],
                    [MCAsk("world", "run") EXCEPT !.model = FALSE],
                    [MCAsk("graphics", "run") EXCEPT !.version = "2022"]}
MCFindings ==
  [status : {"passed"}, class : {"none"}, observed : {"all", "some"}]
    \union [status : {"failed"}, class : {"environment"}, observed : {"none"}]
    \union [status : {"unresolved", "malformed"}, class : {"none"}, observed : {"none"}]

\* A provider-backed profile and a reasoning one.  The Hub renames one, drops a capability,
\* retires one, and gives one another fact; a file adds a profile that is in the way, or not.
MCArtist ==
  [title |-> "artist", kind |-> "provider_backed", provider |-> "cli", goal |-> "refine",
   primary |-> "refine", capabilities |-> {"refine", "inspect"}, evidence |-> {"diff"},
   facts |-> {"cli"}, value |-> 1..3, approval |-> {2}, observes |-> {}, contract |-> "pinned"]
MCQa ==
  [MCArtist EXCEPT !.title = "qa", !.kind = "reasoning", !.provider = "", !.goal = "analyze",
     !.primary = "analyze", !.capabilities = {"analyze"}, !.facts = {"model"}, !.value = {},
     !.approval = {}, !.observes = {"observe"}]
MCFirstCatalog == [default |-> "artist", profiles |-> [artist |-> MCArtist, qa |-> MCQa]]
MCManifest(p) ==
  [lifecycle |-> "active", title |-> p.title, capabilities |-> p.capabilities,
   evidence |-> p.evidence, facts |-> p.facts, kind |-> p.kind,
   backends |-> IF p.kind = "reasoning" THEN {} ELSE {p.provider}, gate |-> "cli",
   contract |-> p.contract, observes |-> p.observes]
MCHub(offered) == [from |-> "hub", form |-> "well", manifests |-> offered]
MCSame == [artist |-> MCManifest(MCArtist), qa |-> MCManifest(MCQa)]
MCExports == <<MCHub([MCSame EXCEPT !.qa.title = "performance"]),
               MCHub([MCSame EXCEPT !.artist.capabilities = {"refine"}]),
               MCHub([MCSame EXCEPT !.qa.lifecycle = "retired"]),
               MCHub([MCSame EXCEPT !.artist.facts = {"cli", "model"}, !.artist.title = "renamed"])>>
MCFile(cat) == [from |-> "profiles", catalog |-> cat]
MCAdded(p) == [default |-> "artist", profiles |-> [artist |-> MCArtist, qa |-> MCQa, new |-> p]]
MCSnapshots == {MCFile(MCFirstCatalog), MCFile(MCAdded([MCQa EXCEPT !.title = "new"])),
  MCFile(MCAdded([MCQa EXCEPT !.goal = "plan", !.primary = "plan", !.capabilities = {"plan"}])),
  [MCHub(MCSame) EXCEPT !.form = "malformed"]}
MCEdited == {MCFirstCatalog, [MCFirstCatalog EXCEPT !.profiles.artist.approval = 2..4],
  [MCFirstCatalog EXCEPT !.default = "qa"]}
MCObserving == [b \in Backends |-> {"observe"}]

\* All is well around the Project, or one thing is not: a second Editor or instance of it or one
\* of another Project only, Safe Mode, an old or unsaid protocol, a package that is missing.
MCAround ==
  [project |-> TRUE, version |-> "6000.1", disk |-> {"6000.1"}, hidden |-> FALSE,
   editors |-> {<<1, "ours">>}, safe |-> FALSE, cli |-> "well",
   manifest |-> {"artist", "pipeline", "tests"}, pipe |-> "ours", commands |-> {"artist.inspect"},
   editor |-> [version |-> "6000.1", tier |-> "primary", approval |-> "current",
               context |-> "current"],
   unasked |-> FALSE, instances |-> {<<1, "ours">>}]
MCWorlds ==
  {MCAround, [MCAround EXCEPT !.project = FALSE, !.version = "unknown"],
   [MCAround EXCEPT !.editors = {<<1, "theirs">>}, !.pipe = "theirs", !.instances = {<<1, "theirs">>}],
   [MCAround EXCEPT !.editors = {<<1, "ours">>, <<2, "ours">>}, !.instances = @ \union {<<2, "ours">>}],
   [MCAround EXCEPT !.disk = {}], [MCAround EXCEPT !.version = "6000.2"],
   [MCAround EXCEPT !.hidden = TRUE, !.unasked = TRUE],
   [MCAround EXCEPT !.safe = TRUE, !.pipe = "silent"], [MCAround EXCEPT !.cli = "sick"],
   [MCAround EXCEPT !.manifest = {"pipeline"}], [MCAround EXCEPT !.manifest = {"unreadable"}],
   [MCAround EXCEPT !.editor.approval = "old"], [MCAround EXCEPT !.editor.context = "unstated"]}

\* An instance that is preferred though it is weaker, the CLI, an Editor for one workflow, and a
\* provider that is out of use.  The artistic domain is open to the instance, too.
MCOffer(priority, strength, needs) ==
  [priority |-> priority, surfaces |-> <<"editor">>, evidence |-> {"seen"}, keeps |-> TRUE,
   safety |-> strength, proof |-> strength, needs |-> needs]
MCProvider(tie, qualifiers, required, offers) ==
  [surfaces |-> {"editor"}, enabled |-> TRUE, binding |-> tie, qualifiers |-> qualifiers,
   required |-> required, offers |-> offers]
MCByCli == {<<"exists", "yes">>, <<"cli", "yes">>, <<"pipelineReach", "yes">>}
MCByInstance == {<<"exists", "yes">>, <<"mcp", "yes">>, <<"mcpBound", "yes">>}
MCByEditor == {<<"running", "yes">>, <<"editorBound", "yes">>, <<"safeMode", "no">>,
               <<"versionMatch", "yes">>}
MCArt == <<"domain", "visual_art">>
MCFlow == <<"workflow", "full_e2e">>
MCRegistry ==
  [unity_cli |-> MCProvider("explicit", {MCArt}, {},
     [inspect |-> MCOffer(60, 4, MCByCli), mutate |-> MCOffer(60, 4, MCByCli)]),
   instance |-> MCProvider("environment", {MCArt}, {},
     [inspect |-> MCOffer(90, 3, MCByInstance), mutate |-> MCOffer(60, 4, MCByInstance)]),
   editor |-> MCProvider("explicit", {MCFlow}, {"workflow"}, [mutate |-> MCOffer(150, 5, MCByEditor)]),
   old |-> [MCProvider("explicit", {MCArt}, {}, [inspect |-> MCOffer(100, 5, {})])
              EXCEPT !.enabled = FALSE]]
MCFloors == [inspect |-> [safety |-> 3, proof |-> 3], mutate |-> [safety |-> 4, proof |-> 4]]
MCPolicies == [inspect |-> [approval |-> "none", scoped |-> FALSE, evidence |-> {"seen"}],
               mutate |-> [approval |-> "hard", scoped |-> TRUE, evidence |-> {"seen"}]]
MCProfiles == {[provider |-> "unity_cli", artist |-> TRUE,
  facts |-> {"artist", "artistCompatible", "artistBound", "artistPackage", "artistReach"}]}
MCRequest(what, qualifiers) ==
  [capability |-> what, root |-> "ours", evidence |-> {"seen"}, scoped |-> TRUE, approval |-> TRUE,
   qualifiers |-> qualifiers, surface |-> "editor"]
MCAsks == {MCRequest("inspect", {}), MCRequest("inspect", {MCArt}), MCRequest("mutate", {}),
  MCRequest("mutate", {MCArt}), MCRequest("mutate", {MCFlow}),
  [MCRequest("inspect", {}) EXCEPT !.root = "theirs"],
  [MCRequest("mutate", {}) EXCEPT !.approval = FALSE]}
MCContext ==
  [policy |-> TRUE, required |-> FALSE, complete |-> TRUE,
   health |-> [p \in DOMAIN MCRegistry |-> "healthy"],
   latency |-> [p \in DOMAIN MCRegistry |-> IF p = "instance" THEN 2 ELSE 1]]
MCContexts == {MCContext, [MCContext EXCEPT !.health["instance"] = "unhealthy"],
  [MCContext EXCEPT !.required = TRUE, !.complete = FALSE]}

Scenes == {StoreScene, GateScene, CiScene, SpecialistScene, ReasoningScene,
           CatalogScene, ProviderScene}

MCInit ==
  /\ about \in Scenes
  /\ StoreInit /\ Ordered(request, MCRequestList)
  /\ about # StoreScene =>
       request = [a \in Appends |-> [id |-> "run-evidence-2", body |-> "a"]]
  /\ Init /\ Ordered(job, MCJobList) /\ (about = GateScene => MCJobsGiven)
  /\ about # GateScene => job = [c \in Calls |-> MCJobList[1]]
  /\ StagedInit /\ SpecialistInit
  /\ about # SpecialistScene => asked = [c \in CameraCalls |-> MCAskedPlain]
  /\ ReasoningInit /\ inquiry[2] \in MCPassing
  /\ about # ReasoningScene =>
       inquiry = [c \in Thinkers |-> MCAsk("world", "run")] /\ contents = "urp"
  /\ CatalogInit /\ (about # CatalogScene => file = MCFile(MCFirstCatalog))
  /\ ResolutionInit /\ (about # ProviderScene => around = MCAround)

StorePart ==
  about = StoreScene /\ StoreNext
    /\ UNCHANGED <<vars, stagedVars, specialistVars, reasoningVars, catalogVars, resolutionVars>>
GatePart ==
  about = GateScene /\ Next
    /\ UNCHANGED <<storeVars, stagedVars, specialistVars, reasoningVars, catalogVars, resolutionVars>>
CiPart ==
  about = CiScene /\ StagedNext
    /\ UNCHANGED <<storeVars, vars, specialistVars, reasoningVars, catalogVars, resolutionVars>>
SpecialistPart ==
  about = SpecialistScene /\ SpecialistNext
    /\ UNCHANGED <<storeVars, vars, stagedVars, reasoningVars, catalogVars, resolutionVars>>
ReasoningPart ==
  about = ReasoningScene /\ ThinkNext /\ (thought'[2] # "idle" => thought'[1] # "idle")
    /\ UNCHANGED <<storeVars, vars, stagedVars, specialistVars, catalogVars, resolutionVars>>
CatalogPart ==
  about = CatalogScene /\ CatalogNext
    /\ UNCHANGED <<storeVars, vars, stagedVars, specialistVars, reasoningVars, resolutionVars>>
ProviderPart ==
  about = ProviderScene /\ ResolutionNext
    /\ UNCHANGED <<storeVars, vars, stagedVars, specialistVars, reasoningVars, catalogVars>>

MCNext ==
  /\ StorePart \/ GatePart \/ CiPart \/ SpecialistPart \/ ReasoningPart
     \/ CatalogPart \/ ProviderPart
  /\ UNCHANGED about

MCSpec == MCInit /\ [][MCNext]_<<storeVars, vars, stagedVars, specialistVars,
                              reasoningVars, catalogVars, resolutionVars, about>>
=============================================================================
