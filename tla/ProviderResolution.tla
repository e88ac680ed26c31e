-------------------------- MODULE ProviderResolution --------------------------
(***************************************************************************)
(* What is around a Unity Project is observed probe by probe                *)
(* (runtime/tooling/environment), and one snapshot of it decides which      *)
(* provider serves a capability request, first or as a fallback             *)
(* (tool_runtime_guard.py, tool_broker.py, capability_resolver.py).         *)
(*                                                                         *)
(* Nothing holds the world still: Editors start and end, packages and the    *)
(* CLI come and go between two probes, and after the last one.  A fact is   *)
(* "yes", "no" or "unknown"; what no probe looks at stays unknown.          *)
(***************************************************************************)
EXTENDS Integers, Sequences, FiniteSets

CONSTANTS
  Worlds,        \* what may be around the Project
  MaxShifts,     \* changes of it while one snapshot is taken and used
  Registry,      \* provider_registry.yaml: a descriptor per provider
  Floors,        \* its capability_requirements
  Policies,      \* tool-capability-policy.yaml, per capability
  Profiles,      \* the provider-backed SubAgent profiles
  Asks,          \* the requests
  Contexts,      \* what Policy, Approval and Health say of them
  MaxServed      \* providers tried for one request

Providers == DOMAIN Registry
Capable == DOMAIN Floors
Surfaces == {"project", "host", "editor", "live_editor", "player"}
Strengths == 0..5
Artistic == {<<"domain", "visual_art">>, <<"domain", "cinematic">>}

\* _parse_offer
ParsedOffer(d, o) ==
  /\ o.surfaces # <<>> /\ \A i \in DOMAIN o.surfaces : o.surfaces[i] \in d.surfaces
  /\ o.evidence # {} /\ o.priority \in Int /\ o.keeps \in BOOLEAN
  /\ o.safety \in Strengths /\ o.proof \in Strengths
  /\ \A need \in o.needs : need[2] \in {"yes", "no"}

\* parse_provider_registry: what of it is no registry is refused when it is loaded.
ParsedRegistry ==
  /\ \A p \in Providers : LET d == Registry[p] IN
       /\ d.surfaces \subseteq Surfaces /\ d.surfaces # {} /\ d.enabled \in BOOLEAN
       /\ d.binding \in {"canonical", "explicit", "environment", "player"}
       /\ \A key \in d.required : \E q \in d.qualifiers : q[1] = key
       /\ DOMAIN d.offers \subseteq Capable /\ DOMAIN d.offers # {}
       /\ \A k \in DOMAIN d.offers : ParsedOffer(d, d.offers[k])
  /\ \A k \in Capable : Floors[k] \in [safety : Strengths, proof : Strengths]
  /\ \A k \in Capable : \E p \in Providers : k \in DOMAIN Registry[p].offers

\* Of a process, an instance or an answer it is only said whether it is of our Project.
World ==
  [project : BOOLEAN, version : STRING, disk : SUBSET STRING, hidden : BOOLEAN,
   editors : SUBSET (Nat \X STRING), safe : BOOLEAN, cli : STRING, manifest : SUBSET STRING,
   pipe : STRING, commands : SUBSET STRING, unasked : BOOLEAN,
   editor : [version : STRING, tier : STRING, approval : {"current", "old", "unstated"},
             context : {"current", "old", "unstated"}],
   instances : SUBSET (Nat \X STRING)]

\* The Artist is a profile on the CLI, and open only where its Editor answers.
ASSUME ResolutionConstants ==
  /\ ParsedRegistry /\ DOMAIN Policies = Capable /\ Worlds \subseteq World
  /\ \E f \in Profiles : f.provider = "unity_cli"
  /\ \A f \in Profiles : f.provider = "unity_cli" => "artist" \in f.facts
  /\ MaxShifts \in Nat /\ MaxServed \in Nat

VARIABLES
  around,        \* what is around the Project
  shifts,
  probed,        \* the probes of the snapshot so far: what each of them saw
  facts,         \* the snapshot
  binding,       \* of the Editor and of the MCP instance: how they are bound, and to which
  asking,        \* the request and its context
  verdict,       \* the status of the last resolution
  servers        \* the providers it was resolved to, in order

resolutionVars == <<around, shifts, probed, facts, binding, asking, verdict, servers>>

Tri(b) == IF b THEN "yes" ELSE "no"
Fact(name) == IF name \in DOMAIN facts THEN facts[name] ELSE "unknown"

Unseen == [status |-> "unknown", to |-> 0]

ResolutionInit ==
  /\ around \in Worlds /\ shifts = 0
  /\ probed = <<>> /\ facts = <<>> /\ binding = [editor |-> Unseen, mcp |-> Unseen]
  /\ asking = <<>> /\ verdict = "none" /\ servers = <<>>

-----------------------------------------------------------------------------
(* The probes, in the order discover_environment makes them.                *)

Probes == <<"project", "editor", "cli", "package", "surface", "artist", "rest">>

See(name, found) ==
  /\ Len(probed) < Len(Probes) /\ Probes[Len(probed) + 1] = name
  /\ probed' = Append(probed, around)
  /\ facts' = [f \in DOMAIN facts \union DOMAIN found |->
                 IF f \in DOMAIN found THEN found[f] ELSE facts[f]]
  /\ UNCHANGED <<around, shifts, asking, verdict, servers>>

\* _package_fact: a manifest that cannot be read says nothing.
PackageFact(w, package) ==
  IF "unreadable" \in w.manifest THEN "unknown" ELSE Tri(package \in w.manifest)

\* observe_project_identity, observe_filesystem and observe_git
SeeProject ==
  /\ See("project", [exists |-> Tri(around.project), readable |-> Tri(around.project),
                     writable |-> IF around.project THEN "unknown" ELSE "no",
                     version |-> around.version])
  /\ UNCHANGED binding

\* Exactly one of those that are there may be ours.
OfOurs(S) == {x \in S : x[2] = "ours"}
BoundTo(S, nobody) ==
  CASE S = {} -> [status |-> nobody, to |-> 0]
    [] Cardinality(OfOurs(S)) = 1 -> [status |-> "bound", to |-> (CHOOSE x \in OfOurs(S) : TRUE)[1]]
    [] Cardinality(OfOurs(S)) > 1 -> [status |-> "ambiguous_binding", to |-> 0]
    [] OTHER -> [status |-> "unbound", to |-> 0]

\* bind_editor_processes: the processes may also be out of sight.
EditorBinding(w) ==
  IF w.hidden THEN Unseen ELSE BoundTo(w.editors, "not_running")

\* _select_editor_candidate: an Editor of the Project's version, if one is installed.  One that
\* runs is installed, too, though nobody knows its version.
InstalledVersion(w, wanted) ==
  CASE wanted \in w.disk -> wanted
    [] w.disk # {} -> CHOOSE v \in w.disk : TRUE
    [] OTHER -> "unknown"

SeeEditor ==
  LET bound == EditorBinding(around)
      version == InstalledVersion(around, Fact("version"))
  IN
  /\ See("editor",
       [installed |-> IF around.disk # {} \/ (~around.hidden /\ around.editors # {})
                      THEN "yes" ELSE "unknown",
        editorVersion |-> version,
        versionMatch |-> IF "unknown" \in {version, Fact("version")} THEN "unknown"
                         ELSE Tri(version = Fact("version")),
        running |-> IF around.hidden THEN "unknown" ELSE Tri(around.editors # {}),
        safeMode |-> IF bound.status = "bound" THEN Tri(around.safe) ELSE "unknown",
        editorBound |-> IF around.hidden THEN "unknown" ELSE Tri(bound.status = "bound")])
  /\ binding' = [binding EXCEPT !.editor = bound]

\* probe_unity_cli: found, and it answers.
SeeCli ==
  /\ See("cli", [cli |-> Tri(around.cli = "well")])
  /\ UNCHANGED binding

\* The first look of probe_artist_pipeline: the package, as the manifest or its own metadata
\* names it.  Nothing more is asked without the package and the CLI.
SeePackage ==
  /\ See("package", [artistPackage |-> PackageFact(around, "artist")])
  /\ UNCHANGED binding

\* discover_unity_cli_surface: the CLI may be gone or sick by now, and only a Project with the
\* Pipeline package has its catalog of commands asked for.
SurfaceHealthy(w) == w.cli = "well"
CatalogOf(w) ==
  IF SurfaceHealthy(w) /\ PackageFact(w, "pipeline") = "yes" /\ w.pipe # "silent"
  THEN w.commands ELSE {}

\* The Pipeline counts as reachable with a catalog; without its package it is not, and with no
\* manifest to read nobody knows.
SurfaceReaches(w) ==
  IF SurfaceHealthy(w) /\ PackageFact(w, "pipeline") = "unknown" THEN "unknown"
  ELSE Tri(CatalogOf(w) # {})

MayAsk == Fact("artistPackage") = "yes" /\ Fact("cli") = "yes"

SeeSurface ==
  /\ See("surface",
       [artistReach |-> IF MayAsk THEN SurfaceReaches(around) ELSE "unknown",
        listed |-> Tri(MayAsk /\ "artist.inspect" \in CatalogOf(around))])
  /\ UNCHANGED binding

\* _artist_compatibility, and the protocols of the approval and of the Context: what is not said
\* is unknown, what is said and is not current is incompatible.
Compatible(w) ==
  LET said == w.editor IN
  CASE \/ said.version # w.version \/ said.tier \notin {"primary", "unstated"}
       \/ "old" \in {said.approval, said.context} -> "no"
    [] "unstated" \in {said.tier, said.approval, said.context} -> "unknown"
    [] OTHER -> "yes"

\* The Editor that answers "artist.inspect" says which Project it has open.
SeeArtist ==
  LET asked == Fact("listed") = "yes"
      answered == asked /\ SurfaceHealthy(around) /\ around.pipe # "silent"
      ours == answered /\ around.pipe = "ours"
      compatible == Compatible(around)
  IN
  /\ See("artist",
       CASE ours -> [artist |-> Tri(compatible = "yes"), artistCompatible |-> compatible,
                     artistBound |-> "yes", artistReach |-> "yes",
                     artistVersion |-> around.editor.version]
         [] answered /\ ~ours -> [artist |-> "no", artistCompatible |-> "unknown",
                                  artistBound |-> "no", artistVersion |-> "unknown"]
         [] OTHER -> [artist |-> "no", artistCompatible |-> "unknown",
                      artistBound |-> "unknown", artistVersion |-> "unknown"])
  /\ UNCHANGED binding

\* The rest of discover_environment: what the answer of the Editor says of its version and of the
\* Pipeline, the packages, and the MCP instances, which may be unseen.
Inferred ==
  /\ Fact("artistBound") = "yes" /\ Fact("artistReach") = "yes"

BindInstances(w) == IF w.unasked THEN Unseen ELSE BoundTo(w.instances, "unbound")

SeeRest ==
  LET bound == BindInstances(around)
      pipeline == PackageFact(around, "pipeline")
      sameEditor == /\ Inferred /\ Fact("installed") = "yes" /\ Fact("editorVersion") = "unknown"
                    /\ Fact("editorBound") = "yes"
                    /\ Fact("version") # "unknown" /\ Fact("artistVersion") = Fact("version")
  IN
  /\ See("rest",
       [versionMatch |-> IF sameEditor THEN "yes" ELSE Fact("versionMatch"),
        pipelineReach |-> CASE pipeline = "no" -> "no"
                            [] pipeline = "yes" /\ Inferred -> "yes"
                            [] OTHER -> "unknown",
        tests |-> PackageFact(around, "tests"),
        mcp |-> IF bound = Unseen THEN "unknown" ELSE Tri(bound.status = "bound"),
        mcpBound |-> IF bound = Unseen THEN "unknown" ELSE Tri(bound.status = "bound")])
  /\ binding' = [binding EXCEPT !.mcp = bound]

Observed == Len(probed) = Len(Probes)

-----------------------------------------------------------------------------
(* Who may serve a request, and who does.                                   *)

\* guard_runtime_dispatch and validate_capability_request: it is asked of the same snapshot.
MissingApproval(r, c) ==
  /\ Policies[r.capability].approval = "hard" \/ c.required
  /\ ~r.approval \/ ~c.complete

GuardRefusal(r, c) ==
  CASE ~ (Policies[r.capability].evidence \subseteq r.evidence) -> "precondition_failed"
    [] Policies[r.capability].scoped /\ ~r.scoped -> "precondition_failed"
    [] Fact("exists") # "yes" -> "unavailable"
    [] r.root # "ours" -> "scope_violation"
    [] ~c.policy -> "blocked_by_policy"
    [] MissingApproval(r, c) -> "blocked_by_approval"
    [] OTHER -> "none"

ArtistAsked(r) == r.qualifiers \intersect Artistic # {}

\* eligibility_failure: the first fact of the profile that is not there.
ProfileGate(profile) ==
  CASE \A f \in profile.facts : Fact(f) = "yes" -> "none"
    [] \E f \in profile.facts : Fact(f) = "unknown" -> "unknown"
    [] OTHER -> "unavailable"

\* _subagent_provider_gates: the Artist's gate binds the CLI for artistic requests only.
GateOf(r, p) ==
  LET mapped == {f \in Profiles : f.provider = p /\ (f.artist => ArtistAsked(r))}
  IN CASE mapped = {} -> "none"
       [] Cardinality(mapped) > 1 -> "unavailable"
       [] OTHER -> ProfileGate(CHOOSE f \in mapped : TRUE)

ExcludedAlone(r, p) == GateOf(r, p)   \* mutant: a closed gate of the Artist closes the CLI only

\* _resolve_with_subagent_gates: nobody else serves an artistic request the Artist cannot.
Excluded(r, p) ==
  IF ArtistAsked(r) /\ GateOf(r, "unity_cli") # "none" THEN GateOf(r, "unity_cli")
  ELSE GateOf(r, p)

\* _project_binding_failure: the root and the identity of the Project, then the instance.
BindingFailure(d, r) ==
  CASE r.root # "ours" \/ Fact("exists") # "yes" -> "unavailable"
    [] d.binding = "environment" /\ binding.mcp.status = "ambiguous_binding" -> "ambiguous_binding"
    [] d.binding = "environment" /\ Fact("mcpBound") # "yes" ->
         IF binding.mcp.status = "unknown" THEN "unknown" ELSE "unavailable"
    [] d.binding = "player" -> "unknown"
    [] OTHER -> "none"

\* _environment_failure
EnvironmentFailure(offer) ==
  CASE \A need \in offer.needs : Fact(need[1]) = need[2] -> "none"
    [] \E need \in offer.needs : Fact(need[1]) = "unknown" -> "unknown"
    [] OTHER -> "unavailable"

\* _fallback_floors
FloorFor(k, previous) ==
  LET floor == Floors[k]
      before == IF previous = <<>> THEN floor ELSE Registry[previous[Len(previous)]].offers[k]
  IN [safety |-> IF before.safety > floor.safety THEN before.safety ELSE floor.safety,
      proof |-> IF before.proof > floor.proof THEN before.proof ELSE floor.proof]

\* Who offers the capability, is not the one that just failed, and is not another workflow's.
Candidates(r) ==
  {p \in Providers :
     /\ r.capability \in DOMAIN Registry[p].offers
     /\ servers # <<>> => p # servers[Len(servers)]
     /\ \A key \in Registry[p].required : \E q \in r.qualifiers : q[1] = key}

\* Why a candidate is rejected, in the order the resolver looks; "none" if it is not.
Rejection(r, c, p) ==
  LET d == Registry[p]
      offer == d.offers[r.capability]
      floor == FloorFor(r.capability, servers)
  IN CASE Excluded(r, p) # "none" -> Excluded(r, p)
       [] ~d.enabled -> "unavailable"
       [] ~ (r.qualifiers \subseteq d.qualifiers) -> "unsupported"
       [] BindingFailure(d, r) # "none" -> BindingFailure(d, r)
       [] EnvironmentFailure(offer) # "none" -> EnvironmentFailure(offer)
       [] c.health[p] \in {"unhealthy", "unknown"} -> c.health[p]
       [] offer.safety < floor.safety \/ offer.proof < floor.proof -> "unsupported"
       [] ~ (r.evidence \subseteq offer.evidence) -> "unsupported"
       [] Policies[r.capability].scoped /\ ~offer.keeps -> "scope_violation"
       [] OTHER -> "none"

EligibleFor(r, c) == {p \in Candidates(r) : Rejection(r, c, p) = "none"}

\* The rank: priority and wished surface, then health, then the shorter latency.
Wished(offer, r) == \E i \in DOMAIN offer.surfaces : offer.surfaces[i] = r.surface
Score(r, p) ==
  LET offer == Registry[p].offers[r.capability]
  IN offer.priority + (IF Wished(offer, r) THEN 5 ELSE 0)
HealthScore(c, p) == IF c.health[p] = "degraded" THEN 1 ELSE 2
Ahead(r, c, p, q) ==
  \/ Score(r, p) > Score(r, q)
  \/ Score(r, p) = Score(r, q) /\
       \/ HealthScore(c, p) > HealthScore(c, q)
       \/ HealthScore(c, p) = HealthScore(c, q) /\ c.latency[p] < c.latency[q]
Best(r, c) == {p \in EligibleFor(r, c) : \A q \in EligibleFor(r, c) : ~Ahead(r, c, q, p)}

\* What is answered when nobody is eligible: the gravest of the reasons.
Gravest(r, c) ==
  LET reasons == {Rejection(r, c, p) : p \in Candidates(r)}
      graver == <<"ambiguous_binding", "scope_violation", "unhealthy", "unknown", "unsupported">>
      found == {i \in DOMAIN graver : graver[i] \in reasons}
  IN IF found = {} THEN "unavailable" ELSE graver[CHOOSE i \in found : \A j \in found : i <= j]

\* resolve_capability: one provider, or why there is none; a tie is ambiguous.
ResolveWith(r, c) ==
  CASE Best(r, c) = {} -> verdict' = Gravest(r, c) /\ UNCHANGED servers
    [] Cardinality(Best(r, c)) > 1 -> verdict' = "ambiguous_binding" /\ UNCHANGED servers
    [] OTHER -> /\ verdict' = "resolved"
                /\ servers' = Append(servers, CHOOSE p \in Best(r, c) : TRUE)

\* dispatch_capability, up to its first provider.
Ask(r, c) ==
  /\ Observed /\ asking = <<>>
  /\ asking' = <<r, c>>
  /\ IF GuardRefusal(r, c) # "none" THEN verdict' = GuardRefusal(r, c) /\ UNCHANGED servers
     ELSE ResolveWith(r, c)
  /\ UNCHANGED <<around, shifts, probed, facts, binding>>

\* resolve_fallback, after the provider failed in a way that allows another one.
AskAnother ==
  /\ verdict = "resolved" /\ Len(servers) < MaxServed
  /\ ResolveWith(asking[1], asking[2])
  /\ UNCHANGED <<around, shifts, probed, facts, binding, asking>>

Shift(w) ==
  /\ ~Observed /\ shifts < MaxShifts /\ w # around
  /\ around' = w /\ shifts' = shifts + 1
  /\ UNCHANGED <<probed, facts, binding, asking, verdict, servers>>

ResolutionNext ==
  \/ SeeProject \/ SeeEditor \/ SeeCli \/ SeePackage \/ SeeSurface \/ SeeArtist \/ SeeRest
  \/ \E r \in Asks, c \in Contexts : Ask(r, c)
  \/ AskAnother
  \/ \E w \in Worlds : Shift(w)

ResolutionSpec == ResolutionInit /\ [][ResolutionNext]_resolutionVars

-----------------------------------------------------------------------------
(* Properties.                                                              *)

\* A probe of the snapshot: what there was around then.
SeenAt(name) == probed[CHOOSE i \in DOMAIN Probes : Probes[i] = name]

\* The Editor that answered for the Artist had our Project open, with the version of the Project
\* and with the current protocols; its package and its command had been seen before that.
ArtistWasThere ==
  /\ "artist" \in SeenAt("package").manifest
  /\ SeenAt("cli").cli = "well" /\ SeenAt("surface").cli = "well" /\ SeenAt("artist").cli = "well"
  /\ "artist.inspect" \in SeenAt("surface").commands /\ "pipeline" \in SeenAt("surface").manifest
  /\ SeenAt("artist").pipe = "ours"
  /\ SeenAt("artist").editor = [version |-> SeenAt("artist").version, tier |-> "primary",
                            approval |-> "current", context |-> "current"]

\* An Editor of the Project's version was installed, or the only one that runs for the Project
\* could not be told, and the one that answered for the Artist had that version.
VersionWasThere ==
  LET wanted == SeenAt("project").version IN
  \/ wanted \in SeenAt("editor").disk
  \/ /\ ~SeenAt("editor").hidden /\ Cardinality(OfOurs(SeenAt("editor").editors)) = 1
     /\ SeenAt("artist").pipe = "ours" /\ SeenAt("artist").editor.version = wanted

\* However the world moves between the probes, and whichever provider is tried first or after
\* another failed: it is enabled, its Project was there, an MCP instance was the only one of the
\* Project, what its offer needs of the Editor and of the Pipeline had been answered by this
\* Project, an artistic request rests on an Artist that was there, a change had its complete
\* approval, and nobody is weaker than one tried before.
ServedAsSeen ==
  \A i \in DOMAIN servers :
    LET r == asking[1]
        c == asking[2]
        d == Registry[servers[i]]
        offer == d.offers[r.capability]
    IN
    /\ d.enabled /\ r.root = "ours" /\ SeenAt("project").project
    /\ d.binding = "environment" => Cardinality(OfOurs(SeenAt("rest").instances)) = 1
    /\ <<"cli", "yes">> \in offer.needs => SeenAt("cli").cli = "well"
    /\ <<"editorBound", "yes">> \in offer.needs =>
         ~SeenAt("editor").hidden /\ Cardinality(OfOurs(SeenAt("editor").editors)) = 1
    /\ <<"safeMode", "no">> \in offer.needs => ~SeenAt("editor").safe
    /\ <<"versionMatch", "yes">> \in offer.needs => VersionWasThere
    /\ <<"pipelineReach", "yes">> \in offer.needs =>
         "pipeline" \in SeenAt("rest").manifest /\ SeenAt("artist").pipe = "ours"
    /\ ArtistAsked(r) => ArtistWasThere
    /\ Policies[r.capability].approval = "hard" => r.approval /\ c.complete
    /\ \A j \in 1..i : LET earlier == Registry[servers[j]].offers[r.capability] IN
         earlier.safety <= offer.safety /\ earlier.proof <= offer.proof
=============================================================================
