------------------------- MODULE SpecialistReasoning -------------------------
(***************************************************************************)
(* How a Run asks a specialist to reason about the Project                   *)
(* (UnityAgentControlPlane.execute on its reasoning routes): it is routed,   *)
(* its Context is selected and budgeted, the observations the specialist     *)
(* needs are dispatched and kept as evidence, read back from it, and given   *)
(* to an external model in a workspace of its own, whose answer is believed  *)
(* only if it rests on them.                                                *)
(*                                                                         *)
(* A call is one execute.  The Project lease admits one at a time, and a     *)
(* call that died leaves it to a person.  People edit the Project whenever   *)
(* they like, and a call may be repeated under the same Run.  The files of   *)
(* the package itself (routes, policies, instructions, schemas) do not       *)
(* change.  A digest is what it is taken of.                                *)
(***************************************************************************)
EXTENDS Naturals, Sequences, FiniteSets

CONSTANTS
  Thinkers,       \* the calls
  Inquiries,      \* what they may be asked: a kind of task, a Run and what the request says
  Findings,       \* what a provider may return
  Contents,       \* what the Project may hold
  VersionIn, PipelineIn,  \* what a content says of itself
  MaxRewrites,    \* edits of the Project
  MaxLosses,      \* deaths of calls
  Absent          \* no such thing on disk; no call

\* The compatibility of the profiles.
SupportedVersions == {"6000"}
SupportedPipelines == {"builtin", "urp", "hdrp"}

\* What each route dispatches, in order, and what its profile must have observed.
Dispatched(kind) ==
  CASE kind = "world" -> <<"project.inspect">>
    [] kind = "graphics" -> <<"source.read", "project.inspect">>
    [] kind = "performance" -> <<"project.inspect", "profiler.observe">>

Required(kind) ==
  CASE kind = "world" -> {}
    [] kind = "graphics" -> {"source.read", "project.inspect"}
    [] kind = "performance" -> {"profiler.observe"}

ASSUME ReasoningConstants ==
  /\ \A q \in Inquiries : q.kind \in {"world", "graphics", "performance"}
  /\ VersionIn \in [Contents -> STRING] /\ PipelineIn \in [Contents -> STRING]
  /\ Absent \notin Thinkers

VARIABLES
  inquiry,    \* what each call is asked, and the Unity version its environment snapshot gives
  thought,    \* where each call is
  mind,       \* what it holds in memory
  contents,   \* what the Project holds
  rewrites, losses,
  reasoner,   \* who has the Project lease
  manifests,  \* the manifests kept in each Run
  artifacts,  \* the artifacts kept in each Run
  proofs,     \* the evidence of each Run by its identity
  states,     \* the execution state of each Run
  outputs     \* the Runs with a directory of what their model has written

diskVars == <<manifests, artifacts, proofs, states, outputs>>
worldVars == <<inquiry, contents, rewrites, losses>>
reasoningVars == <<thought, mind, diskVars, worldVars, reasoner>>

\* The results of the dispatches so far; the Context, and the one before the observations, by
\* which the evidence is defined; the Project when the model started and when it ended; its
\* answer; and whether the execution has passed.
Blank == [outcomes |-> <<>>, context |-> Absent, first |-> Absent, started |-> Absent,
          ended |-> Absent, answer |-> Absent, judged |-> FALSE]

ThoughtRuns == {q.run : q \in Inquiries}
\* The identity under which a Run records its reasoning.
Reasoned == <<"reasoning", 1>>

Kind(c) == inquiry[c].kind
RunBy(c) == inquiry[c].run

ReasoningInit ==
  /\ inquiry \in [Thinkers -> Inquiries]
  /\ thought = [c \in Thinkers |-> "idle"] /\ mind = [c \in Thinkers |-> Blank]
  /\ contents \in Contents /\ rewrites = 0 /\ losses = 0 /\ reasoner = Absent
  /\ manifests = [r \in ThoughtRuns |-> {}] /\ artifacts = [r \in ThoughtRuns |-> {}]
  /\ proofs = [r \in ThoughtRuns |-> <<>>]
  /\ states = [r \in ThoughtRuns |-> Absent] /\ outputs = {}

Thinks(c, step) == thought[c] = step

Think(c, step) == thought' = [thought EXCEPT ![c] = step]

\* The call comes back, or an exception leaves it: either way the lease is given back.
EndCall(c, how) ==
  /\ Think(c, how) /\ reasoner' = Absent
  /\ mind' = [mind EXCEPT ![c] = Blank]

-----------------------------------------------------------------------------
(* Evidence.                                                                *)

\* EvidenceStore.append: a record is there once.  A second one would have another time, is
\* refused, and the exception leaves the call.
Fresh(c, id) == id \notin DOMAIN proofs[RunBy(c)]

Put(c, id, proof) ==
  LET before == proofs[RunBy(c)]
  IN proofs' = [proofs EXCEPT ![RunBy(c)] =
       [i \in DOMAIN before \union {id} |-> IF i = id THEN proof ELSE before[i]]]

\* _record_pre_provider_failure: nothing was executed.
Preflight == [source |-> "preflight", status |-> "failed", definition |-> Absent]

\* _blocked_before_dispatch: the evidence, then the state, and the call comes back.
BlockBefore(c) ==
  IF Fresh(c, <<"preflight", 1>>)
  THEN /\ Put(c, <<"preflight", 1>>, Preflight) /\ EndCall(c, "blocked")
       /\ states' = [states EXCEPT ![RunBy(c)] = [status |-> "blocked", refs |-> {<<"preflight", 1>>}]]
  ELSE EndCall(c, "raised") /\ UNCHANGED <<proofs, states>>

\* _completion: what a finding proves of the evidence the request needs.
Completion(f) ==
  IF f.status = "passed" \/ f.class = "execution"
  THEN CASE f.observed = "all" -> "verified"
         [] f.observed = "some" -> "partial_verified"
         [] OTHER -> "implemented_unverified"
  ELSE CASE f.observed # "none" -> "partial_verified"
         [] f.class = "environment" -> "blocked_by_environment"
         [] OTHER -> "implemented_unverified"

\* _evidence_status.
EvidenceStatus(f) ==
  IF f.status = "passed"
  THEN IF Completion(f) \in {"verified", "partial_verified"} THEN "passed" ELSE "unverified"
  ELSE IF f.class = "environment" THEN "unavailable" ELSE "failed"

\* normalize_provider_result and the durable form of it: the payload is what was seen.
Normalized(c, capability, f) ==
  [source |-> "provider", status |-> EvidenceStatus(f), completion |-> Completion(f),
   capability |-> capability, payload |-> contents, definition |-> mind[c].first]

\* read_observation: verified evidence of this Run and this capability, and the payload.
Reads(r, id, capability) ==
  LET proof == proofs[r][id] IN
  /\ id \in DOMAIN proofs[r] /\ proof.source = "provider"
  /\ proof.status = "passed" /\ proof.completion = "verified"
  /\ proof.capability = capability

-----------------------------------------------------------------------------
(* Routing and Context.                                                     *)

\* derive_context_inputs and select_items: the facts of a request, all of them current.
Facts(c) ==
  {"unity_version", "requested_scope", "goal"} \union (IF inquiry[c].target THEN {"requested_target"} ELSE {})

\* resolve_profile_context, as far as the environment goes: enough to start observing.
Activates(version) == version \in SupportedVersions

\* What an item of evidence says beyond itself (observation_items).
ObservedFacts(items) ==
  {"relevant_source" : i \in {j \in items : j.capability = "source.read"}}
    \union {"render_pipeline" : i \in {j \in items : j.capability = "project.inspect"
                                                      /\ PipelineIn[j.content] # "unknown"}}

\* all_of, any_of and the values of the compatibility.
SelectsOn(c, items) ==
  LET facts == Facts(c) \union ObservedFacts(items) IN
  /\ Activates(inquiry[c].version)
  /\ Kind(c) = "graphics" =>
       /\ {"render_pipeline", "relevant_source"} \subseteq facts
       /\ \A i \in items : i.capability = "project.inspect" => PipelineIn[i.content] \in SupportedPipelines
  /\ Kind(c) = "performance" => "requested_target" \in facts

\* What a Context is selected from: the sources of its route, and the facts of the request.
Given(c) == [kind |-> Kind(c), version |-> inquiry[c].version, facts |-> Facts(c)]

\* materialize_context: its identity is its content.
Materialized(c, items) == [given |-> Given(c), items |-> items]

\* evaluate: sizes are not modelled.  What is "blocked" is not materialized, and only what is
\* within the budget is used.
Decisions == {"within_budget", "compression_required", "unmeasured", "blocked"}

\* The manifest is kept under its digest.
Keep(c, view) == manifests' = [manifests EXCEPT ![RunBy(c)] = @ \union {view}]

\* The lease, and the routing: an incomplete request has no route.
Enter(c) ==
  /\ Thinks(c, "idle") /\ reasoner = Absent
  /\ reasoner' = c /\ Think(c, "routing")
  /\ UNCHANGED <<mind, diskVars, worldVars>>

Busy(c) ==
  /\ Thinks(c, "idle") /\ reasoner # Absent
  /\ Think(c, "blocked")
  /\ UNCHANGED <<mind, diskVars, worldVars, reasoner>>

\* A request that has no single route, owner or capability.
Unrouted(c) ==
  /\ Thinks(c, "routing") /\ ~inquiry[c].routed
  /\ BlockBefore(c)
  /\ UNCHANGED <<worldVars, manifests, artifacts, outputs>>

\* The Project must still be of the version the snapshot gives.
Unprepared(c) ==
  /\ Thinks(c, "routing") /\ inquiry[c].routed /\ VersionIn[contents] # inquiry[c].version
  /\ BlockBefore(c)
  /\ UNCHANGED <<worldVars, manifests, artifacts, outputs>>

PrepareContext(c) ==
  /\ Thinks(c, "routing") /\ inquiry[c].routed /\ VersionIn[contents] = inquiry[c].version
  /\ IF Activates(inquiry[c].version) THEN Think(c, "selecting") /\ UNCHANGED <<mind, reasoner>>
                                      ELSE EndCall(c, "blocked")
  /\ UNCHANGED <<diskVars, worldVars>>

\* The first manifest.  It is kept even if it is not used.
SelectContext(c) ==
  /\ Thinks(c, "selecting")
  /\ LET view == Materialized(c, {}) IN
     \E decision \in Decisions :
       IF decision = "blocked" THEN BlockBefore(c) /\ UNCHANGED manifests
       ELSE /\ Keep(c, view) /\ UNCHANGED <<proofs, states>>
            /\ IF decision = "within_budget"
               THEN /\ mind' = [mind EXCEPT ![c].context = view, ![c].first = view]
                    /\ Think(c, "handing") /\ UNCHANGED reasoner
               ELSE EndCall(c, "blocked")
  /\ UNCHANGED <<worldVars, artifacts, outputs>>

\* The handoff is made, its proof kept, and the Run is running.
StartRun(c) ==
  /\ Thinks(c, "handing")
  /\ states' = [states EXCEPT ![RunBy(c)] = [status |-> "running", refs |-> {}]]
  /\ Think(c, "observing")
  /\ UNCHANGED <<mind, worldVars, manifests, artifacts, proofs, outputs, reasoner>>

-----------------------------------------------------------------------------
(* Observing.                                                               *)

AllCompleted(results) == \A n \in DOMAIN results : results[n].status = "completed"

\* A state names the evidence of the results so far.
Refs(results) == {results[n].proof : n \in DOMAIN results}

\* ToolBroker.dispatch (ToolDispatch) and what is made of its outcome.  A dispatch that found
\* no provider leaves a preflight record; one that broke its contract raises.
ObserveNext(c, f) ==
  LET n == Len(mind[c].outcomes) + 1
      capability == Dispatched(Kind(c))[n]
      id == <<IF f.status = "unresolved" THEN "preflight" ELSE "evidence", n>>
      results == Append(mind[c].outcomes, [capability |-> capability, proof |-> id,
                          status |-> IF f.status = "passed" THEN "completed" ELSE "blocked"])
  IN
  /\ Thinks(c, "observing")
  /\ IF f.status = "malformed" \/ ~Fresh(c, id)
     THEN EndCall(c, "raised") /\ UNCHANGED <<proofs, states>>
     ELSE /\ Put(c, id, IF f.status = "unresolved" THEN Preflight ELSE Normalized(c, capability, f))
          /\ mind' = [mind EXCEPT ![c].outcomes = results]
          /\ states' = [states EXCEPT ![RunBy(c)] = [status |-> "running", refs |-> Refs(results)]]
          /\ IF n < Len(Dispatched(Kind(c))) THEN UNCHANGED thought
             ELSE Think(c, IF AllCompleted(results) THEN "reading" ELSE "finishing")
          /\ UNCHANGED reasoner
  /\ UNCHANGED <<worldVars, manifests, artifacts, outputs>>

-----------------------------------------------------------------------------
(* Reasoning.                                                               *)

\* The one result of each required observation, read back from its evidence.
Items(c) ==
  {[proof |-> mind[c].outcomes[n].proof, capability |-> mind[c].outcomes[n].capability,
    content |-> proofs[RunBy(c)][mind[c].outcomes[n].proof].payload] :
     n \in {m \in DOMAIN mind[c].outcomes : mind[c].outcomes[m].capability \in Required(Kind(c))}}

\* The observations are evidence of this execution and of this definition, and the facts
\* they hold select the specialist.
Usable(c) ==
  /\ \A capability \in Required(Kind(c)) : \E n \in DOMAIN mind[c].outcomes :
       /\ Reads(RunBy(c), mind[c].outcomes[n].proof, capability)
       /\ proofs[RunBy(c)][mind[c].outcomes[n].proof].definition = mind[c].first
  /\ SelectsOn(c, Items(c))

\* The second manifest holds what was observed, if it fits the budget.
BindObserved(c) ==
  /\ Thinks(c, "reading") /\ Required(Kind(c)) # {} /\ Usable(c)
  /\ LET view == Materialized(c, Items(c)) IN
     \E decision \in Decisions :
       IF decision = "within_budget"
       THEN Keep(c, view) /\ mind' = [mind EXCEPT ![c].context = view] /\ Think(c, "starting")
       ELSE UNCHANGED <<mind, manifests>> /\ Think(c, "recording")
  /\ UNCHANGED <<worldVars, artifacts, proofs, states, outputs, reasoner>>

Unbound(c) ==
  /\ Thinks(c, "reading") /\ Required(Kind(c)) # {} /\ ~Usable(c)
  /\ Think(c, "recording")
  /\ UNCHANGED <<mind, diskVars, worldVars, reasoner>>

\* A planner has its whole Context already.
BoundBefore(c) ==
  /\ Thinks(c, "reading") /\ Required(Kind(c)) = {}
  /\ Think(c, "starting")
  /\ UNCHANGED <<mind, diskVars, worldVars, reasoner>>

\* execute_reasoning: the Context and the instructions go to a temporary workspace, the
\* Project is hashed, and the model starts.
StartModel(c) ==
  /\ Thinks(c, "starting")
  /\ IF inquiry[c].model
     THEN Think(c, "thinking") /\ mind' = [mind EXCEPT ![c].started = contents]
     ELSE Think(c, "recording") /\ UNCHANGED mind
  /\ UNCHANGED <<diskVars, worldVars, reasoner>>

\* What a model may say: the Context it names, the evidence it cites, and whether it keeps to
\* the request (supplied decisions, measured values, no change without approval).
Answers(c) ==
  [names : {mind[c].context, mind[c].first}, cites : SUBSET {o.proof : o \in Items(c)}, kept : BOOLEAN]

\* The model ends: with an answer of the asked form or without (timeout, exit code, form, or a
\* change of its workspace).  The Project is hashed again.
EndModelTrusting(c) ==   \* mutant: the Project is not hashed again
  /\ Thinks(c, "thinking")
  /\ \E said \in Answers(c) \union {Absent} :
       mind' = [mind EXCEPT ![c].answer = said, ![c].ended = contents, ![c].judged = said # Absent]
  /\ Think(c, "verifying")
  /\ UNCHANGED <<diskVars, worldVars, reasoner>>

EndModel(c) ==
  /\ Thinks(c, "thinking")
  /\ \E said \in Answers(c) \union {Absent} :
       mind' = [mind EXCEPT ![c].answer = said, ![c].ended = contents,
                            ![c].judged = said # Absent /\ contents = mind[c].started]
  /\ Think(c, "verifying")
  /\ UNCHANGED <<diskVars, worldVars, reasoner>>

\* verify_world_plan, verify_graphics_analysis, verify_performance_analysis.
BindsContext(c) == mind[c].answer.names = mind[c].context

CitesObserved(c) == mind[c].answer.cites \subseteq {i.proof : i \in mind[c].context.items}

Supports(c) ==
  Kind(c) = "graphics" =>
    {i.capability : i \in {j \in mind[c].context.items : j.proof \in mind[c].answer.cites}}
      = {"source.read", "project.inspect"}

Convinces(c) == BindsContext(c) /\ CitesObserved(c) /\ Supports(c) /\ mind[c].answer.kept

\* What the model wrote is copied once per Run; the artifact of a passed execution is kept.
VerifyAnswer(c) ==
  /\ Thinks(c, "verifying")
  /\ LET passes == mind[c].judged /\ RunBy(c) \notin outputs /\ Convinces(c) IN
     /\ mind' = [mind EXCEPT ![c].judged = passes]
     /\ artifacts' = IF passes THEN [artifacts EXCEPT ![RunBy(c)] = @ \union {mind[c].answer}] ELSE artifacts
  /\ outputs' = outputs \union {RunBy(c)}
  /\ Think(c, "recording")
  /\ UNCHANGED <<worldVars, manifests, proofs, states, reasoner>>

\* The evidence of the reasoning, whichever way it went.
RecordReasoning(c) ==
  /\ Thinks(c, "recording")
  /\ IF Fresh(c, Reasoned)
     THEN /\ Put(c, Reasoned,
               [source |-> "reasoning", status |-> IF mind[c].judged THEN "passed" ELSE "failed",
                definition |-> mind[c].context, artifact |-> IF mind[c].judged THEN mind[c].answer ELSE Absent,
                started |-> mind[c].started, ended |-> mind[c].ended])
          /\ mind' = [mind EXCEPT ![c].outcomes = Append(@,
               [capability |-> Kind(c), proof |-> Reasoned,
                status |-> IF mind[c].judged THEN "completed" ELSE "blocked"])]
          /\ Think(c, "finishing") /\ UNCHANGED reasoner
     ELSE EndCall(c, "raised") /\ UNCHANGED proofs
  /\ UNCHANGED <<worldVars, manifests, artifacts, states, outputs>>

\* The final state, the observation of the strategy, and the lease.
Finish(c) ==
  /\ Thinks(c, "finishing")
  /\ states' = [states EXCEPT ![RunBy(c)] =
       [status |-> IF AllCompleted(mind[c].outcomes) THEN "completed" ELSE "blocked", refs |-> Refs(mind[c].outcomes)]]
  /\ EndCall(c, "done")
  /\ UNCHANGED <<worldVars, manifests, artifacts, proofs, outputs>>

-----------------------------------------------------------------------------
(* The world.                                                               *)

\* Somebody, or the model itself, writes to the Project.
Rewrite ==
  /\ rewrites < MaxRewrites /\ rewrites' = rewrites + 1
  /\ \E p \in Contents \ {contents} : contents' = p
  /\ UNCHANGED <<inquiry, thought, mind, diskVars, losses, reasoner>>

\* The process of the call ends.  Its lease stays.
Lose(c) ==
  /\ losses < MaxLosses /\ losses' = losses + 1
  /\ reasoner = c /\ Think(c, "lost") /\ mind' = [mind EXCEPT ![c] = Blank]
  /\ UNCHANGED <<inquiry, diskVars, contents, rewrites, reasoner>>

\* A person clears the lease of a call that is no more.
ClearLease ==
  /\ reasoner # Absent /\ Thinks(reasoner, "lost")
  /\ reasoner' = Absent
  /\ UNCHANGED <<thought, mind, diskVars, worldVars>>

ThinkNext ==
  \/ \E c \in Thinkers :
       \/ Enter(c) \/ Busy(c) \/ Unrouted(c) \/ Unprepared(c) \/ PrepareContext(c) \/ SelectContext(c)
       \/ StartRun(c) \/ (\E f \in Findings : ObserveNext(c, f))
       \/ BindObserved(c) \/ Unbound(c) \/ BoundBefore(c) \/ StartModel(c) \/ EndModel(c) \/ VerifyAnswer(c)
       \/ RecordReasoning(c) \/ Finish(c) \/ Lose(c)
  \/ Rewrite \/ ClearLease

ReasoningSpec == ReasoningInit /\ [][ThinkNext]_reasoningVars

-----------------------------------------------------------------------------
(* Properties.                                                              *)

\* A reasoning that has passed is one whose artifact was kept and names the Context that was
\* kept for it, and during which the Project stayed as it was; that Context holds exactly the
\* observations its profile requires, each of them verified evidence of the same Run, with the
\* content it was recorded with, and of a Project the profile supports.
ProvenReasoning(r) ==
  LET proof == proofs[r][Reasoned]
      view == proof.definition
  IN
  /\ proof.started = proof.ended
  /\ proof.artifact \in artifacts[r] /\ proof.artifact.names = view /\ view \in manifests[r]
  /\ {i.capability : i \in view.items} = Required(view.given.kind)
  /\ \A i \in view.items :
       /\ Reads(r, i.proof, i.capability) /\ proofs[r][i.proof].payload = i.content
       /\ proofs[r][i.proof].definition = [view EXCEPT !.items = {}]
       /\ i.capability = "project.inspect" => PipelineIn[i.content] \in SupportedPipelines
  /\ view.given.version \in SupportedVersions
  /\ proof.artifact.kept

\* The Run has recorded a reasoning that passed.
HasReasoned(r) == Reasoned \in DOMAIN proofs[r] /\ proofs[r][Reasoned].status = "passed"

\* A Run is believed only on such a reasoning, and on evidence that is there: no repetition of
\* the Run, no edit of the Project and no death in between makes another one pass.
ReasonedOnObserved ==
  \A r \in ThoughtRuns :
    /\ HasReasoned(r) => ProvenReasoning(r)
    /\ states[r] # Absent =>
         /\ states[r].refs \subseteq DOMAIN proofs[r]
         /\ states[r].status = "completed" => HasReasoned(r)
=============================================================================
