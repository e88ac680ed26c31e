--------------------------- MODULE MCWorkspaceDag ----------------------------
(* What the Control Plane does around a Project: the Run that works in copies *)
(* of it and integrates them, the sittings of the live reference, the Artist  *)
(* commands in its Editor, and the setup of the tools of the host.  They      *)
(* share no file, so a behaviour is about one of them, and the others rest in *)
(* their initial states.                                                      *)
EXTENDS WorkspaceDag, CameraLive, ToolchainSetup, ArtistPipeline, TLC

CONSTANTS WorkspaceScene, LiveScene, SetupScene, CommandScene

VARIABLE about   \* the component a behaviour is about

\* A first sitting in a Project that is there already, its second one, which the completion gate
\* runs, and one in the fixture that approves for itself; two of them, at any time.
MCBaseScene == [fov |-> 40, rest |-> 0]
MCOrder(fixture, by) ==
  [run |-> "live", fixture |-> fixture, approve |-> fixture, consent |-> by, gated |-> by # 0]
MCLiveOrders == {MCOrder(FALSE, 0), MCOrder(FALSE, 1), MCOrder(TRUE, 0)}

\* A Run that plans, or only looks, and two that apply; the marketplace's name may be taken.
MCHost(owner) ==
  [unity_cli |-> "here", artist |-> "gone", optional |-> "gone", codex |-> "works",
   market |-> owner, plugin |-> "gone"]
MCFirstHosts == {MCHost("gone"), MCHost("foreign")}
MCSetupOps == [r \in SetupRuns |-> IF r = "first" THEN {"doctor", "plan"} ELSE {"apply"}]
MCSetupAsks == {{"plugin", "unity_cli"}, {"codex"}}

\* An intent that sets two of the three places, and one that sets the third.
MCPlaces == {"fog", "light", "shot"}
MCSetBy == [p \in MCPlaces |-> CASE p = "fog" -> "reflection" [] p = "light" -> "property" [] OTHER -> "timeline"]
MCIntents == {<<[place |-> "fog", look |-> "set"], [place |-> "light", look |-> "set"]>>,
              <<[place |-> "shot", look |-> "set"]>>}

MCInit ==
  /\ about \in {WorkspaceScene, LiveScene, SetupScene, CommandScene}
  /\ Init /\ LiveInit /\ SetupInit /\ PipelineInit
  /\ about # SetupScene => host = MCHost("gone")

WorkspacePart ==
  about = WorkspaceScene /\ Next /\ UNCHANGED <<liveVars, setupVars, pipelineVars>>
LivePart == about = LiveScene /\ LiveNext /\ UNCHANGED <<vars, setupVars, pipelineVars>>
SetupPart == about = SetupScene /\ SetupNext /\ UNCHANGED <<vars, liveVars, pipelineVars>>
CommandPart == about = CommandScene /\ PipelineNext /\ UNCHANGED <<vars, liveVars, setupVars>>

MCNext == (WorkspacePart \/ LivePart \/ SetupPart \/ CommandPart) /\ UNCHANGED about

MCSpec == MCInit /\ [][MCNext]_<<vars, liveVars, setupVars, pipelineVars, about>>

\* The Runs of the Artist commands are interchangeable.
MCSymmetry == Permutations(ArtRuns)
=============================================================================
