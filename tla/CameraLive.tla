------------------------------ MODULE CameraLive ------------------------------
(***************************************************************************)
(* The live reference of the camera's field of view                          *)
(* (tools/run_camera_fov_reference_live.py) and the completion gate that      *)
(* believes it (tools/reference_implementation_final_gate.py).               *)
(*                                                                         *)
(* A live Run takes two sittings, or one in the disposable fixture: the      *)
(* first opens the Project, inspects the scene, plans, previews and leaves   *)
(* what a person is to review; the second, given an approval, applies,       *)
(* captures, inspects again and writes a report, and then the gate record    *)
(* by which the report is believed later.  Between any two steps a sitting   *)
(* may stop or die, people edit and save the scene, the Editor closes, the   *)
(* sources change, and another sitting may run on the same Project.          *)
(* What an apply does inside is ArtistRun and ArtistPipeline.                *)
(***************************************************************************)
EXTENDS Naturals, Sequences

CONSTANTS
  LiveRuns, LiveNumbers,   \* Runs, and sittings, numbered as they begin
  LiveOrders,              \* what a sitting may be asked for
  LooksOf, Rest,           \* fields of view, and what else there is in a scene
  BaseScene,               \* the scene that the fixture's bootstrap writes
  FovBefore, FovAfter,
  Shut,                    \* no Editor
  Untold,                  \* no such file
  MaxConsents, MaxUnasked   \* bounds of the model

SceneContents == [fov : LooksOf, rest : Rest]

LiveOrder ==
  [run : LiveRuns, fixture : BOOLEAN, approve : BOOLEAN, consent : Nat, gated : BOOLEAN]

\* What is left for review, and what is reported.
Review ==
  [sources : {0, 1}, fixture : BOOLEAN, hash : SceneContents, seen : SceneContents, design : Nat]
Report ==
  [fixture : BOOLEAN, sources : {0, 1}, hash : SceneContents, seen : SceneContents, design : Nat,
   applied : [from : SceneContents, to : SceneContents], after : SceneContents]

ASSUME LiveConstants ==
  /\ BaseScene \in SceneContents /\ BaseScene.fov = FovBefore
  /\ FovAfter \in LooksOf \ {FovBefore}
  /\ LiveNumbers \subseteq Nat /\ LiveOrders \subseteq LiveOrder
  /\ Shut \notin SceneContents /\ Untold \notin Review \union Report

VARIABLES
  onDisk, inEditor,   \* the scene, as saved and as it is open
  remembers,          \* the plans that the Editor instance holds
  sources,            \* the sources of the Runtime and of the Editor package
  designs,            \* the registered plans: the Run and the revision of each
  consents,           \* the approvals, each of one plan
  pending,            \* artist-live-pending: what the first sitting leaves
  told,               \* artist-live-reports
  proven,             \* the gate records
  sitting,            \* the sittings
  goal,               \* final-completion-gate.json
  changed,            \* history: the mutations that the Editor made
  unasked

liveVars == <<onDisk, inEditor, remembers, sources, designs, consents, pending, told, proven,
              sitting, goal, changed, unasked>>

NotBegun == [at |-> "idle"]

LiveInit ==
  /\ onDisk = BaseScene /\ inEditor = Shut /\ remembers = {} /\ sources = 0
  /\ designs = <<>> /\ consents = <<>>
  /\ pending = [r \in LiveRuns |-> Untold] /\ told = pending /\ proven = pending
  /\ sitting = [s \in LiveNumbers |-> NotBegun]
  /\ goal = [terminal |-> "none", run |-> Untold]
  /\ changed = {} /\ unasked = 0

Order(s) == sitting[s].order
Held(s) == sitting[s]

\* A sitting goes on with what it has learnt, or ends and leaves its answer to the gate that ran it.
AnswerOf(o, how) == [at |-> "ended", order |-> o, outcome |-> IF o.gated THEN how ELSE "none"]
Goes(s, to) == sitting' = [sitting EXCEPT ![s].at = to]
Learns(s, to, what) == sitting' = [sitting EXCEPT ![s] = [what EXCEPT !.at = to]]
EndsWith(s, how) == sitting' = [sitting EXCEPT ![s] = AnswerOf(Order(s), how)]

-----------------------------------------------------------------------------
(* The first sitting.                                                        *)

\* Resuming wants both an approval and something pending; without either it all begins anew.
Resuming(o) == o.consent # 0 /\ pending[o.run] # Untold

BeginSitting(s, o) ==
  /\ sitting[s] = NotBegun /\ \A k \in LiveNumbers : k < s => sitting[k] # NotBegun
  /\ o.consent \in 0 .. Len(consents)
  /\ sitting' = [sitting EXCEPT ![s] =
       [at |-> IF Resuming(o) THEN "resume" ELSE IF o.fixture THEN "stop" ELSE "open",
        order |-> o, hash |-> BaseScene, seen |-> BaseScene, design |-> 0,
        consent |-> o.consent, applied |-> Untold, after |-> BaseScene, report |-> Untold]]
  /\ UNCHANGED <<onDisk, inEditor, remembers, sources, designs, consents, pending, told, proven,
                 goal, changed, unasked>>

\* The fixture's Editors are killed with what they have not saved.
StopFixtureEditor(s) ==
  /\ Held(s).at = "stop" /\ Goes(s, "prepare")
  /\ inEditor' = Shut /\ remembers' = {}
  /\ UNCHANGED <<onDisk, sources, designs, consents, pending, told, proven, goal, changed, unasked>>

\* The bootstrap is a batch Editor of its own, which another Editor of the Project keeps out.
PrepareFixture(s) ==
  /\ Held(s).at = "prepare"
  /\ IF inEditor = Shut THEN onDisk' = BaseScene /\ Goes(s, "open")
                        ELSE EndsWith(s, "failed") /\ UNCHANGED onDisk
  /\ UNCHANGED <<inEditor, remembers, sources, designs, consents, pending, told, proven, goal,
                 changed, unasked>>

\* `unity open` starts an Editor unless there is one.
OpenEditor(s) ==
  /\ Held(s).at = "open" /\ Goes(s, IF Order(s).fixture THEN "hash" ELSE "scene")
  /\ inEditor' = IF inEditor = Shut THEN onDisk ELSE inEditor
  /\ UNCHANGED <<onDisk, remembers, sources, designs, consents, pending, told, proven, goal,
                 changed, unasked>>

\* What becomes of a scene that is open already and not saved is the Editor's affair.
OpenScene(s) ==
  /\ Held(s).at = "scene" /\ inEditor # Shut /\ Goes(s, "hash")
  /\ inEditor' \in {inEditor, onDisk}
  /\ UNCHANGED <<onDisk, remembers, sources, designs, consents, pending, told, proven, goal,
                 changed, unasked>>

HashScene(s) ==
  /\ Held(s).at = "hash" /\ Learns(s, "inspect", [Held(s) EXCEPT !.hash = onDisk])
  /\ UNCHANGED <<onDisk, inEditor, remembers, sources, designs, consents, pending, told, proven,
                 goal, changed, unasked>>

InspectBefore(s) ==
  /\ Held(s).at = "inspect" /\ inEditor # Shut
  /\ IF inEditor.fov = FovBefore THEN Learns(s, "plan", [Held(s) EXCEPT !.seen = inEditor])
                                 ELSE EndsWith(s, "failed")
  /\ UNCHANGED <<onDisk, inEditor, remembers, sources, designs, consents, pending, told, proven,
                 goal, changed, unasked>>

\* The plan is registered, and so may be approved, whatever the sitting then says of it.
PlanFov(s) ==
  LET d == Len(designs) + 1 IN
  /\ Held(s).at = "plan" /\ inEditor # Shut
  /\ designs' = Append(designs, [run |-> Order(s).run, base |-> inEditor])
  /\ remembers' = remembers \union {d}
  /\ IF inEditor = Held(s).seen THEN Learns(s, "preview", [Held(s) EXCEPT !.design = d])
                                ELSE EndsWith(s, "failed")
  /\ UNCHANGED <<onDisk, inEditor, sources, consents, pending, told, proven, goal, changed,
                 unasked>>

\* A preview asks whether the Editor still has the plan, not whether the scene still is the plan's.
PreviewFov(s) ==
  /\ Held(s).at = "preview" /\ inEditor # Shut
  /\ IF Held(s).design \in remembers THEN Goes(s, "keep") ELSE EndsWith(s, "blocked")
  /\ UNCHANGED <<onDisk, inEditor, remembers, sources, designs, consents, pending, told, proven,
                 goal, changed, unasked>>

ToReview(s) ==
  [sources |-> sources, fixture |-> Order(s).fixture, hash |-> Held(s).hash, seen |-> Held(s).seen,
   design |-> Held(s).design]

\* Written once: a first sitting that is repeated under the same Run ends here.
KeepPending(s) ==
  /\ Held(s).at = "keep"
  /\ IF pending[Order(s).run] = Untold
     THEN pending' = [pending EXCEPT ![Order(s).run] = ToReview(s)] /\ Goes(s, "review")
     ELSE EndsWith(s, "failed") /\ UNCHANGED pending
  /\ UNCHANGED <<onDisk, inEditor, remembers, sources, designs, consents, told, proven, goal,
                 changed, unasked>>

-----------------------------------------------------------------------------
(* The second sitting.                                                       *)

ResumePending(s) ==
  LET left == pending[Order(s).run] IN
  /\ Held(s).at = "resume"
  /\ IF left.sources = sources /\ left.fixture = Order(s).fixture
     THEN Learns(s, "again", [Held(s) EXCEPT !.hash = left.hash, !.seen = left.seen,
                                             !.design = left.design])
     ELSE EndsWith(s, "failed")
  /\ UNCHANGED <<onDisk, inEditor, remembers, sources, designs, consents, pending, told, proven,
                 goal, changed, unasked>>

InspectAgain(s) ==
  /\ Held(s).at = "again" /\ inEditor # Shut
  /\ IF inEditor = designs[Held(s).design].base THEN Goes(s, "review") ELSE EndsWith(s, "failed")
  /\ UNCHANGED <<onDisk, inEditor, remembers, sources, designs, consents, pending, told, proven,
                 goal, changed, unasked>>

\* An apply without an approval must be refused; then the fixture's plan is approved when that
\* was asked for, and everyone else's has to have been.
ReviewFov(s) ==
  /\ Held(s).at = "review"
  /\ \/ /\ Order(s).approve /\ Len(consents) < MaxConsents
        /\ consents' = Append(consents, [design |-> Held(s).design, spent |-> FALSE])
        /\ Learns(s, "apply", [Held(s) EXCEPT !.consent = Len(consents) + 1])
     \/ /\ ~Order(s).approve /\ UNCHANGED consents
        /\ IF Order(s).consent = 0 THEN EndsWith(s, "blocked") ELSE Goes(s, "apply")
  /\ UNCHANGED <<onDisk, inEditor, remembers, sources, designs, pending, told, proven, goal,
                 changed, unasked>>

\* What ArtistRun and ArtistPipeline promise: only by an approval of this plan, which it spends;
\* only while the Editor has the plan and the scene is the plan's; and the Editor has it no more.
Apply(s) ==
  LET d == Held(s).design
      c == Held(s).consent IN
  /\ Held(s).at = "apply" /\ inEditor # Shut
  /\ IF consents[c] = [design |-> d, spent |-> FALSE] /\ d \in remembers /\ inEditor = designs[d].base
     THEN /\ inEditor' = [inEditor EXCEPT !.fov = FovAfter] /\ remembers' = remembers \ {d}
          /\ consents' = [consents EXCEPT ![c].spent = TRUE]
          /\ changed' = changed \union {[design |-> d, consent |-> c, from |-> inEditor, to |-> inEditor']}
          /\ Learns(s, "capture", [Held(s) EXCEPT !.applied = [from |-> inEditor, to |-> inEditor']])
     ELSE EndsWith(s, "failed") /\ UNCHANGED <<inEditor, remembers, consents, changed>>
  /\ UNCHANGED <<onDisk, sources, designs, pending, told, proven, goal, unasked>>

Capture(s) ==
  /\ Held(s).at = "capture" /\ inEditor # Shut /\ Goes(s, "after")
  /\ UNCHANGED <<onDisk, inEditor, remembers, sources, designs, consents, pending, told, proven,
                 goal, changed, unasked>>

InspectAfter(s) ==
  /\ Held(s).at = "after" /\ inEditor # Shut
  /\ Learns(s, "saved", [Held(s) EXCEPT !.after = inEditor])
  /\ UNCHANGED <<onDisk, inEditor, remembers, sources, designs, consents, pending, told, proven,
                 goal, changed, unasked>>

\* The whole of it happens in the Editor's memory: the scene on disk is to be as it was.
CheckUnsaved(s) ==
  /\ Held(s).at = "saved"
  /\ IF onDisk = Held(s).hash THEN Goes(s, "verify") ELSE EndsWith(s, "failed")
  /\ UNCHANGED <<onDisk, inEditor, remembers, sources, designs, consents, pending, told, proven,
                 goal, changed, unasked>>

ReportOf(s) ==
  [fixture |-> Order(s).fixture, sources |-> sources, hash |-> Held(s).hash, seen |-> Held(s).seen,
   design |-> Held(s).design, applied |-> Held(s).applied, after |-> Held(s).after]

\* mutant: what was seen after the apply is not compared with what it made
RevisionsFollowLoosely(t) ==
  /\ t.applied.from = designs[t.design].base /\ t.applied.from # t.applied.to

\* The revisions follow from each other: of the plan, of the apply, of the scene afterwards.
RevisionsFollow(t) ==
  /\ t.applied.from = designs[t.design].base /\ t.applied.from # t.applied.to
  /\ t.applied.to = t.after

\* verify_live_evidence, but for the gate record.
VerifiedLive(t) ==
  /\ t.sources = sources /\ t.hash = onDisk
  /\ t.seen.fov = FovBefore /\ t.after.fov = FovAfter
  /\ RevisionsFollow(t)

VerifyReport(s) ==
  /\ Held(s).at = "verify"
  /\ IF VerifiedLive(ReportOf(s)) THEN Learns(s, "write", [Held(s) EXCEPT !.report = ReportOf(s)])
                              ELSE EndsWith(s, "failed")
  /\ UNCHANGED <<onDisk, inEditor, remembers, sources, designs, consents, pending, told, proven,
                 goal, changed, unasked>>

\* The report first, then the record that binds it; neither is ever written again.
WriteReport(s) ==
  /\ Held(s).at = "write"
  /\ IF told[Order(s).run] = Untold
     THEN told' = [told EXCEPT ![Order(s).run] = Held(s).report] /\ Goes(s, "record")
     ELSE EndsWith(s, "failed") /\ UNCHANGED told
  /\ UNCHANGED <<onDisk, inEditor, remembers, sources, designs, consents, pending, proven, goal,
                 changed, unasked>>

WriteGateRecord(s) ==
  /\ Held(s).at = "record"
  /\ proven' = [proven EXCEPT ![Order(s).run] = Held(s).report]
  /\ IF Order(s).fixture THEN Goes(s, "close") ELSE EndsWith(s, "passed")
  /\ UNCHANGED <<onDisk, inEditor, remembers, sources, designs, consents, pending, told, goal,
                 changed, unasked>>

CloseFixture(s) ==
  /\ Held(s).at = "close" /\ EndsWith(s, "passed")
  /\ inEditor' = Shut /\ remembers' = {}
  /\ UNCHANGED <<onDisk, sources, designs, consents, pending, told, proven, goal, changed, unasked>>

\* A command runs out of its time, an Editor or the CLI does not answer, or the process dies.
\* Nothing of a sitting is left but its files, and what it made the Editor do.
StopSitting(s, how) ==
  /\ Held(s).at \notin {"idle", "ended"} /\ EndsWith(s, how)
  /\ UNCHANGED <<onDisk, inEditor, remembers, sources, designs, consents, pending, told, proven,
                 goal, changed, unasked>>

-----------------------------------------------------------------------------
(* The completion gate.  Its other checks pass or not.                       *)

Terminal(live, others) ==
  IF ~others \/ live \notin {"passed", "blocked"} THEN "GOAL_NOT_COMPLETE"
  ELSE IF live = "blocked" THEN "GOAL_BLOCKED_EXTERNAL" ELSE "GOAL_COMPLETE"

\* The gate has run a sitting and read its answer.
ConcludeSitting(s, others) ==
  /\ Held(s).at = "ended" /\ Order(s).gated
  /\ sitting' = [sitting EXCEPT ![s] = AnswerOf([Order(s) EXCEPT !.gated = FALSE], "none")]
  /\ goal' = [terminal |-> Terminal(Held(s).outcome, others), run |-> Order(s).run]
  /\ UNCHANGED <<onDisk, inEditor, remembers, sources, designs, consents, pending, told, proven,
                 changed, unasked>>

\* The gate looks at a live Run again instead.  What it finds wrong with the files it reports;
\* a report that no longer describes the Project raises what the gate does not catch, and the
\* answer of an earlier gate stays.
Reconsider(r, others) ==
  /\ \/ /\ told[r] # Untold /\ proven[r] = told[r] /\ VerifiedLive(told[r])
        /\ goal' = [terminal |-> Terminal("passed", others), run |-> r]
     \/ /\ proven[r] = Untold /\ (told[r] # Untold => told[r].sources = sources)
        /\ goal' = [terminal |-> "GOAL_NOT_COMPLETE", run |-> r]
  /\ UNCHANGED <<onDisk, inEditor, remembers, sources, designs, consents, pending, told, proven,
                 sitting, changed, unasked>>

-----------------------------------------------------------------------------
(* Everyone else.                                                            *)

\* A person approves a plan that is registered.
ApproveDesign ==
  /\ Len(consents) < MaxConsents
  /\ \E d \in DOMAIN designs : consents' = Append(consents, [design |-> d, spent |-> FALSE])
  /\ UNCHANGED <<onDisk, inEditor, remembers, sources, designs, pending, told, proven, sitting,
                 goal, changed, unasked>>

Unasked == unasked < MaxUnasked /\ unasked' = unasked + 1

\* An edit in the Editor, an undo among them, or a save.
EditLiveScene ==
  /\ Unasked /\ inEditor # Shut /\ inEditor' \in SceneContents \ {inEditor}
  /\ UNCHANGED <<onDisk, remembers, sources, designs, consents, pending, told, proven, sitting,
                 goal, changed>>

SaveLiveScene ==
  /\ Unasked /\ inEditor \notin {Shut, onDisk} /\ onDisk' = inEditor
  /\ UNCHANGED <<inEditor, remembers, sources, designs, consents, pending, told, proven, sitting,
                 goal, changed>>

\* The Editor is closed, and opened again by hand.
TurnEditor ==
  /\ Unasked /\ inEditor' = IF inEditor = Shut THEN onDisk ELSE Shut
  /\ remembers' = {}
  /\ UNCHANGED <<onDisk, sources, designs, consents, pending, told, proven, sitting, goal, changed>>

EditSources ==
  /\ Unasked /\ sources' = 1 - sources
  /\ UNCHANGED <<onDisk, inEditor, remembers, designs, consents, pending, told, proven, sitting,
                 goal, changed>>

SitStep(s) ==
  \/ \E o \in LiveOrders : BeginSitting(s, o)
  \/ StopFixtureEditor(s) \/ PrepareFixture(s) \/ OpenEditor(s) \/ OpenScene(s) \/ HashScene(s)
  \/ InspectBefore(s) \/ PlanFov(s) \/ PreviewFov(s) \/ KeepPending(s) \/ ResumePending(s)
  \/ InspectAgain(s) \/ ReviewFov(s) \/ Apply(s) \/ Capture(s) \/ InspectAfter(s) \/ CheckUnsaved(s)
  \/ VerifyReport(s) \/ WriteReport(s) \/ WriteGateRecord(s) \/ CloseFixture(s)
  \/ \E how \in {"blocked", "failed"} : StopSitting(s, how)
  \/ \E others \in BOOLEAN : ConcludeSitting(s, others)

LiveNext ==
  \/ \E s \in LiveNumbers : SitStep(s)
  \/ \E r \in LiveRuns, others \in BOOLEAN : Reconsider(r, others)
  \/ ApproveDesign \/ EditLiveScene \/ SaveLiveScene \/ TurnEditor \/ EditSources

LiveSpec == LiveInit /\ [][LiveNext]_liveVars

-----------------------------------------------------------------------------
\* A live Run that has its gate record, or of which the completion gate says that it is complete,
\* is what a person reviewed: the plan that was left for review was applied, once, by an approval
\* of that plan, to the very scene that was reviewed; the scene seen afterwards is that scene with
\* the new field of view; and when it was verified the scene on disk was the one hashed before
\* anything was planned (run_live, verify_live_evidence).
ProvenIsReviewed ==
  /\ goal.terminal = "GOAL_COMPLETE" => proven[goal.run] # Untold
  /\ \A r \in LiveRuns : proven[r] # Untold =>
       LET t == proven[r] IN
       /\ told[r] = t /\ pending[r].design = t.design /\ pending[r].hash = t.hash
       /\ pending[r].seen = t.applied.from /\ t.after = [pending[r].seen EXCEPT !.fov = FovAfter]
       /\ {[from |-> m.from, to |-> m.to] : m \in {n \in changed : n.design = t.design}} = {t.applied}
       /\ \E m \in changed : \A n \in changed : n.design = t.design =>
            n = m /\ consents[n.consent] = [design |-> t.design, spent |-> TRUE]
=============================================================================
