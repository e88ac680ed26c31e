------------------------------- MODULE FullE2E --------------------------------
(***************************************************************************)
(* The fixed end-to-end probe: apply_full_e2e (control_plane/full_e2e.py),  *)
(* FullE2EEditorProvider and, in the Editor, FullE2EBridge.cs.               *)
(*                                                                         *)
(* A probe is one call of apply_full_e2e.  It leaves a signed job in the     *)
(* bridge directory and waits for a result until the deadline.  The Editor   *)
(* looks there on every tick and carries the job through compilation and     *)
(* play mode; what it remembers of the job is active.json, because either    *)
(* reloads its domain.  Neither knows when the other one goes away, and      *)
(* people revoke approvals, edit the target and press the play button.       *)
(***************************************************************************)
EXTENDS Naturals

CONSTANTS
  Probes,       \* calls of apply_full_e2e, in the order they come
  NoProbe,
  MaxRestarts,  \* bounds of the model: restarts of the Editor
  MaxTampers    \* and interventions of people

ASSUME ProbeConstants ==
  Probes \subseteq Nat /\ NoProbe \notin Probes /\ MaxRestarts \in Nat /\ MaxTampers \in Nat

Made == {"material", "scene", "script"}
Parts == Made \union {"extra"}
Deeds == Made \union {"component", "played"}

VARIABLES
  \* ---- the Project
  folder, asset,    \* Assets/UnityAgentE2E, and who made what is in it
  consent,          \* the approvals of the mutation and of the save: nothing is done with one
  \* ---- the bridge directory, and the Runtime lease
  jobs, active, result, editorLease,
  \* ---- the Editor
  session,          \* its instance
  doing,            \* where it is within one tick
  compiling, broken, play,
  \* ---- the probes
  turn, ticket,     \* where each is, and the Editor instance its job was signed for
  expired,          \* the deadline of its job has passed
  answer,          \* the status it answered with
  deeds,            \* history: what each Editor did for it
  tampers

placeVars == <<folder, asset, consent>>
bridgeVars == <<jobs, active, result, editorLease>>
unityVars == <<session, doing, compiling, broken, play>>
probeVars == <<turn, ticket, expired, answer>>
e2eVars == <<placeVars, bridgeVars, unityVars, probeVars, deeds, tampers>>

NoJob == [of |-> NoProbe, phase |-> "none", failed |-> FALSE]
NoReport == [session |-> 0, status |-> "none"]

E2eInit ==
  /\ folder = FALSE /\ asset = [p \in Parts |-> "nothing"]
  /\ consent = "none"
  /\ jobs = {} /\ active = NoJob /\ result = [r \in Probes |-> NoReport] /\ editorLease = NoProbe
  /\ session = 1 /\ doing = "none" /\ compiling = FALSE /\ broken = FALSE /\ play = "edit"
  /\ turn = [r \in Probes |-> "idle"] /\ ticket = [r \in Probes |-> 0]
  /\ expired = [r \in Probes |-> FALSE] /\ answer = [r \in Probes |-> "none"]
  /\ deeds = [r \in Probes |-> {}] /\ tampers = 0

\* check_approvals and ApprovalsActive: both of them, neither revoked nor expired.
Consented == consent = "active"

-----------------------------------------------------------------------------
(* A probe.                                                                 *)

GoesTo(r, from, to) == turn[r] = from /\ turn' = [turn EXCEPT ![r] = to]

\* observe: a fresh heartbeat of the Editor of this Project, out of safe mode.
Observed == ~broken

\* _load_plan: the plan made anew is the same one, which includes that its target is absent.
PlanFits == ~folder

BeginProbe(r) ==
  /\ \A q \in Probes : q < r => turn[q] # "idle"
  /\ IF PlanFits /\ Consented /\ Observed
     THEN GoesTo(r, "idle", "dispatching") ELSE GoesTo(r, "idle", "over")
  /\ UNCHANGED <<placeVars, bridgeVars, unityVars, ticket, expired, answer, deeds, tampers>>

\* execute and dispatch_capability: the lease, or an answer.
LeaseEditor(r) ==
  /\ IF editorLease = NoProbe
     THEN GoesTo(r, "dispatching", "leased") /\ editorLease' = r
     ELSE GoesTo(r, "dispatching", "over") /\ UNCHANGED editorLease
  /\ UNCHANGED <<placeVars, jobs, active, result, unityVars, ticket, expired, answer, deeds, tampers>>

\* Checked again, the job is signed for the Editor that was observed.
SubmitJob(r) ==
  /\ IF Consented /\ Observed
     THEN /\ GoesTo(r, "leased", "waiting")
          /\ jobs' = jobs \union {r} /\ ticket' = [ticket EXCEPT ![r] = session]
     ELSE GoesTo(r, "leased", "failing") /\ UNCHANGED <<jobs, ticket>>
  /\ UNCHANGED <<placeVars, active, result, editorLease, unityVars, expired, answer, deeds, tampers>>

TakeAnyResult(r) ==   \* mutant: a signed result is a passed one
  /\ result[r] # NoReport
  /\ GoesTo(r, "waiting", "comparing")
  /\ UNCHANGED <<placeVars, bridgeVars, unityVars, ticket, expired, answer, deeds, tampers>>

\* A result counts if it is of the same Editor, still approved, and passed.
TakeResult(r) ==
  /\ result[r] # NoReport
  /\ GoesTo(r, "waiting",
            IF result[r].session = ticket[r] /\ Consented /\ result[r].status = "passed"
            THEN "comparing" ELSE "failing")
  /\ UNCHANGED <<placeVars, bridgeVars, unityVars, ticket, expired, answer, deeds, tampers>>

\* The declared files are there, nothing else is, and the script is the reviewed one.
CompareTarget(r) ==
  /\ GoesTo(r, "comparing",
            IF /\ \A p \in Made : asset[p] # "nothing"
               /\ asset["script"] = "ours" /\ asset["extra"] = "nothing"
            THEN "passing" ELSE "failing")
  /\ UNCHANGED <<placeVars, bridgeVars, unityVars, ticket, expired, answer, deeds, tampers>>

\* The Editor did not answer in time; the job stays where it is.
GiveUp(r) ==
  /\ expired[r] /\ GoesTo(r, "waiting", "failing")
  /\ UNCHANGED <<placeVars, bridgeVars, unityVars, ticket, expired, answer, deeds, tampers>>

RecordProbe(r) ==
  /\ turn[r] \in {"passing", "failing"}
  /\ turn' = [turn EXCEPT ![r] = "over"]
  /\ answer' = [answer EXCEPT ![r] = IF turn[r] = "passing" THEN "completed" ELSE "blocked"]
  /\ editorLease' = NoProbe
  /\ UNCHANGED <<placeVars, jobs, active, result, unityVars, ticket, expired, deeds, tampers>>

\* The process dies; its job and its lease stay.
DieProbing(r) ==
  /\ turn[r] \notin {"idle", "over"}
  /\ turn' = [turn EXCEPT ![r] = "over"]
  /\ UNCHANGED <<placeVars, bridgeVars, unityVars, ticket, expired, answer, deeds, tampers>>

JobIsLate(r) ==
  /\ ticket[r] # 0 /\ ~expired[r]
  /\ expired' = [expired EXCEPT ![r] = TRUE]
  /\ UNCHANGED <<placeVars, bridgeVars, unityVars, turn, ticket, answer, deeds, tampers>>

-----------------------------------------------------------------------------
(* The Editor: Tick.                                                        *)

\* ValidTicketIdentity: signed for this instance of the Editor.
Bound(r) == ticket[r] = session

ReportJob(r, status) == result' = [result EXCEPT ![r] = [session |-> session, status |-> status]]

\* BeginNext: a job is taken up, or answered at once.
BeginJob(r) ==
  /\ doing = "none" /\ active = NoJob /\ r \in jobs
  /\ play = "edit" /\ ~compiling
  /\ IF Bound(r) /\ ~broken /\ ~expired[r] /\ Consented
     THEN /\ active' = [of |-> r, phase |-> "create", failed |-> FALSE]
          /\ UNCHANGED <<jobs, result>>
     ELSE jobs' = jobs \ {r} /\ ReportJob(r, "failed") /\ UNCHANGED active
  /\ UNCHANGED <<placeVars, editorLease, unityVars, probeVars, deeds, tampers>>

\* active.json alone means nothing to another instance.
RejectActive ==
  /\ doing = "none" /\ active # NoJob /\ ~Bound(active.of)
  /\ active' = NoJob
  /\ play' = IF play = "play" THEN "leaving" ELSE play
  /\ UNCHANGED <<placeVars, jobs, result, editorLease, session, doing, compiling, broken,
                 probeVars, deeds, tampers>>

\* Advance is about a job of this instance; one that is late or not approved any more ends.
Mine == doing = "none" /\ active # NoJob /\ Bound(active.of)
Over == expired[active.of] \/ ~Consented
In(phase) == Mine /\ active.phase = phase /\ (phase # "exit" => ~Over)

NeverExpires ==   \* mutant: the deadline is looked at when a job begins, and not again
  /\ Mine /\ ~Consented /\ ~ (active.phase = "exit" /\ active.failed)
  /\ active' = [active EXCEPT !.phase = "exit", !.failed = TRUE]
  /\ UNCHANGED <<placeVars, jobs, result, editorLease, unityVars, probeVars, deeds, tampers>>

Expire ==
  /\ Mine /\ Over /\ ~ (active.phase = "exit" /\ active.failed)
  /\ active' = [active EXCEPT !.phase = "exit", !.failed = TRUE]
  /\ UNCHANGED <<placeVars, jobs, result, editorLease, unityVars, probeVars, deeds, tampers>>

\* An exception ends the tick, and the job leaves through "exit".
Throw ==
  /\ active' = [active EXCEPT !.phase = "exit", !.failed = TRUE]
  /\ doing' = "none"

Does(deed) == deeds' = [deeds EXCEPT ![active.of] = @ \union {<<session, deed>>}]

\* CreateAssets, up to the folder: an idle Editor, an absent target.
CreateFolder ==
  /\ In("create")
  /\ IF play = "edit" /\ ~compiling /\ ~folder
     THEN folder' = TRUE /\ doing' = "look material" /\ UNCHANGED active
     ELSE Throw /\ UNCHANGED folder
  /\ UNCHANGED <<asset, consent, jobs, result, editorLease, session, compiling, broken, play,
                 probeVars, deeds, tampers>>

LookStep(p) == CASE p = "material" -> "look material" [] p = "scene" -> "look scene"
               [] p = "script" -> "look script"
MakeStep(p) == CASE p = "material" -> "make material" [] p = "scene" -> "make scene"
               [] p = "script" -> "make script"
StepAfter(p) == CASE p = "material" -> "look scene" [] p = "scene" -> "look script"
                [] p = "script" -> "none"

\* Before each of them: still approved, and not there yet.
LookFor(p) ==
  /\ doing = LookStep(p)
  /\ IF Consented /\ asset[p] = "nothing"
     THEN doing' = MakeStep(p) /\ UNCHANGED active ELSE Throw
  /\ UNCHANGED <<placeVars, jobs, result, editorLease, session, compiling, broken, play,
                 probeVars, deeds, tampers>>

\* The Editor writes over what has come since; the script alone is created exclusively.  The
\* phase is saved before the script is there, because its import reloads the domain.
Make(p) ==
  /\ doing = MakeStep(p)
  /\ \/ /\ p = "script" => asset[p] = "nothing"
        /\ asset' = [asset EXCEPT ![p] = "ours"] /\ folder' = TRUE
        /\ Does(p)
        /\ doing' = StepAfter(p)
        /\ active' = IF p = "scene" THEN [active EXCEPT !.phase = "compile"] ELSE active
        /\ compiling' = (p = "script")
     \/ Throw /\ UNCHANGED <<folder, asset, deeds, compiling>>
  /\ UNCHANGED <<consent, jobs, result, editorLease, session, broken, play, probeVars, tampers>>

\* The import ends, with errors or without.
CompileEnds ==
  /\ compiling /\ doing = "none"
  /\ compiling' = FALSE /\ broken' \in BOOLEAN
  /\ UNCHANGED <<placeVars, bridgeVars, session, doing, play, probeVars, deeds, tampers>>

\* ObserveCompile: the probe is loaded and goes into the scene, which is saved once more.
ObserveCompile ==
  /\ In("compile") /\ ~compiling
  /\ \/ /\ ~broken /\ play = "edit"
        /\ \A p \in Made : asset[p] # "nothing"
        /\ asset' = [asset EXCEPT !["scene"] = "ours"]
        /\ Does("component")
        /\ active' = [active EXCEPT !.phase = "play"]
        /\ play' \in {"entering", "edit"}
        /\ UNCHANGED doing
     \/ Throw /\ UNCHANGED <<asset, deeds, play>>
  /\ UNCHANGED <<folder, consent, jobs, result, editorLease, session, compiling, broken, probeVars, tampers>>

PlayChanges ==
  /\ doing = "none"
  /\ \/ play = "entering" /\ play' \in {"play", "edit"}
     \/ play = "leaving" /\ play' = "edit"
  /\ UNCHANGED <<placeVars, bridgeVars, session, doing, compiling, broken, probeVars, deeds, tampers>>

\* ObservePlaymode: the probe says that it was started.
ObservePlay ==
  /\ In("play") /\ play = "play"
  /\ asset["script"] # "nothing" /\ Does("played")
  /\ active' = [active EXCEPT !.phase = "exit"]
  /\ play' = "leaving"
  /\ UNCHANGED <<placeVars, jobs, result, editorLease, session, doing, compiling, broken, probeVars, tampers>>

LeavePlay ==
  /\ In("exit") /\ play = "play" /\ (Over => active.failed)
  /\ play' = "leaving"
  /\ UNCHANGED <<placeVars, bridgeVars, session, doing, compiling, broken, probeVars, deeds, tampers>>

\* FinishJob: what is in the folder is what was declared, or the job has failed.
FinishJob ==
  /\ In("exit") /\ play = "edit" /\ (Over => active.failed)
  /\ \E restored \in BOOLEAN :
       ReportJob(active.of, IF /\ ~active.failed /\ restored
                            /\ \A p \in Made : asset[p] # "nothing"
                            /\ asset["extra"] = "nothing"
                         THEN "passed" ELSE "failed")
  /\ doing' = "forget"
  /\ UNCHANGED <<placeVars, jobs, active, editorLease, session, compiling, broken, play,
                 probeVars, deeds, tampers>>

Forget ==
  /\ doing = "forget"
  /\ jobs' = jobs \ {active.of} /\ active' = NoJob /\ doing' = "none"
  /\ UNCHANGED <<placeVars, result, editorLease, session, compiling, broken, play,
                 probeVars, deeds, tampers>>

Tick ==
  \/ \E r \in Probes : BeginJob(r)
  \/ RejectActive \/ Expire \/ CreateFolder \/ \E p \in Made : LookFor(p) \/ Make(p)
  \/ ObserveCompile \/ ObservePlay \/ LeavePlay \/ FinishJob \/ Forget

\* The Editor goes down at any point, and comes back as another instance.
ReloadSession ==
  /\ session <= MaxRestarts
  /\ session' = session + 1
  /\ doing' = "none" /\ play' = "edit" /\ compiling' = FALSE /\ broken' \in BOOLEAN
  /\ UNCHANGED <<placeVars, bridgeVars, probeVars, deeds, tampers>>

-----------------------------------------------------------------------------
(* People.                                                                  *)

\* Both approvals are given, for a plan whose target is absent; one of them is over.
Consent ==
  /\ \/ consent = "none" /\ PlanFits /\ consent' = "active"
     \/ consent = "active" /\ consent' = "over"
  /\ UNCHANGED <<folder, asset, bridgeVars, unityVars, probeVars, deeds, tampers>>

\* A file is put there or taken away, the folder is deleted, or the play button is pressed.
Tamper ==
  /\ tampers < MaxTampers /\ tampers' = tampers + 1
  /\ \/ /\ folder /\ UNCHANGED <<folder, play>>
        /\ \E p \in Parts, by \in {"theirs", "nothing"} : asset' = [asset EXCEPT ![p] = by]
     \/ folder' = FALSE /\ asset' = [p \in Parts |-> "nothing"] /\ UNCHANGED play
     \/ /\ doing = "none" /\ UNCHANGED <<folder, asset>>
        /\ play' = CASE play = "edit" -> "entering" [] play = "play" -> "leaving" [] OTHER -> play
  /\ UNCHANGED <<consent, bridgeVars, session, doing, compiling, broken, probeVars, deeds>>

\* The lease of a process that is gone is removed by hand.
ClearEditorLease ==
  /\ editorLease # NoProbe /\ turn[editorLease] = "over"
  /\ editorLease' = NoProbe
  /\ UNCHANGED <<placeVars, jobs, active, result, unityVars, probeVars, deeds, tampers>>

-----------------------------------------------------------------------------

ProbeStep(r) ==
  \/ BeginProbe(r) \/ LeaseEditor(r) \/ SubmitJob(r) \/ TakeResult(r) \/ CompareTarget(r)
  \/ GiveUp(r) \/ RecordProbe(r) \/ DieProbing(r)

E2eNext ==
  \/ \E r \in Probes : ProbeStep(r) \/ JobIsLate(r)
  \/ Tick \/ CompileEnds \/ PlayChanges \/ ReloadSession
  \/ Consent \/ Tamper \/ ClearEditorLease

E2eSpec == E2eInit /\ [][E2eNext]_e2eVars

\* The Editor ticks, its transitions come to an end, and time passes.
E2eFairness ==
  /\ WF_e2eVars(Tick) /\ WF_e2eVars(CompileEnds) /\ WF_e2eVars(PlayChanges)
  /\ WF_e2eVars(\E r \in Probes : JobIsLate(r))

E2eFairSpec == E2eSpec /\ E2eFairness

-----------------------------------------------------------------------------
(* Properties.                                                              *)

\* A probe that is called completed was carried out from the first asset to play mode, by
\* the one Editor its job was signed for: no part of it is another probe's or another
\* Editor's, and nothing was skipped by a reload, a restart or an exception.
CompletedProbeRan ==
  \A r \in Probes : answer[r] = "completed" => deeds[r] = {ticket[r]} \X Deeds

\* A job never occupies the Editor for good: whatever compiles or does not, whoever presses
\* play, revokes or deletes, and though nobody waits for it any more, it is over one day.
JobLeavesEditor == active # NoJob ~> active = NoJob
=============================================================================
