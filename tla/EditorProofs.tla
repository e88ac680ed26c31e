---------------------------- MODULE EditorProofs -----------------------------
(***************************************************************************)
(* Machine-checked facts about what runs in the Editors of a Project: for  *)
(* every number of imports of RockImport, that the files of others stay;   *)
(* for every number of probes of FullE2E, that a completed probe ran in    *)
(* full in one Editor; for every number of jobs, recoveries and processes  *)
(* of ProjectEditors, that a job passes on its own results, and that a     *)
(* recovery ends nobody but its target; for every number of sessions,      *)
(* approvals and plans of ArtistRun, that every mutation is the single use *)
(* of an approval which was not revoked before its consumption; and for    *)
(* every number of plans, shots and Editors of ArtistPipeline, that an     *)
(* apply ends with what was reviewed, or with the scene as it was.         *)
(***************************************************************************)
EXTENDS RockImport, FullE2E, ProjectEditors, ArtistRun, ArtistPipeline, TLAPS

(* RockImport: what other people put into the target of an import.         *)

Captured == [Empty EXCEPT !.model = "ours", !.derived = "ours"]

\* Past its last look the Editor makes assets only where nothing of others was; and a receipt
\* never lists a file as captured that others have made.
RockInv ==
  /\ area \in [model : {"nothing", "ours", "theirs", "meanwhile"},
               derived : {"nothing", "part", "ours", "theirs", "meanwhile"},
               extra : {"nothing", "theirs", "meanwhile"}]
  /\ touches \in Nat /\ receipt \in {NoReceipt, Captured}
  /\ unity \in [of : Imports \union {NoImport}, action : ImportActions \union {"none"},
                step : {"none", "checking", "importing", "saving", "capturing", "reporting"}]
  /\ action \in [Imports -> ImportActions \union {"none"}]
  /\ unity.step \in {"importing", "saving", "capturing"} =>
       area.model # "theirs" /\ area.derived # "theirs"

\* The invariant of the Rock import holds at first,
LEMMA InitRock == RockInit => RockInv
BY DEF RockInit, RockInv, Empty, NoReceipt, NoEditor, ImportActions

\* Settling leaves what was theirs before, and nobody's file becomes the import's.
LEMMA SettledTarget ==
  ASSUME RockInv
  PROVE  /\ Settled(area) \in [model : {"nothing", "ours", "theirs", "meanwhile"},
                              derived : {"nothing", "part", "ours", "theirs", "meanwhile"},
                              extra : {"nothing", "theirs", "meanwhile"}]
         /\ DOMAIN area = {"model", "derived", "extra"}
         /\ \A f \in DOMAIN area : area[f] = "theirs" => Settled(area)[f] = "theirs"
BY DEF RockInv, Settled

\* every step keeps it,
LEMMA StepRock == RockInv /\ [RockNext]_rockVars => RockInv'
<1>1. SUFFICES ASSUME RockInv, RockNext PROVE RockInv'
  BY DEF rockVars, projectVars, rockFileVars, runVarsOfRock, RockInv
<1>2. CASE \E r \in Imports : ImportStep(r)
  <2>1. PICK r \in Imports : ImportStep(r)
    BY <1>2
  <2>2. CASE KillEditor(r)
    BY <1>1, <2>2, SettledTarget DEF KillEditor, EditorEnds, rockFileVars, RockInv, NoEditor
  <2>3. CASE StageModel(r)
    BY <1>1, <2>3 DEF StageModel, ImportGoes, rockFileVars, RockInv
  <2>4. CASE Launch(r)
    BY <1>1, <2>4 DEF Launch, projectVars, rockFileVars, RockInv, NoEditor
  <2>5. CASE \E a \in ImportActions : BeginImport(r, a)
    BY <1>1, <2>5 DEF BeginImport, projectVars, rockFileVars, RockInv
  <2> QED
    BY <1>1, <2>1, <2>2, <2>3, <2>4, <2>5
       DEF ImportStep, LeaseImport, CheckApply, WriteTicket, CheckRollback, JudgeEditor,
           FinishImport, DieImporting, projectVars, rockFileVars, RockInv
<1>3. CASE EditorChecks \/ EditorFails \/ EditorReports
  <2>1. CASE EditorEnds
    BY <1>1, <1>3, <2>1, SettledTarget
       DEF EditorChecks, EditorFails, EditorReports, EditorEnds, rockFileVars, RockInv, NoEditor
  <2>2. CASE ~EditorEnds
    BY <1>1, <1>3, <2>2
       DEF EditorChecks, EditorFails, EditorReports, Proceed, rockFileVars, RockInv, Empty
  <2> QED BY <2>1, <2>2
<1>4. CASE EditorImports
  BY <1>1, <1>4 DEF EditorImports, EditorAt, Proceed, rockFileVars, RockInv
<1>5. CASE EditorCaptures
  BY <1>1, <1>5 DEF EditorCaptures, EditorAt, Proceed, RockInv, Captured, Empty
<1>6. CASE EditorDeletes
  <2>1. CASE EditorEnds
    BY <1>1, <1>6, <2>1, SettledTarget
       DEF EditorDeletes, EditorEnds, rockFileVars, RockInv, NoEditor
  <2>2. CASE ~EditorEnds
    BY <1>1, <1>6, <2>2 DEF EditorDeletes, Proceed, rockFileVars, RockInv, Empty
  <2> QED BY <2>1, <2>2
<1>7. CASE \E k \in DOMAIN grant : Grant(k) \/ WithdrawGrant(k)
  BY <1>1, <1>7 DEF Grant, WithdrawGrant, projectVars, runVarsOfRock, RockInv
<1>8. CASE Touch
  <2>1. UNCHANGED <<receipt, unity, action>> /\ touches' \in Nat
    BY <1>1, <1>8 DEF Touch, rockFileVars, runVarsOfRock, RockInv
  <2>2. DOMAIN area = {"model", "derived", "extra"}
    BY <1>1 DEF RockInv
  <2> QED BY <1>1, <1>8, <2>1, <2>2 DEF Touch, AtWork, RockInv
<1>9. CASE ClearLease
  BY <1>1, <1>9 DEF ClearLease, projectVars, runVarsOfRock, RockInv
<1> QED BY <1>1, <1>2, <1>3, <1>4, <1>5, <1>6, <1>7, <1>8, <1>9 DEF RockNext

\* and so it always holds.
LEMMA RockInvariant == RockSpec => []RockInv
BY InitRock, StepRock, PTL DEF RockSpec

\* Whatever runs die, and whenever people touch the target, what others had put there before the
\* Editor's last look is neither overwritten nor deleted by the import or its rollback
\* (RockImportBridge.ApplyApproved, RollbackApproved; StagedAssets._write).
THEOREM OthersFilesKept == RockSpec => TheirsIsKept
<1> DEFINE Kept == \A f \in DOMAIN area :
                     area[f] = "theirs" /\ touches' = touches => area'[f] = "theirs"
<1>1. ASSUME RockInv, RockNext, NEW f \in DOMAIN area, area[f] = "theirs", touches' = touches
      PROVE  area'[f] = "theirs"
  <2>1. f \in {"model", "derived", "extra"}
    BY <1>1 DEF RockInv
  <2>2. CASE UNCHANGED area \/ EditorEnds
    BY <1>1, <2>2, SettledTarget DEF EditorEnds
  <2>3. CASE \E r \in Imports : StageModel(r) /\ area' # area
    BY <1>1, <2>1, <2>3 DEF StageModel, RockInv
  <2>4. CASE EditorImports \/ EditorCaptures
    BY <1>1, <2>1, <2>4 DEF EditorImports, EditorCaptures, EditorAt, RockInv, Empty
  <2>5. CASE EditorDeletes /\ ~EditorEnds
    BY <1>1, <2>1, <2>5 DEF EditorDeletes, AsCaptured, RockInv, Captured, NoReceipt, Empty
  <2>6. ~Touch
    BY <1>1 DEF Touch, RockInv
  <2> QED
    BY <1>1, <2>2, <2>3, <2>4, <2>5, <2>6
       DEF RockNext, ImportStep, BeginImport, LeaseImport, CheckApply, StageModel, WriteTicket,
           CheckRollback, Launch, JudgeEditor, KillEditor, FinishImport, DieImporting, EditorChecks,
           EditorReports, EditorDeletes, EditorFails, Grant, WithdrawGrant, ClearLease, projectVars
<1>2. RockInv /\ [RockNext]_rockVars => [Kept]_rockVars
  BY <1>1
<1> QED BY <1>2, RockInvariant, PTL DEF RockSpec, TheirsIsKept

-----------------------------------------------------------------------------
(* FullE2E: what a completed probe did.                                    *)

Turns == {"idle", "dispatching", "leased", "waiting", "comparing", "passing", "failing", "over"}
TickSteps == {"none", "look material", "make material", "look scene", "make scene", "look script",
              "make script", "forget"}

ProbeTypes ==
  /\ turn \in [Probes -> Turns] /\ ticket \in [Probes -> Nat]
  /\ answer \in [Probes -> {"none", "completed", "blocked"}]
  /\ session \in Nat \ {0} /\ doing \in TickSteps
  /\ jobs \subseteq Probes
  /\ active \in [of : Probes \union {NoProbe}, phase :
       {"none", "create", "compile", "play", "exit"},
                 failed : BOOLEAN]
  /\ result \in [Probes -> [session : Nat, status : {"none", "passed", "failed"}]]
  /\ DOMAIN deeds = Probes

\* A job is signed once, for an Editor that has been; and everything done for it, that one did.
SignedOnce ==
  /\ \A r \in Probes :
       /\ turn[r] \in {"idle", "dispatching", "leased"} => ticket[r] = 0
       /\ ticket[r] <= session
       /\ ticket[r] = 0 => r \notin jobs /\ active.of # r /\ result[r].status # "passed"
       /\ deeds[r] \subseteq {ticket[r]} \X Deeds
       /\ ticket[r] = 0 => deeds[r] = {}
  /\ active.of = NoProbe => active = NoJob

\* Within one tick the Editor is at work on the job that it remembers, which is its own.
TickOfMine ==
  /\ active.failed => active.phase = "exit"
  /\ doing # "none" =>
       /\ active # NoJob /\ Bound(active.of)
       /\ doing \in {"look material", "make material", "look scene", "make scene"} =>
            active.phase = "create"
       /\ doing \in {"look script", "make script"} => active.phase = "compile"
       /\ doing = "forget" => active.phase = "exit"

\* What has been done when it is there.
Due ==
  CASE active.phase = "create" ->
         IF doing \in {"look scene", "make scene"} THEN {"material"} ELSE {}
    [] active.phase = "compile" ->
         IF doing \in {"look script", "make script"} THEN {"material", "scene"} ELSE Made
    [] active.phase = "play" -> Made \union {"component"}
    [] OTHER -> Deeds

DoneSoFar ==
  active # NoJob /\ Bound(active.of) /\ ~active.failed =>
    \A d \in Due : <<session, d>> \in deeds[active.of]

PassedRan ==
  \A r \in Probes :
    \/ result[r].status = "passed" /\ result[r].session = ticket[r]
    \/ turn[r] \in {"comparing", "passing"}
    \/ answer[r] = "completed"
    => ticket[r] # 0 /\ \A d \in Deeds : <<ticket[r], d>> \in deeds[r]

ProbeInv == ProbeTypes /\ SignedOnce /\ TickOfMine /\ DoneSoFar /\ PassedRan

\* The invariant of the probe holds at first,
LEMMA InitProbe == E2eInit => ProbeInv
BY ProbeConstants
   DEF E2eInit, ProbeInv, ProbeTypes, SignedOnce, TickOfMine, DoneSoFar, PassedRan, Turns,
       TickSteps, NoJob, NoReport

\* The Editor's job, seen by what leaves it alone.
LEMMA EditorLeft ==
  ASSUME ProbeInv, UNCHANGED <<session, doing, active, deeds>>, ticket' = ticket
  PROVE  TickOfMine' /\ DoneSoFar'
BY DEF ProbeInv, TickOfMine, DoneSoFar, Due, Bound

\* What a probe does, which is nothing in the Editor, and what happens to its time.
LEMMA ProbeKeeps ==
  ASSUME ProbeInv, NEW r \in Probes, ProbeStep(r) \/ JobIsLate(r)
  PROVE  ProbeInv'
<1>1. CASE SubmitJob(r)
  <2>1. UNCHANGED <<session, doing, active, deeds, result, answer>>
    BY <1>1 DEF SubmitJob, unityVars
  <2>2. /\ turn[r] = "leased" /\ ticket[r] = 0 /\ session \in Nat \ {0}
        /\ turn' \in [Probes -> Turns] /\ \A q \in Probes \ {r} : turn'[q] = turn[q]
        /\ turn'[r] \in {"waiting", "failing"}
        /\ ticket' \in {ticket, [ticket EXCEPT ![r] = session]}
        /\ jobs' \subseteq jobs \union {r} /\ (ticket' = ticket => jobs' = jobs)
    BY <1>1 DEF SubmitJob, GoesTo, ProbeInv, ProbeTypes, SignedOnce, Turns
  <2>3. ProbeTypes'
    BY <2>1, <2>2 DEF ProbeInv, ProbeTypes
  <2>4. SignedOnce'
    BY <2>1, <2>2 DEF ProbeInv, ProbeTypes, SignedOnce
  <2>5. active # NoJob => active.of \in Probes /\ active.of # r
    BY <2>2 DEF ProbeInv, ProbeTypes, SignedOnce
  <2>6. TickOfMine' /\ DoneSoFar'
    BY <2>1, <2>2, <2>5 DEF ProbeInv, ProbeTypes, TickOfMine, DoneSoFar, Due, Bound
  <2>7. PassedRan'
    BY <2>1, <2>2 DEF ProbeInv, ProbeTypes, SignedOnce, PassedRan
  <2> QED BY <2>3, <2>4, <2>6, <2>7 DEF ProbeInv
<1>2. CASE ~SubmitJob(r)
  <2>1. UNCHANGED <<session, doing, active, deeds, result, jobs, ticket>>
    BY <1>2 DEF ProbeStep, BeginProbe, LeaseEditor, TakeResult, CompareTarget, GiveUp, RecordProbe,
         DieProbing, JobIsLate, bridgeVars, unityVars
  <2>2. /\ turn' \in [Probes -> Turns] /\ \A q \in Probes \ {r} : turn'[q] = turn[q]
        /\ turn'[r] \in {"idle", "dispatching", "leased"} =>
             turn[r] \in {"idle", "dispatching", "leased"}
        /\ turn'[r] \in {"comparing", "passing"} =>
             \/ turn[r] \in {"comparing", "passing"}
             \/ result[r].status = "passed" /\ result[r].session = ticket[r]
    BY <1>2 DEF ProbeStep, BeginProbe, LeaseEditor, TakeResult, CompareTarget, GiveUp, RecordProbe,
         DieProbing, JobIsLate, GoesTo, ProbeInv, ProbeTypes, Turns
  <2>3. /\ answer' \in [Probes -> {"none", "completed", "blocked"}]
        /\ \A q \in Probes \ {r} : answer'[q] = answer[q]
        /\ answer'[r] = "completed" => answer[r] = "completed" \/ turn[r] = "passing"
    BY <1>2 DEF ProbeStep, BeginProbe, LeaseEditor, TakeResult, CompareTarget, GiveUp, RecordProbe,
         DieProbing, JobIsLate, ProbeInv, ProbeTypes
  <2>4. ProbeTypes'
    BY <2>1, <2>2, <2>3 DEF ProbeInv, ProbeTypes
  <2>5. SignedOnce'
    BY <2>1, <2>2 DEF ProbeInv, SignedOnce
  <2>6. PassedRan'
    BY <2>1, <2>2, <2>3 DEF ProbeInv, PassedRan
  <2> QED BY <2>1, <2>4, <2>5, <2>6, EditorLeft DEF ProbeInv
<1> QED BY <1>1, <1>2

\* What a step of the Editor leaves: the jobs and their tickets, and what had been done.
LEMMA ProgressKeeps ==
  ASSUME ProbeInv, UNCHANGED <<session, turn, ticket, answer>>, jobs' \subseteq jobs,
         DOMAIN deeds' = Probes, \A r \in Probes : deeds[r] \subseteq deeds'[r],
         \A r \in Probes : deeds'[r] # deeds[r] =>
           ticket[r] = session /\ deeds'[r] \subseteq {session} \X Deeds,
         doing' \in TickSteps,
         active' \in [of : Probes \union {NoProbe}, phase :
           {"none", "create", "compile", "play", "exit"},
                     failed : BOOLEAN],
         active'.of = NoProbe => active' = NoJob,
         active'.of # NoProbe /\ active'.of # active.of => active'.of \in jobs,
         result' \in [Probes -> [session : Nat, status : {"none", "passed", "failed"}]],
         \A r \in Probes : result'[r] # result[r] =>
           \/ result'[r].status = "failed"
           \/ ticket[r] # 0 /\ \A d \in Deeds : <<ticket[r], d>> \in deeds[r]
  PROVE  ProbeTypes' /\ SignedOnce' /\ PassedRan'
<1>1. ProbeTypes'
  BY DEF ProbeInv, ProbeTypes
<1>2. SignedOnce'
  <2>1. SUFFICES ASSUME NEW r \in Probes
                 PROVE  /\ ticket[r] = 0 => r \notin jobs' /\ active'.of # r
                           /\ result'[r].status # "passed"
                        /\ deeds'[r] \subseteq {ticket[r]} \X Deeds
                        /\ ticket[r] = 0 => deeds'[r] = {}
    BY DEF ProbeInv, SignedOnce
  <2>2. r # NoProbe /\ session # 0
    BY ProbeConstants DEF ProbeInv, ProbeTypes
  <2>3. CASE ticket[r] = 0
    BY <2>2, <2>3 DEF ProbeInv, SignedOnce
  <2>4. CASE ticket[r] # 0
    BY <2>4 DEF ProbeInv, SignedOnce
  <2> QED BY <2>3, <2>4
<1>3. PassedRan'
  BY DEF ProbeInv, PassedRan
<1> QED BY <1>1, <1>2, <1>3

\* Between two ticks: a job is taken up, dropped, or ends.
LEMMA IdleTickKeeps ==
  ASSUME ProbeInv, (\E r \in Probes : BeginJob(r)) \/ RejectActive \/ Expire \/ LeavePlay
  PROVE  ProbeInv'
<1>1. /\ UNCHANGED <<session, turn, ticket, answer, deeds, doing>> /\ doing = "none"
      /\ jobs' \subseteq jobs
  BY DEF BeginJob, RejectActive, Expire, LeavePlay, Mine, In, unityVars, probeVars, bridgeVars,
         Bound, ProbeInv, ProbeTypes
<1>2. /\ active' \in [of : Probes \union {NoProbe}, phase :
           {"none", "create", "compile", "play", "exit"},
                     failed : BOOLEAN]
      /\ active'.of = NoProbe => active' = NoJob
      /\ active'.of # NoProbe /\ active'.of # active.of => active'.of \in jobs
      /\ \/ active' \in {active, NoJob}
         \/ active'.failed /\ active'.phase = "exit"
         \/ ~active'.failed /\ active'.phase = "create"
  <2>1. CASE Expire
    BY <2>1 DEF Expire, Mine, ProbeInv, ProbeTypes, SignedOnce
  <2>2. CASE \E r \in Probes : BeginJob(r)
    <3>1. PICK r \in Probes :
            /\ r \in jobs
            /\ active' \in {active, [of |-> r, phase |-> "create", failed |-> FALSE]}
      BY <2>2 DEF BeginJob
    <3>2. r # NoProbe
      BY ProbeConstants
    <3>3. CASE active' = active
      BY <3>3 DEF ProbeInv, ProbeTypes, SignedOnce
    <3>4. CASE active' = [of |-> r, phase |-> "create", failed |-> FALSE]
      BY <3>1, <3>2, <3>4
    <3> QED BY <3>1, <3>3, <3>4
  <2>3. CASE RejectActive
    <3>1. active' = NoJob
      BY <2>3 DEF RejectActive
    <3>2. /\ NoJob \in [of : Probes \union {NoProbe}, phase :
               {"none", "create", "compile", "play", "exit"},
                        failed : BOOLEAN]
          /\ NoJob.of = NoProbe
      BY DEF NoJob
    <3> QED BY <3>1, <3>2
  <2>4. CASE LeavePlay
    BY <2>4 DEF LeavePlay, bridgeVars, ProbeInv, ProbeTypes, SignedOnce
  <2> QED BY <2>1, <2>2, <2>3, <2>4
<1>3. /\ result' \in [Probes -> [session : Nat, status : {"none", "passed", "failed"}]]
      /\ \A r \in Probes : result'[r] # result[r] => result'[r].status = "failed"
  BY DEF BeginJob, RejectActive, Expire, LeavePlay, ReportJob, bridgeVars, ProbeInv, ProbeTypes
<1>4. ProbeTypes' /\ SignedOnce' /\ PassedRan'
  BY <1>1, <1>2, <1>3, ProgressKeeps DEF ProbeInv, ProbeTypes
<1>5. TickOfMine' /\ DoneSoFar'
  BY <1>1, <1>2 DEF ProbeInv, TickOfMine, DoneSoFar, Due, Bound, NoJob
<1> QED BY <1>4, <1>5 DEF ProbeInv

\* An exception ends the tick, and fails the job.
LEMMA ThrowKeeps ==
  ASSUME ProbeInv, active # NoJob, Throw, UNCHANGED <<session, turn, ticket, answer, deeds,
           jobs, result>>
  PROVE  ProbeInv'
<1>1. /\ active' \in [of : Probes \union {NoProbe}, phase :
           {"none", "create", "compile", "play", "exit"},
                     failed : BOOLEAN]
      /\ active'.of = active.of /\ active'.of # NoProbe /\ active'.failed /\ doing' = "none"
      /\ active'.phase = "exit"
  BY DEF Throw, ProbeInv, ProbeTypes, SignedOnce
<1>2. ProbeTypes' /\ SignedOnce' /\ PassedRan'
  BY <1>1, ProgressKeeps DEF ProbeInv, ProbeTypes, TickSteps
<1> QED BY <1>1, <1>2 DEF ProbeInv, TickOfMine, DoneSoFar

\* A step of the making, or of what follows it, that comes out.
LEMMA MakingKeeps ==
  ASSUME ProbeInv, active # NoJob, Bound(active.of),
         UNCHANGED <<session, turn, ticket, answer, jobs, result>>,
         NEW done \in SUBSET Deeds, DOMAIN deeds' = Probes,
         \A r \in Probes : r # active.of => deeds'[r] = deeds[r],
         deeds[active.of] \subseteq deeds'[active.of],
         \A d \in done : <<session, d>> \in deeds'[active.of],
         deeds'[active.of] \subseteq deeds[active.of] \union {session} \X Deeds,
         active' \in [of : Probes \union {NoProbe}, phase :
           {"none", "create", "compile", "play", "exit"},
                     failed : BOOLEAN],
         active'.of = active.of, active'.failed = active.failed,
         doing' \in TickSteps,
         ~active.failed => \A d \in Due' : d \in Due \/ d \in done,
         TickOfMine'
  PROVE  ProbeInv'
<1>1. active.of \in Probes /\ active.of # NoProbe
  BY DEF ProbeInv, ProbeTypes, SignedOnce
<1>2. \A r \in Probes : deeds[r] \subseteq deeds'[r]
  OBVIOUS
<1>3. deeds'[active.of] \subseteq {session} \X Deeds
  BY <1>1 DEF ProbeInv, SignedOnce, Bound
<1>4. ProbeTypes' /\ SignedOnce' /\ PassedRan'
  BY <1>1, <1>2, <1>3, ProgressKeeps DEF ProbeInv, ProbeTypes, Bound
<1>5. DoneSoFar'
  BY DEF ProbeInv, DoneSoFar
<1> QED BY <1>4, <1>5 DEF ProbeInv

\* What a deed adds, to the one it is for.
LEMMA DeedAdds ==
  ASSUME ProbeInv, active # NoJob, NEW d \in Deeds, Does(d)
  PROVE  /\ DOMAIN deeds' = Probes
         /\ \A r \in Probes : r # active.of => deeds'[r] = deeds[r]
         /\ deeds[active.of] \subseteq deeds'[active.of]
         /\ <<session, d>> \in deeds'[active.of]
         /\ deeds'[active.of] \subseteq deeds[active.of] \union {session} \X Deeds
<1>1. active.of \in Probes
  BY DEF ProbeInv, ProbeTypes, SignedOnce
<1>2. deeds'[active.of] = deeds[active.of] \union {<<session, d>>}
  BY <1>1 DEF Does, ProbeInv, ProbeTypes
<1> QED BY <1>1, <1>2 DEF Does, ProbeInv, ProbeTypes

\* What the Editor looks for and makes, part after part.
LEMMA MakeKeeps ==
  ASSUME ProbeInv, CreateFolder \/ \E p \in Made : LookFor(p) \/ Make(p)
  PROVE  ProbeInv'
<1>1. /\ active # NoJob /\ Bound(active.of)
      /\ UNCHANGED <<session, turn, ticket, answer, jobs, result>>
  BY DEF CreateFolder, LookFor, Make, LookStep, MakeStep, In, Mine, Made, ProbeInv, TickOfMine,
         probeVars
<1>2. CASE Throw /\ UNCHANGED deeds
  BY <1>1, <1>2, ThrowKeeps
<1>3. CASE CreateFolder /\ ~Throw
  <2>1. /\ active' = active /\ active.phase = "create" /\ doing = "none" /\ doing' = "look material"
        /\ deeds' = deeds /\ ~active.failed
    BY <1>3 DEF CreateFolder, In, Mine, ProbeInv, TickOfMine
  <2>2. TickOfMine'
    BY <1>1, <2>1 DEF TickOfMine, Bound
  <2>3. {} \in SUBSET Deeds /\ Due' = Due /\ doing' \in TickSteps
    BY <2>1 DEF Due, TickSteps
  <2> QED BY <1>1, <2>1, <2>2, <2>3, MakingKeeps DEF ProbeInv, ProbeTypes
<1>4. CASE (\E p \in Made : LookFor(p)) /\ ~Throw
  <2>1. PICK p \in Made : doing = LookStep(p) /\ doing' = MakeStep(p) /\ UNCHANGED <<active, deeds>>
    BY <1>4 DEF LookFor
  <2>2. /\ doing' \in TickSteps /\ Due' = Due /\ doing # "none"
        /\ TickOfMine'
    BY <1>1, <2>1 DEF LookStep, MakeStep, Made, TickSteps, Due, ProbeInv, TickOfMine, Bound
  <2>3. {} \in SUBSET Deeds /\ active.phase \in {"create", "compile"}
    BY <1>1, <2>1, <2>2 DEF LookStep, Made, ProbeInv, TickOfMine
  <2> QED BY <1>1, <2>1, <2>2, <2>3, MakingKeeps DEF ProbeInv, ProbeTypes
<1>5. CASE (\E p \in Made : Make(p)) /\ ~(Throw /\ UNCHANGED deeds)
  <2>1. PICK p \in Made :
          /\ doing = MakeStep(p) /\ Does(p) /\ doing' = StepAfter(p)
          /\ active' = IF p = "scene" THEN [active EXCEPT !.phase = "compile"] ELSE active
    BY <1>5 DEF Make
  <2>2. /\ doing # "none" /\ active.phase \in {"create", "compile"} /\ ~active.failed
        /\ p = "script" <=> active.phase = "compile"
        /\ active' \in [of : Probes \union {NoProbe}, phase :
             {"none", "create", "compile", "play", "exit"},
                     failed : BOOLEAN]
        /\ active'.of = active.of /\ ~active'.failed
        /\ active'.phase = IF p = "material" THEN "create" ELSE "compile"
    BY <2>1 DEF ProbeInv, ProbeTypes, TickOfMine, Made, MakeStep
  <2>3. doing' = IF p = "material" THEN "look scene" ELSE IF p = "scene" THEN "look script"
        ELSE "none"
    BY <2>1 DEF Made, StepAfter
  <2>4. doing' \in TickSteps /\ TickOfMine'
    <3>1. active' # NoJob
      BY <1>1, <2>2 DEF NoJob, ProbeInv, ProbeTypes, SignedOnce
    <3> QED BY <1>1, <2>2, <2>3, <3>1 DEF TickOfMine, TickSteps, Bound
  <2>5. \A d \in Due' : d \in Due \/ d \in {p}
    BY <2>1, <2>2, <2>3 DEF Due, Made, MakeStep
  <2>6. p \in Deeds /\ {p} \in SUBSET Deeds
    BY <2>1 DEF Deeds
  <2> QED BY <1>1, <2>1, <2>2, <2>4, <2>5, <2>6, DeedAdds, MakingKeeps
<1> QED BY <1>2, <1>3, <1>4, <1>5 DEF CreateFolder, LookFor

\* The compilation's outcome, play mode, and the end of the job.
LEMMA PlayKeeps ==
  ASSUME ProbeInv, ObserveCompile \/ ObservePlay \/ FinishJob \/ Forget
  PROVE  ProbeInv'
<1>1. active # NoJob /\ Bound(active.of) /\ UNCHANGED <<session, turn, ticket, answer>>
  BY DEF ObserveCompile, ObservePlay, FinishJob, Forget, In, Mine, ProbeInv, TickOfMine, probeVars
<1>2. CASE Throw /\ UNCHANGED <<deeds, jobs, result>>
  BY <1>1, <1>2, ThrowKeeps
<1>3. CASE (ObserveCompile /\ ~(Throw /\ UNCHANGED deeds)) \/ ObservePlay
  <2>1. PICK d \in {"component", "played"} :
          /\ Does(d) /\ doing = "none" /\ doing' = "none" /\ UNCHANGED <<jobs, result>>
          /\ active.phase = IF d = "component" THEN "compile" ELSE "play"
          /\ active' = [active EXCEPT !.phase = IF d = "component" THEN "play" ELSE "exit"]
    BY <1>3 DEF ObserveCompile, ObservePlay, In, Mine, bridgeVars
  <2>2. /\ active' \in [of : Probes \union {NoProbe}, phase :
             {"none", "create", "compile", "play", "exit"},
                     failed : BOOLEAN]
        /\ active'.of = active.of /\ active'.failed = active.failed /\ ~active.failed
        /\ active'.phase = IF d = "component" THEN "play" ELSE "exit"
    BY <2>1 DEF ProbeInv, ProbeTypes, TickOfMine
  <2>3. doing' \in TickSteps /\ TickOfMine'
    BY <2>1, <2>2 DEF TickOfMine, TickSteps
  <2>4. \A e \in Due' : e \in Due \/ e \in {d}
    BY <2>1, <2>2 DEF Due, Deeds, Made
  <2>5. d \in Deeds /\ {d} \in SUBSET Deeds
    BY <2>1 DEF Deeds, Made
  <2> QED BY <1>1, <2>1, <2>2, <2>3, <2>4, <2>5, DeedAdds, MakingKeeps
<1>4. CASE FinishJob
  <2>1. /\ active.phase = "exit" /\ doing' = "forget" /\ UNCHANGED <<jobs, active, deeds>>
        /\ active.of \in Probes /\ ticket[active.of] # 0 /\ ticket[active.of] = session
    BY <1>1, <1>4 DEF FinishJob, In, Mine, Bound, ProbeInv, ProbeTypes, SignedOnce
  <2>2. PICK status \in {"passed", "failed"} :
          ReportJob(active.of, status) /\ (status = "passed" => ~active.failed)
    BY <1>4 DEF FinishJob
  <2>3. status = "passed" => \A d \in Deeds : <<ticket[active.of], d>> \in deeds[active.of]
    BY <1>1, <2>1, <2>2 DEF ProbeInv, DoneSoFar, Due
  <2>4. /\ result' \in [Probes -> [session : Nat, status : {"none", "passed", "failed"}]]
        /\ \A r \in Probes : result'[r] # result[r] => r = active.of /\ result'[r].status = status
    BY <2>1, <2>2 DEF ReportJob, ProbeInv, ProbeTypes
  <2>5. ProbeTypes' /\ SignedOnce' /\ PassedRan'
    BY <1>1, <2>1, <2>2, <2>3, <2>4, ProgressKeeps DEF ProbeInv, ProbeTypes, SignedOnce, TickSteps
  <2>6. TickOfMine' /\ DoneSoFar'
    BY <1>1, <2>1 DEF ProbeInv, TickOfMine, DoneSoFar, Due, Bound
  <2> QED BY <2>5, <2>6 DEF ProbeInv
<1>5. CASE Forget
  <2>1. /\ jobs' \subseteq jobs /\ active' = NoJob /\ doing' = "none" /\ UNCHANGED <<deeds, result>>
    BY <1>5 DEF Forget
  <2>2. /\ NoJob \in [of : Probes \union {NoProbe}, phase :
             {"none", "create", "compile", "play", "exit"},
                      failed : BOOLEAN]
        /\ NoJob.of = NoProbe /\ ~NoJob.failed
    BY DEF NoJob
  <2>3. ProbeTypes' /\ SignedOnce' /\ PassedRan'
    BY <1>1, <2>1, <2>2, ProgressKeeps DEF ProbeInv, ProbeTypes, TickSteps
  <2> QED BY <2>1, <2>2, <2>3 DEF ProbeInv, TickOfMine, DoneSoFar
<1> QED BY <1>2, <1>3, <1>4, <1>5 DEF ObserveCompile, ObservePlay, Throw, bridgeVars

\* The Editor's own transitions, its restarts, and people.
LEMMA OthersKeep ==
  ASSUME ProbeInv, CompileEnds \/ PlayChanges \/ ReloadSession \/ Consent \/ Tamper
         \/ ClearEditorLease
                     \/ UNCHANGED e2eVars
  PROVE  ProbeInv'
<1>1. UNCHANGED <<turn, ticket, answer, jobs, active, result, deeds>>
  BY DEF CompileEnds, PlayChanges, ReloadSession, Consent, Tamper, ClearEditorLease, e2eVars,
         bridgeVars, probeVars
<1>2. CASE ReloadSession
  <2>1. /\ session \in Nat \ {0} /\ session' = session + 1 /\ session' \in Nat \ {0}
        /\ doing' = "none"
    BY <1>2 DEF ReloadSession, ProbeInv, ProbeTypes
  <2>2. ProbeTypes'
    BY <1>1, <2>1 DEF ProbeInv, ProbeTypes, TickSteps
  <2>3. PassedRan' /\ TickOfMine'
    BY <1>1, <2>1 DEF ProbeInv, PassedRan, TickOfMine
  <2>4. SignedOnce'
    BY <1>1, <2>1 DEF ProbeInv, ProbeTypes, SignedOnce
  <2>5. active # NoJob => ~Bound(active.of)'
    BY <1>1, <2>1 DEF ProbeInv, ProbeTypes, SignedOnce, Bound
  <2> QED BY <1>1, <2>2, <2>3, <2>4, <2>5 DEF ProbeInv, DoneSoFar
<1>3. CASE ~ReloadSession
  <2>1. UNCHANGED <<session, doing>>
    BY <1>3 DEF CompileEnds, PlayChanges, Consent, Tamper, ClearEditorLease, e2eVars, unityVars
  <2>2. ProbeTypes' /\ SignedOnce' /\ PassedRan'
    BY <1>1, <2>1 DEF ProbeInv, ProbeTypes, SignedOnce, PassedRan
  <2> QED BY <1>1, <2>1, <2>2, EditorLeft DEF ProbeInv
<1> QED BY <1>2, <1>3

\* every step keeps it,
LEMMA StepProbe == ProbeInv /\ [E2eNext]_e2eVars => ProbeInv'
BY ProbeKeeps, IdleTickKeeps, MakeKeeps, PlayKeeps, OthersKeep DEF E2eNext, Tick

\* and so it always holds.
LEMMA ProbeInvariant == E2eSpec => []ProbeInv
BY InitProbe, StepProbe, PTL DEF E2eSpec

\* However the Editor reloads or restarts, whatever throws, and though its approvals, its files
\* and the play button are in other hands: a probe that is called completed was carried out in
\* full by the one Editor its job was signed for (apply_full_e2e, FullE2EBridge.Tick).
THEOREM ProbeRanInFull == E2eSpec => []CompletedProbeRan
<1>1. ProbeInv => CompletedProbeRan
  <2>1. SUFFICES ASSUME ProbeInv, NEW r \in Probes, answer[r] = "completed"
                 PROVE  deeds[r] = {ticket[r]} \X Deeds
    BY DEF CompletedProbeRan
  <2> QED BY <2>1 DEF ProbeInv, SignedOnce, PassedRan
<1> QED BY <1>1, ProbeInvariant, PTL

-----------------------------------------------------------------------------
(* ProjectEditors: whose results a job takes, and whom a recovery ends.    *)

Verdicts == {"none", "precondition_failed", "not_observed", "ambiguous_binding", "unavailable",
             "unhealthy", "timeout", "cancelled", "execution_failed", "observed_test_failure",
             "passed"}
CycleSteps == {"idle", "begin", "look", "patch", "write", "relook", "kill", "restart", "discover",
               "over"}

EditorsTypes ==
  /\ processes \in [Pids -> EditorProcess \union {Gone}]
  /\ directory \in [Jobs -> RunFiles \union {Gone}]
  /\ attempt \in [Jobs -> Nat] /\ cycles \in [Recoveries -> Nat]
  /\ jobStep \in [Jobs -> {"idle", "check", "prepare", "launch", "wait", "answered"}]
  /\ verdict \in [Jobs -> Verdicts] /\ kind \in [Jobs -> {"none", "compile", "test", "build"}]
  /\ cycleStep \in [Recoveries -> CycleSteps]
  /\ DOMAIN bound = Recoveries

\* Only the first attempt of a job gets a directory, and so an Editor: all that is ever
\* written for the job is of that one.
FirstOnly ==
  /\ \A p \in Pids : p \in Live /\ processes[p].by.starter \in Jobs =>
       processes[p].by.nth = 1 /\ directory[processes[p].by.starter] # Gone
  /\ \A j \in Jobs :
       /\ jobStep[j] \in {"launch", "wait"} => attempt[j] = 1 /\ directory[j] # Gone
       /\ jobStep[j] \in {"check", "prepare"} => attempt[j] = 1 \/ directory[j] # Gone
       /\ jobStep[j] = "answered" /\ verdict[j] \in {"unhealthy", "timeout"} => directory[j] # Gone
       /\ directory[j] # Gone /\ directory[j].tests # "none" =>
            directory[j].by = [starter |-> j, nth |-> 1]

PassedOnFirst ==
  \A j \in Jobs : verdict[j] = "passed" =>
    /\ jobStep[j] = "answered" /\ attempt[j] = 1
    /\ kind[j] = "test" => directory[j] # Gone /\ directory[j].tests # "none"

\* Between the last look and the signal a pid keeps its Editor, or has none.
KillsTarget ==
  \A r \in Recoveries : cycleStep[r] = "kill" /\ bound[r].pid \in Live => Target(r)

EditorsInv == EditorsTypes /\ FirstOnly /\ PassedOnFirst /\ KillsTarget

\* The invariant of the Editor jobs holds at first,
LEMMA InitEditors == EditorsInit => EditorsInv
<1> SUFFICES ASSUME EditorsInit PROVE EditorsInv
  OBVIOUS
<1>1. /\ Nobody \in By
      /\ [Editor("ours", TRUE, Nobody) EXCEPT !.opened = TRUE] \in EditorProcess
      /\ [Editor("ours", TRUE, Nobody) EXCEPT !.opened = TRUE].by = Nobody
  BY DEF Nobody, By, Editor, EditorProcess
<1>2. EditorsTypes
  BY <1>1 DEF EditorsInit, EditorsTypes, Verdicts, CycleSteps
<1>3. \A p \in Live : processes[p].by.starter \notin Jobs
  <2>1. Nobody.starter \notin Jobs
    BY ProjectEditorsConstants DEF Nobody
  <2> QED BY <1>1, <2>1 DEF EditorsInit, Live
<1>4. FirstOnly
  BY <1>3 DEF EditorsInit, FirstOnly
<1> QED BY <1>2, <1>4 DEF EditorsInit, EditorsInv, PassedOnFirst, KillsTarget

\* Whatever Editors do, one that a recovery is about to end stays the one it looked at.
LEMMA TargetStays ==
  ASSUME EditorsInv, UNCHANGED <<cycleStep, bound>>,
         \A p \in Pids : \/ processes'[p] = Gone
                        \/ /\ p \in Live
                           /\ processes'[p].project = processes[p].project
                           /\ processes'[p].safe = processes[p].safe
                        \/ p \in Free
  PROVE  KillsTarget'
<1>1. SUFFICES ASSUME NEW r \in Recoveries, cycleStep[r] = "kill", bound[r].pid \in Live'
               PROVE  Target(r)'
  BY DEF KillsTarget
<1>2. PICK p \in Pids : p = bound[r].pid /\ processes'[p] # Gone
  BY <1>1 DEF Live
<1>3. p \notin Free
  BY <1>1, <1>2 DEF Free
<1>4. Target(r)
  BY <1>1, <1>2, <1>3 DEF EditorsInv, KillsTarget
<1> QED BY <1>1, <1>2, <1>3, <1>4 DEF Target

\* The checks of a job before it gets a directory.
LEMMA JobKeeps ==
  ASSUME EditorsInv, NEW j \in Jobs, JobWork(j)
  PROVE  EditorsInv'
<1>1. CASE BeginBatch(j)
  <2>1. EditorsTypes' /\ KillsTarget'
    BY <1>1 DEF BeginBatch, EditorsInv, EditorsTypes, KillsTarget, Target, Live, cycleVars
  <2>2. FirstOnly' /\ PassedOnFirst'
    BY <1>1 DEF BeginBatch, EditorsInv, EditorsTypes, FirstOnly, PassedOnFirst, Live
  <2> QED BY <2>1, <2>2 DEF EditorsInv
<1>2. CASE CheckJob(j)
  <2>1. \/ jobStep' = [jobStep EXCEPT ![j] = "prepare"] /\ UNCHANGED verdict
        \/ \E class \in {"precondition_failed", "not_observed", "ambiguous_binding",
             "unavailable"} :
             AnswerJob(j, class)
    BY <1>2 DEF CheckJob, SafeModeFailure, Conflict
  <2>2. EditorsTypes' /\ KillsTarget'
    BY <1>2, <2>1
       DEF CheckJob, AnswerJob, EditorsInv, EditorsTypes, Verdicts, KillsTarget, Target, Live,
           cycleVars
  <2>3. FirstOnly' /\ PassedOnFirst'
    BY <1>2, <2>1
       DEF CheckJob, AnswerJob, EditorsInv, EditorsTypes, Verdicts, FirstOnly, PassedOnFirst, Live
  <2> QED BY <2>2, <2>3 DEF EditorsInv
<1>3. CASE Prepare(j)
  <2>1. NoFiles \in RunFiles /\ NoFiles # Gone /\ NoFiles.tests = "none"
    BY ProjectEditorsConstants DEF NoFiles, Nobody, RunFiles, By
  <2>2. EditorsTypes' /\ KillsTarget'
    BY <1>3, <2>1
       DEF Prepare, AnswerJob, EditorsInv, EditorsTypes, Verdicts, KillsTarget, Target, Live,
           cycleVars
  <2>3. FirstOnly' /\ PassedOnFirst'
    BY <1>3, <2>1
       DEF Prepare, AnswerJob, EditorsInv, EditorsTypes, Verdicts, FirstOnly, PassedOnFirst, Live
  <2> QED BY <2>2, <2>3 DEF EditorsInv
<1>4. CASE LaunchEditor(j)
  <2> DEFINE e == Editor("ours", FALSE, [starter |-> j, nth |-> attempt[j]])
  <2>1. /\ e \in EditorProcess /\ e.by = [starter |-> j, nth |-> attempt[j]]
        /\ attempt[j] = 1
    BY <1>4 DEF Editor, EditorProcess, By, LaunchEditor, EditorsInv, EditorsTypes, FirstOnly
  <2>2. PICK p \in Free : processes' = [processes EXCEPT ![p] = e]
    BY <1>4 DEF LaunchEditor
  <2>3. p \in Pids
    BY <2>2 DEF Free
  <2> HIDE DEF e
  <2>4. EditorsTypes'
    BY <1>4, <2>1, <2>2, <2>3 DEF LaunchEditor, EditorsInv, EditorsTypes, cycleVars
  <2>5. KillsTarget'
    BY <1>4, <2>2, <2>3, TargetStays DEF LaunchEditor, EditorsInv, EditorsTypes, Live, cycleVars
  <2>6. \A q \in Pids : q \in Live' /\ processes'[q].by.starter \in Jobs =>
          processes'[q].by.nth = 1 /\ directory[processes'[q].by.starter] # Gone
    <3>1. e.by.nth = 1 /\ directory[e.by.starter] # Gone
      BY <1>4, <2>1 DEF LaunchEditor, EditorsInv, FirstOnly
    <3> QED BY <2>2, <2>3, <3>1 DEF EditorsInv, EditorsTypes, FirstOnly, Live
  <2>7. FirstOnly' /\ PassedOnFirst'
    BY <1>4, <2>6 DEF LaunchEditor, EditorsInv, EditorsTypes, FirstOnly, PassedOnFirst
  <2> QED BY <2>4, <2>5, <2>7 DEF EditorsInv
<1>5. CASE StopJob(j)
  <2>1. processes' \in [Pids -> EditorProcess \union {Gone}]
        /\ \A p \in Pids : processes'[p] = Gone \/ processes'[p] = processes[p]
    BY <1>5 DEF StopJob, EditorsInv, EditorsTypes
  <2>2. EditorsTypes'
    BY <1>5, <2>1 DEF StopJob, AnswerJob, EditorsInv, EditorsTypes, Verdicts, cycleVars
  <2>3. KillsTarget'
    BY <1>5, <2>1, TargetStays DEF StopJob, Live, cycleVars
  <2>4. FirstOnly' /\ PassedOnFirst'
    BY <1>5, <2>1
       DEF StopJob, AnswerJob, EditorsInv, EditorsTypes, Verdicts, FirstOnly, PassedOnFirst, Live
  <2> QED BY <2>2, <2>3, <2>4 DEF EditorsInv
<1>6. CASE ReadResult(j)
  <2>1. /\ Result(j) \in {"execution_failed", "observed_test_failure", "not_observed", "passed"}
        /\ Result(j) = "passed" /\ kind[j] = "test" => directory[j].tests # "none"
    BY DEF Result
  <2>2. EditorsTypes' /\ KillsTarget'
    BY <1>6, <2>1
       DEF ReadResult, AnswerJob, EditorsInv, EditorsTypes, Verdicts, KillsTarget, Target, Live,
           cycleVars
  <2>3. FirstOnly' /\ PassedOnFirst'
    BY <1>6, <2>1
       DEF ReadResult, AnswerJob, EditorsInv, EditorsTypes, Verdicts, FirstOnly, PassedOnFirst,
           Live
  <2> QED BY <2>2, <2>3 DEF EditorsInv
<1>7. CASE RetryJob(j)
  <2>1. EditorsTypes' /\ KillsTarget'
    BY <1>7 DEF RetryJob, EditorsInv, EditorsTypes, KillsTarget, Target, Live, cycleVars
  <2>2. FirstOnly' /\ PassedOnFirst'
    BY <1>7 DEF RetryJob, EditorsInv, EditorsTypes, FirstOnly, PassedOnFirst, Live
  <2> QED BY <2>1, <2>2 DEF EditorsInv
<1> QED BY <1>1, <1>2, <1>3, <1>4, <1>5, <1>6, <1>7 DEF JobWork

\* A recovery starts Editors of its own, and ends one.
LEMMA CycleKeeps ==
  ASSUME EditorsInv, NEW r \in Recoveries, CycleWork(r)
  PROVE  EditorsInv'
<1>1. UNCHANGED jobVars /\ DOMAIN bound' = Recoveries
  BY DEF CycleWork, Observe, Recover, Look, ReadSource, WriteSource, Relook, Terminate, Restart,
         Rediscover, RecoverAgain, EditorsInv, EditorsTypes
<1>2. cycles' \in [Recoveries -> Nat]
  <2>1. CASE Recover(r)
    <3>1. cycles[r] \in Nat /\ cycles'[r] \in {cycles[r], cycles[r] + 1}
      BY <2>1 DEF Recover, EditorsInv, EditorsTypes
    <3> QED BY <2>1, <3>1 DEF Recover, EditorsInv, EditorsTypes
  <2>2. CASE UNCHANGED cycles
    BY <2>2 DEF EditorsInv, EditorsTypes
  <2> QED BY <2>1, <2>2 DEF CycleWork, Observe, Look, ReadSource, WriteSource, Relook, Terminate,
          Restart, Rediscover, RecoverAgain
<1>3. /\ cycleStep' \in [Recoveries -> CycleSteps]
      /\ \A q \in Recoveries : q # r => cycleStep'[q] = cycleStep[q] /\ bound'[q] = bound[q]
      /\ cycleStep'[r] = "kill" => UNCHANGED <<processes, bound>> /\ Target(r)
  BY DEF CycleWork, Observe, Recover, Look, ReadSource, WriteSource, Relook, Terminate, Restart,
         Rediscover, RecoverAgain, GotoCycle, Refused, EditorsInv, EditorsTypes, CycleSteps
<1>4. /\ processes' \in [Pids -> EditorProcess \union {Gone}]
      /\ \A p \in Pids : \/ processes'[p] \in {Gone, processes[p]}
                        \/ /\ p \in Free
                           /\ processes'[p].by.starter = r
  <2>1. CASE Restart(r) /\ processes' # processes
    <3> DEFINE e == Editor("ours", FALSE, [starter |-> r, nth |-> cycles[r]])
    <3>1. e \in EditorProcess /\ e.by.starter = r
      BY DEF Editor, EditorProcess, By, EditorsInv, EditorsTypes
    <3>2. PICK p \in Free : processes' = [processes EXCEPT ![p] = e]
      BY <2>1 DEF Restart
    <3> HIDE DEF e
    <3> QED BY <3>1, <3>2 DEF EditorsInv, EditorsTypes, Free
  <2>2. CASE Terminate(r)
    BY <2>2 DEF Terminate, EditorsInv, EditorsTypes
  <2>3. CASE UNCHANGED processes
    BY <2>3 DEF EditorsInv, EditorsTypes
  <2> QED BY <2>1, <2>2, <2>3
     DEF CycleWork, Observe, Recover, Look, ReadSource, WriteSource, Relook, Rediscover,
         RecoverAgain
<1>5. EditorsTypes'
  BY <1>1, <1>2, <1>3, <1>4 DEF EditorsInv, EditorsTypes, jobVars
<1>6. r \notin Jobs
  BY ProjectEditorsConstants
<1>7. FirstOnly' /\ PassedOnFirst'
  BY <1>1, <1>4, <1>6 DEF EditorsInv, FirstOnly, PassedOnFirst, Live, jobVars
<1>8. KillsTarget'
  <2>1. SUFFICES ASSUME NEW q \in Recoveries, cycleStep'[q] = "kill", bound'[q].pid \in Live'
                 PROVE  Target(q)'
    BY DEF KillsTarget
  <2>2. CASE q = r
    BY <1>3, <2>1, <2>2 DEF Target, Live
  <2>3. CASE q # r
    <3>1. PICK p \in Pids : p = bound[q].pid /\ processes'[p] # Gone
      BY <1>3, <2>1, <2>3 DEF Live
    <3>2. cycleStep[q] = "kill"
      BY <1>3, <2>1, <2>3
    <3>3. p \notin Free /\ processes'[p] = processes[p]
      BY <1>4, <3>1, <3>2 DEF Free
    <3>4. Target(q)
      BY <3>1, <3>2, <3>3 DEF EditorsInv, KillsTarget, Live
    <3> QED BY <1>3, <2>1, <2>3, <3>1, <3>3, <3>4 DEF Target
  <2> QED BY <2>2, <2>3
<1> QED BY <1>5, <1>7, <1>8 DEF EditorsInv

\* An Editor opens the Project, works, ends; a person starts another.
LEMMA EditorMoves ==
  ASSUME EditorsInv, NEW p \in Pids, OpenProject(p) \/ WriteResults(p) \/ EndEditor(p)
         \/ StartByHand(p)
  PROVE  EditorsInv'
<1>1. UNCHANGED <<kind, jobStep, attempt, verdict, cycleVars>>
  BY DEF OpenProject, WriteResults, EndEditor, StartByHand, jobVars
<1>2. /\ processes' \in [Pids -> EditorProcess \union {Gone}]
      /\ \A q \in Pids : \/ processes'[q] = Gone
                        \/ /\ q \in Live /\ processes'[q].by = processes[q].by
                           /\ processes'[q].project = processes[q].project
                           /\ processes'[q].safe = processes[q].safe
                        \/ /\ q \in Free
                           /\ processes'[q].by = Nobody
  <2>1. CASE OpenProject(p) \/ WriteResults(p)
    <3>1. PICK e \in {[processes[p] EXCEPT !.opened = TRUE],
                 [processes[p] EXCEPT !.worked = TRUE]} :
            processes' = [processes EXCEPT ![p] = e] /\ p \in Live
      BY <2>1 DEF OpenProject, WriteResults
    <3>2. /\ e \in EditorProcess /\ e.by = processes[p].by
          /\ e.project = processes[p].project /\ e.safe = processes[p].safe
      BY <3>1 DEF EditorsInv, EditorsTypes, EditorProcess, Live
    <3> QED BY <3>1, <3>2 DEF EditorsInv, EditorsTypes, Live
  <2>3. CASE EndEditor(p)
    BY <2>3 DEF EndEditor, EditorsInv, EditorsTypes, Live
  <2>4. CASE StartByHand(p)
    <3>1. PICK e \in EditorProcess : e.by = Nobody /\ processes' = [processes EXCEPT ![p] = e]
      BY <2>4 DEF StartByHand, Editor, EditorProcess, Nobody, By
    <3> QED BY <2>4, <3>1 DEF StartByHand, EditorsInv, EditorsTypes, Live
  <2> QED BY <2>1, <2>3, <2>4
<1>3. /\ directory' \in [Jobs -> RunFiles \union {Gone}]
      /\ \A j \in Jobs :
           \/ directory'[j] = directory[j]
           \/ /\ directory[j] # Gone /\ directory'[j] # Gone
              /\ \/ directory'[j].tests = directory[j].tests /\ directory'[j].by = directory[j].by
                 \/ directory'[j].tests # "none" /\ directory'[j].by = [starter |-> j, nth |-> 1]
  <2>1. CASE UNCHANGED directory
    BY <2>1 DEF EditorsInv, EditorsTypes
  <2>2. CASE OpenProject(p) /\ directory' # directory
    <3>1. PICK j \in Jobs, text \in {"errors", "clean"} :
            directory' = [directory EXCEPT ![j].log = text] /\ p \in Live
            /\ j = processes[p].by.starter
      BY <2>2 DEF OpenProject
    <3>2. directory[j] \in RunFiles
      BY <3>1 DEF EditorsInv, FirstOnly, EditorsTypes
    <3>3. /\ [directory[j] EXCEPT !.log = text] \in RunFiles
          /\ [directory[j] EXCEPT !.log = text].tests = directory[j].tests
          /\ [directory[j] EXCEPT !.log = text].by = directory[j].by
      BY <3>2 DEF RunFiles
    <3>4. directory' = [directory EXCEPT ![j] = [directory[j] EXCEPT !.log = text]]
      BY <3>1
    <3> QED BY <3>2, <3>3, <3>4, ProjectEditorsConstants DEF EditorsInv, EditorsTypes
  <2>3. CASE WriteResults(p) /\ directory' # directory
    <3>1. PICK j \in Jobs, tests \in {"passing", "failing"} :
            /\ directory' = [directory EXCEPT ![j].tests = tests, ![j].by = processes[p].by]
            /\ p \in Live /\ j = processes[p].by.starter
      BY <2>3 DEF WriteResults
    <3>2. /\ directory[j] \in RunFiles
          /\ processes[p].by \in By /\ processes[p].by = [starter |-> j, nth |-> 1]
      BY <3>1 DEF EditorsInv, FirstOnly, EditorsTypes, EditorProcess, By, Live
    <3> DEFINE files == [directory[j] EXCEPT !.tests = tests, !.by = processes[p].by]
    <3>3. /\ files \in RunFiles /\ files.tests # "none"
          /\ files.by = [starter |-> j, nth |-> 1]
      BY <3>2 DEF RunFiles
    <3>4. directory' = [directory EXCEPT ![j] = files]
      BY <3>1, <3>2 DEF EditorsInv, EditorsTypes, RunFiles
    <3> HIDE DEF files
    <3> QED BY <3>2, <3>3, <3>4, ProjectEditorsConstants DEF EditorsInv, EditorsTypes
  <2> QED BY <2>1, <2>2, <2>3 DEF EndEditor, StartByHand, OpenProject, WriteResults, jobVars
<1>4. Nobody.starter \notin Jobs
  BY ProjectEditorsConstants DEF Nobody
<1>5. EditorsTypes'
  BY <1>1, <1>2, <1>3 DEF EditorsInv, EditorsTypes, cycleVars
<1>6. KillsTarget'
  BY <1>1, <1>2, TargetStays DEF cycleVars
<1>7. FirstOnly' /\ PassedOnFirst'
  BY <1>1, <1>2, <1>3, <1>4 DEF EditorsInv, FirstOnly, PassedOnFirst, Live
<1> QED BY <1>5, <1>6, <1>7 DEF EditorsInv

\* every step keeps it,
LEMMA StepEditors == EditorsInv /\ [EditorsNext]_editorsVars => EditorsInv'
<1>1. SUFFICES ASSUME EditorsInv, EditSource \/ UNCHANGED editorsVars PROVE EditorsInv'
  BY JobKeeps, CycleKeeps, EditorMoves DEF EditorsNext
<1>2. UNCHANGED <<processes, directory, kind, jobStep, attempt, verdict, cycleStep, cycles, bound>>
  BY <1>1 DEF EditSource, editorsVars, jobVars, cycleVars
<1> QED BY <1>1, <1>2
   DEF EditorsInv, EditorsTypes, FirstOnly, PassedOnFirst, KillsTarget, Target, Live

\* and so it always holds.
LEMMA EditorsInvariant == EditorsSpec => []EditorsInv
BY InitEditors, StepEditors, PTL DEF EditorsSpec

\* Tests that passed were run by the Editor of the attempt that passed, however often a job is
\* retried and whatever the Editors it has given up still write (prepare_run_directory,
\* normalize_test_result).
THEOREM OwnTestsPass == EditorsSpec => []PassedIsOwn
<1>1. EditorsInv => PassedIsOwn
  BY DEF EditorsInv, FirstOnly, PassedOnFirst, PassedIsOwn
<1> QED BY <1>1, EditorsInvariant, PTL

\* A recovery ends nothing but an Editor of its Project in Safe Mode, as far as no pid is given
\* again between its last look and its signal (terminate_exact_editor_process).
THEOREM TargetOnlyEnds == EditorsSpec => OnlyTargetEnds
<1> DEFINE Kept == \A r \in Recoveries : cycleStep[r] = "kill" /\ cycleStep'[r] = "restart" =>
                     /\ processes[bound[r].pid].project = "ours" /\ processes[bound[r].pid].safe
<1>1. ASSUME EditorsInv, EditorsNext, NEW r \in Recoveries, cycleStep[r] = "kill",
               cycleStep'[r] = "restart"
      PROVE  processes[bound[r].pid].project = "ours" /\ processes[bound[r].pid].safe
  <2>1. PICK q \in Recoveries : CycleWork(q)
    BY <1>1
       DEF EditorsNext, JobWork, BeginBatch, CheckJob, Prepare, LaunchEditor, StopJob, ReadResult,
           RetryJob, OpenProject, WriteResults, EndEditor, StartByHand, EditSource, cycleVars
  <2>2. Terminate(r) /\ bound[r].pid \in Live
    BY <1>1, <2>1 DEF CycleWork, Observe, Recover, Look, ReadSource, WriteSource, Relook, Terminate,
         Restart, Rediscover, RecoverAgain, GotoCycle, Refused, EditorsInv, EditorsTypes
  <2> QED BY <1>1, <2>2 DEF EditorsInv, KillsTarget, Target
<1>2. EditorsInv /\ [EditorsNext]_editorsVars => [Kept]_editorsVars
  BY <1>1
<1> QED BY <1>2, EditorsInvariant, PTL DEF EditorsSpec, OnlyTargetEnds

-----------------------------------------------------------------------------
(* ArtistRun: a mutation and its approval.                                 *)

\* What the variables hold.
ArtistTypes ==
  /\ scene \in Nat
  /\ stored \in [ArtistPlans -> Nat \union {Nil}]
  /\ reviewed \in [ArtistPlans -> Nat \union {Nil}]
  /\ decision \in [Decisions -> DecisionRecord \union {Nil}]
  /\ guarded \in [Decisions -> Sessions \union {Nil}]
  /\ descriptor \in Sessions \union {Nil}
  /\ stage \in [Sessions ->
       {"idle", "resolved", "serving", "waiting", "leaving", "recording", "over"}]
  /\ uses \in [Sessions -> Decisions \union {Nil}]
  /\ consumer \in [Sessions -> {"none", "asked", "refused", "checked", "saved"}]
  /\ inbox \subseteq Sessions
  /\ handling \in [of : Sessions, step : {"ask", "listen", "granted"}, to : Sessions \union {Nil}]
                    \union {Nil}
  /\ mutations \subseteq [session : Sessions, plan : ArtistPlans, on : Nat]

\* A session past the lookup holds an approval that exists.
Resolved(s) == stage[s] # "idle" /\ uses[s] \in Decisions /\ decision[uses[s]] \in DecisionRecord

UsersResolved ==
  /\ \A s \in Sessions :
       stage[s] \in {"resolved", "serving", "waiting", "leaving"} \/ consumer[s] # "none"
         \/ s \in inbox => Resolved(s)
  /\ handling # Nil => Resolved(handling.of)

\* What a handler thread found below the lock still holds: the lock keeps it so.
CheckedHolds ==
  \A s \in Sessions : consumer[s] = "checked" =>
    /\ guarded[uses[s]] = s
    /\ ~decision[uses[s]].revoked /\ decision[uses[s]].used = Nil

SavedHolds == \A s \in Sessions : consumer[s] = "saved" => decision[uses[s]].used = s

\* The command in the Editor's hands is for what is open, and was granted by its own session.
HandledIsCurrent ==
  handling # Nil =>
    /\ stored[Plan(handling.of)] = scene /\ reviewed[Plan(handling.of)] = scene
    /\ handling.step = "listen" => handling.to = handling.of
    /\ handling.step = "granted" => decision[uses[handling.of]].used = handling.of

\* A mutation is of the plan its session was approved for, which the Editor no longer holds.
MutationsKept ==
  \A m \in mutations :
    /\ Resolved(m.session) /\ m.plan = Plan(m.session)
    /\ decision[uses[m.session]].used = m.session
    /\ m.on = reviewed[m.plan] /\ stored[m.plan] = Nil

OnePerPlan == \A m, n \in mutations : m.plan = n.plan => m = n

ArtistInv ==
  /\ ArtistTypes /\ UsersResolved /\ CheckedHolds /\ SavedHolds
  /\ HandledIsCurrent /\ MutationsKept /\ OnePerPlan

\* At first no session has begun and no approval exists.
LEMMA InitArtist == ArtistInit => ArtistInv
BY ArtistConstants
   DEF ArtistInit, ArtistInv, ArtistTypes, UsersResolved, CheckedHolds, SavedHolds,
       HandledIsCurrent, MutationsKept, OnePerPlan

\* What a step leaves alone: the records as sessions use them, and what they rest on.
Untouched ==
  /\ UNCHANGED <<stored, mutations, reviewed>>
  /\ \A s \in Sessions : Resolved(s) => Resolved(s)' /\ uses'[s] = uses[s]
  /\ \A d \in Decisions : decision[d] \in DecisionRecord =>
       decision'[d].plan = decision[d].plan /\ decision'[d].used = decision[d].used

\* Such a step takes nothing from the mutations that were made.
LEMMA UntouchedKeeps ==
  ASSUME ArtistInv, Untouched
  PROVE  MutationsKept' /\ OnePerPlan'
<1>1. OnePerPlan'
  BY DEF ArtistInv, OnePerPlan, Untouched
<1>2. SUFFICES ASSUME NEW m \in mutations
               PROVE  /\ Resolved(m.session)' /\ m.plan = Plan(m.session)'
                      /\ decision'[uses'[m.session]].used = m.session
                      /\ m.on = reviewed[m.plan] /\ stored[m.plan] = Nil
  BY <1>1 DEF MutationsKept, Untouched
<1>3. m.session \in Sessions /\ Resolved(m.session)
  BY DEF ArtistInv, ArtistTypes, MutationsKept
<1>4. Resolved(m.session)' /\ uses'[m.session] = uses[m.session]
  BY <1>3 DEF Untouched
<1> QED BY <1>3, <1>4 DEF Untouched, ArtistInv, MutationsKept, Resolved, Plan

\* Nor from the command the Editor has in its hands.
LEMMA UntouchedHandled ==
  ASSUME ArtistInv, Untouched, UNCHANGED <<scene, handling>>
  PROVE  HandledIsCurrent' /\ (handling # Nil => Resolved(handling.of))'
<1>1. SUFFICES ASSUME handling # Nil
               PROVE  Resolved(handling.of)' /\ HandledIsCurrent'
  BY DEF HandledIsCurrent
<1>2. handling.of \in Sessions /\ Resolved(handling.of)
  BY <1>1 DEF ArtistInv, ArtistTypes, UsersResolved
<1>3. Resolved(handling.of)' /\ uses'[handling.of] = uses[handling.of]
  BY <1>2 DEF Untouched
<1> QED BY <1>1, <1>2, <1>3 DEF Untouched, ArtistInv, HandledIsCurrent, Resolved, Plan

\* Planning: the plan is new, so no mutation and no command is of it.
LEMMA MakePlanKeeps ==
  ASSUME ArtistInv, NEW p \in ArtistPlans, MakePlan(p)
  PROVE  ArtistInv'
<1>1. ArtistTypes'
  BY DEF MakePlan, ArtistInv, ArtistTypes, sessionVars
<1>2. UsersResolved' /\ CheckedHolds' /\ SavedHolds' /\ HandledIsCurrent' /\ OnePerPlan'
  BY DEF MakePlan, ArtistInv, UsersResolved, CheckedHolds, SavedHolds, HandledIsCurrent, OnePerPlan,
         Resolved, sessionVars
<1>3. \A m \in mutations : m.plan # p
  BY ArtistConstants DEF MakePlan, ArtistInv, ArtistTypes, MutationsKept
<1>4. MutationsKept'
  BY <1>3 DEF MakePlan, ArtistInv, ArtistTypes, MutationsKept, Resolved, Plan, sessionVars
<1> QED BY <1>1, <1>2, <1>4 DEF ArtistInv

\* A change of approval records that no lock protects, or that nobody has.
LEMMA DecisionKeeps ==
  ASSUME ArtistInv, NEW d \in Decisions, NEW r \in DecisionRecord,
         decision' = [decision EXCEPT ![d] = r],
         UNCHANGED <<editorVars, reviewed, guarded, descriptor, sessionVars>>,
         decision[d] \in DecisionRecord =>
           /\ r.plan = decision[d].plan /\ r.used = decision[d].used
           /\ r.revoked # decision[d].revoked => guarded[d] = Nil
  PROVE  ArtistInv'
<1>1. ArtistTypes'
  BY DEF ArtistInv, ArtistTypes, editorVars, sessionVars
<1>2. Untouched
  BY DEF Untouched, ArtistInv, ArtistTypes, Resolved, editorVars, sessionVars
<1>3. \A s \in Sessions : Resolved(s) => Resolved(s)'
  BY <1>2 DEF Untouched
<1>4. UsersResolved'
  BY <1>2, <1>3, UntouchedHandled DEF ArtistInv, UsersResolved, editorVars, sessionVars
<1>5. CheckedHolds' /\ SavedHolds'
  BY ArtistConstants
     DEF ArtistInv, ArtistTypes, UsersResolved, CheckedHolds, SavedHolds, Resolved, DecisionRecord,
         editorVars, sessionVars
<1> QED BY <1>1, <1>2, <1>4, <1>5, UntouchedKeeps, UntouchedHandled DEF ArtistInv, editorVars

\* Approving, binding, revoking and the passing of time.
LEMMA PeopleKeep ==
  ASSUME ArtistInv, NEW d \in Decisions,
         BindPlan(d) \/ RevokePlan(d) \/ ExpirePlan(d) \/ \E p \in ArtistPlans : ApprovePlan(d, p)
  PROVE  ArtistInv'
<1>1. decision[d] # Nil => decision[d] \in DecisionRecord
  BY DEF ArtistInv, ArtistTypes
<1>2. Nil \notin DecisionRecord
  BY ArtistConstants
<1>3. CASE BindPlan(d)
  <2>1. [decision[d] EXCEPT !.bound = TRUE] \in DecisionRecord
    BY <1>1, <1>3 DEF BindPlan, DecisionRecord
  <2>2. decision' = [decision EXCEPT ![d] = [decision[d] EXCEPT !.bound = TRUE]]
    BY <1>3 DEF BindPlan, ArtistInv, ArtistTypes
  <2> QED BY <1>1, <1>3, <2>1, <2>2, DecisionKeeps DEF BindPlan, DecisionRecord
<1>4. CASE RevokePlan(d)
  <2>1. [decision[d] EXCEPT !.revoked = TRUE] \in DecisionRecord
    BY <1>1, <1>4 DEF RevokePlan, DecisionRecord
  <2>2. decision' = [decision EXCEPT ![d] = [decision[d] EXCEPT !.revoked = TRUE]]
    BY <1>4 DEF RevokePlan, ArtistInv, ArtistTypes
  <2> QED BY <1>1, <1>4, <2>1, <2>2, DecisionKeeps DEF RevokePlan, DecisionRecord
<1>5. CASE ExpirePlan(d)
  <2>1. [decision[d] EXCEPT !.expired = TRUE] \in DecisionRecord
    BY <1>1, <1>5 DEF ExpirePlan, DecisionRecord
  <2>2. decision' = [decision EXCEPT ![d] = [decision[d] EXCEPT !.expired = TRUE]]
    BY <1>5 DEF ExpirePlan, ArtistInv, ArtistTypes
  <2> QED BY <1>1, <1>5, <2>1, <2>2, DecisionKeeps DEF ExpirePlan, DecisionRecord
<1>6. CASE \E p \in ArtistPlans : ApprovePlan(d, p)
  <2>1. PICK p \in ArtistPlans : ApprovePlan(d, p)
    BY <1>6
  <2> DEFINE r == [plan |-> p, bound |-> FALSE, revoked |-> FALSE, expired |-> FALSE, used |-> Nil]
  <2>2. r \in DecisionRecord
    BY DEF DecisionRecord
  <2>3. /\ decision' = [decision EXCEPT ![d] = r] /\ decision[d] = Nil
        /\ UNCHANGED <<editorVars, reviewed, guarded, descriptor, sessionVars>>
    BY <2>1 DEF ApprovePlan
  <2> HIDE DEF r
  <2> QED BY <1>2, <2>2, <2>3, DecisionKeeps
<1> QED BY <1>3, <1>4, <1>5, <1>6

\* The steps of a session before and after the Editor has its command, and its death.
LEMMA SessionKeeps ==
  ASSUME ArtistInv, NEW s \in Sessions,
         \/ \E d \in Decisions : ResolvePlan(s, d)
         \/ EnterAuthority(s) \/ SendCommand(s) \/ StopWaiting(s) \/ LeaveAuthority(s)
         \/ RecordRun(s) \/ DieServing(s)
  PROVE  ArtistInv'
<1>1. /\ UNCHANGED <<scene, stored, handling, mutations, reviewed, decision>>
      /\ inbox' \in {inbox, inbox \union {s}}
      /\ consumer' \in {consumer, [consumer EXCEPT ![s] = "none"]}
  BY DEF ResolvePlan, EnterAuthority, SendCommand, StopWaiting, LeaveAuthority, RecordRun,
         DieServing, editorVars, recordVars
<1>2. ArtistTypes'
  BY DEF ResolvePlan, EnterAuthority, SendCommand, StopWaiting, LeaveAuthority, RecordRun,
         DieServing, Turn, ArtistInv, ArtistTypes, editorVars, recordVars
<1>3. \A t \in Sessions : stage[t] # "idle" => stage'[t] # "idle" /\ uses'[t] = uses[t]
  BY DEF ResolvePlan, EnterAuthority, SendCommand, StopWaiting, LeaveAuthority, RecordRun,
         DieServing, Turn, ArtistInv, ArtistTypes
<1>4. Untouched
  BY <1>1, <1>3 DEF Untouched, Resolved
<1>5. \A t \in Sessions :
        stage'[t] \in {"resolved", "serving", "waiting", "leaving"} \/ consumer'[t] # "none"
          \/ t \in inbox' => Resolved(t)'
  <2>1. SUFFICES ASSUME NEW t \in Sessions, ~Resolved(t),
                        stage'[t] \in {"resolved", "serving", "waiting", "leaving"}
                          \/ consumer'[t] # "none" \/ t \in inbox'
                 PROVE  Resolved(t)'
    BY <1>4 DEF Untouched
  <2>2. /\ stage[t] \notin {"resolved", "serving", "waiting", "leaving"}
        /\ consumer[t] = "none" /\ t \notin inbox
    BY <2>1 DEF ArtistInv, UsersResolved
  <2>3. t = s /\ \E d \in Decisions : ResolvePlan(s, d) /\ Valid(d)
    BY <2>1, <2>2
       DEF ResolvePlan, EnterAuthority, SendCommand, StopWaiting, LeaveAuthority, RecordRun,
           DieServing, Turn, ArtistInv, ArtistTypes, editorVars, recordVars
  <2> QED BY <2>1, <2>3 DEF ResolvePlan, Turn, Valid, Resolved, ArtistInv, ArtistTypes, recordVars
<1>6. UsersResolved'
  BY <1>1, <1>4, <1>5, UntouchedHandled DEF UsersResolved
<1>7. \A t \in Sessions : consumer'[t] # "none" => consumer'[t] = consumer[t] /\ uses'[t] = uses[t]
  BY <1>1, <1>3 DEF ArtistInv, ArtistTypes, UsersResolved, Resolved
<1>8. CheckedHolds'
  <2>1. SUFFICES ASSUME NEW t \in Sessions, consumer'[t] = "checked"
                 PROVE  guarded'[uses[t]] = t
    BY <1>1, <1>7 DEF CheckedHolds, ArtistInv
  <2>2. consumer[t] = "checked" /\ uses[t] \in Decisions /\ guarded[uses[t]] = t
    BY <1>7, <2>1 DEF ArtistInv, CheckedHolds, UsersResolved, Resolved
  <2> QED BY <2>1, <2>2 DEF ResolvePlan, EnterAuthority, SendCommand, StopWaiting, LeaveAuthority,
             RecordRun, DieServing, recordVars, ArtistInv, ArtistTypes
<1>9. SavedHolds'
  BY <1>1, <1>7 DEF SavedHolds, ArtistInv
<1> QED BY <1>1, <1>2, <1>4, <1>6, <1>8, <1>9, UntouchedKeeps, UntouchedHandled DEF ArtistInv

\* The handler thread looks below the lock, which it keeps while it means to consume.
LEMMA CheckKeeps ==
  ASSUME ArtistInv, NEW s \in Sessions, CheckUnused(s)
  PROVE  ArtistInv'
<1>1. Resolved(s) /\ UNCHANGED <<editorVars, reviewed, decision, descriptor, stage, uses, ending>>
  BY DEF CheckUnused, ArtistInv, UsersResolved
<1>2. ArtistTypes'
  BY <1>1 DEF CheckUnused, ArtistInv, ArtistTypes, Resolved, editorVars
<1>3. Untouched
  BY <1>1 DEF Untouched, Resolved, editorVars
<1>4. UsersResolved'
  BY <1>1, <1>3, UntouchedHandled
     DEF CheckUnused, ArtistInv, ArtistTypes, UsersResolved, Resolved, editorVars
<1>5. CheckedHolds'
  BY <1>1, ArtistConstants
     DEF CheckUnused, ArtistInv, ArtistTypes, UsersResolved, CheckedHolds, Resolved, Valid
<1>6. SavedHolds'
  BY <1>1 DEF CheckUnused, ArtistInv, ArtistTypes, SavedHolds
<1> QED BY <1>1, <1>2, <1>3, <1>4, <1>5, <1>6, UntouchedKeeps, UntouchedHandled
        DEF ArtistInv, editorVars

\* The consumption: nobody used the approval before, so nothing of anyone else rests on it.
LEMMA SaveKeeps ==
  ASSUME ArtistInv, NEW s \in Sessions, SaveConsumption(s)
  PROVE  ArtistInv'
<1>1. /\ Resolved(s) /\ decision[uses[s]].used = Nil
      /\ UNCHANGED <<editorVars, reviewed, descriptor, stage, uses, ending>>
  BY DEF SaveConsumption, ArtistInv, UsersResolved, CheckedHolds
<1>2. /\ [decision[uses[s]] EXCEPT !.used = s] \in DecisionRecord
      /\ [decision[uses[s]] EXCEPT !.used = s].plan = decision[uses[s]].plan
      /\ [decision[uses[s]] EXCEPT !.used = s].revoked = decision[uses[s]].revoked
      /\ [decision[uses[s]] EXCEPT !.used = s].used = s
  BY <1>1 DEF Resolved, DecisionRecord
<1>3. /\ decision' = [decision EXCEPT ![uses[s]] = [decision[uses[s]] EXCEPT !.used = s]]
      /\ decision'[uses[s]] = [decision[uses[s]] EXCEPT !.used = s]
      /\ \A d \in Decisions : d # uses[s] => decision'[d] = decision[d]
  BY <1>1 DEF SaveConsumption, ArtistInv, ArtistTypes, Resolved
<1>4. ArtistTypes'
  BY <1>1, <1>2, <1>3 DEF SaveConsumption, ArtistInv, ArtistTypes, Resolved, editorVars
<1>5. \A t \in Sessions : Resolved(t) =>
        /\ Resolved(t)' /\ uses'[t] = uses[t] /\ Plan(t)' = Plan(t)
        /\ decision[uses[t]].used = t => decision'[uses[t]].used = t
        /\ uses[t] # uses[s] => decision'[uses[t]] = decision[uses[t]]
  BY <1>1, <1>2, <1>3, ArtistConstants DEF Resolved, Plan
<1>6. consumer' = [consumer EXCEPT ![s] = "saved"] /\ guarded' = [guarded EXCEPT ![uses[s]] = Nil]
  BY DEF SaveConsumption
<1>7. UsersResolved'
  BY <1>1, <1>5, <1>6 DEF ArtistInv, ArtistTypes, UsersResolved, editorVars
<1>8. CheckedHolds'
  <2>1. SUFFICES ASSUME NEW t \in Sessions, consumer'[t] = "checked"
                 PROVE  /\ guarded'[uses[t]] = t
                        /\ ~decision'[uses[t]].revoked /\ decision'[uses[t]].used = Nil
    BY <1>1 DEF CheckedHolds
  <2>2. t # s /\ consumer[t] = "checked"
    BY <1>6, <2>1 DEF ArtistInv, ArtistTypes
  <2>3. Resolved(t) /\ uses[t] # uses[s]
    BY <2>2 DEF ArtistInv, UsersResolved, CheckedHolds, SaveConsumption
  <2> QED BY <1>1, <1>5, <1>6, <2>2, <2>3 DEF ArtistInv, ArtistTypes, CheckedHolds, Resolved
<1>9. SavedHolds'
  BY <1>1, <1>2, <1>3, <1>5, <1>6 DEF ArtistInv, ArtistTypes, SavedHolds, UsersResolved
<1>10. HandledIsCurrent'
  BY <1>1, <1>5 DEF ArtistInv, ArtistTypes, HandledIsCurrent, UsersResolved, editorVars
<1>11. MutationsKept' /\ OnePerPlan'
  BY <1>1, <1>5 DEF ArtistInv, ArtistTypes, MutationsKept, OnePerPlan, editorVars
<1> QED BY <1>4, <1>7, <1>8, <1>9, <1>10, <1>11 DEF ArtistInv

\* What the Editor does with a command, up to the mutation.
LEMMA CommandKeeps ==
  ASSUME ArtistInv, (\E s \in Sessions : BeginCommand(s)) \/ AskAuthority \/ HearAuthority
  PROVE  ArtistInv'
<1>1. UNCHANGED <<scene, stored, mutations, reviewed, decision, guarded, uses>>
  BY DEF BeginCommand, AskAuthority, HearAuthority, recordVars
<1>2. /\ stage' \in [Sessions -> {"idle", "resolved", "serving", "waiting", "leaving",
           "recording", "over"}]
      /\ \A t \in Sessions : stage'[t] = stage[t] \/ (stage[t] = "waiting" /\ stage'[t] = "leaving")
  BY DEF BeginCommand, AskAuthority, HearAuthority, Finished, ArtistInv, ArtistTypes
<1>3. Untouched
  BY <1>1, <1>2 DEF Untouched, Resolved
<1>4. \A t \in Sessions : Resolved(t) => Resolved(t)'
  BY <1>3 DEF Untouched
<1>5. CASE \E s \in Sessions : BeginCommand(s)
  <2>1. PICK s \in Sessions : BeginCommand(s)
    BY <1>5
  <2>2. /\ UNCHANGED consumer /\ inbox' \subseteq inbox /\ Resolved(s) /\ descriptor' = descriptor
        /\ handling' # Nil => /\ handling' = [of |-> s, step |-> "ask", to |-> Nil]
                             /\ stored[Plan(s)] = scene /\ reviewed[Plan(s)] = scene
    BY <2>1 DEF BeginCommand, Finished, ArtistInv, UsersResolved, recordVars
  <2>3. ArtistTypes'
    BY <1>1, <1>2, <2>2 DEF ArtistInv, ArtistTypes
  <2>4. UsersResolved'
    BY <1>2, <1>4, <2>2 DEF ArtistInv, UsersResolved
  <2>5. HandledIsCurrent'
    BY <1>1, <2>2 DEF HandledIsCurrent, Plan
  <2> QED BY <1>1, <1>3, <2>2, <2>3, <2>4, <2>5, UntouchedKeeps
     DEF ArtistInv, CheckedHolds, SavedHolds
<1>6. CASE AskAuthority
  <2>1. PICK s \in Sessions : s = handling.of
    BY <1>6 DEF AskAuthority, ArtistInv, ArtistTypes
  <2>2. /\ Resolved(s) /\ stored[Plan(s)] = scene /\ reviewed[Plan(s)] = scene
        /\ UNCHANGED <<inbox, descriptor>>
    BY <1>6, <2>1 DEF AskAuthority, ArtistInv, UsersResolved, HandledIsCurrent, recordVars
  <2>3. /\ consumer' \in {consumer, [consumer EXCEPT ![s] = "asked"]}
        /\ handling' # Nil => handling' = [of |-> s, step |-> "listen", to |-> s]
    BY <1>6, <2>1 DEF AskAuthority, Answers, Finished
  <2>4. ArtistTypes'
    BY <1>1, <1>2, <2>2, <2>3 DEF ArtistInv, ArtistTypes
  <2>5. UsersResolved'
    BY <1>2, <1>4, <2>2, <2>3 DEF ArtistInv, ArtistTypes, UsersResolved
  <2>6. HandledIsCurrent'
    BY <1>1, <2>2, <2>3 DEF HandledIsCurrent, Plan
  <2>7. CheckedHolds' /\ SavedHolds'
    BY <1>1, <2>3 DEF ArtistInv, ArtistTypes, CheckedHolds, SavedHolds
  <2> QED BY <1>3, <2>4, <2>5, <2>6, <2>7, UntouchedKeeps DEF ArtistInv
<1>7. CASE HearAuthority
  <2>1. PICK s \in Sessions : s = handling.of
    BY <1>7 DEF HearAuthority, ArtistInv, ArtistTypes
  <2>2. /\ Resolved(s) /\ stored[Plan(s)] = scene /\ reviewed[Plan(s)] = scene /\ handling.to = s
        /\ UNCHANGED <<inbox, descriptor, consumer>>
    BY <1>7, <2>1 DEF HearAuthority, ArtistInv, UsersResolved, HandledIsCurrent, recordVars
  <2>3. handling' # Nil =>
          /\ handling' = [of |-> s, step |-> "granted", to |-> s]
          /\ decision[uses[s]].used = s
    BY <1>7, <2>1, <2>2 DEF HearAuthority, Finished, ArtistInv, ArtistTypes, SavedHolds
  <2>4. ArtistTypes'
    BY <1>1, <1>2, <2>2, <2>3 DEF ArtistInv, ArtistTypes
  <2>5. UsersResolved'
    BY <1>2, <1>4, <2>2, <2>3 DEF ArtistInv, ArtistTypes, UsersResolved
  <2>6. HandledIsCurrent'
    BY <1>1, <2>2, <2>3 DEF HandledIsCurrent, Plan
  <2>7. CheckedHolds' /\ SavedHolds'
    BY <1>1, <2>2 DEF ArtistInv, CheckedHolds, SavedHolds
  <2> QED BY <1>3, <2>4, <2>5, <2>6, <2>7, UntouchedKeeps DEF ArtistInv
<1> QED BY <1>5, <1>6, <1>7

\* The mutation: no other one is of its plan, as the Editor still held that.
LEMMA MutateKeeps ==
  ASSUME ArtistInv, MutateScene
  PROVE  ArtistInv'
<1>1. PICK s \in Sessions : s = handling.of /\ handling # Nil /\ handling.step = "granted"
  BY DEF MutateScene, ArtistInv, ArtistTypes
<1>2. /\ Resolved(s) /\ stored[Plan(s)] = scene /\ reviewed[Plan(s)] = scene
      /\ decision[uses[s]].used = s /\ Plan(s) \in ArtistPlans
      /\ UNCHANGED <<inbox, recordVars, uses, consumer>> /\ handling' = Nil
  BY <1>1 DEF MutateScene, Finished, ArtistInv, UsersResolved, HandledIsCurrent, Resolved, Plan,
              DecisionRecord
<1>3. /\ stage' \in [Sessions -> {"idle", "resolved", "serving", "waiting", "leaving",
           "recording", "over"}]
      /\ \A t \in Sessions : stage'[t] = stage[t] \/ (stage[t] = "waiting" /\ stage'[t] = "leaving")
  BY <1>1 DEF MutateScene, Finished, ArtistInv, ArtistTypes
<1>4. \A t \in Sessions : Resolved(t) => Resolved(t)' /\ Plan(t)' = Plan(t)
  BY <1>2, <1>3 DEF Resolved, Plan, recordVars
<1>5. UsersResolved' /\ CheckedHolds' /\ SavedHolds' /\ HandledIsCurrent'
  BY <1>2, <1>3, <1>4
     DEF ArtistInv, UsersResolved, CheckedHolds, SavedHolds, HandledIsCurrent, recordVars
<1>6. CASE UNCHANGED <<mutations, stored, scene>>
  <2>1. ArtistTypes'
    BY <1>2, <1>3, <1>6 DEF ArtistInv, ArtistTypes, recordVars
  <2>2. MutationsKept' /\ OnePerPlan'
    BY <1>2, <1>4, <1>6 DEF ArtistInv, ArtistTypes, MutationsKept, OnePerPlan, recordVars
  <2> QED BY <1>5, <2>1, <2>2 DEF ArtistInv
<1>7. CASE /\ mutations' = mutations \union {[session |-> s, plan |-> Plan(s), on |-> scene]}
           /\ stored' = [stored EXCEPT ![Plan(s)] = Nil] /\ scene' = scene + 1
  <2>1. ArtistTypes'
    BY <1>2, <1>3, <1>7 DEF ArtistInv, ArtistTypes, recordVars
  <2>2. \A m \in mutations : m.plan # Plan(s)
    BY <1>2, ArtistConstants DEF ArtistInv, ArtistTypes, MutationsKept
  <2>3. MutationsKept'
    BY <1>2, <1>4, <1>7, <2>2 DEF ArtistInv, ArtistTypes, MutationsKept, recordVars
  <2>4. OnePerPlan'
    BY <1>7, <2>2 DEF ArtistInv, OnePerPlan
  <2> QED BY <1>5, <2>1, <2>3, <2>4 DEF ArtistInv
<1> QED BY <1>1, <1>6, <1>7 DEF MutateScene

\* People edit only what no command is at work on, and a new Editor has no command.
LEMMA EditorKeeps ==
  ASSUME ArtistInv, EditScene \/ RestartEditor
  PROVE  ArtistInv'
<1>1. /\ handling' = Nil /\ inbox' \subseteq inbox
      /\ UNCHANGED <<mutations, recordVars, uses, consumer>>
      /\ stored' \in [ArtistPlans -> Nat \union {Nil}]
      /\ \A p \in ArtistPlans : stored[p] = Nil => stored'[p] = Nil
  BY DEF EditScene, RestartEditor, sessionVars, ArtistInv, ArtistTypes
<1>2. /\ stage' \in [Sessions -> {"idle", "resolved", "serving", "waiting", "leaving",
           "recording", "over"}]
      /\ \A t \in Sessions : stage'[t] = stage[t] \/ (stage[t] = "waiting" /\ stage'[t] = "leaving")
  BY DEF EditScene, RestartEditor, sessionVars, ArtistInv, ArtistTypes
<1>3. scene' \in Nat
  BY DEF EditScene, RestartEditor, ArtistInv, ArtistTypes
<1>4. \A t \in Sessions : Resolved(t) => Resolved(t)' /\ Plan(t)' = Plan(t)
  BY <1>1, <1>2 DEF Resolved, Plan, recordVars
<1>5. ArtistTypes'
  BY <1>1, <1>2, <1>3 DEF ArtistInv, ArtistTypes, recordVars
<1>6. UsersResolved' /\ CheckedHolds' /\ SavedHolds' /\ HandledIsCurrent'
  BY <1>1, <1>2, <1>4
     DEF ArtistInv, UsersResolved, CheckedHolds, SavedHolds, HandledIsCurrent, recordVars
<1>7. MutationsKept' /\ OnePerPlan'
  BY <1>1, <1>4 DEF ArtistInv, ArtistTypes, MutationsKept, OnePerPlan, recordVars
<1> QED BY <1>5, <1>6, <1>7 DEF ArtistInv

\* Every step of the Artist keeps its invariant,
LEMMA StepArtist == ArtistInv /\ [ArtistNext]_artistVars => ArtistInv'
<1>1. SUFFICES ASSUME ArtistInv, ArtistNext PROVE ArtistInv'
  BY DEF artistVars, editorVars, recordVars, sessionVars, ArtistInv, ArtistTypes, UsersResolved,
         CheckedHolds, SavedHolds, HandledIsCurrent, MutationsKept, OnePerPlan, Resolved, Plan
<1> QED BY <1>1, MakePlanKeeps, PeopleKeep, SessionKeeps, CheckKeeps, SaveKeeps, CommandKeeps,
           MutateKeeps, EditorKeeps
   DEF ArtistNext, ArtistSession

\* and so it always holds.
LEMMA ArtistInvariant == ArtistSpec => []ArtistInv
BY InitArtist, StepArtist, PTL DEF ArtistSpec

\* Whatever sessions stop waiting or die, and however late their handler threads and the
\* Editor are, every mutation is the single use of an approval, of the plan that was
\* approved and on the revision that was reviewed (consume_artist_plan, ArtistSession.Apply).
THEOREM ApprovedOnce == ArtistSpec => []MutationIsApproved
<1>1. ArtistInv => MutationIsApproved
  <2>1. SUFFICES ASSUME ArtistInv, NEW m \in mutations, NEW n \in mutations,
                        uses[m.session] = uses[n.session]
                 PROVE  m.plan = n.plan
    BY DEF MutationIsApproved, ArtistInv, MutationsKept, OnePerPlan
  <2> QED BY <2>1 DEF ArtistInv, MutationsKept, Plan
<1> QED BY <1>1, ArtistInvariant, PTL

\* A revocation that was saved before the consumption prevents it: the lock of the record is
\* held from the look at it to the save (approval_store.consume_artist_plan).
THEOREM RevocationHolds == ArtistSpec => RevokedNeverStarts
<1> DEFINE Kept == \A d \in Decisions : decision[d] # Nil /\ decision'[d].used # decision[d].used
                     => ~decision[d].revoked /\ decision[d].used = Nil
<1>1. ASSUME ArtistInv, ArtistNext, NEW d \in Decisions, decision[d] # Nil,
             decision'[d].used # decision[d].used
      PROVE  ~decision[d].revoked /\ decision[d].used = Nil
  <2>1. decision[d] \in DecisionRecord
    BY <1>1 DEF ArtistInv, ArtistTypes
  <2>2. PICK s \in Sessions : SaveConsumption(s)
    BY <1>1, <2>1
       DEF ArtistNext, ArtistSession, MakePlan, BindPlan, RevokePlan, ExpirePlan, ApprovePlan,
           ResolvePlan, EnterAuthority, SendCommand, StopWaiting, LeaveAuthority, RecordRun,
           DieServing, CheckUnused, BeginCommand, AskAuthority, HearAuthority, MutateScene,
           EditScene, RestartEditor, recordVars, ArtistInv, ArtistTypes, DecisionRecord
  <2>3. uses[s] \in Decisions /\ uses[s] = d
    BY <1>1, <2>1, <2>2 DEF SaveConsumption, ArtistInv, ArtistTypes, UsersResolved, Resolved
  <2> QED BY <1>1, <2>2, <2>3 DEF SaveConsumption, ArtistInv, CheckedHolds
<1>2. ArtistInv /\ [ArtistNext]_artistVars => [Kept]_artistVars
  BY <1>1
<1> QED BY <1>2, ArtistInvariant, PTL DEF ArtistSpec, RevokedNeverStarts

-----------------------------------------------------------------------------
(* ArtistPipeline: what an apply puts into the scene.                      *)

Setting == [place : Places, look : Looks]
Shown == [Places -> Looks \union {"plain"}]

\* Every place of a sequence of settings is one of an intent.
Among(q, intent) ==
  \A k \in DOMAIN q : \E j \in DOMAIN intent : intent[j].place = q[k].place

\* Where the intent sets nothing, the scene is as the apply found it.
Outside(intent, look, before) ==
  \A p \in Places : (\A j \in DOMAIN intent : intent[j].place # p) => look[p] = before[p]

\* An apply on its way is one of a plan that is there and has not passed, on the scene it was
\* made from; what is to do, and what was done, is of its intent.
Applying ==
  /\ command \in [plan : Slots(MaxPlans), todo : Seq(Setting), before : Shown, failed : BOOLEAN]
  /\ command.plan \notin passed
  /\ plans[command.plan].intent \in Intents
  /\ command.before = plans[command.plan].base
  /\ Among(command.todo, plans[command.plan].intent)
  /\ Outside(plans[command.plan].intent, shown, command.before)

PipelineInv ==
  /\ shown \in Shown /\ editor \in Nat \ {0} /\ passed \subseteq Slots(MaxPlans)
  /\ \A n \in Slots(MaxPlans) : plans[n].editor # 0 => plans[n].intent \in Intents
  /\ command = NoCommand \/ Applying

\* The settings of an intent and their places.
LEMMA SettingParts ==
  ASSUME NEW intent \in Intents
  PROVE  /\ intent \in Seq(Setting) /\ intent # <<>>
         /\ \A k \in DOMAIN intent : /\ intent[k] \in Setting /\ intent[k].place \in Places
                                     /\ intent[k].look \in Looks
<1>1. intent \in Seq(Setting) /\ intent # <<>> BY PipelineConstants DEF Setting
<1>2. \A k \in DOMAIN intent : intent[k] \in Setting BY <1>1
<1> QED BY <1>1, <1>2 DEF Setting

\* What is left of a sequence of settings after its first.
LEMMA TailAmong ==
  ASSUME NEW q \in Seq(Setting), q # <<>>, NEW intent, Among(q, intent)
  PROVE  /\ Tail(q) \in Seq(Setting) /\ Among(Tail(q), intent)
         /\ Head(q) \in Setting /\ Head(q).place \in Places /\ Head(q).look \in Looks
         /\ \E j \in DOMAIN intent : intent[j].place = Head(q).place
<1> DEFINE t == Tail(q)
           n == Len(q)
<1>1. n \in Nat /\ n > 0 /\ DOMAIN q = 1..n /\ Head(q) = q[1] OBVIOUS
<1>2. t \in Seq(Setting) /\ DOMAIN t = 1..(n - 1) /\ \A i \in 1..(n - 1) : t[i] = q[i + 1]
  OBVIOUS
<1>3. 1 \in DOMAIN q /\ q[1] \in Setting BY <1>1
<1> HIDE DEF t, n
<1>4. \A i \in 1..(n - 1) : i + 1 \in 1..n BY <1>1
<1>5. Among(t, intent) BY <1>1, <1>2, <1>4 DEF Among
<1>6. Head(q).place \in Places /\ Head(q).look \in Looks BY <1>1, <1>3 DEF Setting
<1> QED BY <1>1, <1>2, <1>3, <1>5, <1>6 DEF Among, t

\* The invariant of the Pipeline's store holds at first,
LEMMA InitPipeline == PipelineInit => PipelineInv
<1> SUFFICES ASSUME PipelineInit PROVE PipelineInv OBVIOUS
<1>1. shown \in Shown BY DEF PipelineInit, Plain, Shown
<1>2. \A n \in Slots(MaxPlans) : plans[n].editor = 0 BY DEF PipelineInit, NoPlan
<1> QED BY <1>1, <1>2 DEF PipelineInit, PipelineInv

\* A command that leaves the scene alone.
LEMMA QuietKeeps ==
  ASSUME PipelineInv, UNCHANGED <<shown, editor, command, passed>>,
         command # NoCommand => plans' = plans,
         \A n \in Slots(MaxPlans) : plans'[n].editor # 0 => plans'[n].intent \in Intents
  PROVE  PipelineInv'
<1>1. CASE command = NoCommand BY <1>1 DEF PipelineInv
<1>2. CASE command # NoCommand BY <1>2 DEF PipelineInv, Applying
<1> QED BY <1>1, <1>2

\* A plan that is kept is one of an intent.
LEMMA KeepPlanKeeps ==
  ASSUME PipelineInv, NEW r, NEW intent \in Intents, KeepPlan(r, intent),
         command = NoCommand, UNCHANGED <<shown, editor, command, passed>>
  PROVE  PipelineInv'
<1>1. PICK n \in Slots(MaxPlans) :
        plans' = [plans EXCEPT ![n] = [by |-> r, editor |-> editor, intent |-> intent,
                                       base |-> CurrentRevision]]
  BY DEF KeepPlan
<1>2. PICK new : new = [by |-> r, editor |-> editor, intent |-> intent,
                        base |-> CurrentRevision]
  OBVIOUS
<1>3. new.intent = intent BY <1>2
<1>4. \A m \in Slots(MaxPlans) : plans'[m].editor # 0 => plans'[m].intent \in Intents
  <2> TAKE m \in Slots(MaxPlans)
  <2>1. plans' = [plans EXCEPT ![n] = new] BY <1>1, <1>2
  <2>2. plans'[m] = new \/ plans'[m] = plans[m] BY <2>1
  <2>3. plans[m].editor # 0 => plans[m].intent \in Intents BY DEF PipelineInv
  <2> QED BY <1>3, <2>2, <2>3
<1> QED BY <1>4, QuietKeeps

\* An apply begins on the scene its plan was made from.
LEMMA BeginKeeps ==
  ASSUME PipelineInv, NEW r, NEW n \in Slots(MaxPlans), BeginApply(r, n) \/ BeginCinematic(r, n)
  PROVE  PipelineInv'
<1>1. /\ command = NoCommand /\ n \notin passed /\ plans[n].editor = editor
      /\ shown = plans[n].base
      /\ command' = [plan |-> n, todo |-> plans[n].intent, before |-> shown, failed |-> FALSE]
      /\ UNCHANGED <<shown, editor, plans, passed>>
  BY DEF BeginApply, BeginCinematic, Idle, Present, CurrentRevision, TakeUp
<1>2. PICK intent \in Intents : intent = plans[n].intent BY <1>1 DEF PipelineInv
<1>3. PICK look \in Shown : look = shown BY DEF PipelineInv
<1>4. PICK c : c = command' OBVIOUS
<1>5. c = [plan |-> n, todo |-> intent, before |-> look, failed |-> FALSE]
  BY <1>1, <1>2, <1>3, <1>4
<1>6. intent \in Seq(Setting) BY SettingParts
<1>7. /\ c \in [plan : Slots(MaxPlans), todo : Seq(Setting), before : Shown, failed : BOOLEAN]
      /\ c.plan = n /\ c.todo = intent /\ c.before = look
  BY <1>5, <1>6
<1>8. Among(intent, intent) BY DEF Among
<1>9. Outside(intent, look, look) BY DEF Outside
<1>10. Applying' BY <1>1, <1>2, <1>3, <1>4, <1>7, <1>8, <1>9 DEF Applying
<1> QED BY <1>1, <1>10 DEF PipelineInv

\* A place of the intent gets a look: outside, the scene stays.
LEMMA SetKeeps ==
  ASSUME PipelineInv, NEW by, NEW look \in Looks \union {"plain"}, NEW fails \in BOOLEAN,
         SetNext(by, look, fails)
  PROVE  PipelineInv'
<1>1. command # NoCommand BY DEF SetNext, NoCommand
<1>2. Applying BY <1>1 DEF PipelineInv
<1>3. PICK c, d : c = command /\ d = command' OBVIOUS
<1>4. PICK intent \in Intents : intent = plans[c.plan].intent BY <1>2, <1>3 DEF Applying
<1>5. PICK q \in Seq(Setting) : q = c.todo BY <1>2, <1>3 DEF Applying
<1>6. q # <<>> /\ Among(q, intent) BY <1>2, <1>3, <1>4, <1>5 DEF Applying, SetNext
<1> DEFINE place == Head(q).place
<1>7. /\ Tail(q) \in Seq(Setting) /\ Among(Tail(q), intent) /\ place \in Places
      /\ \E j \in DOMAIN intent : intent[j].place = place
  BY <1>6, TailAmong
<1>8. /\ shown' = [shown EXCEPT ![place] = look]
      /\ d = [c EXCEPT !.todo = Tail(q), !.failed = fails]
      /\ UNCHANGED <<editor, plans, passed>>
  BY <1>2, <1>3, <1>5 DEF SetNext, Applying
<1>9. c \in [plan : Slots(MaxPlans), todo : Seq(Setting), before : Shown, failed : BOOLEAN]
  BY <1>2, <1>3 DEF Applying
<1> HIDE DEF place
<1>10. /\ d \in [plan : Slots(MaxPlans), todo : Seq(Setting), before : Shown, failed : BOOLEAN]
       /\ d.plan = c.plan /\ d.todo = Tail(q) /\ d.before = c.before
  BY <1>7, <1>8, <1>9
<1>11. shown' \in Shown /\ \A p \in Places \ {place} : shown'[p] = shown[p]
  BY <1>7, <1>8 DEF PipelineInv, Shown
<1>12. Outside(intent, shown', c.before)
  BY <1>2, <1>3, <1>4, <1>7, <1>11 DEF Applying, Outside
<1>13. Applying' BY <1>2, <1>3, <1>4, <1>7, <1>8, <1>10, <1>12 DEF Applying
<1> QED BY <1>8, <1>11, <1>13 DEF PipelineInv

\* An apply that passes leaves what was reviewed.
LEMMA PassedIsApplied ==
  ASSUME PipelineInv, Applying, Verified(command.plan)
  PROVE  shown = Applied(plans[command.plan].base, plans[command.plan].intent)
<1>1. PICK intent \in Intents : intent = plans[command.plan].intent BY DEF Applying
<1>2. PICK base : base = plans[command.plan].base OBVIOUS
<1>3. \A k \in DOMAIN intent : shown[intent[k].place] = intent[k].look
  BY <1>1 DEF Verified
<1>4. \A p \in Places : (\A j \in DOMAIN intent : intent[j].place # p) => shown[p] = base[p]
  BY <1>1, <1>2 DEF Applying, Outside
<1>5. ASSUME NEW p \in Places PROVE shown[p] = Applied(base, intent)[p]
  <2>1. CASE \E k \in DOMAIN intent : intent[k].place = p
    <3> DEFINE k == CHOOSE k \in DOMAIN intent : intent[k].place = p
    <3>1. k \in DOMAIN intent /\ intent[k].place = p BY <2>1
    <3>2. Applied(base, intent)[p] = intent[k].look BY <2>1 DEF Applied
    <3> HIDE DEF k
    <3> QED BY <1>3, <3>1, <3>2
  <2>2. CASE ~\E k \in DOMAIN intent : intent[k].place = p
    <3>1. Applied(base, intent)[p] = base[p] BY <2>2 DEF Applied
    <3> QED BY <1>4, <2>2, <3>1
  <2> QED BY <2>1, <2>2
<1>6. shown = [p \in Places |-> shown[p]] BY DEF PipelineInv, Shown
<1>7. Applied(base, intent) = [p \in Places |-> Applied(base, intent)[p]] BY DEF Applied
<1>8. shown = Applied(base, intent) BY <1>5, <1>6, <1>7
<1> QED BY <1>1, <1>2, <1>8

\* An apply ends.
LEMMA EndKeeps == ASSUME PipelineInv, EndApply PROVE PipelineInv'
<1>1. Applying BY DEF EndApply, NoCommand, PipelineInv
<1>2. PICK c : c = command OBVIOUS
<1>3. c.plan \in Slots(MaxPlans) /\ c.before \in Shown BY <1>1, <1>2 DEF Applying
<1>4. /\ command' = NoCommand /\ UNCHANGED <<editor, plans>>
      /\ passed' \in {passed, passed \union {c.plan}} /\ shown' \in {shown, c.before}
  BY <1>2 DEF EndApply
<1> QED BY <1>3, <1>4 DEF PipelineInv

\* every step keeps it,
LEMMA StepPipeline == PipelineInv /\ [PipelineNext]_pipelineVars => PipelineInv'
<1> SUFFICES ASSUME PipelineInv, [PipelineNext]_pipelineVars PROVE PipelineInv'
  OBVIOUS
<1>1. ASSUME NEW r \in ArtRuns \union {Manual}, NEW intent \in Intents,
             MakeArtPlan(r, intent) \/ PlanCinematic(r, intent)
               \/ \E k \in Slots(MaxShots) : RefinePlan(r, k, intent)
      PROVE  PipelineInv'
  <2>1. /\ KeepPlan(r, intent)
        /\ command = NoCommand /\ UNCHANGED <<shown, editor, command, passed>>
    BY <1>1 DEF MakeArtPlan, PlanCinematic, RefinePlan, Idle
  <2> QED BY <2>1, KeepPlanKeeps
<1>2. CASE \/ \E r \in ArtRuns \union {Manual} :
                \/ CaptureScene(r)
                \/ \E k \in Slots(MaxShots) : EvaluateCapture(r, k)
           \/ \E w \in DOMAIN spent : DecideArt(w[2], w[1])
           \/ UNCHANGED pipelineVars
  <2>1. UNCHANGED <<shown, editor, command, passed, plans>>
    BY <1>2 DEF CaptureScene, EvaluateCapture, DecideArt, pipelineVars
  <2>2. \A n \in Slots(MaxPlans) : plans'[n].editor # 0 => plans'[n].intent \in Intents
    BY <2>1 DEF PipelineInv
  <2> QED BY <2>1, <2>2, QuietKeeps
<1>3. ASSUME NEW r \in ArtRuns \union {Manual}, NEW n \in Slots(MaxPlans),
             BeginApply(r, n) \/ BeginCinematic(r, n)
      PROVE  PipelineInv'
  BY <1>3, BeginKeeps
<1>4. CASE SetProperty
  <2>1. command # NoCommand BY <1>4 DEF SetProperty, NoCommand
  <2>2. Applying BY <2>1 DEF PipelineInv
  <2>3. PICK q \in Seq(Setting) : q = command.todo BY <2>2 DEF Applying
  <2>4. PICK intent : intent = plans[command.plan].intent OBVIOUS
  <2>5. q # <<>> /\ Among(q, intent) BY <1>4, <2>2, <2>3, <2>4 DEF Applying, SetProperty
  <2>6. Head(q).place \in Places /\ Head(q).look \in Looks BY <2>5, TailAmong
  <2>7. shown[Head(q).place] \in Looks \union {"plain"} BY <2>6 DEF PipelineInv, Shown
  <2>8. \E look \in Looks \union {"plain"}, fails \in BOOLEAN : SetNext("property", look, fails)
    BY <1>4, <2>3, <2>6, <2>7 DEF SetProperty
  <2> QED BY <2>8, SetKeeps
<1>5. CASE SetLookDev \/ SetTimeline BY <1>5, SetKeeps DEF SetLookDev, SetTimeline
<1>6. CASE EndApply BY <1>6, EndKeeps
<1>7. CASE EditPlace
  <2>1. command = NoCommand /\ UNCHANGED <<editor, plans, command, passed>>
    BY <1>7 DEF EditPlace, Idle
  <2>2. shown' \in Shown BY <1>7 DEF EditPlace, PipelineInv, Shown
  <2> QED BY <2>1, <2>2 DEF PipelineInv
<1>8. CASE ReopenEditor
  <2>1. command' = NoCommand /\ UNCHANGED <<plans, passed>> /\ editor' = editor + 1
    BY <1>8 DEF ReopenEditor
  <2>2. shown' \in Shown BY <1>8 DEF ReopenEditor, PipelineInv, Plain, Shown
  <2> QED BY <2>1, <2>2 DEF PipelineInv
<1> QED BY <1>1, <1>2, <1>3, <1>4, <1>5, <1>6, <1>7, <1>8 DEF PipelineNext

\* and so it always holds.
LEMMA PipelineInvariant == PipelineSpec => []PipelineInv
BY InitPipeline, StepPipeline, PTL DEF PipelineSpec

\* For any places, intents and Runs: what an apply leaves behind is what was reviewed, or what
\* it found.
THEOREM AppliedIsReviewed == PipelineSpec => ApplyIsReviewedOrNothing
<1>1. ASSUME PipelineInv, PipelineNext, command.plan # 0, command'.plan = 0, editor' = editor
      PROVE  shown' = IF command.plan \in passed'
                      THEN Applied(plans[command.plan].base, plans[command.plan].intent)
                      ELSE command.before
  <2>1. Applying BY <1>1 DEF NoCommand, PipelineInv
  <2>2. EndApply
    <3>1. command # NoCommand BY <1>1 DEF NoCommand
    <3>2. ~ReopenEditor BY <1>1 DEF ReopenEditor, PipelineInv
    <3>3. ~SetProperty /\ ~SetLookDev /\ ~SetTimeline
      <4>1. ASSUME NEW by, NEW look, NEW fails, SetNext(by, look, fails) PROVE FALSE
        <5>1. PICK c, d : c = command /\ d = command' OBVIOUS
        <5>2. d = [c EXCEPT !.todo = Tail(c.todo), !.failed = fails]
          BY <2>1, <4>1, <5>1 DEF SetNext, Applying
        <5>3. d.plan = c.plan BY <2>1, <5>1, <5>2 DEF Applying
        <5> QED BY <1>1, <5>1, <5>3
      <4> QED BY <4>1 DEF SetProperty, SetLookDev, SetTimeline
    <3>4. PICK c, d : c = command /\ d = command' OBVIOUS
    <3>5. c # d BY <1>1, <3>4
    <3> QED BY <1>1, <3>1, <3>2, <3>3, <3>4, <3>5
            DEF PipelineNext, MakeArtPlan, PlanCinematic, RefinePlan, CaptureScene, EvaluateCapture,
                BeginApply, BeginCinematic, DecideArt, EditPlace, Idle
  <2>3. CASE ~command.failed /\ Verified(command.plan)
    <3>1. shown = Applied(plans[command.plan].base, plans[command.plan].intent)
      BY <1>1, <2>1, <2>3, PassedIsApplied
    <3> QED BY <2>2, <2>3, <3>1 DEF EndApply
  <2>4. CASE command.failed \/ ~Verified(command.plan)
    BY <2>1, <2>2, <2>4 DEF EndApply, Applying
  <2> QED BY <2>3, <2>4
<1>2. PipelineInv /\ [PipelineNext]_pipelineVars =>
        [command.plan # 0 /\ command'.plan = 0 /\ editor' = editor =>
           shown' = IF command.plan \in passed'
                    THEN Applied(plans[command.plan].base, plans[command.plan].intent)
                    ELSE command.before]_pipelineVars
  BY <1>1
<1> QED BY <1>2, PipelineInvariant, PTL DEF ApplyIsReviewedOrNothing, PipelineSpec
=============================================================================
