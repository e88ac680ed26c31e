---------------------------- MODULE ProjectEditors ----------------------------
(***************************************************************************)
(* The Editor processes of a host, and who starts and ends them for one     *)
(* Project: the native Editor provider, which runs batch Editors for a      *)
(* compilation, a test or a build, and Safe Mode recovery, which patches    *)
(* one source file, ends the one Editor that is bound to the Project and    *)
(* starts it again (runtime/tooling/providers/native_unity_editor,          *)
(* runtime/tooling/recovery.py, runtime/tooling/environment).               *)
(*                                                                         *)
(* All they know of an Editor is a row of the process list: its pid, the    *)
(* Project on its command line, and whether that says -safemode.  Rows are  *)
(* read, and used later.                                                    *)
(***************************************************************************)
EXTENDS Naturals, FiniteSets

CONSTANTS
  Jobs,          \* batch jobs: a compilation, a test run or a build
  Recoveries,    \* coordinators of Safe Mode recovery
  Pids,
  MaxRetried,    \* maximum_retry_attempts of the dispatcher
  MaxCycles,     \* maximum_cycles of a recovery budget
  Gone, People,  \* no process, and those who start Editors themselves
  MaxHappenings  \* bound of the model: what people do

\* An Editor says who started it, and for which attempt; its files say it of their Editor.
By == [starter : Jobs \union Recoveries \union {People}, nth : Nat]
EditorProcess ==
  [project : {"ours", "other"}, safe : BOOLEAN, by : By, opened : BOOLEAN, worked : BOOLEAN]
RunFiles == [log : {"none", "errors", "clean"}, tests : {"none", "passing", "failing"}, by : By]

ASSUME ProjectEditorsConstants ==
  /\ Jobs \intersect Recoveries = {} /\ People \notin Jobs \union Recoveries
  /\ Gone \notin EditorProcess \union RunFiles
  /\ MaxRetried \in 0..3 /\ MaxCycles \in 1..3 /\ MaxHappenings \in Nat

VARIABLES
  processes,    \* the Editors that run, by pid
  sourceText,   \* the file the patch is for: "broken", "patched" or "edited"
  directory,    \* the run directory of each job: what its Editors wrote there
  player,       \* who built the player at the build's output path
  kind, jobStep, attempt, believed, exit, verdict,   \* of each job
  cycleStep, cycles, bound, cycleEnd,           \* of each recovery
  happenings

editorsVars == <<processes, sourceText, directory, player, kind, jobStep, attempt, believed,
                 exit, verdict, cycleStep, cycles, bound, cycleEnd, happenings>>
jobVars == <<directory, player, kind, jobStep, attempt, believed, exit, verdict>>
cycleVars == <<cycleStep, cycles, bound, cycleEnd>>

Nobody == [starter |-> People, nth |-> 0]
NoFiles == [log |-> "none", tests |-> "none", by |-> Nobody]

\* An Editor: opened once it holds the Project, which Unity gives to one at a time.
Editor(project, safe, by) ==
  [project |-> project, safe |-> safe, by |-> by, opened |-> FALSE, worked |-> FALSE]
Live == {p \in Pids : processes[p] # Gone}

\* A pid is not given again in the moment between the last look at it and its end.
Free == {p \in Pids \ Live : \A r \in Recoveries : cycleStep[r] = "kill" => bound[r].pid # p}

\* bind_editor_processes: the one row of this Project; several are ambiguous.
Binding ==
  LET ours == {p \in Live : processes[p].project = "ours"} IN
  IF Live = {} THEN [status |-> "not_running", pid |-> Gone, safe |-> "unknown"]
  ELSE IF \E p \in ours : ours = {p}
       THEN LET p == CHOOSE p \in ours : TRUE
            IN [status |-> "bound", pid |-> p, safe |-> IF processes[p].safe THEN "yes" ELSE "no"]
  ELSE [status |-> IF ours = {} THEN "unbound" ELSE "ambiguous", pid |-> Gone, safe |-> "unknown"]

NoBinding == [status |-> "unknown", pid |-> Gone, safe |-> "unknown"]

EditorsInit ==
  /\ processes \in [Pids -> {Gone, [Editor("ours", TRUE, Nobody) EXCEPT !.opened = TRUE]}]
  /\ Cardinality(Live) <= 1
  /\ sourceText = "broken"
  /\ directory = [j \in Jobs |-> Gone] /\ player = Gone
  /\ kind = [j \in Jobs |-> "none"]
  /\ jobStep = [j \in Jobs |-> "idle"] /\ attempt = [j \in Jobs |-> 0]
  /\ believed = [j \in Jobs |-> NoBinding] /\ exit = [j \in Jobs |-> "none"]
  /\ verdict = [j \in Jobs |-> "none"]
  /\ cycleStep = [r \in Recoveries |-> "idle"] /\ cycles = [r \in Recoveries |-> 0]
  /\ bound = [r \in Recoveries |-> NoBinding] /\ cycleEnd = [r \in Recoveries |-> "none"]
  /\ happenings = 0

-----------------------------------------------------------------------------
(* A batch job: checks, a directory of its own, an Editor, its files.       *)

AnswerJob(j, class) ==
  /\ jobStep' = [jobStep EXCEPT ![j] = "answered"]
  /\ verdict' = [verdict EXCEPT ![j] = class]

\* discover_environment, by the caller of the dispatcher.
BeginBatch(j) ==
  /\ jobStep[j] = "idle"
  /\ \E k \in {"compile", "test", "build"} : kind' = [kind EXCEPT ![j] = k]
  /\ believed' \in {[believed EXCEPT ![j] = b] : b \in {Binding, NoBinding}}
  /\ jobStep' = [jobStep EXCEPT ![j] = "check"]
  /\ attempt' = [attempt EXCEPT ![j] = 1]
  /\ UNCHANGED <<processes, sourceText, directory, player, exit, verdict, cycleVars, happenings>>

\* _safe_mode_failure: of the snapshot; a compilation does not ask.
SafeModeFailure(j) ==
  CASE kind[j] = "compile" -> "none"
    [] believed[j].safe = "yes" -> "precondition_failed"
    [] believed[j].safe = "unknown" /\ believed[j].status # "not_running" -> "not_observed"
    [] OTHER -> "none"

\* _check_editor_conflict: of the list as it is now, or of the snapshot without one.
Conflict(b) == CASE b.status = "ambiguous" -> "ambiguous_binding"
                 [] b.status = "bound" -> "precondition_failed"
                 [] b.status = "unknown" -> "not_observed"
                 [] OTHER -> "none"

CheckJob(j) ==
  /\ jobStep[j] = "check"
  /\ \E list \in {Binding, believed[j]} :
       LET failure == IF SafeModeFailure(j) # "none" THEN SafeModeFailure(j) ELSE Conflict(list) IN
       \/ \E class \in {failure, "unavailable", "precondition_failed"} \ {"none"} : AnswerJob(j, class)
       \/ /\ failure = "none"
          /\ jobStep' = [jobStep EXCEPT ![j] = "prepare"]
          /\ UNCHANGED verdict
  /\ UNCHANGED <<processes, sourceText, directory, player, kind, attempt, believed, exit, cycleVars,
                 happenings>>

PrepareAgain(j) ==   \* mutant: mkdir(exist_ok=True)
  /\ jobStep[j] = "prepare"
  /\ jobStep' = [jobStep EXCEPT ![j] = "launch"]
  /\ directory' = [directory EXCEPT ![j] = IF directory[j] = Gone THEN NoFiles ELSE directory[j]]
  /\ UNCHANGED <<processes, sourceText, player, kind, attempt, believed, exit, verdict, cycleVars,
                 happenings>>

\* prepare_run_directory: a directory that is there already is an OSError, which the
\* dispatcher takes for an unhealthy provider.
Prepare(j) ==
  /\ jobStep[j] = "prepare"
  /\ IF directory[j] = Gone
     THEN /\ directory' = [directory EXCEPT ![j] = NoFiles]
          /\ jobStep' = [jobStep EXCEPT ![j] = "launch"]
          /\ UNCHANGED verdict
     ELSE AnswerJob(j, "unhealthy") /\ UNCHANGED directory
  /\ UNCHANGED <<processes, sourceText, player, kind, attempt, believed, exit, cycleVars, happenings>>

LaunchEditor(j) ==
  /\ jobStep[j] = "launch"
  /\ \E p \in Free :
       processes' = [processes EXCEPT ![p] =
                       Editor("ours", FALSE, [starter |-> j, nth |-> attempt[j]])]
  /\ jobStep' = [jobStep EXCEPT ![j] = "wait"] /\ exit' = [exit EXCEPT ![j] = "none"]
  /\ UNCHANGED <<sourceText, directory, player, kind, attempt, believed, verdict, cycleVars, happenings>>

EditorOf(j, p) ==
  p \in Live /\ processes[p].by = [starter |-> j, nth |-> attempt[j]]

\* The deadline, or a cancellation: the Editor is killed and its files are not looked at.
StopJob(j) ==
  /\ jobStep[j] = "wait" /\ exit[j] = "none"
  /\ \E class \in {"timeout", "cancelled"} : AnswerJob(j, class)
  /\ processes' = [p \in Pids |-> IF EditorOf(j, p) THEN Gone ELSE processes[p]]
  /\ UNCHANGED <<sourceText, directory, player, kind, attempt, believed, exit, cycleVars, happenings>>

\* normalize_compile_result, normalize_test_result and normalize_build_result.
Result(j) ==
  LET files == directory[j] IN
  CASE files.log = "errors" -> "execution_failed"
    [] kind[j] = "test" /\ files.tests = "failing" -> "observed_test_failure"
    [] exit[j] # "zero" -> "execution_failed"
    [] kind[j] = "test" /\ files.tests = "none" -> "not_observed"
    [] kind[j] = "build" /\ player = Gone -> "not_observed"
    [] OTHER -> "passed"

ReadResult(j) ==
  /\ jobStep[j] = "wait" /\ exit[j] # "none"
  /\ AnswerJob(j, Result(j))
  /\ UNCHANGED <<processes, sourceText, directory, player, kind, attempt, believed, exit, cycleVars,
                 happenings>>

\* The dispatcher calls the same provider again, with the same run id.
RetryJob(j) ==
  /\ jobStep[j] = "answered" /\ verdict[j] \in {"unhealthy", "timeout"}
  /\ attempt[j] <= MaxRetried
  /\ attempt' = [attempt EXCEPT ![j] = @ + 1]
  /\ jobStep' = [jobStep EXCEPT ![j] = "check"]
  /\ UNCHANGED <<processes, sourceText, directory, player, kind, believed, exit, verdict, cycleVars,
                 happenings>>

-----------------------------------------------------------------------------
(* Safe Mode recovery.                                                      *)

GotoCycle(r, step) == cycleStep' = [cycleStep EXCEPT ![r] = step]
Refused(r) == GotoCycle(r, "over") /\ cycleEnd' = [cycleEnd EXCEPT ![r] = "failed"]

\* The caller's environment snapshot.
Observe(r) ==
  /\ cycleStep[r] = "idle"
  /\ bound' = [bound EXCEPT ![r] = Binding] /\ GotoCycle(r, "begin")
  /\ UNCHANGED <<processes, sourceText, jobVars, cycles, cycleEnd, happenings>>

\* recover: the budget, the snapshot, the guard of the patch, and the compiler log, which
\* must name the one file that the patch is for.
Recover(r) ==
  /\ cycleStep[r] = "begin"
  /\ cycles' = [cycles EXCEPT ![r] = IF @ < MaxCycles THEN @ + 1 ELSE @]
  /\ \/ Refused(r)
     \/ /\ cycles[r] < MaxCycles
        /\ bound[r].status = "bound" /\ bound[r].safe = "yes"
        /\ GotoCycle(r, "look") /\ UNCHANGED cycleEnd
  /\ UNCHANGED <<processes, sourceText, jobVars, bound, happenings>>

\* validate_exact_editor_target
Target(r) == /\ bound[r].pid \in Live
             /\ processes[bound[r].pid].project = "ours" /\ processes[bound[r].pid].safe

Look(r) ==
  /\ cycleStep[r] = "look"
  /\ \/ Refused(r)
     \/ Target(r) /\ GotoCycle(r, "patch") /\ UNCHANGED cycleEnd
  /\ UNCHANGED <<processes, sourceText, jobVars, cycles, bound, happenings>>

\* patch_text: the expected text occurs once, and is replaced.
ReadSource(r) ==
  /\ cycleStep[r] = "patch"
  /\ \/ Refused(r)
     \/ sourceText = "broken" /\ GotoCycle(r, "write") /\ UNCHANGED cycleEnd
  /\ UNCHANGED <<processes, sourceText, jobVars, cycles, bound, happenings>>

WriteSource(r) ==
  /\ cycleStep[r] = "write"
  /\ \/ Refused(r) /\ UNCHANGED sourceText
     \/ GotoCycle(r, "relook") /\ sourceText' = "patched" /\ UNCHANGED cycleEnd
  /\ UNCHANGED <<processes, jobVars, cycles, bound, happenings>>

RelookNothing(r) ==   \* mutant: the target is validated before the patch only
  /\ cycleStep[r] = "relook"
  /\ GotoCycle(r, "kill")
  /\ UNCHANGED <<processes, sourceText, jobVars, cycles, bound, cycleEnd, happenings>>

Relook(r) ==
  /\ cycleStep[r] = "relook"
  /\ \/ Refused(r)
     \/ Target(r) /\ GotoCycle(r, "kill") /\ UNCHANGED cycleEnd
  /\ UNCHANGED <<processes, sourceText, jobVars, cycles, bound, happenings>>

\* terminate_exact_editor_process: taskkill ends it; SIGTERM only asks it to end.
Terminate(r) ==
  /\ cycleStep[r] = "kill"
  /\ \/ Refused(r) /\ UNCHANGED processes
     \/ /\ bound[r].pid \in Live
        /\ GotoCycle(r, "restart") /\ UNCHANGED cycleEnd
        /\ \/ processes' = [processes EXCEPT ![bound[r].pid] = Gone]
           \/ UNCHANGED processes
  /\ UNCHANGED <<sourceText, jobVars, cycles, bound, happenings>>

\* restart_exact_editor: without -safemode, and without waiting for anything.
Restart(r) ==
  /\ cycleStep[r] = "restart"
  /\ \/ Refused(r) /\ UNCHANGED processes
     \/ /\ \E p \in Free :
             processes' = [processes EXCEPT ![p] = Editor("ours", FALSE, [starter |-> r, nth |-> cycles[r]])]
        /\ GotoCycle(r, "discover") /\ UNCHANGED cycleEnd
  /\ UNCHANGED <<sourceText, jobVars, cycles, bound, happenings>>

\* rediscover_environment_snapshot, the guard, and the broker for the original request,
\* which needs an Editor that is bound and not in Safe Mode.
Rediscover(r) ==
  /\ cycleStep[r] = "discover"
  /\ \/ Refused(r) /\ UNCHANGED bound
     \/ /\ bound' = [bound EXCEPT ![r] = Binding] /\ GotoCycle(r, "over")
        /\ cycleEnd' = [cycleEnd EXCEPT ![r] =
             IF Binding.status = "bound" /\ Binding.safe = "no" THEN "recovered" ELSE "partial"]
  /\ UNCHANGED <<processes, sourceText, jobVars, cycles, happenings>>

RecoverAgain(r) ==
  /\ cycleStep[r] = "over" /\ cycleEnd[r] # "recovered"
  /\ GotoCycle(r, "idle")
  /\ UNCHANGED <<processes, sourceText, jobVars, cycles, bound, cycleEnd, happenings>>

-----------------------------------------------------------------------------
(* Editors, and people.                                                     *)

Holding == {p \in Live : processes[p].project = "ours" /\ processes[p].opened}

OpenProject(p) ==
  /\ p \in Live /\ processes[p].project = "ours" /\ ~processes[p].opened /\ Holding = {}
  /\ processes' = [processes EXCEPT ![p].opened = TRUE]
  /\ LET j == processes[p].by.starter IN
     IF j \in Jobs
     THEN directory' = [directory EXCEPT ![j].log = IF sourceText = "broken" THEN "errors" ELSE "clean"]
     ELSE UNCHANGED directory
  /\ UNCHANGED <<sourceText, player, kind, jobStep, attempt, believed, exit, verdict, cycleVars, happenings>>

\* A batch Editor writes its test results, or its player, and goes on.
WriteResults(p) ==
  /\ p \in Live /\ processes[p].opened /\ ~processes[p].worked /\ processes[p].by.starter \in Jobs
  /\ LET j == processes[p].by.starter IN
     /\ directory[j].log = "clean"
     /\ CASE kind[j] = "test" ->
               /\ \E tests \in {"passing", "failing"} :
                    directory' = [directory EXCEPT ![j].tests = tests, ![j].by = processes[p].by]
               /\ UNCHANGED player
          [] kind[j] = "build" -> player' = processes[p].by /\ UNCHANGED directory
          [] OTHER -> UNCHANGED <<directory, player>>
  /\ processes' = [processes EXCEPT ![p].worked = TRUE]
  /\ UNCHANGED <<sourceText, kind, jobStep, attempt, believed, exit, verdict, cycleVars, happenings>>

\* Any Editor may end at any time, with any code; one that did not get the Project fails.
EndEditor(p) ==
  /\ p \in Live
  /\ processes' = [processes EXCEPT ![p] = Gone]
  /\ \E code \in {"zero", "other"} :
       /\ processes[p].opened \/ code = "other"
       /\ exit' = [j \in Jobs |-> IF EditorOf(j, p) /\ jobStep[j] = "wait" THEN code ELSE exit[j]]
  /\ UNCHANGED <<sourceText, directory, player, kind, jobStep, attempt, believed, verdict, cycleVars,
                 happenings>>

Happen == happenings < MaxHappenings /\ happenings' = happenings + 1

StartByHand(p) ==
  /\ Happen /\ p \in Free
  /\ \/ processes' = [processes EXCEPT ![p] = Editor("other", FALSE, Nobody)]
     \/ /\ Holding = {}
        /\ \E safe \in BOOLEAN :
             processes' = [processes EXCEPT ![p] = [Editor("ours", safe, Nobody) EXCEPT !.opened = TRUE]]
  /\ UNCHANGED <<sourceText, jobVars, cycleVars>>

EditSource ==
  /\ Happen
  /\ \E text \in {"broken", "edited"} \ {sourceText} : sourceText' = text
  /\ UNCHANGED <<processes, jobVars, cycleVars>>

JobWork(j) == \/ BeginBatch(j) \/ CheckJob(j) \/ Prepare(j) \/ LaunchEditor(j) \/ StopJob(j)
              \/ ReadResult(j) \/ RetryJob(j)
CycleWork(r) == \/ Observe(r) \/ Recover(r) \/ Look(r) \/ ReadSource(r) \/ WriteSource(r)
                \/ Relook(r) \/ Terminate(r) \/ Restart(r) \/ Rediscover(r) \/ RecoverAgain(r)

EditorsNext ==
  \/ \E j \in Jobs : JobWork(j)
  \/ \E r \in Recoveries : CycleWork(r)
  \/ \E p \in Pids : OpenProject(p) \/ WriteResults(p) \/ EndEditor(p) \/ StartByHand(p)
  \/ EditSource

EditorsSpec == EditorsInit /\ [][EditorsNext]_editorsVars

-----------------------------------------------------------------------------
(* Properties.                                                              *)

\* Recovery ends no other Editor: the process that gets its signal is one of this Project, in
\* Safe Mode, whatever ended, started or took over its pid while the patch was written.
OnlyTargetEnds ==
  [][\A r \in Recoveries : cycleStep[r] = "kill" /\ cycleStep'[r] = "restart" =>
       /\ processes[bound[r].pid].project = "ours" /\ processes[bound[r].pid].safe]_editorsVars

\* Tests that passed were run by the Editor of that very attempt: a retry never takes the
\* results that an Editor it had given up wrote, be it before or after.
PassedIsOwn ==
  \A j \in Jobs : verdict[j] = "passed" /\ kind[j] = "test" =>
    directory[j].by = [starter |-> j, nth |-> attempt[j]]
=============================================================================
