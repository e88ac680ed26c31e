------------------------------ MODULE StagedCi -------------------------------
(***************************************************************************)
(* The private CI bridge (control_plane/private_production_ci.py): one Run  *)
(* that goes through four stages, each in a GitHub workflow run of its own  *)
(* (a job), with approvals that live in private pull requests.              *)
(*                                                                         *)
(* A job calls begin, lets the stage driver act on the Project, and calls   *)
(* complete.  begin and complete hold the Run's stage.lock; nothing else    *)
(* does.  Every durable write is a step; a job may die between any two, and *)
(* be run again, or completed by hand, under the same workflow run id.      *)
(***************************************************************************)
EXTENDS Naturals, FiniteSets, Sequences

CONSTANTS
  WorkflowRuns, \* workflow runs; a set 1..n, numbered in the order they start
  None,
  Edits,        \* edits of the Project from outside: bound of the model
  MaxDeaths,    \* bounds of the model: jobs that die
  MaxDismissals \* and approvals that are dismissed

Stages == <<"artifact", "editor", "visual", "rollback">>
StageNames == {Stages[i] : i \in DOMAIN Stages}

\* The approvals a stage needs, each from a pull request of its own.
KindsOf(stage) == CASE stage = "editor" -> {"mutation", "save"}
                  [] stage = "rollback" -> {"rollback"}
                  [] OTHER -> {"stage"}
AllKinds == UNION {KindsOf(stage) : stage \in StageNames}

\* What project_revision tells apart: the imported asset, and edits by others.
CiContents == [imported : BOOLEAN, edits : SUBSET Edits]

\* What GitHub answers, the receipts, and the progress of the Run.
Attestations == [kind : AllKinds, version : Nat, stage : StageNames, revision : CiContents]
StageReceipts ==
  [stage : StageNames, job : WorkflowRuns, at : Nat, before : CiContents, after : CiContents]
Actives == [stage : StageNames, job : WorkflowRuns, attestations : SUBSET Attestations]
StageEntries == [stage : StageNames, receipt : StageReceipts]
Progresses ==
  [status : {"waiting", "running", "completed"},
   completed : Seq(StageEntries),
   active : {None} \union Actives,
   expected : CiContents]

ASSUME StagedCiConstants ==
  /\ WorkflowRuns \subseteq Nat
  /\ None \notin WorkflowRuns \union Attestations \union StageReceipts \union Actives
                 \union Progresses
  /\ MaxDeaths \in Nat /\ MaxDismissals \in Nat

VARIABLES
  \* ---- the files of the Run
  registered,    \* private-ci/manifest.json is there
  progress,      \* private-ci/progress.json
  receipts,      \* private-ci/receipts/<stage>.json
  execution,     \* current execution state: the step it is at
  workflow,      \* current workflow state: the node it is at
  checkpoints,   \* checkpoint records, with the snapshots they refer to
  gates,         \* the stages whose gate files are in the evidence directory
  decisions,     \* approval decisions registered for the Editor
  \* ---- the world
  project,       \* content of the Project
  review,        \* the approval in force of each kind, as GitHub would answer now
  \* ---- the jobs
  jobAt, stageOf, \* where a job is, and the stage it was started for
  left,          \* kinds it still has to verify or to register
  given,         \* the attestations it was given
  stageLock,     \* who holds stage.lock
  \* ---- history and bounds
  dismissals, deaths, clock, made, between

files == <<registered, progress, receipts, execution, workflow, checkpoints, gates, decisions>>
locals == <<jobAt, stageOf, left, given, stageLock>>
history == <<dismissals, deaths, clock, made, between>>
stagedVars == <<files, project, review, locals, history>>

Original == [imported |-> FALSE, edits |-> {}]

NewProgress == [status |-> "waiting", completed |-> <<>>, active |-> None, expected |-> Original]

StagedInit ==
  /\ registered = FALSE /\ progress = None
  /\ receipts = [s \in StageNames |-> None]
  /\ execution = "none" /\ workflow = "none" /\ checkpoints = {}
  /\ gates = {} /\ decisions = {}
  /\ project = Original /\ review = [k \in AllKinds |-> None]
  /\ jobAt = [j \in WorkflowRuns |-> "idle"] /\ stageOf = [j \in WorkflowRuns |-> None]
  /\ left = [j \in WorkflowRuns |-> {}] /\ given = [j \in WorkflowRuns |-> {}] /\ stageLock = None
  /\ dismissals = 0 /\ deaths = 0 /\ clock = 0 /\ made = {} /\ between = {}

MoveJob(j, step) == jobAt' = [jobAt EXCEPT ![j] = step]

\* The command raises, or ends: the lock is given back.
Ends(j, step) == MoveJob(j, step) /\ stageLock' = None

Over(j) ==
  /\ Ends(j, "over")
  /\ left' = [left EXCEPT ![j] = {}] /\ given' = [given EXCEPT ![j] = {}]

-----------------------------------------------------------------------------
(* register_run                                                             *)

\* Refused for a Run that has a progress; the process may die after the manifest.
Register ==
  /\ stageLock = None /\ progress = None
  /\ project = Original
  /\ registered' = TRUE
  /\ progress' \in {None, NewProgress}
  /\ <<registered', progress'>> # <<registered, progress>>
  /\ UNCHANGED <<receipts, execution, workflow, checkpoints, gates, decisions,
                 project, review, locals, history>>

-----------------------------------------------------------------------------
(* begin_stage                                                              *)

\* Every completed stage has the receipt it was completed with, and a checkpoint that
\* verifies: evaluate_resume asks for nothing more, because the definition is the same.
Resumable ==
  \A i \in DOMAIN progress.completed :
    LET entry == progress.completed[i] IN
    /\ receipts[entry.stage] = entry.receipt
    /\ \E c \in checkpoints : c.id = entry.receipt

NextStage == IF Len(progress.completed) < Len(Stages)
             THEN Stages[Len(progress.completed) + 1] ELSE None

Load(j) ==
  /\ jobAt[j] = "idle" /\ stageLock = None /\ registered /\ progress # None
  /\ \A i \in WorkflowRuns : i < j => stageOf[i] # None
  /\ Resumable

Start(j, stage) ==
  /\ stageLock' = j
  /\ MoveJob(j, "verifying")
  /\ stageOf' = [stageOf EXCEPT ![j] = stage]
  /\ left' = [left EXCEPT ![j] = KindsOf(stage)] /\ given' = [given EXCEPT ![j] = {}]
  /\ UNCHANGED <<files, project, review, history>>

BeginOnEdited(j) ==   \* mutant: _load does not compare the Project
  /\ Load(j)
  /\ progress.status = "waiting" /\ progress.active = None
  /\ NextStage # None /\ Start(j, NextStage)

\* Whatever does not fit is refused and leaves everything as it was.
BeginStage(j) ==
  /\ Load(j) /\ project = progress.expected
  /\ progress.status = "waiting" /\ progress.active = None
  /\ NextStage # None /\ Start(j, NextStage)

\* The attestation GitHub gives for a document, or None: the review is of the head, and
\* the document in the head is what the Run expects.
Attested(kind, stage, revision) ==
  IF review[kind] # None /\ review[kind].stage = stage /\ review[kind].revision = revision
  THEN review[kind] ELSE None

VerifyReview(j) ==
  /\ jobAt[j] = "verifying"
  /\ \E kind \in left[j] :
       LET answer == Attested(kind, stageOf[j], progress.expected) IN
       \/ /\ answer # None
          /\ given' = [given EXCEPT ![j] = @ \union {answer}]
          /\ left' = [left EXCEPT ![j] = IF @ = {kind} THEN KindsOf(stageOf[j]) \ {"stage"} ELSE @ \ {kind}]
          /\ MoveJob(j, IF left[j] = {kind} THEN "registering" ELSE "verifying")
          /\ UNCHANGED stageLock
       \/ /\ answer = None
          /\ Over(j)
  /\ UNCHANGED <<files, project, review, stageOf, history>>

\* A decision for each kind the Editor asks for; then the progress.
RegisterDecision(j) ==
  /\ jobAt[j] = "registering" /\ left[j] # {}
  /\ \E attestation \in given[j] :
       /\ attestation.kind \in left[j]
       /\ decisions' = decisions \union {[job |-> j, attestation |-> attestation]}
       /\ left' = [left EXCEPT ![j] = @ \ {attestation.kind}]
  /\ UNCHANGED <<registered, progress, receipts, execution, workflow, checkpoints, gates,
                 project, review, jobAt, stageOf, given, stageLock, history>>

SaveRunning(j) ==
  /\ jobAt[j] = "registering" /\ left[j] = {}
  /\ progress' = [progress EXCEPT !.status = "running",
       !.active = [stage |-> stageOf[j], job |-> j, attestations |-> given[j]]]
  /\ Ends(j, "driving")
  /\ given' = [given EXCEPT ![j] = {}]
  /\ UNCHANGED <<registered, receipts, execution, workflow, checkpoints, gates, decisions,
                 project, review, stageOf, left, dismissals, deaths, clock, made, between>>

-----------------------------------------------------------------------------
(* The stage driver: rock_import's apply and rollback for two of the stages, *)
(* observations for the others.                                             *)

\* _check_approval: the decision is there, and its attestation is what GitHub answers now.
StillApproved(j) ==
  \A kind \in KindsOf(stageOf[j]) \ {"stage"} :
    \E d \in decisions : d.job = j /\ d.attestation.kind = kind /\ d.attestation = review[kind]

\* What is refused leaves no evidence; the import also wants the Project of the plan.
DriverChecks(j) ==
  /\ jobAt[j] = "driving"
  /\ IF StillApproved(j) /\ (stageOf[j] = "editor" => project = Original)
     THEN MoveJob(j, "acting") ELSE MoveJob(j, "over")
  /\ UNCHANGED <<files, project, review, stageOf, left, given, stageLock, history>>

\* The Editor acts or fails, and in either case may have changed the Project; the
\* execution state is saved by the import's own Control Plane.
DriverActs(j) ==
  /\ jobAt[j] = "acting"
  /\ project' \in {project} \union
       (CASE stageOf[j] = "editor" -> {[project EXCEPT !.imported = TRUE]}
          [] stageOf[j] = "rollback" -> {[project EXCEPT !.imported = FALSE]}
          [] OTHER -> {})
  /\ execution' = IF stageOf[j] = "editor" THEN "rock-apply" ELSE execution
  /\ \/ gates' = gates \union {stageOf[j]} /\ MoveJob(j, "driven")
     \/ UNCHANGED gates /\ MoveJob(j, "over")
  /\ UNCHANGED <<registered, progress, receipts, workflow, checkpoints, decisions,
                 review, stageOf, left, given, stageLock, history>>

-----------------------------------------------------------------------------
(* complete_stage                                                           *)

\* By the job after its driver, or by hand; the Project is not compared here.
Complete(j) ==
  /\ jobAt[j] \in {"driven", "idle"} /\ stageLock = None /\ progress # None
  /\ Resumable
  /\ progress.status = "running" /\ progress.active.stage = stageOf[j] /\ progress.active.job = j
  /\ stageLock' = j /\ MoveJob(j, "reverifying")
  /\ left' = [left EXCEPT ![j] = {a.kind : a \in progress.active.attestations}]
  /\ UNCHANGED <<files, project, review, stageOf, given, history>>

\* The same review, of the same head, is still in force.
ReverifyReview(j) ==
  /\ jobAt[j] = "reverifying"
  /\ \E attestation \in progress.active.attestations :
       /\ attestation.kind \in left[j]
       /\ IF Attested(attestation.kind, stageOf[j], progress.expected) = attestation
          THEN /\ left' = [left EXCEPT ![j] = @ \ {attestation.kind}]
               /\ MoveJob(j, IF left[j] = {attestation.kind} THEN "receipt" ELSE "reverifying")
               /\ UNCHANGED <<given, stageLock>>
          ELSE Over(j)
  /\ UNCHANGED <<files, project, review, stageOf, history>>

\* The receipt says when it was made, so it is never the one of an earlier attempt, and a
\* receipt that is there is not replaced.
WriteReceipt(j) ==
  /\ jobAt[j] = "receipt"
  /\ clock' = clock + 1
  /\ IF stageOf[j] \in gates /\ receipts[stageOf[j]] = None
     THEN /\ receipts' = [receipts EXCEPT ![stageOf[j]] =
               [stage |-> stageOf[j], job |-> j, at |-> clock,
                before |-> progress.expected, after |-> project]]
          /\ MoveJob(j, "execution") /\ UNCHANGED <<left, given, stageLock>>
     ELSE Over(j) /\ UNCHANGED receipts
  /\ UNCHANGED <<registered, progress, execution, workflow, checkpoints, gates, decisions,
                 project, review, stageOf, dismissals, deaths, made, between>>

SaveExecution(j) ==
  /\ jobAt[j] = "execution"
  /\ execution' = stageOf[j]
  /\ MoveJob(j, "workflow")
  /\ UNCHANGED <<registered, progress, receipts, workflow, checkpoints, gates, decisions,
                 project, review, stageOf, left, given, stageLock, history>>

Completed(j) ==
  LET completed == Append(progress.completed,
                          [stage |-> stageOf[j], receipt |-> receipts[stageOf[j]]]) IN
  [status |-> IF Len(completed) < Len(Stages) THEN "waiting" ELSE "completed",
   completed |-> completed, active |-> None, expected |-> receipts[stageOf[j]].after]

SaveProgressFirst(j) ==   \* mutant: the stage counts as completed before it has a checkpoint
  /\ jobAt[j] = "workflow"
  /\ workflow' = stageOf[j]
  /\ progress' = Completed(j)
  /\ MoveJob(j, "checkpoint")
  /\ UNCHANGED <<registered, receipts, execution, checkpoints, gates, decisions,
                 project, review, stageOf, left, given, stageLock, history>>

SaveWorkflow(j) ==
  /\ jobAt[j] = "workflow"
  /\ workflow' = stageOf[j]
  /\ MoveJob(j, "checkpoint")
  /\ UNCHANGED <<registered, progress, receipts, execution, checkpoints, gates, decisions,
                 project, review, stageOf, left, given, stageLock, history>>

\* CheckpointStore.create reads both states back, keeps them under their hashes and
\* writes a record that is named after the receipt.
CreateCheckpoint(j) ==
  /\ jobAt[j] = "checkpoint"
  /\ checkpoints' = checkpoints \union
       {[id |-> receipts[stageOf[j]], execution |-> execution, workflow |-> workflow]}
  /\ MoveJob(j, "progress")
  /\ UNCHANGED <<registered, progress, receipts, execution, workflow, gates, decisions,
                 project, review, stageOf, left, given, stageLock, history>>

SaveProgress(j) ==
  /\ jobAt[j] = "progress"
  /\ progress' = Completed(j)
  /\ Ends(j, "over")
  /\ UNCHANGED <<registered, receipts, execution, workflow, checkpoints, gates, decisions,
                 project, review, stageOf, left, given, history>>

-----------------------------------------------------------------------------
(* The others.                                                              *)

\* A job dies, times out or is cancelled, its driver with it; the lock is the OS's.
Die(j) ==
  /\ jobAt[j] \notin {"idle", "over"} /\ deaths < MaxDeaths
  /\ deaths' = deaths + 1
  /\ MoveJob(j, "idle")
  /\ stageLock' = IF stageLock = j THEN None ELSE stageLock
  /\ left' = [left EXCEPT ![j] = {}] /\ given' = [given EXCEPT ![j] = {}]
  /\ UNCHANGED <<files, project, review, stageOf, dismissals, clock, made, between>>

\* Somebody allowed to approves the document of the next stage, in the pull request of its
\* kind; or an approval in force is dismissed, or its head moves on.  Both are modelled
\* where the next step reads them.
Review(kind) ==
  /\ progress # None /\ NextStage # None /\ kind \in KindsOf(NextStage)
  /\ \E j \in WorkflowRuns : jobAt[j] \in {"verifying", "driving", "reverifying"}
  /\ \/ /\ Attested(kind, NextStage, progress.expected) = None
        /\ review' = [review EXCEPT ![kind] =
             [kind |-> kind, version |-> dismissals, stage |-> NextStage, revision |-> progress.expected]]
        /\ UNCHANGED dismissals
     \/ /\ review[kind] # None /\ dismissals < MaxDismissals
        /\ review' = [review EXCEPT ![kind] = None]
        /\ dismissals' = dismissals + 1
  /\ UNCHANGED <<files, project, locals, deaths, clock, made, between>>

\* Somebody edits the Project, once each way: an edit may be taken back.  Where a command
\* does not read the Project any more, the edit is the same as one after the command.
Edit(e) ==
  /\ progress # None
  /\ stageLock # None => jobAt[stageLock] \in {"verifying", "receipt"}
  /\ \/ e \notin made /\ made' = made \union {e} /\ project' = [project EXCEPT !.edits = @ \union {e}]
     \/ e \in project.edits /\ UNCHANGED made /\ project' = [project EXCEPT !.edits = @ \ {e}]
  /\ between' = IF e \notin made /\ stageLock = None /\ progress.status # "running"
                THEN between \union {e} ELSE between
  /\ UNCHANGED <<files, review, locals, dismissals, deaths, clock>>

JobStep(j) ==
  \/ BeginStage(j) \/ VerifyReview(j) \/ RegisterDecision(j) \/ SaveRunning(j)
  \/ DriverChecks(j) \/ DriverActs(j)
  \/ Complete(j) \/ ReverifyReview(j) \/ WriteReceipt(j)
  \/ SaveExecution(j) \/ SaveWorkflow(j) \/ CreateCheckpoint(j) \/ SaveProgress(j)

StagedNext ==
  \/ Register
  \/ \E j \in WorkflowRuns : JobStep(j) \/ Die(j)
  \/ \E kind \in AllKinds : Review(kind)
  \/ \E e \in Edits : Edit(e)

StagedSpec == StagedInit /\ [][StagedNext]_stagedVars

-----------------------------------------------------------------------------
(* Properties.                                                              *)

\* Whatever the progress calls completed is on disk in full, at every moment a job may die:
\* the stages in their order, each with its receipt and a checkpoint of the states it ended
\* in.  So a Run that waits can always be gone on with.
ProgressIsBacked ==
  progress # None =>
    \A i \in DOMAIN progress.completed :
      LET entry == progress.completed[i] IN
      /\ entry.stage = Stages[i] /\ receipts[entry.stage] = entry.receipt
      /\ \E c \in checkpoints : /\ c.id = entry.receipt
                                /\ c.execution = entry.stage /\ c.workflow = entry.stage

\* An edit made while no stage was at work stops the Run until it is taken back: no
\* stage ever ends in a Project that contains it, unless it was there all through.
EditBetweenStagesStops ==
  progress # None => progress.expected.edits \intersect between = {}
=============================================================================
