# UnityAgent in TLA+

A verification development of UnityAgent: TLA+ modules translated from its source, TLC configurations that
check them on small instances, and proofs that TLAPS checks for every instance. The Python package is
`src/src/unityagent/`, and paths below are relative to it unless they start with `src/`. The C# side that
matters is the Editor package `src/Packages/com.darumappap.unity-agent/Editor/` and the Artist commands in
`src/subagent/artist_subagent/tools/editor/Editor/`.

## 1. The system

UnityAgent takes an *Entry request* about a Unity Project, turns it into capability requests, runs them
through external tools (the Unity Editor, a CLI, the file system, Codex), records Evidence for what happened
and decides from the Evidence alone whether the request is fulfilled. Its documentation
(`src/docs/architecture/architecture.md`) names five layers: Entry, Control Plane, Capability and
orchestration, Provider, Evidence and State. All durable state is files below one persistence root or in the
Project; all coordination between processes is file locks, directories and immutable files; inside a process
there are at most two worker threads, a heartbeat thread, a handler thread, and the readers of a child.

| Component | Source | State it keeps | What makes it right | Module |
|---|---|---|---|---|
| Dynamic Plan | `control_plane/task_execution.py`, `plan_execution.py`, `persistence/state/plan.py` | task state file, Plan journal, audit journal, snapshots | effects start once; started work is never rewritten; files agree whenever a task is scheduled; budgets hold over all lives | `PlanRules`, `DynamicDag` |
| Isolated worker batch | `runtime/execution_control/isolated_worker_batch.py` | a queue, an event per worker, stop and cancel events | nobody dispatches before both prepared and both were accepted; the report is true; nobody waits for ever | `WorkerBatch`, `DispatchBarrier` |
| Workspace execution | `control_plane/workspace_tasks.py`, `persistence/state/parallel_execution.py` | the dispatching/settled/accepted history | a child is started once; a batch is accepted as a whole; the union is exactly the approved one | `WorkspaceDag` |
| C# fix and integration | `control_plane/csharp_fix.py`, `csharp_integration.py` | patch and integration plans | one patch per approved plan; completed means every gate saw the approved result | `ControlRun`, `WorkspaceDag` |
| Control Plane entry | `control_plane/unity_agent_control_plane.py` | execution, workflow and loop state | every call answers, and says what its Evidence says | `ControlRun` (partly) |
| Tool broker and dispatcher | `runtime/tooling/tool_broker.py`, `runtime/dispatcher/` | attempts of a request | no fallback is weaker; retries end | `ToolDispatch` |
| Environment discovery and resolution | `runtime/tooling/environment/`, `capability_resolver.py` | one snapshot | whoever serves a request was seen fit for it, and bound to this Project | `ProviderResolution` |
| Runtime Project lease | `runtime/execution_control/resource_lease.py` | a directory and `lease.json` | exclusive; never stolen | `RuntimeLease` |
| Host leases | `runtime/guardrails/project_lease.py` | one OS lock per identity | exclusive; somebody always gets on | `HostLeases` |
| Evidence store | `persistence/evidence/evidence_store.py` | immutable records, a hash-chained log per Run | what verifies was recorded, once, and verifies for ever | `EvidenceStore` |
| Approval, Artist execution | `persistence/approval/`, `control_plane/artist_*.py`, the Artist's C# | decisions, plans, one Editor's memory | single use; a revoked approval starts nothing; an apply makes what was reviewed or nothing | `ArtistRun`, `ArtistPipeline` |
| Rock import | `control_plane/rock_import.py`, `RockImportBridge.cs` | staged files, ticket, receipts | nothing of somebody else is deleted | `RockImport` |
| Full E2E probe | `control_plane/full_e2e.py`, `FullE2EBridge.cs` | job, `active.json`, result | a completed probe ran in full; a job does not stay | `FullE2E` |
| Native Editor jobs, Safe Mode recovery | `runtime/tooling/providers/native_unity_editor/`, `recovery.py` | processes, run directories | a passed test run is its own; only the validated Editor is ended | `ProjectEditors` |
| Process runtime | `runtime/execution_control/process_runtime.py` | child, two pumps | a watched call ends | `ProcessRuntime` |
| Staged private CI | `control_plane/private_production_ci.py`, `persistence/checkpoint/` | progress, receipts, checkpoints | what is called completed is there in full; edits in between stop the Run | `StagedCi` |
| Reference gate | `runtime/reference_implementation/runtime.py`, `persistence/reference/` | two ledgers, evidence, manifest, the ExecutionState | a key starts the provider once; committed means proven; a state that says completed is believed, and its records verify | `ReferenceGate` |
| Reference contracts and isolation | rest of `runtime/reference_implementation/` | contracts, budgets, Job object, pipe | a specialist never executes below nobody | `SpecialistSession` |
| Specialist reasoning | reasoning routes of the Control Plane, `runtime/handoff/` | evidence, manifests | an answer rests on what was observed of this Project for this Run | `SpecialistReasoning` |
| Specialist catalog | `catalog_import_gate.py`, `profiles.py` | the catalog file | an import takes nothing from anybody that a person gave | `CatalogImport` |
| Live reference, completion gate | `src/tools/run_camera_fov_reference_live.py`, `reference_implementation_final_gate.py` | pending file, report, gate record | what the gate believes is what was reviewed | `CameraLive` |
| Toolchain setup | `runtime/tooling/providers/installer/` | receipts per plan | a receipt stands for an approved installation | `ToolchainSetup` |
| Static task DAG, adaptive strategy, operations control, telemetry | `operations/`, `runtime/telemetry`, ... | - | - | not modelled, see 6 |

**How they interact.** `execute_tasks` (Control Plane) holds the Run lock and calls `execute_task_dag`, which
calls `execute` once per attempt. `execute` takes the Project lease and the host claims, prepares a handoff,
asks its *strategy consumer* for permission - for a dynamic Plan `validate_dynamic_preparation`, for a worker
the barrier of its batch - and only then dispatches capability requests: a snapshot of the environment is
taken, the broker resolves a provider from it, the dispatcher holds the Runtime lease around an attempt,
retries and falls back. Each result becomes an Evidence record. Back in the DAG, Acceptance is computed from
Evidence, a receipt is written, and a *proposer* may revise the Plan. `execute_workspace_tasks` does the same
with two isolated Projects at a time and integrates both patches into the original. The Editor side answers
over files in the Project: a descriptor (Artist), a job and its result (probe), a ticket and its receipt
(import). People approve, revoke, edit and start Editors at any time.

**What is hard.** A process may die between any two writes, and a Resume must neither repeat external effects
nor go on from files that disagree. A caller that stopped waiting leaves an Editor that goes on. What was
observed, reviewed or approved is used later, when the Project is another one. Threads, a cancelling caller
and a deadline meet at one barrier. `PROJECT.json` lists each hazard at its line, with the properties that
watch it.

## 2. How the development is composed

One module models one component; `WorkerBatch` implements `DispatchBarrier`; `DynamicDag` extends `PlanRules`;
`ControlRun` extends `ToolDispatch`. Each module with state has its own Init, Next and specification, and the
proofs are about that one. Components that never meet on a file are checked side by side: an `MC` module extends
several of them and has a variable `about`, chosen in the initial state, that says which of them a behaviour is
about; the others rest. Every behaviour of each is there, without their product, and with one TLC run per
question. The scenes are `MCProjectAccess` (leases, Artist authority, import, probe, Editors), `MCRecords`
(Evidence, gate, CI, specialist, reasoning, catalog, resolution), `MCWorkspaceDag` (workspace, live reference,
Artist commands, setup) and `MCExecution`, which has temporal properties and therefore no choice of its own: a
batch runs first, and when it has ended well a child process or a probe starts.

Symmetry sets are declared where model values are interchangeable (Artist sessions, decisions and Runs) and
never in a run with liveness. Elsewhere interchangeable actors are numbered: a job, call or pid
may begin only after the one before it, and requests are given in one order.

| File | Is |
|---|---|
| `<Component>.tla` | the model; its properties stand at its end |
| `MC*.tla`, `*.cfg` | instances for TLC |
| `WorkerBatchProofs` | proofs about `WorkerBatch` and its refinement of `DispatchBarrier` |
| `DynamicDagProofs`, `ControlRunProofs` | about the module of that name and the one it extends |
| `LeaseProofs` | about `RuntimeLease` and `HostLeases` |
| `StoreGateProofs` | about `EvidenceStore` and `ReferenceGate` |
| `WorkspaceProofs` | about `WorkspaceDag` and `CameraLive` |
| `EditorProofs` | about `RockImport`, `FullE2E`, `ProjectEditors`, `ArtistRun` and `ArtistPipeline` |
| `RecordsProofs` | about `ToolchainSetup`, `StagedCi`, `SpecialistSession`, `CatalogImport`, `ProviderResolution` and `SpecialistReasoning` |

## 3. The modules

### `WorkerBatch` and `DispatchBarrier`

`run_isolated_batch` runs two workers. Each worker thread calls `execute`, which calls `consume` with its
preparation; `consume` puts it on a queue and parks until the parent sets the worker's event. The parent
collects both, asks `prepare` for each, and opens the gates if all answers were yes. A stop event, a cancel
event set by the caller's thread, a deadline and a grace period cut across this.

* State: `phase` is the parent's place in the function, `pc[w]` each worker's; `messages` the queue;
  `gate[w]` the worker's event with the verdict written before it is set; `cancelled`, `closed`, `late`
  the caller's event, the stop event and the clock; `calls[w]` how often `execute` consumed; `report` the
  returned dictionary.
* Every read of shared state is a step: the worker's first test, its put, its wait, its test after waking;
  the parent's poll for interruption at each loop head, its take, its look at ended workers, and the three
  reads of the final report.
* `execute` is an environment that may consume once, never or twice, answer, raise, or never return.
* `DispatchBarrier` says the same with no threads: a single decision, `open` only when every worker has
  handed in, and dispatches only behind it; and while the caller is asked, when it may write its own state,
  no worker that handed in goes on (`gone`, `asking`), which a parent that looked for an interruption between
  two preparations would break. `ImplementsBarrier` maps the detailed module onto it, fairness
  included: the decision is always taken.

Fairness: weak fairness of the parent, of each worker's own code (not of `execute`), and of the deadline -
`threading` schedules every runnable thread and the clock runs. Nothing is assumed of `execute` returning.

### `PlanRules` and `DynamicDag`

`PlanRules` holds the pure rules: which task sets are schedulable, how a proposal revises a Plan, what a
stored Plan must satisfy to be read. A task is an identity with its dependencies and a *body*; the body
stands for everything else in its definition, and `RootBodies` are those inside the Root contract. A digest
is taken as injective, so a Plan stands for its digest and a snapshot for its name. Identities are numbers
because ready tasks are sorted. `Twins` says which identity is spelled like which repair of which other one;
`ChildRun` is then the name the code gives to an attempt's child Run.

`DynamicDag` is `execute_task_dag` in dynamic mode. One process owns the Run (the caller holds its lock). Its
state is the program counter, the task at hand, the proposal at hand and the state dictionary in memory
(`mem`); the durable state is the five kinds of file; the world is the Project's revision and the list of
dispatches whose external effects started. Each durable write is an action, in the order of the code:

| Action | Code |
|---|---|
| `Start`, `Activate` | a fresh state, journal line first, then the state file (`initialize_plan`, `commit_plan`) |
| `Schedule` | the first ready task by name; the Project is compared; `running` is saved |
| `Launch`, `Decline` | `validate_dynamic_preparation` and the effects; or `execute` blocked before it |
| `Collect`, `SaveResult` | the record with its Project revision; the second reading; the save |
| `Repair`, `Settle` | `decide_semantic_loop`, the next candidate or the end of the task |
| `WriteReceipt`, `AuditReceipt`, `SaveBoundary` | `_task_receipt` and the boundary in three writes |
| `Propose`, `AnswerNothing`, `AnswerPlan` | the question with its trace on disk, and the answer |
| `WriteProposal`, `AuditProposal`, `CountProposal` | the verdict's snapshot, audit line and count |
| `Commit`, `Activate` | `commit_plan`'s checks, the journal line, the switch |
| `Finish` | dependents blocked, final gates, the last save |
| `Crash`, `Raise`, `Resume` | death, an exception, and `restore_plan` with all its comparisons |
| `Edit` | somebody edits the Project |

Abstractions, and why they lose nothing the properties see: one Project per Run (revisions are compared as a
whole map); a verified task passed all its gates, which include the Root's, so the final gates ask for one
verified and current task; Evidence of a result is part of its record; an integration plan's special tasks
and the adaptive strategy ledger are other modules. `sound` in a proposal stands for every other reason to
reject it (shape, stale base, empty reason, unverified Evidence). A semantic repair candidate fails or not by
`outcome`; the failure digest of the second attempt may or may not differ, hence the choice after it.

Fairness: a living process keeps taking steps (`WF(Step)`): `execute` and the proposer return, as both are
synchronous calls. Nothing is assumed about starting, resuming or dying.

### `ToolDispatch` and `ControlRun`

`ToolDispatch` is `dispatch_capability`: a call enters with a snapshot, is guarded, resolved, bound to a
specialist where its capability wants one, takes the Runtime lease, has its executor called, releases, and is
tried again, falls back or answers. A transport failure may be tried again by the same provider
(`maximum_retry_attempts`); another failure goes to a provider the fallback policy does not find weaker. What
the guard compares is one choice, made when the call begins: it is asked about the same snapshot and context
again each time, although the dispatcher's comment says they are observed again. A lease that a dead process
left stays, and later calls of the same Project fail.

`ControlRun` puts `execute` around it: entry under the host lease, preparation, the loop over the
capabilities with Evidence and state after each, the decision. The session of a C# fix adds the plan, the
approval and its comparisons of the Project. The source file is one of three values, edits never restore an
earlier one, and `patch_text`'s window between its reading and its `os.replace` is one step. `Asks` restricts
what each of the three Runs is, so that a proposer, an applier and a third one that may be either meet.

Fairness: as long as some Run can take a step, some Run takes one (`WF` of all their steps together): what
they call is bounded by its own timeout. Nothing is assumed of people or deaths.

### `WorkspaceDag`

`execute_workspace_dag`: select a batch, write `dispatching`, run the children, read all revisions, write
`settled`, then `accepted`; integrate two accepted patches one after the other into the original below an
approval; verify the union. `WorkerBatch`'s promise (nobody dispatches before both are accepted) is used as
the step that starts both children; a single child runs in the parent's thread. Child Runs are the steps that
`ControlRun` has in detail. A worker that did not stop is left behind, as in the code, and may still answer
when the parent has gone on or died. Edits and withdrawn approvals are modelled where the next step reads
them, which loses nothing: an edit that nobody has read yet is the same as a later one.

### `RuntimeLease`

The lease of a Project around an Editor task is a directory. `main` is where an owner's `with` statement is,
`writer` where its `_write_record` is - called by `__enter__` first, by the heartbeat thread afterwards.
Every access to the directory is a step: the mkdir, the reading of the token, the temporary file, the
replacement of `lease.json`, the reading before the release, the unlink, the rmdir; any of them may fail. The
join of the thread is bounded in the code, so in the model it may come back before the thread has ended
(`late` remembers for whom). Nothing orders a late heartbeat against the next owner: `runtime_lease_late`
shows one that overwrites the next owner's record, after which that owner can neither write nor release.

### `HostLeases`

A Run locks a file for its Project and one for each host resource it claims, without waiting. `held` is the
stack of open descriptors, `current` the inode behind each lock file's name, `rest` what is still to be taken.
Spellings of claims are mapped to resources by `Canonical`; a claim that is not confined maps to `Unconfined`.
Resources are numbers, because claims are sorted. `_project_exclusive` decides the order and the answers.
A Run that died holds nothing, as the operating system closes its descriptors. A lock is of a descriptor, so a
Run would meet its own lock at a resource it claims under two spellings: `OthersRefuse` says that whoever is
refused as busy is refused by another Run. That no two share an identity follows from what the operating system
promises of a lock, and is a theorem (`LeasesExclusive`) that no run repeats.

### `EvidenceStore`

An append writes an immutable record and, if it created it, one event that binds it into the hash-chained
event log of the Run, all below the Run's file lock. `record` maps an identity to its content, `log` holds the
readable lines of each Run's log and `tail` how the log ends; an event names the length of the log it was
appended to, as the hash of an event stands for its place. An identity carries the name of its Run, so that
two Runs never meet on one file. The look at the record file, the write of it, the reading of the log and the
appending of the line are steps of their own; deaths and failures occur at each, and a line that fails may be
there in whole, in part or not at all. `Readable`, `Chained` and `Verifies` are `_read_events`,
`verify_event_chain` and `verify_record`.
`evidence_confirmed` shows an append that finds the record of one that died before its event: it confirms the
record, writes no event, and the record can never be verified.

### `ReferenceGate`

A call dispatches an approved action or recovers it; the action stands for its digest, which covers key,
target and approval. Each transaction of a ledger (read, test, write below the Run's file lock) is one action
of the model, and everything between two of them is another, so that deaths and other calls come in between:

| Action | Code |
|---|---|
| `SayRunning`, `TurnAway` | `execute` writes the ExecutionState "running" before the gate, or "blocked" after a preflight that failed |
| `Validate`, `Begin`, `Replay` | the contracts; `IdempotencyLedger.begin`; the answer of a committed key |
| `Reserve`, `Resolve`, `Dispatch`, `Return`, `MarkApplied` | the reservation, the provider between two looks at the approval, the post-conditions |
| `Write`, `Verify`, `BindReservation`, `BindKey`, `Commit`, `CommitKey` | evidence, its verification, and four transactions of two ledgers |
| `WriteManifest`, `Evaluate` | what `execute_camera_fov_reference` does behind the gate |
| `Conclude` | `execute` writes the outcome, the typed action and its evidence into the ExecutionState |
| `Raise`, `Doubt`, `DoubtKey` | an exception anywhere, and the except clause of `dispatch` |
| `Check`, `Observe`, `Decide` | `recover`: the state, the target read outside the lock, the state again |
| `Mutate`, `Undo`, `Revoke`, `Crash` | the Editor, a person, the approval store, the operating system |

`record` is what `EvidenceStore` promises of immutable records, reduced to whose evidence they are: their
identities carry the Run and the kind only, which is why a second action of a Run can never commit.
`stated` is the ExecutionState of each Run, replaced as a whole by every execution of it, also by one that
comes after the Run was completed. `PersistedRunVerifies` is the replay of `verify_persisted_run`: a state that
says completed, an action with its approval, and `RecordsVerify`, all that is read of manifest, ledgers and
Evidence. `CompletedRunVerifies` says that a Run whose state says completed is accepted until its approval is
taken back, and that what a completed call left behind verifies whatever follows; it cannot say that the
Run is accepted for good, since a later execution may leave "running" or "blocked" in its state. Calls of the
model run side by side, though `execute` holds the Project's lease around them: the gate has locks of its own
and is not known to rely on that one. `recover` is called by nothing in the package and writes no state.
`Mutate` may come at any time after `Dispatch`, also when the call has failed. A recovery's evidence is taken
to have the content that the dispatch wrote; where it differs, the conflict is one of the `Raise` steps.
Nothing in the package calls `RuntimeDispatchGate.recover` yet: the model lets any call do so.
`reference_interrupted` shows a death after `MarkApplied`: the reservation stays APPLIED, which `recover`
refuses, although the store's own `recover` accepts it.

### `ProcessRuntime`

`run_streaming_process`: spawn, write the input, start the two pumps, loop over exit, deadline and
cancellation, end the process tree (both platforms' ways), join the pumps for a bounded time. The child reads
or not, writes more than a pipe holds, leaves heirs that keep pipes open, ignores a polite signal, ends at any
time. Fair are the caller, the pumps and the clock, nothing else. `WatchedCallEnds` is about a call that got
past the writing of its input; that one which does not is the finding `process_stdin`.

### `StagedCi`

One Run in four stages, each in a workflow run (`job`) of its own that calls `begin_stage`, its driver and
`complete_stage`; the lock is the operating system's. Reviews are GitHub's answer when it is asked, twice for
each. Every durable write is a step, in the order of the code: receipt, execution state, workflow state,
checkpoint, progress. A death after the receipt leaves a Run that no command takes up (the code's answer is
`RECONCILIATION_REQUIRED`). `Edit` brackets what is edited between two stages in `between`; an edit may be
taken back.

### `ArtistRun` and `ArtistPipeline`

`ArtistRun`: a session leaves a descriptor in the Project, sends the command and waits; the Editor handles one
command at a time, reads the descriptor when it does, and asks; a handler thread consumes the approval under
the file lock of its record. The session may be over by then - timed out, revoked, dead - and another one may
be serving. A mutation is a count, as who may do it is the question. Expiry of an approval is one more way
to be refused. A descriptor that a dead session left blocks later ones, and an approval may be spent without
a mutation; both are the code's choice.

`ArtistPipeline`: the commands in the Editor. An apply sets one place after the other, each in its own way
(property, reflection, timeline), and may fail at each; what it then undoes is what it registered. A command
holds the main thread, so nothing else happens within it except its own failures. People edit, save and
restart between commands; a restarted Editor has no plan, and what was not saved may be there or not.

### `RockImport`

Import and rollback, from the approvals to the batch Editor's receipt. Of a file only its author is told
apart (the import, people); metas go with their assets. The run may die with its Editor at work or kill it.
An edit during the Editor's own capture counts as the import's, and the windows between a hash check and the
`os.replace` after it, and between the Editor's last look and its deletion, are one step each: no property
covers them.

### `FullE2E`

The probe's job is a file that the Editor finds on a tick; `active.json` alone carries it over the reloads of
the domain that compilation and play mode bring, and over a restart. Result and job are of an Editor instance
(the signature in the code). Both approvals are one `consent`. Fairness: ticks, the end of compilation and of
play transitions, and the job's own deadline; not that a Provider waits.

### `ProjectEditors`

Processes are rows of one list (`processes[pid]`): whose they are, the Project on the command line,
`-safemode`. A caller reads the list and uses the row later; a pid may have been given to another process in
between, except between a last look and the kill right after it, which is taken as one step. A native job:
the check that no Editor is bound, a run directory made with `exist_ok=False`, the Editor, its results; a
retry finds the directory and ends unhealthy. Recovery: patch, read, terminate, restart, judge, in cycles.
Two pids are enough for one process to be taken for another.

### `SpecialistSession`

`execute_camera_fov_reference` and the golden harness from contracts to the presented completion. A step is
one call of the operating system: pipe, Job object, suspended child, assignment, resumption, messages, end of
the Job. Any of them may fail, the child may end at any time, and the Runtime may die: then the Job's last
handle closes and the system ends the child. No liveness is claimed, as the deadline does not cover the
sending of the grant.

### `SpecialistReasoning`

`execute` on its reasoning routes: lease, route, Context and budget, the observations with their evidence and
their binding, the isolated model, the judgement of its answer, the evidence of the reasoning. A manifest is
modelled by its content (the code's also carries a time). The payload, the record and the state of one
observation are one step. An edit that comes between an observation and the model's start is not noticed by
the code and is not promised to be.

### `CatalogImport`

A snapshot (of the Hub's commit, or a file) is compared with the catalog and becomes a plan of additions,
changes, removals and conflicts, which is only read; a person applies it, in the model, to the very catalog
whose digest it names. People edit the catalog and registry, the Hub and its lock move. What a profile says
is kept to what the rules tell apart.

### `ProviderResolution`

`around` is the world, which may change between two probes; `snapshot` collects three-valued facts probe by
probe; a later probe completes what an earlier one left open, or marks what does not fit. Resolution filters
by policy, surface, binding, facts, floors and profile gates, ranks, and for a fallback compares strengths.
The version of the Project's Editor is one such fact: an installed one tells it, or, where nobody could say which
version runs, the answer to the Artist's question does; `VersionWasThere` is what it must rest on.
`pipeline.reachable` is only ever inferred, and `mcp` facts need provider instances that no production caller
passes; the model allows both.

### `CameraLive`

A live Run takes two sittings (open, inspect, plan, preview, leave for review; then apply, capture, inspect,
report, gate record), or one in the fixture. Each step names what it read and left. What an apply does inside
is `ArtistRun` and `ArtistPipeline`. A scene that is opened while unsaved is reloaded or kept. The completion
gate runs a sitting or reconsiders one.

### `ToolchainSetup`

`setup` of the Control Plane with the installer behind it: what is seen of a host's products, the plan, and
an apply with each command of the Codex CLI as a step that may fail, time out and still take effect; then the
evidence, the receipt (named after the plan) and the state. Others change the host at any time. A plan stands
for the Run that made it, as its identity is a digest that contains a time.

## 4. The runs

| Run | Bounds | States | Asks |
|---|---|---|---|
| `worker_batch` | 2 workers (the code insists on two); one child process; one probe, one restart of the Editor, one intervention | 164,929 | does the batch return and implement the barrier; does a watched call end; does a job leave the Editor |
| `dynamic_dag_replan` | 4 identities of which one collides with a repair name, 6 proposals, 2 updates, 3 questions, 1 death | 177,729 | replanning: is started work ever rewritten, are files that disagree ever scheduled from, does a Run end |
| `dynamic_dag_repair` | 3 proposals, 1 update, 1 repair, 2 deaths, 1 edit | 154,094 | repair and Resume: is anything dispatched twice, verified by something stale, or settled again |
| `project_access` | 3 lease owners; 3 Runs, 2 Projects, 2 resources, crossing, repeated and unconfined claims; 2 Artist sessions with 2 approvals; an import and a rollback with 1 edit; 2 probes with a restart; 1 batch job with a retry, 1 recovery, 2 pids, 1 Editor somebody starts or ends | 1,038,780 | who may touch one Project |
| `control_run` | 3 Runs (a proposer, an applier, one that is either), 3 providers, 5 capabilities, 1 retry, 1 edit | 221,817 | fix, dispatch, fallback and answer |
| `workspace_dag` | 2 workers, 3 calls, 1 edit; 2 sittings, 2 consents, 1 thing nobody asked for; 2 Artist Runs, 2 plans, 1 shot, 1 edit, 1 restart; 3 setup Runs, 1 change of the host | 2,159,319 | integration, live reference, the Artist's apply, setup |
| `records` | 3 appends, 2 Runs, 3 identities, 2 contents; 3 calls at the gate with 3 actions and 2 keys; 4 jobs, 1 death, 1 dismissal, 1 edit; 1 specialist; 2 reasoning calls; 2 imports; 1 snapshot with 1 change | 976,899 | what records are believed for |

The bounds let the interesting cases happen. The proposals include one that adds a task, one that replaces a
pending one, one that brings a cancelled one back, one that rewrites a task already executed, one that
collides with a repair name, and one with a cycle; the budgets allow one proposal more than updates, so both
limits are hit. At the gate, the first call dispatches one action, no two other calls are the same, and the
action with a key of its own comes with a recovery: it is the one that could commit a Run twice. Actions of
different Runs touch different files, so one Run is enough there. Two approvals of one plan, and a session that
outlives its wait, are what single use has to stand. One edit is enough where an edit is something a step
either saw or did not see, and where taking it back is a case of its own it may be taken back. Bounds with a
name beginning with `Max` are the model's, except `MaxUpdates`, `MaxProposals`, `MaxTasks`, `MaxRepairs`,
`MaxRetried`, `MaxRetries` and `MaxCycles`, which the code has; the code bounds neither deaths nor edits.

Deadlock is not checked: a batch that has answered, a Run that is down with files that disagree, a lease a
dead process left, a Run of the CI that needs a person, and calls that have all ended really stop.

Five runs expect a violation: each states what a document or a comment says and shows how the code differs.
`PROJECT.json` quotes the lines under "findings".

| Run | Said | Shown |
|---|---|---|
| `runtime_lease_late` | the record names the holder of the lease | a heartbeat slower than the bounded join overwrites the next owner's record |
| `evidence_confirmed` | a confirmed record is durable Evidence | after a death before the event, it is confirmed but never verifies |
| `reference_interrupted` | an interrupted apply is re-observed before it may be committed | a death after `mark_applied` leaves a state that `recover` refuses |
| `workspace_final` | the final gates are those of the final revision of the original Project | an edit between the last look and the parent's reading of the revisions is adopted as verified |
| `process_stdin` | a bounded process runtime, with cancellation and hard timeout | a child that does not read its input keeps the call for ever |

Where else the code and a text about it differ, without a run of their own:

* `complete_stage` loads the progress without comparing the Project's revision and adopts what it finds
  (`control_plane/private_production_ci.py:290`); `src/docs/development/private-production-ci.md` says that a
  changed Project is refused in every state.
* `verify_live_evidence` raises `LiveFailure`, which the completion gate's `--reuse-live-run-id` does not catch:
  a traceback, and an earlier `final-completion-gate.json` that says `GOAL_COMPLETE` stays.
* The report of a sitting has the fingerprint of the sources as they are when it is written, which need not be
  those that ran.
* `persistence/install/receipt_store.py:18` speaks of verified installation facts; `verify` entries are copied
  from the plan with the present time, without another look, and a product that is missing and only verified
  ends as unavailable and still in a receipt.
* A second apply of one toolchain plan installs again, records passing Evidence, and then ends in a conflict
  of the receipt, its state staying `running`.
* `runtime/dispatcher/tool_runtime_dispatcher.py` says that Project, policy, approval and scope are observed again at the
  last possible boundary; the guard is asked about the same snapshot and context.
* `process_tree_cleanup` may say `completed` while a descendant that ignores the polite signal lives on.
* An execution of a Run that is completed already first writes "running" over its ExecutionState, and what ends
  it writes again: a replay of the committed key may complete the Run anew, but another action, a failed preflight or
  a death in between leave a state that `verify_persisted_run` refuses, with every record of the completion
  intact (`control_plane/unity_agent_control_plane.py:523`, `runtime/reference_implementation/runtime.py:1351`).
* `WindowsNamedPipeServer._create_session_pipe` names its pipe by a variable `session` that it does not have
  (`runtime/reference_implementation/isolation.py:419`; `self.session` is meant), so on Windows every isolated
  session ends before its child is created. `SpecialistSession` has that end among those of the session's
  preparation, and follows as well those that would come behind it.
* A retry of a native Editor job always finds its run directory, so it ends unhealthy and never succeeds.

## 5. The proofs

Every safety property that a passing run checks is also a theorem, for every value of the constants that the
assumptions of the modules allow. TLC evaluates those assumptions in every run. They say: finite sets where
the code has a list, a value that stands for "nothing" and is none of the others, bounds that are natural
numbers, and what tables in the code and the repository's files have in common. Of the last kind are

* `ControlConstants`: the route of an application has the patch once (`control_plane/csharp_fix.py`);
* `DispatchConstants`, `ResolutionConstants`: registry and policies are well formed, and the Artist's profile
  sits on `unity_cli` and wants the fact `artist` (the repository's `subagent-catalog.yaml`);
* `CatalogConstants`: what the Hub exports and people write are catalogs, that is, they parse;
* `PlanConstants`, `RunConstants`: identities are ordered, and a name spells one repair at most;
* `LiveConstants`, `StagedCiConstants` and their kin: numbers for what comes in an order.

`WorkerBatchProofs` does not use `TwoWorkers`. Each proof has one inductive invariant, a lemma for each action
or group of actions, and a last step in temporal logic. Every invariant was first checked by TLC.

**`WorkerBatchProofs`**, for every finite set of workers: types (`TypeCorrect`), no effects unless all prepared
and the parent accepted all (`DispatchSafe`), no worker that handed in moves while the parent prepares
(`PrepareSafe`), a completed envelope stands for a dispatch behind the barrier (`CompletionSafe`), and the
refinement: every step is one of `DispatchBarrier` or none (`BatchIsBarrier`, the safety part of
`ImplementsBarrier`), so that nobody who handed in goes on while the parent asks. The invariant relates each
worker's place in `consume` to its message, its gate and the parent's phase; the refinement needs besides that
an open gate says what the parent decided (`GateInv`).

**`DynamicDagProofs`**, for every set of identities, every proposer and any number of deaths, edits, repairs
and revisions: types, no two dispatches share a child Run (`DispatchedOnce`), a verified Run rests on present
results (`VerdictCurrent`), dispatched definitions are kept (`DefinitionsKept`), settled tasks stay settled
(`SettledForever`), and whoever schedules holds what is on disk, whose parts agree
(`SchedulesFromAgreement`). Whether a second dispatch repeats a first one depends on the attempt count on
disk, on the process between dispatch and save, and on names, so `RunInv` has five parts:

* `Agree` - memory and disk hold the same records and Plan, except for the one result being saved;
* `Disk` - on disk a task with attempts is never pending or absent, the records are those of the active Plan,
  and the active Plan's generated identities do not spell each other's repairs;
* `Switching` - the state about to be activated forgets no attempt;
* `Verdict` - the verdict on a proposal still speaks of the present state when it is activated;
* `Effects` - every dispatched attempt is behind the count on disk, or is marked `running` there.

`NamesApart` turns different attempts of well named tasks into different child Runs. `StepRun` has one case per
action; `QuietStep`, `MarkRunning` and `DownStep` are the lemmas the cases share. That the files agree is
another invariant, `Story`: what the order of tasks (`TasksTold`), the receipts, the proposals and the logs say
between any two of the process' writes, each step of a boundary being ahead of memory by exactly one line or
one file; and in `activate` the staged state is already `Whole`, all a Resume asks for (`RestorableIs`). A
journal's lines of one kind are compared by their places among that kind, so `RefAdded` and `RefKept` say what
one more line does, by cardinality and without induction.

**`ControlRunProofs`**, for any number of Runs, providers, offers and routes, wherever a Run dies: no attempt
goes to a weaker provider (`NeverWeaker`), an approved plan is written once (`PatchesOnce`), and an application
that is called completed wrote the approved revision and saw every gate pass on what it wrote
(`CompletedExactly`). `ControlInv` says of each Run, place by place, where it is in its dispatch (`Going`), that
its attempts rise in strength (`Strongly`), that its plan is not written before the patch's turn (`Once`), and
what its Evidence stands for (`Did`). The last one needs that the Project's revisions are ordered by what they
may become without a patch (`Below`), so a capability that is `Witnessed` between two looks saw nothing else:
`Backed` holds for every result on the way, and at the end `Exact` follows for all at once.

**`LeaseProofs`**, for any number of owners and heartbeats of any slowness: types, exclusion (`LeaseExclusive`),
a leftover was reported (`LeaseReported`), only the maker of a directory removes it (`LeaseNeverReclaimed`), and
the record names its holder as long as no join timed out (`RecordInTime`), which is the part of the comment's
promise that holds. The invariant says which steps of an owner imply that the directory is its own, and that a
directory without owner holds no file: without the second part the rmdir of one owner could free what a late
heartbeat is filling. For any number of Runs, Projects and resources: no identity has two holders
(`LeasesExclusive`), because every locked descriptor is on the one inode the file name has; and of Runs that
contend somebody is not refused (`ContestHasWinner`), because claims are taken in one order: of the identities
that refused somebody take the largest; its holder was refused nothing. Whoever is refused is refused by another
(`RefusedByOthers`), because the claims still to be taken rise, and are not among those held. `ClaimsTyped` uses
the finiteness of a request to show that the sorted claims are a sequence.

**`StoreGateProofs`**. The store, for any number of Runs and appends and any deaths: types, the chain
(`ChainHolds`), single binding (`BindingUnique`), true answers (`AnswersHold`), immutability
(`RecordsImmutable`), and that what verified once verifies for ever (`VerifiedForEver`). Beside the types the
invariant says that whoever is between lock and release is alone there (`LockInv`), what it saw still holds when
it acts on it (`SeenInv`), every line is behind its predecessor, binds the record that is there and is the only
one of its identity (`LogInv`), and an answer stays true (`AnswerInv`). That verification lasts rests on two
things no step takes back, `RecordsKept` and `EventsKept`. The gate, for any number of calls, actions, keys and
Runs: types and its properties, of which `CompletedVerifies` joins the ExecutionState with all that the replay
reads beside it (`StatedInv`: a state that says completed names an action of its Run whose key is committed and
that the manifest names). `GateInv` has `OneInFlight` (a claimed key has one call that acts for it),
`OneActionPerKey`, `Place` (what a call relies on where it is) and `Ledger` (what the two records of an action
say about the Project and the evidence). `Forward` and `EvidenceStays` say what no step takes back;
`OthersPlace` that no call takes from another what it relies on; `ManifestStays` that one Run commits one
action.

**`WorkspaceProofs`**, for any number of calls and edits, wherever the parent or a child dies: `ChildrenOnce`, no
child is started twice; `ResumeIsComplete`, a file that may be resumed has taken every result; `UnionIsExact`, a
Run closed as verified wrote the approved patches, each once and on the revision approved for it. The invariant
says that memory is the file but for the batch being recorded (`MemoryInv`), what memory and file know of the
children (`Known`, `DiskInv`), that a dispatched task is marked running until it is accepted (`BatchInv`), and
what a child has done so far (`ChildInv`, `UnionInv`). `ReviewedIsProven`, for any number of sittings and Runs:
what the completion gate believes is the report of a scene that a person reviewed and of an apply that was made
once. The invariant has what the files say (`ReviewsKept`, `ProofsKept`, `AppliedOnce`) and what a sitting may
rely on at each step (`Knows`).

**`EditorProofs`**. `OthersFilesKept` (`RockInv`): an import or rollback removes no file of others that it could
have seen. `ProbeRanInFull` (`ProbeInv`): a probe that is reported complete was compiled, entered and left
play mode for, by the instance that signed the job; what is due at each phase is done (`Due`, `DoneSoFar`),
and each tick acts on the job it read (`TickOfMine`, `SignedOnce`). `OwnTestsPass` and `TargetOnlyEnds`
(`EditorsInv`), for any number of jobs, recoveries and pids: results that pass were written by an Editor of
the same attempt, since a run directory is made once (`FirstOnly`, `PassedOnFirst`); and recovery ends only the
process it has validated (`KillsTarget`), as far as `Free` says that a pid is not handed out between the last
look and the kill. `ApprovedOnce` and `RevocationHolds`, for any number of sessions, approvals and plans: a
mutation has an approval in force that was consumed for it, once, and a revoked one starts nothing. The
invariant follows one consumption through the handler (`UsersResolved`, `CheckedHolds`, `SavedHolds`), to the
Editor that hears of it (`HandledIsCurrent`, `OnePerPlan`) and to the mutations that are there
(`MutationsKept`). `AppliedIsReviewed`, for any intents over any places: an apply ends with the scene its plan
was reviewed on, changed exactly as reviewed, or unchanged; `Applying` says that what is done and what is left
to do are of the plan's intent, and that outside of it nothing differs from the plan's base.

**`RecordsProofs`**. `ReceiptBacked` and `SetupTypesHold` (`SetupInv`), for any number of setup Runs: a receipt
has an approved apply of that very plan with its Evidence behind it; published plans never change, and what a
Run may rely on is said place by place (`Untouched`, `Applies`, `Answered`, `Recording`). `CompletedIsBacked`
and `EditsStop` (`CiInv`), for any number of jobs, deaths, reviews and edits: one command has the lock and one
job is at work, the one the progress names (`OneAtWork`); what it has written so far is there (`Writing`); what
was edited between stages is in no Project that a stage begins or ends with (`EditsApart`). `SpecialistIsHeld`
(`SessionInv`), for any number of sessions: a specialist executes only below a Job that a living Runtime holds
(`Held`), and what it proposed is taken up only after it ended and was heard to the end (`Heard`).
`ImportsAnswer` (`CatalogInv`), for any catalogs, edits and commits to the Hub: imports keep what was answered
before; a plan that is not blocked `Extends` its base, and extensions add up (`ExtendsFurther`).
`ProvidersAsSeen`, for any world that moves between the probes: a fact that says yes rests on the world as the
probe saw it (`FactsInv`: `EditorFacts`, `ArtistFacts`, `RestFacts`, `VersionFacts`), hence so does each
provider that serves (`ServedInv` with `Rests`), and none that falls back is weaker (`NoStronger`).
`ReasonedAsObserved` (`ReasoningInv`), for any number of calls, repeated under any Run: what a call holds in
memory is in the Evidence (`CallOk`), what a Run published stays proven (`RunOk`), because its Context was
observed (`ViewOk`) and Evidence, manifests and artifacts only grow (`Grown`).

Theorems that no run states again because they are the types or lemmas of a promise: the `TypeCorrect` theorems
and their kin, `DispatchSafe`, `PrepareSafe`, `CompletionSafe`, `LeaseReported`, `LeaseNeverReclaimed`,
`LeasesExclusive`, `BindingUnique`, `ChainHolds`, `AnswersHold`, `RecordsImmutable`, `LedgersInStep`.

## 6. What is only model-checked, and what is not modelled

Beyond the prover, and with TLC: liveness, that is `BatchReturns`, `RunEnds`, `RunAnswers`, `WatchedCallEnds`,
`JobLeavesEditor` and the fairness part of `ImplementsBarrier`. The proofs are about each module by itself; that
modules which share no file do not disturb each other is by construction, as section 2 says. The five findings
are counterexamples of TLC.

Windows that no property covers, because the code cannot close them or does not promise to: an edit of the
Project between the revision check and the start of effects (`control_plane/task_execution.py:177`), and
between an observation and the model's start (`control_plane/unity_agent_control_plane.py:794`); a build that
wrote nothing and passes on an earlier build's player at the same path
(`runtime/tooling/providers/native_unity_editor/log_parser.py:215`); two Editors started on one Project at one
time, which only Unity's own lock keeps apart.

Not modelled: the static task DAG (fixed batches in one thread; its order of writes per task is the one
`DynamicDag` checks with a Plan on top); the adaptive strategy's ledger, which decides nothing while it is
disabled, the default; operations control, a library that nothing in the package composes; telemetry and
measurement, which decide nothing; the routing tables, the retrieval and sizes of Context, and the provider
adapters that only build a command line or a message. Contracts' field by field comparisons, digests,
signatures and paths are conditions or values in the models, never texts.
