----------------------------- MODULE ControlRun ------------------------------
(***************************************************************************)
(* UnityAgentControlPlane.execute (control_plane/unity_agent_control_plane) *)
(* with the session of a bounded C# fix (control_plane/csharp_fix.py): a    *)
(* Run takes the Project, prepares, carries out its capabilities one after  *)
(* another through ToolDispatch, records Evidence for each, and decides.    *)
(*                                                                         *)
(* A proposing Run leaves a patch plan; a person approves it; an applying   *)
(* Run changes the Project and verifies the result.  The Project's files    *)
(* may be edited by anyone at any time; a Run may die at any step.          *)
(***************************************************************************)
EXTENDS ToolDispatch

CONSTANTS
  Kinds,      \* what an Entry may ask for, "propose", "apply" and "verify" among it
  Asks,       \* per Run: the kinds it may be
  Sequence,   \* per kind: the capabilities its route asks for, in order
  Outcomes,   \* what an executor may come to
  MaxEdits    \* bound of the model: edits of the Project from outside

\* The patched expression in the target source, and everything else in the Project.
Content == [target : {"old", "new", "else"}, rest : Nat]
Entry == [kind : Kinds, plan : Calls \union {None}, expected : Content \union {None}]

ASSUME ControlConstants ==
  /\ {"propose", "apply", "verify"} \subseteq Kinds
  /\ Asks \in [Calls -> SUBSET Kinds]
  /\ Sequence \in [Kinds -> Seq(Capabilities)]
  /\ \A kind \in Kinds : Sequence[kind] # <<>>
  /\ {"source.read", "source.patch"} \subseteq Capabilities
  /\ \A kind \in Kinds \ {"apply"} :
       \A i \in DOMAIN Sequence[kind] : Sequence[kind][i] # "source.patch"
  /\ \E i \in DOMAIN Sequence["apply"] :
       \A j \in DOMAIN Sequence["apply"] : (Sequence["apply"][j] = "source.patch") = (j = i)
  /\ Outcomes \subseteq FailureClasses \union {"passed"}
  /\ Calls \subseteq Nat                \* in the order the Runs come
  /\ None \notin Calls /\ None \notin Content /\ MaxEdits \in Nat

VARIABLES
  \* ---- the Runs: one call of execute each
  pc,           \* what a Run does next
  entry,        \* what it was asked for
  index,        \* the capability it is at
  input,        \* the Project revision it accepted for that capability
  results,      \* what its capabilities came to
  evidence,     \* the Evidence it refers to: capability, revision before and after
  \* ---- what is on disk
  owner,        \* the Run that holds the Project
  state,        \* execution state of a Run
  plan,         \* the patch plan a Run proposed: the revision it is for
  approval,     \* whether that plan is approved
  application,  \* whether, and how, it was applied
  \* ---- the world
  project,      \* the Project's files
  written,      \* history: patches written to the Project
  observed,     \* history: what each capability that passed was looking at
  edits

runVars   == <<pc, entry, index, input, results, evidence>>
fileVars  == <<owner, state, plan, approval, application>>
worldVars == <<project, written, observed, edits>>
vars      == <<dispatchVars, runVars, fileVars, worldVars>>

NoEntry == [kind |-> "propose", plan |-> None, expected |-> None]
Patched(content) == [content EXCEPT !.target = "new"]

RevisionOfTarget(content) == content.target   \* mutant: only the patched source is hashed

\* project_revision: Assets, Packages and ProjectSettings, every file of them.
Revision(content) == content

Unchanged(content) == Revision(project) = Revision(content)

Init ==
  /\ DispatchInit
  /\ pc = [c \in Calls |-> "idle"]
  /\ entry = [c \in Calls |-> NoEntry]
  /\ index = [c \in Calls |-> 1]
  /\ input = [c \in Calls |-> None]
  /\ results = [c \in Calls |-> <<>>]
  /\ owner = None
  /\ state = [c \in Calls |-> "none"]
  /\ evidence = [c \in Calls |-> {}]
  /\ plan = [c \in Calls |-> None]
  /\ approval = [c \in Calls |-> "none"]
  /\ application = [c \in Calls |-> "none"]
  /\ project = [target |-> "old", rest |-> 0]
  /\ written = <<>>
  /\ observed = [c \in Calls |-> {}]
  /\ edits = 0

Goto(c, step) == pc' = [pc EXCEPT ![c] = step]
Fix(c) == entry[c].kind \in {"propose", "apply", "verify"}
Capability(c) == Sequence[entry[c].kind][index[c]]
Base(c) == plan[entry[c].plan]          \* of the plan a Run applies
Expected(c) == entry[c].expected

-----------------------------------------------------------------------------
(* Entry, routing, preparation.                                             *)

\* The caller read the Project, or copies the intent of the plan it wants applied.
Enter(c) ==
  /\ pc[c] = "idle" /\ \A b \in Calls : b < c => pc[b] # "idle"
  /\ \/ /\ owner # None
        /\ Goto(c, "over")
        /\ UNCHANGED <<snapshot, entry, owner>>
     \/ /\ owner = None
        /\ owner' = c
        /\ \/ \E kind \in Asks[c] \ {"apply"} :
                entry' = [entry EXCEPT ![c] = [kind |-> kind, plan |-> None, expected |-> project]]
           \/ \E p \in Calls :
                /\ "apply" \in Asks[c] /\ plan[p] # None
                /\ entry' = [entry EXCEPT ![c] = [kind |-> "apply", plan |-> p, expected |-> plan[p]]]
        /\ \E facts \in Snapshots : snapshot' = [snapshot EXCEPT ![c] = facts]
        /\ Goto(c, "route")
  /\ UNCHANGED <<at, request, resolution, attempts, retries, answer, editor, index, input, results,
                 evidence, state, plan, approval, application, worldVars>>

\* Routing, Context and handoff may end the Run before anything was dispatched.
Route(c) ==
  /\ pc[c] = "route"
  /\ \/ state' = [state EXCEPT ![c] = "blocked"] /\ Goto(c, "leave")
     \/ state' = [state EXCEPT ![c] = "running"] /\ Goto(c, "prepare")
  /\ UNCHANGED <<dispatchVars, entry, index, input, results, evidence, owner, plan, approval,
                 application, worldVars>>

PreparedAgain(c) ==   \* mutant: an attempt that was not finalized may be made again
  /\ Unchanged(Expected(c))
  /\ entry[c].kind = "apply" =>
       /\ application[entry[c].plan] \in {"none", "dispatching"}
       /\ approval[entry[c].plan] = "active"
       /\ Unchanged(Base(c))

\* csharp_fix.prepare: the revision; for a plan, no earlier attempt, approval and preimage.
Prepared(c) ==
  /\ Unchanged(Expected(c))
  /\ entry[c].kind = "apply" =>
       /\ application[entry[c].plan] = "none"
       /\ approval[entry[c].plan] = "active"
       /\ Unchanged(Base(c))

Prepare(c) ==
  /\ pc[c] = "prepare"
  /\ \/ /\ Fix(c) => Prepared(c)
        /\ Goto(c, "before")
        /\ UNCHANGED results
     \/ /\ Fix(c) /\ ~Prepared(c)
        /\ results' = [results EXCEPT ![c] =
             Append(@, [capability |-> "source.patch", status |-> "blocked"])]
        /\ Goto(c, "decide")
  /\ UNCHANGED <<dispatchVars, entry, index, input, evidence, fileVars, worldVars>>

-----------------------------------------------------------------------------
(* One capability: accept the revision, dispatch, record, look again.       *)

\* The revision a capability has to find, and the one it has to leave.
Before(c, capability) ==
  IF entry[c].kind = "apply" /\ capability \notin {"source.read", "source.patch"}
  THEN Patched(Base(c)) ELSE Expected(c)
After(c, capability) ==
  IF entry[c].kind = "apply" /\ capability # "source.read"
  THEN Patched(Base(c)) ELSE Expected(c)

Acceptable(c) ==
  /\ Unchanged(Before(c, Capability(c)))
  /\ Capability(c) = "source.patch" => approval[entry[c].plan] = "active"

\* before_capability: the attempt is on disk before the patch can be written.
Accept(c) ==
  /\ pc[c] = "before"
  /\ Fix(c) => Acceptable(c)
  /\ input' = [input EXCEPT ![c] = project]
  /\ application' = IF Capability(c) = "source.patch"
                    THEN [application EXCEPT ![entry[c].plan] = "dispatching"] ELSE application
  /\ Goto(c, "dispatch")
  /\ UNCHANGED <<dispatchVars, entry, index, results, evidence, owner, state, plan, approval,
                 worldVars>>

\* The Run was cancelled or is out of time, or the Project is not what it has to be.
Break(c) ==
  /\ pc[c] = "before"
  /\ results' = [results EXCEPT ![c] =
       Append(@, [capability |-> Capability(c), status |-> "blocked"])]
  /\ Goto(c, "finish")
  /\ UNCHANGED <<dispatchVars, entry, index, input, evidence, fileVars, worldVars>>

Dispatch(c) ==
  /\ pc[c] = "dispatch"
  /\ Begin(c, Capability(c))
  /\ Goto(c, "wait")
  /\ UNCHANGED <<entry, index, input, results, evidence, fileVars, worldVars>>

Deliberates(c) ==
  /\ Deliberate(c)
  /\ UNCHANGED <<runVars, fileVars, worldVars>>

\* FileProvider.patch_text: the preimage has to be there; the file is replaced at once.
PatchText(c, result) ==
  /\ result \in {"passed", "precondition_failed", "execution_failed"}
  /\ (result = "precondition_failed") = (project.target # "old")
  /\ IF result = "passed"
     THEN /\ project' = Patched(project)
          /\ written' = Append(written, [run |-> c, plan |-> entry[c].plan, on |-> project])
     ELSE UNCHANGED <<project, written>>
  /\ UNCHANGED <<observed, edits>>

\* Any other executor: it looks at the Project, or works in the Editor and may change it.
Work(c, result) ==
  /\ result \in Outcomes
  /\ observed' = IF result = "passed"
                 THEN [observed EXCEPT ![c] =
                        @ \union {[capability |-> request[c], content |-> project]}]
                 ELSE observed
  /\ \/ UNCHANGED <<project, edits>>
     \/ /\ Needs[request[c]].mutates /\ edits < MaxEdits
        /\ edits' = edits + 1
        /\ project' = [project EXCEPT !.rest = @ + 1]
  /\ UNCHANGED written

Execute(c) ==
  /\ at[c] = "invoke"
  /\ \E result \in FailureClasses \union {"passed"} :
       /\ Invoke(c, result)
       /\ IF resolution[c].provider \notin Executors THEN UNCHANGED worldVars
          ELSE IF request[c] = "source.patch" THEN PatchText(c, result) ELSE Work(c, result)
  /\ UNCHANGED <<runVars, fileVars>>

EvidenceRecord(c) == [capability |-> Capability(c), before |-> input[c], after |-> project]

\* Whoever was resolved leaves Evidence; one that did not acknowledge its Context does not.
Record(c) ==
  /\ pc[c] = "wait"
  /\ at[c] = "answered"
  /\ Forget(c)
  /\ LET status == answer[c].status IN
       /\ results' = [results EXCEPT ![c] = Append(@, [capability |-> Capability(c),
            status |-> IF status = "completed" THEN "completed" ELSE "blocked"])]
       /\ evidence' = IF status = "unacknowledged" \/ answer[c].resolution = "none" THEN evidence
                      ELSE [evidence EXCEPT ![c] = @ \union {EvidenceRecord(c)}]
       /\ Goto(c, IF status = "unacknowledged" THEN "finish" ELSE "after")
  /\ UNCHANGED <<snapshot, entry, index, input, fileVars, worldVars>>

LastCompleted(c) == results[c][Len(results[c])].status = "completed"

\* after_capability looks at the Project once more; other Entries go on after a failure.
Advance(c) ==
  /\ pc[c] = "after"
  /\ LET sound == Fix(c) => LastCompleted(c) /\ Unchanged(After(c, Capability(c))) IN
       \/ /\ sound
          /\ IF index[c] < Len(Sequence[entry[c].kind])
             THEN /\ index' = [index EXCEPT ![c] = @ + 1]
                  /\ Goto(c, "before")
             ELSE /\ Goto(c, "finish")
                  /\ UNCHANGED index
          /\ UNCHANGED results
       \/ /\ ~sound
          /\ results' = [results EXCEPT ![c] = [@ EXCEPT ![Len(@)].status = "blocked"]]
          /\ Goto(c, "finish")
          /\ UNCHANGED index
  /\ UNCHANGED <<dispatchVars, entry, input, evidence, fileVars, worldVars>>

-----------------------------------------------------------------------------
(* The end of a Run.                                                        *)

Successful(c) == \A i \in DOMAIN results[c] : results[c][i].status = "completed"

\* All capabilities of the kind, each one completed.
Complete(c) ==
  /\ Successful(c)
  /\ {results[c][i].capability : i \in DOMAIN results[c]} =
       {Sequence[entry[c].kind][i] : i \in DOMAIN Sequence[entry[c].kind]}

\* Every record binds the revisions this capability has to find and to leave.
Bound(c) ==
  \A e \in evidence[c] : /\ Revision(e.before) = Revision(Before(c, e.capability))
                         /\ Revision(e.after) = Revision(After(c, e.capability))

Verified(c) ==
  /\ Complete(c)
  /\ Unchanged(After(c, Sequence[entry[c].kind][Len(Sequence[entry[c].kind])]))
  /\ Bound(c)

\* csharp_fix.finish: a plan for a proposal, the final comparison for the others.
Finish(c) ==
  /\ pc[c] = "finish"
  /\ plan' = IF entry[c].kind = "propose" /\ Successful(c) /\ Unchanged(Expected(c))
               /\ project.target = "old"
             THEN [plan EXCEPT ![c] = project] ELSE plan
  /\ application' = IF entry[c].kind = "apply"
                    THEN [application EXCEPT ![entry[c].plan] =
                           IF Verified(c) THEN "completed" ELSE "blocked"]
                    ELSE application
  /\ results' = IF Fix(c) /\ (entry[c].kind = "propose" \/ ~Verified(c))
                THEN [results EXCEPT ![c] =
                       Append(@, [capability |-> "source.patch", status |-> "blocked"])]
                ELSE results
  /\ Goto(c, "decide")
  /\ UNCHANGED <<dispatchVars, entry, index, input, evidence, owner, state, approval, worldVars>>

\* finish may fail instead (the deadline, an unreadable record): nothing is written.
FinishFails(c) ==
  /\ pc[c] = "finish"
  /\ Fix(c)
  /\ results' = [results EXCEPT ![c] =
       Append(@, [capability |-> "source.patch", status |-> "blocked"])]
  /\ Goto(c, "decide")
  /\ UNCHANGED <<dispatchVars, entry, index, input, evidence, fileVars, worldVars>>

Decide(c) ==
  /\ pc[c] = "decide"
  /\ state' = [state EXCEPT ![c] = IF Successful(c) THEN "completed" ELSE "blocked"]
  /\ Goto(c, "leave")
  /\ UNCHANGED <<dispatchVars, entry, index, input, results, evidence, owner, plan, approval,
                 application, worldVars>>

\* The Run is over, its variables are gone and the Project is free.
Over(c) ==
  /\ Goto(c, "over")
  /\ owner' = None
  /\ entry' = [entry EXCEPT ![c] = NoEntry]
  /\ index' = [index EXCEPT ![c] = 1]
  /\ snapshot' = [snapshot EXCEPT ![c] = None]
  /\ input' = [input EXCEPT ![c] = None]
  /\ results' = [results EXCEPT ![c] = <<>>]
  /\ evidence' = [evidence EXCEPT ![c] = {}]
  /\ observed' = [observed EXCEPT ![c] = {}]
  /\ UNCHANGED <<state, plan, approval, application, project, written, edits>>

Leave(c) ==
  /\ pc[c] = "leave"
  /\ Over(c)
  /\ UNCHANGED <<at, request, resolution, attempts, retries, answer, editor>>

\* The process dies, or an exception leaves execute: a Runtime lease it holds stays.
Crash(c) ==
  /\ pc[c] \notin {"idle", "over"}
  /\ Over(c)
  /\ Forget(c)

-----------------------------------------------------------------------------
(* People.                                                                  *)

\* approve_csharp_fix: only while the Project is what the plan is for.
Approve(p) ==
  /\ plan[p] # None
  /\ approval[p] = "none"
  /\ Unchanged(plan[p])
  /\ approval' = [approval EXCEPT ![p] = "active"]
  /\ UNCHANGED <<dispatchVars, runVars, owner, state, plan, application, worldVars>>

\* The approval is revoked, or its fifteen minutes are over.
Withdraw(p) ==
  /\ approval[p] = "active"
  /\ approval' = [approval EXCEPT ![p] = "over"]
  /\ UNCHANGED <<dispatchVars, runVars, owner, state, plan, application, worldVars>>

\* Somebody edits the Project, or takes the patch back.  An edit never restores what was
\* there before: what was changed and changed back between two looks is not seen.
Edit ==
  /\ edits < MaxEdits
  /\ edits' = edits + 1
  /\ \/ project' \in {[target |-> t, rest |-> project.rest + 1] : t \in {project.target, "else"}}
     \/ project.target = "new" /\ project' = [project EXCEPT !.target = "old"]
  /\ UNCHANGED <<dispatchVars, runVars, fileVars, written, observed>>

Step(c) ==
  \/ Route(c) \/ Prepare(c) \/ Accept(c) \/ Break(c) \/ Dispatch(c) \/ Deliberates(c)
  \/ Execute(c) \/ Record(c) \/ Advance(c) \/ Finish(c) \/ FinishFails(c) \/ Decide(c)
  \/ Leave(c)

Next ==
  \/ \E c \in Calls : Enter(c) \/ Step(c) \/ Crash(c) \/ Approve(c) \/ Withdraw(c)
  \/ Edit

Spec == Init /\ [][Next]_vars

\* A living Run keeps going; executors and the model return in the end.  One Run is inside
\* at a time.
FairSpec == Spec /\ WF_vars(\E c \in Calls : Step(c))

-----------------------------------------------------------------------------
(* Properties.                                                              *)

TypeOK ==
  /\ at \in [Calls -> {"idle", "attempt", "invoke", "judge", "answered"}]
  /\ request \in [Calls -> Capabilities \union {None}]
  /\ resolution \in [Calls -> [provider : Providers \union {None}, profile : STRING \union {None}]]
  /\ editor \in Calls \union {None} /\ owner \in Calls \union {None}
  /\ entry \in [Calls -> Entry]
  /\ index \in [Calls -> Nat \ {0}]
  /\ plan \in [Calls -> Content \union {None}]
  /\ approval \in [Calls -> {"none", "active", "over"}]
  /\ application \in [Calls -> {"none", "dispatching", "completed", "blocked"}]
  /\ project \in Content

\* An approved plan changes the Project at most once: not again after a death, after the
\* change was taken back, or by another Run that was given the same approval.
PatchedOnce ==
  \A i, j \in DOMAIN written : written[i].plan = written[j].plan => i = j

\* An application that is called completed is one: this plan's patch was written on the
\* revision that was approved, and every gate that passed was looking at its exact result.
CompletedIsExact ==
  \A c \in Calls : pc[c] = "leave" /\ state[c] = "completed" /\ entry[c].kind = "apply" =>
    /\ \E i \in DOMAIN written : written[i] = [run |-> c, plan |-> entry[c].plan, on |-> Base(c)]
    /\ \A i \in DOMAIN Sequence["apply"] : Sequence["apply"][i] # "source.patch" =>
         [capability |-> Sequence["apply"][i], content |-> Before(c, Sequence["apply"][i])]
           \in observed[c]

\* Every call of execute answers, or its process dies: no retry, fallback or lease keeps it.
RunAnswers == owner # None ~> owner = None
=============================================================================
