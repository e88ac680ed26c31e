---------------------------- MODULE ArtistPipeline ----------------------------
(***************************************************************************)
(* The Artist commands inside the Unity Editor (ArtistPipelineCommands.cs,   *)
(* ArtistPipelineCommandRegistration.cs): plan, apply, cinematic, capture,   *)
(* evaluate and refine.                                                      *)
(*                                                                         *)
(* Plans, captures and reviews live in the memory of one Editor instance;    *)
(* approvals live in the Control Plane, which answers the Editor over its    *)
(* authority (ArtistRun has that side).  Between two commands people edit    *)
(* and save, and the Editor restarts.  A command holds the main thread, but  *)
(* an apply writes one place after the other and may fail at each.           *)
(***************************************************************************)
EXTENDS Naturals, Sequences

CONSTANTS
  ArtRuns, Manual,   \* Runs of the Control Plane, and a caller that sends no Context
  Places,            \* what CurrentRevision reads: fog, volume, light, camera, timeline
  SetBy,             \* how a place is set: "property", "reflection" or "timeline"
  Looks,             \* the values a place can have
  Intents,           \* sequences of places and values to set, in the order of ApplyIntent
  NoIntent,
  MaxPlans, MaxShots, MaxArtEdits, MaxEditors   \* bounds of the model

ASSUME PipelineConstants ==
  /\ Manual \notin ArtRuns
  /\ SetBy \in [Places -> {"property", "reflection", "timeline"}]
  /\ \A intent \in Intents : intent \in Seq([place : Places, look : Looks]) /\ intent # <<>>
  /\ {MaxPlans, MaxShots, MaxArtEdits, MaxEditors} \subseteq Nat

Slots(bound) == 1 .. bound

VARIABLES
  shown,          \* the look of each place
  editor,         \* the Editor instance
  plans,          \* each plan: who has it, of which instance, what it sets and from which scene
  shots,          \* each capture
  reviews,        \* the authenticated evaluations in the history
  spent,          \* approvals of plans and of reviews: "none", "given", "spent"
  command,        \* the apply that is going on
  passed,         \* history: the plans whose apply passed
  artEdits

pipelineVars == <<shown, editor, plans, shots, reviews, spent, command, passed, artEdits>>

NoPlan == [by |-> Manual, editor |-> 0, intent |-> NoIntent, base |-> NoIntent]
NoShot == [by |-> Manual, editor |-> 0]
NoCommand == [plan |-> 0, todo |-> <<>>, before |-> NoIntent, failed |-> FALSE]

Plain == [p \in Places |-> "plain"]

PipelineInit ==
  /\ shown = Plain /\ editor = 1
  /\ plans = [n \in Slots(MaxPlans) |-> NoPlan] /\ shots = [k \in Slots(MaxShots) |-> NoShot]
  /\ reviews = {}
  /\ spent = [n \in (Slots(MaxPlans) \X {"apply"}) \union (Slots(MaxShots) \X {"evaluate"}) |-> "none"]
  /\ command = NoCommand /\ passed = {} /\ artEdits = 0

\* A digest of everything it reads: as good as what it reads.
CurrentRevision == shown

Idle == command = NoCommand

\* What an intent makes of a scene.
Applied(look, intent) ==
  [p \in Places |->
     IF \E k \in DOMAIN intent : intent[k].place = p
     THEN intent[CHOOSE k \in DOMAIN intent : intent[k].place = p].look
     ELSE look[p]]

\* BuildDiff and TryObserveCinematicChange: of each place the look before and after.
Diff(look, intent) ==
  [k \in DOMAIN intent |-> [place |-> intent[k].place, before |-> look[intent[k].place],
                            after |-> intent[k].look]]

-----------------------------------------------------------------------------
(* Commands that leave the scene alone.                                      *)

KeepPlan(r, intent) ==
  \E n \in Slots(MaxPlans) :
    /\ plans[n] = NoPlan /\ \A m \in Slots(n - 1) : plans[m] # NoPlan
    /\ plans' = [plans EXCEPT ![n] = [by |-> r, editor |-> editor, intent |-> intent,
                                      base |-> CurrentRevision]]

\* A binding, track, marker or shot of a Timeline goes through Cinematic, one at a time.
OfTimeline(intent) == SetBy[intent[1].place] = "timeline"

MakeArtPlan(r, intent) ==
  /\ Idle /\ ~OfTimeline(intent) /\ KeepPlan(r, intent)
  /\ UNCHANGED <<shown, editor, shots, reviews, spent, command, passed, artEdits>>

PlanCinematic(r, intent) ==
  /\ Idle /\ OfTimeline(intent) /\ KeepPlan(r, intent)
  /\ UNCHANGED <<shown, editor, shots, reviews, spent, command, passed, artEdits>>

\* Capture: a file that is never written again, so its revision is the one a decision about it
\* has; what is on it, like the review a refined plan names, is evidence that no command reads.
CaptureScene(r) ==
  /\ Idle
  /\ \E k \in Slots(MaxShots) :
       /\ shots[k] = NoShot /\ \A j \in Slots(k - 1) : shots[j] # NoShot
       /\ shots' = [shots EXCEPT ![k] = [by |-> r, editor |-> editor]]
  /\ UNCHANGED <<shown, editor, plans, reviews, spent, command, passed, artEdits>>

\* A person decides about a plan, or about a capture, that the Control Plane registered for a
\* Run; without a Context nothing is registered, and no authority asked would agree.
DecideArt(kind, n) ==
  /\ spent[<<n, kind>>] = "none"
  /\ IF kind = "apply" THEN plans[n].by \in ArtRuns ELSE shots[n].by \in ArtRuns
  /\ spent' = [spent EXCEPT ![<<n, kind>>] = "given"]
  /\ UNCHANGED <<shown, editor, plans, shots, reviews, command, passed, artEdits>>

\* Authorize: the answer is yes once, and for the Run whose Context the Editor has received.
Authorized(r, by, kind, n) ==
  /\ r = by /\ spent[<<n, kind>>] = "given"
  /\ spent' = [spent EXCEPT ![<<n, kind>>] = "spent"]

\* EvaluateAuthenticated: of a capture of this instance.
EvaluateCapture(r, k) ==
  /\ Idle /\ shots[k].editor = editor
  /\ Authorized(r, shots[k].by, "evaluate", k)
  /\ reviews' = reviews \union {[shot |-> k, run |-> r, editor |-> editor]}
  /\ UNCHANGED <<shown, editor, plans, shots, command, passed, artEdits>>

\* RefineAuthenticated: the evaluation is of this Run and in this instance's history.  A
\* caller without a Context may name what it likes: Refine.
RefinePlan(r, k, intent) ==
  /\ Idle /\ ~OfTimeline(intent)
  /\ r \in ArtRuns => [shot |-> k, run |-> r, editor |-> editor] \in reviews
  /\ KeepPlan(r, intent)
  /\ UNCHANGED <<shown, editor, shots, reviews, spent, command, passed, artEdits>>

-----------------------------------------------------------------------------
(* Apply, and the applying half of Cinematic.                                *)

\* Authorized, and from here on whatever happens can be undone.
TakeUp(r, n) ==
  /\ Authorized(r, plans[n].by, "apply", n)
  /\ command' = [plan |-> n, todo |-> plans[n].intent, before |-> shown, failed |-> FALSE]
  /\ UNCHANGED <<shown, editor, plans, shots, reviews, passed, artEdits>>

Present(n) == n \notin passed /\ plans[n].editor = editor

SameDiff(n) == Diff(shown, plans[n].intent) = Diff(plans[n].base, plans[n].intent)

\* The plan is in this session, the scene as it was, and the diff, made anew, the approved one.
BeginApply(r, n) ==
  /\ Idle /\ Present(n) /\ ~OfTimeline(plans[n].intent)
  /\ CurrentRevision = plans[n].base /\ SameDiff(n)
  /\ TakeUp(r, n)

BeginCinematic(r, n) ==
  /\ Idle /\ Present(n) /\ OfTimeline(plans[n].intent)
  /\ CurrentRevision = plans[n].base /\ SameDiff(n)
  /\ TakeUp(r, n)

\* The next place of the intent gets a look; the command fails there or goes on.
SetNext(by, look, fails) ==
  /\ command.todo # <<>> /\ ~command.failed
  /\ LET place == Head(command.todo).place IN
       SetBy[place] = by /\ shown' = [shown EXCEPT ![place] = look]
  /\ command' = [command EXCEPT !.todo = Tail(@), !.failed = fails]
  /\ UNCHANGED <<editor, plans, shots, reviews, spent, passed, artEdits>>

\* ApplyIntent: a property of a light, a camera or the fog; or its target is not found.
SetProperty ==
  /\ command.todo # <<>>
  /\ LET next == Head(command.todo) IN
       \/ SetNext("property", next.look, FALSE)
       \/ SetNext("property", shown[next.place], TRUE)

\* ApplyUrpVolumeLookDev and ApplyHdrpFog: the installed package may clamp a value, take one
\* of several and refuse another, or throw on the way.
SetLookDev == \E look \in Looks, fails \in BOOLEAN : SetNext("reflection", look, fails)

\* ApplyCinematic: a binding, track, marker or shot, of which a part may have been made.
SetTimeline == \E look \in Looks, fails \in BOOLEAN : SetNext("timeline", look, fails)

\* The diff once more: what was to come after is what is there now.
Verified(n) ==
  \A k \in DOMAIN plans[n].intent : shown[plans[n].intent[k].place] = plans[n].intent[k].look

RevertLast ==   \* mutant: of several Undo groups the last one alone is reverted
  /\ command.plan # 0 /\ (command.failed \/ command.todo = <<>>)
  /\ IF ~command.failed /\ Verified(command.plan)
     THEN passed' = passed \union {command.plan} /\ UNCHANGED shown
     ELSE /\ LET intent == plans[command.plan].intent
                 last == intent[Len(intent) - Len(command.todo)].place
             IN  shown' = [shown EXCEPT ![last] = command.before[last]]
          /\ UNCHANGED passed
  /\ command' = NoCommand
  /\ UNCHANGED <<editor, plans, shots, reviews, spent, artEdits>>

\* Passed, or everything since the Undo group is reverted.
EndApply ==
  /\ command.plan # 0 /\ (command.failed \/ command.todo = <<>>)
  /\ IF ~command.failed /\ Verified(command.plan)
     THEN passed' = passed \union {command.plan} /\ UNCHANGED shown
     ELSE shown' = command.before /\ UNCHANGED passed
  /\ command' = NoCommand
  /\ UNCHANGED <<editor, plans, shots, reviews, spent, artEdits>>

-----------------------------------------------------------------------------
(* People, and the Editor.                                                   *)

EditPlace ==
  /\ Idle /\ artEdits < MaxArtEdits /\ artEdits' = artEdits + 1
  /\ \E p \in Places : \E look \in Looks \ {shown[p]} : shown' = [shown EXCEPT ![p] = look]
  /\ UNCHANGED <<editor, plans, shots, reviews, spent, command, passed>>

\* It remembers nothing, and shows what is on the disk: nothing was saved, or everything.
ReopenEditor ==
  /\ editor < MaxEditors /\ editor' = editor + 1
  /\ shown' \in {Plain, shown} /\ command' = NoCommand /\ reviews' = {}
  /\ UNCHANGED <<plans, shots, spent, passed, artEdits>>

PipelineNext ==
  \/ \E r \in ArtRuns \union {Manual} :
       \/ \E intent \in Intents :
            MakeArtPlan(r, intent) \/ PlanCinematic(r, intent) \/ \E k \in Slots(MaxShots) : RefinePlan(r, k, intent)
       \/ CaptureScene(r)
       \/ \E k \in Slots(MaxShots) : EvaluateCapture(r, k)
       \/ \E n \in Slots(MaxPlans) : BeginApply(r, n) \/ BeginCinematic(r, n)
  \/ \E w \in DOMAIN spent : DecideArt(w[2], w[1])
  \/ SetProperty \/ SetLookDev \/ SetTimeline \/ EndApply
  \/ EditPlace \/ ReopenEditor

PipelineSpec == PipelineInit /\ [][PipelineNext]_pipelineVars

-----------------------------------------------------------------------------
(* Properties.                                                              *)

\* What a passing apply leaves is the scene its plan was made from with what the plan says, to
\* the last place CurrentRevision reads, whatever was edited, undone or reopened in between;
\* any other end of an apply leaves the scene as the apply found it.
ApplyIsReviewedOrNothing ==
  [][command.plan # 0 /\ command'.plan = 0 /\ editor' = editor =>
       shown' = IF command.plan \in passed'
                THEN Applied(plans[command.plan].base, plans[command.plan].intent)
                ELSE command.before]_pipelineVars
=============================================================================
