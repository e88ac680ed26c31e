----------------------------- MODULE WorkerBatch -----------------------------
(***************************************************************************)
(* run_isolated_batch (runtime/execution_control/isolated_worker_batch.py): *)
(* a parent thread supervises two worker threads.  Each worker prepares,    *)
(* hands its preparation to the parent through a queue and parks at a gate. *)
(* The parent accepts both preparations or neither, opens the gates, and    *)
(* watches for cancellation, for the deadline and for the workers' end.     *)
(*                                                                         *)
(* The three threading.Event objects, the queue and the shared gate records *)
(* are variables; every read or write another thread can observe between    *)
(* two others is a step of its own.                                         *)
(***************************************************************************)
EXTENDS Naturals, Sequences, FiniteSets

CONSTANT Workers   \* the task identities of the batch

\* The batch is refused unless it has exactly two distinct jobs.
ASSUME TwoWorkers == Cardinality(Workers) = 2

VARIABLES
  \* ---- the parent thread
  phase,         \* where run_isolated_batch is
  preparations,  \* names of the messages taken from the queue
  verdict,       \* what prepare returned for each job: "none", "yes", "no"
  accepted,      \* the local `accepted'
  timedOut,      \* the local `timed_out'
  report,        \* the returned record, filled in field by field
  \* ---- shared between the threads
  messages,      \* the queue of preparations
  closed, cancelled,   \* the two threading.Event objects
  gate,          \* per worker: event set?, `accepted', dispatch_started_ns stamped?
  \* ---- the workers
  pc,            \* where each worker is
  calls,         \* how often consume was entered
  envelope,      \* what the worker's future holds
  \* ---- the environment
  cancelEvent,   \* the caller's cancel_event
  late           \* the deadline has passed

parentVars == <<phase, preparations, verdict, accepted, timedOut, report>>
workerVars == <<pc, calls, envelope>>
envVars    == <<cancelEvent, late>>
vars == <<parentVars, messages, closed, cancelled, gate, workerVars, envVars>>

ParentPhases == {"collect", "take", "check", "accept", "prepare", "open", "await",
                 "grace", "stopped", "results", "reply", "close", "stop", "release",
                 "returned"}
WorkerPhases == {"preparing", "checking", "putting", "parked", "released", "granted",
                 "dispatching", "refused", "done"}

Done == {w \in Workers : pc[w] = "done"}
AllDone == Done = Workers

TypeOK ==
  /\ phase \in ParentPhases
  /\ preparations \subseteq Workers
  /\ verdict \in [Workers -> {"none", "yes", "no"}]
  /\ accepted \in BOOLEAN /\ timedOut \in BOOLEAN
  /\ report \in [stopped : BOOLEAN, results : SUBSET Workers,
                 timedOut : BOOLEAN, cancelled : BOOLEAN, accepted : BOOLEAN]
  /\ messages \in Seq(Workers)
  /\ closed \in BOOLEAN /\ cancelled \in BOOLEAN
  /\ gate \in [Workers -> [event : BOOLEAN, accepted : BOOLEAN, started : BOOLEAN]]
  /\ pc \in [Workers -> WorkerPhases]
  /\ calls \in [Workers -> 0..2]
  /\ envelope \in [Workers -> {"none", "completed", "blocked", "error"}]
  /\ cancelEvent \in BOOLEAN /\ late \in BOOLEAN

Init ==
  /\ phase = "collect"
  /\ preparations = {}
  /\ verdict = [w \in Workers |-> "none"]
  /\ accepted = FALSE /\ timedOut = FALSE
  /\ report = [stopped |-> FALSE, results |-> {}, timedOut |-> FALSE,
               cancelled |-> FALSE, accepted |-> FALSE]
  /\ messages = <<>>
  /\ closed = FALSE /\ cancelled = FALSE
  /\ gate = [w \in Workers |-> [event |-> FALSE, accepted |-> FALSE,
                               started |-> FALSE]]
  /\ pc = [w \in Workers |-> "preparing"]
  /\ calls = [w \in Workers |-> 0]
  /\ envelope = [w \in Workers |-> "none"]
  /\ cancelEvent = FALSE /\ late = FALSE

-----------------------------------------------------------------------------
(* The worker threads.                                                      *)

Goto(w, from, to) == pc[w] = from /\ pc' = [pc EXCEPT ![w] = to]

\* execute calls consume: the call is counted before anything else.
EnterConsume(w) ==
  /\ Goto(w, "preparing", "checking")
  /\ calls' = [calls EXCEPT ![w] = 1]
  /\ UNCHANGED <<parentVars, messages, closed, cancelled, gate, envelope, envVars>>

\* A second call raises inside execute, which then ends one way or another.
ConsumeAgain(w) ==
  /\ pc[w] \in {"dispatching", "refused"}
  /\ calls[w] = 1
  /\ calls' = [calls EXCEPT ![w] = 2]
  /\ UNCHANGED <<parentVars, messages, closed, cancelled, gate, pc, envelope, envVars>>

\* The events are looked at before the message is put.
CheckBeforePut(w) ==
  /\ Goto(w, "checking", IF closed \/ cancelled THEN "refused" ELSE "putting")
  /\ UNCHANGED <<parentVars, messages, closed, cancelled, gate, calls, envelope, envVars>>

Put(w) ==
  /\ Goto(w, "putting", "parked")
  /\ messages' = Append(messages, w)
  /\ UNCHANGED <<parentVars, closed, cancelled, gate, calls, envelope, envVars>>

\* gate['event'].wait returns, or a 20 ms slice ends with the batch stopped.
Wake(w) ==
  /\ \/ gate[w].event /\ Goto(w, "parked", "released")
     \/ ~gate[w].event /\ (closed \/ cancelled) /\ Goto(w, "parked", "refused")
  /\ UNCHANGED <<parentVars, messages, closed, cancelled, gate, calls, envelope, envVars>>

\* The gate's verdict counts only while the batch is neither cancelled nor closed.
Recheck(w) ==
  /\ Goto(w, "released",
          IF gate[w].accepted /\ ~cancelled /\ ~closed THEN "granted" ELSE "refused")
  /\ UNCHANGED <<parentVars, messages, closed, cancelled, gate, calls, envelope, envVars>>

\* consume stamps dispatch_started_ns and returns True: external effects start.
StartDispatch(w) ==
  /\ Goto(w, "granted", "dispatching")
  /\ gate' = [gate EXCEPT ![w].started = TRUE]
  /\ UNCHANGED <<parentVars, messages, closed, cancelled, calls, envelope, envVars>>

\* What execute may do when it is done: a refused preparation makes the Control
\* Plane answer `blocked'; otherwise it may return either status, the record of
\* another Run, or raise.
ExecuteOutcomes(w) ==
  IF pc[w] = "refused" THEN {"blocked", "raised"}
  ELSE {"completed", "blocked", "foreign", "raised"}

\* The envelope built from an outcome: identity errors replace the result.
Enveloped(w, outcome) ==
  CASE outcome \in {"foreign", "raised"} -> "error"
    [] outcome = "completed" /\ (calls[w] # 1 \/ ~gate[w].accepted) -> "error"
    [] OTHER -> outcome

Finish(w) ==
  /\ pc[w] \in {"preparing", "dispatching", "refused"}
  /\ pc' = [pc EXCEPT ![w] = "done"]
  /\ \E outcome \in ExecuteOutcomes(w) :
       envelope' = [envelope EXCEPT ![w] = Enveloped(w, outcome)]
  /\ UNCHANGED <<parentVars, messages, closed, cancelled, gate, calls, envVars>>

\* The steps of consume, which the workers' threads are scheduled to take.
Consuming(w) ==
  CheckBeforePut(w) \/ Put(w) \/ Wake(w) \/ Recheck(w) \/ StartDispatch(w)

Worker(w) == EnterConsume(w) \/ ConsumeAgain(w) \/ Consuming(w) \/ Finish(w)

-----------------------------------------------------------------------------
(* The parent thread.                                                       *)

PollWithoutDeadline ==   \* mutant: the deadline is never looked at
  /\ cancelled' = (cancelled \/ cancelEvent)
  /\ UNCHANGED timedOut

\* interrupted(): copies the caller's request and the deadline into `cancelled'.
PollInterrupt ==
  /\ cancelled' = (cancelled \/ cancelEvent \/ late)
  /\ timedOut' = (timedOut \/ late)

SkipPoll == UNCHANGED <<cancelled, timedOut>>

\* while len(preparations) < 2 and not interrupted()
CollectLoop ==
  /\ phase = "collect"
  /\ \/ preparations = Workers /\ SkipPoll /\ phase' = "accept"
     \/ /\ preparations # Workers
        /\ PollInterrupt
        /\ phase' = IF cancelled' THEN "accept" ELSE "take"
  /\ UNCHANGED <<preparations, verdict, accepted, report, messages, closed, gate,
                 workerVars, envVars>>

\* messages.get: a name taken twice is an error that ends the batch.
TakeMessage ==
  /\ phase = "take"
  /\ \/ /\ messages # <<>>
        /\ messages' = Tail(messages)
        /\ preparations' = preparations \union {Head(messages)}
        /\ phase' = IF Head(messages) \in preparations THEN "close" ELSE "check"
     \/ /\ messages = <<>>
        /\ phase' = "check"
        /\ UNCHANGED <<messages, preparations>>
  /\ UNCHANGED <<verdict, accepted, timedOut, report, closed, cancelled, gate,
                 workerVars, envVars>>

\* A worker that ended without a preparation ends the collection.
CheckWorkers ==
  /\ phase = "check"
  /\ phase' = IF Done \subseteq preparations THEN "collect" ELSE "accept"
  /\ UNCHANGED <<preparations, verdict, accepted, timedOut, report, messages, closed,
                 cancelled, gate, workerVars, envVars>>

\* accepted = len(preparations) == 2 and not interrupted()
AcceptBoth ==
  /\ phase = "accept"
  /\ \/ /\ preparations = Workers
        /\ PollInterrupt
        /\ accepted' = ~cancelled'
     \/ /\ preparations # Workers
        /\ SkipPoll
        /\ accepted' = FALSE
  /\ phase' = IF accepted' THEN "prepare" ELSE "open"
  /\ UNCHANGED <<preparations, verdict, report, messages, closed, gate, workerVars,
                 envVars>>

PreparePolls(w) ==   \* mutant: the interruption is looked at between two preparations
  /\ phase = "prepare"
  /\ verdict[w] = "none"
  /\ \E answer \in {"yes", "no"} : verdict' = [verdict EXCEPT ![w] = answer]
  /\ PollInterrupt
  /\ UNCHANGED <<phase, preparations, accepted, report, messages, closed, gate, workerVars,
                 envVars>>

\* prepare(job, preparation): the one call that may write the parent's state.
Prepare(w) ==
  /\ phase = "prepare"
  /\ verdict[w] = "none"
  /\ \E answer \in {"yes", "no"} : verdict' = [verdict EXCEPT ![w] = answer]
  /\ UNCHANGED <<phase, preparations, accepted, timedOut, report, messages, closed,
                 cancelled, gate, workerVars, envVars>>

\* An exception prepare is not expected to raise leaves through `finally'.
PrepareRaises ==
  /\ phase = "prepare"
  /\ \E w \in Workers : verdict[w] = "none"
  /\ phase' = "close"
  /\ UNCHANGED <<preparations, verdict, accepted, timedOut, report, messages, closed,
                 cancelled, gate, workerVars, envVars>>

\* accepted = all(decisions) and not interrupted()
DecideBatch ==
  /\ phase = "prepare"
  /\ \A w \in Workers : verdict[w] # "none"
  /\ \/ /\ \A w \in Workers : verdict[w] = "yes"
        /\ PollInterrupt
        /\ accepted' = ~cancelled'
     \/ /\ \E w \in Workers : verdict[w] = "no"
        /\ SkipPoll
        /\ accepted' = FALSE
  /\ phase' = "open"
  /\ UNCHANGED <<preparations, verdict, report, messages, closed, gate, workerVars,
                 envVars>>

\* The gates are released one after the other, each verdict before its event.
OpenGate(w) ==
  /\ phase = "open"
  /\ ~gate[w].event
  /\ gate' = [gate EXCEPT ![w].event = TRUE, ![w].accepted = accepted]
  /\ phase' = IF \A v \in Workers : gate'[v].event THEN "await" ELSE "open"
  /\ UNCHANGED <<preparations, verdict, accepted, timedOut, report, messages, closed,
                 cancelled, workerVars, envVars>>

\* while not all done and not interrupted(): wait
AwaitWorkers ==
  /\ phase = "await"
  /\ \/ /\ AllDone
        /\ SkipPoll
        /\ phase' = IF cancelled THEN "grace" ELSE "stopped"
     \/ /\ ~AllDone
        /\ PollInterrupt
        /\ phase' = IF cancelled' THEN "grace" ELSE "await"
  /\ UNCHANGED <<preparations, verdict, accepted, report, messages, closed, gate,
                 workerVars, envVars>>

\* The clean-up grace ends with all workers stopped, or simply runs out.
EndGrace ==
  /\ phase = "grace"
  /\ phase' = "stopped"
  /\ UNCHANGED <<preparations, verdict, accepted, timedOut, report, messages, closed,
                 cancelled, gate, workerVars, envVars>>

Report(field, value, from, to) ==
  /\ phase = from
  /\ phase' = to
  /\ report' = [report EXCEPT ![field] = value]
  /\ UNCHANGED <<preparations, verdict, accepted, timedOut, messages, closed, cancelled,
                 gate, workerVars, envVars>>

ReportStopped == Report("stopped", AllDone, "stopped", "results")
ReportResults == Report("results", Done, "results", "reply")

\* The returned record: the caller's event is read once more, after the workers.
Reply ==
  /\ phase = "reply"
  /\ phase' = "close"
  /\ report' = [report EXCEPT !.timedOut = timedOut, !.cancelled = cancelEvent,
                              !.accepted = accepted]
  /\ UNCHANGED <<preparations, verdict, accepted, timedOut, messages, closed, cancelled,
                 gate, workerVars, envVars>>

\* finally: close, cancel what still runs, wake whoever is parked.
Close ==
  /\ phase = "close"
  /\ phase' = "stop"
  /\ closed' = TRUE
  /\ UNCHANGED <<preparations, verdict, accepted, timedOut, report, messages, cancelled,
                 gate, workerVars, envVars>>

CancelRunning ==
  /\ phase = "stop"
  /\ phase' = "release"
  /\ cancelled' = (cancelled \/ ~AllDone)
  /\ UNCHANGED <<preparations, verdict, accepted, timedOut, report, messages, closed,
                 gate, workerVars, envVars>>

ReleaseGates ==
  /\ phase = "release"
  /\ phase' = "returned"
  /\ gate' = [w \in Workers |-> [gate[w] EXCEPT !.event = TRUE]]
  /\ UNCHANGED <<preparations, verdict, accepted, timedOut, report, messages, closed,
                 cancelled, workerVars, envVars>>

Parent ==
  \/ CollectLoop \/ TakeMessage \/ CheckWorkers \/ AcceptBoth
  \/ PrepareRaises \/ DecideBatch \/ (\E w \in Workers : Prepare(w) \/ OpenGate(w))
  \/ AwaitWorkers \/ EndGrace \/ ReportStopped \/ ReportResults \/ Reply
  \/ Close \/ CancelRunning \/ ReleaseGates

-----------------------------------------------------------------------------
(* The environment: the caller cancels, the deadline passes.                *)

RequestCancel ==
  /\ ~cancelEvent
  /\ cancelEvent' = TRUE
  /\ UNCHANGED <<parentVars, messages, closed, cancelled, gate, workerVars, late>>

DeadlinePasses ==
  /\ ~late
  /\ late' = TRUE
  /\ UNCHANGED <<parentVars, messages, closed, cancelled, gate, workerVars, cancelEvent>>

Next ==
  \/ Parent
  \/ \E w \in Workers : Worker(w)
  \/ RequestCancel
  \/ DeadlinePasses

Spec == Init /\ [][Next]_vars

(* Threads are scheduled and time passes; execute itself may never return.  *)
Fairness ==
  /\ WF_vars(Parent)
  /\ \A w \in Workers : WF_vars(Consuming(w))
  /\ WF_vars(DeadlinePasses)

FairSpec == Spec /\ Fairness

-----------------------------------------------------------------------------
(* Properties.                                                              *)

\* Nothing external starts before the whole batch was prepared and accepted: a
\* stamped dispatch means that both preparations were collected and
\* that the parent's prepare said yes to both.
DispatchNeedsBoth ==
  \A w \in Workers : gate[w].started =>
    /\ preparations = Workers
    /\ \A v \in Workers : verdict[v] = "yes"

\* While prepare runs, and may write the parent's state, both workers are parked
\* in consume (the comment above the decisions): none of them runs execute code.
WorkersParkedDuringPrepare ==
  phase = "prepare" => \A w \in Workers : pc[w] = "parked"

\* A result `completed' is only delivered by a worker that went through the
\* barrier and dispatched, whatever execute returned.
CompletedWasDispatched ==
  \A w \in Workers : envelope[w] = "completed" => gate[w].started

\* The batch is bounded: run_isolated_batch returns even when execute never does.
BatchReturns == <>(phase = "returned")

\* No worker is left hanging in consume, whoever fails and whatever the parent
\* does: it is told to dispatch or it is refused.
ConsumeAnswered ==
  \A w \in Workers :
    pc[w] \in {"checking", "putting", "parked", "released"}
      ~> pc[w] \in {"dispatching", "refused", "done"}

\* Refinement: the queue and the batch's decision, seen from outside.
HandedIn == preparations \union {messages[i] : i \in DOMAIN messages}

Decision ==
  IF \E w \in Workers : gate[w].accepted THEN "open"
  ELSE IF (\E w \in Workers : gate[w].event) \/ phase \in {"close", "stop", "release", "returned"}
       THEN "shut"
       ELSE "pending"

\* Who handed in and has left the wait for the gate.
WentOn == {w \in HandedIn : pc[w] # "parked"}

Barrier == INSTANCE DispatchBarrier WITH
  decision   <- Decision,
  ready      <- HandedIn,
  gone       <- WentOn,
  asking     <- phase = "prepare",
  dispatched <- {w \in Workers : gate[w].started}

\* The batch implements the barrier it promises: one decision, open only with both
\* preparations handed in, dispatch only behind it, a decision at last, and no worker
\* that moves while prepare runs, which is the one call that may write the parent's state.
ImplementsBarrier == Barrier!Spec
=============================================================================
