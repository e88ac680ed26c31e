-------------------------- MODULE WorkerBatchProofs --------------------------
(***************************************************************************)
(* Machine-checked facts about WorkerBatch, for every set of workers: the   *)
(* barrier, the quiet window in which the parent writes its state, what a   *)
(* completed envelope stands for, and that the batch implements the barrier *)
(* of DispatchBarrier.                                                      *)
(***************************************************************************)
EXTENDS WorkerBatch, TLAPS

AllYes == \A v \in Workers : verdict[v] = "yes"

\* A worker is let through only by an accepted gate, and a gate is accepted only
\* by a parent that collected everything and was told yes for everything.
BarrierInv ==
  /\ \A w \in Workers :
       gate[w].started \/ pc[w] \in {"granted", "dispatching"} => gate[w].accepted
  /\ \A w \in Workers : gate[w].accepted => preparations = Workers /\ AllYes
  /\ phase = "open" /\ accepted => preparations = Workers /\ AllYes
  /\ phase = "prepare" => preparations = Workers

\* Why nobody moves while the parent prepares: whoever handed in stays parked
\* until its event is set or the batch is stopped, and neither happens before.
QuietInv ==
  /\ \A w \in HandedIn :
       ~cancelled /\ ~closed /\ ~gate[w].event => pc[w] = "parked"
  /\ phase \in {"collect", "take", "check", "accept", "prepare"} =>
       ~closed /\ \A w \in Workers : ~gate[w].event
  /\ phase = "prepare" => ~cancelled /\ preparations = Workers

\* What the worker's own state says about an envelope it may still build.
EnvelopeInv ==
  /\ \A w \in Workers : pc[w] = "preparing" => calls[w] = 0
  /\ \A w \in Workers : pc[w] = "dispatching" => gate[w].started
  /\ CompletedWasDispatched

IInv == TypeOK /\ BarrierInv /\ QuietInv /\ EnvelopeInv

-----------------------------------------------------------------------------
\* The initial state is well typed.
LEMMA InitTyped == Init => TypeOK
<1> SUFFICES ASSUME Init PROVE TypeOK
  OBVIOUS
<1>1. messages \in Seq(Workers) /\ preparations \subseteq Workers
  BY DEF Init
<1>2. calls \in [Workers -> 0..2]
  BY DEF Init
<1>3. report \in [stopped : BOOLEAN, results : SUBSET Workers,
                 timedOut : BOOLEAN, cancelled : BOOLEAN, accepted : BOOLEAN]
  BY DEF Init
<1> QED BY <1>1, <1>2, <1>3 DEF Init, TypeOK, ParentPhases, WorkerPhases

\* No step of any thread leaves the types: queue, counters and report fields.
LEMMA StepTyped == TypeOK /\ [Next]_vars => TypeOK'
<1> SUFFICES ASSUME TypeOK, [Next]_vars PROVE TypeOK'
  OBVIOUS
<1> USE DEF TypeOK, ParentPhases, WorkerPhases, parentVars, workerVars, envVars
<1>1. CASE Parent
  <2>1. CASE CollectLoop BY <2>1 DEF CollectLoop, PollInterrupt, SkipPoll
  <2>2. CASE TakeMessage
    <3>1. messages # <<>> => /\ Tail(messages) \in Seq(Workers)
                             /\ Head(messages) \in Workers
      OBVIOUS
    <3>2. messages' \in Seq(Workers) /\ preparations' \subseteq Workers
      BY <3>1, <2>2 DEF TakeMessage
    <3> QED BY <3>2, <2>2 DEF TakeMessage
  <2>3. CASE CheckWorkers BY <2>3 DEF CheckWorkers
  <2>4. CASE AcceptBoth BY <2>4 DEF AcceptBoth, PollInterrupt, SkipPoll
  <2>5. CASE PrepareRaises BY <2>5 DEF PrepareRaises
  <2>6. CASE DecideBatch BY <2>6 DEF DecideBatch, PollInterrupt, SkipPoll
  <2>7. ASSUME NEW w \in Workers, Prepare(w) PROVE TypeOK' BY <2>7 DEF Prepare
  <2>8. ASSUME NEW w \in Workers, OpenGate(w) PROVE TypeOK'
    <3>1. gate' \in [Workers -> [event : BOOLEAN, accepted : BOOLEAN, started : BOOLEAN]]
      BY <2>8 DEF OpenGate
    <3>2. phase' \in ParentPhases BY <2>8 DEF OpenGate
    <3> QED BY <3>1, <3>2, <2>8 DEF OpenGate
  <2>9. CASE AwaitWorkers BY <2>9 DEF AwaitWorkers, PollInterrupt, SkipPoll
  <2>10. CASE EndGrace BY <2>10 DEF EndGrace
  <2>11. CASE ReportStopped BY <2>11 DEF ReportStopped, Report, AllDone, Done
  <2>12. CASE ReportResults BY <2>12 DEF ReportResults, Report, Done
  <2>13. CASE Reply BY <2>13 DEF Reply
  <2>14. CASE Close BY <2>14 DEF Close
  <2>15. CASE CancelRunning BY <2>15 DEF CancelRunning, AllDone, Done
  <2>16. CASE ReleaseGates BY <2>16 DEF ReleaseGates
  <2> QED BY <1>1, <2>1, <2>2, <2>3, <2>4, <2>5, <2>6, <2>7, <2>8, <2>9, <2>10,
             <2>11, <2>12, <2>13, <2>14, <2>15, <2>16 DEF Parent
<1>2. ASSUME NEW w \in Workers, Worker(w) PROVE TypeOK'
  <2> USE DEF Goto
  <2>1. CASE EnterConsume(w) BY <2>1 DEF EnterConsume
  <2>2. CASE ConsumeAgain(w) BY <2>2 DEF ConsumeAgain
  <2>3. CASE CheckBeforePut(w) BY <2>3 DEF CheckBeforePut
  <2>4. CASE Put(w)
    <3>1. messages' \in Seq(Workers)
      <4>1. Append(messages, w) \in Seq(Workers) OBVIOUS
      <4> QED BY <4>1, <2>4 DEF Put
    <3> QED BY <3>1, <2>4 DEF Put
  <2>5. CASE Wake(w) BY <2>5 DEF Wake
  <2>6. CASE Recheck(w) BY <2>6 DEF Recheck
  <2>7. CASE StartDispatch(w)
    <3>1. gate' \in [Workers -> [event : BOOLEAN, accepted : BOOLEAN, started : BOOLEAN]]
      BY <2>7 DEF StartDispatch
    <3> QED BY <3>1, <2>7 DEF StartDispatch
  <2>8. CASE Finish(w) BY <2>8 DEF Finish, ExecuteOutcomes, Enveloped
  <2> QED BY <1>2, <2>1, <2>2, <2>3, <2>4, <2>5, <2>6, <2>7, <2>8
          DEF Worker, Consuming
<1>3. CASE RequestCancel BY <1>3 DEF RequestCancel
<1>4. CASE DeadlinePasses BY <1>4 DEF DeadlinePasses
<1>5. CASE UNCHANGED vars BY <1>5 DEF vars
<1> QED BY <1>1, <1>2, <1>3, <1>4, <1>5 DEF Next

\* Every reachable state of a batch is well typed.
THEOREM TypeCorrect == Spec => []TypeOK
BY InitTyped, StepTyped, PTL DEF Spec

-----------------------------------------------------------------------------
\* The stamp of a dispatch touches one field of one gate.
LEMMA StampFrame ==
  ASSUME TypeOK, NEW w \in Workers, StartDispatch(w)
  PROVE  \A v \in Workers : /\ gate'[v].accepted = gate[v].accepted
                            /\ gate'[v].event = gate[v].event
                            /\ gate'[v].started = (gate[v].started \/ v = w)
<1>1. \A v \in Workers : v # w => gate'[v] = gate[v]
  BY DEF StartDispatch, TypeOK
<1>2. gate[w] \in [event : BOOLEAN, accepted : BOOLEAN, started : BOOLEAN]
  BY DEF TypeOK
<1>3. gate'[w] = [gate[w] EXCEPT !.started = TRUE]
  BY DEF StartDispatch, TypeOK
<1>4. /\ gate'[w].accepted = gate[w].accepted
      /\ gate'[w].event = gate[w].event
      /\ gate'[w].started = TRUE
  BY <1>2, <1>3
<1>5. \A v \in Workers : gate[v].started \in BOOLEAN
  BY DEF TypeOK
<1> QED BY <1>1, <1>4, <1>5

\* A message moves from the queue to the collected names: nothing else is new.
LEMMA TakeFrame ==
  ASSUME TypeOK, TakeMessage
  PROVE  /\ HandedIn' \subseteq HandedIn
         /\ preparations' \subseteq Workers
         /\ preparations \subseteq preparations'
<1>1. CASE messages = <<>>
  BY <1>1 DEF TakeMessage, HandedIn, TypeOK
<1>2. CASE messages # <<>>
  <2>1. messages \in Seq(Workers) BY DEF TypeOK
  <2>2. /\ Head(messages) = messages[1] /\ 1 \in DOMAIN messages
        /\ messages[1] \in Workers
    BY <1>2, <2>1
  <2>3. \A i \in DOMAIN Tail(messages) :
          i + 1 \in DOMAIN messages /\ Tail(messages)[i] = messages[i + 1]
    BY <1>2, <2>1
  <2>4. messages' = Tail(messages) /\ preparations' = preparations \union {Head(messages)}
    BY <1>2 DEF TakeMessage
  <2> QED BY <2>2, <2>3, <2>4 DEF HandedIn, TypeOK
<1> QED BY <1>1, <1>2

\* Each part of the strengthening is preserved by every step, on its own.
LEMMA StepBarrier == TypeOK /\ TypeOK' /\ BarrierInv /\ [Next]_vars => BarrierInv'
<1> SUFFICES ASSUME TypeOK, TypeOK', BarrierInv, [Next]_vars PROVE BarrierInv'
  OBVIOUS
<1> USE DEF TypeOK, BarrierInv, AllYes, parentVars, workerVars, envVars
<1>1. CASE Parent
  <2>1. CASE CollectLoop BY <2>1 DEF CollectLoop
  <2>2. CASE TakeMessage
    <3>1. preparations = Workers => preparations' = Workers
      BY <2>2, TakeFrame
    <3>2. phase' # "open" /\ phase' # "prepare" /\ UNCHANGED <<gate, pc, verdict>>
      BY <2>2 DEF TakeMessage
    <3> QED BY <3>1, <3>2
  <2>3. CASE CheckWorkers BY <2>3 DEF CheckWorkers
  <2>4. CASE AcceptBoth BY <2>4 DEF AcceptBoth
  <2>5. CASE PrepareRaises BY <2>5 DEF PrepareRaises
  <2>6. CASE DecideBatch BY <2>6 DEF DecideBatch
  <2>7. ASSUME NEW w \in Workers, Prepare(w) PROVE BarrierInv' BY <2>7 DEF Prepare
  <2>8. ASSUME NEW w \in Workers, OpenGate(w) PROVE BarrierInv' BY <2>8 DEF OpenGate
  <2>9. CASE AwaitWorkers BY <2>9 DEF AwaitWorkers
  <2>10. CASE EndGrace BY <2>10 DEF EndGrace
  <2>11. CASE ReportStopped BY <2>11 DEF ReportStopped, Report
  <2>12. CASE ReportResults BY <2>12 DEF ReportResults, Report
  <2>13. CASE Reply BY <2>13 DEF Reply
  <2>14. CASE Close BY <2>14 DEF Close
  <2>15. CASE CancelRunning BY <2>15 DEF CancelRunning
  <2>16. CASE ReleaseGates
    <3>1. \A w \in Workers : /\ gate'[w].accepted = gate[w].accepted
                             /\ gate'[w].started = gate[w].started
      BY <2>16 DEF ReleaseGates
    <3>2. phase' = "returned" /\ UNCHANGED <<preparations, pc, verdict>>
      BY <2>16 DEF ReleaseGates
    <3> QED BY <3>1, <3>2
  <2> QED BY <1>1, <2>1, <2>2, <2>3, <2>4, <2>5, <2>6, <2>7, <2>8, <2>9, <2>10,
             <2>11, <2>12, <2>13, <2>14, <2>15, <2>16 DEF Parent
<1>2. ASSUME NEW w \in Workers, Worker(w) PROVE BarrierInv'
  <2> USE DEF Goto
  <2>1. CASE EnterConsume(w) BY <2>1 DEF EnterConsume
  <2>2. CASE ConsumeAgain(w) BY <2>2 DEF ConsumeAgain
  <2>3. CASE CheckBeforePut(w) BY <2>3 DEF CheckBeforePut
  <2>4. CASE Put(w) BY <2>4 DEF Put
  <2>5. CASE Wake(w) BY <2>5 DEF Wake
  <2>6. CASE Recheck(w) BY <2>6 DEF Recheck
  <2>7. CASE StartDispatch(w) BY <2>7, StampFrame DEF StartDispatch
  <2>8. CASE Finish(w) BY <2>8 DEF Finish
  <2> QED BY <1>2, <2>1, <2>2, <2>3, <2>4, <2>5, <2>6, <2>7, <2>8
          DEF Worker, Consuming
<1>3. CASE RequestCancel BY <1>3 DEF RequestCancel
<1>4. CASE DeadlinePasses BY <1>4 DEF DeadlinePasses
<1>5. CASE UNCHANGED vars BY <1>5 DEF vars
<1> QED BY <1>1, <1>2, <1>3, <1>4, <1>5 DEF Next

\* No step moves a parked worker before the batch is released or stopped.
LEMMA StepQuiet == TypeOK /\ TypeOK' /\ QuietInv /\ [Next]_vars => QuietInv'
<1> SUFFICES ASSUME TypeOK, TypeOK', QuietInv, [Next]_vars PROVE QuietInv'
  OBVIOUS
<1> USE DEF TypeOK, QuietInv, HandedIn, parentVars, workerVars, envVars
<1>1. CASE Parent
  <2>1. CASE CollectLoop BY <2>1 DEF CollectLoop, PollInterrupt, SkipPoll
  <2>2. CASE TakeMessage BY <2>2, TakeFrame DEF TakeMessage
  <2>3. CASE CheckWorkers BY <2>3 DEF CheckWorkers
  <2>4. CASE AcceptBoth BY <2>4 DEF AcceptBoth, PollInterrupt, SkipPoll
  <2>5. CASE PrepareRaises BY <2>5 DEF PrepareRaises
  <2>6. CASE DecideBatch BY <2>6 DEF DecideBatch, PollInterrupt, SkipPoll
  <2>7. ASSUME NEW w \in Workers, Prepare(w) PROVE QuietInv' BY <2>7 DEF Prepare
  <2>8. ASSUME NEW w \in Workers, OpenGate(w) PROVE QuietInv' BY <2>8 DEF OpenGate
  <2>9. CASE AwaitWorkers BY <2>9 DEF AwaitWorkers, PollInterrupt, SkipPoll
  <2>10. CASE EndGrace BY <2>10 DEF EndGrace
  <2>11. CASE ReportStopped BY <2>11 DEF ReportStopped, Report
  <2>12. CASE ReportResults BY <2>12 DEF ReportResults, Report
  <2>13. CASE Reply BY <2>13 DEF Reply
  <2>14. CASE Close BY <2>14 DEF Close
  <2>15. CASE CancelRunning BY <2>15 DEF CancelRunning
  <2>16. CASE ReleaseGates
    <3>1. \A w \in Workers : /\ gate'[w].accepted = gate[w].accepted
                             /\ gate'[w].started = gate[w].started
      BY <2>16 DEF ReleaseGates
    <3> QED BY <3>1, <2>16 DEF ReleaseGates
  <2> QED BY <1>1, <2>1, <2>2, <2>3, <2>4, <2>5, <2>6, <2>7, <2>8, <2>9, <2>10,
             <2>11, <2>12, <2>13, <2>14, <2>15, <2>16 DEF Parent
<1>2. ASSUME NEW w \in Workers, Worker(w) PROVE QuietInv'
  <2> USE DEF Goto
  <2>1. CASE EnterConsume(w) BY <2>1 DEF EnterConsume
  <2>2. CASE ConsumeAgain(w) BY <2>2 DEF ConsumeAgain
  <2>3. CASE CheckBeforePut(w) BY <2>3 DEF CheckBeforePut
  <2>4. CASE Put(w) BY <2>4 DEF Put
  <2>5. CASE Wake(w) BY <2>5 DEF Wake
  <2>6. CASE Recheck(w) BY <2>6 DEF Recheck
  <2>7. CASE StartDispatch(w) BY <2>7, StampFrame DEF StartDispatch
  <2>8. CASE Finish(w) BY <2>8 DEF Finish
  <2> QED BY <1>2, <2>1, <2>2, <2>3, <2>4, <2>5, <2>6, <2>7, <2>8
          DEF Worker, Consuming
<1>3. CASE RequestCancel BY <1>3 DEF RequestCancel
<1>4. CASE DeadlinePasses BY <1>4 DEF DeadlinePasses
<1>5. CASE UNCHANGED vars BY <1>5 DEF vars
<1> QED BY <1>1, <1>2, <1>3, <1>4, <1>5 DEF Next

\* No step lets a worker complete without having called execute to its end.
LEMMA StepEnvelope == TypeOK /\ TypeOK' /\ EnvelopeInv /\ [Next]_vars => EnvelopeInv'
<1> SUFFICES ASSUME TypeOK, TypeOK', EnvelopeInv, [Next]_vars PROVE EnvelopeInv'
  OBVIOUS
<1> USE DEF TypeOK, EnvelopeInv, CompletedWasDispatched, parentVars, workerVars, envVars
<1>1. CASE Parent
  <2>1. CASE CollectLoop BY <2>1 DEF CollectLoop
  <2>2. CASE TakeMessage BY <2>2, TakeFrame DEF TakeMessage
  <2>3. CASE CheckWorkers BY <2>3 DEF CheckWorkers
  <2>4. CASE AcceptBoth BY <2>4 DEF AcceptBoth
  <2>5. CASE PrepareRaises BY <2>5 DEF PrepareRaises
  <2>6. CASE DecideBatch BY <2>6 DEF DecideBatch
  <2>7. ASSUME NEW w \in Workers, Prepare(w) PROVE EnvelopeInv' BY <2>7 DEF Prepare
  <2>8. ASSUME NEW w \in Workers, OpenGate(w) PROVE EnvelopeInv' BY <2>8 DEF OpenGate
  <2>9. CASE AwaitWorkers BY <2>9 DEF AwaitWorkers
  <2>10. CASE EndGrace BY <2>10 DEF EndGrace
  <2>11. CASE ReportStopped BY <2>11 DEF ReportStopped, Report
  <2>12. CASE ReportResults BY <2>12 DEF ReportResults, Report
  <2>13. CASE Reply BY <2>13 DEF Reply
  <2>14. CASE Close BY <2>14 DEF Close
  <2>15. CASE CancelRunning BY <2>15 DEF CancelRunning
  <2>16. CASE ReleaseGates
    <3>1. \A w \in Workers : /\ gate'[w].accepted = gate[w].accepted
                             /\ gate'[w].started = gate[w].started
      BY <2>16 DEF ReleaseGates
    <3> QED BY <3>1, <2>16 DEF ReleaseGates
  <2> QED BY <1>1, <2>1, <2>2, <2>3, <2>4, <2>5, <2>6, <2>7, <2>8, <2>9, <2>10,
             <2>11, <2>12, <2>13, <2>14, <2>15, <2>16 DEF Parent
<1>2. ASSUME NEW w \in Workers, Worker(w) PROVE EnvelopeInv'
  <2> USE DEF Goto
  <2>1. CASE EnterConsume(w) BY <2>1 DEF EnterConsume
  <2>2. CASE ConsumeAgain(w) BY <2>2 DEF ConsumeAgain
  <2>3. CASE CheckBeforePut(w) BY <2>3 DEF CheckBeforePut
  <2>4. CASE Put(w) BY <2>4 DEF Put
  <2>5. CASE Wake(w) BY <2>5 DEF Wake
  <2>6. CASE Recheck(w) BY <2>6 DEF Recheck
  <2>7. CASE StartDispatch(w) BY <2>7, StampFrame DEF StartDispatch
  <2>8. CASE Finish(w) BY <2>8 DEF Finish, ExecuteOutcomes, Enveloped
  <2> QED BY <1>2, <2>1, <2>2, <2>3, <2>4, <2>5, <2>6, <2>7, <2>8
          DEF Worker, Consuming
<1>3. CASE RequestCancel BY <1>3 DEF RequestCancel
<1>4. CASE DeadlinePasses BY <1>4 DEF DeadlinePasses
<1>5. CASE UNCHANGED vars BY <1>5 DEF vars
<1> QED BY <1>1, <1>2, <1>3, <1>4, <1>5 DEF Next

\* The strengthening that makes the batch's safety properties inductive.
THEOREM Inductive == Spec => []IInv
<1>1. Init => IInv
  <2>1. Init => BarrierInv /\ QuietInv /\ EnvelopeInv
    BY DEF Init, BarrierInv, QuietInv, EnvelopeInv, HandedIn, CompletedWasDispatched, AllYes
  <2> QED BY <2>1, InitTyped DEF IInv
<1>2. IInv /\ [Next]_vars => IInv'
  BY StepTyped, StepBarrier, StepQuiet, StepEnvelope DEF IInv
<1> QED BY <1>1, <1>2, PTL DEF Spec

\* Nothing external starts before both preparations were collected and approved.
THEOREM DispatchSafe == Spec => []DispatchNeedsBoth
<1>1. IInv => DispatchNeedsBoth
  BY DEF IInv, BarrierInv, DispatchNeedsBoth, AllYes
<1> QED BY <1>1, Inductive, PTL

\* The parent writes its state only while every worker is parked in consume.
THEOREM PrepareSafe == Spec => []WorkersParkedDuringPrepare
<1>1. IInv => WorkersParkedDuringPrepare
  BY DEF IInv, QuietInv, WorkersParkedDuringPrepare, HandedIn
<1> QED BY <1>1, Inductive, PTL

\* A completed envelope always comes from a worker that dispatched.
THEOREM CompletionSafe == Spec => []CompletedWasDispatched
<1>1. IInv => CompletedWasDispatched
  BY DEF IInv, EnvelopeInv
<1> QED BY <1>1, Inductive, PTL

-----------------------------------------------------------------------------
(* The batch implements the barrier: every step of a thread is a step of      *)
(* DispatchBarrier, or one that its caller cannot see.                        *)

\* A gate that is open says what the parent decided, and no other gate says otherwise.
GateInv ==
  /\ \A w \in Workers : gate[w].accepted => gate[w].event
  /\ phase = "open" => \A w \in Workers : gate[w].event => gate[w].accepted = accepted

\* One lemma for the steps that leave the gates alone.
LEMMA GatesKept ==
  ASSUME TypeOK, QuietInv, GateInv, gate' = gate,
         phase' = "open" =>
           \/ phase = "open" /\ accepted' = accepted
           \/ phase \in {"accept", "prepare"}
  PROVE  GateInv'
BY DEF GateInv, QuietInv

\* Every step keeps them.
LEMMA StepGates == TypeOK /\ QuietInv /\ GateInv /\ [Next]_vars => GateInv'
<1> SUFFICES ASSUME TypeOK, QuietInv, GateInv, [Next]_vars PROVE GateInv'
  OBVIOUS
<1> USE DEF parentVars, workerVars, envVars
<1>1. CASE Parent
  <2>1. CASE CollectLoop \/ TakeMessage \/ CheckWorkers \/ AcceptBoth \/ PrepareRaises
              \/ DecideBatch \/ (\E w \in Workers : Prepare(w))
    BY <2>1, GatesKept
    DEF CollectLoop, TakeMessage, CheckWorkers, AcceptBoth, PrepareRaises, DecideBatch, Prepare
  <2>2. ASSUME NEW w \in Workers, OpenGate(w) PROVE GateInv'
    <3>1. \A v \in Workers : v # w => gate'[v] = gate[v]
      BY <2>2 DEF OpenGate, TypeOK
    <3>2. gate[w] \in [event : BOOLEAN, accepted : BOOLEAN, started : BOOLEAN]
          /\ gate'[w] = [gate[w] EXCEPT !.event = TRUE, !.accepted = accepted]
      BY <2>2 DEF OpenGate, TypeOK
    <3>3. gate'[w].event = TRUE /\ gate'[w].accepted = accepted BY <3>2
    <3>4. phase = "open" /\ accepted' = accepted BY <2>2 DEF OpenGate
    <3> QED BY <3>1, <3>3, <3>4 DEF GateInv
  <2>3. CASE AwaitWorkers \/ EndGrace \/ ReportStopped \/ ReportResults \/ Reply \/ Close
              \/ CancelRunning
    BY <2>3, GatesKept
    DEF AwaitWorkers, EndGrace, ReportStopped, ReportResults, Report, Reply, Close, CancelRunning
  <2>4. CASE ReleaseGates
    <3>1. \A w \in Workers : gate'[w].accepted = gate[w].accepted /\ gate'[w].event = TRUE
      BY <2>4 DEF ReleaseGates, TypeOK
    <3> QED BY <3>1, <2>4 DEF ReleaseGates, GateInv
  <2> QED BY <1>1, <2>1, <2>2, <2>3, <2>4 DEF Parent
<1>2. ASSUME NEW w \in Workers, Worker(w) PROVE GateInv'
  <2>1. phase' = phase /\ accepted' = accepted
    BY <1>2 DEF Worker, Consuming, EnterConsume, ConsumeAgain, CheckBeforePut, Put, Wake, Recheck,
                StartDispatch, Finish
  <2>2. CASE StartDispatch(w) BY <2>1, <2>2, StampFrame DEF GateInv
  <2>3. CASE gate' = gate BY <2>1, <2>3, GatesKept
  <2> QED BY <1>2, <2>2, <2>3 DEF Worker, Consuming, EnterConsume, ConsumeAgain, CheckBeforePut,
                                  Put, Wake, Recheck, Finish
<1>3. CASE RequestCancel \/ DeadlinePasses \/ UNCHANGED vars
  BY <1>3, GatesKept DEF RequestCancel, DeadlinePasses, vars
<1> QED BY <1>1, <1>2, <1>3 DEF Next

Started == {w \in Workers : gate[w].started}

\* The names in a queue.
Names(q) == {q[i] : i \in DOMAIN q}

\* Taking the head off a queue takes one name off it.
LEMMA TailNames ==
  ASSUME NEW S, NEW q \in Seq(S), q # <<>>
  PROVE  Names(q) = {Head(q)} \union Names(Tail(q))
<1> DEFINE t == Tail(q)
           n == Len(q)
<1>1. n \in Nat /\ n > 0 /\ DOMAIN q = 1..n /\ Head(q) = q[1] OBVIOUS
<1>2. t \in Seq(S) /\ DOMAIN t = 1..(n - 1) /\ \A i \in 1..(n - 1) : t[i] = q[i + 1]
  OBVIOUS
<1> HIDE DEF t, n
<1>3. ASSUME NEW i \in 1..n PROVE q[i] = q[1] \/ \E k \in 1..(n - 1) : t[k] = q[i]
  <2>1. CASE i = 1 BY <2>1
  <2>2. CASE i # 1
    <3>1. i - 1 \in 1..(n - 1) /\ t[i - 1] = q[i] BY <1>1, <1>2, <2>2
    <3> QED BY <3>1
  <2> QED BY <2>1, <2>2
<1>4. ASSUME NEW k \in 1..(n - 1) PROVE \E i \in 1..n : q[i] = t[k]
  <2>1. k + 1 \in 1..n /\ q[k + 1] = t[k] BY <1>1, <1>2
  <2> QED BY <2>1
<1>5. \E i \in 1..n : q[i] = q[1] BY <1>1
<1>6. \A x : x \in Names(q) <=> \E i \in 1..n : q[i] = x BY <1>1 DEF Names
<1>7. \A x : x \in Names(t) <=> \E k \in 1..(n - 1) : t[k] = x BY <1>2 DEF Names
<1>8. \A x : x \in Names(q) <=> x = q[1] \/ x \in Names(t)
  BY <1>3, <1>4, <1>5, <1>6, <1>7
<1> QED BY <1>1, <1>8 DEF t

\* Appending to a queue adds one name.
LEMMA AppendNames ==
  ASSUME NEW S, NEW q \in Seq(S), NEW e \in S
  PROVE  Names(Append(q, e)) = Names(q) \union {e}
<1> DEFINE a == Append(q, e)
           n == Len(q)
<1>1. n \in Nat /\ DOMAIN q = 1..n OBVIOUS
<1>2. DOMAIN a = 1..(n + 1) /\ a[n + 1] = e /\ \A i \in 1..n : a[i] = q[i]
  OBVIOUS
<1> HIDE DEF a, n
<1>3. \A i \in 1..(n + 1) : i \in 1..n \/ i = n + 1 BY <1>1
<1>4. /\ \A i \in 1..n : i \in 1..(n + 1)
      /\ n + 1 \in 1..(n + 1)
  BY <1>1
<1>6. \A x : x \in Names(q) <=> \E i \in 1..n : q[i] = x BY <1>1 DEF Names
<1>7. \A x : x \in Names(a) <=> \E i \in 1..(n + 1) : a[i] = x BY <1>2 DEF Names
<1>8. \A x : x \in Names(a) <=> x = e \/ x \in Names(q)
  BY <1>2, <1>3, <1>4, <1>6, <1>7
<1> QED BY <1>8 DEF a

\* The queue and the collected names together lose nothing when a message is taken.
LEMMA TakeKeeps == ASSUME TypeOK, TakeMessage PROVE HandedIn' = HandedIn
<1>0. HandedIn = preparations \union Names(messages) BY DEF HandedIn, Names
<1>1. HandedIn' = preparations' \union Names(messages') BY DEF HandedIn, Names
<1>2. CASE messages = <<>> BY <1>2 DEF TakeMessage, HandedIn
<1>3. CASE messages # <<>>
  <2>1. Names(messages) = {Head(messages)} \union Names(Tail(messages))
    BY <1>3, TailNames DEF TypeOK
  <2>2. messages' = Tail(messages) /\ preparations' = preparations \union {Head(messages)}
    BY <1>3 DEF TakeMessage
  <2> QED BY <1>0, <1>1, <2>1, <2>2
<1> QED BY <1>2, <1>3

\* Putting a message hands in the worker's name.
LEMMA PutHandsIn ==
  ASSUME TypeOK, NEW w \in Workers, Put(w) PROVE HandedIn' = HandedIn \union {w}
<1>0. HandedIn = preparations \union Names(messages) BY DEF HandedIn, Names
<1>1. HandedIn' = preparations' \union Names(messages') BY DEF HandedIn, Names
<1>2. Names(Append(messages, w)) = Names(messages) \union {w} BY AppendNames DEF TypeOK
<1>3. messages' = Append(messages, w) /\ preparations' = preparations
  BY DEF Put, parentVars
<1> QED BY <1>0, <1>1, <1>2, <1>3

\* Who has not put its preparation has not handed in.
NotYet == \A w \in Workers : pc[w] \in {"preparing", "checking", "putting"} => w \notin HandedIn

\* Nobody hands in twice, because nobody comes back to where it hands in.
LEMMA StepNotYet == TypeOK /\ NotYet /\ [Next]_vars => NotYet'
<1> SUFFICES ASSUME TypeOK, NotYet, [Next]_vars PROVE NotYet'
  OBVIOUS
<1> USE DEF parentVars, workerVars, envVars
<1>1. CASE Parent
  <2>1. pc' = pc
    BY <1>1 DEF Parent, CollectLoop, TakeMessage, CheckWorkers, AcceptBoth, PrepareRaises,
         DecideBatch, Prepare, OpenGate, AwaitWorkers, EndGrace, ReportStopped, ReportResults,
         Report, Reply, Close, CancelRunning, ReleaseGates
  <2>2. HandedIn' = HandedIn
    <3>1. CASE TakeMessage BY <3>1, TakeKeeps
    <3>2. CASE ~TakeMessage
      BY <1>1, <3>2 DEF HandedIn, Parent, CollectLoop, CheckWorkers, AcceptBoth, PrepareRaises,
           DecideBatch, Prepare, OpenGate, AwaitWorkers, EndGrace, ReportStopped, ReportResults,
           Report, Reply, Close, CancelRunning, ReleaseGates
    <3> QED BY <3>1, <3>2
  <2> QED BY <2>1, <2>2 DEF NotYet
<1>2. ASSUME NEW w \in Workers, Worker(w) PROVE NotYet'
  <2>1. CASE Put(w)
    <3>1. HandedIn' = HandedIn \union {w} BY <2>1, PutHandsIn
    <3>2. pc'[w] = "parked" /\ \A v \in Workers : v # w => pc'[v] = pc[v]
      BY <2>1 DEF Put, Goto, TypeOK
    <3> QED BY <3>1, <3>2 DEF NotYet
  <2>2. CASE ~Put(w)
    <3>1. HandedIn' = HandedIn
      BY <1>2, <2>2 DEF HandedIn, Worker, Consuming, EnterConsume, ConsumeAgain, CheckBeforePut, Wake,
           Recheck, StartDispatch, Finish
    <3>2. \A v \in Workers : pc'[v] \in {"preparing", "checking", "putting"} =>
            pc[v] \in {"preparing", "checking", "putting"}
      BY <1>2, <2>2 DEF Worker, Consuming, EnterConsume, ConsumeAgain, CheckBeforePut, Wake,
           Recheck, StartDispatch, Finish, Goto, TypeOK
    <3> QED BY <3>1, <3>2 DEF NotYet
  <2> QED BY <2>1, <2>2
<1>3. CASE RequestCancel \/ DeadlinePasses \/ UNCHANGED vars
  BY <1>3 DEF RequestCancel, DeadlinePasses, vars, NotYet, HandedIn
<1> QED BY <1>1, <1>2, <1>3 DEF Next

\* What a caller sees when nobody hands in or goes on: it is asked, and only while nobody
\* has gone on; it answers; the batch is shut; or nothing.
LEMMA Decides ==
  ASSUME IInv, GateInv, IInv', gate' = gate, HandedIn' = HandedIn, WentOn' = WentOn,
         phase \in {"close", "stop", "release", "returned"} =>
           phase' \in {"close", "stop", "release", "returned"}
  PROVE  [Barrier!Next]_(Barrier!vars)
<1>1. Started' = Started BY DEF Started
<1>2. \/ Decision' = Decision
      \/ (Decision = "pending" /\ Decision' = "shut" /\ phase' # "prepare")
  BY DEF Decision
<1>3. CASE Decision' = Decision /\ (phase' = "prepare" <=> phase = "prepare")
  BY <1>1, <1>3 DEF Barrier!vars, Started
<1>4. CASE Decision = "pending" /\ Decision' = "shut" /\ phase' # "prepare"
  BY <1>1, <1>4 DEF Barrier!Next, Barrier!Decide, Barrier!Shut, Started
<1>5. CASE Decision' = Decision /\ phase' = "prepare" /\ phase # "prepare"
  <2>1. /\ ~cancelled' /\ ~closed' /\ preparations' = Workers
        /\ \A w \in Workers : ~gate[w].event
    BY <1>5 DEF IInv, QuietInv
  <2>2. HandedIn = Workers
    <3>1. HandedIn' = preparations' \union {messages'[i] : i \in DOMAIN messages'}
      BY DEF HandedIn
    <3>2. Workers \subseteq HandedIn' BY <2>1, <3>1
    <3>3. messages \in Seq(Workers) /\ preparations \subseteq Workers BY DEF IInv, TypeOK
    <3>4. HandedIn \subseteq Workers BY <3>3 DEF HandedIn
    <3> QED BY <3>2, <3>4
  <2>3. WentOn = {}
    <3>1. \A w \in HandedIn' : pc'[w] = "parked"
      BY <2>1, <2>2 DEF IInv, QuietInv
    <3> QED BY <3>1 DEF WentOn
  <2>4. Decision = "pending" BY <1>5, <2>1 DEF Decision, GateInv
  <2> QED BY <1>1, <1>5, <2>2, <2>3, <2>4 DEF Barrier!Next, Barrier!Ask, Started
<1>6. CASE Decision' = Decision /\ phase' # "prepare" /\ phase = "prepare"
  BY <1>1, <1>6 DEF Barrier!Next, Barrier!Answer, Started
<1> QED BY <1>2, <1>3, <1>4, <1>5, <1>6

\* Every step of the batch is a step of the barrier or none at all.
LEMMA StepRefines ==
  IInv /\ GateInv /\ NotYet /\ IInv' /\ [Next]_vars => [Barrier!Next]_(Barrier!vars)
<1> SUFFICES ASSUME IInv, GateInv, NotYet, IInv', [Next]_vars
             PROVE  [Barrier!Next]_(Barrier!vars)
  OBVIOUS
<1>0. UNCHANGED pc /\ HandedIn' = HandedIn => WentOn' = WentOn BY DEF WentOn
<1> USE DEF parentVars, workerVars, envVars
<1>1. CASE Parent
  <2>1. CASE CollectLoop \/ CheckWorkers \/ AcceptBoth \/ PrepareRaises \/ DecideBatch
              \/ (\E w \in Workers : Prepare(w))
    <3>1. gate' = gate /\ HandedIn' = HandedIn /\ UNCHANGED pc
          /\ phase \notin {"close", "stop", "release", "returned"}
      BY <2>1 DEF CollectLoop, CheckWorkers, AcceptBoth, PrepareRaises, DecideBatch, Prepare,
                  HandedIn
    <3> QED BY <1>0, <3>1, Decides
  <2>2. CASE TakeMessage BY <1>0, <2>2, Decides, TakeKeeps DEF TakeMessage, IInv
  <2>3. ASSUME NEW w \in Workers, OpenGate(w) PROVE [Barrier!Next]_(Barrier!vars)
    <3> USE DEF IInv, TypeOK
    <3>1. /\ \A v \in Workers : v # w => gate'[v] = gate[v]
          /\ gate[w] \in [event : BOOLEAN, accepted : BOOLEAN, started : BOOLEAN]
          /\ gate'[w] = [gate[w] EXCEPT !.event = TRUE, !.accepted = accepted]
          /\ phase = "open" /\ ~gate[w].event /\ accepted \in BOOLEAN
      BY <2>3 DEF OpenGate
    <3>2. /\ gate'[w].event = TRUE /\ gate'[w].accepted = accepted
          /\ gate'[w].started = gate[w].started
      BY <3>1
    <3>3. Started' = Started BY <3>1, <3>2 DEF Started
    <3>4. HandedIn' = HandedIn BY <2>3 DEF OpenGate, HandedIn
    <3>7. WentOn' = WentOn /\ phase # "prepare" /\ phase' # "prepare"
      BY <1>0, <2>3, <3>4 DEF OpenGate
    <3>5. CASE accepted
      <4>1. preparations = Workers BY <3>1, <3>5 DEF BarrierInv
      <4>2. HandedIn = Workers BY <4>1 DEF HandedIn
      <4>3. Decision' = "open" BY <3>2, <3>5 DEF Decision
      <4>4. Decision \in {"pending", "open"}
        BY <3>1, <3>5 DEF Decision, GateInv
      <4> QED BY <3>3, <3>4, <3>7, <4>2, <4>3, <4>4
              DEF Barrier!Next, Barrier!Decide, Barrier!Open, Barrier!vars, Started
    <3>6. CASE ~accepted
      <4>1. \A v \in Workers : ~gate[v].accepted /\ ~gate'[v].accepted
        BY <3>1, <3>2, <3>6 DEF GateInv
      <4>2. Decision' = "shut" /\ Decision \in {"pending", "shut"} BY <3>2, <4>1 DEF Decision
      <4> QED BY <3>3, <3>4, <3>7, <4>2
              DEF Barrier!Next, Barrier!Decide, Barrier!Shut, Barrier!vars, Started
    <3> QED BY <3>1, <3>5, <3>6
  <2>4. CASE AwaitWorkers \/ EndGrace \/ ReportStopped \/ ReportResults \/ Reply \/ Close
              \/ CancelRunning
    <3>1. /\ gate' = gate /\ HandedIn' = HandedIn /\ UNCHANGED pc
          /\ phase \in {"close", "stop", "release", "returned"} =>
               phase' \in {"close", "stop", "release", "returned"}
      BY <2>4 DEF AwaitWorkers, EndGrace, ReportStopped, ReportResults, Report, Reply, Close,
                  CancelRunning, HandedIn
    <3> QED BY <1>0, <3>1, Decides
  <2>5. CASE ReleaseGates
    <3>1. /\ \A w \in Workers : /\ gate'[w].accepted = gate[w].accepted
                                /\ gate'[w].started = gate[w].started
          /\ HandedIn' = HandedIn /\ phase = "release" /\ phase' = "returned" /\ UNCHANGED pc
      BY <2>5 DEF ReleaseGates, IInv, TypeOK, HandedIn
    <3>2. Started' = Started BY <3>1 DEF Started
    <3>3. Decision' = Decision BY <3>1 DEF Decision
    <3> QED BY <1>0, <3>1, <3>2, <3>3 DEF Barrier!vars, Started
  <2> QED BY <1>1, <2>1, <2>2, <2>3, <2>4, <2>5 DEF Parent
<1>2. ASSUME NEW w \in Workers, Worker(w) PROVE [Barrier!Next]_(Barrier!vars)
  <2>1. phase' = phase
    BY <1>2 DEF Worker, Consuming, EnterConsume, ConsumeAgain, CheckBeforePut, Put, Wake, Recheck,
                StartDispatch, Finish
  <2>2. CASE StartDispatch(w)
    <3>1. \A v \in Workers : /\ gate'[v].accepted = gate[v].accepted
                             /\ gate'[v].event = gate[v].event
                             /\ gate'[v].started = (gate[v].started \/ v = w)
      BY <2>2, StampFrame DEF IInv
    <3>2. Decision' = Decision BY <2>1, <3>1 DEF Decision
    <3>3. gate[w].accepted BY <2>2 DEF StartDispatch, Goto, IInv, BarrierInv
    <3>4. Decision = "open" BY <3>3 DEF Decision
    <3>5. HandedIn' = HandedIn BY <2>2 DEF StartDispatch, HandedIn
    <3>6. Started' = Started \union {w} BY <3>1 DEF Started
    <3>9. WentOn' = WentOn BY <2>2, <3>5 DEF StartDispatch, Goto, WentOn, IInv, TypeOK
    <3>7. CASE w \in Started
      BY <2>1, <3>2, <3>5, <3>6, <3>7, <3>9 DEF Barrier!vars, Started
    <3>8. CASE w \notin Started
      BY <2>1, <3>2, <3>4, <3>5, <3>6, <3>8, <3>9 DEF Barrier!Next, Barrier!Dispatch, Started
    <3> QED BY <3>7, <3>8
  <2>3. CASE Put(w)
    <3>1. gate' = gate /\ HandedIn' = HandedIn \union {w}
      BY <2>3, PutHandsIn DEF Put, IInv
    <3>2. Decision' = Decision /\ Started' = Started BY <2>1, <3>1 DEF Decision, Started
    <3>3. w \notin HandedIn BY <2>3 DEF Put, Goto, NotYet
    <3>4. pc'[w] = "parked" /\ \A v \in Workers : v # w => pc'[v] = pc[v]
      BY <2>3 DEF Put, Goto, IInv, TypeOK
    <3>5. HandedIn \subseteq Workers
      <4>1. messages \in Seq(Workers) /\ preparations \subseteq Workers BY DEF IInv, TypeOK
      <4> QED BY <4>1 DEF HandedIn
    <3>6. WentOn' = WentOn BY <3>1, <3>3, <3>4, <3>5 DEF WentOn
    <3> QED BY <2>1, <3>1, <3>2, <3>3, <3>6 DEF Barrier!Next, Barrier!HandIn, Started
  <2>4. CASE Wake(w)
    <3>1. gate' = gate /\ HandedIn' = HandedIn BY <2>4 DEF Wake, HandedIn
    <3>2. Decision' = Decision /\ Started' = Started BY <2>1, <3>1 DEF Decision, Started
    <3>3. pc'[w] # "parked" /\ \A v \in Workers : v # w => pc'[v] = pc[v]
      BY <2>4 DEF Wake, Goto, IInv, TypeOK
    <3>4. HandedIn \subseteq Workers
      <4>1. messages \in Seq(Workers) /\ preparations \subseteq Workers BY DEF IInv, TypeOK
      <4> QED BY <4>1 DEF HandedIn
    <3>5. phase # "prepare" /\ pc[w] = "parked" BY <2>4 DEF Wake, Goto, IInv, QuietInv
    <3>6. CASE w \in HandedIn
      <4>1. w \notin WentOn /\ WentOn' = WentOn \union {w}
        BY <3>1, <3>3, <3>4, <3>5, <3>6 DEF WentOn
      <4> QED BY <2>1, <3>1, <3>2, <3>5, <3>6, <4>1 DEF Barrier!Next, Barrier!GoOn, Started
    <3>7. CASE w \notin HandedIn
      <4>1. WentOn' = WentOn BY <3>1, <3>3, <3>4, <3>7 DEF WentOn
      <4> QED BY <2>1, <3>1, <3>2, <4>1 DEF Barrier!vars, Started
    <3> QED BY <3>6, <3>7
  <2>5. CASE EnterConsume(w) \/ ConsumeAgain(w) \/ CheckBeforePut(w) \/ Recheck(w) \/ Finish(w)
    <3>1. gate' = gate /\ HandedIn' = HandedIn
      BY <2>5 DEF EnterConsume, ConsumeAgain, CheckBeforePut, Recheck, Finish, HandedIn
    <3>2. \A v \in Workers : (pc'[v] = "parked") <=> (pc[v] = "parked")
      BY <2>5 DEF EnterConsume, ConsumeAgain, CheckBeforePut, Recheck, Finish, Goto, IInv, TypeOK
    <3>3. HandedIn \subseteq Workers
      <4>1. messages \in Seq(Workers) /\ preparations \subseteq Workers BY DEF IInv, TypeOK
      <4> QED BY <4>1 DEF HandedIn
    <3>4. WentOn' = WentOn BY <3>1, <3>2, <3>3 DEF WentOn
    <3> QED BY <2>1, <3>1, <3>4, Decides
  <2> QED BY <1>2, <2>2, <2>3, <2>4, <2>5 DEF Worker, Consuming
<1>3. CASE RequestCancel \/ DeadlinePasses \/ UNCHANGED vars
  <2>1. gate' = gate /\ HandedIn' = HandedIn /\ phase' = phase /\ UNCHANGED pc
    BY <1>3 DEF RequestCancel, DeadlinePasses, vars, HandedIn
  <2> QED BY <1>0, <2>1, Decides
<1> QED BY <1>1, <1>2, <1>3 DEF Next

\* For every set of workers, run_isolated_batch does what its caller is promised: one decision,
\* open only when all have handed in, dispatches behind it only, and nobody who handed in goes
\* on while prepare runs.
THEOREM BatchIsBarrier == Spec => Barrier!SafeSpec
<1>1. Init => GateInv /\ NotYet BY DEF Init, GateInv, NotYet, HandedIn
<1>2. Init => Barrier!Init BY DEF Init, Barrier!Init, Decision, HandedIn, WentOn
<1>3. Spec => []GateInv /\ []NotYet
  <2>1. IInv => TypeOK /\ QuietInv BY DEF IInv
  <2> QED BY <1>1, <2>1, StepGates, StepNotYet, Inductive, PTL DEF Spec
<1> QED BY <1>2, <1>3, StepRefines, Inductive, PTL DEF Spec, Barrier!SafeSpec
=============================================================================
