--------------------------- MODULE DispatchBarrier ---------------------------
(***************************************************************************)
(* What a supervised two-worker batch promises its caller, with no threads, *)
(* queues or clocks: one decision is taken for the whole batch, it can only *)
(* be "open" once every worker has handed in its preparation, and a worker  *)
(* dispatches (starts external side effects) only behind an open barrier.   *)
(* The caller is asked about the preparations while every worker waits, and *)
(* none of them goes on before it has answered.                             *)
(* WorkerBatch is shown to implement this module.                           *)
(***************************************************************************)
CONSTANT Workers

VARIABLES decision,    \* "pending", "open" or "shut"
          ready,       \* workers whose preparation was handed to the parent
          gone,        \* workers that handed in and wait no longer
          asking,      \* the caller is being asked, and may write its own state
          dispatched   \* workers that were told to dispatch

vars == <<decision, ready, gone, asking, dispatched>>

TypeOK ==
  /\ decision \in {"pending", "open", "shut"}
  /\ ready \subseteq Workers /\ gone \subseteq ready
  /\ asking \in BOOLEAN
  /\ dispatched \subseteq Workers

Init ==
  /\ decision = "pending"
  /\ ready = {} /\ gone = {}
  /\ asking = FALSE
  /\ dispatched = {}

\* A worker may hand in its preparation at any time, even after the decision.
HandIn(w) ==
  /\ w \notin ready
  /\ ready' = ready \union {w}
  /\ UNCHANGED <<decision, gone, asking, dispatched>>

\* It goes on with the decision, or without one when the batch is stopped; but never
\* while the caller is asked.
GoOn(w) ==
  /\ w \in ready \ gone
  /\ ~asking
  /\ gone' = gone \union {w}
  /\ UNCHANGED <<decision, ready, asking, dispatched>>

Ask ==
  /\ decision = "pending" /\ ~asking
  /\ ready = Workers /\ gone = {}
  /\ asking' = TRUE
  /\ UNCHANGED <<decision, ready, gone, dispatched>>

Answer ==
  /\ asking
  /\ asking' = FALSE
  /\ UNCHANGED <<decision, ready, gone, dispatched>>

Open ==
  /\ decision = "pending" /\ ~asking
  /\ ready = Workers
  /\ decision' = "open"
  /\ UNCHANGED <<ready, gone, asking, dispatched>>

\* A caller that fails to answer shuts it, too.
Shut ==
  /\ decision = "pending"
  /\ decision' = "shut"
  /\ asking' = FALSE
  /\ UNCHANGED <<ready, gone, dispatched>>

Dispatch(w) ==
  /\ decision = "open"
  /\ w \notin dispatched
  /\ dispatched' = dispatched \union {w}
  /\ UNCHANGED <<decision, ready, gone, asking>>

Decide == Open \/ Shut

Next ==
  \/ Decide \/ Ask \/ Answer
  \/ \E w \in Workers : HandIn(w) \/ GoOn(w) \/ Dispatch(w)

\* What may happen, and that the decision is taken at last.
SafeSpec == Init /\ [][Next]_vars
Spec == SafeSpec /\ WF_vars(Decide)
=============================================================================
