--------------------------- MODULE ProcessRuntime ----------------------------
(***************************************************************************)
(* run_streaming_process (runtime/execution_control/process_runtime.py):    *)
(* one child process with a deadline, a cancellation, a text for its        *)
(* standard input, and two threads that drain its output (the pumps).       *)
(*                                                                         *)
(* The child does what it wants: it may read its input or not, write more   *)
(* than a pipe holds, leave descendants behind that keep its pipes open,    *)
(* ignore a polite signal, and end at any moment.  The caller, the pumps    *)
(* and the clock are fair; nothing is assumed of the child.                 *)
(***************************************************************************)
EXTENDS Naturals

VARIABLES
  posix,       \* the platform: killpg, or taskkill
  text,       \* stdin_text: "none", "small" (a pipe holds it), "large"
  caller,      \* where run_streaming_process is
  child,       \* the root process: "running", "blocked" on its output, "ended"
  reading,     \* the child has begun to read its input
  heirs,       \* its descendants: "none", "alive", "stubborn" (ignore a SIGTERM)
  pumping,     \* the pumps were started
  cancel,      \* the cancel event is set
  overdue,     \* the deadline has passed
  flag,        \* timed_out / cancelled of the result: "none" while neither
  signalled,   \* a signal or taskkill was sent
  cleanup      \* process_tree_cleanup of the result

processVars == <<posix, text, caller, child, reading, heirs, pumping, cancel, overdue,
                 flag, signalled, cleanup>>

ProcessInit ==
  /\ posix = TRUE /\ text = "none"
  /\ caller = "starting"
  /\ child = "running" /\ reading = FALSE /\ heirs = "none" /\ pumping = FALSE
  /\ cancel = FALSE /\ overdue = FALSE
  /\ flag = "none" /\ signalled = FALSE /\ cleanup = "not_required"

\* Both ends of the pipes are closed on the child's side.
Eof == child = "ended" /\ heirs = "none"

-----------------------------------------------------------------------------
(* The caller.                                                              *)

\* Popen: on one of the platforms, with one of the texts.
Start ==
  /\ caller = "starting"
  /\ caller' = "writing"
  /\ posix' \in BOOLEAN
  /\ text' \in {"none", "small", "large"}
  /\ UNCHANGED <<child, reading, heirs, pumping, cancel, overdue, flag, signalled, cleanup>>

\* The text is written before the pumps exist: what the pipe does not hold waits for the
\* child to read, and a child that has gone breaks the pipe, which raises.
WriteInput ==
  /\ caller = "writing"
  /\ \/ /\ \/ text = "none"
           \/ text = "small" /\ ~Eof
           \/ text = "large" /\ reading /\ child # "ended"
        /\ caller' = "watching" /\ pumping' = TRUE
     \/ /\ text # "none" /\ child = "ended"
        /\ caller' = "raised" /\ UNCHANGED pumping
  /\ UNCHANGED <<posix, text, child, reading, heirs, cancel, overdue, flag, signalled, cleanup>>

WatchOutputFirst ==   \* mutant: the loop waits for the pumps instead of the process
  /\ caller = "watching"
  /\ \/ Eof /\ caller' = "joining" /\ UNCHANGED flag
     \/ ~Eof /\ child = "ended" /\ UNCHANGED <<caller, flag>>
     \/ ~Eof /\ child # "ended" /\ cancel /\ caller' = "terminating" /\ flag' = "cancelled"
     \/ ~Eof /\ child # "ended" /\ ~cancel /\ overdue /\ caller' = "terminating" /\ flag' = "timed_out"
  /\ UNCHANGED <<posix, text, child, reading, heirs, pumping, cancel, overdue, signalled, cleanup>>

\* One turn of the loop: has it ended, is it cancelled, is the deadline over.
Watch ==
  /\ caller = "watching"
  /\ \/ child = "ended" /\ caller' = "joining" /\ UNCHANGED flag
     \/ child # "ended" /\ cancel /\ caller' = "terminating" /\ flag' = "cancelled"
     \/ child # "ended" /\ ~cancel /\ overdue /\ caller' = "terminating" /\ flag' = "timed_out"
  /\ UNCHANGED <<posix, text, child, reading, heirs, pumping, cancel, overdue, signalled, cleanup>>

\* _terminate_process_tree: nothing to do if it has ended meanwhile; SIGTERM for the group,
\* which whoever is not stubborn follows in its own time; or taskkill for the tree, which
\* may fail for any of it.
Terminate ==
  /\ caller = "terminating"
  /\ \/ /\ child = "ended"
        /\ caller' = "joining" /\ UNCHANGED <<child, heirs, signalled, cleanup>>
     \/ /\ child # "ended" /\ posix
        /\ signalled' = TRUE /\ caller' = "waiting"
        /\ heirs' = IF heirs = "alive" THEN "none" ELSE heirs
        /\ UNCHANGED <<child, cleanup>>
     \/ /\ child # "ended" /\ ~posix
        /\ signalled' = TRUE /\ caller' = "waiting"
        /\ \/ child' = "ended" /\ heirs' = "none" /\ cleanup' = "completed"
           \/ cleanup' = "forced_root_only" /\ UNCHANGED <<child, heirs>>
  /\ UNCHANGED <<posix, text, reading, pumping, cancel, overdue, flag>>

\* wait(2), or wait(5) on Windows: the root has ended in time, or not.
AwaitEnd ==
  /\ caller = "waiting"
  /\ \/ /\ child = "ended" /\ caller' = "joining"
        /\ cleanup' = IF posix THEN "completed" ELSE cleanup
     \/ /\ child # "ended" /\ caller' = "killing" /\ UNCHANGED cleanup
  /\ UNCHANGED <<posix, text, child, reading, heirs, pumping, cancel, overdue, flag, signalled>>

\* SIGKILL for the group, or kill for the root.
Kill ==
  /\ caller = "killing"
  /\ caller' = "reaping"
  /\ child' = "ended"
  /\ heirs' = IF posix THEN "none" ELSE heirs
  /\ UNCHANGED <<posix, text, reading, pumping, cancel, overdue, flag, signalled, cleanup>>

\* The last wait(5): a process the kernel holds on to makes it raise.
Reap ==
  /\ caller = "reaping"
  /\ \/ caller' = "joining" /\ cleanup' = IF posix THEN "completed" ELSE cleanup
     \/ caller' = "raised" /\ UNCHANGED cleanup
  /\ UNCHANGED <<posix, text, child, reading, heirs, pumping, cancel, overdue, flag, signalled>>

\* The pumps have seen the end of both pipes, or five seconds are over.
Join ==
  /\ caller = "joining"
  /\ caller' = "returned"
  /\ UNCHANGED <<posix, text, child, reading, heirs, pumping, cancel, overdue, flag, signalled, cleanup>>

Caller ==
  \/ Start \/ WriteInput \/ Watch \/ Terminate \/ AwaitEnd \/ Kill \/ Reap \/ Join

-----------------------------------------------------------------------------
(* The child, the clock, and whoever cancels.                               *)

ChildReads ==
  /\ child = "running" /\ ~reading
  /\ reading' = TRUE
  /\ UNCHANGED <<posix, text, caller, child, heirs, pumping, cancel, overdue, flag, signalled, cleanup>>

\* More output than a pipe holds: it waits until somebody drains the pipe.
ChildFillsPipe ==
  /\ child = "running" /\ ~pumping
  /\ child' = "blocked"
  /\ UNCHANGED <<posix, text, caller, reading, heirs, pumping, cancel, overdue, flag, signalled, cleanup>>

Drain ==
  /\ child = "blocked" /\ pumping
  /\ child' = "running"
  /\ UNCHANGED <<posix, text, caller, reading, heirs, pumping, cancel, overdue, flag, signalled, cleanup>>

ChildForks ==
  /\ child = "running" /\ heirs = "none"
  /\ heirs' \in {"alive", "stubborn"}
  /\ UNCHANGED <<posix, text, caller, child, reading, pumping, cancel, overdue, flag, signalled, cleanup>>

\* By itself, or because it follows a SIGTERM.
ChildEnds ==
  /\ child = "running" \/ (child = "blocked" /\ signalled)
  /\ child' = "ended"
  /\ UNCHANGED <<posix, text, caller, reading, heirs, pumping, cancel, overdue, flag, signalled, cleanup>>

HeirsEnd ==
  /\ heirs # "none" /\ heirs' = "none"
  /\ UNCHANGED <<posix, text, caller, child, reading, pumping, cancel, overdue, flag, signalled, cleanup>>

DeadlineIsOver ==
  /\ caller # "starting" /\ ~overdue /\ overdue' = TRUE
  /\ UNCHANGED <<posix, text, caller, child, reading, heirs, pumping, cancel, flag, signalled, cleanup>>

Cancel ==
  /\ caller # "starting" /\ ~cancel /\ cancel' = TRUE
  /\ UNCHANGED <<posix, text, caller, child, reading, heirs, pumping, overdue, flag, signalled, cleanup>>

Child ==
  /\ caller # "starting"
  /\ ChildReads \/ ChildFillsPipe \/ ChildForks \/ ChildEnds \/ HeirsEnd

ProcessNext == Caller \/ Child \/ Drain \/ DeadlineIsOver \/ Cancel

ProcessSpec == ProcessInit /\ [][ProcessNext]_processVars

\* The caller's thread and the pumps run, and time passes.
ProcessFairness ==
  /\ WF_processVars(Caller) /\ WF_processVars(Drain) /\ WF_processVars(DeadlineIsOver)

ProcessFairSpec == ProcessSpec /\ ProcessFairness

-----------------------------------------------------------------------------
(* Properties.                                                              *)

CallIsOver == caller \in {"returned", "raised"}

\* Once the child has its input, the call comes to an end within its bounds, whatever
\* the child and its descendants do with their pipes and their signals.
WatchedCallEnds == caller = "watching" ~> CallIsOver

\* The module's head calls it a bounded process runtime with a hard timeout: every
\* call ends, and not only those whose child takes its input.
EveryCallEnds == caller = "writing" ~> CallIsOver
=============================================================================
