---------------------------- MODULE RuntimeLease -----------------------------
(***************************************************************************)
(* RuntimeProjectLease (runtime/execution_control/resource_lease.py): the   *)
(* lease of one Project, held while an Editor task runs.                    *)
(*                                                                         *)
(* The lease is a directory.  Whoever makes it holds the lease, puts a      *)
(* record into it and starts a thread that rewrites the record at every     *)
(* heartbeat.  The release waits for the thread, but not for ever.  Owners  *)
(* are uses of the class (a token each), in any processes; they share       *)
(* nothing but the directory, and every access to it is a step.             *)
(***************************************************************************)
EXTENDS FiniteSets

CONSTANTS Owners, NoOne

ASSUME NoOneElse == NoOne \notin Owners

VARIABLES
  main,     \* where the `with' statement of an owner is
  writer,   \* where its _write_record is; started by __enter__, then by the thread
  owned,    \* its _owned flag
  late,     \* the owners whose join timed out
  dir,      \* who made the directory that exists now
  record,   \* whose token is in its lease.json
  temps     \* whose temporary file is in it

vars == <<main, writer, owned, late, dir, record, temps>>

MainSteps == {"idle", "refused", "recording", "working", "joining", "reading",
              "unlinking", "removing", "released", "error", "dead"}
WriterSteps == {"none", "begin", "token", "temp", "replace", "waiting", "ended"}

\* The thread is there as long as it was started and has not returned.
Threaded(o) == writer[o] \notin {"none", "ended"} /\ main[o] # "recording"

Init ==
  /\ main = [o \in Owners |-> "idle"] /\ writer = [o \in Owners |-> "none"]
  /\ owned = [o \in Owners |-> FALSE] /\ late = {}
  /\ dir = NoOne /\ record = NoOne /\ temps = {}

-----------------------------------------------------------------------------
(* __enter__                                                                *)

EnterShared(o) ==   \* mutant: mkdir(exist_ok=True)
  /\ main[o] = "idle"
  /\ dir' = o
  /\ main' = [main EXCEPT ![o] = "recording"]
  /\ writer' = [writer EXCEPT ![o] = "begin"]
  /\ owned' = [owned EXCEPT ![o] = TRUE]
  /\ UNCHANGED <<late, record, temps>>

\* mkdir succeeds for one; a directory that is there, or any other error, refuses.
Enter(o) ==
  /\ main[o] = "idle"
  /\ \/ /\ main' = [main EXCEPT ![o] = "refused"]
        /\ UNCHANGED <<writer, owned, dir>>
     \/ /\ dir = NoOne
        /\ dir' = o
        /\ main' = [main EXCEPT ![o] = "recording"]
        /\ writer' = [writer EXCEPT ![o] = "begin"]
        /\ owned' = [owned EXCEPT ![o] = TRUE]
  /\ UNCHANGED <<late, record, temps>>

\* The first record is there; the thread starts, or cannot be started and __exit__
\* fails on joining it.
StartHeartbeat(o) ==
  /\ main[o] = "recording" /\ writer[o] = "waiting"
  /\ \/ main' = [main EXCEPT ![o] = "working"] /\ UNCHANGED writer
     \/ main' = [main EXCEPT ![o] = "error"] /\ writer' = [writer EXCEPT ![o] = "none"]
  /\ UNCHANGED <<owned, late, dir, record, temps>>

-----------------------------------------------------------------------------
(* _write_record, called by __enter__ and by the thread.                    *)

To(o, step) == writer' = [writer EXCEPT ![o] = step]

\* A failed write ends the thread; in __enter__ it leads to the release.
WriteFails(o) ==
  IF main[o] = "recording"
  THEN To(o, "none") /\ main' = [main EXCEPT ![o] = "reading"] /\ owned' = [owned EXCEPT ![o] = FALSE]
  ELSE To(o, "ended") /\ UNCHANGED <<main, owned>>

\* Any access to the directory may fail.
WriteError(o) ==
  /\ writer[o] \in {"token", "temp", "replace"}
  /\ WriteFails(o)
  /\ temps' = temps \ {o}
  /\ UNCHANGED <<late, dir, record>>

WriteBegin(o) ==
  /\ writer[o] = "begin"
  /\ IF owned[o] THEN To(o, "token") /\ UNCHANGED <<main, owned>> ELSE WriteFails(o)
  /\ UNCHANGED <<late, dir, record, temps>>

\* A record that names another owner is not overwritten.
WriteToken(o) ==
  /\ writer[o] = "token"
  /\ IF record \in {NoOne, o} THEN To(o, "temp") /\ UNCHANGED <<main, owned>> ELSE WriteFails(o)
  /\ UNCHANGED <<late, dir, record, temps>>

WriteTemp(o) ==
  /\ writer[o] = "temp"
  /\ IF dir # NoOne
     THEN To(o, "replace") /\ temps' = temps \union {o} /\ UNCHANGED <<main, owned>>
     ELSE WriteFails(o) /\ UNCHANGED temps
  /\ UNCHANGED <<late, dir, record>>

WriteReplace(o) ==
  /\ writer[o] = "replace"
  /\ record' = o
  /\ temps' = temps \ {o}
  /\ To(o, "waiting")
  /\ UNCHANGED <<main, owned, late, dir>>

\* The thread between two heartbeats: it writes, or it sees the stop event.
Pulse(o) ==
  /\ writer[o] = "waiting" /\ main[o] # "recording"
  /\ To(o, IF main[o] = "working" THEN "begin" ELSE "ended")
  /\ UNCHANGED <<main, owned, late, dir, record, temps>>

-----------------------------------------------------------------------------
(* __exit__                                                                 *)

Exit(o) ==
  /\ main[o] = "working"
  /\ main' = [main EXCEPT ![o] = "joining"]   \* the stop event
  /\ UNCHANGED <<writer, owned, late, dir, record, temps>>

JoinNobody(o) ==   \* mutant: the thread is not waited for
  /\ main[o] = "joining"
  /\ main' = [main EXCEPT ![o] = "reading"]
  /\ owned' = [owned EXCEPT ![o] = FALSE]
  /\ UNCHANGED <<writer, late, dir, record, temps>>

\* join comes back when the thread has ended, or after heartbeat_seconds + 1.
Join(o) ==
  /\ main[o] = "joining"
  /\ late' = IF Threaded(o) THEN late \union {o} ELSE late
  /\ main' = [main EXCEPT ![o] = "reading"]
  /\ owned' = [owned EXCEPT ![o] = FALSE]
  /\ UNCHANGED <<writer, dir, record, temps>>

Release(o, next, done) ==
  main' \in {[main EXCEPT ![o] = "error"]} \union (IF done THEN {[main EXCEPT ![o] = next]} ELSE {})

\* Whatever fails from here on is reported and leaves the rest to a person.
ReadRecord(o) ==
  /\ main[o] = "reading"
  /\ Release(o, "unlinking", record = o)
  /\ UNCHANGED <<writer, owned, late, dir, record, temps>>

Unlink(o) ==
  /\ main[o] = "unlinking"
  /\ Release(o, "removing", record # NoOne)
  /\ record' = IF main'[o] = "removing" THEN NoOne ELSE record
  /\ UNCHANGED <<writer, owned, late, dir, temps>>

RemoveDir(o) ==
  /\ main[o] = "removing"
  /\ Release(o, "released", dir # NoOne /\ record = NoOne /\ temps = {})
  /\ dir' = IF main'[o] = "released" THEN NoOne ELSE dir
  /\ UNCHANGED <<writer, owned, late, record, temps>>

\* The process of an owner dies, with both of its threads.
Crash(o) ==
  /\ main[o] \notin {"idle", "refused", "dead"}
  /\ main' = [main EXCEPT ![o] = IF @ = "released" THEN @ ELSE "dead"]
  /\ To(o, "ended")
  /\ UNCHANGED <<owned, late, dir, record, temps>>

Next ==
  \E o \in Owners :
    \/ Enter(o) \/ StartHeartbeat(o)
    \/ WriteBegin(o) \/ WriteToken(o) \/ WriteTemp(o) \/ WriteReplace(o) \/ WriteError(o)
    \/ Pulse(o)
    \/ Exit(o) \/ Join(o) \/ ReadRecord(o) \/ Unlink(o) \/ RemoveDir(o)
    \/ Crash(o)

Spec == Init /\ [][Next]_vars

-----------------------------------------------------------------------------
(* Properties.                                                              *)

\* Types; a directory that is gone holds no file.
TypeOK ==
  /\ main \in [Owners -> MainSteps] /\ writer \in [Owners -> WriterSteps]
  /\ owned \in [Owners -> BOOLEAN] /\ late \in SUBSET Owners
  /\ dir \in Owners \union {NoOne} /\ record \in Owners \union {NoOne}
  /\ temps \in SUBSET Owners
  /\ dir = NoOne => record = NoOne /\ temps = {}

Inside == {o \in Owners : main[o] \in {"recording", "working", "joining", "reading",
                                       "unlinking", "removing"}}

\* From the mkdir to the rmdir the directory is the owner's own, however slow its
\* heartbeat and whoever else dies: two Editor tasks never run side by side.
Exclusive == \A o \in Inside : dir = o

\* The directory goes only by the hand that made it: nobody reclaims a stale lease.
NeverReclaimed ==
  [][dir # NoOne /\ dir' # dir => dir' = NoOne /\ main[dir] = "removing"]_vars

\* A lease that outlives its owner has been reported: a release without an error
\* left no directory behind, also when a late heartbeat was still writing.
LeftoverReported == dir # NoOne => main[dir] \notin {"idle", "refused", "released"}

\* While an owner works the record names it, unless some join has timed out.
RecordNamesHolderInTime == late = {} => \A o \in Owners : main[o] = "working" => record = o

\* What the comment in _pulse promises: "Runtime never steals or deletes an
\* unverified lock".  While an owner works the record is its own.
RecordNamesHolder == \A o \in Owners : main[o] = "working" => record = o
=============================================================================
