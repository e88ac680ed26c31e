----------------------------- MODULE LeaseProofs -----------------------------
(***************************************************************************)
(* Machine-checked facts about the two kinds of leases: for every set of   *)
(* owners of RuntimeLease, the types, exclusion, that nobody reclaims a    *)
(* directory and that a directory left behind was reported; and for every  *)
(* set of Runs, requests and identities of HostLeases, that no identity has*)
(* two holders and that of two that want one identity somebody gets it.    *)
(***************************************************************************)
EXTENDS RuntimeLease, HostLeases, FiniteSetTheorems, SequenceTheorems, WellFoundedInduction, TLAPS

(* RuntimeLease: who holds a Project.                                      *)

\* A temporary file keeps its directory alive until it is renamed.
TempsKept == \A o \in Owners : writer[o] = "replace" => o \in temps

LeaseInv == TypeOK /\ TempsKept /\ Exclusive /\ LeftoverReported

\* At first nobody holds anything.
LEMMA InitLease == Init => LeaseInv
BY NoOneElse DEF Init, LeaseInv, TypeOK, MainSteps, WriterSteps, TempsKept, Exclusive, Inside,
                 LeftoverReported

\* A write that fails either ends the thread or leads on to the release.
LEMMA WriteFailsKeeps ==
  ASSUME LeaseInv, NEW o \in Owners, writer[o] # "waiting", WriteFails(o),
         temps' \in {temps, temps \ {o}}, UNCHANGED <<late, dir, record>>
  PROVE  LeaseInv'
<1>1. TypeOK'
  BY DEF WriteFails, To, LeaseInv, TypeOK, MainSteps, WriterSteps
<1>2. TempsKept'
  BY DEF WriteFails, To, LeaseInv, TypeOK, TempsKept
<1>3. /\ main' \in [Owners -> MainSteps]
      /\ \A p \in Owners : p \in Inside' <=> p \in Inside
      /\ \A p \in Owners : main'[p] \in {"idle", "refused", "released"} => main'[p] = main[p]
  BY <1>1 DEF WriteFails, LeaseInv, TypeOK, Inside
<1>4. Exclusive' /\ LeftoverReported'
  BY <1>3 DEF LeaseInv, TypeOK, Exclusive, LeftoverReported, Inside
<1> QED BY <1>1, <1>2, <1>4 DEF LeaseInv

\* The steps of a write leave the directory to its owner.
LEMMA WriteStep ==
  ASSUME LeaseInv, NEW o \in Owners,
         WriteBegin(o) \/ WriteToken(o) \/ WriteTemp(o) \/ WriteReplace(o) \/ WriteError(o)
           \/ Pulse(o)
  PROVE  LeaseInv'
<1>1. CASE WriteFails(o) /\ writer[o] # "waiting"
  <2>1. writer'[o] \in {"none", "ended"}
    BY <1>1 DEF WriteFails, To, LeaseInv, TypeOK
  <2>2. temps' \in {temps, temps \ {o}} /\ UNCHANGED <<late, dir, record>>
    BY <1>1, <2>1 DEF WriteBegin, WriteToken, WriteTemp, WriteReplace, WriteError, Pulse, To,
                      LeaseInv, TypeOK
  <2> QED BY <1>1, <2>2, WriteFailsKeeps
<1>2. CASE ~(WriteFails(o) /\ writer[o] # "waiting")
  <2>1. UNCHANGED <<main, owned, late, dir>>
    BY <1>2 DEF WriteBegin, WriteToken, WriteTemp, WriteReplace, WriteError, Pulse
  <2>2. TypeOK' /\ TempsKept'
    BY <1>2 DEF WriteBegin, WriteToken, WriteTemp, WriteReplace, WriteError, Pulse, To,
                LeaseInv, TypeOK, WriterSteps, TempsKept
  <2>3. Exclusive' /\ LeftoverReported'
    BY <2>1 DEF LeaseInv, Exclusive, Inside, LeftoverReported
  <2> QED BY <2>2, <2>3 DEF LeaseInv
<1> QED BY <1>1, <1>2

\* Entering and leaving make and remove the directory; nobody else can.
LEMMA MainStep ==
  ASSUME LeaseInv, NEW o \in Owners,
         \/ Enter(o) \/ StartHeartbeat(o) \/ Exit(o) \/ Join(o) \/ ReadRecord(o)
         \/ Unlink(o) \/ RemoveDir(o) \/ Crash(o)
  PROVE  LeaseInv'
<1> USE DEF LeaseInv, TypeOK, MainSteps, WriterSteps
<1>1. CASE Enter(o)
  <2>1. TypeOK' /\ TempsKept' BY <1>1, NoOneElse DEF Enter, TempsKept
  <2>2. Exclusive' BY <1>1, NoOneElse DEF Enter, Exclusive, Inside
  <2>3. LeftoverReported' BY <1>1, NoOneElse DEF Enter, LeftoverReported, Exclusive, Inside
  <2> QED BY <2>1, <2>2, <2>3
<1>2. CASE StartHeartbeat(o) \/ Exit(o) \/ Join(o) \/ ReadRecord(o) \/ Crash(o)
  <2>1. TypeOK' /\ TempsKept'
    BY <1>2 DEF StartHeartbeat, Exit, Join, ReadRecord, Release, Crash, To, TempsKept
  <2>2. /\ dir' = dir
        /\ \A p \in Owners : p \in Inside' => p \in Inside
        /\ \A p \in Owners : main'[p] \in {"idle", "refused", "released"} => main'[p] = main[p]
    BY <1>2 DEF StartHeartbeat, Exit, Join, ReadRecord, Release, Crash, Inside
  <2>3. Exclusive' /\ LeftoverReported'
    BY <2>2 DEF Exclusive, LeftoverReported, Inside
  <2> QED BY <2>1, <2>3
<1>3. CASE Unlink(o)
  <2>1. TypeOK' /\ TempsKept' BY <1>3 DEF Unlink, Release, TempsKept
  <2>2. Exclusive' /\ LeftoverReported'
    BY <1>3 DEF Unlink, Release, Exclusive, Inside, LeftoverReported
  <2> QED BY <2>1, <2>2
<1>4. CASE RemoveDir(o)
  <2>1. dir = o
    BY <1>4 DEF RemoveDir, Exclusive, Inside
  <2>2. TypeOK' /\ TempsKept' BY <1>4 DEF RemoveDir, Release, TempsKept
  <2>3. Exclusive' /\ LeftoverReported'
    BY <1>4, <2>1, NoOneElse DEF RemoveDir, Release, Exclusive, Inside, LeftoverReported
  <2> QED BY <2>2, <2>3
<1> QED BY <1>1, <1>2, <1>3, <1>4

\* Every step of every owner keeps the invariant.
LEMMA StepLease == LeaseInv /\ [Next]_vars => LeaseInv'
<1> SUFFICES ASSUME LeaseInv, [Next]_vars PROVE LeaseInv'
  OBVIOUS
<1>1. CASE UNCHANGED vars
  BY <1>1 DEF vars, LeaseInv, TypeOK, TempsKept, Exclusive, Inside, LeftoverReported
<1> QED BY <1>1, WriteStep, MainStep DEF Next

\* Main programs, threads and the lease directory are typed in every reachable state.
THEOREM TypeCorrect == Spec => []TypeOK
<1>1. LeaseInv => TypeOK BY DEF LeaseInv
<1> QED BY <1>1, InitLease, StepLease, PTL DEF Spec

\* From its mkdir to its rmdir an owner is alone, for every number of owners.
THEOREM LeaseExclusive == Spec => []Exclusive
<1>1. LeaseInv => Exclusive BY DEF LeaseInv
<1> QED BY <1>1, InitLease, StepLease, PTL DEF Spec

\* A directory that outlives its owner was reported, or its owner is dead.
THEOREM LeaseReported == Spec => []LeftoverReported
<1>1. LeaseInv => LeftoverReported BY DEF LeaseInv
<1> QED BY <1>1, InitLease, StepLease, PTL DEF Spec

\* Only the owner that made the directory removes it, at its own release.
THEOREM LeaseNeverReclaimed == Spec => NeverReclaimed
<1>1. LeaseInv /\ [Next]_vars
        => [dir # NoOne /\ dir' # dir => dir' = NoOne /\ main[dir] = "removing"]_vars
  <2> SUFFICES ASSUME LeaseInv, Next, dir # NoOne, dir' # dir
               PROVE  dir' = NoOne /\ main[dir] = "removing"
    OBVIOUS
  <2>1. PICK o \in Owners : Enter(o) \/ RemoveDir(o)
    BY DEF Next, StartHeartbeat, WriteBegin, WriteToken, WriteTemp, WriteReplace, WriteError,
           WriteFails, Pulse, Exit, Join, ReadRecord, Unlink, Crash
  <2>2. ~Enter(o) BY DEF Enter
  <2>3. RemoveDir(o) BY <2>1, <2>2
  <2> QED BY <2>3 DEF RemoveDir, LeaseInv, Exclusive, Inside
<1> QED BY <1>1, InitLease, StepLease, PTL DEF Spec, NeverReclaimed
-----------------------------------------------------------------------------
(* The record of a lease.                                                   *)

\* As long as no join has timed out: a heartbeat lives only while its owner's main
\* program is inside, and from the first record to the release the record is its own.
InTime ==
  late = {} =>
    \A o \in Owners :
      /\ writer[o] \notin {"none", "ended"} => main[o] \in {"recording", "working", "joining"}
      /\ main[o] \in {"working", "joining"} => record = o
      /\ main[o] = "recording" /\ writer[o] = "waiting" => record = o

\* At first nobody works and no heartbeat beats.
LEMMA InitInTime == Init => InTime
BY DEF Init, InTime

\* Two owners that are inside are one.
LEMMA InsideAlone ==
  ASSUME LeaseInv, NEW o \in Owners, NEW p \in Owners,
         main[o] \in {"recording", "working", "joining"},
         main[p] \in {"recording", "working", "joining", "unlinking"}
  PROVE  o = p
BY DEF LeaseInv, Exclusive, Inside

\* Only a rename and an unlink change the record, and both are done by the one inside.
LEMMA StepInTime == LeaseInv /\ InTime /\ [Next]_vars => InTime'
<1> SUFFICES ASSUME LeaseInv, InTime, [Next]_vars, late' = {} PROVE InTime'
  BY DEF InTime
<1> USE DEF LeaseInv, TypeOK, MainSteps, WriterSteps
<1>1. ASSUME NEW o \in Owners, Enter(o) PROVE InTime'
  BY <1>1 DEF Enter, InTime
<1>2. ASSUME NEW o \in Owners, StartHeartbeat(o) PROVE InTime'
  BY <1>2 DEF StartHeartbeat, InTime
<1>3. ASSUME NEW o \in Owners, WriteBegin(o) \/ WriteToken(o) \/ WriteTemp(o) \/ WriteError(o)
      PROVE  InTime'
  BY <1>3 DEF WriteBegin, WriteToken, WriteTemp, WriteError, WriteFails, To, InTime
<1>4. ASSUME NEW o \in Owners, WriteReplace(o) PROVE InTime'
  <2>1. /\ late = {} /\ record' = o /\ main' = main /\ writer' = [writer EXCEPT ![o] = "waiting"]
        /\ writer[o] = "replace"
    BY <1>4 DEF WriteReplace, To
  <2>2. main[o] \in {"recording", "working", "joining"}
    BY <2>1 DEF InTime
  <2>3. \A p \in Owners : main[p] \in {"recording", "working", "joining"} => p = o
    BY <2>2, InsideAlone
  <2> QED BY <2>1, <2>2, <2>3 DEF InTime
<1>5. ASSUME NEW o \in Owners, Pulse(o) PROVE InTime'
  BY <1>5 DEF Pulse, To, InTime
<1>6. ASSUME NEW o \in Owners, Exit(o) \/ ReadRecord(o) PROVE InTime'
  BY <1>6 DEF Exit, ReadRecord, Release, InTime
<1>7. ASSUME NEW o \in Owners, Join(o) PROVE InTime'
  BY <1>7 DEF Join, Threaded, InTime
<1>8. ASSUME NEW o \in Owners, Unlink(o) PROVE InTime'
  <2>1. /\ late = {} /\ writer' = writer /\ main[o] = "unlinking"
        /\ \E step \in {"error", "removing"} : main' = [main EXCEPT ![o] = step]
    BY <1>8 DEF Unlink, Release
  <2>2. \A p \in Owners : main[p] \notin {"recording", "working", "joining"}
    BY <2>1, InsideAlone
  <2> QED BY <2>1, <2>2 DEF InTime
<1>9. ASSUME NEW o \in Owners, RemoveDir(o) \/ Crash(o) PROVE InTime'
  BY <1>9 DEF RemoveDir, Release, Crash, To, InTime
<1>10. CASE UNCHANGED vars
  BY <1>10 DEF vars, InTime
<1> QED BY <1>1, <1>2, <1>3, <1>4, <1>5, <1>6, <1>7, <1>8, <1>9, <1>10 DEF Next

\* As long as every join was in time, a working owner finds its own record: what the
\* code promises of the lease holds up to the time-out of the join.
THEOREM RecordInTime == Spec => []RecordNamesHolderInTime
<1>1. LeaseInv /\ InTime => RecordNamesHolderInTime
  BY DEF InTime, RecordNamesHolderInTime
<1> QED BY <1>1, InitLease, StepLease, InitInTime, StepInTime, PTL DEF Spec

-----------------------------------------------------------------------------
(* HostLeases: who holds an identity.                                      *)

\* The identities a Run goes through for its claims are resources, in a sequence.
LEMMA ClaimsTyped ==
  ASSUME HostTypeOK, NEW r \in Runs, Unconfined \notin Names(r)
  PROVE  /\ ClaimsInOrder(r) \in Seq(Identities)
         /\ ClaimsInOrder(r) \in Seq(Resources) /\ Ascending(ClaimsInOrder(r))
         /\ Names(r) # {} => ClaimsInOrder(r) # <<>>
<1> DEFINE claims == request[r].claims
<1>1. request[r] \in Requests /\ claims \in Seq(Claims)
  BY LeaseConstants DEF HostTypeOK
<1>2. Names(r) \subseteq Resources
  BY <1>1, LeaseConstants DEF Names, NamesIn
<1>3. IsFiniteSet(Names(r))
  <2>1. IsFiniteSet(DOMAIN claims)
    <3>1. DOMAIN claims = 1..Len(claims) /\ Len(claims) \in Nat BY <1>1
    <3>2. \A n \in Nat : IsFiniteSet(1..n) BY FS_Interval
    <3> HIDE DEF claims
    <3> QED BY <3>1, <3>2
  <2> DEFINE f == [i \in DOMAIN claims |-> Canonical[claims[i]]]
  <2>2. f \in Surjection(DOMAIN claims, Names(r))
    BY DEF Surjection, Names, NamesIn
  <2> QED BY <2>1, <2>2, FS_Surjection
<1>4. Cardinality(Names(r)) \in Nat
  BY <1>3, FS_CardinalityType
<1>5. ClaimsInOrder(r) \in [1..Cardinality(Names(r)) -> Names(r)] /\ Ascending(ClaimsInOrder(r))
  BY <1>1, LeaseConstants DEF ClaimsInOrder, Names
<1>6. ClaimsInOrder(r) \in Seq(Identities) /\ ClaimsInOrder(r) \in Seq(Resources)
  BY <1>2, <1>4, <1>5 DEF Identities
<1>7. ASSUME Names(r) # {} PROVE ClaimsInOrder(r) # <<>>
  <2>1. Cardinality(Names(r)) # 0
    BY <1>3, <1>7, FS_EmptySet
  <2>2. 1 \in DOMAIN ClaimsInOrder(r)
    BY <1>4, <1>5, <2>1
  <2> QED BY <2>2
<1> QED BY <1>5, <1>6, <1>7

\* A lock file, once there, keeps its inode, and every descriptor is open on it.
OneInode ==
  \A r \in Runs : \A k \in DOMAIN held[r] :
    held[r][k].inode = 1 /\ current[held[r][k].identity] = 1

\* While an identity is being taken there is one to take, and its file is open.
AtHand ==
  \A r \in Runs :
    /\ pc[r] \in {"opening", "locking", "recording"} => rest[r] # <<>>
    /\ pc[r] \in {"locking", "recording"} => held[r] # <<>>

InodeTyped == current \in [Identities -> {0, 1}]

LeasesInv == HostTypeOK /\ OneInode /\ AtHand /\ InodeTyped /\ NobodyShares

\* At first nothing is held and no file is there.
LEMMA InitLeases == HostInit => LeasesInv
<1> SUFFICES ASSUME HostInit PROVE LeasesInv
  OBVIOUS
<1>1. HostTypeOK BY DEF HostInit, HostTypeOK, Steps, Outcomes
<1>2. OneInode /\ AtHand /\ InodeTyped /\ NobodyShares
  BY DEF HostInit, OneInode, AtHand, InodeTyped, NobodyShares, Holds
<1> QED BY <1>1, <1>2 DEF LeasesInv

\* A step that takes no lock and opens no file keeps exclusion.
LEMMA NoNewHandle ==
  ASSUME LeasesInv, HostTypeOK', AtHand', current' = current,
         \A r \in Runs : \/ held'[r] = held[r]
                         \/ held'[r] = <<>>
                         \/ held[r] # <<>> /\ held'[r] = Front(held[r])
  PROVE  LeasesInv'
<1>1. \A r \in Runs : held[r] \in Seq(Handle)
  BY DEF LeasesInv, HostTypeOK
<1>2. \A r \in Runs : \A k \in DOMAIN held'[r] :
        k \in DOMAIN held[r] /\ held'[r][k] = held[r][k]
  <2> SUFFICES ASSUME NEW r \in Runs, NEW k \in DOMAIN held'[r]
               PROVE  k \in DOMAIN held[r] /\ held'[r][k] = held[r][k]
    OBVIOUS
  <2>1. CASE held'[r] = held[r] BY <2>1
  <2>2. CASE held'[r] = <<>> BY <2>2
  <2>3. CASE held[r] # <<>> /\ held'[r] = Front(held[r])
    BY <1>1, <2>3 DEF Front
  <2> QED BY <2>1, <2>2, <2>3
<1>3. OneInode' BY <1>2 DEF LeasesInv, OneInode
<1>4. NobodyShares' BY <1>2 DEF LeasesInv, NobodyShares, Holds
<1>5. InodeTyped' BY DEF LeasesInv, InodeTyped
<1> QED BY <1>3, <1>4, <1>5 DEF LeasesInv

\* Opening a file neither makes a second inode nor takes the lock.
LEMMA OpenStep ==
  ASSUME LeasesInv, NEW r \in Runs, Open(r)
  PROVE  LeasesInv'
<1> DEFINE i == Head(rest[r])
           h == [identity |-> i, inode |-> 1, locked |-> FALSE]
<1>1. rest[r] \in Seq(Identities) /\ rest[r] # <<>> /\ i \in Identities
  BY DEF LeasesInv, HostTypeOK, AtHand, Open
<1>2. /\ held' = [held EXCEPT ![r] = Append(held[r], h)]
      /\ current' = [current EXCEPT ![i] = 1]
      /\ pc' = [pc EXCEPT ![r] = "locking"]
      /\ UNCHANGED <<request, rest, outcome, dead>>
  BY <1>1 DEF Open, Goto, LeasesInv, InodeTyped
<1>3. h \in Handle BY <1>1 DEF Handle
<1>4. h.identity = i /\ h.inode = 1 /\ h.locked = FALSE OBVIOUS
<1> HIDE DEF i, h
<1>5. held \in [Runs -> Seq(Handle)] /\ held[r] \in Seq(Handle)
  BY DEF LeasesInv, HostTypeOK
<1>6. /\ Append(held[r], h) \in Seq(Handle) /\ Append(held[r], h) # <<>>
      /\ \A k \in DOMAIN Append(held[r], h) :
           \/ k \in DOMAIN held[r] /\ Append(held[r], h)[k] = held[r][k]
           \/ Append(held[r], h)[k] = h
  BY <1>3, <1>5
<1>7. \A s \in Runs : \A k \in DOMAIN held'[s] :
        \/ k \in DOMAIN held[s] /\ held'[s][k] = held[s][k]
        \/ held'[s][k] = h
  BY <1>2, <1>5, <1>6
<1>8. held' \in [Runs -> Seq(Handle)] /\ held'[r] # <<>>
      /\ \A s \in Runs \ {r} : held'[s] = held[s]
  BY <1>2, <1>5, <1>6
<1>9. HostTypeOK' BY <1>1, <1>2, <1>8 DEF LeasesInv, HostTypeOK, Steps
<1>10. InodeTyped' BY <1>1, <1>2 DEF LeasesInv, InodeTyped
<1>11. OneInode' BY <1>1, <1>2, <1>4, <1>7 DEF LeasesInv, OneInode, InodeTyped
<1>12. AtHand' BY <1>2, <1>8 DEF LeasesInv, HostTypeOK, AtHand, Open
<1>13. NobodyShares' BY <1>4, <1>7 DEF LeasesInv, NobodyShares, Holds
<1> QED BY <1>9, <1>10, <1>11, <1>12, <1>13 DEF LeasesInv

\* A lock is taken only when no descriptor of its one inode holds it.
LEMMA LockStep ==
  ASSUME LeasesInv, NEW r \in Runs, Lock(r)
  PROVE  LeasesInv'
<1> DEFINE n == Len(held[r])
           h == held[r][n]
<1>1. held \in [Runs -> Seq(Handle)] /\ held[r] \in Seq(Handle) /\ held[r] # <<>>
  BY DEF LeasesInv, HostTypeOK, AtHand, Lock
<1>2. n \in DOMAIN held[r] /\ h \in Handle /\ h.inode = 1
  BY <1>1 DEF LeasesInv, OneInode
<1>3. CASE Taken(h.identity, h.inode) /\ Refuse(r, "busy") /\ UNCHANGED held
  <2>1. HostTypeOK' /\ AtHand'
    BY <1>3 DEF Lock, Refuse, Goto, LeasesInv, HostTypeOK, AtHand, Steps, Outcomes
  <2> QED BY <1>3, <2>1, NoNewHandle DEF Lock
<1>4. CASE /\ ~Taken(h.identity, h.inode)
           /\ Goto(r, "recording")
           /\ held' = [held EXCEPT ![r][n].locked = TRUE]
           /\ UNCHANGED outcome
  <2> DEFINE g == [h EXCEPT !.locked = TRUE]
  <2>1. g \in Handle /\ g.identity = h.identity /\ g.inode = h.inode
    BY <1>2 DEF Handle
  <2>2. held'[r] = [held[r] EXCEPT ![n] = g]
    BY <1>1, <1>4
  <2> HIDE DEF g
  <2>3. /\ held'[r] \in Seq(Handle) /\ held'[r] # <<>>
        /\ DOMAIN held'[r] = DOMAIN held[r]
        /\ held'[r][n] = g
        /\ \A k \in DOMAIN held[r] \ {n} : held'[r][k] = held[r][k]
    BY <1>1, <1>2, <2>1, <2>2
  <2>4. held' \in [Runs -> Seq(Handle)] /\ \A s \in Runs \ {r} : held'[s] = held[s]
    BY <1>1, <1>4, <2>3
  <2>5. HostTypeOK'
    BY <1>4, <2>4 DEF Lock, Goto, LeasesInv, HostTypeOK, Steps
  <2>6. AtHand'
    BY <1>4, <2>3, <2>4 DEF Lock, Goto, LeasesInv, HostTypeOK, AtHand
  <2>7. OneInode' /\ InodeTyped'
    BY <2>1, <2>3, <2>4, <1>2 DEF Lock, LeasesInv, OneInode, InodeTyped
  <2>8. \A s \in Runs : ~Holds(s, h.identity)
    <3> SUFFICES ASSUME NEW s \in Runs, NEW k \in DOMAIN held[s],
                        held[s][k].identity = h.identity, held[s][k].locked
                 PROVE  FALSE
      BY DEF Holds
    <3>1. held[s][k] \in Handle /\ held[s][k].inode = 1
      BY <1>1 DEF LeasesInv, OneInode
    <3>2. held[s][k] = [identity |-> h.identity, inode |-> h.inode, locked |-> TRUE]
      BY <3>1, <1>2 DEF Handle
    <3> QED BY <3>2, <1>4 DEF Taken
  <2>9. \A s \in Runs, i \in Identities :
          Holds(s, i)' => Holds(s, i) \/ (s = r /\ i = h.identity)
    BY <2>1, <2>3, <2>4 DEF Holds
  <2>10. NobodyShares'
    BY <2>8, <2>9 DEF LeasesInv, NobodyShares
  <2> QED BY <2>5, <2>6, <2>7, <2>10 DEF LeasesInv
<1> QED BY <1>3, <1>4 DEF Lock

\* Every step of every Run, and every death, keeps the invariant.
LEMMA StepLeases == LeasesInv /\ [HostNext]_hostVars => LeasesInv'
<1> SUFFICES ASSUME LeasesInv, [HostNext]_hostVars PROVE LeasesInv'
  OBVIOUS
<1>1. ASSUME NEW r \in Runs, StartProject(r) PROVE LeasesInv'
  <2>1. request[r].project \in Identities
    BY LeaseConstants DEF LeasesInv, HostTypeOK, Identities
  <2>2. HostTypeOK' /\ AtHand'
    BY <1>1, <2>1 DEF StartProject, Goto, LeasesInv, HostTypeOK, AtHand, Steps
  <2> QED BY <1>1, <2>2, NoNewHandle DEF StartProject
<1>2. ASSUME NEW r \in Runs, StartClaims(r) PROVE LeasesInv'
  <2>1. CASE Unconfined \in Names(r) /\ Refuse(r, "unavailable") /\ UNCHANGED rest
    <3>1. HostTypeOK' /\ AtHand'
      BY <1>2, <2>1 DEF StartClaims, Refuse, Goto, LeasesInv, HostTypeOK, AtHand, Steps, Outcomes
    <3> QED BY <1>2, <3>1, NoNewHandle DEF StartClaims
  <2>2. CASE /\ Unconfined \notin Names(r)
             /\ rest' = [rest EXCEPT ![r] = ClaimsInOrder(r)]
             /\ Goto(r, IF Names(r) = {} THEN "inside" ELSE "opening")
             /\ UNCHANGED outcome
    <3>1. ClaimsInOrder(r) \in Seq(Identities)
      BY <2>2, ClaimsTyped DEF LeasesInv
    <3>2. Names(r) # {} => ClaimsInOrder(r) # <<>>
      BY <2>2, ClaimsTyped DEF LeasesInv
    <3>3. HostTypeOK' /\ AtHand'
      BY <1>2, <2>2, <3>1, <3>2 DEF StartClaims, Goto, LeasesInv, HostTypeOK, AtHand, Steps
    <3> QED BY <1>2, <3>3, NoNewHandle DEF StartClaims
  <2> QED BY <1>2, <2>1, <2>2 DEF StartClaims
<1>3. ASSUME NEW r \in Runs, Open(r) PROVE LeasesInv'
  BY <1>3, OpenStep
<1>4. ASSUME NEW r \in Runs, Lock(r) PROVE LeasesInv'
  BY <1>4, LockStep
<1>5. ASSUME NEW r \in Runs, Record(r) PROVE LeasesInv'
  <2>1. /\ rest[r] \in Seq(Identities) /\ rest[r] # <<>>
        /\ Tail(rest[r]) \in Seq(Identities)
        /\ Len(rest[r]) > 1 => Tail(rest[r]) # <<>>
    <3>1. rest[r] \in Seq(Identities) /\ rest[r] # <<>>
      BY <1>5 DEF Record, LeasesInv, HostTypeOK, AtHand
    <3>2. Tail(rest[r]) \in Seq(Identities) /\ Len(Tail(rest[r])) = Len(rest[r]) - 1
      BY <3>1, HeadTailProperties
    <3>3. Len(rest[r]) > 1 => Tail(rest[r]) # <<>>
      <4> DEFINE n == Len(rest[r])  t == Tail(rest[r])  m == Len(t)
      <4>1. n \in Nat /\ m = n - 1
        BY <3>1, <3>2
      <4>2. t = <<>> => m = 0
        <5> HIDE DEF t
        <5> QED OBVIOUS
      <4> HIDE DEF n, m
      <4>3. n > 1 => m # 0
        BY <4>1
      <4> QED BY <4>2, <4>3 DEF n
    <3> QED BY <3>1, <3>2, <3>3
  <2>2. HostTypeOK' /\ AtHand'
    BY <1>5, <2>1 DEF Record, Goto, LeasesInv, HostTypeOK, AtHand, Steps
  <2> QED BY <1>5, <2>2, NoNewHandle DEF Record
<1>6. ASSUME NEW r \in Runs, Unavailable(r) \/ Finish(r) PROVE LeasesInv'
  <2>1. HostTypeOK' /\ AtHand'
    BY <1>6 DEF Unavailable, Finish, Refuse, Goto, LeasesInv, HostTypeOK, AtHand, Steps, Outcomes
  <2> QED BY <1>6, <2>1, NoNewHandle DEF Unavailable, Finish
<1>7. ASSUME NEW r \in Runs, Leave(r) \/ HostCrash(r) PROVE LeasesInv'
  <2>1. held \in [Runs -> Seq(Handle)] /\ pc \in [Runs -> Steps]
    BY DEF LeasesInv, HostTypeOK
  <2>2. held[r] # <<>> => Front(held[r]) \in Seq(Handle)
    <3>1. \A q \in Seq(Handle) : q # <<>> => Front(q) \in Seq(Handle)
      BY DEF Front
    <3> QED BY <2>1, <3>1
  <2>4. held' \in [Runs -> Seq(Handle)] /\ pc' \in [Runs -> Steps]
        /\ \A s \in Runs : \/ pc'[s] = "ended"
                           \/ pc'[s] = "leaving"
                           \/ pc'[s] = pc[s] /\ held'[s] = held[s]
        /\ dead' \in {dead, dead \union {r}}
    <3>1. CASE Leave(r) BY <3>1, <2>1, <2>2 DEF Leave, Goto, Steps
    <3>2. CASE HostCrash(r) BY <3>2, <2>1 DEF HostCrash, Goto, Steps
    <3> QED BY <1>7, <3>1, <3>2
  <2>5. UNCHANGED <<request, rest, current, outcome>>
    BY <1>7 DEF Leave, HostCrash
  <2>6. HostTypeOK'
    BY <2>4, <2>5 DEF LeasesInv, HostTypeOK
  <2>7. AtHand'
    BY <2>4, <2>5 DEF LeasesInv, AtHand
  <2>3. \A s \in Runs : \/ held'[s] = held[s] \/ held'[s] = <<>>
                        \/ held[s] # <<>> /\ held'[s] = Front(held[s])
    BY <1>7 DEF Leave, HostCrash, LeasesInv, HostTypeOK
  <2> QED BY <2>3, <2>5, <2>6, <2>7, NoNewHandle
<1>8. CASE UNCHANGED hostVars
  BY <1>8 DEF hostVars, LeasesInv, HostTypeOK, OneInode, AtHand, InodeTyped, NobodyShares, Holds
<1> QED BY <1>1, <1>2, <1>3, <1>4, <1>5, <1>6, <1>7, <1>8 DEF HostNext, HostStep

\* Programs, descriptors and lock files are typed in every reachable state.
THEOREM HostTypeCorrect == HostSpec => []HostTypeOK
<1>1. LeasesInv => HostTypeOK BY DEF LeasesInv
<1> QED BY <1>1, InitLeases, StepLeases, PTL DEF HostSpec

\* No Project and no host resource ever has two holders, for any number of Runs.
THEOREM LeasesExclusive == HostSpec => []NobodyShares
<1>1. LeasesInv => NobodyShares BY DEF LeasesInv
<1> QED BY <1>1, InitLeases, StepLeases, PTL DEF HostSpec
-----------------------------------------------------------------------------
(* A contest has a winner.                                                  *)

\* The identity a Run is at; after a refusal, the one it was refused.
At(r) == Head(rest[r])

\* j is taken later than i: resources come after the Project, in their order.
Above(j, i) == j \in Resources /\ (i \in Projects \/ (i \in Resources /\ i < j))

\* Whatever s still takes is above i.
Past(s, i) ==
  \/ pc[s] \in {"inside", "leaving", "ended"}
  \/ pc[s] = "claiming" /\ i \in Projects
  \/ pc[s] \in {"opening", "locking"} /\ Above(At(s), i)
  \/ pc[s] = "recording" /\ (i = At(s) \/ Above(At(s), i))

\* s was refused above i, or will never be refused at i or below.
Beyond(s, i) == IF outcome[s] = "busy" THEN Above(At(s), i) ELSE Past(s, i)

\* What is to be taken is one Project, or resources in their order; the descriptor
\* opened last is the one of the identity at hand; nobody is refused twice.
InOrder ==
  \A r \in Runs :
    /\ pc[r] \in {"opening", "locking", "recording"} =>
         \/ rest[r] = <<At(r)>> /\ At(r) \in Projects
         \/ rest[r] \in Seq(Resources) /\ rest[r] # <<>> /\ Ascending(rest[r])
    /\ pc[r] \in {"locking", "recording"} => Last(held[r]).identity = At(r)
    /\ outcome[r] # "none" => pc[r] \in {"leaving", "ended"}

\* A holder is beyond what it holds, and whoever was refused was refused by one.
Beaten ==
  /\ \A s \in Runs : \A i \in Identities : Holds(s, i) => Beyond(s, i)
  /\ \A r \in Runs : outcome[r] = "busy" =>
       \E i \in Identities : i = At(r) /\ \E s \in Runs : Beyond(s, i)

ContestInv == LeasesInv /\ InOrder /\ Beaten
\* Resources are numbers, and no Project is one.
LEMMA ResourceNumbers == Resources \subseteq Int /\ Projects \intersect Resources = {}
BY LeaseConstants

\* What is above j is above all that j is above of.
LEMMA AboveHigher ==
  ASSUME NEW j \in Resources, NEW k \in Resources, j < k, NEW i, i = j \/ Above(j, i)
  PROVE  Above(k, i)
<1>1. j \in Int /\ k \in Int /\ (i \in Resources => i \in Int)
  BY ResourceNumbers
<1>2. CASE i = j BY <1>2 DEF Above
<1>3. CASE Above(j, i)
  <2>1. CASE i \in Projects BY <2>1 DEF Above
  <2>2. CASE i \in Resources /\ i < j BY <1>1, <2>2 DEF Above
  <2> QED BY <1>3, <2>1, <2>2 DEF Above
<1> QED BY <1>2, <1>3

\* Nothing is above itself.
LEMMA AboveNotItself == \A i : ~Above(i, i)
<1> SUFFICES ASSUME NEW i, Above(i, i) PROVE FALSE
  OBVIOUS
<1>1. i \in Int BY ResourceNumbers DEF Above
<1>2. i \notin Projects BY ResourceNumbers DEF Above
<1> QED BY <1>1, <1>2 DEF Above

\* The rest of a sorted sequence is sorted and starts higher.
LEMMA TailAscends ==
  ASSUME NEW q \in Seq(Resources), Ascending(q), Len(q) > 1
  PROVE  /\ Tail(q) \in Seq(Resources) /\ Tail(q) # <<>> /\ Ascending(Tail(q))
         /\ Head(q) \in Resources /\ Head(Tail(q)) \in Resources /\ Head(q) < Head(Tail(q))
<1>1. Len(q) \in Nat /\ q # <<>>
  OBVIOUS
<1>2. /\ Tail(q) \in Seq(Resources) /\ Len(Tail(q)) = Len(q) - 1
      /\ \A k \in 1..Len(Tail(q)) : Tail(q)[k] = q[k + 1]
  BY <1>1
<1>3. Tail(q) # <<>>
  <2> DEFINE t == Tail(q)
  <2>1. Len(t) # 0
    BY <1>1, <1>2
  <2>2. t = <<>> => Len(t) = 0
    <3> HIDE DEF t
    <3> QED OBVIOUS
  <2> QED BY <2>1, <2>2
<1>4. Head(q) = q[1] /\ Head(Tail(q)) = q[2] /\ q[1] \in Resources /\ q[2] \in Resources
  BY <1>1, <1>2, <1>3
<1>5. Ascending(Tail(q))
  BY <1>1, <1>2 DEF Ascending
<1>6. q[1] < q[2]
  BY <1>1 DEF Ascending
<1> QED BY <1>2, <1>3, <1>4, <1>5, <1>6

\* The identity at hand while something is taken; the order of its tail.
LEMMA AtHandTyped ==
  ASSUME ContestInv, NEW r \in Runs, pc[r] \in {"opening", "locking", "recording"}
  PROVE  /\ At(r) \in Identities /\ rest[r] \in Seq(Identities) /\ rest[r] # <<>>
         /\ At(r) \in Projects => Len(rest[r]) = 1
         /\ At(r) \notin Projects =>
              At(r) \in Resources /\ rest[r] \in Seq(Resources) /\ Ascending(rest[r])
<1>1. rest[r] \in Seq(Identities) /\ rest[r] # <<>>
  BY DEF ContestInv, LeasesInv, HostTypeOK, AtHand
<1>2. CASE rest[r] = <<At(r)>> /\ At(r) \in Projects
  BY <1>1, <1>2 DEF Identities
<1>3. CASE rest[r] \in Seq(Resources) /\ rest[r] # <<>> /\ Ascending(rest[r])
  <2>1. At(r) \in Resources
    BY <1>3 DEF At
  <2> QED BY <1>1, <1>3, <2>1, LeaseConstants DEF Identities
<1> QED BY <1>2, <1>3 DEF ContestInv, InOrder

\* At first nobody takes anything.
LEMMA InitContest == HostInit => InOrder /\ Beaten
<1> SUFFICES ASSUME HostInit PROVE InOrder /\ Beaten
  OBVIOUS
<1>1. InOrder BY DEF HostInit, InOrder
<1>2. Beaten BY DEF HostInit, Beaten, Holds
<1> QED BY <1>1, <1>2

\* Whoever is beyond an identity stays beyond it.
LEMMA BeyondKept ==
  ASSUME ContestInv, NEW r \in Runs, HostStep(r) \/ HostCrash(r),
         NEW s \in Runs, NEW i \in Identities, Beyond(s, i)
  PROVE  Beyond(s, i)'
<1>1. /\ pc \in [Runs -> Steps] /\ rest \in [Runs -> Seq(Identities)]
      /\ outcome \in [Runs -> Outcomes]
  BY DEF ContestInv, LeasesInv, HostTypeOK
<1>2. CASE s # r
  <2>1. pc'[s] = pc[s] /\ rest'[s] = rest[s] /\ outcome'[s] = outcome[s]
    BY <1>1, <1>2 DEF HostStep, HostCrash, StartProject, StartClaims, Open, Unavailable, Lock,
                      Record, Finish, Leave, Refuse, Goto
  <2> QED BY <2>1 DEF Beyond, Past, At
<1>3. CASE s = r
  <2>0. outcome[r] # "none" => pc[r] \in {"leaving", "ended"}
    BY DEF ContestInv, InOrder
  <2>1. CASE StartProject(r)
    BY <1>1, <1>3, <2>0, <2>1 DEF StartProject, Goto, Beyond, Past
  <2>2. CASE StartClaims(r)
    <3>1. pc[r] = "claiming" /\ outcome[r] # "busy" /\ i \in Projects
      BY <1>3, <2>0, <2>2 DEF StartClaims, Beyond, Past
    <3>2. CASE Unconfined \in Names(r) /\ Refuse(r, "unavailable") /\ UNCHANGED rest
      BY <1>1, <1>3, <3>2 DEF Refuse, Goto, Beyond, Past
    <3>3. CASE /\ Unconfined \notin Names(r)
               /\ rest' = [rest EXCEPT ![r] = ClaimsInOrder(r)]
               /\ Goto(r, IF Names(r) = {} THEN "inside" ELSE "opening")
               /\ UNCHANGED outcome
      <4>1. Names(r) = {} => pc'[r] = "inside" /\ outcome'[r] = outcome[r]
        BY <1>1, <3>3 DEF Goto
      <4>2. Names(r) # {} => pc'[r] = "opening" /\ outcome'[r] = outcome[r]
        BY <1>1, <3>3 DEF Goto
      <4>3. /\ ClaimsInOrder(r) \in Seq(Resources)
            /\ Names(r) # {} => ClaimsInOrder(r) # <<>>
        BY <3>3, ClaimsTyped DEF ContestInv, LeasesInv
      <4>4. Names(r) # {} => Head(ClaimsInOrder(r)) \in Resources
        BY <4>3
      <4>5. rest'[r] = ClaimsInOrder(r)
        BY <1>1, <3>3
      <4>6. Names(r) # {} => Above(At(r)', i)
        BY <3>1, <4>4, <4>5 DEF Above, At
      <4> QED BY <1>3, <3>1, <4>1, <4>2, <4>6 DEF Beyond, Past, Above
    <3> QED BY <2>2, <3>2, <3>3 DEF StartClaims
  <2>3. CASE Open(r)
    BY <1>1, <1>3, <2>3 DEF Open, Goto, Beyond, Past, At
  <2>4. CASE Unavailable(r) \/ Finish(r)
    BY <1>1, <1>3, <2>0, <2>4 DEF Unavailable, Finish, Refuse, Goto, Beyond, Past, At
  <2>5. CASE Lock(r)
    <3>1. /\ pc[r] = "locking" /\ outcome[r] # "busy" /\ Above(At(r), i)
          /\ rest' = rest
      BY <1>3, <2>0, <2>5 DEF Lock, Beyond, Past
    <3>2. \/ outcome'[r] = "busy"
          \/ outcome'[r] = outcome[r] /\ pc'[r] = "recording"
      BY <1>1, <2>5 DEF Lock, Refuse, Goto
    <3> QED BY <1>3, <3>1, <3>2 DEF Beyond, Past, At
  <2>6. CASE Record(r)
    <3>1. /\ pc[r] = "recording" /\ outcome[r] # "busy" /\ (i = At(r) \/ Above(At(r), i))
          /\ outcome' = outcome /\ rest'[r] = Tail(rest[r])
          /\ pc'[r] = IF At(r) \in Projects THEN "claiming"
                      ELSE IF Len(rest[r]) > 1 THEN "opening" ELSE "inside"
      BY <1>1, <1>3, <2>0, <2>6 DEF Record, Goto, Beyond, Past, At
    <3>2. CASE At(r) \in Projects
      <4>1. i \in Projects
        BY <3>1, <3>2, LeaseConstants DEF Above
      <4> QED BY <1>3, <3>1, <3>2, <4>1 DEF Beyond, Past
    <3>3. CASE At(r) \notin Projects /\ Len(rest[r]) > 1
      <4>1. /\ At(r) \in Resources /\ Head(Tail(rest[r])) \in Resources
            /\ At(r) < Head(Tail(rest[r]))
        BY <3>1, <3>3, AtHandTyped, TailAscends DEF At
      <4>2. Above(Head(Tail(rest[r])), i)
        BY <3>1, <4>1, AboveHigher
      <4> QED BY <1>3, <3>1, <3>3, <4>2 DEF Beyond, Past, At
    <3>4. CASE At(r) \notin Projects /\ ~(Len(rest[r]) > 1)
      BY <1>3, <3>1, <3>4 DEF Beyond, Past
    <3> QED BY <3>2, <3>3, <3>4
  <2>7. CASE Leave(r) \/ HostCrash(r)
    BY <1>1, <1>3, <2>0, <2>7 DEF Leave, HostCrash, Goto, Beyond, Past, At
  <2> QED BY <2>1, <2>2, <2>3, <2>4, <2>5, <2>6, <2>7 DEF HostStep
<1> QED BY <1>2, <1>3
\* The order of what is taken, and of the descriptors, is kept by every step.
LEMMA OrderKept ==
  ASSUME ContestInv, HostTypeOK', NEW r \in Runs, HostStep(r) \/ HostCrash(r)
  PROVE  InOrder'
<1>1. /\ pc \in [Runs -> Steps] /\ rest \in [Runs -> Seq(Identities)]
      /\ held \in [Runs -> Seq(Handle)] /\ outcome \in [Runs -> Outcomes]
  BY DEF ContestInv, LeasesInv, HostTypeOK
<1>2. \A s \in Runs \ {r} : /\ pc'[s] = pc[s] /\ rest'[s] = rest[s] /\ held'[s] = held[s]
                            /\ outcome'[s] = outcome[s]
  BY <1>1 DEF HostStep, HostCrash, StartProject, StartClaims, Open, Unavailable, Lock,
              Record, Finish, Leave, Refuse, Goto
<1> DEFINE Ordered == pc[r] \in {"opening", "locking", "recording"} =>
                        \/ rest[r] = <<At(r)>> /\ At(r) \in Projects
                        \/ rest[r] \in Seq(Resources) /\ rest[r] # <<>> /\ Ascending(rest[r])
           AtLast == pc[r] \in {"locking", "recording"} => Last(held[r]).identity = At(r)
           Final == outcome[r] # "none" => pc[r] \in {"leaving", "ended"}
<1>3. Ordered /\ AtLast /\ Final
  BY DEF ContestInv, InOrder
<1>4. Ordered' /\ AtLast' /\ Final'
  <2>1. CASE StartProject(r)
    <3>1. request[r].project \in Projects
      BY LeaseConstants DEF ContestInv, LeasesInv, HostTypeOK
    <3>2. rest'[r] = <<request[r].project>> /\ pc'[r] = "opening" /\ outcome'[r] = outcome[r]
          /\ pc[r] = "project"
      BY <1>1, <2>1 DEF StartProject, Goto
    <3>3. At(r)' = request[r].project
      BY <3>2 DEF At
    <3> QED BY <1>3, <3>1, <3>2, <3>3
  <2>2. CASE StartClaims(r)
    <3>1. CASE Unconfined \in Names(r) /\ Refuse(r, "unavailable")
      BY <1>1, <3>1 DEF Refuse, Goto
    <3>2. CASE /\ Unconfined \notin Names(r)
               /\ rest' = [rest EXCEPT ![r] = ClaimsInOrder(r)]
               /\ Goto(r, IF Names(r) = {} THEN "inside" ELSE "opening")
               /\ UNCHANGED outcome
      <4>1. /\ pc[r] = "claiming" /\ outcome'[r] = outcome[r]
            /\ pc'[r] \in {"inside", "opening"}
            /\ pc'[r] = "opening" => Names(r) # {}
        BY <1>1, <2>2, <3>2 DEF StartClaims, Goto
      <4>2. rest'[r] = ClaimsInOrder(r)
        BY <1>1, <3>2
      <4>3. /\ ClaimsInOrder(r) \in Seq(Resources) /\ Ascending(ClaimsInOrder(r))
            /\ Names(r) # {} => ClaimsInOrder(r) # <<>>
        BY <3>2, ClaimsTyped DEF ContestInv, LeasesInv
      <4> QED BY <1>3, <4>1, <4>2, <4>3
    <3> QED BY <2>2, <3>1, <3>2 DEF StartClaims
  <2>3. CASE Open(r)
    <3> DEFINE h == [identity |-> At(r), inode |-> 1, locked |-> FALSE]
    <3>1. At(r) \in Identities
      BY <2>3, AtHandTyped DEF Open
    <3>2. /\ pc[r] = "opening" /\ pc'[r] = "locking" /\ rest' = rest /\ outcome' = outcome
          /\ held'[r] = Append(held[r], h)
      BY <1>1, <2>3, <3>1 DEF Open, Goto, At, ContestInv, LeasesInv, InodeTyped
    <3>3. h \in Handle /\ h.identity = At(r)
      BY <3>1 DEF Handle
    <3> HIDE DEF h
    <3>4. Last(held'[r]) = h
      BY <1>1, <3>2, <3>3 DEF Last
    <3> QED BY <1>3, <3>2, <3>3, <3>4 DEF At
  <2>4. CASE Unavailable(r) \/ Finish(r) \/ Leave(r) \/ HostCrash(r)
    BY <1>1, <1>3, <2>4 DEF Unavailable, Finish, Leave, HostCrash, Refuse, Goto
  <2>5. CASE Lock(r)
    <3> DEFINE n == Len(held[r])
    <3>1. pc[r] = "locking" /\ rest' = rest /\ held[r] # <<>> /\ n \in DOMAIN held[r]
      BY <1>1, <2>5 DEF Lock, ContestInv, LeasesInv, AtHand
    <3>2. CASE Refuse(r, "busy")
      BY <1>1, <3>2 DEF Refuse, Goto
    <3>3. CASE /\ Goto(r, "recording")
               /\ held' = [held EXCEPT ![r][n].locked = TRUE]
               /\ UNCHANGED outcome
      <4> DEFINE g == [held[r][n] EXCEPT !.locked = TRUE]
      <4>1. held[r][n] \in Handle
        BY <1>1, <3>1
      <4>2. g.identity = held[r][n].identity
        BY <4>1 DEF Handle
      <4>3. held'[r] = [held[r] EXCEPT ![n] = g]
        BY <1>1, <3>3
      <4> HIDE DEF g
      <4>4. Len(held'[r]) = n /\ held'[r][n] = g
        BY <1>1, <3>1, <4>3
      <4>5. Last(held'[r]).identity = Last(held[r]).identity
        BY <4>2, <4>4 DEF Last
      <4>6. pc'[r] = "recording" /\ outcome' = outcome
        BY <1>1, <3>3 DEF Goto
      <4> QED BY <1>3, <3>1, <4>5, <4>6 DEF At
    <3> QED BY <2>5, <3>2, <3>3 DEF Lock
  <2>6. CASE Record(r)
    <3>1. /\ pc[r] = "recording" /\ outcome' = outcome /\ rest'[r] = Tail(rest[r])
          /\ pc'[r] = IF At(r) \in Projects THEN "claiming"
                      ELSE IF Len(rest[r]) > 1 THEN "opening" ELSE "inside"
      BY <1>1, <2>6 DEF Record, Goto, At
    <3>2. pc'[r] = "opening" =>
            rest'[r] \in Seq(Resources) /\ rest'[r] # <<>> /\ Ascending(rest'[r])
      BY <3>1, AtHandTyped, TailAscends
    <3>3. pc'[r] \in {"claiming", "opening", "inside"} /\ pc[r] = "recording"
      BY <3>1
    <3> QED BY <1>3, <3>1, <3>2, <3>3
  <2> QED BY <2>1, <2>2, <2>3, <2>4, <2>5, <2>6 DEF HostStep
<1> HIDE DEF Ordered, AtLast, Final
<1>5. ASSUME NEW s \in Runs, s # r
      PROVE  /\ pc'[s] \in {"opening", "locking", "recording"} =>
                  \/ rest'[s] = <<At(s)'>> /\ At(s)' \in Projects
                  \/ rest'[s] \in Seq(Resources) /\ rest'[s] # <<>> /\ Ascending(rest'[s])
             /\ pc'[s] \in {"locking", "recording"} => Last(held'[s]).identity = At(s)'
             /\ outcome'[s] # "none" => pc'[s] \in {"leaving", "ended"}
  BY <1>2, <1>5 DEF ContestInv, InOrder, At
<1> QED BY <1>4, <1>5 DEF InOrder, Ordered, AtLast, Final

\* A new lock, and a refusal, are at the identity at hand.
LEMMA BeatenKept ==
  ASSUME ContestInv, NEW r \in Runs, HostStep(r) \/ HostCrash(r)
  PROVE  Beaten'
<1>1. /\ pc \in [Runs -> Steps] /\ rest \in [Runs -> Seq(Identities)]
      /\ held \in [Runs -> Seq(Handle)] /\ outcome \in [Runs -> Outcomes]
  BY DEF ContestInv, LeasesInv, HostTypeOK
<1>2. \A s \in Runs \ {r} : rest'[s] = rest[s] /\ held'[s] = held[s] /\ outcome'[s] = outcome[s]
  BY <1>1 DEF HostStep, HostCrash, StartProject, StartClaims, Open, Unavailable, Lock,
              Record, Finish, Leave, Refuse, Goto
<1>3. outcome[r] = "busy" => rest'[r] = rest[r]
  <2>1. outcome[r] = "busy" => pc[r] \in {"leaving", "ended"}
    BY DEF ContestInv, InOrder
  <2> QED BY <1>1, <2>1 DEF HostStep, HostCrash, StartProject, StartClaims, Open, Unavailable,
                            Lock, Record, Finish, Leave
<1>4. ASSUME NEW s \in Runs, NEW i \in Identities, Holds(s, i)' PROVE Beyond(s, i)'
  <2>1. CASE Holds(s, i) BY <2>1, BeyondKept DEF ContestInv, Beaten
  <2>2. CASE ~Holds(s, i)
    <3>1. s = r
      BY <1>2, <1>4, <2>2 DEF Holds
    <3>2. Lock(r) /\ Goto(r, "recording") /\ outcome' = outcome
      <4>1. CASE StartProject(r) \/ StartClaims(r) \/ Record(r) \/ Unavailable(r) \/ Finish(r)
        BY <1>4, <2>2, <4>1 DEF StartProject, StartClaims, Record, Unavailable, Finish, Holds
      <4>2. CASE Open(r)
        <5> DEFINE h == [identity |-> At(r),
                         inode |-> IF current[At(r)] = 0 THEN 1 ELSE current[At(r)],
                         locked |-> FALSE]
        <5>1. held'[r] = Append(held[r], h) /\ h.locked = FALSE
          BY <1>1, <4>2 DEF Open, At
        <5> HIDE DEF h
        <5>2. \A k \in DOMAIN Append(held[r], h) :
                 (k \in DOMAIN held[r] /\ Append(held[r], h)[k] = held[r][k])
                 \/ Append(held[r], h)[k] = h
          BY <1>1
        <5> QED BY <1>4, <2>2, <3>1, <5>1, <5>2 DEF Holds
      <4>3. CASE Leave(r) \/ HostCrash(r)
        <5>1. \/ held'[r] = held[r] \/ held'[r] = <<>>
              \/ held[r] # <<>> /\ held'[r] = Front(held[r])
          BY <1>1, <4>3 DEF Leave, HostCrash
        <5>2. ASSUME NEW k \in DOMAIN held'[r]
              PROVE  k \in DOMAIN held[r] /\ held'[r][k] = held[r][k]
          <6>1. CASE held'[r] = held[r] BY <6>1
          <6>2. CASE held'[r] = <<>> BY <6>2
          <6>3. CASE held[r] # <<>> /\ held'[r] = Front(held[r])
            <7>1. held[r] \in Seq(Handle) BY <1>1
            <7> QED BY <6>3, <7>1 DEF Front
          <6> QED BY <5>1, <6>1, <6>2, <6>3
        <5> QED BY <1>4, <2>2, <3>1, <5>2 DEF Holds
      <4>4. CASE Lock(r)
        BY <1>4, <2>2, <4>4 DEF Lock, Holds
      <4> QED BY <4>1, <4>2, <4>3, <4>4 DEF HostStep
    <3>3. /\ pc[r] = "locking" /\ pc'[r] = "recording" /\ rest' = rest /\ outcome'[r] # "busy"
      <4>1. outcome[r] # "none" => pc[r] \in {"leaving", "ended"}
        BY DEF ContestInv, InOrder
      <4> QED BY <1>1, <3>2, <4>1 DEF Lock, Goto
    <3>4. i = At(r)
      <4> DEFINE n == Len(held[r])
                 g == [held[r][n] EXCEPT !.locked = TRUE]
      <4>1. held' = [held EXCEPT ![r][n].locked = TRUE]
        BY <1>1, <3>2, <3>3 DEF Lock, Refuse, Goto
      <4>2. n \in DOMAIN held[r] /\ held[r][n] \in Handle
        BY <1>1, <3>3 DEF ContestInv, LeasesInv, AtHand
      <4>3. held'[r] = [held[r] EXCEPT ![n] = g]
        BY <1>1, <4>1
      <4>4. g.identity = held[r][n].identity
        BY <4>2 DEF Handle
      <4> HIDE DEF g
      <4>5. \A k \in DOMAIN held'[r] : k \in DOMAIN held[r] /\ (k # n => held'[r][k] = held[r][k])
        BY <4>3
      <4>6. held'[r][n] = g
        BY <4>2, <4>3
      <4>7. i = g.identity
        BY <1>4, <2>2, <3>1, <4>5, <4>6 DEF Holds
      <4>8. Last(held[r]).identity = At(r)
        BY <3>3 DEF ContestInv, InOrder
      <4> QED BY <4>4, <4>7, <4>8 DEF Last
    <3> QED BY <3>1, <3>3, <3>4 DEF Beyond, Past, At
  <2> QED BY <2>1, <2>2
<1>5. ASSUME NEW s \in Runs, outcome'[s] = "busy"
      PROVE  \E i \in Identities : i = At(s)' /\ \E t \in Runs : Beyond(t, i)'
  <2>1. CASE outcome[s] = "busy"
    <3>1. At(s)' = At(s)
      BY <1>2, <1>3, <2>1 DEF At
    <3>2. PICK i \in Identities : i = At(s) /\ \E t \in Runs : Beyond(t, i)
      BY <2>1 DEF ContestInv, Beaten
    <3>3. \E t \in Runs : Beyond(t, i)'
      BY <3>2, BeyondKept
    <3> QED BY <3>1, <3>2, <3>3
  <2>2. CASE outcome[s] # "busy"
    <3>1. s = r /\ Lock(r)
      BY <1>1, <1>2, <1>5, <2>2
         DEF HostStep, HostCrash, StartProject, StartClaims, Open, Unavailable, Lock, Record,
             Finish, Leave, Refuse, Goto
    <3> DEFINE h == held[r][Len(held[r])]
    <3>2. Taken(h.identity, h.inode) /\ rest' = rest /\ pc[r] = "locking"
      BY <1>1, <1>5, <2>2, <3>1 DEF Lock
    <3>3. h.identity = At(r) /\ At(r) \in Identities
      BY <3>2, AtHandTyped DEF ContestInv, InOrder, Last
    <3>4. PICK i \in Identities : i = At(r)
      BY <3>3
    <3>5. PICK t \in Runs : Holds(t, i)
      BY <3>2, <3>3, <3>4 DEF Taken, Holds
    <3>6. Beyond(t, i)
      BY <3>5 DEF ContestInv, Beaten
    <3>7. Beyond(t, i)'
      BY <3>6, BeyondKept
    <3>8. At(s)' = i
      BY <3>1, <3>2, <3>4 DEF At
    <3> QED BY <3>7, <3>8
  <2> QED BY <2>1, <2>2
<1> QED BY <1>4, <1>5 DEF Beaten

\* Every step of every Run, and every death, keeps the contest.
LEMMA StepContest == ContestInv /\ [HostNext]_hostVars => ContestInv'
<1> SUFFICES ASSUME ContestInv, [HostNext]_hostVars PROVE ContestInv'
  OBVIOUS
<1>1. LeasesInv'
  BY StepLeases DEF ContestInv
<1>2. ASSUME NEW r \in Runs, HostStep(r) \/ HostCrash(r) PROVE ContestInv'
  BY <1>1, <1>2, OrderKept, BeatenKept DEF ContestInv, LeasesInv
<1>3. CASE UNCHANGED hostVars
  <2>1. InOrder' /\ Beaten'
    BY <1>3 DEF hostVars, ContestInv, InOrder, Beaten, Holds, Beyond, Past, At
  <2> QED BY <1>1, <2>1 DEF ContestInv
<1> QED BY <1>2, <1>3 DEF HostNext

\* The refused Runs above r; fewer for whoever refused it.
Higher(r) == {s \in Runs : Above(At(s), At(r))}

\* Of a finite set of numbers that is not empty, one is the smallest.
LEMMA Least ==
  ASSUME NEW S \in SUBSET Nat, S # {}
  PROVE  \E m \in S : \A n \in S : m <= n
<1>1. PICK m \in S : \A n \in S : <<n, m>> \notin OpToRel(<, Nat)
  BY NatLessThanWellFounded, WFMin
<1>2. \A n \in S : ~(n < m)
  BY <1>1 DEF OpToRel
<1> QED BY <1>2

\* If all were refused, each by somebody above it, nobody could be highest.
LEMMA ContestSuffices == ContestInv => SomeoneNotRefused
<1> SUFFICES ASSUME ContestInv, \A r \in Runs : outcome[r] = "busy" PROVE FALSE
  BY DEF SomeoneNotRefused
<1>1. \A r \in Runs : \E s \in Runs : Above(At(s), At(r)) /\ At(r) \in Identities
  BY DEF ContestInv, Beaten, Beyond
<1>2. \A r \in Runs : IsFiniteSet(Higher(r)) /\ Cardinality(Higher(r)) \in Nat
  BY LeaseConstants, FS_Subset, FS_CardinalityType DEF Higher
<1>3. ASSUME NEW r \in Runs, NEW s \in Runs, Above(At(s), At(r))
      PROVE  Cardinality(Higher(s)) < Cardinality(Higher(r))
  <2>1. ASSUME NEW t \in Runs, Above(At(t), At(s)) PROVE Above(At(t), At(r))
    <3>1. CASE At(s) \in Projects
      BY <1>3, <3>1, ResourceNumbers DEF Above
    <3>2. CASE At(s) \in Resources /\ At(s) < At(t)
      BY <1>3, <2>1, <3>2, AboveHigher DEF Above
    <3> QED BY <2>1, <3>1, <3>2 DEF Above
  <2>2. s \in Higher(r) /\ s \notin Higher(s)
    BY <1>3, AboveNotItself DEF Higher
  <2>3. Higher(s) \in SUBSET Higher(r) /\ Higher(s) # Higher(r)
    BY <2>1, <2>2 DEF Higher
  <2>4. Cardinality(Higher(s)) <= Cardinality(Higher(r))
        /\ Cardinality(Higher(s)) # Cardinality(Higher(r))
    BY <1>2, <2>3, FS_Subset
  <2> QED BY <1>2, <2>4
<1> DEFINE counts == {Cardinality(Higher(r)) : r \in Runs}
<1>4. counts \in SUBSET Nat /\ counts # {}
  BY <1>2, LeaseConstants
<1>5. PICK m \in counts : \A n \in counts : m <= n
  BY <1>4, Least
<1>6. PICK r \in Runs : m = Cardinality(Higher(r))
  BY <1>5
<1>7. PICK s \in Runs : Above(At(s), At(r))
  BY <1>1
<1>8. Cardinality(Higher(s)) < Cardinality(Higher(r))
  BY <1>3, <1>7
<1>9. Cardinality(Higher(s)) \in counts
  OBVIOUS
<1> QED BY <1>2, <1>5, <1>6, <1>8, <1>9

\* In a contest somebody is not refused, for any number of Runs and claims: the one
\* order of the claims leaves no circle of Runs that refuse each other.
THEOREM ContestHasWinner == HostSpec => []SomeoneNotRefused
<1>1. HostInit => ContestInv
  BY InitLeases, InitContest DEF ContestInv
<1> QED BY <1>1, StepContest, ContestSuffices, PTL DEF HostSpec

\* Any number of Runs, claims and spellings: a Run is refused as busy by another Run only.
\* Whatever it holds itself lies below what it takes, so that it never meets its own lock.
THEOREM RefusedByOthers == HostSpec => OthersRefuse
<1>1. HostInit => ContestInv
  BY InitLeases, InitContest DEF ContestInv
<1>2. ContestInv /\ [HostNext]_hostVars =>
        [\A r \in Runs : outcome[r] # "busy" /\ outcome'[r] = "busy" =>
           \E s \in Runs \ {r} : Holds(s, Head(rest[r]))]_hostVars
  <2> SUFFICES ASSUME ContestInv, HostNext, NEW r \in Runs,
                      outcome[r] # "busy", outcome'[r] = "busy"
               PROVE  \E s \in Runs \ {r} : Holds(s, Head(rest[r]))
    OBVIOUS
  <2>1. outcome \in [Runs -> Outcomes] /\ rest \in [Runs -> Seq(Identities)]
    BY DEF ContestInv, LeasesInv, HostTypeOK
  <2>2. Lock(r) /\ Taken(Last(held[r]).identity, Last(held[r]).inode)
    BY <2>1 DEF HostNext, HostStep, HostCrash, StartProject, StartClaims, Open, Unavailable, Lock,
                Record, Finish, Leave, Refuse, Goto, Last
  <2>3. pc[r] = "locking" /\ outcome[r] = "none"
    BY <2>2 DEF Lock, ContestInv, InOrder
  <2>4. At(r) \in Identities /\ Last(held[r]).identity = At(r)
    BY <2>3, AtHandTyped DEF ContestInv, InOrder
  <2>5. PICK s \in Runs : Holds(s, At(r))
    BY <2>2, <2>4 DEF Taken, Holds
  <2>6. s # r
    <3> SUFFICES ASSUME s = r PROVE FALSE
      OBVIOUS
    <3>1. Beyond(r, At(r))
      BY <2>4, <2>5 DEF ContestInv, Beaten
    <3> QED BY <2>3, <3>1, AboveNotItself DEF Beyond, Past
  <2> QED BY <2>5, <2>6 DEF At
<1> QED BY <1>1, <1>2, StepContest, PTL DEF HostSpec, OthersRefuse
=============================================================================
