----------------------------- MODULE HostLeases ------------------------------
(***************************************************************************)
(* The leases a Run takes before it executes: its Project, then the host    *)
(* resources it claims (runtime/guardrails/project_lease.py, taken by       *)
(* _project_exclusive in control_plane/unity_agent_control_plane.py).       *)
(*                                                                         *)
(* A lease is an OS lock on a file of its own.  Nobody waits: whoever finds *)
(* a lock taken gives everything back and is refused.  The OS frees the     *)
(* locks of a process that dies.                                            *)
(***************************************************************************)
EXTENDS Integers, FiniteSets, Sequences, SequencesExt

CONSTANTS
  Runs,
  Projects, Resources,   \* identities; resources are numbers, because claims are sorted
  Claims,                \* spellings of host resources
  Canonical,             \* what a spelling names: a resource, or Unconfined
  Unconfined,            \* names nothing: `..', or not a name at all
  Requests               \* what a Run may ask for: a Project and a sequence of claims

Identities == Projects \union Resources

NamesIn(claims) == {Canonical[claims[i]] : i \in DOMAIN claims}

Ascending(s) == \A i, j \in DOMAIN s : i < j => s[i] < s[j]

ASSUME LeaseConstants ==
  /\ IsFiniteSet(Runs) /\ Runs # {}
  /\ Resources \subseteq Int /\ Projects \intersect Resources = {}
  /\ Unconfined \notin Resources
  /\ Canonical \in [Claims -> Resources \union {Unconfined}]
  /\ Requests \subseteq [project : Projects, claims : Seq(Claims)]
  \* the resources of a request can be sorted
  /\ \A q \in Requests : Unconfined \notin NamesIn(q.claims) =>
       \E s \in [1..Cardinality(NamesIn(q.claims)) -> NamesIn(q.claims)] : Ascending(s)

VARIABLES
  request,  \* what each Run asks for
  pc,       \* where _project_exclusive is
  rest,     \* the identities still to be taken, in order
  held,     \* the stack of open descriptors of each Run
  current,  \* the inode of each identity's lock file; 0 if there is no file
  outcome,  \* how the Run came out
  dead      \* the Runs whose process died

hostVars == <<request, pc, rest, held, current, outcome, dead>>

Handle == [identity : Identities, inode : Nat, locked : BOOLEAN]
Steps == {"project", "opening", "locking", "recording", "claiming", "inside", "leaving", "ended"}
Outcomes == {"none", "busy", "unavailable", "executed"}

Names(r) == NamesIn(request[r].claims)

HostInit ==
  /\ request \in [Runs -> Requests]
  /\ pc = [r \in Runs |-> "project"] /\ rest = [r \in Runs |-> <<>>]
  /\ held = [r \in Runs |-> <<>>]
  /\ current = [i \in Identities |-> 0]
  /\ outcome = [r \in Runs |-> "none"] /\ dead = {}

Goto(r, step) == pc' = [pc EXCEPT ![r] = step]

Refuse(r, class) == outcome' = [outcome EXCEPT ![r] = class] /\ Goto(r, "leaving")

\* acquire_project_lease comes first.
StartProject(r) ==
  /\ pc[r] = "project"
  /\ rest' = [rest EXCEPT ![r] = <<request[r].project>>]
  /\ Goto(r, "opening")
  /\ UNCHANGED <<request, held, current, outcome, dead>>

ClaimsAsGiven(r) ==   \* mutant: the claims are not sorted
  [i \in DOMAIN request[r].claims |-> Canonical[request[r].claims[i]]]

ClaimsBySpelling(r) ==   \* mutant: each spelling is taken once, and not each resource
  SortSeq([i \in DOMAIN request[r].claims |-> Canonical[request[r].claims[i]]], <)

\* sorted(set(...)): each resource once, in the one order everybody uses.
ClaimsInOrder(r) ==
  CHOOSE s \in [1..Cardinality(Names(r)) -> Names(r)] : Ascending(s)

\* acquire_host_claims: every claim is checked before any is taken.
StartClaims(r) ==
  /\ pc[r] = "claiming"
  /\ \/ /\ Unconfined \in Names(r)
        /\ Refuse(r, "unavailable")
        /\ UNCHANGED rest
     \/ /\ Unconfined \notin Names(r)
        /\ rest' = [rest EXCEPT ![r] = ClaimsInOrder(r)]
        /\ Goto(r, IF Names(r) = {} THEN "inside" ELSE "opening")
        /\ UNCHANGED outcome
  /\ UNCHANGED <<request, held, current, dead>>

\* os.open finds the file or creates it.
Open(r) ==
  /\ pc[r] = "opening"
  /\ LET i == Head(rest[r])
         inode == IF current[i] = 0 THEN 1 ELSE current[i] IN
       /\ current' = [current EXCEPT ![i] = inode]
       /\ held' = [held EXCEPT ![r] =
            Append(@, [identity |-> i, inode |-> inode, locked |-> FALSE])]
  /\ Goto(r, "locking")
  /\ UNCHANGED <<request, rest, outcome, dead>>

\* The OS or the disk says no: any error that is not the lock being taken.
Unavailable(r) ==
  /\ pc[r] \in {"opening", "locking", "recording"}
  /\ Refuse(r, "unavailable")
  /\ UNCHANGED <<request, rest, held, current, dead>>

\* Another descriptor, of this Run or of another one, holds the lock of the inode.
Taken(i, inode) ==
  \E s \in Runs : \E k \in DOMAIN held[s] :
    held[s][k] = [identity |-> i, inode |-> inode, locked |-> TRUE]

\* flock without blocking, exclusive between any two descriptors of one inode.
Lock(r) ==
  /\ pc[r] = "locking"
  /\ LET h == held[r][Len(held[r])] IN
       \/ /\ Taken(h.identity, h.inode)
          /\ Refuse(r, "busy")
          /\ UNCHANGED held
       \/ /\ ~Taken(h.identity, h.inode)
          /\ Goto(r, "recording")
          /\ held' = [held EXCEPT ![r][Len(held[r])].locked = TRUE]
          /\ UNCHANGED outcome
  /\ UNCHANGED <<request, rest, current, dead>>

\* The owner is written into the file; then the next identity, or the operation.
Record(r) ==
  /\ pc[r] = "recording"
  /\ rest' = [rest EXCEPT ![r] = Tail(@)]
  /\ Goto(r, IF Head(rest[r]) \in Projects THEN "claiming"
             ELSE IF Len(rest[r]) > 1 THEN "opening" ELSE "inside")
  /\ UNCHANGED <<request, held, current, outcome, dead>>

\* The operation returns or raises.
Finish(r) ==
  /\ pc[r] = "inside"
  /\ Refuse(r, "executed")
  /\ UNCHANGED <<request, rest, held, current, dead>>

\* The exit stack gives back one lease after the other, the last one first; the
\* lock file stays where it is.
Leave(r) ==
  /\ pc[r] = "leaving"
  /\ \/ held[r] = <<>> /\ Goto(r, "ended") /\ UNCHANGED held
     \/ held[r] # <<>> /\ held' = [held EXCEPT ![r] = Front(@)] /\ UNCHANGED pc
  /\ UNCHANGED <<request, rest, current, outcome, dead>>

\* The process dies; the OS closes its descriptors.
HostCrash(r) ==
  /\ pc[r] # "ended"
  /\ Goto(r, "ended")
  /\ held' = [held EXCEPT ![r] = <<>>]
  /\ dead' = dead \union {r}
  /\ UNCHANGED <<request, rest, current, outcome>>

HostStep(r) ==
  \/ StartProject(r) \/ StartClaims(r) \/ Open(r) \/ Lock(r) \/ Record(r) \/ Unavailable(r)
  \/ Finish(r) \/ Leave(r)

HostNext == \E r \in Runs : HostStep(r) \/ HostCrash(r)

HostSpec == HostInit /\ [][HostNext]_hostVars

-----------------------------------------------------------------------------
(* Properties.                                                              *)

HostTypeOK ==
  /\ request \in [Runs -> Requests]
  /\ pc \in [Runs -> Steps]
  /\ rest \in [Runs -> Seq(Identities)]
  /\ held \in [Runs -> Seq(Handle)]
  /\ current \in [Identities -> Nat]
  /\ outcome \in [Runs -> Outcomes]
  /\ dead \in SUBSET Runs

Holds(r, i) == \E k \in DOMAIN held[r] : held[r][k].identity = i /\ held[r][k].locked

\* Two Runs never hold one identity, under whatever spelling, descriptor or inode.
NobodyShares ==
  \A r, s \in Runs : \A i \in Identities : Holds(r, i) /\ Holds(s, i) => r = s

\* A lock is of a descriptor, not of a Run, which would meet its own lock at a resource that
\* it spells twice.  Whoever is refused as busy is refused by the lock of another Run.
OthersRefuse ==
  [][\A r \in Runs : outcome[r] # "busy" /\ outcome'[r] = "busy" =>
       \E s \in Runs \ {r} : Holds(s, Head(rest[r]))]_hostVars

\* Claims are taken in one order, so a contest has a winner: it cannot happen that
\* all Runs refuse one another.
SomeoneNotRefused == \E r \in Runs : outcome[r] # "busy"
=============================================================================
