--------------------------- MODULE MCProjectAccess ---------------------------
(* Who may touch one Unity Project, when several processes would: the Runtime *)
(* lease, the host leases of Runs, the Artist authority, the rock import, the *)
(* end-to-end probe, and the Editors of batch jobs and of recovery.  None of  *)
(* them shares a file with another, so a behaviour is about one of them, and  *)
(* the others rest in their initial states.                                   *)
EXTENDS RuntimeLease, HostLeases, ArtistRun, RockImport, FullE2E, ProjectEditors, Functions, TLC

CONSTANTS RequestScene, DirectoryScene, AuthorityScene, RockScene, ProbeScene, EditorScene

CONSTANTS p1, p2

VARIABLE about   \* the component a behaviour is about

MCClaims == {"gpu", "GPU", "port", "../x"}
MCUnconfined == 0
MCCanonical == [c \in MCClaims |-> CASE c \in {"gpu", "GPU"} -> 2 [] c = "port" -> 1 [] OTHER -> 0]

\* Two Runs of two Projects with crossing claims, one of which names a resource under two
\* spellings; the third Run is beside one of them, and may claim nothing, or what is not confined.
MCCrossing == <<[project |-> p1, claims |-> <<"gpu", "port">>],
                [project |-> p2, claims |-> <<"port", "GPU", "gpu">>]>>
MCBeside == {[project |-> p1, claims |-> <<>>], [project |-> p1, claims |-> <<"port", "GPU", "gpu">>],
             [project |-> p2, claims |-> <<"gpu", "port">>], [project |-> p2, claims |-> <<"port", "../x">>]}
MCRequests == Range(MCCrossing) \union MCBeside

Scenes == {RequestScene, DirectoryScene, AuthorityScene, RockScene, ProbeScene, EditorScene}

MCInit ==
  /\ about \in Scenes
  /\ Init /\ HostInit /\ ArtistInit /\ RockInit /\ E2eInit /\ EditorsInit
  /\ \E q \in MCBeside :
       /\ request = Append(MCCrossing, q)
       /\ about # RequestScene => q.claims = <<>>   \* the Runs rest
  /\ processes[2] = Gone                         \* pids are interchangeable
  /\ about # EditorScene => Live = {}            \* no Editor runs

RequestPart ==
  /\ about = RequestScene /\ HostNext
  /\ UNCHANGED <<vars, artistVars, rockVars, e2eVars, editorsVars>>
DirectoryPart ==
  /\ about = DirectoryScene /\ Next
  /\ UNCHANGED <<hostVars, artistVars, rockVars, e2eVars, editorsVars>>
AuthorityPart ==
  /\ about = AuthorityScene /\ ArtistNext
  /\ UNCHANGED <<vars, hostVars, rockVars, e2eVars, editorsVars>>
RockPart ==
  /\ about = RockScene /\ RockNext
  /\ UNCHANGED <<vars, hostVars, artistVars, e2eVars, editorsVars>>
ProbePart ==
  /\ about = ProbeScene /\ E2eNext
  /\ UNCHANGED <<vars, hostVars, artistVars, rockVars, editorsVars>>
EditorPart ==
  /\ about = EditorScene /\ EditorsNext
  /\ UNCHANGED <<vars, hostVars, artistVars, rockVars, e2eVars>>

MCNext ==
  /\ \/ RequestPart \/ DirectoryPart \/ AuthorityPart
     \/ RockPart \/ ProbePart \/ EditorPart
  /\ UNCHANGED about

allVars == <<vars, hostVars, artistVars, rockVars, e2eVars, editorsVars, about>>

MCSpec == MCInit /\ [][MCNext]_allVars

\* Sessions and approvals are interchangeable.
MCSymmetry == Permutations(Sessions) \union Permutations(Decisions)
=============================================================================
