------------------------------- MODULE ArtistRun -------------------------------
(***************************************************************************)
(* A reviewed Artist plan and its single use: approval_store.py, the        *)
(* ArtistAuthority that answers the Editor while execute_artist waits for   *)
(* it (control_plane/artist_authority.py, artist_execution.py), and the     *)
(* Editor's side (AuthorityClient.cs, ArtistSession.Apply).                  *)
(*                                                                         *)
(* A session is one call of execute_artist for an apply.  It leaves a       *)
(* descriptor file in the Project, sends the command through the CLI and    *)
(* waits.  The Editor, which handles one command at a time, asks whoever    *)
(* the descriptor names; a handler thread of that session consumes the      *)
(* approval.  The session may stop waiting, or die, at any point of this,   *)
(* and neither the Editor nor the handler is told.                          *)
(***************************************************************************)
EXTENDS Naturals

CONSTANTS
  Sessions,      \* calls of execute_artist
  Decisions,     \* approvals: each approve makes a new one
  ArtistPlans,   \* plans: each planning makes a new one
  Nil,
  MaxScene       \* bound of the model: revisions of the open scenes

\* An approval record: its plan, whether it is bound to it, revoked, expired, and who used it.
DecisionRecord ==
  [plan : ArtistPlans, bound : BOOLEAN, revoked : BOOLEAN, expired : BOOLEAN,
   used : Sessions \union {Nil}]

\* Nothing the program stores is taken for the absence of it.
ASSUME ArtistConstants == Nil \notin Sessions \union Nat \union DecisionRecord /\ MaxScene \in Nat

VARIABLES
  \* ---- the Editor
  scene,       \* revision of what is open in it
  stored,      \* the plans its session holds: the revision each was made for
  inbox,       \* commands it has received
  handling,    \* the command it is busy with, and how far
  mutations,   \* history: the mutations it made
  \* ---- files
  reviewed,    \* artist-plans/<plan>.json: the revision each plan is for
  decision,    \* the approval records
  guarded,     \* the file lock of each approval record
  descriptor,  \* Library/UnityAgent/ArtistAuthority.json: the session it names
  \* ---- the sessions
  stage, uses, \* where a session is, and the approval it was given
  consumer,    \* where its handler thread is
  ending      \* the result its provider returned, then the Run's status

editorVars == <<scene, stored, inbox, handling, mutations>>
recordVars == <<reviewed, decision, guarded, descriptor>>
sessionVars == <<stage, uses, consumer, ending>>
artistVars == <<editorVars, recordVars, sessionVars>>

ArtistInit ==
  /\ scene = 0
  /\ stored = [p \in ArtistPlans |-> Nil] /\ reviewed = [p \in ArtistPlans |-> Nil]
  /\ inbox = {} /\ handling = Nil /\ mutations = {}
  /\ decision = [d \in Decisions |-> Nil] /\ guarded = [d \in Decisions |-> Nil]
  /\ descriptor = Nil
  /\ stage = [s \in Sessions |-> "idle"] /\ uses = [s \in Sessions |-> Nil]
  /\ consumer = [s \in Sessions |-> "none"] /\ ending = [s \in Sessions |-> "none"]

Plan(s) == decision[uses[s]].plan

\* validate_artist_decision on the record as it is: bound to its plan, neither revoked nor expired.
Valid(d) ==
  /\ decision[d] # Nil
  /\ decision[d].bound /\ ~decision[d].revoked /\ ~decision[d].expired

-----------------------------------------------------------------------------
(* People.                                                                  *)

\* A planning command: the Editor keeps the plan, register_artist_plan its file.
MakePlan(p) ==
  /\ handling = Nil /\ reviewed[p] = Nil
  /\ stored' = [stored EXCEPT ![p] = scene]
  /\ reviewed' = [reviewed EXCEPT ![p] = scene]
  /\ UNCHANGED <<scene, inbox, handling, mutations, decision, guarded, descriptor, sessionVars>>

\* approve_artist_plan: a new record, then a second save that binds the plan to it.
ApprovePlan(d, p) ==
  /\ decision[d] = Nil /\ reviewed[p] # Nil
  /\ decision' = [decision EXCEPT ![d] =
       [plan |-> p, bound |-> FALSE, revoked |-> FALSE, expired |-> FALSE, used |-> Nil]]
  /\ UNCHANGED <<editorVars, reviewed, guarded, descriptor, sessionVars>>

BindPlan(d) ==
  /\ decision[d] # Nil /\ guarded[d] = Nil /\ ~decision[d].bound
  /\ decision' = [decision EXCEPT ![d].bound = TRUE]
  /\ UNCHANGED <<editorVars, reviewed, guarded, descriptor, sessionVars>>

RevokePlan(d) ==
  /\ decision[d] # Nil /\ guarded[d] = Nil /\ ~decision[d].revoked
  /\ decision' = [decision EXCEPT ![d].revoked = TRUE]
  /\ UNCHANGED <<editorVars, reviewed, guarded, descriptor, sessionVars>>

ExpirePlan(d) ==
  /\ decision[d] # Nil /\ ~decision[d].expired
  /\ decision' = [decision EXCEPT ![d].expired = TRUE]
  /\ UNCHANGED <<editorVars, reviewed, guarded, descriptor, sessionVars>>

-----------------------------------------------------------------------------
(* A session.                                                               *)

Turn(s, from, to) == stage[s] = from /\ stage' = [stage EXCEPT ![s] = to]

\* The approval is looked up; one that has started an execution is refused here already.
ResolvePlan(s, d) ==
  /\ IF Valid(d) /\ decision[d].used = Nil
     THEN Turn(s, "idle", "resolved") ELSE Turn(s, "idle", "over")
  /\ uses' = [uses EXCEPT ![s] = d]
  /\ UNCHANGED <<editorVars, recordVars, consumer, ending>>

\* __enter__: validated again; the descriptor is created exclusively, and a server started.
EnterAuthority(s) ==
  /\ stage[s] = "resolved"
  /\ IF Valid(uses[s]) /\ descriptor = Nil
     THEN Turn(s, "resolved", "serving") /\ descriptor' = s
     ELSE Turn(s, "resolved", "over") /\ UNCHANGED descriptor
  /\ UNCHANGED <<editorVars, reviewed, decision, guarded, uses, consumer, ending>>

\* The provider sends the command, or refuses to before that.
SendCommand(s) ==
  /\ \/ Turn(s, "serving", "waiting") /\ inbox' = inbox \union {s} /\ UNCHANGED ending
     \/ /\ Turn(s, "serving", "leaving") /\ UNCHANGED inbox
        /\ ending' = [ending EXCEPT ![s] = "failed"]
  /\ UNCHANGED <<scene, stored, handling, mutations, recordVars, uses, consumer>>

\* A timeout or a cancellation ends the CLI; the Editor keeps what it was sent.
StopWaiting(s) ==
  /\ Turn(s, "waiting", "leaving")
  /\ ending' = [ending EXCEPT ![s] = "failed"]
  /\ UNCHANGED <<editorVars, recordVars, uses, consumer>>

\* __exit__: the server is closed, its handler threads are not waited for; the
\* descriptor goes if it is one's own.
LeaveAuthority(s) ==
  /\ Turn(s, "leaving", "recording")
  /\ descriptor' = IF descriptor = s THEN Nil ELSE descriptor
  /\ UNCHANGED <<editorVars, reviewed, decision, guarded, uses, consumer, ending>>

\* The Editor's result is believed only with the reservation this session was given.
Believed(s) == ending[s] = "passed" /\ consumer[s] = "saved"

RecordRun(s) ==
  /\ Turn(s, "recording", "over")
  /\ ending' = [ending EXCEPT ![s] = IF Believed(s) THEN "completed" ELSE "blocked"]
  /\ UNCHANGED <<editorVars, recordVars, uses, consumer>>

\* The process dies, with its handler thread; its descriptor stays.
DieServing(s) ==
  /\ stage[s] \notin {"idle", "over"}
  /\ stage' = [stage EXCEPT ![s] = "over"]
  /\ consumer' = [consumer EXCEPT ![s] = "none"]
  /\ guarded' = [d \in Decisions |-> IF guarded[d] = s THEN Nil ELSE guarded[d]]
  /\ UNCHANGED <<editorVars, reviewed, decision, descriptor, uses, ending>>

-----------------------------------------------------------------------------
(* The handler thread of a session: authorize, consume_artist_plan.         *)

CheckUnguarded(s) ==   \* mutant: what is checked is not what the lock protects
  /\ consumer[s] = "asked"
  /\ consumer' = [consumer EXCEPT ![s] =
       IF Valid(uses[s]) /\ decision[uses[s]].used = Nil THEN "checked" ELSE "refused"]
  /\ UNCHANGED <<editorVars, recordVars, stage, uses, ending>>

\* Below the lock of the record, which is read again.
CheckUnused(s) ==
  /\ consumer[s] = "asked" /\ guarded[uses[s]] = Nil
  /\ IF Valid(uses[s]) /\ decision[uses[s]].used = Nil
     THEN /\ consumer' = [consumer EXCEPT ![s] = "checked"]
          /\ guarded' = [guarded EXCEPT ![uses[s]] = s]
     ELSE consumer' = [consumer EXCEPT ![s] = "refused"] /\ UNCHANGED guarded
  /\ UNCHANGED <<editorVars, reviewed, decision, descriptor, stage, uses, ending>>

\* This save is the point of no return.
SaveConsumption(s) ==
  /\ consumer[s] = "checked"
  /\ consumer' = [consumer EXCEPT ![s] = "saved"]
  /\ decision' = [decision EXCEPT ![uses[s]].used = s]
  /\ guarded' = [guarded EXCEPT ![uses[s]] = Nil]
  /\ UNCHANGED <<editorVars, reviewed, descriptor, stage, uses, ending>>

-----------------------------------------------------------------------------
(* The Editor, on its main thread: nobody edits while it is busy.           *)

\* It is done with a command; whoever still waits for it hears the result.
Finished(s, result) ==
  /\ handling' = Nil
  /\ IF stage[s] = "waiting"
     THEN /\ stage' = [stage EXCEPT ![s] = "leaving"]
          /\ ending' = [ending EXCEPT ![s] = result]
     ELSE UNCHANGED <<stage, ending>>

\* The plan is looked up, and must be for what is open now.
BeginCommand(s) ==
  /\ handling = Nil /\ s \in inbox
  /\ inbox' = inbox \ {s}
  /\ IF stored[Plan(s)] = scene /\ reviewed[Plan(s)] = scene
     THEN handling' = [of |-> s, step |-> "ask", to |-> Nil] /\ UNCHANGED <<stage, ending>>
     ELSE Finished(s, "failed")
  /\ UNCHANGED <<scene, stored, mutations, recordVars, uses, consumer>>

Serving(s) == stage[s] \in {"serving", "waiting", "leaving"}

AnswersAnyToken(s) == descriptor # Nil /\ Serving(descriptor)   \* mutant: the token is not compared

\* The descriptor names a session that lives, and the command carries that session's token.
Answers(s) == descriptor = s /\ Serving(descriptor)

AskAuthority ==
  /\ handling # Nil /\ handling.step = "ask"
  /\ LET s == handling.of IN
     IF Answers(s)
     THEN /\ handling' = [of |-> s, step |-> "listen", to |-> descriptor]
          /\ consumer' = [consumer EXCEPT ![descriptor] = "asked"]
          /\ UNCHANGED <<stage, ending>>
     ELSE Finished(s, "failed") /\ UNCHANGED consumer
  /\ UNCHANGED <<scene, stored, inbox, mutations, recordVars, uses>>

\* The answer, or three seconds without one.
HearAuthority ==
  /\ handling # Nil /\ handling.step = "listen"
  /\ \/ /\ consumer[handling.to] = "saved"
        /\ handling' = [handling EXCEPT !.step = "granted"]
        /\ UNCHANGED <<stage, ending>>
     \/ Finished(handling.of, "failed")
  /\ UNCHANGED <<scene, stored, inbox, mutations, recordVars, uses, consumer>>

\* The mutation, observed and kept; or one that does not come out as approved, taken back.
MutateScene ==
  /\ handling # Nil /\ handling.step = "granted"
  /\ LET s == handling.of IN
     \/ /\ Finished(s, "passed")
        /\ mutations' = mutations \union {[session |-> s, plan |-> Plan(s), on |-> scene]}
        /\ stored' = [stored EXCEPT ![Plan(s)] = Nil]
        /\ scene' = scene + 1
     \/ Finished(s, "failed") /\ UNCHANGED <<mutations, stored, scene>>
  /\ UNCHANGED <<inbox, recordVars, uses, consumer>>

EditScene ==
  /\ handling = Nil /\ scene < MaxScene
  /\ scene' = scene + 1
  /\ UNCHANGED <<stored, inbox, handling, mutations, recordVars, sessionVars>>

\* The Editor goes down and comes back without its plans; a command in its hands fails.
RestartEditor ==
  /\ \E p \in ArtistPlans : stored[p] # Nil
  /\ stored' = [p \in ArtistPlans |-> Nil]
  /\ inbox' = {} /\ handling' = Nil
  /\ LET lost == inbox \union (IF handling = Nil THEN {} ELSE {handling.of})
         told == {s \in lost : stage[s] = "waiting"}
     IN /\ stage' = [s \in Sessions |-> IF s \in told THEN "leaving" ELSE stage[s]]
        /\ ending' = [s \in Sessions |-> IF s \in told THEN "failed" ELSE ending[s]]
  /\ UNCHANGED <<scene, mutations, recordVars, uses, consumer>>

-----------------------------------------------------------------------------

ArtistSession(s) ==
  \/ \E d \in Decisions : ResolvePlan(s, d)
  \/ EnterAuthority(s) \/ SendCommand(s) \/ StopWaiting(s) \/ LeaveAuthority(s)
  \/ RecordRun(s) \/ DieServing(s) \/ CheckUnused(s) \/ SaveConsumption(s) \/ BeginCommand(s)

ArtistNext ==
  \/ \E s \in Sessions : ArtistSession(s)
  \/ \E d \in Decisions :
       BindPlan(d) \/ RevokePlan(d) \/ ExpirePlan(d) \/ \E p \in ArtistPlans : ApprovePlan(d, p)
  \/ \E p \in ArtistPlans : MakePlan(p)
  \/ AskAuthority \/ HearAuthority \/ MutateScene \/ EditScene \/ RestartEditor

ArtistSpec == ArtistInit /\ [][ArtistNext]_artistVars

-----------------------------------------------------------------------------
(* Properties.                                                              *)

\* Every mutation is the single use of an approval: made for the session that consumed
\* it, of the plan that was approved, on the revision that was reviewed; no approval and
\* no plan serves for a second one, whoever stopped waiting or died.
MutationIsApproved ==
  /\ \A m \in mutations :
       /\ decision[uses[m.session]].used = m.session
       /\ m.on = reviewed[m.plan]
  /\ \A m, n \in mutations :
       uses[m.session] = uses[n.session] \/ m.plan = n.plan => m = n

\* A revocation that was saved before the consumption prevents it: what is saved as used
\* was not revoked then.
RevokedNeverStarts ==
  [][\A d \in Decisions : decision[d] # Nil /\ decision'[d].used # decision[d].used
       => ~decision[d].revoked /\ decision[d].used = Nil]_artistVars
=============================================================================
