---------------------------- MODULE ToolDispatch -----------------------------
(***************************************************************************)
(* dispatch_capability (runtime/dispatcher/tool_runtime_dispatcher.py) with *)
(* the resolver and the fallback policy behind it: one capability request   *)
(* is carried out by one provider, is tried again by the same one after a   *)
(* transport failure, or goes on to another that is not weaker.             *)
(*                                                                         *)
(* `calls' dispatch concurrently, in processes of their own; what they      *)
(* share is the Runtime lease of the Project.  The environment snapshot and *)
(* the approval context are fixed when a call begins.                       *)
(***************************************************************************)
EXTENDS Naturals, Sequences, FiniteSets

CONSTANTS
  Calls,         \* the dispatches
  Providers,
  Capabilities,
  Needs,         \* per capability: floors, required evidence, specialist, ...
  Offers,        \* per capability: who offers it, and how strongly
  Descriptors,   \* per provider: its own strengths and specialist profile
  Executors,     \* the providers this process has an executor for
  Snapshots,     \* what an environment snapshot may say against a provider
  MaxRetries,    \* maximum_retry_attempts
  None

FailureClasses ==
  {"unhealthy", "timeout", "unavailable", "unsupported", "backend_not_implemented",
   "unknown", "not_observed", "ambiguous_binding", "scope_violation", "execution_failed",
   "resource_conflict", "blocked_by_approval", "precondition_failed"}

Offer == [priority : Nat, safety : Nat, evidence : Nat, provides : SUBSET STRING,
          keepsScope : BOOLEAN]
Need == [safety : Nat, evidence : Nat, requires : SUBSET STRING, mutates : BOOLEAN,
         serialized : BOOLEAN, specialist : STRING \union {None}]

ASSUME DispatchConstants ==
  /\ None \notin Providers \union Capabilities \union STRING
  /\ Needs \in [Capabilities -> Need]
  /\ \A k \in Capabilities : Offers[k] \in [Providers -> Offer \union {None}]
  /\ Descriptors \in [Providers -> [safety : Nat, evidence : Nat,
                                    profile : STRING \union {None}, transport : BOOLEAN]]
  /\ Executors \subseteq Providers /\ IsFiniteSet(Executors)
  /\ Snapshots \subseteq [Providers -> FailureClasses \union {"none"}]
  /\ MaxRetries \in Nat

VARIABLES
  at,         \* where each call is
  request,    \* the capability it is about, None outside a call
  snapshot,   \* the environment snapshot its caller works with
  resolution, \* the provider that was resolved, and the profile it was resolved for
  attempts,   \* the attempts made so far: provider and result
  retries,    \* retries used
  answer,     \* the status the call returned, and what had become of its resolution
  editor      \* who holds the Runtime lease of the Project

dispatchVars == <<at, request, snapshot, resolution, attempts, retries, answer, editor>>

NoAnswer == [status |-> "none", resolution |-> "none"]
NoResolution == [provider |-> None, profile |-> None]

DispatchInit ==
  /\ at = [c \in Calls |-> "idle"]
  /\ request = [c \in Calls |-> None]
  /\ snapshot = [c \in Calls |-> None]
  /\ resolution = [c \in Calls |-> NoResolution]
  /\ attempts = [c \in Calls |-> <<>>]
  /\ retries = [c \in Calls |-> 0]
  /\ answer = [c \in Calls |-> NoAnswer]
  /\ editor = None

-----------------------------------------------------------------------------
(* resolve_capability: eligibility first, rank afterwards.                  *)

Max2(a, b) == IF a >= b THEN a ELSE b

FloorsIgnoringPrevious(k, previous) ==   \* mutant: a fallback starts from the plain floors
  [safety |-> Needs[k].safety, evidence |-> Needs[k].evidence]

\* A fallback may not be weaker than the provider it replaces.
Floors(k, previous) ==
  IF previous = None THEN [safety |-> Needs[k].safety, evidence |-> Needs[k].evidence]
  ELSE [safety   |-> Max2(Needs[k].safety, Offers[k][previous].safety),
        evidence |-> Max2(Needs[k].evidence, Offers[k][previous].evidence)]

Candidates(k, previous) == {p \in Providers \ {previous} : Offers[k][p] # None}

\* Why a candidate is rejected, in the order the resolver looks; "none" if it is not.
Rejection(k, facts, previous, p) ==
  LET offer == Offers[k][p]
      floor == Floors(k, previous)
  IN IF facts[p] # "none" THEN facts[p]
     ELSE IF offer.safety < floor.safety \/ offer.evidence < floor.evidence
             \/ ~ (Needs[k].requires \subseteq offer.provides) THEN "unsupported"
     ELSE IF Needs[k].mutates /\ ~offer.keepsScope THEN "scope_violation"
     ELSE "none"

Eligible(k, facts, previous) ==
  {p \in Candidates(k, previous) : Rejection(k, facts, previous, p) = "none"}

Best(k, S) == {p \in S : \A q \in S : Offers[k][q].priority <= Offers[k][p].priority}

\* The provider that wins alone, or None: nobody is eligible, or the rank is tied.
Resolved(k, facts, previous) ==
  LET best == Best(k, Eligible(k, facts, previous))
  IN IF \E p \in best : best = {p} THEN CHOOSE p \in best : best = {p} ELSE None

\* compare_fallback_strength: the descriptors' own strengths, the evidence, the scope.
NotWeaker(k, previous, candidate) ==
  /\ Descriptors[candidate].safety >= Descriptors[previous].safety
  /\ Descriptors[candidate].evidence >= Descriptors[previous].evidence
  /\ Needs[k].requires \subseteq Offers[k][candidate].provides
  /\ Offers[k][candidate].keepsScope

-----------------------------------------------------------------------------
(* The steps of a call.                                                     *)

Return(c, status, resolved) ==
  /\ at' = [at EXCEPT ![c] = "answered"]
  /\ answer' = [answer EXCEPT ![c] = [status |-> status, resolution |-> resolved]]

\* The guard may refuse the request; then the broker resolves it.
Begin(c, k) ==
  /\ at[c] = "idle"
  /\ request' = [request EXCEPT ![c] = k]
  /\ LET p == Resolved(k, snapshot[c], None) IN
       \/ /\ resolution' = [resolution EXCEPT ![c] = NoResolution]
          /\ Return(c, "blocked", "none")
       \/ /\ p = None
          /\ resolution' = [resolution EXCEPT ![c] = NoResolution]
          /\ Return(c, "blocked", "failed")
       \/ /\ p # None
          /\ resolution' = [resolution EXCEPT ![c] =
               [provider |-> p, profile |-> Descriptors[p].profile]]
          /\ at' = [at EXCEPT ![c] = "attempt"]
          /\ UNCHANGED answer
  /\ UNCHANGED <<snapshot, attempts, retries, editor>>

AttemptLimit == Max2(1, Cardinality(Executors) + MaxRetries + 2)

\* A specialist's Context goes to the profile it was made for, over a transport for it.
SpecialistBound(c) ==
  LET specialist == Needs[request[c]].specialist
      bound == resolution[c]
  IN specialist # None => /\ bound.profile = specialist
                          /\ Descriptors[bound.provider].transport

\* Editor work and mutations hold the Runtime lease of the Project while they run.
Serialized(c) == Needs[request[c]].serialized

\* Before each attempt: the ceiling, the guard (it is asked again about the same request,
\* snapshot and context, so it answers as before), the specialist, the lease.
Attempt(c) ==
  /\ at[c] = "attempt"
  /\ LET free == ~Serialized(c) \/ editor = None
         may == Len(attempts[c]) < AttemptLimit /\ SpecialistBound(c) /\ free
     IN \/ /\ ~may
           /\ Return(c, "blocked", "resolved")
           /\ UNCHANGED editor
        \/ /\ may
           /\ at' = [at EXCEPT ![c] = "invoke"]
           /\ editor' = IF Serialized(c) THEN c ELSE editor
           /\ UNCHANGED answer
  /\ UNCHANGED <<request, snapshot, resolution, attempts, retries>>

\* The executor returns or raises; a provider without one fails by itself.
Invoke(c, result) ==
  /\ at[c] = "invoke"
  /\ resolution[c].provider \notin Executors => result = "backend_not_implemented"
  /\ attempts' = [attempts EXCEPT ![c] =
       Append(@, [provider |-> resolution[c].provider, result |-> result])]
  /\ at' = [at EXCEPT ![c] = "judge"]
  /\ editor' = IF Serialized(c) THEN None ELSE editor
  /\ UNCHANGED <<request, snapshot, resolution, retries, answer>>

\* The lease cannot be released: the call is blocked, whatever its executor did, and the
\* lease stays until somebody looks.
LoseLease(c) ==
  /\ at[c] = "invoke"
  /\ Serialized(c)
  /\ Return(c, "blocked", "resolved")
  /\ UNCHANGED <<request, snapshot, resolution, attempts, retries, editor>>

LastResult(c) == attempts[c][Len(attempts[c])].result

\* A specialist's result counts only with the identity of the Context it received.
Pass(c) ==
  /\ at[c] = "judge"
  /\ LastResult(c) = "passed"
  /\ \/ Return(c, "completed", "resolved")
     \/ Needs[request[c]].specialist # None /\ Return(c, "unacknowledged", "resolved")
  /\ UNCHANGED <<request, snapshot, resolution, attempts, retries, editor>>

Retryable == {"unhealthy", "timeout"}
Reresolvable == {"unavailable", "unsupported", "backend_not_implemented"}
Unproven == {"unknown", "not_observed"}

Retry(c) ==
  /\ at[c] = "judge"
  /\ LastResult(c) \in Retryable /\ retries[c] < MaxRetries
  /\ retries' = [retries EXCEPT ![c] = @ + 1]
  /\ at' = [at EXCEPT ![c] = "attempt"]
  /\ UNCHANGED <<request, snapshot, resolution, attempts, answer, editor>>

\* The provider after the one that failed, if the same capability can be had as safely.
Successor(c) ==
  LET p == Resolved(request[c], snapshot[c], resolution[c].provider)
  IN IF p # None /\ NotWeaker(request[c], resolution[c].provider, p) THEN p ELSE None

Movable(c) ==
  \/ LastResult(c) \in Reresolvable
  \/ LastResult(c) \in Retryable /\ retries[c] >= MaxRetries

FallbackForgetting(c) ==   \* mutant: the attempts are counted per provider
  /\ at[c] = "judge"
  /\ Movable(c)
  /\ Successor(c) # None
  /\ resolution' = [resolution EXCEPT ![c] = [provider |-> Successor(c), profile |-> None]]
  /\ attempts' = [attempts EXCEPT ![c] = <<>>]
  /\ at' = [at EXCEPT ![c] = "attempt"]
  /\ UNCHANGED <<request, snapshot, retries, answer, editor>>

\* The new resolution carries no profile: a specialist's Context never moves on.
Fallback(c) ==
  /\ at[c] = "judge"
  /\ Movable(c)
  /\ Successor(c) # None
  /\ resolution' = [resolution EXCEPT ![c] = [provider |-> Successor(c), profile |-> None]]
  /\ at' = [at EXCEPT ![c] = "attempt"]
  /\ UNCHANGED <<request, snapshot, attempts, retries, answer, editor>>

Stop(c) ==
  /\ at[c] = "judge"
  /\ LastResult(c) # "passed"
  /\ ~ (LastResult(c) \in Retryable /\ retries[c] < MaxRetries)
  /\ Movable(c) => Successor(c) = None
  /\ Return(c, IF LastResult(c) \in Unproven THEN "partial" ELSE "blocked", "resolved")
  /\ UNCHANGED <<request, snapshot, resolution, attempts, retries, editor>>

\* The caller has its answer, or its process dies: a lease that is still held stays.
Forget(c) ==
  /\ at' = [at EXCEPT ![c] = "idle"]
  /\ request' = [request EXCEPT ![c] = None]
  /\ resolution' = [resolution EXCEPT ![c] = NoResolution]
  /\ attempts' = [attempts EXCEPT ![c] = <<>>]
  /\ retries' = [retries EXCEPT ![c] = 0]
  /\ answer' = [answer EXCEPT ![c] = NoAnswer]
  /\ UNCHANGED editor

\* What a call does by itself once it was begun, without the executor.
Deliberate(c) ==
  Attempt(c) \/ LoseLease(c) \/ Pass(c) \/ Retry(c) \/ Fallback(c) \/ Stop(c)

-----------------------------------------------------------------------------
(* Properties.                                                              *)

\* Whatever fails, and however often providers take turns, no attempt goes to a provider
\* weaker than one that was tried before, or to one that cannot bring the evidence.
FallbackNeverWeaker ==
  \A c \in Calls : \A j \in DOMAIN attempts[c] :
    LET offer == Offers[request[c]][attempts[c][j].provider] IN
      /\ Needs[request[c]].requires \subseteq offer.provides
      /\ \A i \in 1..j :
           LET earlier == Offers[request[c]][attempts[c][i].provider] IN
             earlier.safety <= offer.safety /\ earlier.evidence <= offer.evidence
=============================================================================
