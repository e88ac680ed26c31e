--------------------------- MODULE MCReferenceGate ---------------------------
(* One Run and its approval, with three actions, two of which use the same    *)
(* idempotency key.                                                          *)
EXTENDS ReferenceGate, TLC

CONSTANTS a1, a2, a3, run, approval

MCRunOf == [a \in Actions |-> run]
MCKeyOf == [a \in Actions |-> IF a = a3 THEN "other" ELSE "key"]
MCApprovalOf == [a \in Actions |-> approval]
MCJobs == {[op |-> "dispatch", action |-> a] : a \in Actions}
          \union {[op |-> "recover", action |-> a1]}

MCSymmetry == Permutations(Calls)
=============================================================================
