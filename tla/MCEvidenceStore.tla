--------------------------- MODULE MCEvidenceStore ---------------------------
(* Two Runs; one of them meets itself on an identity with two contents and   *)
(* appends another one, the other Run is beside it.                          *)
EXTENDS EvidenceStore

MCRunOf == [i \in Ids |-> IF i = "other-evidence-1" THEN "other" ELSE "run"]
MCIds == {"run-evidence-1", "run-evidence-2", "other-evidence-1"}
MCRequests == [id : {"run-evidence-1"}, body : Bodies]
              \union [id : {"run-evidence-2", "other-evidence-1"}, body : {"a"}]
=============================================================================
