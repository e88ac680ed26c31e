---------------------------- MODULE MCControlRun -----------------------------
(* Three Runs.  Files are read and patched by one Provider only, the Editor    *)
(* compiles, an inspection is offered three times with rising rank, and a    *)
(* specialist's workflow twice; the official CLI may be away.                *)
EXTENDS ControlRun

Needing(safety, proof, mutates, serialized, specialist) ==
  [safety |-> safety, evidence |-> proof, requires |-> {"result"}, mutates |-> mutates,
   serialized |-> serialized, specialist |-> specialist]
MCNeeds ==
  [k \in Capabilities |->
    CASE k = "source.read"     -> Needing(2, 2, FALSE, FALSE, None)
      [] k = "source.patch"    -> Needing(4, 3, TRUE, TRUE, None)
      [] k = "compile.observe" -> Needing(3, 3, FALSE, TRUE, None)
      [] k = "project.inspect" -> Needing(2, 2, FALSE, FALSE, None)
      [] k = "domain.workflow" -> Needing(3, 3, TRUE, TRUE, "artist")]

Offering(priority, safety, proof) ==
  [priority |-> priority, safety |-> safety, evidence |-> proof,
   provides |-> {"result"}, keepsScope |-> TRUE]
MCOffers ==
  [k \in Capabilities |-> [p \in Providers |->
    CASE k \in {"source.read", "source.patch"} /\ p = "file" -> Offering(1, 4, 4)
      [] k = "compile.observe" /\ p = "native" -> Offering(1, 4, 4)
      [] k = "project.inspect" /\ p = "file"   -> Offering(1, 2, 3)
      [] k = "project.inspect" /\ p = "cli"    -> Offering(2, 3, 3)
      [] k = "project.inspect" /\ p = "native" -> Offering(3, 3, 3)
      [] k = "domain.workflow" /\ p = "cli"    -> Offering(2, 4, 4)
      [] k = "domain.workflow" /\ p = "native" -> Offering(1, 4, 4)
      [] OTHER -> None]]

MCDescriptors ==
  [p \in Providers |->
    [safety |-> 4, evidence |-> 4, profile |-> IF p = "cli" THEN "artist" ELSE None,
     transport |-> p # "file"]]

AllWell == [p \in Providers |-> "none"]
MCSnapshots == {AllWell, [AllWell EXCEPT !["cli"] = "unavailable"]}

MCAsks == <<Kinds \ {"apply"}, {"apply"}, {"apply", "verify"}>>

MCSequence ==
  [kind \in Kinds |->
    CASE kind = "propose" -> <<"source.read">>
      [] kind = "apply"   -> <<"source.read", "source.patch", "compile.observe">>
      [] kind = "verify"  -> <<"source.read", "compile.observe">>
      [] kind = "inspect" -> <<"source.read", "project.inspect">>
      [] kind = "art"     -> <<"domain.workflow">>]
=============================================================================
