CONSTANTS
  Appends = {a1, a2, a3}
  EvidenceRuns = {"run", "other"}
  Ids <- MCIds
  EvidenceRunOf <- MCRunOf
  Bodies = {"a", "b"}
  Requests <- MCRequests
  NoRecord = NoRecord
  Nobody = Nobody
SPECIFICATION StoreSpec
INVARIANTS
  ConfirmedVerifies
CHECK_DEADLOCK FALSE
