CONSTANTS
  Calls = {c1}
  a1 = a1
  a2 = a2
  a3 = a3
  run = run
  Actions = {a1, a2, a3}
  Runs = {run}
  approval = approval
  Approvals = {approval}
  ApprovalOf <- MCApprovalOf
  Keys = {"key", "other"}
  RunOf <- MCRunOf
  KeyOf <- MCKeyOf
  KindCount = 2
  Jobs <- MCJobs
  Nothing = Nothing
SPECIFICATION Spec
SYMMETRY MCSymmetry
INVARIANT
  InterruptedAwaitsRecovery
CHECK_DEADLOCK FALSE
