CONSTANTS
  StoreScene = StoreScene
  GateScene = GateScene
  CiScene = CiScene
  SpecialistScene = SpecialistScene
  ReasoningScene = ReasoningScene
  CatalogScene = CatalogScene
  ProviderScene = ProviderScene
  Appends = {1, 2, 3}
  EvidenceRuns = {"run", "other"}
  Ids <- MCIds
  EvidenceRunOf <- MCEvidenceRunOf
  Bodies = {"a", "b"}
  Requests <- MCRequests
  NoRecord = NoRecord
  Nobody = Nobody
  Calls = {1, 2, 3}
  b1 = b1
  b2 = b2
  b3 = b3
  run = run
  approval = approval
  Actions = {b1, b2, b3}
  Runs = {run}
  Approvals = {approval}
  ApprovalOf <- MCApprovalOf
  Keys = {"key", "other"}
  RunOf <- MCRunOf
  KeyOf <- MCKeyOf
  KindCount = 2
  Jobs <- MCJobs
  Nothing = Nothing
  WorkflowRuns = {1, 2, 3, 4}
  None = None
  Edits = {e1}
  MaxDeaths = 1
  MaxDismissals = 1
  CameraCalls = {1}
  Contracts = {"reviewed", "other"}
  ReviewedContract = "reviewed"
  Fovs = {43, 60, 200}
  ProfileRange <- MCProfileRange
  Budgets <- MCBudgets
  Thinkers = {1, 2}
  Inquiries <- MCInquiries
  Findings <- MCFindings
  Contents = {"urp", "custom", "old"}
  VersionIn <- MCVersionIn
  PipelineIn <- MCPipelineIn
  MaxRewrites = 1
  MaxLosses = 1
  Absent = Absent
  Exports <- MCExports
  Snapshots <- MCSnapshots
  Edited <- MCEdited
  FirstCatalog <- MCFirstCatalog
  Backends = {"cli"}
  Observing <- MCObserving
  KnownFacts = {"cli", "model"}
  MaxImports = 2
  MaxMoves = 2
  Worlds <- MCWorlds
  MaxShifts = 1
  Registry <- MCRegistry
  Floors <- MCFloors
  Policies <- MCPolicies
  Profiles <- MCProfiles
  Asks <- MCAsks
  Contexts <- MCContexts
  MaxServed = 2
SPECIFICATION MCSpec
INVARIANTS
  KeyDispatchedOnce
  CommittedIsProven
  CompletedRunVerifies
  ProgressIsBacked
  EditBetweenStagesStops
  SpecialistHeld
  ReasonedOnObserved
  ImportsKeepAnswers
  ServedAsSeen
PROPERTIES
  StaysVerified
CHECK_DEADLOCK FALSE
