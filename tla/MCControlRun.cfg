SPECIFICATION FairSpec
CONSTANTS
  Calls = {1, 2, 3}
  None = None
  Providers = {"file", "native", "cli"}
  Executors = {"file", "native", "cli"}
  Capabilities = {"source.read", "source.patch", "compile.observe", "project.inspect", "domain.workflow"}
  Needs <- MCNeeds
  Offers <- MCOffers
  Descriptors <- MCDescriptors
  Snapshots <- MCSnapshots
  Kinds = {"propose", "apply", "verify", "inspect", "art"}
  Asks <- MCAsks
  Sequence <- MCSequence
  Outcomes = {"passed", "timeout", "unavailable", "not_observed"}
  MaxRetries = 1
  MaxEdits = 1
INVARIANTS
  PatchedOnce
  CompletedIsExact
  FallbackNeverWeaker
PROPERTIES
  RunAnswers
CHECK_DEADLOCK FALSE
