CONSTANTS
  WorkspaceScene = WorkspaceScene
  SetupScene = SetupScene
  LiveScene = LiveScene
  CommandScene = CommandScene
  LiveRuns = {"live"}
  LiveNumbers = {1, 2}
  LiveOrders <- MCLiveOrders
  LooksOf = {40, 43}
  Rest = {0, 1}
  BaseScene <- MCBaseScene
  FovBefore = 40
  FovAfter = 43
  Shut = Shut
  Untold = Untold
  MaxConsents = 2
  MaxUnasked = 1
  Looking = TRUE
  MaxEdits = 1
  MaxCalls = 3
  None = None
  SetupRuns = {"first", "second", "third"}
  SetupOps <- MCSetupOps
  SetupAsks <- MCSetupAsks
  FirstHosts <- MCFirstHosts
  MaxHostChanges = 1
  Unset = Unset
  ArtRuns = {a1, a2}
  Manual = Manual
  Places <- MCPlaces
  SetBy <- MCSetBy
  Looks = {"plain", "set"}
  Intents <- MCIntents
  NoIntent = NoIntent
  MaxPlans = 2
  MaxShots = 1
  MaxArtEdits = 1
  MaxEditors = 2
SPECIFICATION MCSpec
SYMMETRY MCSymmetry
INVARIANTS
  ChildStartedOnce
  ResumableIsComplete
  ProvenIsReviewed
  ReceiptIsBacked
PROPERTIES
  UnionExact
  ApplyIsReviewedOrNothing
CHECK_DEADLOCK FALSE
