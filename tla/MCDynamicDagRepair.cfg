SPECIFICATION FairSpec
CONSTANTS
  Ids <- MCIds
  Bodies <- MCBodies
  RootBodies <- MCRootBodies
  Twins <- MCTwins
  InitialTasks <- MCInitialTasks
  Proposals <- MCFewProposals
  EditingBodies <- MCEditingBodies
  MaxUpdates = 1
  MaxProposals = 1
  MaxTasks = 4
  MaxRepairs = 1
  MaxCrashes = 2
  MaxEdits = 1
INVARIANTS
  NoRunDispatchedTwice
  VerifiedIsCurrent
PROPERTIES
  SettledNeverReopens
CHECK_DEADLOCK FALSE
