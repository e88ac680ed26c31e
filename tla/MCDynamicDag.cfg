SPECIFICATION FairSpec
CONSTANTS
  Ids <- MCIds
  Bodies <- MCBodies
  RootBodies <- MCRootBodies
  Twins <- MCTwins
  InitialTasks <- MCInitialTasks
  Proposals <- MCProposals
  EditingBodies <- MCEditingBodies
  MaxUpdates = 2
  MaxProposals = 3
  MaxTasks = 4
  MaxRepairs = 0
  MaxCrashes = 1
  MaxEdits = 0
INVARIANTS
  DispatchedDefinitionKept
  ScheduleFromAgreement
PROPERTIES
  RunEnds
CHECK_DEADLOCK FALSE
