CONSTANTS
  RequestScene = RequestScene
  DirectoryScene = DirectoryScene
  AuthorityScene = AuthorityScene
  RockScene = RockScene
  ProbeScene = ProbeScene
  EditorScene = EditorScene
  Runs = {1, 2, 3}
  p1 = p1
  p2 = p2
  Projects = {p1, p2}
  Resources = {1, 2}
  Claims <- MCClaims
  Unconfined <- MCUnconfined
  Canonical <- MCCanonical
  Requests <- MCRequests
  Owners = {o1, o2, o3}
  NoOne = NoOne
  Sessions = {s1, s2}
  Decisions = {d1, d2}
  ArtistPlans = {plan}
  Nil = Nil
  MaxScene = 1
  Imports = {i1, i2}
  NoImport = NoImport
  MaxTouches = 1
  Probes = {1, 2}
  NoProbe = NoProbe
  MaxRestarts = 1
  MaxTampers = 0
  Jobs = {j1}
  Recoveries = {r1}
  Pids = {1, 2}
  Gone = Gone
  People = People
  MaxRetried = 1
  MaxCycles = 1
  MaxHappenings = 1
SPECIFICATION MCSpec
SYMMETRY MCSymmetry
INVARIANTS
  Exclusive
  RecordNamesHolderInTime
  SomeoneNotRefused
  MutationIsApproved
  CompletedProbeRan
  PassedIsOwn
PROPERTIES
  OthersRefuse
  RevokedNeverStarts
  TheirsIsKept
  OnlyTargetEnds
CHECK_DEADLOCK FALSE
