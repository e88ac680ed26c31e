SPECIFICATION MCSpec
CONSTANTS
  Workers = {w1, w2}
  Probes = {1}
  NoProbe = NoProbe
  MaxRestarts = 1
  MaxTampers = 1
PROPERTIES
  BatchReturns
  ImplementsBarrier
  WatchedCallEnds
  JobLeavesEditor
CHECK_DEADLOCK FALSE
