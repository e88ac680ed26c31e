SPECIFICATION ProcessFairSpec
PROPERTIES EveryCallEnds
CHECK_DEADLOCK FALSE
