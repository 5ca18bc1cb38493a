SPECIFICATION BaSpec
CONSTANTS
  BaCpus = {1}
  Timeouts = {TRUE}
  MaxSessions = 1
  MaxPeerFrames = 1
INVARIANTS
  NoReferenceLeft
CHECK_DEADLOCK FALSE
