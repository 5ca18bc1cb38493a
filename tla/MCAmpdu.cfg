SPECIFICATION AllSpec
CONSTANTS
  Start = 13
  MaxFrames = 18
  SeqModulo = 16
  BufSize = 4
  MaxDuplicates = 1
  Eapol = {14, 16}
  Cpus = 1
  BaCpus = {1, 2}
  Timeouts = {TRUE, FALSE}
  MaxSessions = 2
  MaxPeerFrames = 1
INVARIANTS
  AmpduSafe
  NothingLost
  NothingLeft
PROPERTIES
  DeliverySpec
  AmpduEnds
\* The peer sends a bounded number of frames; the station leaves for good.
CHECK_DEADLOCK FALSE
