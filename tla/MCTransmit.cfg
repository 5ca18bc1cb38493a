SPECIFICATION AllSpec
CONSTANTS
  MaxQueueSz = 6
  Senders = 2
  MaxLength = 8
  MaxIpc = 2
  Cpus = {c1}
  Peers = {p1, p2}
  Cipher = "aes"
  Rooms = {2, 30, 168}
  Holdings = {"own", "cloned", "shared"}
  MayFail = {"clone", "expand", "pad"}
  MaxFrames = 3
  MaxLinks = 2
INVARIANTS
  TransmitSafe
  OverfullMeansStopped
  Accounted
  Protected
PROPERTIES
  QueuesRestart
\* XmitFrame hands over a bounded number of frames and stops.
CHECK_DEADLOCK FALSE
