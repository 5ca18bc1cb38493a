SPECIFICATION AllSpec
CONSTANTS
  MaxFrames = 3
  SeqMod = 2
  MaxErrors = 1
  MaxAccesses = 1
  MaxSuspends = 1
  Unchecked = 1
  Settings <- Three
  Kinds = {"data", "amsdu", "null", "addba", "deauth", "assoc_resp"}
  Reports = {"ok", "failed", "mic"}
  Ciphers = {"none", "tkip"}
  MaxArrivals = 2
  Lens = {44, 45, 47, 60}
  MaxInOne = 3
INVARIANTS
  ReceiveSafe
  InOrder
  Once
PROPERTIES
  Stripped
  ReceiveServes
\* The split of an aggregate ends.
CHECK_DEADLOCK FALSE
