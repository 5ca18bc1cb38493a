SPECIFICATION AllSpec
CONSTANTS
  Producers = {p1, p2}
  MaxWork = 2
  MaxSuspends = 2
  NumInpChBufs = 2
  Half = 3
  MaxBatch = 2
  MaxQueued = 2
  MaxEvents = 2
  MaxLost = 2
  MaxEarly = 2
  MaxLate = 2
INVARIANTS
  ThreadsSafe
  SuspendKept
  CreditBound
  NoBug
PROPERTIES
  PoolSpec
  ThreadServes
  TransmitEnds
\* The driver is gone at the end of every behaviour of TxStop.
CHECK_DEADLOCK FALSE
