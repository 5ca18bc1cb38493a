SPECIFICATION AllSpec
CONSTANTS
  Limits = {2, 3}
  MaxCalls = 3
  MaxFails = 1
  Whens = {"settled", "any"}
  MaxScans = 4
  MaxScanFails = 3
  MaxEvents = 4
  Plain = {"help", "example", "ap_config"}
  Parsing = {"ap_config"}
  Enable = "enable_echo"
  Disable = "disable_echo"
  EchoLimits = {0, 1, 2, 3}
  Works = {event_handler, vif_work, ampdu_work}
  Commandings = {{}, {event_handler}}
  Queuers = {sdio_rx, timer}
  Receiver = sdio_rx
  MaxWorks = 4
  Timers = {a1, a2}
  Mixings = {FALSE, TRUE}
  MaxTimerCalls = 6
  MaxMixed = 3
  event_handler = event_handler
  vif_work = vif_work
  ampdu_work = ampdu_work
  sdio_rx = sdio_rx
  timer = timer
  a1 = a1
  a2 = a2
INVARIANTS
  RtosSafe
  UserSafe
PROPERTIES
  AlarmTrue
  ToldWhenOver
  UserTold
  QueuedRuns
  ExpiresCalled
\* The calls are bounded, and a work that waits behind its queuer stops the queue.
CHECK_DEADLOCK FALSE
