SPECIFICATION AllSpec
CONSTANTS
  MaxLost = 1
  Bssids = {b1, b2}
  Racings = {TRUE, FALSE}
  MaxEntries = 6
  MaxChanges = 4
  MaxOpens = 2
  Macs = {m1, m2, m3}
  Prompts = {TRUE, FALSE}
  MaxApChanges = 4
  MaxStops = 1
  ProbeFails <- SomeFail
  AtBoot = TRUE
  MaxPlugs = 2
  MaxReloads = 1
  MaxFails = 3
  Slow = TRUE
  Polls = 3
INVARIANTS
  InterfaceSafe
  AgreesWithFirmware
  UsersEnd
PROPERTIES
  InterfaceGoesOn
\* The module is unloaded, and the numbers of changes are bounded.
CHECK_DEADLOCK FALSE
