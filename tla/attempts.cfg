\* Every fault, clicks, resets, a shutdown at any time: connection attempts end.
CONSTANTS
  Cookies = {k1, k2}
  Consoles = {c1, c2, c3}
  None = None
  Workers = {w1}
  Resets = {r1}
  PoolSize = 1
  BusyPolicy = {"close", "keep"}
  MaxAttempts = 2
  NatPort = FALSE
  FaultKinds <- AllFaults
  MaxFaults = 2
  MaxClicks = 1
  MaxStops = 1
  MaxTimers = 1
SPECIFICATION FairSpec
PROPERTIES
  FulfilsDuty
  DutyProgress
  ResetRecovers
CHECK_DEADLOCK FALSE
