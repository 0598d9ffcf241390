\* A shutdown while a connection attempt runs.
CONSTANTS
  Cookies = {k1, k2, k3}
  Consoles = {c1, c2}
  None = None
  Workers = {w1}
  Resets = {r1}
  PoolSize = 1
  BusyPolicy = {"close"}
  MaxAttempts = 3
  NatPort = FALSE
  FaultKinds = {}
  MaxFaults = 2
  MaxClicks = 0
  MaxStops = 1
  MaxTimers = 2
SPECIFICATION Spec
INVARIANT NoSlotLeftBehind
CHECK_DEADLOCK FALSE
