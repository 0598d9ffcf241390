\* The running server with a reliable network: safety.
CONSTANTS
  Cookies = {k1, k2, k3}
  Consoles = {c1, c2, c3}
  None = None
  Workers = {w1, w2}
  Resets = {r1}
  PoolSize = 2
  BusyPolicy <- AnyPolicy
  MaxAttempts = 3
  NatPort = FALSE
  FaultKinds <- ReliableFaults
  MaxFaults = 2
  MaxClicks = 2
  MaxStops = 0
  MaxTimers = 2
SYMMETRY Symmetry
SPECIFICATION Spec
INVARIANTS
  TypeOK
  OneWorker
  OneSlot
  Supervised
  ConnectedIsBacked
CHECK_DEADLOCK FALSE
