\* Nobody clicks and nobody seizes the console; the process may be restarted.
CONSTANTS
  Cookies = {k1, k2, k3}
  Consoles = {c1, c2}
  None = None
  Workers = {w1}
  Resets = {}
  PoolSize = 2
  BusyPolicy <- AnyPolicy
  MaxAttempts = 3
  NatPort = FALSE
  FaultKinds <- UnattendedFaults
  MaxFaults = 2
  MaxClicks = 0
  MaxStops = 1
  MaxTimers = 2
SPECIFICATION FairSpec
INVARIANTS
  OneDuty
  ExhaustedParks
PROPERTIES
  HealthyConsoleKept
  ComesBack
CHECK_DEADLOCK FALSE
