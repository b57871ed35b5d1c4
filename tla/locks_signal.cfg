SPECIFICATION Spec
CONSTANTS
  u1 = u1
  u2 = u2
  Users <- TwoUsers
  Starts <- ServerOnly
  Signals = {"SIGTERM"}
  Anywhere = TRUE
  DebugOn = FALSE
  Nobody = Nobody
INVARIANT
  DeadlockFree
CHECK_DEADLOCK FALSE
