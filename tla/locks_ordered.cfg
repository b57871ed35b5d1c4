SPECIFICATION Spec
CONSTANTS
  u1 = u1
  u2 = u2
  Users <- TwoUsers
  Starts <- ServerOrUsers
  Signals = {"SIGTERM"}
  Anywhere = FALSE
  DebugOn = FALSE
  Nobody = Nobody
INVARIANTS
  TypeOK
  DeadlockFree
  NeverStuck
PROPERTIES
  HierarchySpec
CHECK_DEADLOCK FALSE
