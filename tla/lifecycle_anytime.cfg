SPECIFICATION Spec
CONSTANTS
  Signals = {"SIGTERM"}
  Settled = FALSE
  InitCanFail = TRUE
  SpawnCanFail = TRUE
  AdminExit = TRUE
  HandlersThrow = TRUE
INVARIANTS
  TypeOK
  CleanExit
PROPERTIES
  StartedServerStops
CHECK_DEADLOCK FALSE
