SPECIFICATION Spec
CONSTANTS
  Signals = {"SIGTERM"}
  Settled = TRUE
  InitCanFail = FALSE
  SpawnCanFail = FALSE
  AdminExit = TRUE
  HandlersThrow = FALSE
INVARIANTS
  ExitLeavesNothing
CHECK_DEADLOCK FALSE
