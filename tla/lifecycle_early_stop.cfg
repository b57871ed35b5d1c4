SPECIFICATION Spec
CONSTANTS
  Signals = {"SIGTERM"}
  Settled = FALSE
  InitCanFail = FALSE
  SpawnCanFail = FALSE
  AdminExit = FALSE
  HandlersThrow = FALSE
INVARIANTS
  JoinsOnlyStoppedThreads
CHECK_DEADLOCK FALSE
