SPECIFICATION Spec
CONSTANTS
  Signals = {"SIGINT", "SIGTERM", "SIGINT2"}
  Settled = TRUE
  InitCanFail = FALSE
  SpawnCanFail = FALSE
  AdminExit = FALSE
  HandlersThrow = TRUE
INVARIANTS
  JoinsOnlyStoppedThreads
  NeverTerminates
  GameFlagCoversLoop
  NoClientOutlivesRun
PROPERTIES
  ServiceSpec
