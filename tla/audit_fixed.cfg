SPECIFICATION Spec
CONSTANTS
  t1 = t1
  t2 = t2
  Threads = {t1, t2}
  Sizes = {2}
  InitFails = TRUE
  DiskFills = TRUE
  MaxCalls = 3
  MaxOps = 4
SYMMETRY ThreadSymmetry
INVARIANTS
  TypeOK
  MemoryBounded
  MemoryMirrorsFile
  NoGaps
  ToldOnceInOrder
CHECK_DEADLOCK FALSE
