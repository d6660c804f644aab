CONSTANTS
  Procs = {1, 2, 3}
  NBUF = 3
  NUM = 7
  Blocks = {1, 2, 3, 4}
  NoBlock = 0
  InitDisk <- Zeroes
  Scripts <- BlockPrograms
  NINODES = 4
  Names = {"a", "f", "g"}
SPECIFICATION StorageSpec
INVARIANTS RequestsAccounted OneBufferPerBlock BlocksAccounted CountsMatch NoPanic
PROPERTIES ImplementsStore AllCallsReturn
\* Every script may be at its end.
CHECK_DEADLOCK FALSE
