CONSTANTS
  b1 = b1
  b2 = b2
  b3 = b3
  b4 = b4
  b5 = b5
  Procs = {1, 2, 3}
  Blocks <- FiveBlocks
  MAXOPBLOCKS = 3
  LOGSIZE = 6
  nlog = 6
  OpBlocks = 2
  MaxOps = 3
  MaxCrashes = 2
  Nobody = Nobody
SPECIFICATION Spec
SYMMETRY BlockSymmetry
INVARIANTS NoPanic PinsBalanced
PROPERTIES ImplementsTransactions
CHECK_DEADLOCK FALSE
