CONSTANTS
  NPROC = 2
  NSEM = 1
  CPUS = 1
  Rounds = 4
  Programs <- CloseUnderSleeper
SPECIFICATION Spec
INVARIANT NeverNegative
\* Every process may be at the end of its script, or asleep.
CHECK_DEADLOCK FALSE
