CONSTANTS
  NPROC = 2
  NSEM = 1
  CPUS = 2
  Rounds = 4
  Programs <- UpAndDown
SPECIFICATION Spec
INVARIANT NoLostWakeup
\* Every process may be at the end of its script, or asleep.
CHECK_DEADLOCK FALSE
