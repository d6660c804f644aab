CONSTANTS
  c0 = c0
  c1 = c1
  c2 = c2
  CPUs <- CPUSet
  BOOT = c0
  NPROC = 2
  None = None
SPECIFICATION Spec
INVARIANT QueueLockHeld
\* A panic stops the machine.
CHECK_DEADLOCK FALSE
