CONSTANTS
  c1 = c1
  c2 = c2
  CPUs <- CPUSet
  NPROC = 3
  NPRIO = 3
  Ops <- LifecycleOps
  Victims = { }
  SleepChan = SleepChan
  None = None
SPECIFICATION Spec
SYMMETRY CPUSymmetry
INVARIANTS TypeOK OneCpuPerProcess QueuedOnce QueueOfPriority SchedHoldsOnlyPlock
INVARIANTS FreedIsOffCpu NoLostExit NoDeadParent
