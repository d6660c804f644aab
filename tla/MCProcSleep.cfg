CONSTANTS
  c1 = c1
  c2 = c2
  CPUs <- CPUSet
  NPROC = 3
  NPRIO = 3
  Ops <- SleepOps
  Victims = {2, 3}
  SleepChan = SleepChan
  None = None
SPECIFICATION Spec
SYMMETRY CPUSymmetry
INVARIANTS MutualExclusion NoLostWakeup ProcInv
PROPERTY FollowsLifeCycle
