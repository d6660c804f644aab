CONSTANTS
  c1 = c1
  c2 = c2
  CPUs <- CPUSet
  NPROC = 3
  NPRIO = 3
  Ops <- ComputeOps
  Victims = { }
  SleepChan = SleepChan
  None = None
SPECIFICATION FairSpec
PROPERTY EverybodyRuns
