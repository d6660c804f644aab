CONSTANTS
  c1 = c1
  c2 = c2
  c3 = c3
  p1 = p1
  p2 = p2
  p3 = p3
  b0 = b0
  b1 = b1
  b2 = b2
  CPUs <- CPUSet
  Procs <- ProcSet
  NPROC = 3
  NULL = NULL
  Harts <- HartSet
  BOOT = b0
  BootProcs = 2
  MemoryProcs = 2
  ENTRIES = 3
  PGSIZE = 2
  Sizes <- SizeSet
  Programs <- ProgramSet
  Increments <- IncrementSet
  MaxCalls = 4
  NCPU = 2
  ClockProcs = 2
  WORD = 4
  FirstTick = 3
  MaxTicks = 2
  Scripts <- ClockPrograms
  Cores <- CoreSet
  TableSize = 3
SPECIFICATION KernelSpec
SYMMETRY Interchangeable
INVARIANTS TypeOK NeverPanics AuxExclusion PagesAccounted InterruptsMatch SleepsExactly TakesTurns
PROPERTY ImplementsFifo
