CONSTANTS
  NPROC = 3
  NSEM = 2
  CPUS = 1
  Rounds = 4
  Programs <- FreeAndPingPong
  Sessions <- SessionSet
  KIDS = 4
  CAP = 1
  MaxFails = 2
  Texts <- TextSet
  PipeProcs = 3
  NPIPE = 1
  PIPESIZE = 2
  PipeWord = 4
  MaxN = 3
  NOFILE = 3
  NFILE = 3
  PipePrograms <- PipeSet
  MaxKills = 1
  NoResult = NoResult
  ConsoleProcs <- ConsoleProcSet
  INPUT_BUF_SIZE = 2
  UART_TX_BUF_SIZE = 1
  ConsoleWord = 4
  ConsolePrograms <- ConsoleSet
  UNITS = 9
  NALLOC = 3
  Requests <- RequestSet
  MaxSbrk = 1
SPECIFICATION UserSpec
INVARIANTS NoMissedWakeup Alternates NothingLeft LinesUnderstood ResourcesAccounted
PROPERTIES ImplementsCounting ImplementsStream ImplementsLines AllFinish
\* Every process may be at the end of its script, or asleep.
CHECK_DEADLOCK FALSE
