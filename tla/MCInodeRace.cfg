CONSTANTS
  Procs = {1, 2}
  NINODES = 3
  NINODE = 3
  Names = {"f", "g"}
  MaxCrashes = 0
  Tree <- OneFile
  Scripts <- RemoveAndCreate
SPECIFICATION Spec
INVARIANT OrphansAreOpen
CHECK_DEADLOCK FALSE
