CONSTANTS
  Sessions <- ThreeCommands
  KIDS = 3
  CAP = 1
  MaxFails = 0
SPECIFICATION Spec
INVARIANT EndsClosed
CHECK_DEADLOCK FALSE
