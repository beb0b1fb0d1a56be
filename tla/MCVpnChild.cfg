\* Safety and liveness.  A loop whose child runs may wait for the user for ever.
SPECIFICATION Spec
CONSTANTS
  MaxSpawns = 3
INVARIANTS
  TypeOK
  OneChild
  PidHasHandle
  LoopOutlivesChild
PROPERTIES
  ExitNoticed
  ClosedWindowEndsProgram
CHECK_DEADLOCK FALSE
