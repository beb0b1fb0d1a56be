SPECIFICATION Spec
CONSTANT MaxStarts = 2
INVARIANTS
  StopIsHeard
  StopIsFinal
  PendingIsBacked
PROPERTIES
  StopCompletes
  StoppedProcessEnds
  StartCompletes
  ImplementsLifecycle
