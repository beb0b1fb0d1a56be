\* Safety and liveness, with one failure of a call or allocation.
SPECIFICATION Spec
CONSTANTS
  c1 = c1
  c2 = c2
  Clients = {c1, c2}
  NoClient = NoClient
  Instances = 2
  MaxMsgs = 1
  MaxFaults = 1
INVARIANTS
  TypeOK
  NothingForgotten
  OneOwner
  ServingLoopRuns
  ReadBeforeClose
PROPERTIES
  ConnectedIsAccepted
  GoneIsClosed
  FailedBindEndsLoop
CHECK_DEADLOCK FALSE
