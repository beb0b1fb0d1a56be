\* Safety and liveness.  The client may wait for the user for ever.
SPECIFICATION Spec
CONSTANTS
  MaxAttempts = 3
  MaxWrites = 1
INVARIANTS
  TypeOK
  AttemptsOnTheWay
  RequestsCounted
  UsableConnection
  LoopOutlivesIdleWindow
PROPERTIES
  StartupConnectReported
  ClosedWindowEndsLoop
CHECK_DEADLOCK FALSE
