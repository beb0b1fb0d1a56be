\* Safety and liveness.  The client may wait for the user for ever.
SPECIFICATION Spec
CONSTANTS
  MaxMessages = 4
  MaxAttempts = 3
  MaxLives = 2
INVARIANTS
  OneConnection
PROPERTIES
  ImplementsStream
  CarriedIsReceived
CHECK_DEADLOCK FALSE
