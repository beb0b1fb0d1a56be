\* An attempt from the UI thread does not wake the loop.
SPECIFICATION Spec
CONSTANTS
  MaxAttempts = 2
  MaxWrites = 0
PROPERTIES
  ConnectCallbackComes
CHECK_DEADLOCK FALSE
