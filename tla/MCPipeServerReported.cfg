\* Liveness; MaxMsgs is 1 and no call fails.
SPECIFICATION Spec
CONSTANTS
  c1 = c1
  c2 = c2
  Clients = {c1, c2}
  NoClient = NoClient
  Instances = 2
  MaxMsgs = 1
  MaxFaults = 0
PROPERTY EveryConnectionIsReported
CHECK_DEADLOCK FALSE
