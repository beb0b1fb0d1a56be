\* The functions return: there is an end.
SPECIFICATION Spec
CONSTANTS
  MaxProcesses = 2
  MaxSessions = 3
INVARIANTS
  HandlesAccounted
  ImpersonationEnds
  FullTokenChosen
CHECK_DEADLOCK FALSE
