\* Safety and liveness.  A call may hang and a window may be thrown away.
SPECIFICATION Spec
CONSTANTS
  MaxEntries = 3
  Texts <- MCTexts
INVARIANTS
  NobodyToAnswer
  ShownUpToFirstGap
PROPERTIES
  ImplementsRemoteCall
  WindowComesUp
CHECK_DEADLOCK FALSE
