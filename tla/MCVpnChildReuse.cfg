\* A connect between the end of a child and the endgame of its handle.
SPECIFICATION SafeSpec
CONSTANTS
  MaxSpawns = 2
INVARIANTS
  EndgameOfClosing
CHECK_DEADLOCK FALSE
