SPECIFICATION SafeSpec
CONSTANT MaxStarts = 1
INVARIANT RunningIsInitialised
