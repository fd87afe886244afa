SPECIFICATION FairSpec
CONSTANT MaxSignals = 0
PROPERTY ChildReadyIsSeen
CHECK_DEADLOCK FALSE
