SPECIFICATION FairSpec
CONSTANT MaxSignals = 3
INVARIANTS MeasuresDirtyChild NeverSignalsEveryone
PROPERTIES ChildFollowsParent SighupIsAnswered SignalEndsWait
CHECK_DEADLOCK FALSE
