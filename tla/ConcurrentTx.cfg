SPECIFICATION TxFairSpec
CONSTANTS
 NWorkers = 3
 MaxErrors = 2
INVARIANTS RaceIsFair OneWinner
PROPERTY MainEnds
CHECK_DEADLOCK FALSE
