SPECIFICATION FairSpec
CONSTANTS
 NWorkers = 2
 MaxProcs = 4
 MaxErrors = 1
 MaxInts = 1
INVARIANTS TypeOK ResultsIntact CountsEveryone
PROPERTY EveryoneEnds
CHECK_DEADLOCK FALSE
