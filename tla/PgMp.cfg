SPECIFICATION MpFairSpec
CONSTANTS
 NWorkers = 4
 MaxErrors = 1
INVARIANTS MpTypeOK EachResultOnce
PROPERTY EndsUnlessLateOrFailed
CHECK_DEADLOCK FALSE
