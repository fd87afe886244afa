SPECIFICATION Spec
CONSTANTS
    NCommands = 2
    MaxNotes = 2
INVARIANTS QueueIntact GarbageIsCaught OneQueryOnly
CHECK_DEADLOCK FALSE
