SPECIFICATION FairSpec
CONSTANTS
    ByteBits = 2
    Readings <- MCReadings
    OddPulses <- MCOddPulses
    NoiseAt <- MCNoiseAt
    MaxFaults = 2
INVARIANTS PrintedIsAnswer RoomForOneFault
PROPERTIES CleanIsPrinted ReadingsGoOn
CHECK_DEADLOCK FALSE
