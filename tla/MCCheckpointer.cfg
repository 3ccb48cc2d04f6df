SPECIFICATION FairSpec
CONSTANTS
    Every = 2
    Interval = 2
    MaxWait = 3
    MaxShift = 2
    MaxRows = 2
    MaxTime = 0
    MaxStarts = 3
    MaxFaults = 2
INVARIANTS
    TypeOK
    NoFalseFork
    AnchorsAgree
PROPERTIES
    ReceiptsCovered
    CheckpointsStored
