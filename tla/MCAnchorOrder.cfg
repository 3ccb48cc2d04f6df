SPECIFICATION Spec
CONSTANTS
    Every = 2
    Interval = 2
    MaxWait = 3
    MaxShift = 2
    MaxRows = 2
    MaxTime = 1
    MaxStarts = 2
    MaxFaults = 0
INVARIANTS
    OrderMeansTampering
