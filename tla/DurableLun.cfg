CONSTANTS
    Sectors = {0, 1}
    PerLbas = {1, 2}
    Vals = {0, 1}
    Tries = 1
    MaxFaults = 3
    PinSectors = {0}
    CacheLines = 1
SPECIFICATION LunSpec
INVARIANTS ReadIsTrue AckedUnlessSenseLost CleanOrHalted
