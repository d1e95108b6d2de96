SPECIFICATION MemSpec
CONSTANTS
    MapCap = 2
    Guests = {0, 1, 2}
    Gpas = {0, 1, 2}
    PageBytes = 2
    Frames = {5, 6, 7}
    Perms = {"RW", "RWX"}
    GuestRam = 4
    Precise = 18
    HoleCap = 3
    RangeCap = 6
    G0 = 1
    BaseFrame = 3
    Capacity = 5
    RunLengths = {0, 1, 2, 3, 4, 5, 6}
    Alignments = {0, 1, 2, 3, 4}
    HoleLists <- MCHoleLists
CHECK_DEADLOCK FALSE
INVARIANTS
    CountIsCardinality
    FrameExclusive
    WindowOwnedExactly
    WellFormedAccepted
PROPERTIES ReturnedRunIsFresh NoneMeansNoRun ImplementsOwnership
