CONSTANTS
    RingCap = 3
    Kinds = {1, 2}
    BootKind = 1
    SumMod = 2
    MaxBoots = 3
    MaxFaults = 1
SPECIFICATION Spec
CHECK_DEADLOCK FALSE
PROPERTIES
    SurvivesReboot
