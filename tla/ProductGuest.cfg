SPECIFICATION MCSpec
CONSTANTS
    Spare = 28
    Window = 4
    Reserve = 1
    AuditBytes = 1
    Chunk = 8
    DiskMax = 2
    DiskSizes = {4, 8, 16}
    IsoSizes = {9, 18}
    StoredIso = 9
    MaxEntries = 1
    ResetMax = 1
    MaxBoots = 1
    MaxFaults = 1
INVARIANTS KnownApart CompleteIsWhole ListIsKept
PROPERTIES DiskStaysPut StopLands
