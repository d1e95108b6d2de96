SPECIFICATION MCSpec
CONSTANTS
    Below = 1
    Low = 1
    HighMax = 2
    MaxMapped = 5
    TailSpans = 2
    Types <- MCTypes
    BadTypes <- MCBadTypes
    MaxRun = 3
    ProtSlots = 3
    MaxMint = 1
    PairLists <- MCPairLists
    MaxLoads = 3
    MaxDepth = 3
    LoaderPages = 4
VIEW WithoutLast
CHECK_DEADLOCK FALSE
INVARIANTS HonestWhileSpansLast GivenBackWhole OneHolder InstalledCanBeUninstalled
PROPERTIES OnlyAskedPages ExitReturnsToCaller
