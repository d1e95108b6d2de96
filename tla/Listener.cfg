SPECIFICATION Spec
CONSTANTS
    TxCap = 2
    ReplySize <- MCReplySize
    Requests <- MCRequests
    DrainMs = 1
    ForceMs = 2
    HttpIdleMs = 2
    KeepIdleMs = 3
    TimeSteps <- MCTimeSteps
    MaxPipe = 2
INVARIANTS
    NoInheritedSession
    HandledOnceUnlessSplit
\* The host may be reset: nothing runs after that.
CHECK_DEADLOCK FALSE
PROPERTIES
    SlotComesBack
