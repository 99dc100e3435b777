\* A body of up to three pieces, two of them buffered, and a watchdog of two
\* ticks: the shortest in which a read falls between two ticks of one interval.
\* A handler that is done takes no further step.
CONSTANTS
    IdleTimeout = 2
    Buffer = 2
    MaxPieces = 3
    RequestHeaders <- MCRequestHeaders
    ResponseHeaders <- MCResponseHeaders
SPECIFICATION FairSpec
INVARIANTS
    TypeOK
    SetupTimerSparesBody
    NothingLeaks
    TruncationIsVisible
    OnlyEndToEndFieldsPass
PROPERTIES
    WaitsOnlyForTheClient
CHECK_DEADLOCK FALSE
