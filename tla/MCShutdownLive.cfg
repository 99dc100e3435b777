\* A tunnel of either HTTP version, whose client may never read again.
SPECIFICATION FairSpec
CONSTANTS
    a = a
    b = b
    Tunnels = {a}
PROPERTIES
    RunReturns
    TunnelsEndAfterSignal
    IdleTunnelsEndIfRead
\* Run returns and the process is over.
CHECK_DEADLOCK FALSE
