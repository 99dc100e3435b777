\* Two tunnels of either HTTP version, safety.
SPECIFICATION Spec
CONSTANTS
    a = a
    b = b
    Tunnels = {a, b}
SYMMETRY Symmetry
INVARIANTS
    TypeOK
    WaitCountsTunnels
    ReleasedTunnelsAreClosed
    NoTunnelEscapesCloseAll
PROPERTIES
    NoAddDuringWait
\* Run returns and the process is over.
CHECK_DEADLOCK FALSE
