\* Four connections from two hosts, three slots, two of them for one host.
SPECIFICATION Spec
CONSTANTS
    a1 = a1
    a2 = a2
    a3 = a3
    a4 = a4
    h1 = h1
    h2 = h2
    g1 = g1
    g2 = g2
    Conns = {a1, a2, a3, a4}
    Keys = {h1, h2}
    Closers = {g1, g2}
    MaxTotal = 3
    MaxPerKey = 2
SYMMETRY Symmetry
INVARIANTS
    TypeOK
    SlotsMatchConnections
    OpenSocketsWithinLimits
PROPERTIES
    ImplementsSlotPool
\* After AcceptFails, with every connection closed, nothing is left to do.
CHECK_DEADLOCK FALSE
