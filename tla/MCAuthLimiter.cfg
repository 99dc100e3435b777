\* Three hosts, two records; a block shorter than the window, of one second.
SPECIFICATION Spec
CONSTANTS
    ip1 = ip1
    ip2 = ip2
    ip3 = ip3
    IPs = {ip1, ip2, ip3}
    MaxAttempts = 3
    Window = 3
    Block = 2
    MaxIPs = 2
    Second = 2
SYMMETRY Symmetry
INVARIANTS
    TypeOK
    ListIsLeastRecentFirst
    RetryAfterSuffices
PROPERTIES
    BlockEndsByTimeOrEviction
    ImplementsPolicy
