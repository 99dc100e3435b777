\* README.md:20 against a destination port a SOCKS dialer refuses by itself.
SPECIFICATION Spec
CONSTANTS
    N = 2
    Algorithm = "roundrobin"
    Cooldown = 1
    r1 = r1
    r2 = r2
    c1 = c1
    c2 = c2
    Requests = {r1, r2}
    Clients = {c1, c2}
    Traffic <- BadPortTraffic
    Scheme <- MixedSchemes
    MaxTunnels = 1
    MaxTunnelsPerIP = 1
INVARIANTS
    OnlyContactedUpstreamsCool
\* Every handler returns and every exclusion ends.
CHECK_DEADLOCK FALSE
