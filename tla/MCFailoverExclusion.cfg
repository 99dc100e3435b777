\* README.md:188 against a success that was under way when the failure came.
SPECIFICATION Spec
CONSTANTS
    N = 2
    Algorithm = "roundrobin"
    Cooldown = 2
    r1 = r1
    r2 = r2
    c1 = c1
    c2 = c2
    Requests = {r1, r2}
    Clients = {c1, c2}
    Traffic <- PlainTraffic
    Scheme <- MixedSchemes
    MaxTunnels = 1
    MaxTunnelsPerIP = 1
PROPERTIES
    ExclusionLasts
\* Every handler returns and every exclusion ends.
CHECK_DEADLOCK FALSE
