\* Two concurrent requests: forwarded ones, and tunnels of two hosts, one each.
SPECIFICATION FairSpec
CONSTANTS
    N = 2
    Algorithm = "random"
    Cooldown = 1
    r1 = r1
    r2 = r2
    c1 = c1
    c2 = c2
    Requests = {r1, r2}
    Clients = {c1, c2}
    Traffic <- MixedTraffic
    Scheme <- MixedSchemes
    MaxTunnels = 2
    MaxTunnelsPerIP = 1
INVARIANTS
    TypeOK
    TunnelSlotsMatchHandlers
    BoundedFailover
    RepliesAreTruthful
PROPERTIES
    OnlyFailuresCool
    RefusedOnlyWithoutAlternate
    EveryRequestSettles
\* Every handler returns and every exclusion ends.
CHECK_DEADLOCK FALSE
