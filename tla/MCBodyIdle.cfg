\* The constants of MCHTTPExchange.cfg.
CONSTANTS
    IdleTimeout = 2
    Buffer = 2
    MaxPieces = 3
    RequestHeaders <- MCRequestHeaders
    ResponseHeaders <- MCResponseHeaders
SPECIFICATION FairSpec
PROPERTIES
    CutsOnlySilentResponses
CHECK_DEADLOCK FALSE
