\* README.md:192 against an HTTP/2 client that does not read.
SPECIFICATION FairSpec
CONSTANTS
    a = a
    b = b
    Tunnels = {a}
PROPERTIES
    IdleTunnelsEnd
\* Run returns and the process is over.
CHECK_DEADLOCK FALSE
