\* A byte of eight values, so that a length byte ends at seven; a header of at
\* most eight bytes (the shortest with a field), read in parts of three.
\* A process that stopped, or a setup that is done, takes no further step.
CONSTANTS
    YamlFiles <- MCYamlFiles
    EnvFiles <- MCEnvFiles
    Environs <- MCEnvirons
    ByteLimit = 7
    Malformed = Malformed
    Absent = Absent
    Byte = 8
    HeaderLimit = 8
    ReadBuffer = 3
    Destinations <- MCDestinations
SPECIFICATION FairSpec
INVARIANTS
    SourcesTakeEffect
    UpstreamsHaveOneOrigin
    AcceptedSettingsHold
    OnlyFailedSetupsClose
    HeaderWithinLimit
    TunnelStartsAtItsFirstByte
    ServerSeesTheTarget
PROPERTIES
    InterruptionIsReported
    EndedContextEndsSetup
CHECK_DEADLOCK FALSE
