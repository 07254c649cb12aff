CONSTANTS
    ClientData <- MCClientData
    ServerData <- MCServerData
    BufSize = 2
    IdleLimit = 32
SPECIFICATION Spec
INVARIANTS
    TypeOK
    RelayInOrder
    ArtifactDirection
PROPERTIES
    QuietRelayCloses
