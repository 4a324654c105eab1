SPECIFICATION Spec
CONSTANTS
    NoMessage = NoMessage
    Messages <- MCMessages
    RootServers <- MCRootServers
    Zones <- MCZones
    Malformed = {"bad"}
    MaxDepth = 2
    MaxHops = 1
INVARIANTS
    TypeOK
    ErrorKeepsResponse
    SuccessComplete
    ListCurrent
PROPERTIES
    Returns
CHECK_DEADLOCK FALSE
