SPECIFICATION Spec
CONSTANTS
    h1 = h1
    h2 = h2
    c1 = c1
    c2 = c2
    k1 = k1
    NoHost = NoHost
    NoClient = NoClient
    NoCode = NoCode
    NoData = NoData
    Codes <- OneCode
    Data <- RelayData
    Hosts <- TwoHosts
    Clients <- TwoClients
    HostTypes = {"output"}
    ClientTypes = {"input"}
    CanStop = FALSE
    FirstTypes = {}
    HostFrames = 2
    ClientFrames = 2
    MaxConns = 3
SYMMETRY Symmetric
INVARIANTS
    TypeOK
    SessionOwner
    Membership
    EventOrder
    AckFirst
    Reachable
    Isolation
PROPERTIES
    RosterSpec
CHECK_DEADLOCK FALSE
