SPECIFICATION Spec
CONSTANTS
    h1 = h1
    h2 = h2
    c1 = c1
    c2 = c2
    k1 = k1
    NoHost = NoHost
    NoClient = NoClient
    NoCode = NoCode
    NoData = NoData
    Codes <- OneCode
    Data <- RelayData
    Hosts <- OneHost
    Clients <- OneClient
    HostTypes = {"output"}
    ClientTypes = {"input"}
    CanStop = TRUE
    FirstTypes = {}
    HostFrames = 2
    ClientFrames = 2
    MaxConns = 2
INVARIANTS
    FoundSessionRegistered
CHECK_DEADLOCK FALSE
