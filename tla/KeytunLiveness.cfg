SPECIFICATION FairSpec
CONSTANTS
    h1 = h1
    c1 = c1
    c2 = c2
    k1 = k1
    secret = secret
    wrong = wrong
    NoHost = NoHost
    NoClient = NoClient
    NoCode = NoCode
    NoData = NoData
    NoPassword = NoPassword
    Hosts <- MyHosts
    Me = h1
    Clients <- OneClient
    Browsers = {}
    Codes <- OneCode
    Data <- Payloads
    HostPassword = secret
    Passwords = {secret}
    HasOutput = FALSE
    MaxOutput = 1
    MaxResizes = 1
    MaxHostPings = 0
    MaxInput = 1
    MaxClientPings = 1
    Lossy = TRUE
    Deadlines = FALSE
    HostDeadlines = FALSE
PROPERTIES
    HandshakeEnds
    InputArrives
    KeyReadyCloses
CHECK_DEADLOCK FALSE
