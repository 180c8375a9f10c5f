SPECIFICATION FairSpec
CONSTANTS
    h1 = h1
    c1 = c1
    c2 = c2
    k1 = k1
    secret = secret
    wrong = wrong
    NoHost = NoHost
    NoClient = NoClient
    NoCode = NoCode
    NoData = NoData
    NoPassword = NoPassword
    Hosts <- MyHosts
    Me = h1
    Clients <- OneClient
    Browsers = {c1}
    Codes <- OneCode
    Data <- Payloads
    HostPassword = NoPassword
    Passwords = {}
    HasOutput = TRUE
    MaxOutput = 1
    MaxResizes = 0
    MaxHostPings = 0
    MaxInput = 1
    MaxClientPings = 0
    Lossy = FALSE
    Deadlines = FALSE
    HostDeadlines = FALSE
PROPERTIES
    ExchangeEnds
CHECK_DEADLOCK FALSE
