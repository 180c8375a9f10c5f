SPECIFICATION MCSpec
CONSTANTS
    h1 = h1
    c1 = c1
    c2 = c2
    k1 = k1
    secret = secret
    wrong = wrong
    NoHost = NoHost
    NoClient = NoClient
    NoCode = NoCode
    NoData = NoData
    NoPassword = NoPassword
    Hosts <- MyHosts
    Me = h1
    Clients <- TwoClients
    Browsers = {c2}
    Codes <- OneCode
    Data <- Payloads
    HostPassword = secret
    Passwords = {secret, wrong}
    HasOutput = TRUE
    MaxOutput = 2
    MaxResizes = 1
    MaxHostPings = 1
    MaxInput = 2
    MaxClientPings = 0
    Lossy = TRUE
    Deadlines = TRUE
    HostDeadlines = TRUE
INVARIANTS
    TypeOK
    KeyAgreement
    OnlyCiphertext
    SessionBeforeKey
    
PROPERTIES
    PasswordDemanded
    TunnelSpec
CHECK_DEADLOCK FALSE
