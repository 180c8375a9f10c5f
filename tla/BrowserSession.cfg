SPECIFICATION FairSpec
CONSTANTS
    MaxAttempts = 3
INVARIANTS
    TypeOK
    ChainsBounded
    KeyOfSocket
    NeverStranded
PROPERTIES
    LastAttempts
    AttemptEnds
    DisconnectCloses
CHECK_DEADLOCK FALSE
