SPECIFICATION FairSpec
CONSTANTS
    MaxBytes = 3
    MaxLoops = 2
INVARIANTS
    TypeOK
    SentInOrder
    Accounted
    LossBounded
    DisconnectMeant
PROPERTIES
    EndsWithSession
    ByteSent
CHECK_DEADLOCK FALSE
