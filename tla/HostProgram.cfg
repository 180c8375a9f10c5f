SPECIFICATION FairSpec
CONSTANTS
    MaxClients = 1
    MaxBusy = 2
INVARIANTS
    TypeOK
    QuietAfterRestore
PROPERTIES
    CloseReturns
CHECK_DEADLOCK FALSE
