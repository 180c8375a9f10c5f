SPECIFICATION Spec
CONSTANTS
    IPs = {a, b}
    Burst = 2
    Interval = 2
    StaleAfter = 4
    Horizon = 8
INVARIANTS
    TypeOK
    SweepUnobservable
    AdmissionBound
