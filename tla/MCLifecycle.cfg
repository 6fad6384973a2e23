CONSTANTS
    Procs = {p1, p2}
    Ops = {o1, o2}
    Targets = {t1}
    None = None
    MaxEpoch = 1
    MaxRev = 1
    Faults = {"tear", "restart", "edit", "lose_login", "expire"}
SYMMETRY Symmetry
SPECIFICATION Spec
INVARIANTS
    RecordsBacked
    ActiveIsVouchedFor
PROPERTIES
    ServerUntouchedWhileLive
    ActivationIsCompareAndSet
    ImplementsServers
