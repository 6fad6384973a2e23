CONSTANTS
    Procs = {p1}
    Ops = {o1, o2}
    Targets = {t1, t2}
    None = None
    MaxEpoch = 0
    MaxRev = 0
    Faults = {}
SPECIFICATION FairSpec
INVARIANTS
    ActiveIsVouchedFor
PROPERTIES
    ProvisionCompletes
    RotationCompletes
