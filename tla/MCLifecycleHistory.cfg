CONSTANTS
    Procs = {p1, p2}
    Ops = {o1, o2, o3}
    Targets = {t1}
    None = None
    MaxEpoch = 0
    MaxRev = 0
    Faults = {"lose_login"}
SYMMETRY Symmetry
SPECIFICATION Spec
INVARIANTS
    OwnerIsProvision
PROPERTIES
    ImplementsHistory
