CONSTANTS
    Procs = {p1}
    Ops = {o1, o2}
    Targets = {t1}
    None = None
    MaxEpoch = 0
    MaxRev = 0
    Faults = {}
SYMMETRY Symmetry
SPECIFICATION Spec
INVARIANTS
    OwnerStaysUsable
