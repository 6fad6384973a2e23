SPECIFICATION Spec
CONSTANTS
    Ops = {o1}
    None = None
    Faults = {"End"}
    CutKinds = {}
    MaxOrphans = 1
    MaxEdits = 0
CHECK_DEADLOCK FALSE
INVARIANTS AppliedStaysOpen
