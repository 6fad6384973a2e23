SPECIFICATION FairSpec
CONSTANTS
    Ops = {o1, o2}
    None = None
    Faults = {"End", "Edit", "Restore"}
    CutKinds = {"bundle", "auto"}
    MaxOrphans = 1
    MaxEdits = 1
CHECK_DEADLOCK FALSE
INVARIANTS OneOwner
PROPERTIES OpensBehindRules ForeignTextKept ImplementsReader ApplyCompletes
