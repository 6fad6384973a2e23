SPECIFICATION Spec
CONSTANTS
    Ops = {o1, o2}
    None = None
    Scripts = {s1, s2}
    MaxLines = 3
    Texts <- AllTexts
    MaxEdits = 1
    Faults = {"edit", "replace", "create", "kill"}
CHECK_DEADLOCK FALSE
SYMMETRY Symmetry
INVARIANTS TextsAreRead ProposalsKeepTheRest NothingDestroyed MissingIsHeld
PROPERTIES ImplementsRegister
