SPECIFICATION FairSpec
CONSTANTS
    Runs = {p1, p2, p3}
    Ops = {o1}
    Inputs = {i1, i2}
    None = None
CHECK_DEADLOCK FALSE
INVARIANTS RecordIsBacked SameAnswer
PROPERTIES ImplementsIssueOnce MadeIsFinished
