\* Two processes on one operation, a journal of at most three lines.
CONSTANTS
    Procs = {p1, p2}
    Ops = {o1}
    Phases = {"applying", "applied"}
    Names = {"plan.json"}
    Values = {v1, v2}
    MaxEvents = 3
    None = None
    Absent = Absent
    Torn = Torn
SYMMETRY Symmetry
SPECIFICATION Spec
INVARIANTS WholeIsReadable ReturnedSurvives
PROPERTIES TornIsLast WrittenOnce ImplementsLog
