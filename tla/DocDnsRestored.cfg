CONSTANTS
    Procs = {p1, p2}
    Services = {s1}
    Values = {v1}
    Local = Local
    None = None
    Other = Other
    Faults = {"overlap"}
    MaxFaults = 0
SPECIFICATION Spec
INVARIANTS RestoredWhenDone
