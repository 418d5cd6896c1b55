CONSTANTS
    Procs = {p1, p2}
    Services = {s1, s2}
    Values = {v1, v2}
    Local = Local
    None = None
    Other = Other
    Faults = {"killed", "scutil_fails", "drift", "switch", "resolver", "new_settings"}
    MaxFaults = 4
SPECIFICATION FairSpec
INVARIANTS TypeOK IInv Recoverable ResolverAnswers RestoredWhenDone
PROPERTIES CleanupRestores DriftRepaired
