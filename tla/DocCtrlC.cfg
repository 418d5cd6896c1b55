CONSTANTS
    Daemons = {d1, d2}
    Clients = {c1}
    None = None
    Faults = {"ctrl_c"}
SYMMETRY Symmetry
SPECIFICATION Spec
INVARIANTS CancelledStartupCleansUp
