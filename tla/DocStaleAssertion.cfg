CONSTANTS
    Faults = {"reauth", "resubmit"}
    MaxBreaks = 1
    MaxExtra = 1
SPECIFICATION Spec
INVARIANTS AssertionMatches
CHECK_DEADLOCK FALSE
