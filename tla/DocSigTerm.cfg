CONSTANTS
    Daemons = {d1}
    Clients = {c1}
    None = None
    Faults = {"sigterm"}
SPECIFICATION FairSpec
PROPERTIES SigTermDisconnects
