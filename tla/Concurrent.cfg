CONSTANTS
    Daemons = {d1, d2}
    Clients = {c1}
    None = None
    Faults = {"concurrent_starts", "client_dies", "daemon_killed"}
SPECIFICATION FairSpec
INVARIANTS DisconnectedIsDown
PROPERTIES RequestAnswered
