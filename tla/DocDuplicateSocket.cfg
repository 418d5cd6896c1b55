CONSTANTS
    Daemons = {d1, d2, d3}
    Clients = {}
    None = None
    Faults = {"concurrent_starts", "daemon_killed"}
SYMMETRY Symmetry
SPECIFICATION Spec
PROPERTIES ActiveSessionKeepsSocket
CHECK_DEADLOCK FALSE
