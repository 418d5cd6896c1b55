CONSTANTS
    Daemons = {d1, d2}
    Clients = {c1}
    None = None
    Faults = {"daemon_killed"}
SYMMETRY Symmetry
SPECIFICATION Spec
PROPERTIES StaleSocketDoesNotBlock
