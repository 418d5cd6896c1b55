CONSTANTS
    Daemons = {d1, d2}
    Clients = {c1}
    None = None
    Faults = {"client_dies", "daemon_killed", "sigterm", "openvpn_exits", "monitor_stops"}
SYMMETRY Symmetry
SPECIFICATION Spec
INVARIANTS TypeOK IInv ReachableDaemon TunnelUnderControl OneLogin DisconnectedIsDown LoopHasOneJob PortHasUser
PROPERTIES OnlyOwnerUnlinks
