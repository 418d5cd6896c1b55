CONSTANTS
    Daemons = {d1}
    Clients = {c1}
    None = None
    Faults = {"client_dies", "parent_dies", "ctrl_c", "daemon_killed", "sigterm", "openvpn_exits", "monitor_stops", "restore_fails", "state_write_fails"}
SPECIFICATION FairSpec
PROPERTIES ImplementsService DisconnectStops KeepsReconnecting DisconnectedEndsOpenVpn
