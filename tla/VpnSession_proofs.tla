-------------------------- MODULE VpnSession_proofs --------------------------
(***************************************************************************)
(* The inductive invariant of VpnSession, and what follows from it: proofs *)
(* for every set of interfaces, addresses, push replies and faults, and    *)
(* every backoff.                                                          *)
(***************************************************************************)
EXTENDS VpnSession, RouteTable_proofs

\* The OpenVPN process and its port.
LEMMA ProcessPreserved ==
    ASSUME ProcessOK, Next
    PROVE  ProcessOK'
<1>1. CASE Wake \/ Prepare \/ PrepareFails \/ Spawn
  BY <1>1
  DEF Wake, Prepare, PrepareFails, Spawn, ProcessOK, process,
      reserve_management_port, spawn, ChildStates
<1>2. CASE Dial \/ Authenticate \/ GaveUp
  BY <1>2
  DEF Dial, Authenticate, GaveUp, ProcessOK, ConnectDrops, ConnectManagement,
      authenticate, WaitEnds, ChildStates, DropProcess, Gone
<1>3. CASE Connected
  BY <1>3
  DEF Connected, ProcessOK, AfterLogin, process, ChildStates
<1>4. CASE Lookup
  BY <1>4
  DEF Lookup, ProcessOK, ConfigureFails, Configuring, GoesOn, ChildStates,
      DropProcess, process, Gone
<1>5. CASE ResolvectlDns \/ ResolvectlDomain \/ ResolvectlRevert
  BY <1>5
  DEF ResolvectlDns, ResolvectlDomain, ResolvectlRevert, ProcessOK,
      Configuring, GoesOn, ChildStates, process
<1>6. CASE Resolvconf \/ Scutil
  BY <1>6
  DEF Resolvconf, Scutil, ProcessOK, ConfigureFails, Configuring, GoesOn,
      ChildStates, DropProcess, process, Gone
<1>7. CASE Lost
  BY <1>7
  DEF Lost, ProcessOK, Gone, ChildStates
<1>8. CASE Stopped \/ Restored
  BY <1>8
  DEF Stopped, Restored, ProcessOK, WaitEnds, process, ChildStates, Gone
<1>9. CASE DropGuard \/ Drop
  BY <1>9
  DEF DropGuard, Drop, ProcessOK, process, DropProcess, ChildStates, Gone
<1>10. CASE Start \/ LoginFails \/ Disconnect \/ Abort
  BY <1>10
  DEF Start, LoginFails, Disconnect, Abort, ProcessOK, process,
      request_termination, DropProcess, ChildStates, Gone
<1>11. CASE OpenVpnListens \/ PortRace
  BY <1>11
  DEF OpenVpnListens, PortRace, ProcessOK, Listen, PortTaken, ChildStates
<1>12. CASE OpenVpnConnects
  BY <1>12
  DEF OpenVpnConnects, ProcessOK, Establish, NothingPushed, ChildStates
<1>13. CASE OpenVpnRestarts
  BY <1>13
  DEF OpenVpnRestarts, ProcessOK, Restart, ChildStates
<1>14. CASE OpenVpnExits
  BY <1>14
  DEF OpenVpnExits, ProcessOK, Alive, Exit, ChildStates
<1>15. CASE Kill
  BY <1>15
  DEF Kill, ProcessOK, Alive, Gone, ChildStates
<1>16. CASE OrphanEnds \/ RoutesDrift \/ DetachedMonitorTicks \/ MonitorTicks
  BY <1>16
  DEF OrphanEnds, RoutesDrift, DetachedMonitorTicks, MonitorTicks, ProcessOK,
      process, ChildStates
<1>17. QED
  BY <1>1, <1>2, <1>3, <1>4, <1>5, <1>6, <1>7, <1>8, <1>9, <1>10, <1>11, <1>12,
     <1>13, <1>14, <1>15, <1>16
  DEF Next, Proceed, Operator, Environment

\* What the host's interfaces and resolvers hold.
LEMMA LinuxPreserved ==
    ASSUME LinuxOK, PlaceHome, Next
    PROVE  LinuxOK'
<1>1. CASE Wake \/ Prepare \/ PrepareFails \/ Spawn
  BY <1>1, VpnSessionAssumption
  DEF Wake, Prepare, PrepareFails, Spawn, LinuxOK, PlaceHome, Goto, linux,
      AttemptFails, Exits, Min, start_reconnect_attempt
<1>2. CASE Dial \/ Authenticate \/ GaveUp
  BY <1>2, VpnSessionAssumption
  DEF Dial, Authenticate, GaveUp, LinuxOK, PlaceHome, ConnectDrops, Goto,
      linux, AttemptFails, TunnelClosed, Exits, Min, start_reconnect_attempt,
      CloseLinks, NoLink
<1>3. CASE Connected
  BY <1>3, VpnSessionAssumption
  DEF Connected, LinuxOK, PlaceHome, AfterLogin, Goto, OwnAddr, linux
<1>4. CASE Lookup
  BY <1>4, VpnSessionAssumption
  DEF Lookup, LinuxOK, PlaceHome, ConfigureFails, Configuring, GoesOn,
      linux_interface_for_ipv4, AttemptFails, CloseLinks, TakeGuard, Goto,
      Exits, Min, start_reconnect_attempt, NoLink, NoGuard
<1>5. CASE ResolvectlDns \/ ResolvectlDomain \/ ResolvectlRevert
  BY <1>5, VpnSessionAssumption
  DEF ResolvectlDns, ResolvectlDomain, ResolvectlRevert, LinuxOK, PlaceHome,
      Configuring, GoesOn, SetDns, linux, SetDomain, Revert, Goto, CanResolve,
      Resolvectl, NoLink
<1>6. CASE Resolvconf \/ Scutil
  BY <1>6, VpnSessionAssumption
  DEF Resolvconf, Scutil, LinuxOK, PlaceHome, ConfigureFails, Configuring,
      GoesOn, configure_resolvconf, linux, AttemptFails, CloseLinks, TakeGuard,
      Goto, Exits, Min, start_reconnect_attempt, NoLink, NoGuard
<1>7. CASE Lost
  BY <1>7, VpnSessionAssumption
  DEF Lost, LinuxOK, PlaceHome, Exits, RestoreDns, RestoreDnsFails,
      start_reconnect_attempt, Goto, Restore, TakeGuard, Configured, NoGuard
<1>8. CASE Stopped \/ Restored
  BY <1>8, VpnSessionAssumption
  DEF Stopped, Restored, LinuxOK, PlaceHome, Goto, TunnelClosed, Exits,
      RestoreDns, RestoreDnsFails, CloseLinks, Restore, TakeGuard, Configured,
      NoLink, NoGuard
<1>9. CASE DropGuard \/ Drop
  BY <1>9, VpnSessionAssumption
  DEF DropGuard, Drop, LinuxOK, PlaceHome, Exits, RestoreDns, RestoreDnsFails,
      Goto, TunnelClosed, Restore, TakeGuard, Configured, CloseLinks, NoGuard,
      NoLink
<1>10. CASE Start \/ LoginFails \/ Disconnect \/ Abort
  BY <1>10, VpnSessionAssumption
  DEF Start, LoginFails, Disconnect, Abort, LinuxOK, PlaceHome, Goto, linux,
      Exits, TunnelClosed, CloseLinks, NoLink
<1>11. CASE OpenVpnListens \/ PortRace
  BY <1>11, VpnSessionAssumption
  DEF OpenVpnListens, PortRace, LinuxOK, PlaceHome, linux
<1>12. CASE OpenVpnConnects
  <2>1. CASE UNCHANGED <<link, resolved, records>>
    BY <1>12, <2>1 DEF OpenVpnConnects, LinuxOK
  <2>2. CASE OpenLink
    <3>1. link' \in [Tuns -> [owner : {"own", "orphan", None}, addr : Addrs \cup {None}]]
      BY <2>2 DEF OpenLink, LinuxOK
    <3>2. QED
      BY <1>12, <2>2, <3>1 DEF OpenVpnConnects, OpenLink, LinuxOK
  <2>3. QED
    BY <1>12, <2>1, <2>2 DEF OpenVpnConnects
<1>13. CASE OpenVpnRestarts
  BY <1>13, VpnSessionAssumption
  DEF OpenVpnRestarts, LinuxOK, PlaceHome, TunnelClosed, CloseLinks, NoLink
<1>14. CASE OpenVpnExits
  BY <1>14, VpnSessionAssumption
  DEF OpenVpnExits, LinuxOK, PlaceHome, TunnelClosed, CloseLinks, NoLink
<1>15. CASE Kill
  BY <1>15, VpnSessionAssumption
  DEF Kill, LinuxOK, PlaceHome, Abandon, Exits, TakeGuard, Goto, NoGuard
<1>16. CASE OrphanEnds \/ RoutesDrift \/ DetachedMonitorTicks \/ MonitorTicks
  BY <1>16, VpnSessionAssumption
  DEF OrphanEnds, RoutesDrift, DetachedMonitorTicks, MonitorTicks, LinuxOK,
      PlaceHome, CloseLinks, linux, NoLink
<1>17. QED
  BY <1>1, <1>2, <1>3, <1>4, <1>5, <1>6, <1>7, <1>8, <1>9, <1>10, <1>11, <1>12,
     <1>13, <1>14, <1>15, <1>16
  DEF Next, Proceed, Operator, Environment

LEMMA OwnAddrType ==
    ASSUME LinuxOK
    PROVE  OwnAddr \in Addrs \cup {None}
BY DEF LinuxOK, OwnAddr

\* The faults are counted.
LEMMA FaultsCounted ==
    ASSUME faults \in Nat, Next
    PROVE  faults' \in Nat
<1>1. CASE Wake \/ Prepare \/ PrepareFails \/ Spawn \/ Dial \/ Authenticate \/
            Connected \/ GaveUp \/ Lookup \/ ResolvectlDns \/ ResolvectlDomain
            \/ ResolvectlRevert \/ Resolvconf \/ Scutil \/ Lost \/ Stopped \/
            Restored \/ DropGuard
  BY <1>1
  DEF Wake, Prepare, PrepareFails, Spawn, Dial, Authenticate, Connected,
      GaveUp, Lookup, ResolvectlDns, ResolvectlDomain, ResolvectlRevert,
      Resolvconf, Scutil, Lost, Stopped, Restored, DropGuard, AfterLogin,
      Configuring, RestoreDnsFails
<1>2. CASE Start \/ LoginFails \/ Disconnect \/ Drop \/ Abort
  BY <1>2
  DEF Start, LoginFails, Disconnect, Drop, Abort
<1>3. CASE OpenVpnListens \/ PortRace \/ OpenVpnConnects \/ OpenVpnRestarts \/
            OpenVpnExits \/ Kill \/ OrphanEnds \/ RoutesDrift \/
            DetachedMonitorTicks \/ MonitorTicks
  BY <1>3
  DEF OpenVpnListens, PortRace, OpenVpnConnects, OpenVpnRestarts, OpenVpnExits,
      Kill, OrphanEnds, RoutesDrift, DetachedMonitorTicks, MonitorTicks, Fault,
      NothingPushed
<1>4. QED
  BY <1>1, <1>2, <1>3
  DEF Next, Proceed, Operator, Environment

\* Undoing the DNS settings, or failing to.
LEMMA RestoreType ==
    ASSUME LinuxOK, ControlOK, SettingsHome, RestoreDns \/ RestoreDnsFails
    PROVE  /\ hostDns' \in SUBSET {"scutil", "script"}
           /\ left' \in [records : SUBSET Tuns, host : SUBSET {"scutil", "script"}]
<1>1. CASE RestoreDns
  BY <1>1 DEF RestoreDns, ControlOK
<1>2. CASE RestoreDnsFails
  <2>1. (IF guard.method = "resolvconf" THEN {guard.tun} ELSE {}) \subseteq Tuns
    BY DEF LinuxOK, SettingsHome, RecordsHome
  <2>2. left.records \in SUBSET Tuns /\ left.host \in SUBSET {"scutil", "script"}
    BY DEF ControlOK
  <2>3. QED
    BY <1>2, <2>1, <2>2 DEF RestoreDnsFails, ControlOK
<1>3. QED
  BY <1>1, <1>2

\* Where the process is, and the settings of the host.
LEMMA ControlPreserved ==
    ASSUME ControlOK, LinuxOK, SettingsHome, faults' \in Nat, Next
    PROVE  ControlOK'
<1>1. CASE Wake \/ Prepare \/ PrepareFails \/ Spawn
  BY <1>1
  DEF Wake, Prepare, PrepareFails, Spawn, ControlOK, Points, Login, Configure,
      Ending, SettingsHome, LinuxOK, Goto, host, local, Linux, AttemptFails,
      RecordsHome, ScriptHome, UndoHome, Daemon, Exits, Min,
      start_reconnect_attempt
<1>2. CASE Dial \/ Authenticate \/ GaveUp
  BY <1>2
  DEF Dial, Authenticate, GaveUp, ControlOK, Points, Login, Configure, Ending,
      SettingsHome, LinuxOK, ConnectDrops, Goto, host, AttemptFails, Forget,
      NoScript, RecordsHome, ScriptHome, UndoHome, Daemon, Exits, Min,
      start_reconnect_attempt, NothingPushed
<1>3. CASE Connected
  BY <1>3, OwnAddrType
  DEF Connected, ControlOK, Points, Login, Configure, Ending, SettingsHome,
      LinuxOK, AfterLogin, Goto, host, local, RecordsHome, ScriptHome,
      UndoHome, Linux, NativeDns, uses_dns_scripts
<1>4. CASE Lookup
  BY <1>4
  DEF Lookup, ControlOK, Points, Login, Configure, Ending, SettingsHome,
      LinuxOK, ConfigureFails, Configuring, GoesOn, host, RecordsHome,
      ScriptHome, UndoHome, AttemptFails, Forget, NoScript, Goto, Daemon,
      Exits, Min, start_reconnect_attempt, NothingPushed
<1>5. CASE ResolvectlDns \/ ResolvectlDomain \/ ResolvectlRevert
  BY <1>5
  DEF ResolvectlDns, ResolvectlDomain, ResolvectlRevert, ControlOK, Points,
      Login, Configure, Ending, SettingsHome, LinuxOK, Configuring, GoesOn,
      host, RecordsHome, ScriptHome, UndoHome, Goto
<1>6. CASE Resolvconf \/ Scutil
  BY <1>6
  DEF Resolvconf, Scutil, ControlOK, Points, Login, Configure, Ending,
      SettingsHome, LinuxOK, ConfigureFails, Configuring, GoesOn, host,
      RecordsHome, ScriptHome, UndoHome, AttemptFails, Forget, NoScript, Goto,
      Daemon, Exits, Min, start_reconnect_attempt, NothingPushed
<1>7. CASE Lost
  BY <1>7, RestoreType
  DEF Lost, ControlOK, Points, Login, Configure, Ending, SettingsHome, LinuxOK,
      Daemon, Exits, Forget, RestoreDns, RestoreDnsFails,
      start_reconnect_attempt, host, RecordsHome, ScriptHome, UndoHome, Goto,
      NothingPushed, Configured
<1>8. CASE Stopped \/ Restored
  BY <1>8
  DEF Stopped, Restored, ControlOK, Points, Login, Configure, Ending,
      SettingsHome, LinuxOK, Goto, NoScript, local, Exits, Forget, RestoreDns,
      RestoreDnsFails, host, RecordsHome, ScriptHome, UndoHome, NothingPushed,
      Configured
<1>9. CASE DropGuard \/ Drop
  BY <1>9
  DEF DropGuard, Drop, ControlOK, Points, Login, Configure, Ending,
      SettingsHome, LinuxOK, Exits, Forget, RestoreDns, RestoreDnsFails,
      Daemon, Goto, NoScript, local, host, RecordsHome, ScriptHome, UndoHome,
      NothingPushed, Configured
<1>10. CASE Start \/ LoginFails \/ Disconnect \/ Abort
  BY <1>10
  DEF Start, LoginFails, Disconnect, Abort, ControlOK, Points, Login,
      Configure, Ending, SettingsHome, LinuxOK, Goto, host, local, Daemon,
      Exits, Forget, NoScript, RecordsHome, ScriptHome, UndoHome, NothingPushed
<1>11. CASE OpenVpnListens \/ PortRace
  BY <1>11
  DEF OpenVpnListens, PortRace, ControlOK, Points, Login, Configure, Ending,
      SettingsHome, LinuxOK, Outside, host, RecordsHome, ScriptHome, UndoHome,
      local
<1>12. CASE OpenVpnConnects
  BY <1>12
  DEF OpenVpnConnects, ControlOK, Points, Login, Configure, Ending,
      SettingsHome, LinuxOK, Linux, NothingPushed, Outside, UpScript, host,
      RecordsHome, ScriptHome, UndoHome, local, uses_dns_scripts
<1>13. CASE OpenVpnRestarts
  BY <1>13
  DEF OpenVpnRestarts, ControlOK, Points, Login, Configure, Ending,
      SettingsHome, LinuxOK, DownScript, Outside, host, RecordsHome,
      ScriptHome, UndoHome, local
<1>14. CASE OpenVpnExits
  BY <1>14
  DEF OpenVpnExits, ControlOK, Points, Login, Configure, Ending, SettingsHome,
      LinuxOK, DownScript, NoScript, Outside, host, RecordsHome, ScriptHome,
      UndoHome, local
<1>15. CASE Kill
  <2>1. left.records \in SUBSET Tuns /\ left.host \in SUBSET {"scutil", "script"}
    BY DEF ControlOK
  <2>2. left' \in [records : SUBSET Tuns, host : SUBSET {"scutil", "script"}]
    BY <1>15, <2>1 DEF Kill, ControlOK, LinuxOK
  <2>3. QED
    BY <1>15, <2>2 DEF Kill, ControlOK, Points, Exits, Forget, Goto
<1>16. CASE OrphanEnds \/ RoutesDrift \/ DetachedMonitorTicks \/ MonitorTicks
  BY <1>16
  DEF OrphanEnds, RoutesDrift, DetachedMonitorTicks, MonitorTicks, ControlOK,
      Points, Login, Configure, Ending, SettingsHome, LinuxOK, host, local,
      Outside, RecordsHome, ScriptHome, UndoHome
<1>17. QED
  BY <1>1, <1>2, <1>3, <1>4, <1>5, <1>6, <1>7, <1>8, <1>9, <1>10, <1>11, <1>12,
     <1>13, <1>14, <1>15, <1>16
  DEF Next, Proceed, Operator, Environment

\* What OpenVPN adds are rows for the routes of a reply.
LEMMA RowsType ==
    ASSUME NEW routes \in SUBSET Route, NEW bare
    PROVE  EntriesOf(routes, bare) \in SUBSET Entry
<1>1. ASSUME NEW r \in routes, netmask_prefix(r.netmask) # Invalid
      PROVE  netmask_prefix(r.netmask) \in Prefixes
  BY <1>1, LeadingOnesType DEF netmask_prefix, Route
<1>2. ASSUME NEW r \in routes
      PROVE  r.network \cap r.netmask \in Addresses
  BY DEF Route, Addresses
<1>3. ASSUME NEW r \in routes, netmask_prefix(r.netmask) # Invalid
      PROVE  [network |-> r.network \cap r.netmask, prefix |-> netmask_prefix(r.netmask),
              bare |-> r \in bare, device |-> "own"] \in Entry
  <2>1. (r \in bare) \in BOOLEAN
    OBVIOUS
  <2>2. QED
    BY <1>1, <1>2, <1>3, <2>1 DEF Entry, Devices
<1>4. QED
  BY <1>3 DEF EntriesOf

LEMMA RoutesType ==
    ASSUME NEW reply \in PushReplies
    PROVE  Routes(reply) \in SUBSET Route
<1>1. \A i \in DOMAIN reply : reply[i] \in Option
  BY VpnSessionAssumption
<1>2. Bits \in Addresses
  BY DEF Addresses
<1>3. ASSUME NEW i \in DOMAIN reply, Invalid \notin {reply[i].address, reply[i].netmask}
      PROVE  [network |-> reply[i].address,
              netmask |-> IF reply[i].netmask = Absent THEN Bits ELSE reply[i].netmask] \in Route
  BY <1>1, <1>2, <1>3 DEF Option, Route
<1>4. QED
  BY <1>3 DEF Routes

LEMMA OptionsType ==
    ASSUME NEW reply \in PushReplies, parse_pushed_options(reply) # Invalid
    PROVE  parse_pushed_options(reply) \in [dns_servers : SUBSET Addresses, routes : SUBSET Route]
<1>1. \A i \in DOMAIN reply : reply[i] \in Option
  BY VpnSessionAssumption
<1>2. DnsServers(reply) \in SUBSET Addresses
  BY <1>1 DEF DnsServers, Option
<1>3. QED
  BY <1>2, RoutesType DEF parse_pushed_options

\* What connect() has learnt is a push reply, or nothing.
LEMMA PushedPreserved ==
    ASSUME pushed \in [dns_servers : SUBSET Addresses, routes : SUBSET Route], Next
    PROVE  pushed' \in [dns_servers : SUBSET Addresses, routes : SUBSET Route]
<1>1. NothingPushed \in [dns_servers : SUBSET Addresses, routes : SUBSET Route]
  BY DEF NothingPushed
<1>2. CASE Proceed
  BY <1>1, <1>2
  DEF Proceed, Wake, Prepare, PrepareFails, Spawn, Dial, Authenticate,
      Connected, GaveUp, Lookup, ResolvectlDns, ResolvectlDomain,
      ResolvectlRevert, Resolvconf, Scutil, Lost, Stopped, Restored, DropGuard,
      ConnectDrops, AfterLogin, Forget, ConfigureFails, Configuring, GoesOn,
      NativeDns
<1>3. CASE Operator
  BY <1>1, <1>3
  DEF Operator, Start, LoginFails, Disconnect, Drop, Abort, Forget,
      NothingPushed
<1>4. CASE OpenVpnConnects
  <2>1. CASE UNCHANGED pushed
    BY <2>1
  <2>2. CASE pushed' # pushed
    <3>1. PICK reply \in PushReplies : /\ parse_pushed_options(reply) # Invalid
                                      /\ pushed' = parse_pushed_options(reply)
      BY <1>4, <2>2 DEF OpenVpnConnects
    <3>2. QED
      BY <3>1, OptionsType
  <2>3. QED
    BY <2>1, <2>2
<1>5. CASE (Environment /\ ~OpenVpnConnects) \/ MonitorTicks
  BY <1>1, <1>5
  DEF Environment, OpenVpnListens, PortRace, OpenVpnRestarts, OpenVpnExits,
      Kill, OrphanEnds, RoutesDrift, DetachedMonitorTicks, MonitorTicks,
      Forget
<1>6. QED
  BY <1>2, <1>3, <1>4, <1>5 DEF Next, Environment

\* The kernel's routes, and the monitors.
LEMMA MonitorPreserved ==
    ASSUME MonitorOK, pushed \in [dns_servers : SUBSET Addresses, routes : SUBSET Route], Next
    PROVE  MonitorOK'
<1>1. CASE Wake \/ Prepare \/ PrepareFails \/ Spawn
  BY <1>1
  DEF Wake, Prepare, PrepareFails, Spawn, MonitorOK, routing, Entry, Route,
      Addresses, Devices, Prefixes, Bits, Width
<1>2. CASE Dial \/ Authenticate \/ GaveUp
  BY <1>2
  DEF Dial, Authenticate, GaveUp, MonitorOK, ConnectDrops, routing,
      TunnelClosed, Entry, Route, Without, Addresses, Devices, Prefixes, Bits,
      Width
<1>3. CASE Connected
  BY <1>3
  DEF Connected, MonitorOK, AfterLogin, spawn_route_monitor, Entry, Route,
      Addresses, Devices, Prefixes, Bits, Width
<1>4. CASE Lookup
  BY <1>4
  DEF Lookup, MonitorOK, ConfigureFails, Configuring, GoesOn, Entry, Route,
      DetachMonitor, Without, routing, Addresses, Devices, Prefixes,
      abort_route_monitor, Bits, Width
<1>5. CASE ResolvectlDns \/ ResolvectlDomain \/ ResolvectlRevert
  BY <1>5
  DEF ResolvectlDns, ResolvectlDomain, ResolvectlRevert, MonitorOK,
      Configuring, GoesOn, Entry, Route, routing, Addresses, Devices, Prefixes,
      Bits, Width
<1>6. CASE Resolvconf \/ Scutil
  BY <1>6
  DEF Resolvconf, Scutil, MonitorOK, ConfigureFails, Configuring, GoesOn,
      Entry, Route, DetachMonitor, Without, routing, Addresses, Devices,
      Prefixes, abort_route_monitor, Bits, Width
<1>7. CASE Lost
  BY <1>7
  DEF Lost, MonitorOK, abort_route_monitor, Entry, Route, Addresses, Devices,
      Prefixes, Bits, Width
<1>8. CASE Stopped \/ Restored
  BY <1>8
  DEF Stopped, Restored, MonitorOK, TunnelClosed, abort_route_monitor, Entry,
      Route, Without, Addresses, Devices, Prefixes, Bits, Width
<1>9. CASE DropGuard \/ Drop
  BY <1>9
  DEF DropGuard, Drop, MonitorOK, DetachMonitor, TunnelClosed, Entry, Route,
      abort_route_monitor, Without, Addresses, Devices, Prefixes, Bits, Width
<1>10. CASE Start \/ LoginFails \/ Disconnect \/ Abort
  BY <1>10
  DEF Start, LoginFails, Disconnect, Abort, MonitorOK, routing, TunnelClosed,
      Entry, Route, Without, Addresses, Devices, Prefixes, Bits, Width
<1>11. CASE OpenVpnListens \/ PortRace
  BY <1>11
  DEF OpenVpnListens, PortRace, MonitorOK, routing, Entry, Route, Addresses,
      Devices, Prefixes, Bits, Width
<1>12. CASE OpenVpnConnects
  <2>1. CASE UNCHANGED table
    BY <1>12, <2>1 DEF OpenVpnConnects, MonitorOK
  <2>2. CASE \E reply \in PushReplies : AddRoutes(Routes(reply))
    <3>1. PICK reply \in PushReplies : AddRoutes(Routes(reply))
      BY <2>2
    <3>2. Routes(reply) \in SUBSET Route
      BY RoutesType
    <3>3. PICK bare : table' = table \cup EntriesOf(Routes(reply), bare)
      BY <3>1 DEF AddRoutes
    <3>4. EntriesOf(Routes(reply), bare) \in SUBSET Entry
      BY <3>2, RowsType
    <3>5. QED
      BY <1>12, <3>3, <3>4 DEF OpenVpnConnects, MonitorOK
  <2>3. QED
    BY <1>12, <2>1, <2>2 DEF OpenVpnConnects
<1>13. CASE OpenVpnRestarts
  BY <1>13
  DEF OpenVpnRestarts, MonitorOK, TunnelClosed, Entry, Route, Without,
      Addresses, Devices, Prefixes, Bits, Width
<1>14. CASE OpenVpnExits
  BY <1>14
  DEF OpenVpnExits, MonitorOK, TunnelClosed, Entry, Route, Without, Addresses,
      Devices, Prefixes, Bits, Width
<1>15. CASE Kill
  <2>1. ASSUME NEW e \in Entry
        PROVE  [e EXCEPT !.device = "orphan"] \in Entry
    BY DEF Entry, Devices
  <2>2. table' \in SUBSET Entry
    BY <1>15, <2>1 DEF Kill, AbandonRoutes, Without, MonitorOK
  <2>3. QED
    BY <1>15, <2>2 DEF Kill, MonitorOK
<1>16. CASE OrphanEnds \/ RoutesDrift \/ DetachedMonitorTicks \/ MonitorTicks
  <2>1. ASSUME NEW e \in Entry
        PROVE  [e EXCEPT !.device = "other"] \in Entry
    BY DEF Entry, Devices
  <2>2. CASE OrphanEnds
    BY <2>2 DEF OrphanEnds, MonitorOK, Without
  <2>3. CASE RoutesDrift
    <3>1. table' \in SUBSET Entry
      BY <2>1, <2>3 DEF RoutesDrift, Drift, MonitorOK
    <3>2. QED
      BY <2>3, <3>1 DEF RoutesDrift, Drift, MonitorOK
  <2>4. CASE DetachedMonitorTicks \/ MonitorTicks
    BY <2>4 DEF DetachedMonitorTicks, MonitorTicks, DetachedTick, RouteTick, MonitorOK
  <2>5. QED
    BY <1>16, <2>2, <2>3, <2>4
<1>17. QED
  BY <1>1, <1>2, <1>3, <1>4, <1>5, <1>6, <1>7, <1>8, <1>9, <1>10, <1>11, <1>12,
     <1>13, <1>14, <1>15, <1>16
  DEF Next, Proceed, Operator, Environment

\* The powers of two that the backoff uses.
LEMMA DelayTerm ==
    ASSUME NEW k \in 0 .. MaxExponent
    PROVE  InitialDelay * 2^k \in Nat
<1>1. 2^k \in Nat
  BY ShiftAssumption
<1>2. QED
  BY <1>1, VpnSessionAssumption

LEMMA DelayType ==
    ASSUME NEW n \in Nat
    PROVE  reconnect_delay(n) \in 0 .. MaxDelay
<1> DEFINE k == Min(IF n = 0 THEN 0 ELSE n - 1, MaxExponent)
<1>1. k \in 0 .. MaxExponent
  BY VpnSessionAssumption DEF Min
<1>2. InitialDelay * 2^k \in Nat
  BY <1>1, DelayTerm
<1> DEFINE term == InitialDelay * 2^k
<1>3. reconnect_delay(n) = Min(term, MaxDelay)
  BY DEF reconnect_delay
<1> HIDE DEF term
<1>4. QED
  BY <1>2, <1>3, VpnSessionAssumption DEF Min, term

LEMMA FirstDelay == reconnect_delay(1) = InitialDelay
<1>1. Min(IF 1 = 0 THEN 0 ELSE 1 - 1, MaxExponent) = 0
  BY VpnSessionAssumption DEF Min
<1>2. InitialDelay * 2^0 = InitialDelay
  BY ShiftAssumption, VpnSessionAssumption
<1>3. QED
  BY <1>1, <1>2, VpnSessionAssumption DEF reconnect_delay, Min

\* The delay doubles until the maximum, which is reached before the number of
\* the attempt saturates.
LEMMA NextDelay ==
    ASSUME NEW n \in 1 .. MaxAttempt
    PROVE  reconnect_delay(Min(n + 1, MaxAttempt)) = Min(2 * reconnect_delay(n), MaxDelay)
<1>1. CASE n <= MaxExponent
  <2>1. Min(n + 1, MaxAttempt) = n + 1
    BY <1>1, VpnSessionAssumption DEF Min
  <2>2. Min(IF n + 1 = 0 THEN 0 ELSE n + 1 - 1, MaxExponent) = n
    BY <1>1, VpnSessionAssumption DEF Min
  <2>3. Min(IF n = 0 THEN 0 ELSE n - 1, MaxExponent) = n - 1
    BY <1>1, VpnSessionAssumption DEF Min
  <2>4. 2^n = 2 * 2^(n - 1) /\ 2^(n - 1) \in Nat
    <3>1. n - 1 \in 0 .. MaxExponent /\ (n - 1) + 1 = n
      BY <1>1, VpnSessionAssumption
    <3>2. QED
      BY <3>1, ShiftAssumption
  <2> DEFINE x == 2^(n - 1)
             y == InitialDelay * x
  <2>5. InitialDelay * 2^n = 2 * y /\ y \in Nat
    <3>1. x \in Nat /\ 2^n = 2 * x
      BY <2>4
    <3> HIDE DEF x
    <3>2. InitialDelay * (2 * x) = 2 * (InitialDelay * x) /\ InitialDelay * x \in Nat
      BY <3>1, VpnSessionAssumption
    <3>3. QED
      BY <3>1, <3>2
  <2>6. reconnect_delay(n + 1) = Min(2 * y, MaxDelay) /\ reconnect_delay(n) = Min(y, MaxDelay)
    BY <2>2, <2>3, <2>5 DEF reconnect_delay
  <2> HIDE DEF y
  <2>7. Min(2 * y, MaxDelay) = Min(2 * Min(y, MaxDelay), MaxDelay)
    BY <2>5, VpnSessionAssumption DEF Min
  <2>8. QED
    BY <2>1, <2>6, <2>7
<1>2. CASE n > MaxExponent
  <2> DEFINE top == InitialDelay * 2^MaxExponent
  <2>1. top \in Nat /\ top >= MaxDelay
    BY DelayTerm, VpnSessionAssumption
  <2>2. ASSUME NEW m \in Nat, m > MaxExponent
        PROVE  reconnect_delay(m) = MaxDelay
    <3>1. Min(IF m = 0 THEN 0 ELSE m - 1, MaxExponent) = MaxExponent
      BY <2>2, VpnSessionAssumption DEF Min
    <3>2. reconnect_delay(m) = Min(top, MaxDelay)
      BY <3>1 DEF reconnect_delay
    <3> HIDE DEF top
    <3>3. QED
      BY <2>1, <3>2, VpnSessionAssumption DEF Min
  <2>3. Min(n + 1, MaxAttempt) \in Nat /\ Min(n + 1, MaxAttempt) > MaxExponent
    BY <1>2, VpnSessionAssumption DEF Min
  <2>4. Min(2 * MaxDelay, MaxDelay) = MaxDelay
    BY VpnSessionAssumption DEF Min
  <2>5. QED
    BY <1>2, <2>2, <2>3, <2>4
<1>3. QED
  BY <1>1, <1>2, VpnSessionAssumption

\* What a step does with the attempt and its delay.
LEMMA AttemptMoves ==
    ASSUME pc \in Points, Next
    PROVE  \/ UNCHANGED <<attempt, delay>> /\ (pc' = "sleep" => pc = "sleep")
           \/ attempt' = 0 /\ delay' = 0 /\ pc' \in {"off", "killed"}
           \/ /\ Daemon /\ attempt > 0 /\ pc \notin {"session", "sleep"}
              /\ start_reconnect_attempt(Min(attempt + 1, MaxAttempt))
           \/ Daemon /\ pc = "session" /\ start_reconnect_attempt(1)
<1>1. CASE Wake \/ Prepare \/ Connected
  BY <1>1
  DEF Wake, Prepare, Connected, AttemptFails, Configure, Login, Goto, local,
      AfterLogin, Exits
<1>2. CASE PrepareFails \/ Spawn
  BY <1>2
  DEF PrepareFails, Spawn, AttemptFails, Configure, Login, Goto, Exits
<1>3. CASE Dial \/ Authenticate \/ GaveUp
  BY <1>3
  DEF Dial, Authenticate, GaveUp, AttemptFails, Configure, Login, ConnectDrops,
      Goto, Exits
<1>4. CASE Lookup
  BY <1>4
  DEF Lookup, AttemptFails, Configure, Login, ConfigureFails, Configuring,
      GoesOn, Exits, Goto
<1>5. CASE ResolvectlDns \/ ResolvectlDomain \/ ResolvectlRevert
  BY <1>5
  DEF ResolvectlDns, ResolvectlDomain, ResolvectlRevert, AttemptFails,
      Configure, Login, Configuring, GoesOn, Exits, Goto
<1>6. CASE Resolvconf \/ Scutil
  BY <1>6
  DEF Resolvconf, Scutil, AttemptFails, Configure, Login, ConfigureFails,
      Configuring, GoesOn, Exits, Goto
<1>7. CASE Lost
  BY <1>7
  DEF Lost, AttemptFails, Configure, Login, Exits, Goto
<1>8. CASE Stopped \/ Restored \/ DropGuard \/ Drop
  BY <1>8
  DEF Stopped, Restored, DropGuard, Drop, AttemptFails, Configure, Login, Goto,
      local, Exits
<1>9. CASE Start \/ LoginFails \/ Disconnect \/ Abort
  BY <1>9
  DEF Start, LoginFails, Disconnect, Abort, AttemptFails, Configure, Login,
      Goto, local, Exits
<1>10. CASE OpenVpnListens \/ PortRace \/ OpenVpnConnects \/ OpenVpnRestarts \/
             OpenVpnExits
  BY <1>10
  DEF OpenVpnListens, PortRace, OpenVpnConnects, OpenVpnRestarts, OpenVpnExits,
      AttemptFails, Configure, Login, Outside, NothingPushed, Exits, local,
      Goto
<1>11. CASE Kill
  BY <1>11
  DEF Kill, AttemptFails, Configure, Login, Exits, Goto
<1>12. CASE OrphanEnds \/ RoutesDrift \/ DetachedMonitorTicks \/ MonitorTicks
  BY <1>12
  DEF OrphanEnds, RoutesDrift, DetachedMonitorTicks, MonitorTicks,
      AttemptFails, Configure, Login, local, Outside, Exits, Goto
<1>13. QED
  BY <1>1, <1>2, <1>3, <1>4, <1>5, <1>6, <1>7, <1>8, <1>9, <1>10, <1>11, <1>12
  DEF Next, Proceed, Operator, Environment

\* The options of a process are fixed.
LEMMA SetupStays ==
    ASSUME Next
    PROVE  setup' = setup
<1>1. CASE Wake \/ Prepare \/ PrepareFails \/ Spawn
  BY <1>1
  DEF Wake, Prepare, PrepareFails, Spawn, local, Linux, AttemptFails, Daemon,
      Min
<1>2. CASE Dial \/ Authenticate \/ GaveUp
  BY <1>2
  DEF Dial, Authenticate, GaveUp, ConnectDrops, AttemptFails, Daemon, Min
<1>3. CASE Connected
  BY <1>3
  DEF Connected, AfterLogin, local, Linux, NativeDns, uses_dns_scripts
<1>4. CASE Lookup
  BY <1>4
  DEF Lookup, ConfigureFails, Configuring, AttemptFails, Daemon, Min
<1>5. CASE ResolvectlDns \/ ResolvectlDomain \/ ResolvectlRevert
  BY <1>5
  DEF ResolvectlDns, ResolvectlDomain, ResolvectlRevert, Configuring
<1>6. CASE Resolvconf \/ Scutil
  BY <1>6
  DEF Resolvconf, Scutil, ConfigureFails, Configuring, AttemptFails, Daemon,
      Min
<1>7. CASE Lost
  BY <1>7
  DEF Lost, Daemon
<1>8. CASE Stopped \/ Restored
  BY <1>8
  DEF Stopped, Restored, local
<1>9. CASE DropGuard \/ Drop
  BY <1>9
  DEF DropGuard, Drop, Daemon, local
<1>10. CASE Start \/ LoginFails \/ Disconnect \/ Abort
  BY <1>10
  DEF Start, LoginFails, Disconnect, Abort, local, Daemon
<1>11. CASE OpenVpnListens \/ PortRace
  BY <1>11
  DEF OpenVpnListens, PortRace, Outside, local
<1>12. CASE OpenVpnConnects
  BY <1>12
  DEF OpenVpnConnects, Linux, NothingPushed, Outside, UpScript, local,
      uses_dns_scripts
<1>13. CASE OpenVpnRestarts
  BY <1>13
  DEF OpenVpnRestarts, Outside, local
<1>14. CASE OpenVpnExits
  BY <1>14
  DEF OpenVpnExits, Outside, local
<1>15. CASE Kill
  BY <1>15
  DEF Kill
<1>16. CASE OrphanEnds \/ RoutesDrift \/ DetachedMonitorTicks \/ MonitorTicks
  BY <1>16
  DEF OrphanEnds, RoutesDrift, DetachedMonitorTicks, MonitorTicks, local,
      Outside
<1>17. QED
  BY <1>1, <1>2, <1>3, <1>4, <1>5, <1>6, <1>7, <1>8, <1>9, <1>10, <1>11, <1>12,
     <1>13, <1>14, <1>15, <1>16
  DEF Next, Proceed, Operator, Environment

LEMMA AttemptPreserved ==
    ASSUME AttemptOK, BackoffHome, pc \in Points, Next
    PROVE  AttemptOK' /\ BackoffHome'
<1>1. setup' = setup
  BY SetupStays
<1>2. CASE UNCHANGED <<attempt, delay>> /\ (pc' = "sleep" => pc = "sleep")
  BY <1>1, <1>2 DEF AttemptOK, BackoffHome, Daemon
<1>3. CASE attempt' = 0 /\ delay' = 0 /\ pc' \in {"off", "killed"}
  BY <1>3, VpnSessionAssumption DEF AttemptOK, BackoffHome
<1>4. ASSUME Daemon, NEW n \in 1 .. MaxAttempt, start_reconnect_attempt(n)
      PROVE  AttemptOK' /\ BackoffHome'
  <2>1. reconnect_delay(n) \in 0 .. MaxDelay
    BY DelayType
  <2>2. attempt' = n /\ delay' = reconnect_delay(n)
    BY <1>4 DEF start_reconnect_attempt
  <2>3. QED
    BY <1>1, <1>4, <2>1, <2>2 DEF AttemptOK, BackoffHome, Daemon
<1>5. CASE Daemon /\ attempt > 0 /\ start_reconnect_attempt(Min(attempt + 1, MaxAttempt))
  <2>1. Min(attempt + 1, MaxAttempt) \in 1 .. MaxAttempt
    BY <1>5, VpnSessionAssumption DEF AttemptOK, Min
  <2>2. QED
    BY <1>4, <1>5, <2>1
<1>6. CASE Daemon /\ start_reconnect_attempt(1)
  BY <1>4, <1>6, VpnSessionAssumption
<1>7. QED
  BY <1>2, <1>3, <1>5, <1>6, AttemptMoves

LEMMA BackoffStep ==
    ASSUME AttemptOK, BackoffHome, pc \in Points, Next, pc' = "sleep", pc # "sleep"
    PROVE  delay' = IF pc = "session" THEN InitialDelay ELSE Min(2 * delay, MaxDelay)
<1>1. CASE /\ Daemon /\ attempt > 0 /\ pc \notin {"session", "sleep"}
           /\ start_reconnect_attempt(Min(attempt + 1, MaxAttempt))
  BY <1>1, NextDelay DEF AttemptOK, BackoffHome, start_reconnect_attempt
<1>2. CASE Daemon /\ pc = "session" /\ start_reconnect_attempt(1)
  BY <1>2, FirstDelay DEF start_reconnect_attempt
<1>3. QED
  BY <1>1, <1>2, AttemptMoves

\* Where there is an OpenVPN process, and in which state.
LEMMA ChildPreserved ==
    ASSUME ProcessOK, pc \in Points, ChildHome, Next
    PROVE  ChildHome'
<1>1. CASE Wake \/ Prepare \/ PrepareFails \/ Spawn
  BY <1>1
  DEF Wake, Prepare, PrepareFails, Spawn, ChildHome, Points, Login, Configure,
      Ending, ProcessOK, Goto, process, reserve_management_port, AttemptFails,
      spawn, OwnManagement, Exits, Min, start_reconnect_attempt
<1>2. CASE Dial \/ Authenticate \/ GaveUp
  BY <1>2
  DEF Dial, Authenticate, GaveUp, ChildHome, Points, Login, Configure, Ending,
      ProcessOK, ConnectDrops, ConnectManagement, Goto, authenticate,
      AttemptFails, WaitEnds, OwnManagement, DropProcess, Exits, Min,
      start_reconnect_attempt, Gone
<1>3. CASE Connected
  BY <1>3
  DEF Connected, ChildHome, Points, Login, Configure, Ending, ProcessOK,
      AfterLogin, Goto, process, OwnManagement
<1>4. CASE Lookup
  BY <1>4
  DEF Lookup, ChildHome, Points, Login, Configure, Ending, ProcessOK,
      ConfigureFails, Configuring, GoesOn, OwnManagement, AttemptFails,
      DropProcess, Goto, process, Exits, Min, start_reconnect_attempt, Gone
<1>5. CASE ResolvectlDns \/ ResolvectlDomain \/ ResolvectlRevert
  BY <1>5
  DEF ResolvectlDns, ResolvectlDomain, ResolvectlRevert, ChildHome, Points,
      Login, Configure, Ending, ProcessOK, Configuring, GoesOn, OwnManagement,
      Goto, process
<1>6. CASE Resolvconf \/ Scutil
  BY <1>6
  DEF Resolvconf, Scutil, ChildHome, Points, Login, Configure, Ending,
      ProcessOK, ConfigureFails, Configuring, GoesOn, OwnManagement,
      AttemptFails, DropProcess, Goto, process, Exits, Min,
      start_reconnect_attempt, Gone
<1>7. CASE Lost
  BY <1>7
  DEF Lost, ChildHome, Points, Login, Configure, Ending, ProcessOK, Exits,
      Gone, start_reconnect_attempt, OwnManagement, Goto
<1>8. CASE Stopped \/ Restored
  BY <1>8
  DEF Stopped, Restored, ChildHome, Points, Login, Configure, Ending,
      ProcessOK, Goto, WaitEnds, Exits, process, OwnManagement, Gone
<1>9. CASE DropGuard \/ Drop
  BY <1>9
  DEF DropGuard, Drop, ChildHome, Points, Login, Configure, Ending, ProcessOK,
      Exits, process, DropProcess, Goto, OwnManagement, Gone
<1>10. CASE Start \/ LoginFails \/ Disconnect \/ Abort
  BY <1>10
  DEF Start, LoginFails, Disconnect, Abort, ChildHome, Points, Login,
      Configure, Ending, ProcessOK, Goto, process, request_termination,
      DropProcess, Exits, OwnManagement, Gone
<1>11. CASE OpenVpnListens \/ PortRace
  BY <1>11
  DEF OpenVpnListens, PortRace, ChildHome, Points, Login, Configure, Ending,
      ProcessOK, Listen, PortTaken, OwnManagement
<1>12. CASE OpenVpnConnects
  BY <1>12
  DEF OpenVpnConnects, ChildHome, Points, Login, Configure, Ending, ProcessOK,
      Establish, NothingPushed, OwnManagement
<1>13. CASE OpenVpnRestarts
  BY <1>13
  DEF OpenVpnRestarts, ChildHome, Points, Login, Configure, Ending, ProcessOK,
      Restart, OwnManagement
<1>14. CASE OpenVpnExits
  BY <1>14
  DEF OpenVpnExits, ChildHome, Points, Login, Configure, Ending, ProcessOK,
      Alive, Exit, OwnManagement
<1>15. CASE Kill
  BY <1>15
  DEF Kill, ChildHome, Points, Login, Configure, Ending, ProcessOK, Alive,
      Exits, Gone, OwnManagement, Goto
<1>16. CASE OrphanEnds \/ RoutesDrift \/ DetachedMonitorTicks \/ MonitorTicks
  BY <1>16
  DEF OrphanEnds, RoutesDrift, DetachedMonitorTicks, MonitorTicks, ChildHome,
      Points, Login, Configure, Ending, ProcessOK, process, OwnManagement
<1>17. QED
  BY <1>1, <1>2, <1>3, <1>4, <1>5, <1>6, <1>7, <1>8, <1>9, <1>10, <1>11, <1>12,
     <1>13, <1>14, <1>15, <1>16
  DEF Next, Proceed, Operator, Environment

\* What a step does with the interfaces and the OpenVPN process.
LEMMA LinkMoves ==
    ASSUME LinuxOK, pc \in Points, ChildHome, Next
    PROVE  \/ /\ UNCHANGED link
              /\ \A t \in Tuns : resolved'[t] # {} => resolved[t] # {} \/ link[t] # NoLink
              /\ \/ child' = child \/ child' = "term"
                 \/ child' # "up" /\ child \notin {"up", "term"}
                 \/ child' = "up" /\ child = "login" /\ ~Linux
           \/ CloseLinks("own") /\ child' # "up"
           \/ CloseLinks("orphan") /\ child' = child
           \/ OpenLink /\ child = "login" /\ child' = "up"
           \/ Abandon /\ UNCHANGED resolved /\ child' = "none"
<1>1. CASE Wake \/ Prepare \/ PrepareFails \/ Spawn
  BY <1>1
  DEF Wake, Prepare, PrepareFails, Spawn, linux, process,
      reserve_management_port, spawn, ChildHome
<1>2. CASE Dial \/ Authenticate \/ GaveUp
  BY <1>2
  DEF Dial, Authenticate, GaveUp, Configure, Login, ConnectDrops,
      ConnectManagement, linux, authenticate, TunnelClosed, WaitEnds,
      DropProcess, Gone, NoLink
<1>3. CASE Connected
  BY <1>3
  DEF Connected, Configure, Login, linux, process
<1>4. CASE Lookup
  BY <1>4
  DEF Lookup, Configure, Login, ConfigureFails, Configuring, GoesOn,
      linux_interface_for_ipv4, DropProcess, process, NoLink, Gone
<1>5. CASE ResolvectlDns \/ ResolvectlDomain \/ ResolvectlRevert
  <2>1. UNCHANGED link /\ child' = child
    BY <1>5 DEF ResolvectlDns, ResolvectlDomain, ResolvectlRevert, SetDns, SetDomain,
                Revert, Resolvectl, GoesOn, linux, process
  <2>2. CASE ResolvectlDns \/ ResolvectlDomain
    <3>1. UNCHANGED resolved \/ \E what : CanResolve /\ Resolvectl(what)
      BY <2>2 DEF ResolvectlDns, ResolvectlDomain, SetDns, SetDomain, linux
    <3>2. QED
      BY <2>1, <3>1 DEF CanResolve, Resolvectl, LinuxOK
  <2>3. CASE ResolvectlRevert
    <3>1. UNCHANGED resolved \/ Resolvectl({})
      BY <2>3 DEF ResolvectlRevert, Revert
    <3>2. QED
      BY <2>1, <3>1 DEF Resolvectl, LinuxOK
  <2>4. QED
    BY <1>5, <2>2, <2>3
<1>6. CASE Resolvconf \/ Scutil
  BY <1>6
  DEF Resolvconf, Scutil, Configure, Login, ConfigureFails, Configuring,
      GoesOn, configure_resolvconf, linux, DropProcess, process, NoLink, Gone
<1>7. CASE Lost
  BY <1>7
  DEF Lost, Configure, Login, Gone, RestoreDns, RestoreDnsFails, Restore
<1>8. CASE Stopped \/ Restored
  BY <1>8
  DEF Stopped, Restored, Configure, Login, TunnelClosed, WaitEnds, RestoreDns,
      RestoreDnsFails, process, Gone, Restore, NoLink
<1>9. CASE DropGuard \/ Drop
  BY <1>9
  DEF DropGuard, Drop, Configure, Login, RestoreDns, RestoreDnsFails, process,
      DropProcess, TunnelClosed, Restore, Gone, NoLink
<1>10. CASE Start \/ LoginFails \/ Disconnect \/ Abort
  BY <1>10
  DEF Start, LoginFails, Disconnect, Abort, Configure, Login, linux, process,
      request_termination, DropProcess, TunnelClosed, Gone, NoLink
<1>11. CASE OpenVpnListens \/ PortRace
  BY <1>11
  DEF OpenVpnListens, PortRace, Configure, Login, Listen, linux, PortTaken
<1>12. CASE OpenVpnConnects
  BY <1>12
  DEF OpenVpnConnects, Configure, Login, Establish, NoLink
<1>13. CASE OpenVpnRestarts
  BY <1>13
  DEF OpenVpnRestarts, Configure, Login, Restart, TunnelClosed, NoLink
<1>14. CASE OpenVpnExits
  BY <1>14
  DEF OpenVpnExits, Configure, Login, Alive, Exit, TunnelClosed, NoLink
<1>15. CASE Kill
  BY <1>15
  DEF Kill, Configure, Login, Alive, Gone
<1>16. CASE OrphanEnds \/ RoutesDrift \/ DetachedMonitorTicks \/ MonitorTicks
  BY <1>16
  DEF OrphanEnds, RoutesDrift, DetachedMonitorTicks, MonitorTicks, Configure,
      Login, process, linux, NoLink
<1>17. QED
  BY <1>1, <1>2, <1>3, <1>4, <1>5, <1>6, <1>7, <1>8, <1>9, <1>10, <1>11, <1>12,
     <1>13, <1>14, <1>15, <1>16
  DEF Next, Proceed, Operator, Environment

LEMMA LinkPreserved ==
    ASSUME LinuxOK, pc \in Points, ChildHome, LinkHome, setup' = setup, Next
    PROVE  LinkHome'
<1> USE DEF LinkHome
<1>1. CASE /\ UNCHANGED link
           /\ \A t \in Tuns : resolved'[t] # {} => resolved[t] # {} \/ link[t] # NoLink
           /\ \/ child' = child \/ child' = "term"
              \/ child' # "up" /\ child \notin {"up", "term"}
              \/ child' = "up" /\ child = "login" /\ ~Linux
  BY <1>1 DEF Linux
<1>2. CASE CloseLinks("own") /\ child' # "up"
  <2>1. \A t \in Tuns : /\ link'[t] = IF link[t].owner = "own" THEN NoLink ELSE link[t]
                        /\ resolved'[t] = IF link[t].owner = "own" THEN {} ELSE resolved[t]
    BY <1>2 DEF CloseLinks
  <2>2. QED
    BY <1>2, <2>1, VpnSessionAssumption DEF NoLink
<1>3. CASE CloseLinks("orphan") /\ child' = child
  <2>1. \A t \in Tuns : /\ link'[t] = IF link[t].owner = "orphan" THEN NoLink ELSE link[t]
                        /\ resolved'[t] = IF link[t].owner = "orphan" THEN {} ELSE resolved[t]
    BY <1>3 DEF CloseLinks
  <2>2. QED
    BY <1>3, <2>1, VpnSessionAssumption DEF NoLink, Linux
<1>4. CASE OpenLink /\ child = "login" /\ child' = "up"
  <2>1. PICK t \in Tuns, a \in Addrs :
            /\ link[t] = NoLink /\ \A u \in Tuns : link[u].addr # a
            /\ link' = [link EXCEPT ![t] = [owner |-> "own", addr |-> a]]
    BY <1>4 DEF OpenLink
  <2>2. /\ link'[t] = [owner |-> "own", addr |-> a]
        /\ \A u \in Tuns \ {t} : link'[u] = link[u]
        /\ UNCHANGED resolved
    BY <1>4, <2>1 DEF OpenLink, LinuxOK
  <2>3. QED
    BY <1>4, <2>1, <2>2, VpnSessionAssumption DEF NoLink
<1>5. CASE Abandon /\ UNCHANGED resolved /\ child' = "none"
  <2>1. ASSUME NEW t \in Tuns
        PROVE  /\ link'[t].owner = IF link[t].owner = "own" THEN "orphan" ELSE link[t].owner
               /\ link'[t].addr = link[t].addr
               /\ link[t].owner # "own" => link'[t] = link[t]
    BY <1>5 DEF Abandon, LinuxOK
  <2>2. \A t \in Tuns : link'[t].owner = None <=> link[t].owner = None
    BY <2>1, VpnSessionAssumption
  <2>3. \A t \in Tuns : link'[t] = NoLink => link'[t].owner = None
    BY DEF NoLink
  <2>4. QED
    BY <1>5, <2>1, <2>2, <2>3
<1>6. QED
  BY <1>1, <1>2, <1>3, <1>4, <1>5, LinkMoves

\* The down script is still to come.
LEMMA ScriptPreserved ==
    ASSUME left \in [records : SUBSET Tuns, host : SUBSET {"scutil", "script"}],
           ChildHome, UndoHome, ScriptHome, Next
    PROVE  ScriptHome'
<1>1. CASE Wake \/ Prepare \/ PrepareFails \/ Spawn
  BY <1>1
  DEF Wake, Prepare, PrepareFails, Spawn, ScriptHome, ChildHome, host, process,
      reserve_management_port, spawn
<1>2. CASE Dial \/ Authenticate \/ GaveUp
  BY <1>2
  DEF Dial, Authenticate, GaveUp, ScriptHome, ChildHome, ConnectDrops,
      ConnectManagement, host, authenticate, NoScript, WaitEnds, DropProcess,
      Gone
<1>3. CASE Connected
  BY <1>3
  DEF Connected, ScriptHome, ChildHome, AfterLogin, host, process
<1>4. CASE Lookup
  BY <1>4
  DEF Lookup, ScriptHome, ChildHome, ConfigureFails, Configuring, GoesOn, host,
      DropProcess, NoScript, process, Gone
<1>5. CASE ResolvectlDns \/ ResolvectlDomain \/ ResolvectlRevert
  BY <1>5
  DEF ResolvectlDns, ResolvectlDomain, ResolvectlRevert, ScriptHome, ChildHome,
      Configuring, GoesOn, host, process
<1>6. CASE Resolvconf \/ Scutil
  BY <1>6
  DEF Resolvconf, Scutil, ScriptHome, ChildHome, ConfigureFails, Configuring,
      GoesOn, host, DropProcess, NoScript, process, Gone
<1>7. CASE Lost
  BY <1>7
  DEF Lost, ScriptHome, ChildHome, Gone, RestoreDns, RestoreDnsFails, host,
      Configured
<1>8. CASE Stopped \/ Restored
  BY <1>8
  DEF Stopped, Restored, ScriptHome, ChildHome, NoScript, WaitEnds, RestoreDns,
      RestoreDnsFails, process, host, Gone, Configured
<1>9. CASE DropGuard \/ Drop
  BY <1>9
  DEF DropGuard, Drop, ScriptHome, ChildHome, RestoreDns, RestoreDnsFails,
      process, DropProcess, NoScript, host, Configured, Gone
<1>10. CASE Start \/ LoginFails \/ Disconnect \/ Abort
  BY <1>10
  DEF Start, LoginFails, Disconnect, Abort, ScriptHome, ChildHome, host,
      process, request_termination, DropProcess, NoScript, Gone
<1>11. CASE OpenVpnListens \/ PortRace
  BY <1>11
  DEF OpenVpnListens, PortRace, ScriptHome, ChildHome, Listen, host, PortTaken
<1>12. CASE OpenVpnConnects
  BY <1>12
  DEF OpenVpnConnects, ScriptHome, ChildHome, Establish, UpScript, host
<1>13. CASE OpenVpnRestarts
  BY <1>13
  DEF OpenVpnRestarts, ScriptHome, ChildHome, DownScript, Restart, host
<1>14. CASE OpenVpnExits
  BY <1>14
  DEF OpenVpnExits, ScriptHome, ChildHome, Alive, DownScript, Exit, NoScript,
      host
<1>15. CASE Kill
  BY <1>15
  DEF Kill, ScriptHome, ChildHome, Alive, Gone, host
<1>16. CASE OrphanEnds \/ RoutesDrift \/ DetachedMonitorTicks \/ MonitorTicks
  BY <1>16
  DEF OrphanEnds, RoutesDrift, DetachedMonitorTicks, MonitorTicks, ScriptHome,
      ChildHome, host, process
<1>17. QED
  BY <1>1, <1>2, <1>3, <1>4, <1>5, <1>6, <1>7, <1>8, <1>9, <1>10, <1>11, <1>12,
     <1>13, <1>14, <1>15, <1>16
  DEF Next, Proceed, Operator, Environment

\* Something to undo leads to the undo.
LEMMA UndoPreserved ==
    ASSUME left \in [records : SUBSET Tuns, host : SUBSET {"scutil", "script"}],
           LinuxOK, pc \in Points, UndoHome, Next
    PROVE  UndoHome'
<1>1. CASE Wake \/ Prepare \/ PrepareFails \/ Spawn
  BY <1>1, VpnSessionAssumption
  DEF Wake, Prepare, PrepareFails, Spawn, UndoHome, Configure, Ending, Login,
      LinuxOK, Goto, host, linux, AttemptFails, Exits, Min,
      start_reconnect_attempt
<1>2. CASE Dial \/ Authenticate \/ GaveUp
  BY <1>2, VpnSessionAssumption
  DEF Dial, Authenticate, GaveUp, UndoHome, Configure, Ending, Login, LinuxOK,
      ConnectDrops, Goto, host, linux, AttemptFails, NoScript, TunnelClosed,
      Exits, Min, start_reconnect_attempt
<1>3. CASE Connected
  BY <1>3, VpnSessionAssumption
  DEF Connected, UndoHome, Configure, Ending, Login, LinuxOK, AfterLogin, Goto,
      host, linux
<1>4. CASE Lookup
  BY <1>4, VpnSessionAssumption
  DEF Lookup, UndoHome, Configure, Ending, Login, LinuxOK, ConfigureFails,
      Configuring, GoesOn, host, AttemptFails, NoScript, TakeGuard, Goto,
      Exits, Min, start_reconnect_attempt, NoGuard
<1>5. CASE ResolvectlDns \/ ResolvectlDomain \/ ResolvectlRevert
  BY <1>5, VpnSessionAssumption
  DEF ResolvectlDns, ResolvectlDomain, ResolvectlRevert, UndoHome, Configure,
      Ending, Login, LinuxOK, Configuring, GoesOn, SetDns, host, linux,
      SetDomain, Revert, Goto, CanResolve, Resolvectl
<1>6. CASE Resolvconf \/ Scutil
  BY <1>6, VpnSessionAssumption
  DEF Resolvconf, Scutil, UndoHome, Configure, Ending, Login, LinuxOK,
      ConfigureFails, Configuring, GoesOn, configure_resolvconf, host, linux,
      AttemptFails, NoScript, TakeGuard, Goto, Exits, Min,
      start_reconnect_attempt, NoGuard
<1>7. CASE Lost
  BY <1>7, VpnSessionAssumption
  DEF Lost, UndoHome, Configure, Ending, Login, LinuxOK, Exits, RestoreDns,
      RestoreDnsFails, start_reconnect_attempt, host, Goto, Restore, TakeGuard,
      Configured, NoGuard
<1>8. CASE Stopped \/ Restored
  BY <1>8, VpnSessionAssumption
  DEF Stopped, Restored, UndoHome, Configure, Ending, Login, LinuxOK, Goto,
      NoScript, TunnelClosed, Exits, RestoreDns, RestoreDnsFails, host,
      Restore, TakeGuard, Configured, NoGuard
<1>9. CASE DropGuard \/ Drop
  BY <1>9, VpnSessionAssumption
  DEF DropGuard, Drop, UndoHome, Configure, Ending, Login, LinuxOK, Exits,
      RestoreDns, RestoreDnsFails, Goto, NoScript, TunnelClosed, host, Restore,
      TakeGuard, Configured, NoGuard
<1>10. CASE Start \/ LoginFails \/ Disconnect \/ Abort
  BY <1>10, VpnSessionAssumption
  DEF Start, LoginFails, Disconnect, Abort, UndoHome, Configure, Ending, Login,
      LinuxOK, Goto, host, linux, Exits, NoScript, TunnelClosed
<1>11. CASE OpenVpnListens \/ PortRace
  BY <1>11, VpnSessionAssumption
  DEF OpenVpnListens, PortRace, UndoHome, Configure, Ending, Login, LinuxOK,
      host, linux
<1>12. CASE OpenVpnConnects
  BY <1>12, VpnSessionAssumption
  DEF OpenVpnConnects, UndoHome, Configure, Ending, Login, LinuxOK, UpScript,
      host
<1>13. CASE OpenVpnRestarts
  BY <1>13, VpnSessionAssumption
  DEF OpenVpnRestarts, UndoHome, Configure, Ending, Login, LinuxOK, DownScript,
      TunnelClosed, host
<1>14. CASE OpenVpnExits
  BY <1>14, VpnSessionAssumption
  DEF OpenVpnExits, UndoHome, Configure, Ending, Login, LinuxOK, DownScript,
      NoScript, TunnelClosed, host
<1>15. CASE Kill
  BY <1>15, VpnSessionAssumption
  DEF Kill, UndoHome, Configure, Ending, Login, LinuxOK, Exits, TakeGuard,
      host, Goto, NoGuard
<1>16. CASE OrphanEnds \/ RoutesDrift \/ DetachedMonitorTicks \/ MonitorTicks
  BY <1>16, VpnSessionAssumption
  DEF OrphanEnds, RoutesDrift, DetachedMonitorTicks, MonitorTicks, UndoHome,
      Configure, Ending, Login, LinuxOK, host, linux
<1>17. QED
  BY <1>1, <1>2, <1>3, <1>4, <1>5, <1>6, <1>7, <1>8, <1>9, <1>10, <1>11, <1>12,
     <1>13, <1>14, <1>15, <1>16
  DEF Next, Proceed, Operator, Environment

\* A record of resolvconf is accounted for.
LEMMA RecordsPreserved ==
    ASSUME left \in [records : SUBSET Tuns, host : SUBSET {"scutil", "script"}],
           LinuxOK, PlaceHome, UndoHome, RecordsHome, Next
    PROVE  RecordsHome'
<1>1. CASE Wake \/ Prepare \/ PrepareFails \/ Spawn
  BY <1>1, VpnSessionAssumption
  DEF Wake, Prepare, PrepareFails, Spawn, RecordsHome, UndoHome, Configure,
      LinuxOK, host, linux
<1>2. CASE Dial \/ Authenticate \/ GaveUp
  BY <1>2, VpnSessionAssumption
  DEF Dial, Authenticate, GaveUp, RecordsHome, UndoHome, Configure, LinuxOK,
      ConnectDrops, host, linux, NoScript, TunnelClosed
<1>3. CASE Connected
  BY <1>3, VpnSessionAssumption
  DEF Connected, RecordsHome, UndoHome, Configure, LinuxOK, AfterLogin, host,
      linux
<1>4. CASE Lookup
  BY <1>4, VpnSessionAssumption
  DEF Lookup, RecordsHome, UndoHome, Configure, LinuxOK, ConfigureFails,
      Configuring, host, NoScript, TakeGuard, NoGuard
<1>5. CASE ResolvectlDns \/ ResolvectlDomain \/ ResolvectlRevert
  BY <1>5, VpnSessionAssumption
  DEF ResolvectlDns, ResolvectlDomain, ResolvectlRevert, RecordsHome, UndoHome,
      Configure, LinuxOK, Configuring, SetDns, host, linux, SetDomain, Revert,
      Resolvectl
<1>6. CASE Resolvconf \/ Scutil
  <2>1. guard.method = None
    BY <1>6 DEF Resolvconf, Scutil, Configuring, UndoHome
  <2>2. CASE Resolvconf /\ configure_resolvconf
    <3>1. tun \in Tuns
      BY <2>2 DEF Resolvconf, Configuring, PlaceHome
    <3>2. left'.records = left.records \ {tun}
      BY <2>1, <2>2, VpnSessionAssumption
      DEF Resolvconf, ConfigureFails, TakeGuard, NoGuard, configure_resolvconf
    <3>3. QED
      BY <2>1, <2>2, <3>1, <3>2, VpnSessionAssumption
      DEF configure_resolvconf, RecordsHome, LinuxOK
  <2>3. CASE ConfigureFails
    BY <2>1, <2>3, VpnSessionAssumption
    DEF ConfigureFails, NoScript, TakeGuard, NoGuard, RecordsHome, LinuxOK
  <2>4. CASE Scutil /\ ~ConfigureFails
    BY <2>4 DEF Scutil, linux, RecordsHome
  <2>5. QED
    BY <1>6, <2>2, <2>3, <2>4 DEF Resolvconf
<1>7. CASE Lost
  BY <1>7, VpnSessionAssumption
  DEF Lost, RecordsHome, UndoHome, Configure, LinuxOK, RestoreDns,
      RestoreDnsFails, host, Restore, TakeGuard, Configured, NoGuard
<1>8. CASE Stopped \/ Restored
  BY <1>8, VpnSessionAssumption
  DEF Stopped, Restored, RecordsHome, UndoHome, Configure, LinuxOK, NoScript,
      TunnelClosed, RestoreDns, RestoreDnsFails, host, Restore, TakeGuard,
      Configured, NoGuard
<1>9. CASE DropGuard \/ Drop
  BY <1>9, VpnSessionAssumption
  DEF DropGuard, Drop, RecordsHome, UndoHome, Configure, LinuxOK, RestoreDns,
      RestoreDnsFails, NoScript, TunnelClosed, host, Restore, TakeGuard,
      Configured, NoGuard
<1>10. CASE Start \/ LoginFails \/ Disconnect \/ Abort
  BY <1>10, VpnSessionAssumption
  DEF Start, LoginFails, Disconnect, Abort, RecordsHome, UndoHome, Configure,
      LinuxOK, host, linux, NoScript, TunnelClosed
<1>11. CASE OpenVpnListens \/ PortRace
  BY <1>11, VpnSessionAssumption
  DEF OpenVpnListens, PortRace, RecordsHome, UndoHome, Configure, LinuxOK,
      host, linux
<1>12. CASE OpenVpnConnects
  BY <1>12, VpnSessionAssumption
  DEF OpenVpnConnects, RecordsHome, UndoHome, Configure, LinuxOK, OpenLink,
      UpScript, host
<1>13. CASE OpenVpnRestarts
  BY <1>13, VpnSessionAssumption
  DEF OpenVpnRestarts, RecordsHome, UndoHome, Configure, LinuxOK, DownScript,
      TunnelClosed, host
<1>14. CASE OpenVpnExits
  BY <1>14, VpnSessionAssumption
  DEF OpenVpnExits, RecordsHome, UndoHome, Configure, LinuxOK, DownScript,
      NoScript, TunnelClosed, host
<1>15. CASE Kill
  BY <1>15, VpnSessionAssumption
  DEF Kill, RecordsHome, UndoHome, Configure, LinuxOK, TakeGuard, host, NoGuard
<1>16. CASE OrphanEnds \/ RoutesDrift \/ DetachedMonitorTicks \/ MonitorTicks
  BY <1>16, VpnSessionAssumption
  DEF OrphanEnds, RoutesDrift, DetachedMonitorTicks, MonitorTicks, RecordsHome,
      UndoHome, Configure, LinuxOK, host, linux
<1>17. QED
  BY <1>1, <1>2, <1>3, <1>4, <1>5, <1>6, <1>7, <1>8, <1>9, <1>10, <1>11, <1>12,
     <1>13, <1>14, <1>15, <1>16
  DEF Next, Proceed, Operator, Environment

LEMMA LookupFinds ==
    ASSUME Lookup, tun' \in linux_interface_for_ipv4(vpnIp)
    PROVE  tun' \in Tuns
BY DEF linux_interface_for_ipv4

\* Which interface the configuration works on.
LEMMA PlacePreserved ==
    ASSUME LinuxOK, pc \in Points, UndoHome, PlaceHome, setup' = setup, Next
    PROVE  PlaceHome'
<1>1. CASE Wake \/ Prepare \/ PrepareFails \/ Spawn
  BY <1>1, VpnSessionAssumption
  DEF Wake, Prepare, PrepareFails, Spawn, PlaceHome, Linux, UndoHome,
      Configure, Ending, Login, Goto, linux, AttemptFails, Exits, Min,
      start_reconnect_attempt
<1>2. CASE Dial \/ Authenticate \/ GaveUp
  BY <1>2, VpnSessionAssumption
  DEF Dial, Authenticate, GaveUp, PlaceHome, Linux, UndoHome, Configure,
      Ending, Login, ConnectDrops, Goto, linux, AttemptFails, TunnelClosed,
      Exits, Min, start_reconnect_attempt
<1>3. CASE Connected
  BY <1>3, VpnSessionAssumption
  DEF Connected, PlaceHome, Linux, UndoHome, Configure, Ending, Login,
      AfterLogin, Goto, linux
<1>4. CASE Lookup
  BY <1>4, VpnSessionAssumption, LookupFinds
  DEF Lookup, PlaceHome, Linux, UndoHome, Configure, Ending, Login,
      ConfigureFails, Configuring, GoesOn, AttemptFails, TakeGuard, Goto,
      Exits, Min, start_reconnect_attempt, NoGuard
<1>5. CASE ResolvectlDns \/ ResolvectlDomain \/ ResolvectlRevert
  BY <1>5, VpnSessionAssumption
  DEF ResolvectlDns, ResolvectlDomain, ResolvectlRevert, PlaceHome, Linux,
      UndoHome, Configure, Ending, Login, Configuring, GoesOn, SetDns, linux,
      SetDomain, Revert, Goto, CanResolve, Resolvectl
<1>6. CASE Resolvconf \/ Scutil
  BY <1>6, VpnSessionAssumption
  DEF Resolvconf, Scutil, PlaceHome, Linux, UndoHome, Configure, Ending, Login,
      ConfigureFails, Configuring, GoesOn, configure_resolvconf, linux,
      AttemptFails, TakeGuard, Goto, Exits, Min, start_reconnect_attempt,
      NoGuard
<1>7. CASE Lost
  BY <1>7, VpnSessionAssumption
  DEF Lost, PlaceHome, Linux, UndoHome, Configure, Ending, Login, Exits,
      RestoreDns, RestoreDnsFails, start_reconnect_attempt, Goto, Restore,
      TakeGuard, Configured, NoGuard
<1>8. CASE Stopped \/ Restored
  BY <1>8, VpnSessionAssumption
  DEF Stopped, Restored, PlaceHome, Linux, UndoHome, Configure, Ending, Login,
      Goto, TunnelClosed, Exits, RestoreDns, RestoreDnsFails, Restore,
      TakeGuard, Configured, NoGuard
<1>9. CASE DropGuard \/ Drop
  BY <1>9, VpnSessionAssumption
  DEF DropGuard, Drop, PlaceHome, Linux, UndoHome, Configure, Ending, Login,
      Exits, RestoreDns, RestoreDnsFails, Goto, TunnelClosed, Restore,
      TakeGuard, Configured, NoGuard
<1>10. CASE Start \/ LoginFails \/ Disconnect \/ Abort
  BY <1>10, VpnSessionAssumption
  DEF Start, LoginFails, Disconnect, Abort, PlaceHome, Linux, UndoHome,
      Configure, Ending, Login, Goto, linux, Exits, TunnelClosed
<1>11. CASE OpenVpnListens \/ PortRace
  BY <1>11, VpnSessionAssumption
  DEF OpenVpnListens, PortRace, PlaceHome, Linux, UndoHome, Configure, Ending,
      Login, linux
<1>12. CASE OpenVpnConnects
  BY <1>12, VpnSessionAssumption
  DEF OpenVpnConnects, PlaceHome, Linux, UndoHome, Configure, Ending, Login
<1>13. CASE OpenVpnRestarts
  BY <1>13, VpnSessionAssumption
  DEF OpenVpnRestarts, PlaceHome, Linux, UndoHome, Configure, Ending, Login,
      TunnelClosed
<1>14. CASE OpenVpnExits
  BY <1>14, VpnSessionAssumption
  DEF OpenVpnExits, PlaceHome, Linux, UndoHome, Configure, Ending, Login,
      TunnelClosed
<1>15. CASE Kill
  BY <1>15, VpnSessionAssumption
  DEF Kill, PlaceHome, Linux, UndoHome, Configure, Ending, Login, Exits,
      TakeGuard, Goto, NoGuard
<1>16. CASE OrphanEnds \/ RoutesDrift \/ DetachedMonitorTicks \/ MonitorTicks
  BY <1>16, VpnSessionAssumption
  DEF OrphanEnds, RoutesDrift, DetachedMonitorTicks, MonitorTicks, PlaceHome,
      Linux, UndoHome, Configure, Ending, Login, linux
<1>17. QED
  BY <1>1, <1>2, <1>3, <1>4, <1>5, <1>6, <1>7, <1>8, <1>9, <1>10, <1>11, <1>12,
     <1>13, <1>14, <1>15, <1>16
  DEF Next, Proceed, Operator, Environment

\* OpenVPN has run its up script.
LEMMA ScriptUpPreserved ==
    ASSUME ScriptUp, setup' = setup, Next
    PROVE  ScriptUp'
<1>1. CASE Wake \/ Prepare \/ PrepareFails \/ Spawn
  BY <1>1
  DEF Wake, Prepare, PrepareFails, Spawn, ScriptUp, uses_dns_scripts, Linux,
      host, process, reserve_management_port, spawn
<1>2. CASE Dial \/ Authenticate \/ GaveUp
  BY <1>2
  DEF Dial, Authenticate, GaveUp, ScriptUp, uses_dns_scripts, Linux,
      ConnectDrops, ConnectManagement, host, authenticate, NoScript, WaitEnds,
      DropProcess, Gone
<1>3. CASE Connected
  BY <1>3
  DEF Connected, ScriptUp, uses_dns_scripts, Linux, AfterLogin, host, process
<1>4. CASE Lookup
  BY <1>4
  DEF Lookup, ScriptUp, uses_dns_scripts, Linux, ConfigureFails, Configuring,
      GoesOn, host, DropProcess, NoScript, process, Gone
<1>5. CASE ResolvectlDns \/ ResolvectlDomain \/ ResolvectlRevert
  BY <1>5
  DEF ResolvectlDns, ResolvectlDomain, ResolvectlRevert, ScriptUp,
      uses_dns_scripts, Linux, Configuring, GoesOn, host, process
<1>6. CASE Resolvconf \/ Scutil
  BY <1>6
  DEF Resolvconf, Scutil, ScriptUp, uses_dns_scripts, Linux, ConfigureFails,
      Configuring, GoesOn, host, DropProcess, NoScript, process, Gone
<1>7. CASE Lost
  BY <1>7
  DEF Lost, ScriptUp, uses_dns_scripts, Linux, Gone, RestoreDns,
      RestoreDnsFails, Configured, host
<1>8. CASE Stopped \/ Restored
  BY <1>8
  DEF Stopped, Restored, ScriptUp, uses_dns_scripts, Linux, NoScript, WaitEnds,
      RestoreDns, RestoreDnsFails, process, host, Gone, Configured
<1>9. CASE DropGuard \/ Drop
  BY <1>9
  DEF DropGuard, Drop, ScriptUp, uses_dns_scripts, Linux, RestoreDns,
      RestoreDnsFails, process, DropProcess, NoScript, Configured, host, Gone
<1>10. CASE Start \/ LoginFails \/ Disconnect \/ Abort
  BY <1>10
  DEF Start, LoginFails, Disconnect, Abort, ScriptUp, uses_dns_scripts, Linux,
      host, process, request_termination, DropProcess, NoScript, Gone
<1>11. CASE OpenVpnListens \/ PortRace
  BY <1>11
  DEF OpenVpnListens, PortRace, ScriptUp, uses_dns_scripts, Linux, Listen,
      host, PortTaken
<1>12. CASE OpenVpnConnects
  BY <1>12
  DEF OpenVpnConnects, ScriptUp, uses_dns_scripts, Linux, Establish, UpScript,
      host
<1>13. CASE OpenVpnRestarts
  BY <1>13
  DEF OpenVpnRestarts, ScriptUp, uses_dns_scripts, Linux, DownScript, Restart
<1>14. CASE OpenVpnExits
  BY <1>14
  DEF OpenVpnExits, ScriptUp, uses_dns_scripts, Linux, Alive, DownScript, Exit,
      NoScript, host
<1>15. CASE Kill
  BY <1>15
  DEF Kill, ScriptUp, uses_dns_scripts, Linux, Alive, Gone, host
<1>16. CASE OrphanEnds \/ RoutesDrift \/ DetachedMonitorTicks \/ MonitorTicks
  BY <1>16
  DEF OrphanEnds, RoutesDrift, DetachedMonitorTicks, MonitorTicks, ScriptUp,
      uses_dns_scripts, Linux, host, process
<1>17. QED
  BY <1>1, <1>2, <1>3, <1>4, <1>5, <1>6, <1>7, <1>8, <1>9, <1>10, <1>11, <1>12,
     <1>13, <1>14, <1>15, <1>16
  DEF Next, Proceed, Operator, Environment

\* A session with native DNS has something to undo.
LEMMA SessionPreserved ==
    ASSUME pc \in Points, ChildHome, PlaceHome, SessionHome, setup' = setup, Next
    PROVE  SessionHome'
<1>1. CASE Wake \/ Prepare \/ PrepareFails \/ Spawn
  BY <1>1, VpnSessionAssumption
  DEF Wake, Prepare, PrepareFails, Spawn, SessionHome, PlaceHome, NativeDns,
      uses_dns_scripts, Linux, Login, Configure, Ending, Goto, host, linux,
      AttemptFails, Exits, Min, start_reconnect_attempt
<1>2. CASE Dial \/ Authenticate \/ GaveUp
  BY <1>2, VpnSessionAssumption
  DEF Dial, Authenticate, GaveUp, SessionHome, PlaceHome, NativeDns,
      uses_dns_scripts, Linux, Login, Configure, Ending, ConnectDrops, Goto,
      host, linux, AttemptFails, Forget, NoScript, TunnelClosed, Exits, Min,
      start_reconnect_attempt
<1>3. CASE Connected
  BY <1>3, VpnSessionAssumption
  DEF Connected, SessionHome, PlaceHome, NativeDns, uses_dns_scripts, Linux,
      Login, Configure, Ending, AfterLogin, Goto, host, linux
<1>4. CASE Lookup
  BY <1>4, VpnSessionAssumption
  DEF Lookup, SessionHome, PlaceHome, NativeDns, uses_dns_scripts, Linux,
      Login, Configure, Ending, ConfigureFails, Configuring, GoesOn, host,
      AttemptFails, Forget, NoScript, TakeGuard, Goto, Exits, Min,
      start_reconnect_attempt, NoGuard
<1>5. CASE ResolvectlDns \/ ResolvectlDomain \/ ResolvectlRevert
  BY <1>5, VpnSessionAssumption
  DEF ResolvectlDns, ResolvectlDomain, ResolvectlRevert, SessionHome,
      PlaceHome, NativeDns, uses_dns_scripts, Linux, Login, Configure, Ending,
      Configuring, GoesOn, SetDns, host, linux, SetDomain, Revert, Goto
<1>6. CASE Resolvconf \/ Scutil
  BY <1>6, VpnSessionAssumption
  DEF Resolvconf, Scutil, SessionHome, PlaceHome, NativeDns, uses_dns_scripts,
      Linux, Login, Configure, Ending, ConfigureFails, Configuring, GoesOn,
      configure_resolvconf, host, linux, AttemptFails, Forget, NoScript,
      TakeGuard, Goto, Exits, Min, start_reconnect_attempt, NoGuard
<1>7. CASE Lost
  BY <1>7, VpnSessionAssumption
  DEF Lost, SessionHome, PlaceHome, NativeDns, uses_dns_scripts, Linux, Login,
      Configure, Ending, Exits, Forget, RestoreDns, RestoreDnsFails,
      start_reconnect_attempt, Goto, Restore, TakeGuard, Configured, host,
      NoGuard
<1>8. CASE Stopped \/ Restored
  BY <1>8, VpnSessionAssumption
  DEF Stopped, Restored, SessionHome, PlaceHome, NativeDns, uses_dns_scripts,
      Linux, Login, Configure, Ending, Goto, NoScript, TunnelClosed, Exits,
      Forget, RestoreDns, RestoreDnsFails, host, Restore, TakeGuard,
      Configured, NoGuard
<1>9. CASE DropGuard \/ Drop
  BY <1>9, VpnSessionAssumption
  DEF DropGuard, Drop, SessionHome, PlaceHome, NativeDns, uses_dns_scripts,
      Linux, Login, Configure, Ending, Exits, Forget, RestoreDns,
      RestoreDnsFails, Goto, NoScript, TunnelClosed, Restore, TakeGuard,
      Configured, host, NoGuard
<1>10. CASE Start \/ LoginFails \/ Disconnect \/ Abort
  BY <1>10, VpnSessionAssumption
  DEF Start, LoginFails, Disconnect, Abort, SessionHome, PlaceHome, NativeDns,
      uses_dns_scripts, Linux, Login, Configure, Ending, Goto, host, linux,
      Exits, Forget, NoScript, TunnelClosed
<1>11. CASE OpenVpnListens \/ PortRace
  BY <1>11, VpnSessionAssumption
  DEF OpenVpnListens, PortRace, SessionHome, PlaceHome, NativeDns,
      uses_dns_scripts, Linux, Login, Configure, Ending, host, linux
<1>12. CASE OpenVpnConnects
  BY <1>12, VpnSessionAssumption
  DEF OpenVpnConnects, SessionHome, PlaceHome, NativeDns, uses_dns_scripts,
      Linux, Login, Configure, Ending, UpScript, host
<1>13. CASE OpenVpnRestarts
  BY <1>13, VpnSessionAssumption
  DEF OpenVpnRestarts, SessionHome, PlaceHome, NativeDns, uses_dns_scripts,
      Linux, Login, Configure, Ending, DownScript, TunnelClosed
<1>14. CASE OpenVpnExits
  BY <1>14, VpnSessionAssumption
  DEF OpenVpnExits, SessionHome, PlaceHome, NativeDns, uses_dns_scripts, Linux,
      Login, Configure, Ending, DownScript, NoScript, TunnelClosed, host
<1>15. CASE Kill
  BY <1>15, VpnSessionAssumption
  DEF Kill, SessionHome, PlaceHome, NativeDns, uses_dns_scripts, Linux, Login,
      Configure, Ending, Exits, Forget, TakeGuard, host, Goto, NoGuard
<1>16. CASE OrphanEnds \/ RoutesDrift \/ DetachedMonitorTicks \/ MonitorTicks
  BY <1>16, VpnSessionAssumption
  DEF OrphanEnds, RoutesDrift, DetachedMonitorTicks, MonitorTicks, SessionHome,
      PlaceHome, NativeDns, uses_dns_scripts, Linux, Login, Configure, Ending,
      host, linux
<1>17. QED
  BY <1>1, <1>2, <1>3, <1>4, <1>5, <1>6, <1>7, <1>8, <1>9, <1>10, <1>11, <1>12,
     <1>13, <1>14, <1>15, <1>16
  DEF Next, Proceed, Operator, Environment

\* The address OpenVPN has is that of its one interface.
LEMMA OwnLink ==
    ASSUME LinuxOK, LinkHome, child = "up", Linux
    PROVE  \E t \in Tuns : link[t] = [owner |-> "own", addr |-> OwnAddr]
<1>1. PICK t \in Tuns : link[t].owner = "own"
  BY DEF LinkHome
<1> DEFINE own == {u \in Tuns : link[u].owner = "own"}
<1>2. own = {t}
  BY <1>1 DEF LinkHome
<1>3. (CHOOSE u \in own : TRUE) = t
  BY <1>2
<1>4. OwnAddr = link[t].addr
  BY <1>2, <1>3 DEF OwnAddr
<1>5. QED
  BY <1>1, <1>4 DEF LinuxOK

\* What the interface has been told so far.
LEMMA TunnelPreserved ==
    ASSUME LinuxOK, pc \in Points, ChildHome, LinkHome, UndoHome, PlaceHome, TunnelHome,
           setup' = setup, Next
    PROVE  TunnelHome'
<1>1. CASE Wake \/ Prepare \/ PrepareFails \/ Spawn \/ Dial \/ Authenticate \/
            GaveUp
  BY <1>1, VpnSessionAssumption
  DEF Wake, Prepare, PrepareFails, Spawn, Dial, Authenticate, GaveUp,
      TunnelHome, Configure, Goto, linux, process, reserve_management_port,
      AttemptFails, spawn, ConnectDrops, ConnectManagement, authenticate,
      Forget, TunnelClosed, WaitEnds, Exits, Min, start_reconnect_attempt,
      DropProcess, CloseLinks, Gone
<1>2. CASE Connected
  <2>1. tun = None /\ guard.method = None
    BY <1>2 DEF Connected, UndoHome, Configure, Ending
  <2>2. UNCHANGED <<child, link, guard, tun>> /\ child = "up" /\ vpnIp' = OwnAddr
    BY <1>2 DEF Connected, process, linux
  <2>3. pc' # "setDomain"
    BY <1>2 DEF Connected, Goto, AfterLogin
  <2>4. Linux => \E t \in Tuns : link[t] = [owner |-> "own", addr |-> vpnIp']
    BY <2>2, OwnLink
  <2>5. QED
    BY <2>1, <2>2, <2>3, <2>4, VpnSessionAssumption DEF TunnelHome, Linux
<1>3. CASE Lookup
  <2>1. CASE ConfigureFails
    BY <2>1 DEF ConfigureFails, AttemptFails, Exits, start_reconnect_attempt, Goto, TunnelHome, Configure
  <2>2. CASE /\ tun' \in linux_interface_for_ipv4(vpnIp) /\ GoesOn("setDns")
             /\ UNCHANGED <<link, resolved, guard, reopened>>
    <3>1. guard.method = None
      BY <1>3 DEF Lookup, Configuring, UndoHome
    <3>2. UNCHANGED <<child, vpnIp>> /\ pc' = "setDns" /\ pc = "lookup"
      BY <1>3, <2>2 DEF Lookup, Configuring, GoesOn, Goto, process
    <3>3. link[tun'].addr = vpnIp /\ vpnIp # None /\ tun' \in Tuns
      BY <2>2 DEF linux_interface_for_ipv4
    <3>4. ASSUME NEW t \in Tuns, link[t] = [owner |-> "own", addr |-> vpnIp]
          PROVE  t = tun'
      BY <3>3, <3>4 DEF LinkHome
    <3>5. QED
      BY <2>2, <3>1, <3>2, <3>4, VpnSessionAssumption DEF TunnelHome, Configure, Linux
  <2>3. QED
    BY <1>3, <2>1, <2>2 DEF Lookup, Configuring
<1>4. CASE ResolvectlDns
  <2>1. UNCHANGED <<child, link, tun, guard, vpnIp, reopened>> /\ pc = "setDns"
    BY <1>4 DEF ResolvectlDns, Configuring, SetDns, Resolvectl, GoesOn, process, linux
  <2>2. guard.method = None /\ tun \in Tuns
    BY <2>1 DEF UndoHome, PlaceHome
  <2>3. pc' = "setDomain" => "dns" \in resolved'[tun]
    BY <1>4, <2>2 DEF ResolvectlDns, SetDns, Resolvectl, GoesOn, Goto, LinuxOK
  <2>4. QED
    BY <2>1, <2>2, <2>3, VpnSessionAssumption DEF TunnelHome, Configure, Linux
<1>5. CASE ResolvectlDomain
  <2>1. UNCHANGED <<child, link, tun, vpnIp, reopened>> /\ pc = "setDomain"
    BY <1>5 DEF ResolvectlDomain, Configuring, SetDomain, Resolvectl, GoesOn, process, linux
  <2>2. guard.method = None /\ tun \in Tuns
    BY <2>1 DEF UndoHome, PlaceHome
  <2>3. pc' # "setDomain"
    BY <1>5 DEF ResolvectlDomain, GoesOn, Goto
  <2>4. "dns" \in resolved[tun] /\ guard'.method = "resolved" => resolved'[tun] = {"dns", "domain"}
    BY <1>5, <2>2, VpnSessionAssumption DEF ResolvectlDomain, SetDomain, Resolvectl, linux, LinuxOK
  <2>5. QED
    BY <2>1, <2>2, <2>3, <2>4, VpnSessionAssumption DEF TunnelHome, Configure, Linux
<1>6. CASE ResolvectlRevert
  <2>1. UNCHANGED <<child, link, tun, guard, vpnIp, reopened>> /\ pc = "revert" /\ pc' = "resolvconf"
    BY <1>6 DEF ResolvectlRevert, Configuring, Revert, Resolvectl, GoesOn, Goto, process
  <2>2. guard.method = None
    BY <2>1 DEF UndoHome
  <2>3. QED
    BY <2>1, <2>2, VpnSessionAssumption DEF TunnelHome, Configure, Linux
<1>7. CASE Resolvconf
  <2>1. CASE ConfigureFails
    BY <2>1 DEF ConfigureFails, AttemptFails, Exits, start_reconnect_attempt, Goto, TunnelHome, Configure
  <2>2. CASE configure_resolvconf /\ GoesOn("session")
    <3>1. /\ UNCHANGED <<child, link, tun, vpnIp, reopened>> /\ pc = "resolvconf" /\ pc' = "session"
          /\ guard'.method = "resolvconf"
      BY <1>7, <2>2 DEF Resolvconf, Configuring, configure_resolvconf, GoesOn, Goto, process
    <3>2. QED
      BY <3>1 DEF TunnelHome, Configure, Linux
  <2>3. QED
    BY <1>7, <2>1, <2>2 DEF Resolvconf
<1>8. CASE Scutil
  <2>1. CASE ConfigureFails
    BY <2>1 DEF ConfigureFails, AttemptFails, Exits, start_reconnect_attempt, Goto, TunnelHome, Configure
  <2>2. CASE GoesOn("session")
    <3>1. UNCHANGED <<child, reopened>> /\ pc = "scutil"
      BY <1>8, <2>2 DEF Scutil, Configuring, GoesOn, process
    <3>2. ~Linux' /\ pc \in Configure
      BY <3>1 DEF PlaceHome, Linux, Configure
    <3>3. QED
      BY <3>1, <3>2 DEF TunnelHome
  <2>3. QED
    BY <1>8, <2>1, <2>2 DEF Scutil
<1>9. CASE Lost \/ Stopped \/ Restored \/ DropGuard \/ Drop
  BY <1>9, VpnSessionAssumption
  DEF Lost, Stopped, Restored, DropGuard, Drop, TunnelHome, Configure, Exits,
      Forget, Gone, RestoreDns, RestoreDnsFails, start_reconnect_attempt, Goto,
      TunnelClosed, WaitEnds, process, DropProcess, Restore, TakeGuard,
      Configured, CloseLinks, NoGuard
<1>10. CASE Start \/ LoginFails \/ Disconnect \/ Abort \/ Kill
  BY <1>10, VpnSessionAssumption
  DEF Start, LoginFails, Disconnect, Abort, Kill, TunnelHome, Configure, Goto,
      linux, process, request_termination, DropProcess, Exits, Forget,
      TunnelClosed, Abandon, Alive, Gone, TakeGuard, CloseLinks, NoGuard
<1>11. CASE OpenVpnListens \/ PortRace
  BY <1>11, VpnSessionAssumption
  DEF OpenVpnListens, PortRace, TunnelHome, Configure, Listen, Outside, linux,
      PortTaken
<1>12. CASE OpenVpnConnects
  BY <1>12, VpnSessionAssumption
  DEF OpenVpnConnects, TunnelHome, Configure, Establish, OpenLink, Outside
<1>13. CASE OpenVpnRestarts \/ OpenVpnExits
  BY <1>13, VpnSessionAssumption
  DEF OpenVpnRestarts, OpenVpnExits, TunnelHome, Configure, Outside, Restart,
      TunnelClosed, Alive, Exit, CloseLinks
<1>14. CASE OrphanEnds
  <2>1. UNCHANGED <<pc, child, tun, guard, vpnIp, reopened>>
    BY <1>14 DEF OrphanEnds, process
  <2>2. \A t \in Tuns : link[t].owner # "orphan" => link'[t] = link[t] /\ resolved'[t] = resolved[t]
    BY <1>14 DEF OrphanEnds, CloseLinks
  <2>3. ASSUME NEW t \in Tuns, link[t] = [owner |-> "own", addr |-> vpnIp]
        PROVE  link'[t] = link[t] /\ resolved'[t] = resolved[t]
    BY <2>2, <2>3
  <2>4. tun # None => tun \in Tuns
    BY DEF LinuxOK
  <2>5. guard.method = "resolved" => tun \in Tuns /\ tun # None
    BY VpnSessionAssumption DEF PlaceHome
  <2>6. pc = "setDomain" => tun \in Tuns /\ tun # None
    BY VpnSessionAssumption DEF PlaceHome
  <2>7. QED
    BY <2>1, <2>3, <2>4, <2>5, <2>6 DEF TunnelHome, Linux
<1>15. CASE RoutesDrift \/ DetachedMonitorTicks \/ MonitorTicks
  BY <1>15
  DEF RoutesDrift, DetachedMonitorTicks, MonitorTicks, TunnelHome, Configure,
      Linux, Outside, linux, process
<1>16. QED
  BY <1>1, <1>2, <1>3, <1>4, <1>5, <1>6, <1>7, <1>8, <1>9, <1>10, <1>11, <1>12,
     <1>13, <1>14, <1>15
  DEF Next, Proceed, Operator, Environment

\* The invariant holds initially,
LEMMA InitIInv == Init => IInv
<1> SUFFICES ASSUME Init PROVE IInv
  OBVIOUS
<1>1. ProcessOK /\ LinuxOK /\ MonitorOK /\ ControlOK
  BY DEF Init, ProcessInit, LinuxInit, MonitorInit, ProcessOK, LinuxOK, MonitorOK, ControlOK,
         ChildStates, NoLink, NoGuard, NothingLeft, Points
<1>2. AttemptOK /\ pushed \in [dns_servers : SUBSET Addresses, routes : SUBSET Route]
  BY VpnSessionAssumption DEF Init, AttemptOK, NothingPushed
<1>3. ChildHome /\ BackoffHome
  BY DEF Init, ProcessInit, ChildHome, BackoffHome, OwnManagement, Configure
<1>4. LinkHome
  BY VpnSessionAssumption DEF Init, LinuxInit, ProcessInit, LinkHome, NoLink
<1>5. SettingsHome
  BY VpnSessionAssumption
  DEF Init, LinuxInit, SettingsHome, RecordsHome, UndoHome, ScriptHome, NoGuard
<1>6. ConfiguredHome
  BY VpnSessionAssumption
  DEF Init, LinuxInit, ProcessInit, ConfiguredHome, PlaceHome, ScriptUp, TunnelHome, SessionHome,
      Configure, NoGuard
<1>7. QED
  BY <1>1, <1>2, <1>3, <1>4, <1>5, <1>6 DEF IInv, TypeOK

\* every step keeps it,
LEMMA StepIInv == IInv /\ Next => IInv'
<1> SUFFICES ASSUME IInv, Next PROVE IInv'
  OBVIOUS
<1>1. /\ ProcessOK /\ LinuxOK /\ MonitorOK /\ ControlOK /\ AttemptOK
      /\ pushed \in [dns_servers : SUBSET Addresses, routes : SUBSET Route]
  BY DEF IInv, TypeOK
<1>2. /\ ChildHome /\ LinkHome /\ RecordsHome /\ UndoHome /\ ScriptHome /\ SettingsHome
      /\ PlaceHome /\ ScriptUp /\ TunnelHome /\ SessionHome /\ BackoffHome
  BY DEF IInv, SettingsHome, ConfiguredHome
<1>3. /\ pc \in Points /\ faults \in Nat
      /\ left \in [records : SUBSET Tuns, host : SUBSET {"scutil", "script"}]
  BY <1>1 DEF ControlOK
<1>4. setup' = setup
  BY SetupStays
<1>5. ProcessOK' /\ LinuxOK'
  BY <1>1, <1>2, ProcessPreserved, LinuxPreserved
<1>6. ControlOK'
  BY <1>1, <1>2, <1>3, FaultsCounted, ControlPreserved
<1>7. pushed' \in [dns_servers : SUBSET Addresses, routes : SUBSET Route]
  BY <1>1, PushedPreserved
<1>8. MonitorOK'
  BY <1>1, <1>7, MonitorPreserved
<1>9. AttemptOK' /\ BackoffHome'
  BY <1>1, <1>2, <1>3, AttemptPreserved
<1>10. ChildHome' /\ LinkHome'
  BY <1>1, <1>2, <1>3, <1>4, ChildPreserved, LinkPreserved
<1>11. SettingsHome'
  BY <1>1, <1>2, <1>3, ScriptPreserved, UndoPreserved, RecordsPreserved DEF SettingsHome
<1>12. ConfiguredHome'
  BY <1>1, <1>2, <1>3, <1>4, PlacePreserved, ScriptUpPreserved, TunnelPreserved,
     SessionPreserved
  DEF ConfiguredHome
<1>13. QED
  BY <1>5, <1>6, <1>7, <1>8, <1>9, <1>10, <1>11, <1>12 DEF IInv, TypeOK

\* and so does a stuttering step.
LEMMA StutterIInv == IInv /\ UNCHANGED vars => IInv'
<1> SUFFICES ASSUME IInv, UNCHANGED vars PROVE IInv'
  OBVIOUS
<1> USE DEF vars, local, host, process, linux, routing
<1>1. (ProcessOK /\ LinuxOK /\ MonitorOK /\ ControlOK /\ AttemptOK)'
  BY DEF IInv, TypeOK, ProcessOK, LinuxOK, MonitorOK, ControlOK, AttemptOK
<1>2. pushed' \in [dns_servers : SUBSET Addresses, routes : SUBSET Route]
  BY DEF IInv, TypeOK
<1>3. ChildHome' /\ LinkHome' /\ BackoffHome'
  BY DEF IInv, ChildHome, OwnManagement, LinkHome, BackoffHome, Linux, Daemon
<1>4. SettingsHome'
  BY DEF IInv, SettingsHome, RecordsHome, UndoHome, ScriptHome
<1>5. ConfiguredHome'
  BY DEF IInv, ConfiguredHome, PlaceHome, ScriptUp, TunnelHome, SessionHome, NativeDns,
         uses_dns_scripts, Linux
<1>6. QED
  BY <1>1, <1>2, <1>3, <1>4, <1>5 DEF IInv, TypeOK

\* The inductive invariant holds in every reachable state: where the OpenVPN
\* process, the interfaces, the guard and the DNS settings may be, at every
\* await of connect() and of the session's end, whatever OpenVPN, the network
\* and a SIGKILL do in between (client.rs, process.rs, dns.rs, main.rs).
THEOREM SessionInvariant == Spec => []IInv
<1>1. IInv /\ [Next]_vars => IInv'
  BY StepIInv, StutterIInv
<1>2. QED
  BY <1>1, InitIInv, PTL DEF Spec

\* Every variable keeps its type; in particular the delay of a reconnect
\* attempt never exceeds AUTO_RECONNECT_MAX_DELAY (main.rs).
THEOREM SessionTypes == Spec => []TypeOK
<1>1. IInv => TypeOK
  BY DEF IInv
<1>2. QED
  BY <1>1, SessionInvariant, PTL

\* The login and the session only ever talk to the OpenVPN process that this
\* attempt has spawned, whoever took the reserved port (management.rs).
THEOREM ManagementIsOwn == Spec => []OwnManagement
<1>1. IInv => OwnManagement
  BY DEF IInv, ChildHome
<1>2. QED
  BY <1>1, SessionInvariant, PTL

\* While nothing is connected every DNS setting on the host is one that nobody
\* was left to undo (client.rs, dns.rs).
THEOREM SettingsAreAccounted == Spec => []SettingsAccounted
<1>1. IInv => SettingsAccounted
  <2> SUFFICES ASSUME IInv,
                      pc \in {"off", "killed", "sleep", "prepare", "spawn", "dial", "auth"}
               PROVE  /\ records \subseteq left.records /\ hostDns \subseteq left.host
                      /\ \A t \in Tuns : resolved[t] # {} => link[t].owner = "orphan"
    BY DEF SettingsAccounted
  <2>1. guard.method = None /\ "scutil" \notin hostDns \ left.host
    BY DEF IInv, SettingsHome, UndoHome
  <2>2. child \notin {"up", "term"}
    BY DEF IInv, ChildHome
  <2>3. records \subseteq left.records
    <3>1. ASSUME NEW t \in Tuns
          PROVE  guard # [method |-> "resolvconf", tun |-> t]
      BY <2>1, VpnSessionAssumption
    <3>2. QED
      BY <3>1 DEF IInv, SettingsHome, RecordsHome
  <2>4. "script" \notin hostDns \ left.host
    BY <2>2 DEF IInv, SettingsHome, ScriptHome
  <2>5. hostDns \subseteq left.host
    BY <2>1, <2>4 DEF IInv, TypeOK, ControlOK
  <2>6. ASSUME NEW t \in Tuns, resolved[t] # {}
        PROVE  link[t].owner = "orphan"
    <3>1. link[t].owner \in {"own", "orphan", None}
      BY DEF IInv, TypeOK, LinuxOK
    <3>2. link[t].owner # None /\ link[t].owner # "own"
      BY <2>2, <2>6 DEF IInv, LinkHome
    <3>3. QED
      BY <3>1, <3>2
  <2>7. QED
    BY <2>3, <2>5, <2>6
<1>2. QED
  BY <1>1, SessionInvariant, PTL

\* A session for which the endpoint pushed DNS servers uses all of them on its
\* own interface, whatever failed before (dns.rs configure_linux_dns).
THEOREM SessionsAreConfigured == Spec => []ConnectedIsConfigured
<1>1. IInv => ConnectedIsConfigured
  <2> SUFFICES ASSUME IInv, pc = "session", child = "up"
               PROVE  /\ uses_dns_scripts => "script" \in hostDns
                      /\ NativeDns /\ ~Linux => "scutil" \in hostDns
                      /\ NativeDns /\ Linux =>
                            \/ guard.method = "resolvconf" /\ guard.tun \in records
                            \/ /\ guard.method = "resolved"
                               /\ ~reopened => /\ resolved[guard.tun] = {"dns", "domain"}
                                               /\ link[guard.tun] = [owner |-> "own", addr |-> vpnIp]
    BY DEF ConnectedIsConfigured
  <2>1. uses_dns_scripts => "script" \in hostDns
    BY DEF IInv, ConfiguredHome, ScriptUp
  <2>2. NativeDns => IF Linux THEN guard.method # None ELSE "scutil" \in hostDns
    BY DEF IInv, ConfiguredHome, SessionHome
  <2>3. guard.method \in {"resolved", "resolvconf", None}
    BY DEF IInv, TypeOK, LinuxOK
  <2>4. guard.method = "resolvconf" => guard.tun \in records
    BY DEF IInv, SettingsHome, RecordsHome
  <2>5. ASSUME guard.method = "resolved", ~reopened, Linux
        PROVE  /\ resolved[guard.tun] = {"dns", "domain"}
               /\ link[guard.tun] = [owner |-> "own", addr |-> vpnIp]
    <3>1. guard.tun = tun /\ tun # None
      BY <2>5, VpnSessionAssumption DEF IInv, ConfiguredHome, PlaceHome
    <3>2. QED
      BY <2>5, <3>1 DEF IInv, ConfiguredHome, TunnelHome
  <2>6. QED
    BY <2>1, <2>2, <2>3, <2>4, <2>5
<1>2. QED
  BY <1>1, SessionInvariant, PTL

\* The first reconnect attempt waits for the initial delay, every later one
\* twice as long as the one before, up to the maximum, for every number of
\* attempts (main.rs reconnect_delay, start_reconnect_attempt).
THEOREM BackoffIsExponential == Spec => BackoffFollows
<1>1. IInv /\ [Next]_vars =>
        [pc' = "sleep" /\ pc # "sleep" =>
            delay' = IF pc = "session" THEN InitialDelay ELSE Min(2 * delay, MaxDelay)]_vars
  BY BackoffStep DEF IInv, TypeOK, ControlOK
<1>2. QED
  BY <1>1, SessionInvariant, PTL DEF Spec, BackoffFollows

\* Only a tick that misses a route warns.
LEMMA WarnsOnTick ==
    ASSUME Next
    PROVE  ~warned /\ warned' => RouteTick
<1>1. CASE Wake \/ Prepare \/ PrepareFails \/ Spawn
  BY <1>1
  DEF Wake, Prepare, PrepareFails, Spawn, routing
<1>2. CASE Dial \/ Authenticate \/ GaveUp
  BY <1>2
  DEF Dial, Authenticate, GaveUp, ConnectDrops, routing, TunnelClosed
<1>3. CASE Connected
  BY <1>3
  DEF Connected, AfterLogin, spawn_route_monitor
<1>4. CASE Lookup
  BY <1>4
  DEF Lookup, ConfigureFails, Configuring, GoesOn, DetachMonitor, routing,
      abort_route_monitor
<1>5. CASE ResolvectlDns \/ ResolvectlDomain \/ ResolvectlRevert
  BY <1>5
  DEF ResolvectlDns, ResolvectlDomain, ResolvectlRevert, Configuring, GoesOn,
      routing
<1>6. CASE Resolvconf \/ Scutil
  BY <1>6
  DEF Resolvconf, Scutil, ConfigureFails, Configuring, GoesOn, DetachMonitor,
      routing, abort_route_monitor
<1>7. CASE Lost
  BY <1>7
  DEF Lost, abort_route_monitor
<1>8. CASE Stopped \/ Restored
  BY <1>8
  DEF Stopped, Restored, TunnelClosed, abort_route_monitor
<1>9. CASE DropGuard \/ Drop
  BY <1>9
  DEF DropGuard, Drop, DetachMonitor, TunnelClosed, abort_route_monitor
<1>10. CASE Start \/ LoginFails \/ Disconnect \/ Abort
  BY <1>10
  DEF Start, LoginFails, Disconnect, Abort, routing, TunnelClosed
<1>11. CASE OpenVpnListens \/ PortRace
  BY <1>11
  DEF OpenVpnListens, PortRace, routing
<1>12. CASE OpenVpnConnects
  BY <1>12
  DEF OpenVpnConnects, NothingPushed
<1>13. CASE OpenVpnRestarts
  BY <1>13
  DEF OpenVpnRestarts, TunnelClosed
<1>14. CASE OpenVpnExits
  BY <1>14
  DEF OpenVpnExits, TunnelClosed
<1>15. CASE Kill
  BY <1>15
  DEF Kill
<1>16. CASE OrphanEnds \/ RoutesDrift \/ DetachedMonitorTicks \/ MonitorTicks
  BY <1>16
  DEF OrphanEnds, RoutesDrift, DetachedMonitorTicks, MonitorTicks, Drift,
      DetachedTick
<1>17. QED
  BY <1>1, <1>2, <1>3, <1>4, <1>5, <1>6, <1>7, <1>8, <1>9, <1>10, <1>11, <1>12,
     <1>13, <1>14, <1>15, <1>16
  DEF Next, Proceed, Operator, Environment

\* The route monitor warns only when a pushed route has no readable row on a
\* utun device, for every table, every reply and every width of an address
\* (client.rs pushed_routes_present_in_netstat).
THEOREM WarningsAreOfUnseen == Spec => WarnedOnlyOfUnseen
<1>1. IInv /\ [Next]_vars => [~warned /\ warned' => \E r \in watched : ~Seen(table, r)]_vars
  <2> SUFFICES ASSUME IInv, Next, ~warned, warned'
               PROVE  \E r \in watched : ~Seen(table, r)
    OBVIOUS
  <2>1. ~pushed_routes_present_in_netstat(table, watched)
    BY WarnsOnTick DEF RouteTick
  <2>2. watched \in SUBSET Route /\ table \in SUBSET Entry
    BY DEF IInv, TypeOK, MonitorOK
  <2>3. ASSUME NEW r \in watched, Seen(table, r)
        PROVE  \E e \in table : parse_macos_netstat_route(Row(e)) = pushed_route_key(r)
    <3>1. pushed_routes_present_in_netstat(table, {r})
      BY <2>2, <2>3, SeenIsPresent
    <3>2. QED
      BY <3>1 DEF pushed_routes_present_in_netstat
  <2>4. QED
    BY <2>1, <2>3 DEF pushed_routes_present_in_netstat
<1>2. QED
  BY <1>1, SessionInvariant, PTL DEF Spec, WarnedOnlyOfUnseen

-----------------------------------------------------------------------------
(* The refinement of TunnelService.                                          *)

\* The steps of TunnelService that a step of VpnSession makes, or none.
PhaseStays   == Phase' = Phase
OpenVpnStays == OpenVpnNow' = OpenVpnNow
OpenVpnGone  == OpenVpnNow' = "none"
Becomes(from, to) == Phase \in from /\ Phase' = to

ServiceMove ==
    \/ PhaseStays /\ OpenVpnStays /\ orphan' = orphan
    \/ Becomes({"off", "crashed"}, "connecting") /\ OpenVpnStays /\ orphan' = orphan
    \/ PhaseStays /\ Phase = "connecting" /\ orphan' = orphan
          /\ \/ OpenVpnNow = "none" /\ OpenVpnNow' = "starting"
             \/ OpenVpnNow = "starting" /\ OpenVpnNow' = "up"
             \/ OpenVpnNow = "up" /\ OpenVpnNow' = "starting"
             \/ OpenVpnGone
    \/ Becomes({"connecting"}, "up") /\ OpenVpnNow \in {"up", "exited"} /\ OpenVpnStays
          /\ orphan' = orphan
    \/ PhaseStays /\ OpenVpnNow \in {"starting", "up"} /\ OpenVpnNow' = "exited"
          /\ orphan' = orphan
    \/ Becomes({"up"}, "connecting") /\ OpenVpnNow = "exited" /\ OpenVpnGone /\ orphan' = orphan
    \/ Becomes({"up"}, "stopping") /\ OpenVpnStays /\ orphan' = orphan
    \/ PhaseStays /\ Phase = "stopping" /\ OpenVpnGone /\ orphan' = orphan
    \/ Becomes({"up"}, "stopping") /\ OpenVpnGone /\ orphan' = orphan
    \/ Becomes({"connecting", "up", "stopping"}, "off") /\ OpenVpnGone /\ orphan' = orphan
    \/ Becomes(Service!Phases \ {"crashed"}, "crashed") /\ OpenVpnGone /\ orphan' = orphan
    \/ Becomes(Service!Phases \ {"crashed"}, "crashed") /\ OpenVpnGone
          /\ OpenVpnNow # "none" /\ orphan' = TRUE
    \/ PhaseStays /\ OpenVpnStays /\ orphan /\ orphan' = FALSE

PhaseTable ==
    Phase = IF pc = "off" THEN "off" ELSE IF pc = "killed" THEN "crashed"
            ELSE IF pc \in {"sleep"} \cup Login \cup Configure THEN "connecting"
            ELSE IF pc = "session" THEN "up" ELSE "stopping"

LEMMA PhaseValues == PhaseTable /\ PhaseTable'
BY DEF PhaseTable, Phase, Login, Configure

\* Every step of the process is one that TunnelService allows it.
LEMMA StepMoves ==
    ASSUME ProcessOK, ChildHome, pc \in Points, orphan \in BOOLEAN, Next
    PROVE  ServiceMove
<1>1. CASE Wake \/ Prepare
  BY <1>1, PhaseValues
  DEF Wake, Prepare, ServiceMove, ChildHome, ProcessOK, ChildStates, Ending,
      Login, Configure, PhaseTable, OpenVpnNow, PhaseStays, OpenVpnStays,
      OpenVpnGone, Becomes, Alive, Goto, process, reserve_management_port
<1>2. CASE PrepareFails
  BY <1>2, PhaseValues
  DEF PrepareFails, ServiceMove, ChildHome, ProcessOK, ChildStates, Ending,
      Login, Configure, PhaseTable, OpenVpnNow, PhaseStays, OpenVpnStays,
      OpenVpnGone, Becomes, Alive, AttemptFails, process, Exits, Min,
      start_reconnect_attempt, Goto
<1>3. CASE Spawn
  BY <1>3, PhaseValues
  DEF Spawn, ServiceMove, ChildHome, ProcessOK, ChildStates, Ending, Login,
      Configure, PhaseTable, OpenVpnNow, PhaseStays, OpenVpnStays, OpenVpnGone,
      Becomes, Alive, AttemptFails, Goto, process, spawn, Exits, Min,
      start_reconnect_attempt
<1>4. CASE Dial
  BY <1>4, PhaseValues
  DEF Dial, ServiceMove, ChildHome, ProcessOK, ChildStates, Ending, Login,
      Configure, PhaseTable, OpenVpnNow, PhaseStays, OpenVpnStays, OpenVpnGone,
      Becomes, Alive, ConnectDrops, ConnectManagement, Goto, AttemptFails,
      DropProcess, Exits, Min, start_reconnect_attempt, Gone
<1>5. CASE Authenticate
  BY <1>5, PhaseValues
  DEF Authenticate, ServiceMove, ChildHome, ProcessOK, ChildStates, Ending,
      Login, Configure, PhaseTable, OpenVpnNow, PhaseStays, OpenVpnStays,
      OpenVpnGone, Becomes, Alive, ConnectDrops, Goto, authenticate,
      AttemptFails, DropProcess, Exits, Min, start_reconnect_attempt, Gone
<1>6. CASE GaveUp
  BY <1>6, PhaseValues
  DEF GaveUp, ServiceMove, ChildHome, ProcessOK, ChildStates, Ending, Login,
      Configure, PhaseTable, OpenVpnNow, PhaseStays, OpenVpnStays, OpenVpnGone,
      Becomes, Alive, AttemptFails, WaitEnds, Exits, Min,
      start_reconnect_attempt, Gone, Goto
<1>7. CASE Connected
  BY <1>7, PhaseValues
  DEF Connected, ServiceMove, ChildHome, ProcessOK, ChildStates, Ending, Login,
      Configure, PhaseTable, OpenVpnNow, PhaseStays, OpenVpnStays, OpenVpnGone,
      Becomes, Alive, AfterLogin, Goto, process
<1>8. CASE Lookup
  BY <1>8, PhaseValues
  DEF Lookup, ServiceMove, ChildHome, ProcessOK, ChildStates, Ending, Login,
      Configure, PhaseTable, OpenVpnNow, PhaseStays, OpenVpnStays, OpenVpnGone,
      Becomes, Alive, ConfigureFails, Configuring, GoesOn, AttemptFails,
      DropProcess, Goto, process, Exits, Min, start_reconnect_attempt, Gone
<1>9. CASE ResolvectlDns \/ ResolvectlDomain \/ ResolvectlRevert
  BY <1>9, PhaseValues
  DEF ResolvectlDns, ResolvectlDomain, ResolvectlRevert, ServiceMove,
      ChildHome, ProcessOK, ChildStates, Ending, Login, Configure, PhaseTable,
      OpenVpnNow, PhaseStays, OpenVpnStays, OpenVpnGone, Becomes, Alive,
      Configuring, GoesOn, Goto, process
<1>10. CASE Resolvconf \/ Scutil
  BY <1>10, PhaseValues
  DEF Resolvconf, Scutil, ServiceMove, ChildHome, ProcessOK, ChildStates,
      Ending, Login, Configure, PhaseTable, OpenVpnNow, PhaseStays,
      OpenVpnStays, OpenVpnGone, Becomes, Alive, ConfigureFails, Configuring,
      GoesOn, AttemptFails, DropProcess, Goto, process, Exits, Min,
      start_reconnect_attempt, Gone
<1>11. CASE Lost
  BY <1>11, PhaseValues
  DEF Lost, ServiceMove, ChildHome, ProcessOK, ChildStates, Ending, Login,
      Configure, PhaseTable, OpenVpnNow, PhaseStays, OpenVpnStays, OpenVpnGone,
      Becomes, Alive, Exits, Gone, start_reconnect_attempt, Goto
<1>12. CASE Stopped
  BY <1>12, PhaseValues
  DEF Stopped, ServiceMove, ChildHome, ProcessOK, ChildStates, Ending, Login,
      Configure, PhaseTable, OpenVpnNow, PhaseStays, OpenVpnStays, OpenVpnGone,
      Becomes, Alive, Goto, WaitEnds, Gone
<1>13. CASE Restored \/ DropGuard
  BY <1>13, PhaseValues
  DEF Restored, DropGuard, ServiceMove, ChildHome, ProcessOK, ChildStates,
      Ending, Login, Configure, PhaseTable, OpenVpnNow, PhaseStays,
      OpenVpnStays, OpenVpnGone, Becomes, Alive, Exits, process, Goto
<1>14. CASE Drop
  BY <1>14, PhaseValues
  DEF Drop, ServiceMove, ChildHome, ProcessOK, ChildStates, Ending, Login,
      Configure, PhaseTable, OpenVpnNow, PhaseStays, OpenVpnStays, OpenVpnGone,
      Becomes, Alive, DropProcess, Goto, Gone
<1>15. CASE Start \/ Disconnect
  BY <1>15, PhaseValues
  DEF Start, Disconnect, ServiceMove, ChildHome, ProcessOK, ChildStates,
      Ending, Login, Configure, PhaseTable, OpenVpnNow, PhaseStays,
      OpenVpnStays, OpenVpnGone, Becomes, Alive, Goto, process,
      request_termination
<1>16. CASE LoginFails
  BY <1>16, PhaseValues
  DEF LoginFails, ServiceMove, ChildHome, ProcessOK, ChildStates, Ending,
      Login, Configure, PhaseTable, OpenVpnNow, PhaseStays, OpenVpnStays,
      OpenVpnGone, Becomes, Alive, Goto, request_termination
<1>17. CASE Abort
  BY <1>17, PhaseValues
  DEF Abort, ServiceMove, ChildHome, ProcessOK, ChildStates, Ending, Login,
      Configure, PhaseTable, OpenVpnNow, PhaseStays, OpenVpnStays, OpenVpnGone,
      Becomes, Alive, DropProcess, Exits, Gone, Goto
<1>18. CASE OpenVpnListens \/ PortRace
  BY <1>18, PhaseValues
  DEF OpenVpnListens, PortRace, ServiceMove, ChildHome, ProcessOK, ChildStates,
      Ending, Login, Configure, PhaseTable, OpenVpnNow, PhaseStays,
      OpenVpnStays, OpenVpnGone, Becomes, Alive, Listen, Outside, PortTaken
<1>19. CASE OpenVpnConnects
  BY <1>19, PhaseValues
  DEF OpenVpnConnects, ServiceMove, ChildHome, ProcessOK, ChildStates, Ending,
      Login, Configure, PhaseTable, OpenVpnNow, PhaseStays, OpenVpnStays,
      OpenVpnGone, Becomes, Alive, Establish, Outside
<1>20. CASE OpenVpnRestarts
  BY <1>20, PhaseValues
  DEF OpenVpnRestarts, ServiceMove, ChildHome, ProcessOK, ChildStates, Ending,
      Login, Configure, PhaseTable, OpenVpnNow, PhaseStays, OpenVpnStays,
      OpenVpnGone, Becomes, Alive, Outside, Restart
<1>21. CASE OpenVpnExits
  BY <1>21, PhaseValues
  DEF OpenVpnExits, ServiceMove, ChildHome, ProcessOK, ChildStates, Ending,
      Login, Configure, PhaseTable, OpenVpnNow, PhaseStays, OpenVpnStays,
      OpenVpnGone, Becomes, Alive, Exit, Outside
<1>22. CASE Kill
  <2>1. Phase' = "crashed" /\ OpenVpnGone
    BY <1>22, PhaseValues DEF Kill, Exits, Goto, Gone, PhaseTable, OpenVpnGone, OpenVpnNow, Alive
  <2>2. Phase \in Service!Phases \ {"crashed"}
    BY <1>22, PhaseValues DEF Kill, PhaseTable, Service!Phases
  <2>3. CASE Alive
    BY <1>22, <2>1, <2>2, <2>3 DEF Kill, ServiceMove, Becomes, OpenVpnNow
  <2>4. CASE ~Alive
    <3>1. orphan' = orphan
      BY <1>22, <2>4 DEF Kill
    <3>2. Becomes(Service!Phases \ {"crashed"}, "crashed")
      BY <2>1, <2>2 DEF Becomes
    <3>3. QED
      BY <2>1, <3>1, <3>2, Zenon DEF ServiceMove
  <2>5. QED
    BY <2>3, <2>4
<1>23. CASE OrphanEnds
  BY <1>23, PhaseValues
  DEF OrphanEnds, ServiceMove, ChildHome, ProcessOK, ChildStates, Ending,
      Login, Configure, PhaseTable, OpenVpnNow, PhaseStays, OpenVpnStays,
      OpenVpnGone, Becomes, Alive, process
<1>24. CASE RoutesDrift \/ DetachedMonitorTicks \/ MonitorTicks
  BY <1>24, PhaseValues
  DEF RoutesDrift, DetachedMonitorTicks, MonitorTicks, ServiceMove, ChildHome,
      ProcessOK, ChildStates, Ending, Login, Configure, PhaseTable, OpenVpnNow,
      PhaseStays, OpenVpnStays, OpenVpnGone, Becomes, Alive, Outside, process
<1>25. QED
  BY <1>1, <1>2, <1>3, <1>4, <1>5, <1>6, <1>7, <1>8, <1>9, <1>10, <1>11, <1>12,
     <1>13, <1>14, <1>15, <1>16, <1>17, <1>18, <1>19, <1>20, <1>21, <1>22,
     <1>23, <1>24
  DEF Next, Proceed, Operator, Environment

\* Every step is one of the service, or none.
LEMMA StepRefines ==
    ASSUME ServiceMove, orphan \in BOOLEAN
    PROVE  Service!Next \/ UNCHANGED Service!vars
<1> DEFINE p == "awsvpn"
<1>1. Service!Step(p) => Service!Next
  BY DEF Service!Next
<1>2. /\ phase[p] = Phase /\ openvpn[p] = OpenVpnNow /\ orphaned[p] = orphan
      /\ phase' = [phase EXCEPT ![p] = Phase']
      /\ openvpn' = [openvpn EXCEPT ![p] = OpenVpnNow']
      /\ orphaned' = [orphaned EXCEPT ![p] = orphan']
  BY DEF phase, openvpn, orphaned
<1>3. /\ Phase' = Phase => phase' = phase
      /\ OpenVpnNow' = OpenVpnNow => openvpn' = openvpn
      /\ orphan' = orphan => orphaned' = orphaned
  BY DEF phase, openvpn, orphaned
<1> USE <1>1, <1>2, <1>3 DEF Becomes, PhaseStays, OpenVpnStays, OpenVpnGone
<1>4. CASE PhaseStays /\ OpenVpnStays /\ orphan' = orphan
  BY <1>4 DEF Service!vars
<1>5. CASE Becomes({"off", "crashed"}, "connecting") /\ OpenVpnStays /\ orphan' = orphan
  BY <1>5 DEF Service!Step, Service!Start, Service!Goes
<1>6. CASE PhaseStays /\ Phase = "connecting" /\ orphan' = orphan /\ OpenVpnNow = "none" /\ OpenVpnNow' = "starting"
  BY <1>6 DEF Service!Step, Service!Spawn, Service!Connecting, Service!Ovpn
<1>7. CASE PhaseStays /\ Phase = "connecting" /\ orphan' = orphan /\ OpenVpnNow = "starting" /\ OpenVpnNow' = "up"
  BY <1>7 DEF Service!Step, Service!Establish, Service!Connecting, Service!Ovpn
<1>8. CASE PhaseStays /\ Phase = "connecting" /\ orphan' = orphan /\ OpenVpnNow = "up" /\ OpenVpnNow' = "starting"
  BY <1>8 DEF Service!Step, Service!Restart, Service!Connecting, Service!Ovpn
<1>9. CASE PhaseStays /\ Phase = "connecting" /\ orphan' = orphan /\ OpenVpnGone
  BY <1>9 DEF Service!Step, Service!GiveUp, Service!Ovpn
<1>10. CASE Becomes({"connecting"}, "up") /\ OpenVpnNow \in {"up", "exited"} /\ OpenVpnStays /\ orphan' = orphan
  BY <1>10 DEF Service!Step, Service!Ready, Service!Goes, Service!Connected
<1>11. CASE PhaseStays /\ OpenVpnNow \in {"starting", "up"} /\ OpenVpnNow' = "exited" /\ orphan' = orphan
  BY <1>11 DEF Service!Step, Service!Exit, Service!Ovpn
<1>12. CASE Becomes({"up"}, "connecting") /\ OpenVpnNow = "exited" /\ OpenVpnGone /\ orphan' = orphan
  BY <1>12 DEF Service!Step, Service!Lose, Service!Goes, Service!Ovpn
<1>13. CASE Becomes({"up"}, "stopping") /\ OpenVpnStays /\ orphan' = orphan
  BY <1>13 DEF Service!Step, Service!Stop, Service!Goes
<1>14. CASE PhaseStays /\ Phase = "stopping" /\ OpenVpnGone /\ orphan' = orphan
  BY <1>14 DEF Service!Step, Service!TakeDown, Service!Ovpn
<1>15. CASE Becomes({"up"}, "stopping") /\ OpenVpnGone /\ orphan' = orphan
  BY <1>15 DEF Service!Step, Service!Kill, Service!Goes, Service!Ovpn
<1>16. CASE Becomes({"connecting", "up", "stopping"}, "off") /\ OpenVpnGone /\ orphan' = orphan
  BY <1>16 DEF Service!Step, Service!End, Service!Goes, Service!Ovpn
<1>17. CASE Becomes(Service!Phases \ {"crashed"}, "crashed") /\ OpenVpnGone /\ orphan' = orphan
  BY <1>17 DEF Service!Step, Service!Crash, Service!Goes, Service!Ovpn
<1>18. CASE Becomes(Service!Phases \ {"crashed"}, "crashed") /\ OpenVpnGone /\ OpenVpnNow # "none" /\ orphan' = TRUE
  BY <1>18 DEF Service!Step, Service!Crash, Service!Goes, Service!Ovpn
<1>19. CASE PhaseStays /\ OpenVpnStays /\ orphan /\ orphan' = FALSE
  BY <1>19 DEF Service!Step, Service!OrphanEnds
<1>20. QED
  BY <1>1, <1>4, <1>5, <1>6, <1>7, <1>8, <1>9, <1>10, <1>11, <1>12, <1>13,
     <1>14, <1>15, <1>16, <1>17, <1>18, <1>19 DEF ServiceMove

\* The whole life of a session, its faults included, is one that TunnelService
\* allows: one OpenVPN process at a time, a session only on one that has
\* connected, none left by an end in good order (client.rs, process.rs).
THEOREM SessionImplementsService == Spec => ImplementsService
<1>1. Init => Service!Init
  <2> SUFFICES ASSUME Init PROVE Service!Init
    OBVIOUS
  <2>1. Phase = "off" /\ OpenVpnNow = "none" /\ orphan = FALSE
    BY PhaseValues DEF Init, ProcessInit, PhaseTable, OpenVpnNow, Alive
  <2>2. QED
    BY <2>1 DEF Service!Init, phase, openvpn, orphaned
<1>2. IInv /\ [Next]_vars => [Service!Next]_(Service!vars)
  <2> SUFFICES ASSUME IInv, [Next]_vars
               PROVE  Service!Next \/ UNCHANGED Service!vars
    OBVIOUS
  <2>1. CASE UNCHANGED vars
    BY <2>1 DEF vars, process, Service!vars, phase, openvpn, orphaned, Phase, OpenVpnNow, Alive
  <2>2. CASE Next
    <3>1. ProcessOK /\ ChildHome /\ pc \in Points /\ orphan \in BOOLEAN
      BY DEF IInv, TypeOK, ControlOK
    <3>2. QED
      BY <2>2, <3>1, StepMoves, StepRefines
  <2>3. QED
    BY <2>1, <2>2
<1>3. QED
  BY <1>1, <1>2, SessionInvariant, PTL DEF Spec, ImplementsService, Service!Spec

=============================================================================
