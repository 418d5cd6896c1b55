----------------------------- MODULE VpnSession -----------------------------
(***************************************************************************)
(* One awsvpn process that connects, keeps, loses, retries and ends a VPN  *)
(* session: VpnClient::connect, VpnSession and the backoff of the daemon's *)
(* reconnect attempts (client.rs, main.rs), composed of the OpenVPN child, *)
(* the DNS of Linux and the route monitor of macOS.                        *)
(*                                                                         *)
(* Every await of connect() is a step, and so is every command it runs:    *)
(* OpenVPN, the network and the operator act in between.  The SAML login   *)
(* is one step here (SamlFlow), the native DNS of macOS one setting        *)
(* (MacosDns), the control socket is left out (DaemonControl).             *)
(***************************************************************************)
EXTENDS OpenVpnProcess, LinuxDns, RouteMonitor

CONSTANTS
    Setups,         \* platforms and options: [os, mode, dns, scripts]
    PushReplies,    \* push replies of the VPN endpoint
    InitialDelay,   \* AUTO_RECONNECT_INITIAL_DELAY
    MaxDelay,       \* AUTO_RECONNECT_MAX_DELAY
    MaxExponent,    \* the 5 of reconnect_delay
    MaxAttempt,     \* u32::MAX
    Faults,         \* what the environment of this instance may do
    MaxFaults       \* how often it does so

AllFaults ==
    { "port_taken",     \* an unrelated program gets the management port
      "openvpn_exits",  \* OpenVPN exits by itself, and runs its down script
      "openvpn_dies",   \* OpenVPN ends without running its down script
      "restart",        \* OpenVPN loses the connection and makes a new one
      "command_fails",  \* a command that undoes a DNS setting fails
      "killed",         \* awsvpn is killed
      "drift" }         \* a route is removed or moved to another device

ASSUME VpnSessionAssumption ==
    /\ Setups \subseteq [os : {"linux", "macos"}, mode : {"daemon", "foreground"},
                         dns : {"default", "disabled"}, scripts : BOOLEAN]
    /\ InitialDelay \in Nat \ {0} /\ MaxDelay \in Nat /\ InitialDelay <= MaxDelay
    /\ MaxExponent \in Nat /\ InitialDelay * 2^MaxExponent >= MaxDelay
    /\ MaxAttempt \in Nat /\ MaxAttempt > MaxExponent
    /\ PushReplies \subseteq Seq(Option)
    /\ Faults \subseteq AllFaults /\ MaxFaults \in Nat
    /\ None \notin {"own", "orphan", "resolved", "resolvconf"}
    /\ None \notin Tuns /\ None \notin Addrs

\* What 1 << k is, as far as the proofs use it.
ASSUME ShiftAssumption ==
    2^0 = 1 /\ \A k \in 0 .. MaxExponent : 2^k \in Nat /\ 2^(k + 1) = 2 * 2^k

VARIABLES
    setup,      \* the platform and the options of this process
    pc,         \* where connect(), the session or its end is
    attempt,    \* 0: the first connect; else the number of the reconnect attempt
    delay,      \* how long the attempt has slept, or sleeps
    pushed,     \* SamlAuthOutcome: dns_servers and routes
    vpnIp,      \* SamlAuthOutcome.vpn_ip
    hostDns,    \* DNS settings of the host: by scutil, by OpenVPN's up script
    left,       \* settings that nobody is there to undo
    reopened,   \* OpenVPN has made a new connection since it was configured
    orphan,     \* an OpenVPN process outlives the awsvpn process that ran it
    faults      \* how often the environment interfered

local  == <<setup, attempt, delay>>
host   == <<hostDns, left>>
vars   == <<setup, pc, attempt, delay, pushed, vpnIp, host, reopened, orphan, faults,
            process, linux, routing>>

\* The phases of connect(); those after the login have no await.
Login     == {"prepare", "spawn", "dial", "auth", "login", "giveUp"}
Configure == {"lookup", "setDns", "setDomain", "revert", "resolvconf", "scutil"}
Ending    == {"stop", "restore", "drop"}
Points    == {"off", "killed", "sleep", "session"} \cup Login \cup Configure \cup Ending

NothingPushed == [dns_servers |-> {}, routes |-> {}]
NothingLeft   == [records |-> {}, host |-> {}]

ControlOK ==
    /\ setup \in Setups /\ pc \in Points
    /\ vpnIp \in Addrs \cup {None}
    /\ hostDns \in SUBSET {"scutil", "script"}
    /\ left \in [records : SUBSET Tuns, host : SUBSET {"scutil", "script"}]
    /\ reopened \in BOOLEAN /\ orphan \in BOOLEAN /\ faults \in Nat

AttemptOK == attempt \in 0 .. MaxAttempt /\ delay \in 0 .. MaxDelay

TypeOK ==
    /\ ProcessOK /\ LinuxOK /\ MonitorOK /\ ControlOK /\ AttemptOK
    /\ pushed \in [dns_servers : SUBSET Addresses, routes : SUBSET Route]

Init ==
    /\ ProcessInit /\ LinuxInit /\ MonitorInit
    /\ setup \in Setups /\ pc = "off" /\ attempt = 0 /\ delay = 0
    /\ pushed = NothingPushed /\ vpnIp = None
    /\ hostDns = {} /\ left = NothingLeft
    /\ reopened = FALSE /\ orphan = FALSE /\ faults = 0

Goto(l) == pc' = l
Linux   == setup.os = "linux"
Daemon  == setup.mode = "daemon"

\* prepare_dns_scripts: the scripts lie beside the OpenVPN binary.
uses_dns_scripts == setup.dns = "default" /\ Linux /\ setup.scripts

\* The condition under which connect() calls configure_native_dns.
NativeDns == setup.dns = "default" /\ ~uses_dns_scripts /\ pushed.dns_servers # {}

-----------------------------------------------------------------------------
(* What happens on the host when the OpenVPN process ends.                  *)

\* The scripts of dns_script_args: up when the tunnel is opened, down when it is
\* closed, unless the process is killed.
UpScript ==
    IF uses_dns_scripts
    THEN hostDns' = hostDns \cup {"script"} /\ left' = [left EXCEPT !.host = @ \ {"script"}]
    ELSE UNCHANGED host
DownScript == hostDns' = hostDns \ {"script"} /\ UNCHANGED left
NoScript   == /\ left' = [left EXCEPT !.host = @ \cup (hostDns \cap {"script"})]
              /\ UNCHANGED hostDns

TunnelClosed ==
    /\ CloseLinks("own")
    /\ table' = Without("own")
    /\ UNCHANGED <<records, guard, tun, watched, detached, warned>>

-----------------------------------------------------------------------------
(* reconnect_delay, and the end of an attempt.                              *)

Min(a, b) == IF a <= b THEN a ELSE b

\* Mutant: the exponent is the number of the attempt.
ReconnectDelayLate(n) == Min(InitialDelay * 2^Min(n, MaxExponent), MaxDelay)

\* Mutant: the delay is not capped.
ReconnectDelayUncapped(n) == InitialDelay * 2^Min(IF n = 0 THEN 0 ELSE n - 1, MaxExponent)

\* saturating_sub, min, saturating_mul, min.
reconnect_delay(n) ==
    Min(InitialDelay * 2^Min(IF n = 0 THEN 0 ELSE n - 1, MaxExponent), MaxDelay)

start_reconnect_attempt(n) ==
    /\ Goto("sleep") /\ attempt' = n /\ delay' = reconnect_delay(n)

Exits(how) == Goto(how) /\ attempt' = 0 /\ delay' = 0

\* The first connect and a foreground connect report the error and exit; the
\* daemon's tick starts the next attempt (saturating_add).
AttemptFails ==
    IF Daemon /\ attempt > 0 THEN start_reconnect_attempt(Min(attempt + 1, MaxAttempt))
                             ELSE Exits("off")

\* What connect() has learnt of the VPN is dropped with it.
Forget == pushed' = NothingPushed /\ vpnIp' = None

-----------------------------------------------------------------------------
(* VpnClient::connect.                                                      *)

Start ==
    /\ pc \in {"off", "killed"}
    /\ Goto("prepare")
    /\ detached' = {}
    /\ UNCHANGED <<local, pushed, vpnIp, host, reopened, orphan, faults, process, linux,
                   table, watched, warned>>

Wake ==
    /\ pc = "sleep"
    /\ Goto("prepare")
    /\ UNCHANGED <<local, pushed, vpnIp, host, reopened, orphan, faults, process, linux, routing>>

\* Options are checked, stale native DNS is cleaned up (a no-op on Linux), the
\* runtime is deployed, the callback port bound, OpenVpnPrepared made.
Prepare ==
    /\ pc = "prepare"
    /\ hostDns' = IF Linux THEN hostDns ELSE hostDns \ {"scutil"}
    /\ left' = IF Linux THEN left ELSE [left EXCEPT !.host = @ \ {"scutil"}]
    /\ reserve_management_port
    /\ Goto("spawn")
    /\ UNCHANGED <<local, pushed, vpnIp, reopened, orphan, faults, linux, routing>>

\* The cleanup fails, or something after it.
PrepareFails ==
    /\ pc = "prepare"
    /\ \/ UNCHANGED host
       \/ /\ ~Linux
          /\ hostDns' = hostDns \ {"scutil"} /\ left' = [left EXCEPT !.host = @ \ {"scutil"}]
    /\ AttemptFails
    /\ UNCHANGED <<setup, pushed, vpnIp, reopened, orphan, faults, process, linux, routing>>

Spawn ==
    /\ pc = "spawn"
    /\ \/ spawn /\ Goto("dial") /\ UNCHANGED <<attempt, delay>>
       \/ AttemptFails /\ UNCHANGED process
    /\ UNCHANGED <<setup, pushed, vpnIp, host, reopened, orphan, faults, linux, routing>>

\* connect() returns an error and drops the OpenVPN process.
ConnectDrops ==
    /\ AttemptFails /\ DropProcess /\ TunnelClosed /\ NoScript /\ Forget

\* A port nobody listens on is dialled again until the deadline.
Dial ==
    /\ pc = "dial"
    /\ \/ /\ ConnectManagement /\ Goto("auth")
          /\ UNCHANGED <<attempt, delay, pushed, vpnIp, host, linux, routing>>
       \/ port = "free" /\ ConnectDrops
    /\ UNCHANGED <<setup, reopened, orphan, faults>>

\* The password is accepted; an ERROR line, end of file, or ten seconds without
\* an answer.
Authenticate ==
    /\ pc = "auth"
    /\ \/ /\ authenticate /\ Goto("login")
          /\ UNCHANGED <<attempt, delay, pushed, vpnIp, host, linux, routing>>
       \/ ConnectDrops
    /\ UNCHANGED <<setup, reopened, orphan, faults>>

AfterLogin == IF ~NativeDns THEN "session" ELSE IF Linux THEN "lookup" ELSE "scutil"

\* CONNECTED: the two monitors are spawned.
Connected ==
    /\ pc = "login" /\ child = "up"
    /\ spawn_route_monitor(setup.os, pushed.routes)
    /\ vpnIp' = OwnAddr /\ reopened' = FALSE
    /\ Goto(AfterLogin)
    /\ UNCHANGED <<local, pushed, host, orphan, faults, process, linux>>

\* drive_saml_auth returns an error: SIGTERM over the management connection
\* and terminate(); the handle of nothing else exists yet.
LoginFails ==
    /\ pc = "login"
    /\ request_termination /\ Goto("giveUp")
    /\ UNCHANGED <<local, pushed, vpnIp, host, reopened, orphan, faults, linux, routing>>

\* Mutant: the child is waited for without a timeout.
GaveUpUntimed ==
    /\ pc = "giveUp" /\ child = "exited"
    /\ WaitEnds /\ TunnelClosed /\ NoScript /\ Forget /\ AttemptFails
    /\ UNCHANGED <<setup, reopened, orphan, faults>>

\* The child has exited, or is killed after three seconds.
GaveUp ==
    /\ pc = "giveUp"
    /\ WaitEnds /\ TunnelClosed /\ NoScript /\ Forget /\ AttemptFails
    /\ UNCHANGED <<setup, reopened, orphan, faults>>

-----------------------------------------------------------------------------
(* configure_native_dns; its error drops everything connect() holds, but    *)
(* the monitors are only detached.                                          *)

Configuring(step) == pc = step /\ UNCHANGED <<setup, reopened, orphan, faults>>

GoesOn(step) ==
    /\ Goto(step)
    /\ UNCHANGED <<attempt, delay, pushed, vpnIp, process, routing>>

ConfigureFails ==
    /\ AttemptFails /\ DropProcess /\ NoScript /\ Forget
    /\ CloseLinks("own") /\ table' = Without("own")
    /\ DetachMonitor
    /\ TakeGuard /\ UNCHANGED records

\* linux_interface_for_ipv4
Lookup ==
    /\ Configuring("lookup")
    /\ \/ /\ linux_interface_for_ipv4(vpnIp) # {}
          /\ tun' \in linux_interface_for_ipv4(vpnIp)
          /\ GoesOn("setDns")
          /\ UNCHANGED <<host, link, resolved, records, guard>>
       \/ linux_interface_for_ipv4(vpnIp) = {} /\ ConfigureFails

\* `resolvectl dns`; a failure may be a host without systemd-resolved.
ResolvectlDns ==
    /\ Configuring("setDns")
    /\ UNCHANGED host
    /\ \/ SetDns /\ GoesOn("setDomain")
       \/ GoesOn("resolvconf") /\ UNCHANGED linux

\* `resolvectl domain <interface> ~.`
ResolvectlDomain ==
    /\ Configuring("setDomain")
    /\ UNCHANGED host
    /\ \/ SetDomain /\ GoesOn("session")
       \/ GoesOn("revert") /\ UNCHANGED linux

ResolvectlRevert ==
    /\ Configuring("revert")
    /\ Revert /\ GoesOn("resolvconf")
    /\ UNCHANGED host

Resolvconf ==
    /\ Configuring("resolvconf")
    /\ \/ /\ configure_resolvconf /\ GoesOn("session")
          /\ left' = [left EXCEPT !.records = @ \ {tun}] /\ UNCHANGED hostDns
       \/ ConfigureFails

\* macOS: one setting here, which configure_native_dns puts back when it fails.
Scutil ==
    /\ Configuring("scutil")
    /\ \/ /\ hostDns' = hostDns \cup {"scutil"} /\ GoesOn("session")
          /\ left' = [left EXCEPT !.host = @ \ {"scutil"}]
          /\ UNCHANGED linux
       \/ ConfigureFails

-----------------------------------------------------------------------------
(* VpnSession.                                                              *)

\* NativeDnsGuard::restore on either platform.
RestoreDns ==
    /\ TakeGuard /\ Restore
    /\ hostDns' = hostDns \ {"scutil"} /\ UNCHANGED left

\* The command fails and nobody will try again.
Configured == guard.method # None \/ "scutil" \in hostDns \ left.host
RestoreDnsFails ==
    /\ "command_fails" \in Faults /\ faults < MaxFaults /\ faults' = faults + 1
    /\ Configured
    /\ TakeGuard /\ UNCHANGED <<link, resolved, records>>
    /\ left' = [records |-> left.records \cup
                    IF guard.method = "resolvconf" THEN {guard.tun} ELSE {},
                host |-> left.host \cup (hostDns \cap {"scutil"})]
    /\ UNCHANGED hostDns

\* try_wait() in the daemon's tick, wait() in the foreground: the monitors are
\* aborted and DNS is restored.  Only the daemon tries again, and only if the
\* restore worked: `?` leaves its control loop.
Lost ==
    /\ pc = "session" /\ child = "exited"
    /\ Gone /\ Forget
    /\ abort_route_monitor
    /\ \/ /\ RestoreDns /\ UNCHANGED faults
          /\ IF Daemon THEN start_reconnect_attempt(1) ELSE Exits("off")
       \/ RestoreDnsFails /\ Exits("off")
    /\ UNCHANGED <<setup, reopened, orphan, table, detached>>

\* disconnect(), by a request or a signal: terminate() comes first ...
Disconnect ==
    /\ pc = "session"
    /\ request_termination /\ Goto("stop")
    /\ UNCHANGED <<local, pushed, vpnIp, host, reopened, orphan, faults, linux, routing>>

Stopped ==
    /\ pc = "stop"
    /\ WaitEnds /\ TunnelClosed /\ NoScript /\ Goto("restore")
    /\ UNCHANGED <<local, pushed, vpnIp, reopened, orphan, faults>>

\* ... then the monitors are aborted and DNS is restored.
Restored ==
    /\ pc = "restore"
    /\ Forget /\ Exits("off")
    /\ abort_route_monitor
    /\ \/ RestoreDns /\ UNCHANGED faults
       \/ RestoreDnsFails
    /\ UNCHANGED <<setup, reopened, orphan, process, table, detached>>

\* The session is dropped without disconnect(): the daemon leaves its control
\* loop with an error.  OpenVPN is killed, then the guard is dropped.
Drop ==
    /\ pc = "session" /\ Daemon
    /\ DropProcess /\ TunnelClosed /\ NoScript /\ Goto("drop")
    /\ UNCHANGED <<local, pushed, vpnIp, reopened, orphan, faults>>

DropGuard ==
    /\ pc = "drop"
    /\ Forget /\ Exits("off")
    /\ DetachMonitor
    /\ \/ RestoreDns /\ UNCHANGED faults
       \/ RestoreDnsFails
    /\ UNCHANGED <<setup, reopened, orphan, process, table>>

\* The task of a reconnect attempt is aborted at an await, and the daemon ends.
Abort ==
    /\ pc \in {"sleep", "dial", "auth", "login", "giveUp"} /\ Daemon /\ attempt > 0
    /\ Exits("off") /\ DropProcess /\ TunnelClosed /\ NoScript /\ Forget
    /\ UNCHANGED <<setup, reopened, orphan, faults>>

-----------------------------------------------------------------------------
(* OpenVPN, the network, the operator.                                      *)

Fault(f) == f \in Faults /\ faults < MaxFaults /\ faults' = faults + 1

Outside == UNCHANGED <<local, vpnIp, orphan>>

OpenVpnListens ==
    /\ Listen /\ Outside
    /\ UNCHANGED <<pc, pushed, host, reopened, faults, linux, routing>>

PortRace ==
    /\ Fault("port_taken") /\ PortTaken /\ pc \in {"spawn", "dial"} /\ Outside
    /\ UNCHANGED <<pc, pushed, host, reopened, linux, routing>>

\* The push reply, the interface, the routes and the up script come before
\* CONNECTED.  The login keeps the options of the latest reply that has some; after
\* a reconnect of a session there may be others, which nobody takes over.
OpenVpnConnects ==
    /\ Establish /\ Outside
    /\ \E reply \in PushReplies :
          /\ pushed' = IF pc = "login" /\ parse_pushed_options(reply) # Invalid
                       THEN parse_pushed_options(reply) ELSE pushed
          /\ IF Linux THEN OpenLink /\ UNCHANGED table
                      ELSE AddRoutes(Routes(reply)) /\ UNCHANGED <<link, resolved, records>>
    /\ UpScript
    /\ UNCHANGED <<pc, reopened, faults, guard, tun, watched, detached, warned>>

OpenVpnRestarts ==
    /\ Fault("restart") /\ Restart /\ Outside
    /\ TunnelClosed /\ DownScript
    /\ reopened' = (pc # "login")
    /\ UNCHANGED <<pc, pushed>>

OpenVpnExits ==
    /\ Alive /\ Exit /\ TunnelClosed /\ Outside
    /\ \/ child = "term" /\ DownScript /\ UNCHANGED faults
       \/ child # "term" /\ Fault("openvpn_exits") /\ DownScript
       \/ "script" \in hostDns /\ Fault("openvpn_dies") /\ NoScript
    /\ UNCHANGED <<pc, pushed, reopened>>

\* SIGKILL of awsvpn, or a signal before anything handles it: what is running
\* and what is set stays.
Kill ==
    /\ Fault("killed")
    /\ pc \notin {"off", "killed"}
    /\ Exits("killed") /\ Gone /\ Forget
    /\ orphan' = (orphan \/ Alive)
    /\ Abandon /\ AbandonRoutes /\ TakeGuard
    /\ left' = [records |-> left.records \cup records, host |-> left.host \cup hostDns]
    /\ watched' = {} /\ detached' = {} /\ warned' = FALSE
    /\ UNCHANGED <<setup, hostDns, reopened, resolved, records>>

\* Its interface and its routes go with it; the down script may be lost with
\* the temporary directory of the process that is gone.
OrphanEnds ==
    /\ orphan /\ orphan' = FALSE
    /\ CloseLinks("orphan") /\ table' = Without("orphan")
    /\ UNCHANGED <<local, pc, pushed, vpnIp, host, reopened, faults, process,
                   records, guard, tun, watched, detached, warned>>

RoutesDrift ==
    /\ Fault("drift") /\ Drift /\ Outside
    /\ UNCHANGED <<pc, pushed, host, reopened, process, linux>>

MonitorTicks ==
    /\ RouteTick /\ Outside
    /\ UNCHANGED <<pc, pushed, host, reopened, faults, process, linux>>

DetachedMonitorTicks ==
    /\ pc \notin {"off", "killed"} /\ DetachedTick /\ Outside
    /\ UNCHANGED <<pc, pushed, host, reopened, faults, process, linux>>

-----------------------------------------------------------------------------

\* What awsvpn does by itself, timeouts included.
Proceed ==
    \/ Wake \/ Prepare \/ PrepareFails \/ Spawn \/ Dial \/ Authenticate \/ Connected
    \/ GaveUp \/ Lookup \/ ResolvectlDns \/ ResolvectlDomain \/ ResolvectlRevert
    \/ Resolvconf \/ Scutil \/ Lost \/ Stopped \/ Restored \/ DropGuard

Operator == Start \/ LoginFails \/ Disconnect \/ Drop \/ Abort

Environment ==
    \/ OpenVpnListens \/ PortRace \/ OpenVpnConnects \/ OpenVpnRestarts \/ OpenVpnExits
    \/ Kill \/ OrphanEnds \/ RoutesDrift \/ DetachedMonitorTicks

Next == Proceed \/ Operator \/ Environment \/ MonitorTicks

Spec == Init /\ [][Next]_vars

(* Fairness.  A task that is ready runs, and every await of a connect but    *)
(* the one for the login has a timeout; the interval of the monitor ticks,   *)
(* and netstat does not fail for ever.  Nothing is assumed of OpenVPN, of    *)
(* the login or of the operator.                                             *)
FairSpec == Spec /\ WF_vars(Proceed) /\ WF_vars(MonitorTicks)

-----------------------------------------------------------------------------
(* Properties.                                                               *)

\* The login and the session talk to the OpenVPN process that this attempt has
\* spawned, whoever got the reserved port before it (process.rs, management.rs).
OwnManagement ==
    pc \in {"login", "session"} \cup Configure => mgmt = "own" /\ child # "none"

\* While nothing is connected every DNS setting on the host is one that nobody
\* was left to undo: awsvpn or its OpenVPN was killed, or the undo failed; and
\* no interface is half configured but that of an orphan (dns.rs, client.rs).
SettingsAccounted ==
    pc \in {"off", "killed", "sleep", "prepare", "spawn", "dial", "auth"} =>
        /\ records \subseteq left.records /\ hostDns \subseteq left.host
        /\ \A t \in Tuns : resolved[t] # {} => link[t].owner = "orphan"

\* A session for which the endpoint pushed DNS servers uses all of them on its
\* own interface, by whichever of the three ways, whatever failed before; what
\* systemd-resolved holds is lost when OpenVPN opens its interface anew.
ConnectedIsConfigured ==
    pc = "session" /\ child = "up" =>
        /\ uses_dns_scripts => "script" \in hostDns
        /\ NativeDns /\ ~Linux => "scutil" \in hostDns
        /\ NativeDns /\ Linux =>
              \/ guard.method = "resolvconf" /\ guard.tun \in records
              \/ /\ guard.method = "resolved"
                 /\ ~reopened => /\ resolved[guard.tun] = {"dns", "domain"}
                                 /\ link[guard.tun] = [owner |-> "own", addr |-> vpnIp]

\* The route monitor warns only when a route that was pushed has no readable
\* row on a utun device, by the addresses the two cover (client.rs).
WarnedOnlyOfUnseen ==
    [][~warned /\ warned' => \E r \in watched : ~Seen(table, r)]_vars

\* A pushed route that goes missing and stays away is reported, unless the
\* session ends first.
DriftReported ==
    (\E r \in watched : ~Seen(table, r)) ~> (\A r \in watched : Seen(table, r))

\* The first reconnect attempt waits for the initial delay, every later one
\* twice as long as the one before, up to the maximum.
BackoffFollows ==
    [][pc' = "sleep" /\ pc # "sleep" =>
          delay' = IF pc = "session" THEN InitialDelay ELSE Min(2 * delay, MaxDelay)]_vars

\* No connect, and no disconnect, waits for ever for OpenVPN except in the login,
\* even if OpenVPN never answers, or never exits.  That the helper commands of
\* dns.rs and management.shutdown(), which have no timeout, return is assumed.
NeverStuck ==
    LET Busy == (Login \ {"login"}) \cup Configure \cup Ending
    IN  pc \in Busy ~> pc \notin Busy

(* What makes the safety properties inductive.                               *)

\* Where there is an OpenVPN process, and in which state.
ChildHome ==
    /\ child = "none" <=> pc \in {"off", "killed", "sleep", "prepare", "spawn", "restore", "drop"}
    /\ pc \in {"giveUp", "stop"} => child \in {"term", "exited"}
    /\ pc \in {"dial", "auth"} => child \in {"starting", "hold", "exited"}
    /\ pc \in {"login", "session"} \cup Configure => child \in {"login", "up", "exited"}
    /\ OwnManagement

\* Whose the interfaces are: OpenVPN has one while it is connected, with an
\* address of its own, and resolvectl's settings are on open interfaces.
LinkHome ==
    /\ \A t \in Tuns : link[t].owner = None <=> link[t] = NoLink
    /\ \A t \in Tuns : link[t].owner = "own" => child \in {"up", "term"}
    /\ \A t, u \in Tuns : link[t].owner = "own" /\ link[u].owner = "own" => t = u
    /\ \A t, u \in Tuns : link[t].addr = link[u].addr /\ link[t].addr # None => t = u
    /\ child = "up" /\ Linux => \E t \in Tuns : link[t].owner = "own"
    /\ \A t \in Tuns : resolved[t] # {} => link[t].owner # None

\* A record of resolvconf is the guard's, or nobody is there to delete it.
RecordsHome ==
    /\ records \subseteq left.records \cup {t \in Tuns : guard = [method |-> "resolvconf", tun |-> t]}
    /\ guard.method = "resolvconf" => guard.tun \in records

\* While awsvpn has something to undo it is somewhere that leads to the undo.
UndoHome ==
    /\ guard.method # None \/ "scutil" \in hostDns \ left.host
           => pc \in {"session", "stop", "restore", "drop"}
    /\ tun # None => pc \in {"session"} \cup Configure \cup Ending

\* The down script is still to come.
ScriptHome == "script" \in hostDns \ left.host => child \in {"up", "term"}

SettingsHome == RecordsHome /\ UndoHome /\ ScriptHome

\* Which interface the configuration works on, and the guard undoes.
PlaceHome ==
    /\ pc = "scutil" => ~Linux
    /\ pc \in {"lookup", "setDns", "setDomain", "revert", "resolvconf"} => Linux
    /\ pc \in {"setDns", "setDomain", "revert", "resolvconf"} => tun \in Tuns
    /\ guard.method # None => guard.tun = tun /\ tun \in Tuns

\* OpenVPN has run its up script.
ScriptUp == child = "up" /\ uses_dns_scripts => "script" \in hostDns

\* As long as OpenVPN has not made a new connection, the interface is the one
\* it reported, and has what resolvectl was told so far.
TunnelHome ==
    pc \in {"session"} \cup Configure =>
        /\ child = "login" => reopened
        /\ child = "up" /\ ~reopened /\ Linux =>
              /\ \E t \in Tuns : link[t] = [owner |-> "own", addr |-> vpnIp]
              /\ tun # None => link[tun] = [owner |-> "own", addr |-> vpnIp]
              /\ pc = "setDomain" => "dns" \in resolved[tun]
              /\ guard.method = "resolved" => resolved[tun] = {"dns", "domain"}

\* A session with native DNS has something to undo.
SessionHome ==
    pc = "session" /\ NativeDns =>
        IF Linux THEN guard.method # None ELSE "scutil" \in hostDns

ConfiguredHome == PlaceHome /\ ScriptUp /\ TunnelHome /\ SessionHome

\* The delay of an attempt is that of its number.
BackoffHome ==
    /\ attempt > 0 => Daemon /\ delay = reconnect_delay(attempt)
    /\ pc = "sleep" => attempt > 0

IInv == TypeOK /\ ChildHome /\ LinkHome /\ SettingsHome /\ ConfiguredHome /\ BackoffHome

-----------------------------------------------------------------------------
(* The promise of TunnelService, kept by the one process "awsvpn".           *)

Phase ==
    CASE pc = "off" -> "off"
      [] pc = "killed" -> "crashed"
      [] pc \in {"sleep"} \cup Login \cup Configure -> "connecting"
      [] pc = "session" -> "up"
      [] OTHER -> "stopping"

OpenVpnNow == IF ~Alive THEN child
              ELSE IF child = "up" \/ pc \notin Login THEN "up" ELSE "starting"

phase    == [p \in {"awsvpn"} |-> Phase]
openvpn  == [p \in {"awsvpn"} |-> OpenVpnNow]
orphaned == [p \in {"awsvpn"} |-> orphan]

Service == INSTANCE TunnelService WITH Procs <- {"awsvpn"}

\* The whole life of the session, its faults included, is one that
\* TunnelService allows.
ImplementsService == Service!Spec

=============================================================================
