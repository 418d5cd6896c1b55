# Verification of awsvpn

TLA+ models of `awsvpn`, an unofficial command-line client for AWS Client VPN
with SAML login, their TLC instances, and machine-checked proofs about them.
All paths below are relative to the repository root; the Rust sources are in
`src/`.

## 1. The system

`awsvpn connect` spawns a detached copy of itself (`daemon-run`), which takes
over a control socket, runs one OpenVPN child, answers OpenVPN's login prompts
with a SAML assertion it receives from the browser, configures DNS and then
stays in a control loop. `status`, `disconnect` and `reconnect` are short-lived
processes that send the daemon one line over the socket. `connect --foreground`
does the same without a daemon.

| Component | Source | State it keeps | Operations | What is hard | What makes it correct |
| --- | --- | --- | --- | --- | --- |
| Daemon control | `main.rs`, `daemon.rs` | socket path, state file, `session`, `reconnect` | bind, accept, status, disconnect, tick, signal, cleanup | several processes share two paths without a lock; one `select!` loop serves requests, ticks and signals; clients and daemons die between steps | nobody takes the path from a running daemon; a DISCONNECTED reply means the session is down; every request is answered; a lost session is reconnected |
| VPN session | `client.rs`, `openvpn/process.rs` | child, monitor task, DNS guard, VPN address | connect, try_wait, wait, disconnect, drop | connect is a task that `abort()` cancels at its next await, not before; the monitor keeps the callback port | OpenVPN never outlives its session; at most one login at a time |
| SAML flow | `saml/flow.rs`, `openvpn/management.rs` | pending response, URL, routes, DNS servers | one handler per management event | prompts, challenges, duplicates and reconnects interleave; a response must reach the prompt it was made for | no response is used for another challenge; every prompt is answered |
| Callback server | `saml/acs.rs` | one bound listener | bind, receive_once | the listener outlives a login; only one connection at a time | a refused request does not end a login, a late assertion is not replayed |
| Native DNS, macOS | `dns.rs` | scutil keys, a guard, a monitor thread, a proxy | configure, restore, monitor, stale cleanup | commands fail half way; another process cleans up | the original DNS settings are always recoverable and are restored |
| Native DNS, Linux | `dns.rs` | settings of an interface, resolvconf records, a guard | configure, revert, restore | two commands that are one setting; the interface closes or is opened anew meanwhile | a session uses all the pushed servers or fails; nothing is left that somebody could undo |
| Route monitor | `client.rs` | the pushed routes it looks for | spawn, tick, abort | netstat leaves out zero parts and prefixes; other utun devices; a detached monitor | no false warning; a route that stays away is reported |
| Parsers and arithmetic | `openvpn/parser.rs`, `client.rs`, `main.rs` | the number of a reconnect attempt | parse, prefix_mask, reconnect_delay | boundaries | result equals a reference definition |
| OpenVPN launch | `openvpn/process.rs`, `openvpn/management.rs`, `openvpn/command.rs`, `config/ovpn.rs` | temporary directory, child, port | prepare, spawn, dial, authenticate, terminate | a port is reserved and released before OpenVPN binds it; a child that does not end | the login is with the child that was spawned; no wait is for ever |
| Runtime, diagnostics, redaction | `runtime.rs`, `diagnose.rs`, `logredact/mod.rs` | none | deploy, collect, redact | | file and text handling |

Interaction: the CLI talks to the daemon over the Unix socket; the daemon owns a
`VpnSession` or a task that is making one; the session's monitor task owns the
management socket and the callback port after the login; DNS is host state
which every process, CLI commands included, may change.

`PROJECT.json` lists the components with their status and the hazards, each
with the line where it bites and the properties that watch it.

## 2. Plan

Done, in this order:

1. `DaemonControl`: takeover of the socket, control loop, connect task,
   monitor, signals, CLI commands, and proofs about it.
2. `SamlFlow`: management events against an OpenVPN that retries logins, with
   the callback server's listener and backlog, and proofs about it.
3. `MacosDns`: scutil keys, guard, monitor thread, the cleanup of other
   processes, and proofs about it.
4. `TunnelService`: an abstract specification of what a process promises about
   its OpenVPN process. `DaemonControl` implements it for every daemon,
   `VpnSession` for one process; both are checked and proved.
5. `VpnSession`, composed of `OpenVpnProcess`, `LinuxDns` and `RouteMonitor`:
   connect() and the end of a session one await and one command at a time, the
   backoff; `RouteTable` has the arithmetic of routes. Proofs about all of it.

All of their invariants and action properties are proved. Left:
the DNS proxy's forwarding; log redaction.

## 3. Modules

### DaemonControl

Models `main.rs`, `daemon.rs` and, in phases, `client.rs` and
`openvpn/process.rs`. `Daemons` are the `daemon-run` processes, each started at
most once, `Clients` the processes of the other commands, reusable. `Faults` is
the set of things the environment of an instance may do; every member is
explained where `AllFaults` is defined.

| Variables | Code |
| --- | --- |
| `pc` | where `run_daemon_runner` is: the steps of `ControlServer::bind`, the first connect, the control loop and its handlers, `paths.cleanup()` |
| `socket`, `stateFile` | the daemon that made the file at the path, or `None` |
| `session`, `attempt` | the two locals of the control loop: `session` and the task of `reconnect` (the first connect has the same phases) |
| `tunnel`, `monitor`, `dns`, `acs` | the OpenVPN child, the reconnect monitor, the DNS guard's effect, the owner of the callback port |
| `sig` | a signal that is ready and not handled yet; one that was dropped leaves no trace |
| `backlog`, `serving`, `link`, `target` | connections to a listener; the one being served; what each peer has sent and received |
| `parent`, `cpc`, `kind` | the `connect` parent, and the CLI processes |

A step of the model is what happens between two points where another process or
task can be observed: each system call on a shared file or socket during bind,
each `await` of a handler, each branch of `select!`. `remove_file` of the socket
and of the state file are separate steps.

`AbortAttempt` is `attempt.task.abort()`, which only marks the task. A task that
waits (`"sleep"`, `"login"`) becomes `"aborted"`, keeps what it had and is
dropped later (`AttemptCancelled`). One that another worker thread is polling
runs on: from the end of the sleep to the spawn (`client.rs:178-201`) and from
the end of the login to the return (`client.rs:238-272`) there is nothing it
waits for, so it may spawn OpenVPN (`SpawnOpenVpn`), finish its login or set the
host's DNS (`ConfigureDns`) after the daemon has replied DISCONNECTED. A task
that finishes behind its abort is dropped with its session (`DropSession`).

What happens at the end of a process depends on how it ends. After a normal
return `main` drops the runtime, which waits for every task to be dropped:
`pc = "drain"` until `Drained`, so what a late task did is undone before the
process ends. `ErrorExit` goes through `std::process::exit(1)`: the locals are
dropped, a connect task still under way is not (`InFlight`), and its OpenVPN and
its DNS settings stay. `Crash` runs nothing.

Abstractions: DNS is one Boolean per daemon; the contents of replies and of the
state file are left out; a
failure of `accept()` itself is left out; `terminate()` always ends the child
(SIGTERM, then SIGKILL); a user who speaks to the socket without `awsvpn` is
left out. The number and the delay of an attempt are in
`VpnSession`.

Mutants, small wrong variants of an operator, stand before the operator they
vary and are marked `Mutant`; they are not part of the specification.

### MC_DaemonControl

The instance for TLC; it only adds the symmetry set. Symmetry is used in runs
without liveness properties.

### TunnelService, DaemonService

`TunnelService` is the promise, without sockets, logins, DNS or timeouts: per
process a `phase` (off, connecting, up, stopping, cancelling, draining, closing,
crashed),
its OpenVPN process (none, starting, up, exited), and whether one has outlived
it. It says that OpenVPN is spawned only while connecting and never beside
another, that a session is up only over an OpenVPN that has connected, that a
lost session leads to another attempt or to the end, that a session being
stopped is not followed by a new one, that a connect which was cancelled may
still spawn or connect OpenVPN but never becomes a session and is waited for,
and that only a crash, or an error in the middle of a connect, leaves an OpenVPN
process behind. It is a specification of its own and models no line of
the code. `DaemonService` has the refinement mapping from `DaemonControl`: a
daemon's phase is read off its control point and its two locals, `session` and
`attempt`. Between the abort of a connect and its end the phase is "cancelling"
until the client is answered, when an error can still end the process and leave
OpenVPN, and "draining" after it, when nothing but a crash can: this is why a
DISCONNECTED reply may precede not only the end of OpenVPN but its start.

### The proof modules

`DaemonControl_proofs`, `DaemonTakeover_proofs`, `DaemonService_proofs`,
`SamlFlow_proofs`, `SamlLogin_proofs`, `MacosDns_proofs`, `RouteTable_proofs`
and `VpnSession_proofs`: see section 6.

### SamlFlow, MC_SamlFlow

Models `saml/flow.rs`, `saml/acs.rs` and the part of `client.rs` and
`openvpn/management.rs` they work with. `DaemonControl` sees a login as one
phase of a connect and the monitor as a task; `SamlFlow` is what happens in the
two.

| Variables | Code |
| --- | --- |
| `phase` | who reads the management socket: `drive_saml_auth` ("login"), `monitor_reconnects` ("session"), nobody ("failed", "stopped") |
| `waiting` | the challenge for which the handler is inside `receive_once` |
| `active`, `response`, `options` | the fields of `SamlFlowState` |
| `configured`, `vpnIp` | what DNS and routes were configured from, and `VpnSession.vpn_ip` |
| `events`, `cmds` | the two directions of the management socket |
| `backlog` | connections of the bound listener, in the order `accept` returns them |
| `ovpn`, `kept`, `cred`, `issued`, `accepted`, `connection` | OpenVPN and the server (external) |
| `pages` | login pages open in the browser (external) |
| `answered`, `spent`, `bare`, `breaks`, `extra`, `trouble` | history and bounds: what was answered, what a connection has settled, which connections pushed no option, how much the environment has done |

Each alternative of `handle_saml_management_event` is an action; the challenge
is three (`IgnoreDuplicate`, `OpenPage`, `ReceiveAssertion`), because the
handler blocks in `receive_once` in between while OpenVPN, the browser and the
queues go on. `Return` is the end of the login (OpenVPN is terminated, the
listener closed) or of the monitor (OpenVPN runs on, nobody answers it).

OpenVPN is modelled from how the code and its tests use it: it holds after an
auth-failure restart because it is started with `--management-hold`, and asks
again in every connection because of `--auth-nocache` (`openvpn/process.rs`);
a challenge is a `PASSWORD` line or a `LOG` line, once or twice, with or without
a reconnect after it; the response may be used at once, kept for the next
connection or dropped in favour of a new prompt (the four flows in the tests of
`saml/flow.rs`). The server accepts the response to its latest challenge and
refuses every other.

Abstractions: a state id, its login page and the assertion it leads to are one
number; username and password are one credential; the commands that turn
notifications on are part of the release; DNS servers and routes are the number
of the connection that pushed them, and 0 for a push reply that names neither
(`"bare_push"`), which `parse_pushed_options` takes for none, so that `Capture`
leaves the options of an earlier connection in place; log lines and events for
the user are left out; `BrowserMode::Disabled` is a user who opens the printed
page himself; an error in reading from or writing to the management socket
happens only when OpenVPN has exited; the process of HTTP parsing is its
outcome: an assertion, a request that is not `POST /`, one that is refused, a
connection that has not sent anything yet.

### MacosDns, MC_MacosDns

Models the macOS half of `dns.rs` and the places in `client.rs` and `main.rs`
that call it. `DaemonControl` sees DNS as one Boolean of a session; here several
processes work on the keys of one host, which outlive them.

| Variables | Code |
| --- | --- |
| `primary`, `dns` | `PrimaryService` of `State:/Network/Global/IPv4` and the DNS key of each service; `Local` is `ServerAddresses 127.0.0.1` |
| `root`, `saved` | `State:/Network/awsvpn` and its `OldDNSState` |
| `port` | who listens on 127.0.0.1:53: the proxy of a process, or another resolver |
| `pc`, `job`, `service`, `had` | where a process is between two runs of `scutil`, who called `restore_macos_system_dns`, and its locals |
| `monitor` | the thread of `MacosDnsMonitor` and the service it was started for |
| `net` | what the network would have each service use (external) |
| `faults`, `trouble`, `changed` | bound and history: how often the environment interfered; a process was killed or `scutil` failed and no cleanup has succeeded since; the network changed a key in use |

One run of `scutil` is one step: `run_scutil` writes the whole script before it
waits, and a script either runs or is not started. Between two runs anything can
happen, which is where the hazards are: `configure_native_dns` reads the primary
service, then whether it has a key, then saves and sets it; a cleanup reads the
root twice and then writes. `get OldDNSState` of a key that is missing leaves
what was there. `cleanup_stale_native_dns` at the start of `connect` and in
`disconnect` is `Start`; the cleanup inside `configure_native_dns` and the one in
the guard's `restore` are the same steps with another `job`.

Abstractions: the two keys of AWS's own client and the cache flush are left out;
the proxy's two sockets are one port; a configuration that pushes no DNS server
is a login that fails before DNS; the network never chooses 127.0.0.1 itself. A
root without a service is not distinguished from no root, as the code writes
both in one script.

### VpnSession, MC_VpnSession

One process, daemon or foreground, on Linux or macOS, that runs
`VpnClient::connect`, has a `VpnSession` and ends it, again and again. Where
`DaemonControl` has one phase, `VpnSession` has every await and every command.

| Variables | Code |
| --- | --- |
| `setup` | the platform, daemon or foreground, `--dns`, whether `client.up` and `client.down` lie beside the OpenVPN binary |
| `pc` | where `connect()`, the session or its end is |
| `attempt`, `delay` | `ReconnectAttempt.attempt` and what `reconnect_delay` returned for it; 0 for a first connect |
| `pushed`, `vpnIp` | `SamlAuthOutcome` |
| `hostDns` | what scutil (macOS) and OpenVPN's up script (Linux) have set |
| `left` | history: settings whose undo failed, or whose process was killed |
| `reopened`, `orphan`, `faults` | history and bound: OpenVPN has reconnected since; an OpenVPN outlives a killed awsvpn; how often the environment interfered |

Every `return Err` and `?` of `connect()` is an alternative of its step, and
drops what the code has by then: before the login the OpenVPN process
(`ConnectDrops`), after it the two monitors as well, which are detached and not
aborted (`ConfigureFails`). A failed login is `terminate()`, one step for the
SIGTERM and one for the wait (`LoginFails`, `GaveUp`); so is a disconnect
(`Disconnect`, `Stopped`, `Restored`). `Drop` and `DropGuard` are a session
dropped by an error of the control loop: fields are dropped in the order they
are declared, OpenVPN first. `Lost` is `try_wait` in the daemon's tick and
`wait` in the foreground; the first one starts attempt 1.

It EXTENDS three components with variables and actions of their own:

- `OpenVpnProcess` (`openvpn/process.rs`, `openvpn/management.rs`): `child`,
  `port` and `mgmt`. `reserve_management_port` leaves the port free; until
  OpenVPN binds it somebody else may (`PortTaken`), and OpenVPN then exits.
  `ConnectManagement` takes whoever listens; what authenticates is OpenVPN, as
  no other program answers the password with SUCCESS.
- `LinuxDns` (`dns.rs`): `link` (the interfaces and who opened them),
  `resolved`, `records`, `guard`, `tun`. The two commands of
  `configure_systemd_resolved`, the revert between them and resolvconf are
  steps; OpenVPN may restart or exit between any two. What resolvectl has set
  goes with the interface; a record of resolvconf stays.
- `RouteMonitor` (`client.rs`): `table` (the kernel's routes), `watched`,
  `detached`, `warned`. It uses `RouteTable`, where an address or a netmask is
  the set of its one bits, a push reply a sequence of options and a row of
  netstat a record: parts that are printed, prefix if it is printed, device.
  `prefix_mask`, `netmask_prefix`, `pushed_route_key` and the parsers of a row
  are the code's; `Covers` and `Seen` are the reference, by sets of addresses.

Abstractions: the login is one step (`SamlFlow`), the DNS of macOS one setting
(`MacosDns`), the control socket is left out (`DaemonControl`); which DNS
servers are set is left out, that there are some is not; two interfaces are
never open with one address (the VPN does not give out an orphan's), and a
killed process's interface name is used again only after the interface has gone.
A reconnect may push other routes and servers; the route monitor goes on with
the first ones, as in the code. A `resolvectl revert` that no longer finds the
interface is a success (`is_resolvectl_missing_interface_error`).

## 4. Runs

| Run | Instance | What it shows |
| --- | --- | --- |
| `takeover` | 2 daemons, 1 client, the faults of daemons and clients: deaths, signals, lost OpenVPN processes | type correctness, the inductive invariant, socket ownership, tunnel control, exclusive login, what DISCONNECTED means, the loop's job, the port's user |
| `concurrent` | 2 daemons in bind() at once, 1 client, deaths | a DISCONNECTED reply keeps its meaning when daemons start at the same time; every request, a duplicate daemon's STATUS included, is answered or sees end of file |
| `liveness` | 1 daemon, 1 client, every fault, failing files and DNS restores included | the daemon implements `TunnelService`, a disconnect ends the daemon, a lost session is reconnected, OpenVPN ends after DISCONNECTED |
| `saml_flow` | one login, up to 3 losses, refusals or demanded logins, 1 other request, every fault but a resubmitted assertion | responses reach the challenge they were made for, no challenge is answered twice, no response is sent after its connection, only trouble ends a login, the address is the current connection's, and so are DNS and routes unless it pushed none, nobody is left waiting |
| `macos_dns` | 2 processes, 2 services, 2 settings, up to 4 faults, processes one after the other | the keys hold all that a cleanup needs at every moment, no dead resolver while nothing failed, a cleanup restores, the monitor repairs, the inductive invariant |
| `vpn_session` | 5 platforms and option sets, 3 push replies, 2 interfaces, 2 addresses, up to 2 faults | the inductive invariant; the login talks to its own OpenVPN; what is left configured and why; a session has the DNS it was pushed; it implements `TunnelService`; the route monitor's warnings are true and come; the backoff; no wait for OpenVPN but the login can last for ever |
| `doc_duplicate_socket` | 3 daemons | violation: a duplicate takes the path of a daemon with a session |
| `doc_stale_socket` | 2 daemons, 1 client, SIGKILL | violation: `reconnect` gives up on a stale socket |
| `doc_sigterm` | 1 daemon, 1 client, SIGTERM | violation: a signal can be lost |
| `doc_ctrl_c` | 2 daemons, Ctrl-C | violation: OpenVPN and the socket survive a cancelled start |
| `doc_stale_assertion` | two logins, one assertion posted twice | violation: the second copy answers the challenge of the next login |
| `doc_dns_restored` | 2 processes at once | violation: after a session whose saved settings another process removed, DNS stays on 127.0.0.1 |

Bounds: in the runs of `DaemonControl` the only bounds are the sizes of `Daemons` and `Clients` and that a
daemon is started once. A takeover needs two daemons, the race of
`doc_duplicate_socket` three (one that died and left the socket, and two that
find it). One client is reused for any number of commands, so a sequence of
requests is covered; two clients at once only queue, and a duplicate daemon's
STATUS already competes with the client in the queue. Nothing else is bounded:
reconnect attempts, requests and logins go on for ever.

`doc_duplicate_socket` has no client and turns the deadlock check off: every
process may have ended. In the other runs of `DaemonControl` a client can always
start a command, and in `vpn_session` the operator a connect.

In `saml_flow`, `MaxBreaks` bounds the connections that are lost and the logins
that are refused or demanded: three are enough for a loss during a login, a new
login after the connection and a loss during that one, and every earlier
response is then a candidate for the wrong challenge. `MaxExtra` bounds the
requests no login page was opened for; one is enough to be in front of, between
or behind the others. Challenges are not bounded by themselves: each new one
needs a login that was lost. The theorems hold for every value of both. The flow
may end, so the deadlock check is off. `Mild` and `Harsh` split the faults into
those that must not end a login and those that may; `trouble` records that one
of the latter has happened. Push replies may or may not name an option, in every
connection (`"bare_push"`): three connections are enough for options that are
kept over two bare ones.

In `macos_dns`, two services are needed for a primary service that switches, two
settings for a saved value that is not the current one, and two processes for a
proxy that is still bound when another process cleans up; commands and sessions
of a process repeat for ever. `MaxFaults` bounds kills, failures of `scutil`,
drifts, switches and resolvers together; four are enough for a kill, a failed
cleanup after it and a drift or a switch on the way. Processes run one after the
other (`"overlap" \notin Faults`), because `doc_dns_restored` shows that the
properties fail otherwise. `Recoverable` and what follows from it speak of a
network that keeps its settings while they are in use (`~changed`): the code
restores what it saved, whatever the network wants by then. `ResolverAnswers`
and `RestoredWhenDone` do not speak of the time after a kill or a failure until
a cleanup succeeds (`~trouble`); `Recoverable` does.

In `vpn_session`, two interfaces are needed for a session beside an orphan's, two
addresses likewise, and two faults for one that follows from another: a failed
undo after a loss, a kill after a failed undo, a drift after a reconnect. Faults
are bounded, sessions and attempts are not. A part of an address has one bit
(`PartBits`), so a word has four: enough for a prefix inside and at the end of a
part, 0 and the whole width. The push replies have a network, a host, a second
copy of a server, words that do not parse, nothing at all, and a route to
everything whose network has bits behind its netmask. The backoff is scaled:
2, 7, exponent 2 and 4 attempts stand for 2 s, 60 s, 5 and `u32::MAX`; the cap
is not a power of two times the start in either, and the attempt number is past
the exponent and at its own limit. `IInv` says that the delay of an attempt is
that of its number, with its caps; the theorems are for every value with
`InitialDelay * 2^MaxExponent >= MaxDelay`, which the code's constants satisfy
(2 * 32 >= 60).

## 5. Fairness

`FairSpec` assumes weak fairness of a daemon's own steps (bind, startup,
handlers, cleanup), of its connect and monitor tasks and of the signal branch:
Tokio polls a task that is ready. The tick and the accept branch get strong
fairness: `select!` starts polling at a random branch, so a branch that is
ready again and again is taken eventually, while an iteration another branch
wins disables them for a moment. Every await of a connect but one is under a
timeout or ends with the child. The exception is the login: `drive_saml_auth`
reads management events without a limit, and only the wait for the browser
inside it has one. That OpenVPN, the server and the user end a login some day is
therefore an assumption about them, which `RequestAnswered` and
`DisconnectStops` need: a daemon in its first connect answers nobody. A client
that has sent a request reads the reply. Nothing is assumed of signals, of
OpenVPN staying up, or of faults stopping.

`FairSpec` of `VpnSession`: awsvpn takes its next step (`Proceed`: a task that
is ready runs, and the dial, the authentication and both waits for OpenVPN have
a timeout), and the route monitor's interval ticks, with a netstat that does
not fail for ever. The commands of `dns.rs` (704-986: `ip`, `resolvectl`,
`resolvconf`) and the write of `management.shutdown()` have no timeout in the
code; that they return is an assumption about the host. Nothing is assumed of
OpenVPN, which may never listen, connect or exit, nor of the login, which is why
`NeverStuck` leaves it out.

`FairSpec` of `SamlFlow`: the task that reads the management socket is polled;
OpenVPN and the server take their next step; a user with a login page posts the
assertion, and an idle connection to the listener is closed by its peer (when
the user does not come back, `time::timeout` in `receive_once` ends the login:
`saml_timeout`). Nothing is assumed of losses, refusals and other requests.

`FairSpec` of `MacosDns`: a process and its monitor thread go on. The monitor
wakes every five seconds for as long as it is not told to stop. Nothing is
assumed of the network, of users, or of sessions ending.

## 6. Proofs

`DaemonControl_proofs` proves `TypeCorrect`, variable group by variable group,
for any sets of daemons and clients and any `Faults`.

`DaemonTakeover_proofs` proves the rest. `IInv` is the inductive invariant:

- `ReachableDaemon` (a bound daemon's file is at the path) is not inductive by
  itself: a process that is about to unlink or bind must be known to be alone.
  That is `TakeoverIsSafe`, and it needs `SerialBind`, at most one process in
  `bind()`, which holds when `"concurrent_starts" \notin Faults`. The run
  `doc_duplicate_socket` shows the assumption cannot be dropped. `FileOwner`
  says whose file can be at the path at all.
- `TaskHome` ties a connect task and an OpenVPN process to the control points
  at which they can be: behind the control loop there is an OpenVPN process only
  while an aborted task is under way. `PortHome` ties the callback port to a
  task.
- `ReplyInv` says what a reply means. `QueueHome`: a connection is in one place,
  the backlog of the daemon it leads to or that daemon's hands, and its client
  waits for it. `LinkHome`: a process that has not dialled has no connection.
  `DnsHome`: DNS settings belong to a session or to a connect that is done, an
  aborted one included. `DownHome`: a client that has read DISCONNECTED leads to
  a daemon that never goes back to work, and when that daemon has ended there is
  no OpenVPN process and, unless restoring failed, no DNS setting of it.

The socket part is proved from `SocketStep`, a summary of what any step may do
to `pc` and `socket`: `NextIsSocketStep` shows once that every action is one,
and the four invariants are proved from the summary alone. From `IInv` follow
`DaemonStaysReachable`, `SocketIsOwned` and `TunnelStaysUnderControl`.
`LoginIsExclusive`, `LoopKeepsOneJob` and `PortKeepsUser` need only `TaskHome`
and `PortHome` and hold for all faults, concurrent starts included. So does
`RepliedIsDown`, which is `DisconnectedIsDown`. The reply does not say that
OpenVPN and the DNS settings have gone, which the code does not guarantee; it
says that there is no session, that what is there belongs to an aborted connect
task, and that the end of the daemon leaves nothing. The proof needs that a
daemon which has replied DISCONNECTED cannot leave through `process::exit`:
`QueueHome` makes the connection that is answered the one of the client that
asked, and `Relinks`, what a step of a daemon may do to a connection, leaves the
clients to be looked at one by one. `InvHolds` puts the parts together.

`DaemonService_proofs` proves `DaemonsImplementService`, again from a summary:
`ServiceStep` lists what a step may do to one daemon's control point, session,
connect task and OpenVPN process, one lemma shows that every action is such a
step of one daemon, and another that each entry of the list is a step of
`TunnelService` or none. What it needs of the state is `TaskHome` and
`ServiceInv`: a connect task that is past its login has an OpenVPN that has
connected, an aborted one included. The steps of a task that runs on behind its
abort are the service's `Spawn`, `Establish` and `Close` in the phases
"cancelling" and "draining". It holds for all faults.

`VpnSession_proofs` is about one process, in the same manner. The inductive
invariant has, besides the types:

- `ChildHome`: at which points there is an OpenVPN process, in which state. It
  contains `OwnManagement`: a port that somebody else has is a port OpenVPN
  could not bind, so whoever is authenticated is the child.
- `LinkHome`: OpenVPN has one interface while it is connected, no two interfaces
  have one address, and settings are on open interfaces only.
- `SettingsHome`: a record or a setting belongs to the guard, or to OpenVPN and
  its down script, or is in `left`; and while there is something to undo, `pc`
  is on a way to the undo. From this follows `SettingsAreAccounted`.
- `ConfiguredHome`: what the configuration has done so far at each of its steps,
  as long as OpenVPN has not reconnected. From this follows
  `SessionsAreConfigured`.
- `BackoffHome`: the delay is that of the attempt's number. With `NextDelay`, a
  fact about `reconnect_delay` alone (the exponent below its cap, at it, past
  it), it gives `BackoffIsExponential`.

`SessionImplementsService` has one lemma on what a step does to `pc`, `child`
and `orphan` (`StepMoves`) and one that such a move is a step of the service.
`WarningsAreOfUnseen` needs no invariant but the types: it rests on
`RouteTable_proofs`.

`RouteTable_proofs` is about masks of any width. `MaskRoundTrip`: a prefix
survives the way to a mask and back, the two ends included. `SeenIsPresent`: a
route that a readable row covers is found by its key. The code's loop over
leading ones is a CHOOSE of their number; that there is such a number is the
least-number principle, which the prover has as `WFMin` over the natural numbers
(its induction rules take an operator and cannot be used).

`SamlFlow_proofs` is about the order in which things are reported. `OrderOK` is
inductive: challenges stand in the queue in the order the server made them
(`LinesOK`), the answered ones are not later than any that is still to be read
(`AnswersOK`), and the only answered one that can be read again is the active
one, and only while no connection was reported in between. The last part is why
`handle_saml_management_event` may forget the response at `Connected`: without
it a late duplicate would open the browser again. New lines are appended in one
lemma (`LinesEmitted`), lines are taken in another (`LinesHandled`), and each
action is then one of the two. From it follow `BrowserOpensOnce` and
`ResponseIsForgotten`, with every fault. `ListenerOK` adds that the pages and
the backlog hold one assertion at most, the awaited one; it needs
`"resubmit" \notin Faults`, and `doc_stale_assertion` shows why.
`AssertionsMatch` carries that through the command queue and OpenVPN's
credentials.

`SamlLogin_proofs` goes on to what a login leads to, with every fault.
`AddressOK` is about the reports of a connection: the push reply and the
Connected event stand in the queue in the order of the connections and none is
older than what the flow has stored (`InOrder`); an OpenVPN that is up has said
so, or the address is stored (`AddressComes`); a Connected event that the login
has yet to read has in front of it, or stored, the newest options up to its
connection (`OptionsCome`): its own, or, when its push reply named none, those
of the last connection that named any (`UpToDate`). The last part is what an
earlier connection, lost after its push reply, could break. From it follow
`AddressStaysCurrent` and `OptionsAreOfConnection`. That options of a lost
connection are configured when the later push replies were bare is what the code
does (`flow.rs:155`, `parser.rs:178`), and the property says so.

`OnlyTroubleEnds` is `CooperativeLoginHolds`, and the hardest: that no order of
duplicates, other requests, lost connections and new logins makes the handler
return an error. `Ended => trouble` says nothing of why, so `TurnOK` does: as
long as there is no trouble, the flow and OpenVPN take turns. The latest
challenge is open until it is answered, and then its response is the only
command under way and has not been accepted before (`CommandsCalm`, so the
server never refuses it); a prompt or an auth-failure in the queue is the last
line, and OpenVPN waits for its answer (`LinesCalm`); in the login an
auth-failure is only ever read when a challenge or a connection was reported
before it, so that `MayReconnect` holds (`LoginCalm`); an open challenge is
waited for or still to be read, and nothing else is under way (`FlowCalm`). Each
action has a lemma that it keeps these parts; `CalmAnswered` needs `ListenerOK`,
`CalmStart` needs `AddressOK`, and `CalmGoesOn` is that the steps which would
break them cannot be taken. `InvHolds` is the whole of `IInv`.

`MacosDns_proofs` needs `"overlap" \notin Faults` for all but the types. `Alone`,
one process at work, is proved from `ProcStep`, what a step of a process may do
to where the processes are. Then only the process that takes the step has to be
looked at (`OnlyOneAtWork`). `KeysOK` is what the keys hold, and `ProcOK` what
makes it inductive: that what a process has read in one run of `scutil` (no root,
the service of the root, whether there are settings to save) still holds when it
writes in a later one. Both are about a network that keeps its settings; most
steps leave the keys alone (`QuietStepNext`), three write them
(`WritingStepNext`). `RootHome` says that a root outlives the process it belongs
to only in trouble, which gives `DnsIsRestored` and, with the owner of the port
in it, `ResolverIsThere`.

The only assumptions on the constants are `DaemonControlAssumption`,
`SamlFlowAssumption`, `MacosDnsAssumption`, `RouteTableAssumption`,
`VpnSessionAssumption` and `ShiftAssumption`. The last one is a fact about `^`,
which the prover does not know (2^0 = 1 and 2^(k+1) = 2 * 2^k up to
`MaxExponent`); TLC evaluates it.

Only model-checked: the liveness properties (`RequestAnswered`,
`DisconnectStops`, `KeepsReconnecting`, `DisconnectedEndsOpenVpn`,
`NeverLeftWaiting`, `DriftRepaired`, `DriftReported` and `NeverStuck`), because
the prover has no fairness reasoning.

## 7. What the models disagree with

Four sentences of `rust-library-cli-implementation-plan.md` (lines 1154-1157)
are not true of the code; the `doc_*` runs have the counterexamples and the
findings in `PROJECT.json` say what happens.

Lines 601 and 883 say that the callback server stops after one valid assertion.
It stays bound for the reconnect monitor, and a second copy of an assertion
waits in its backlog for the next login (`doc_stale_assertion`). The server
refuses the response, which ends the monitor: the user logs in again by hand.

`README.md:87` says that the DNS state is restored when the VPN disconnects. It
is not when another `awsvpn` process has cleaned up during the session, for
example an `awsvpn disconnect` beside a foreground session, which finds no
daemon and cleans up: the saved settings are gone, the monitor of the session
sets 127.0.0.1 again, and the session's own proxy answers the probe that decides
whether the setting is stale (`doc_dns_restored`). The next cleanup, with no
proxy running, removes the key and leaves the service without its settings.

One more way in which line 1154 fails has no run of its own: the control loop
returns when a STATUS request cannot be read or answered, so a duplicate connect
that is cancelled between its request and the reply ends the daemon with the
session (`main.rs:474`; `ServeStatus`, `ServeNothing` and `ErrorExit` in
`DaemonControl`).

`sudo awsvpn disconnect` "terminates OpenVPN and restores DNS" (line 1153) has a
corner, too: with a reconnect attempt in flight the reply does not wait for it.
When the reply is read, the daemon still waits for the attempt to end. When the
client is interrupted before it can be written, the daemon leaves through
`process::exit` (`main.rs:500`, `main.rs:113`), and an OpenVPN, or DNS settings,
of the attempt stay. `ReplyDisconnected` with `ErrorExit` is that step, and
`Fail` of `TunnelService` is where the service allows for it; `DisconnectedIsDown`
speaks of clients that were answered.

`docs/reliability.md:42-44` says that a warning is emitted when routes
disappear. It is, as an event and as a log line; in daemon mode the event has no
receiver any more (`main.rs:371`) and the log goes to a pipe whose reader, the
connect parent, has left after the READY line (`main.rs:275`), so nobody sees
it. That is a matter of output and outside of the models, whose `warned` is the
event.

## 8. Not modelled

- Runtime deployment (`runtime.rs`), diagnostics (`diagnose.rs`) and log
  redaction (`logredact/`): file copies, command output and string rewriting,
  without state that a later step depends on.
- The text of messages: `openvpn/command.rs`, the parsing of management lines
  and of HTTP requests, `config/ovpn.rs`. The models have what the parsers
  return.
- The DNS proxy's forwarding: nothing is kept from one query to the next; only
  its port is in `MacosDns`.
- Windows and other platforms, on which `configure_native_dns` is an error.
