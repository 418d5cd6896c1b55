--------------------------- MODULE DaemonControl ---------------------------
(***************************************************************************)
(* The daemon mode of awsvpn: `connect` starts a daemon-run process, which *)
(* takes over the control socket, connects the VPN and then runs a control *)
(* loop; `status`, `disconnect` and `reconnect` are short-lived client     *)
(* processes that send it one request.                                     *)
(*                                                                         *)
(* Several daemon-run processes share one socket path, one state file, one *)
(* fixed SAML callback port and one host, so what a daemon does at startup *)
(* and on the way out can meet what another process is doing.              *)
(*                                                                         *)
(* A file is represented by the daemon that created it.  The connect task  *)
(* (VpnClient::connect) has five phases; DNS is one fact per daemon, "it   *)
(* configured the host's DNS and did not undo it" (what the DNS state then *)
(* is, and what cleanup_stale_native_dns does to it, is another module's   *)
(* subject).  A foreground session is another user of the callback port.   *)
(* Every fault and every operator action that may or may not happen is a   *)
(* member of Faults.                                                       *)
(***************************************************************************)
EXTENDS Naturals, Sequences

CONSTANTS
    Daemons,    \* the daemon-run processes that may be started, each once
    Clients,    \* the CLI processes, each reusable for a later command
    None,
    Faults      \* what the environment of this instance may do

AllFaults ==
    { "concurrent_starts",  \* two daemon-run processes are in bind() at once
      "client_dies",        \* a CLI process is interrupted during a request
      "parent_dies",        \* the `connect` parent disappears (no signal handled)
      "ctrl_c",             \* Ctrl-C in the `connect` parent
      "daemon_killed",      \* SIGKILL of a daemon
      "sigterm",            \* SIGTERM (or SIGINT, SIGHUP) to a daemon
      "openvpn_exits",      \* OpenVPN exits by itself
      "monitor_stops",      \* the reconnect monitor ends with an error
      "restore_fails",      \* restoring the DNS state fails
      "state_write_fails" } \* writing the state file fails

ASSUME DaemonControlAssumption ==
    /\ None \notin Daemons
    /\ None \notin Clients
    /\ Daemons \cap Clients = {}
    /\ Faults \subseteq AllFaults

Peers == Daemons \cup Clients   \* both kinds of process open control connections

VARIABLES
    pc,         \* daemon -> where its run_daemon_runner is
    parent,     \* daemon -> the `connect` process that spawned it
    sig,        \* daemon -> a shutdown signal its select! has yet to handle
    socket,     \* the daemon whose listener made the file at the socket path
    stateFile,  \* the daemon that last wrote the state file
    session,    \* daemon -> its control loop holds a VpnSession
    attempt,    \* daemon -> the phase of its VpnClient::connect task
    tunnel,     \* daemon -> the OpenVPN process it spawned
    monitor,    \* daemon -> the reconnect monitor task
    dns,        \* daemon -> it configured the host's DNS and did not undo it
    acs,        \* the daemon whose process has the SAML callback port bound
    backlog,    \* daemon -> connections made to its listener, not accepted
    serving,    \* daemon -> the connection its control loop is handling
    link,       \* peer -> its control connection
    target,     \* peer -> the daemon it is connected to
    cpc,        \* client -> where its command is
    kind        \* client -> the command it runs

files  == <<socket, stateFile>>
vpn    == <<session, attempt, tunnel, monitor, dns, acs>>
queue  == <<backlog, serving>>
conns  == <<link, target>>
cli    == <<cpc, kind>>
vars   == <<pc, parent, sig, files, vpn, queue, conns, cli>>

-----------------------------------------------------------------------------
(* Control points of a daemon-run process.                                  *)

Binding == {"probe", "dial", "send", "ask", "unlink", "unlinkState", "bind"}
Startup == Binding \cup {"announce", "connecting"}
\* ControlServer exists and the socket path has not been removed by its owner.
Bound   == {"announce", "connecting", "loop", "serve", "terminate", "restore",
            "replyDown", "replyErr", "rmSocket"}
Open    == Bound \cup {"rmState"}       \* the listener still has a descriptor
\* "drain": run_daemon_runner has returned, main is dropping the runtime.
Behind  == {"replyDown", "replyErr", "rmSocket", "rmState", "drain"}
Stopped == {"none", "exited", "killed"}

Live(d)      == pc[d] \notin Stopped
Listening(d) == pc[d] \in Open

\* The control loop is behind this daemon: a connect task it left was aborted,
\* and its JoinHandle is dropped.
Leaving(d) == pc[d] \in Behind

AttemptPhases == {"none", "sleep", "start", "spawn", "login", "configure",
                  "ok", "err", "aborted"}
\* A connect task that no local of run_daemon_runner owns: dropping a JoinHandle
\* does not stop the task, and one that was aborted may yet finish.
InFlight(d) == attempt[d] \notin {"none", "err"} /\ (attempt[d] = "ok" => Leaving(d))

ProcsOK ==
    /\ pc \in [Daemons -> Stopped \cup Binding \cup Open \cup {"drain"}]
    /\ parent \in [Daemons -> {"none", "waiting", "done", "dead"}]
    /\ sig \in [Daemons -> {"none", "pending"}]

FilesOK ==
    /\ socket \in Daemons \cup {None}
    /\ stateFile \in Daemons \cup {None}

VpnOK ==
    /\ session \in [Daemons -> BOOLEAN]
    /\ attempt \in [Daemons -> AttemptPhases]
    /\ tunnel \in [Daemons -> {"none", "starting", "up", "exited"}]
    /\ monitor \in [Daemons -> {"none", "running", "aborted", "detached"}]
    /\ dns \in [Daemons -> BOOLEAN]
    /\ acs \in Daemons \cup {None}

QueueOK ==
    /\ backlog \in [Daemons -> Seq(Peers)]
    /\ serving \in [Daemons -> Peers \cup {None}]

ConnsOK ==
    /\ link \in [Peers -> {"closed", "open", "sent", "lost_open", "lost_sent",
                           "status", "down", "error", "eof"}]
    /\ target \in [Peers -> Daemons \cup {None}]

CliOK ==
    /\ cpc \in [Clients -> {"idle", "dial", "send", "wait", "waitSocket",
                            "connect", "ok", "down", "failed", "timedout", "dead"}]
    /\ kind \in [Clients -> {"status", "disconnect", "reconnect"}]

TypeOK == ProcsOK /\ FilesOK /\ VpnOK /\ QueueOK /\ ConnsOK /\ CliOK

Init ==
    /\ pc = [d \in Daemons |-> "none"]
    /\ parent = [d \in Daemons |-> "none"]
    /\ sig = [d \in Daemons |-> "none"]
    /\ socket = None
    /\ stateFile = None
    /\ session = [d \in Daemons |-> FALSE]
    /\ attempt = [d \in Daemons |-> "none"]
    /\ tunnel = [d \in Daemons |-> "none"]
    /\ monitor = [d \in Daemons |-> "none"]
    /\ dns = [d \in Daemons |-> FALSE]
    /\ acs = None
    /\ backlog = [d \in Daemons |-> <<>>]
    /\ serving = [d \in Daemons |-> None]
    /\ link = [p \in Peers |-> "closed"]
    /\ target = [p \in Peers |-> None]
    /\ cpc = [c \in Clients |-> "idle"]
    /\ kind = [c \in Clients |-> "status"]

-----------------------------------------------------------------------------
(* The end of a process.  The kernel closes its listener, its connections   *)
(* and its callback port; what happens to OpenVPN and to DNS depends on     *)
(* whether destructors run.                                                 *)

Goto(d, l) == pc' = [pc EXCEPT ![d] = l]

FreeAcs(d) == acs' = IF acs = d THEN None ELSE acs

Held(d) == {p \in Peers : target[p] = d /\ link[p] \in {"open", "sent", "lost_open", "lost_sent"}}

\* A peer of a vanished daemon reads end of file; a vanished peer leaves its
\* connection, with whatever it had written, in the daemon's queue.
Hangup(l) == CASE l = "open" -> "lost_open"
               [] l = "sent" -> "lost_sent"
               [] OTHER -> "closed"
LinksAfter(d) ==
    [p \in Peers |->
        IF p \in Held(d) THEN IF link[p] \in {"open", "sent"} THEN "eof" ELSE "closed"
        ELSE IF p = d /\ link[p] \notin {"lost_open", "lost_sent"} THEN Hangup(link[p])
        ELSE link[p]]

Closed(d) ==
    /\ backlog' = [backlog EXCEPT ![d] = <<>>]
    /\ serving' = [serving EXCEPT ![d] = None]
    /\ link' = LinksAfter(d)
    /\ UNCHANGED target

Gone(d, how) ==
    /\ Goto(d, how)
    /\ sig' = [sig EXCEPT ![d] = "none"]
    /\ session' = [session EXCEPT ![d] = FALSE]
    /\ attempt' = [attempt EXCEPT ![d] = "none"]
    /\ monitor' = [monitor EXCEPT ![d] = "none"]
    /\ FreeAcs(d)
    /\ Closed(d)

\* No destructor runs: a running OpenVPN process and the DNS settings stay.
Crash(d) ==
    /\ Gone(d, "killed")
    /\ tunnel' = [tunnel EXCEPT ![d] = IF @ = "exited" THEN "none" ELSE @]
    /\ UNCHANGED dns

\* NativeDnsGuard::drop restores DNS and ignores a failure.
UndoDns(d) ==
    \/ dns' = [dns EXCEPT ![d] = FALSE]
    \/ "restore_fails" \in Faults /\ UNCHANGED dns

\* An error leaves main through process::exit(1).  The locals of the control
\* loop are dropped first (kill_on_drop, NativeDnsGuard::drop), but a connect
\* task that is still running is not: its OpenVPN and its DNS settings survive.
ErrorExit(d) ==
    /\ Gone(d, "exited")
    /\ tunnel' = [tunnel EXCEPT ![d] = IF InFlight(d) THEN @ ELSE "none"]
    /\ IF session[d] \/ (attempt[d] = "ok" /\ ~InFlight(d))
       THEN UndoDns(d) ELSE UNCHANGED dns

-----------------------------------------------------------------------------
(* ControlServer::bind: take over the socket path.                          *)

\* `connect` spawns daemon-run.  Without "concurrent_starts" the user waits
\* until the previous daemon-run has left bind().
Launch(d) ==
    /\ pc[d] = "none"
    /\ \/ "concurrent_starts" \in Faults
       \/ \A e \in Daemons : pc[e] \notin Binding
    /\ Goto(d, "probe")
    /\ parent' = [parent EXCEPT ![d] = "waiting"]
    /\ UNCHANGED <<sig, files, vpn, queue, conns>>

StartDaemon(d) == Launch(d) /\ UNCHANGED cli

\* Mutant: the path is unlinked without asking for a STATUS first.
ProbeSocketUnasked(d) ==
    /\ pc[d] = "probe"
    /\ Goto(d, IF socket = None THEN "bind" ELSE "unlink")
    /\ UNCHANGED <<parent, sig, files, vpn, queue, conns, cli>>

\* remove_stale_socket: nothing to do when the path does not exist.
ProbeSocket(d) ==
    /\ pc[d] = "probe"
    /\ \/ /\ Goto(d, IF socket = None THEN "bind" ELSE "dial")
          /\ UNCHANGED <<sig, vpn, queue, conns>>
       \/ ErrorExit(d)                  \* prepare_dir fails
    /\ UNCHANGED <<parent, files, cli>>

\* UnixStream::connect by peer p, when something listens at the path.
Dial(p) ==
    /\ socket # None
    /\ Listening(socket)
    /\ backlog' = [backlog EXCEPT ![socket] = Append(@, p)]
    /\ link' = [link EXCEPT ![p] = "open"]
    /\ target' = [target EXCEPT ![p] = socket]
    /\ UNCHANGED serving

\* NotFound or ConnectionRefused.
DialRefused ==
    /\ socket # None => ~Listening(socket)
    /\ UNCHANGED <<queue, conns>>

DialDaemon(d) ==
    /\ pc[d] = "dial"
    /\ \/ Dial(d) /\ Goto(d, "send") /\ UNCHANGED <<sig, vpn>>
       \/ DialRefused /\ Goto(d, "unlink") /\ UNCHANGED <<sig, vpn>>
       \/ ErrorExit(d)                  \* any other error of connect
    /\ UNCHANGED <<parent, files, cli>>

\* The request line is written; an earlier end of file is noticed on reading.
Write(p) == link' = [link EXCEPT ![p] = IF @ = "open" THEN "sent" ELSE @]

SendProbe(d) ==
    /\ pc[d] = "send"
    /\ Write(d)
    /\ Goto(d, "ask")
    /\ UNCHANGED <<parent, sig, files, vpn, queue, target, cli>>

\* Mutant: cleanup() also runs when bind() was refused.
ProbeAnsweredCleansUp(d) ==
    /\ pc[d] = "ask"
    /\ link[d] \in {"status", "down", "error", "eof"}
    /\ link' = [link EXCEPT ![d] = "closed"]
    /\ Goto(d, "rmSocket")
    /\ UNCHANGED <<parent, sig, files, vpn, queue, target, cli>>

\* Any reply means a running daemon, any other error is returned: bind fails
\* and this process leaves the files alone.
ProbeAnswered(d) ==
    /\ pc[d] = "ask"
    /\ link[d] \in {"status", "down", "error", "eof"}
    /\ ErrorExit(d)
    /\ UNCHANGED <<parent, files, cli>>

UnlinkStaleSocket(d) ==
    /\ pc[d] = "unlink"
    /\ socket' = None
    /\ Goto(d, "unlinkState")
    /\ UNCHANGED <<parent, sig, stateFile, vpn, queue, conns, cli>>

UnlinkStaleState(d) ==
    /\ pc[d] = "unlinkState"
    /\ stateFile' = None
    /\ Goto(d, "bind")
    /\ UNCHANGED <<parent, sig, socket, vpn, queue, conns, cli>>

BindSocket(d) ==
    /\ pc[d] = "bind"
    /\ \/ /\ socket = None
          /\ socket' = d
          /\ Goto(d, "announce")
          /\ UNCHANGED <<sig, vpn, queue, conns>>
       \/ ErrorExit(d) /\ UNCHANGED socket  \* EADDRINUSE, or another error
    /\ UNCHANGED <<parent, stateFile, cli>>

-----------------------------------------------------------------------------
(* VpnClient::connect as a task, and the tasks and process it leaves.       *)

SetAttempt(d, a) == attempt' = [attempt EXCEPT ![d] = a]
SetTunnel(d, t)  == tunnel' = [tunnel EXCEPT ![d] = t]

\* The result of an aborted task has no JoinHandle to go to.
AttemptFails(d) == SetAttempt(d, IF Leaving(d) THEN "none" ELSE "err")

\* write_state(Connecting), whose failure is ignored, then connect().
Announce(d) ==
    /\ pc[d] = "announce"
    /\ \/ stateFile' = d
       \/ "state_write_fails" \in Faults /\ UNCHANGED stateFile
    /\ Goto(d, "connecting")
    /\ SetAttempt(d, "start")
    /\ UNCHANGED <<parent, sig, socket, session, tunnel, monitor, dns, acs, queue, conns, cli>>

\* start_reconnect_attempt: sleep for reconnect_delay, then connect().
AttemptWakes(d) ==
    /\ attempt[d] = "sleep"
    /\ SetAttempt(d, "start")
    /\ UNCHANGED <<session, tunnel, monitor, dns, acs>>

\* Mutant: the port can be bound while another process has it.
BindAcsShared(d) ==
    /\ attempt[d] = "start"
    /\ acs' = d
    /\ SetAttempt(d, "spawn")
    /\ UNCHANGED <<session, tunnel, monitor, dns>>

\* Up to SamlAcsServer::bind on the fixed port.  An invalid option, a failing
\* cleanup of stale DNS, a failing deployment and a taken port are errors.
BindAcs(d) ==
    /\ attempt[d] = "start"
    /\ \/ acs = None /\ acs' = d /\ SetAttempt(d, "spawn")
       \/ UNCHANGED acs /\ AttemptFails(d)
    /\ UNCHANGED <<session, tunnel, monitor, dns>>

\* OpenVpnPrepared::new and spawn; an error drops the callback server.  From
\* the end of the sleep to here the task does not yield: abort() takes effect
\* when it first waits for the management socket.
SpawnOpenVpn(d) ==
    /\ attempt[d] = "spawn"
    /\ \/ /\ SetTunnel(d, "starting")
          /\ SetAttempt(d, IF Leaving(d) THEN "aborted" ELSE "login")
          /\ UNCHANGED acs
       \/ UNCHANGED tunnel /\ AttemptFails(d) /\ FreeAcs(d)
    /\ UNCHANGED <<session, monitor, dns>>

\* The management handshake and drive_saml_auth.  Success hands the callback
\* port to the reconnect monitor; every failure ends OpenVPN and frees it.
Login(d) ==
    /\ attempt[d] = "login"
    /\ \/ /\ SetTunnel(d, "up")
          /\ monitor' = [monitor EXCEPT ![d] = "running"]
          /\ SetAttempt(d, "configure")
          /\ UNCHANGED acs
       \/ /\ SetTunnel(d, "none")
          /\ AttemptFails(d)
          /\ FreeAcs(d)
          /\ UNCHANGED monitor
    /\ UNCHANGED <<session, dns>>

Detach(d) == monitor' = [monitor EXCEPT ![d] = IF @ = "none" THEN "none" ELSE "detached"]

\* configure_native_dns may be unnecessary, may succeed, or may fail: then the
\* OpenVPN process is killed on drop and the monitor task is left detached.
\* The task does not yield after the login, so an abort() comes too late.
ConfigureDns(d) ==
    /\ attempt[d] = "configure"
    /\ \/ \E b \in BOOLEAN : dns' = [dns EXCEPT ![d] = b]
          /\ SetAttempt(d, "ok")
          /\ UNCHANGED <<tunnel, monitor>>
       \/ /\ SetTunnel(d, "none")
          /\ Detach(d)
          /\ AttemptFails(d)
          /\ UNCHANGED dns
    /\ UNCHANGED <<session, acs>>

\* The session of a finished task is dropped: OpenVPN is killed and DNS
\* restored, the monitor task goes on by itself.
SessionDropped(d) ==
    /\ SetAttempt(d, "none")
    /\ SetTunnel(d, "none")
    /\ Detach(d)
    /\ UndoDns(d)

\* The runtime drops the session of an aborted task that finished all the same.
DropSession(d) ==
    /\ attempt[d] = "ok"
    /\ Leaving(d)
    /\ SessionDropped(d)
    /\ UNCHANGED <<session, acs>>

\* Mutant: the callback server outlives the cancelled task.
AttemptCancelledKeepsPort(d) ==
    /\ attempt[d] = "aborted"
    /\ SetAttempt(d, "none")
    /\ SetTunnel(d, "none")
    /\ UNCHANGED <<session, monitor, dns, acs>>

\* An aborted task that is at an await is dropped there: OpenVPN is killed and
\* the callback port freed, unless the monitor of an earlier session has it.
AttemptCancelled(d) ==
    /\ attempt[d] = "aborted"
    /\ SetAttempt(d, "none")
    /\ SetTunnel(d, "none")
    /\ IF monitor[d] = "none" THEN FreeAcs(d) ELSE UNCHANGED acs
    /\ UNCHANGED <<session, monitor, dns>>

\* The monitor task is dropped after abort(), or reads end of file from the
\* management socket of a dead OpenVPN.
MonitorEnds(d) ==
    /\ \/ monitor[d] = "aborted"
       \/ monitor[d] \in {"running", "detached"} /\ tunnel[d] \in {"none", "exited"}
    /\ monitor' = [monitor EXCEPT ![d] = "none"]
    /\ FreeAcs(d)
    /\ UNCHANGED <<session, attempt, tunnel, dns>>

\* The monitor returns an error while OpenVPN runs on (a login that timed out,
\* a browser that did not open, a rejected assertion).
MonitorStops(d) ==
    /\ "monitor_stops" \in Faults
    /\ monitor[d] = "running"
    /\ tunnel[d] = "up"
    /\ monitor' = [monitor EXCEPT ![d] = "none"]
    /\ FreeAcs(d)
    /\ UNCHANGED <<session, attempt, tunnel, dns>>

\* OpenVPN exits by itself; its parent reaps it later, init reaps an orphan.
OpenVpnExits(d) ==
    /\ "openvpn_exits" \in Faults
    /\ tunnel[d] = "up"
    /\ SetTunnel(d, IF Live(d) THEN "exited" ELSE "none")
    /\ UNCHANGED <<session, attempt, monitor, dns, acs>>

ConnectTask(d) ==
    /\ \/ AttemptWakes(d) \/ BindAcs(d) \/ SpawnOpenVpn(d) \/ Login(d)
       \/ ConfigureDns(d) \/ DropSession(d) \/ AttemptCancelled(d)
    /\ UNCHANGED <<pc, parent, sig, files, queue, conns, cli>>

MonitorTask(d) ==
    /\ MonitorEnds(d)
    /\ UNCHANGED <<pc, parent, sig, files, queue, conns, cli>>

Environment(d) ==
    /\ MonitorStops(d) \/ OpenVpnExits(d)
    /\ UNCHANGED <<pc, parent, sig, files, queue, conns, cli>>

-----------------------------------------------------------------------------
(* run_daemon_runner: the outcome of the first connect.                     *)

StartupSucceeds(d) ==
    /\ pc[d] = "connecting"
    /\ attempt[d] = "ok"
    /\ \/ /\ parent[d] # "dead"
          /\ stateFile' = d
          /\ Goto(d, "loop")
          /\ session' = [session EXCEPT ![d] = TRUE]
          /\ SetAttempt(d, "none")
          /\ UNCHANGED <<sig, tunnel, monitor, dns, acs, queue, conns>>
       \/ /\ parent[d] = "dead"         \* println! to the closed pipe panics
          /\ stateFile' = d
          /\ ErrorExit(d)
       \/ /\ "state_write_fails" \in Faults
          /\ ErrorExit(d)
          /\ UNCHANGED stateFile
    /\ UNCHANGED <<parent, socket, cli>>

StartupFails(d) ==
    /\ pc[d] = "connecting"
    /\ attempt[d] = "err"
    /\ Goto(d, "rmSocket")
    /\ UNCHANGED <<parent, sig, files, vpn, queue, conns, cli>>

\* DaemonPaths::cleanup removes whatever is at the two paths.
RemoveSocket(d) ==
    /\ pc[d] = "rmSocket"
    /\ socket' = None
    /\ Goto(d, "rmState")
    /\ UNCHANGED <<parent, sig, stateFile, vpn, queue, conns, cli>>

\* With the end of run_daemon_runner its listener and its connection close.
RemoveState(d) ==
    /\ pc[d] = "rmState"
    /\ stateFile' = None
    /\ Goto(d, "drain")
    /\ Closed(d)
    /\ UNCHANGED <<parent, sig, socket, vpn, cli>>

\* Mutant: a normal return also leaves through process::exit.
DrainedAtOnce(d) ==
    /\ pc[d] = "drain"
    /\ Gone(d, "exited")
    /\ UNCHANGED <<parent, files, tunnel, dns, cli>>

\* main returns: dropping the runtime waits for every task to be dropped.
Drained(d) ==
    /\ pc[d] = "drain"
    /\ attempt[d] \in {"none", "err"}
    /\ Gone(d, "exited")
    /\ UNCHANGED <<parent, files, tunnel, dns, cli>>

-----------------------------------------------------------------------------
(* run_daemon_control_loop: each iteration of select! runs one branch.      *)

\* The receivers of shutdown_signal() are made anew in every iteration, so a
\* signal that was ready in an iteration won by another branch is dropped; and
\* behind the loop a signal has no receiver.
DropSignal(d) == sig' = [sig EXCEPT ![d] = "none"]

AbortMonitor(d) == monitor' = [monitor EXCEPT ![d] = IF @ = "none" THEN "none" ELSE "aborted"]

\* try_wait() reports the exit: DNS is restored and an attempt is started.
TickExit(d) ==
    /\ session[d]
    /\ tunnel[d] = "exited"
    /\ \/ /\ SetTunnel(d, "none")
          /\ AbortMonitor(d)
          /\ dns' = [dns EXCEPT ![d] = FALSE]
          /\ session' = [session EXCEPT ![d] = FALSE]
          /\ SetAttempt(d, "sleep")
          /\ \/ stateFile' = d
             \/ "state_write_fails" \in Faults /\ UNCHANGED stateFile
          /\ DropSignal(d)
          /\ UNCHANGED <<pc, acs, queue, conns>>
       \/ /\ "restore_fails" \in Faults  \* `?` leaves the control loop
          /\ dns[d]
          /\ Gone(d, "exited")
          /\ SetTunnel(d, "none")
          /\ UNCHANGED <<dns, stateFile>>

\* The finished attempt's session is adopted, or lost with the process when
\* the state file cannot be written.
TickReconnected(d) ==
    /\ ~session[d]
    /\ attempt[d] = "ok"
    /\ \/ /\ stateFile' = d
          /\ session' = [session EXCEPT ![d] = TRUE]
          /\ SetAttempt(d, "none")
          /\ DropSignal(d)
          /\ UNCHANGED <<pc, tunnel, monitor, dns, acs, queue, conns>>
       \/ /\ "state_write_fails" \in Faults
          /\ ErrorExit(d)
          /\ UNCHANGED stateFile

\* Mutant: a failed attempt is not followed by another.
TickRetryGivesUp(d) ==
    /\ ~session[d]
    /\ attempt[d] = "err"
    /\ SetAttempt(d, "none")
    /\ stateFile' = d
    /\ DropSignal(d)
    /\ UNCHANGED <<pc, session, tunnel, monitor, dns, acs, queue, conns>>

TickRetry(d) ==
    /\ ~session[d]
    /\ attempt[d] = "err"
    /\ SetAttempt(d, "sleep")
    /\ \/ stateFile' = d
       \/ "state_write_fails" \in Faults /\ UNCHANGED stateFile
    /\ DropSignal(d)
    /\ UNCHANGED <<pc, session, tunnel, monitor, dns, acs, queue, conns>>

\* Nothing to do; only a pending signal can tell that the branch ran.
TickIdle(d) ==
    /\ sig[d] = "pending"
    /\ session[d] => tunnel[d] # "exited"
    /\ ~session[d] => InFlight(d)
    /\ DropSignal(d)
    /\ UNCHANGED <<pc, stateFile, vpn, queue, conns>>

Tick(d) ==
    /\ pc[d] = "loop"
    /\ TickExit(d) \/ TickReconnected(d) \/ TickRetry(d) \/ TickIdle(d)
    /\ UNCHANGED <<parent, socket, cli>>

\* Mutant: of the connections waiting at once only the first is kept.
AcceptDrops(d) ==
    /\ pc[d] = "loop"
    /\ backlog[d] # <<>>
    /\ serving' = [serving EXCEPT ![d] = Head(backlog[d])]
    /\ backlog' = [backlog EXCEPT ![d] = <<>>]
    /\ Goto(d, "serve")
    /\ DropSignal(d)
    /\ UNCHANGED <<parent, files, vpn, conns, cli>>

Accept(d) ==
    /\ pc[d] = "loop"
    /\ backlog[d] # <<>>
    /\ serving' = [serving EXCEPT ![d] = Head(backlog[d])]
    /\ backlog' = [backlog EXCEPT ![d] = Tail(@)]
    /\ Goto(d, "serve")
    /\ DropSignal(d)
    /\ UNCHANGED <<parent, files, vpn, conns, cli>>

Request(p) == IF p \in Clients /\ kind[p] # "status" THEN "DISCONNECT" ELSE "STATUS"

\* write_response: the peer reads the reply, unless it has gone.
Respond(d, answer) ==
    /\ link[serving[d]] = "sent"
    /\ link' = [link EXCEPT ![serving[d]] = answer]
    /\ serving' = [serving EXCEPT ![d] = None]
    /\ UNCHANGED <<backlog, target>>

ServeStatus(d) ==
    /\ pc[d] = "serve"
    /\ Request(serving[d]) = "STATUS"
    /\ \/ /\ Respond(d, "status")
          /\ Goto(d, "loop")
          /\ UNCHANGED <<sig, vpn>>
       \/ /\ link[serving[d]] = "lost_sent"     \* `?` on the broken pipe
          /\ ErrorExit(d)
    /\ UNCHANGED <<parent, files, cli>>

\* read_request sees end of file; its error leaves the control loop.
ServeNothing(d) ==
    /\ pc[d] = "serve"
    /\ link[serving[d]] = "lost_open"
    /\ ErrorExit(d)
    /\ UNCHANGED <<parent, files, cli>>

\* attempt.task.abort() only marks the task.  A finished one is dropped with its
\* result; one that waits is cancelled there; one that is being polled by another
\* worker thread runs on to its next await, if it has one.
AbortAttempt(d) ==
    /\ \/ attempt[d] = "ok" /\ SessionDropped(d)
       \/ /\ attempt[d] = "err" /\ SetAttempt(d, "none")
          /\ UNCHANGED <<tunnel, monitor, dns>>
       \/ /\ attempt[d] \in {"sleep", "login"} /\ SetAttempt(d, "aborted")
          /\ UNCHANGED <<tunnel, monitor, dns>>
       \/ /\ attempt[d] \in {"start", "spawn", "login", "configure"}
          /\ UNCHANGED <<attempt, tunnel, monitor, dns>>
    /\ UNCHANGED <<session, acs>>

\* session.take(): the session is now a local of the handler.
TakeSession(d) ==
    /\ session' = [session EXCEPT ![d] = FALSE]
    /\ UNCHANGED <<attempt, tunnel, monitor, dns, acs>>

\* Mutant: the reply is sent before the session is taken down.
ServeDisconnectRepliesFirst(d) ==
    /\ pc[d] = "serve"
    /\ link[serving[d]] \in {"sent", "lost_sent"}
    /\ Request(serving[d]) = "DISCONNECT"
    /\ stateFile' = d
    /\ IF session[d] THEN TakeSession(d) ELSE AbortAttempt(d)
    /\ Goto(d, "replyDown")
    /\ DropSignal(d)
    /\ UNCHANGED <<parent, socket, queue, conns, cli>>

ServeDisconnect(d) ==
    /\ pc[d] = "serve"
    /\ link[serving[d]] \in {"sent", "lost_sent"}
    /\ Request(serving[d]) = "DISCONNECT"
    /\ \/ stateFile' = d
       \/ "state_write_fails" \in Faults /\ UNCHANGED stateFile
    /\ IF session[d] THEN TakeSession(d) /\ Goto(d, "terminate")
                     ELSE AbortAttempt(d) /\ Goto(d, "replyDown")
    /\ DropSignal(d)
    /\ UNCHANGED <<parent, socket, queue, conns, cli>>

\* Mutant: the paths are cleaned up while the session is still connected.
LoopSignalCleansFirst(d) ==
    /\ pc[d] = "loop"
    /\ sig[d] = "pending"
    /\ IF session[d] THEN TakeSession(d) ELSE AbortAttempt(d)
    /\ Goto(d, "rmSocket")
    /\ DropSignal(d)
    /\ UNCHANGED <<parent, files, queue, conns, cli>>

LoopSignal(d) ==
    /\ pc[d] = "loop"
    /\ sig[d] = "pending"
    /\ IF session[d] THEN TakeSession(d) /\ Goto(d, "terminate")
                     ELSE AbortAttempt(d) /\ Goto(d, "rmSocket")
    /\ DropSignal(d)
    /\ UNCHANGED <<parent, files, queue, conns, cli>>

\* VpnSession::disconnect: OpenVpnProcess::terminate always ends the child.
TerminateOpenVpn(d) ==
    /\ pc[d] = "terminate"
    /\ SetTunnel(d, "none")
    /\ Goto(d, "restore")
    /\ UNCHANGED <<parent, sig, files, session, attempt, monitor, dns, acs, queue, conns, cli>>

AfterRestore(d, result) ==
    Goto(d, IF serving[d] = None THEN "rmSocket" ELSE result)

\* ... then the monitors are aborted and the DNS guard is restored.
RestoreDns(d) ==
    /\ pc[d] = "restore"
    /\ AbortMonitor(d)
    /\ \/ dns' = [dns EXCEPT ![d] = FALSE] /\ AfterRestore(d, "replyDown")
       \/ /\ "restore_fails" \in Faults
          /\ dns[d]
          /\ UNCHANGED dns
          /\ AfterRestore(d, "replyErr")
    /\ UNCHANGED <<parent, sig, files, session, attempt, tunnel, acs, queue, conns, cli>>

\* Mutant: a reply that cannot be written is ignored, and so is the request.
ReplyDisconnectedContinues(d) ==
    /\ pc[d] \in {"replyDown", "replyErr"}
    /\ \/ /\ Respond(d, IF pc[d] = "replyDown" THEN "down" ELSE "error")
          /\ Goto(d, "rmSocket")
       \/ /\ link[serving[d]] = "lost_sent"
          /\ Goto(d, "loop")
          /\ link' = [link EXCEPT ![serving[d]] = "closed"]
          /\ serving' = [serving EXCEPT ![d] = None]
          /\ UNCHANGED <<backlog, target>>
    /\ UNCHANGED <<parent, sig, vpn, files, cli>>

\* The reply goes out before the paths are cleaned up.
ReplyDisconnected(d) ==
    /\ pc[d] \in {"replyDown", "replyErr"}
    /\ \/ /\ Respond(d, IF pc[d] = "replyDown" THEN "down" ELSE "error")
          /\ Goto(d, "rmSocket")
          /\ UNCHANGED <<sig, vpn>>
       \/ /\ link[serving[d]] = "lost_sent"
          /\ ErrorExit(d)
    /\ UNCHANGED <<parent, files, cli>>

ControlLoop(d) ==
    \/ ServeStatus(d) \/ ServeNothing(d) \/ ServeDisconnect(d)
    \/ TerminateOpenVpn(d) \/ RestoreDns(d) \/ ReplyDisconnected(d)

Bind(d) ==
    \/ ProbeSocket(d) \/ DialDaemon(d) \/ SendProbe(d) \/ ProbeAnswered(d)
    \/ UnlinkStaleSocket(d) \/ UnlinkStaleState(d) \/ BindSocket(d)

Runner(d) ==
    \/ Bind(d) \/ Announce(d) \/ StartupSucceeds(d) \/ StartupFails(d)
    \/ RemoveSocket(d) \/ RemoveState(d) \/ Drained(d)

-----------------------------------------------------------------------------
(* Signals, and the `connect` parent.                                       *)

SigKill(d) ==
    /\ "daemon_killed" \in Faults
    /\ Live(d)
    /\ Crash(d)
    /\ UNCHANGED <<parent, files, cli>>

\* Until the control loop first polls shutdown_signal() the default
\* disposition applies; later a signal is seen by the select! that is waiting
\* when it is broadcast, which during a handler may be none (no step then).
SigTerm(d) ==
    /\ "sigterm" \in Faults
    /\ \/ pc[d] \in Startup /\ Crash(d)
       \/ /\ pc[d] \in {"loop", "serve"}
          /\ sig' = [sig EXCEPT ![d] = "pending"]
          /\ UNCHANGED <<pc, vpn, queue, conns>>
    /\ UNCHANGED <<parent, files, cli>>

\* run_daemon_connect returns on the READY or ERROR line or at end of file.
ParentReturns(d) ==
    /\ parent[d] = "waiting"
    /\ pc[d] \notin Startup \cup {"rmSocket", "rmState"}
    /\ parent' = [parent EXCEPT ![d] = "done"]
    /\ UNCHANGED <<pc, sig, files, vpn, queue, conns, cli>>

\* Ctrl-C in the parent: start_kill() on the daemon-run child, then wait().
CtrlC(d) ==
    /\ "ctrl_c" \in Faults
    /\ parent[d] = "waiting"
    /\ Live(d)
    /\ Crash(d)
    /\ parent' = [parent EXCEPT ![d] = "done"]
    /\ UNCHANGED <<files, cli>>

ParentDies(d) ==
    /\ "parent_dies" \in Faults
    /\ parent[d] = "waiting"
    /\ parent' = [parent EXCEPT ![d] = "dead"]
    /\ UNCHANGED <<pc, sig, files, vpn, queue, conns, cli>>

-----------------------------------------------------------------------------
(* The CLI processes.                                                       *)

CliGoto(c, l) == cpc' = [cpc EXCEPT ![c] = l]

CliStart(c) ==
    /\ cpc[c] = "idle"
    /\ \E k \in {"status", "disconnect", "reconnect"} : kind' = [kind EXCEPT ![c] = k]
    /\ CliGoto(c, "dial")
    /\ UNCHANGED <<pc, parent, sig, files, vpn, queue, conns>>

\* `disconnect` without a daemon, or answered by one, cleans up stale DNS and
\* is then a success, or the first half of `reconnect`.
Disconnected(c) ==
    {IF kind[c] = "reconnect" THEN "waitSocket" ELSE "down"}
        \cup IF "restore_fails" \in Faults THEN {"failed"} ELSE {}

Unavailable(c) == IF kind[c] = "status" THEN {"failed"} ELSE Disconnected(c)

CliDial(c) ==
    /\ cpc[c] = "dial"
    /\ \/ Dial(c) /\ CliGoto(c, "send")
       \/ DialRefused /\ \E o \in Unavailable(c) : CliGoto(c, o)
       \/ CliGoto(c, "failed") /\ UNCHANGED <<queue, conns>>
    /\ UNCHANGED <<pc, parent, sig, files, vpn, kind>>

CliSend(c) ==
    /\ cpc[c] = "send"
    /\ Write(c)
    /\ CliGoto(c, "wait")
    /\ UNCHANGED <<pc, parent, sig, files, vpn, queue, target, kind>>

\* Mutant: the reply to STATUS is shown but does not end the command.
OutcomeShown(c) == IF link[c] = "down" THEN Disconnected(c) ELSE {link[c]}

Outcome(c) == CASE link[c] = "status" -> {"ok"}
                [] link[c] = "down"   -> Disconnected(c)
                [] OTHER              -> {"failed"}

CliReply(c) ==
    /\ cpc[c] = "wait"
    /\ link[c] \in {"status", "down", "error", "eof"}
    /\ \E o \in Outcome(c) : CliGoto(c, o)
    /\ link' = [link EXCEPT ![c] = "closed"]
    /\ UNCHANGED <<pc, parent, sig, files, vpn, queue, target, kind>>

\* wait_for_daemon_shutdown: two seconds for the path to disappear.
CliSocketGone(c) ==
    /\ cpc[c] = "waitSocket"
    /\ socket = None
    /\ CliGoto(c, "connect")
    /\ UNCHANGED <<pc, parent, sig, files, vpn, queue, conns, kind>>

CliTimeout(c) ==
    /\ cpc[c] = "waitSocket"
    /\ socket # None
    /\ CliGoto(c, "timedout")
    /\ UNCHANGED <<pc, parent, sig, files, vpn, queue, conns, kind>>

CliReconnect(c) ==
    /\ cpc[c] = "connect"
    /\ \/ (\E d \in Daemons : Launch(d)) /\ CliGoto(c, "ok")
       \/ /\ CliGoto(c, "failed")              \* the spawn failed
          /\ UNCHANGED <<pc, parent, sig, files, vpn, queue, conns>>
    /\ UNCHANGED kind

CliDies(c) ==
    /\ "client_dies" \in Faults
    /\ cpc[c] \in {"send", "wait"}
    /\ CliGoto(c, "dead")
    /\ link' = [link EXCEPT ![c] = Hangup(@)]
    /\ UNCHANGED <<pc, parent, sig, files, vpn, queue, target, kind>>

\* The command is over; the client stands for a later command.
CliDone(c) ==
    /\ cpc[c] \in {"ok", "down", "failed", "timedout", "dead"}
    /\ link[c] = "closed"
    /\ CliGoto(c, "idle")
    /\ kind' = [kind EXCEPT ![c] = "status"]
    /\ target' = [target EXCEPT ![c] = None]
    /\ UNCHANGED <<pc, parent, sig, files, vpn, queue, link>>

CliRequest(c) == CliDial(c) \/ CliSend(c) \/ CliReply(c)

Client(c) ==
    \/ CliStart(c) \/ CliRequest(c) \/ CliSocketGone(c) \/ CliTimeout(c)
    \/ CliReconnect(c) \/ CliDies(c) \/ CliDone(c)

Daemon(d) ==
    \/ StartDaemon(d) \/ Runner(d) \/ ConnectTask(d) \/ MonitorTask(d)
    \/ Tick(d) \/ Accept(d) \/ LoopSignal(d) \/ ControlLoop(d)
    \/ Environment(d) \/ SigKill(d) \/ SigTerm(d)
    \/ ParentReturns(d) \/ CtrlC(d) \/ ParentDies(d)

Next == \/ \E d \in Daemons : Daemon(d)
        \/ \E c \in Clients : Client(c)

Spec == Init /\ [][Next]_vars

(* Fairness.  Tokio polls every ready task, and select! polls its branches  *)
(* in random order, so a branch that is ready again and again is taken.     *)
(* Every await of a connect is bounded by a timeout but one: the login      *)
(* waits for OpenVPN to report (drive_saml_auth).  That it ends some day,   *)
(* with a connection, an error or an exit, is assumed of OpenVPN, the       *)
(* server and the user; without it a daemon stays in its first connect and  *)
(* answers nobody.  Nothing is assumed of signals, or of OpenVPN staying up.*)
Fairness ==
    /\ \A d \in Daemons :
        /\ WF_vars(Runner(d))
        /\ WF_vars(ControlLoop(d))
        /\ WF_vars(ConnectTask(d))
        /\ WF_vars(MonitorTask(d))
        /\ SF_vars(Tick(d))
        /\ SF_vars(Accept(d))
        /\ WF_vars(LoopSignal(d))
    /\ \A c \in Clients : WF_vars(CliRequest(c))

FairSpec == Spec /\ Fairness

-----------------------------------------------------------------------------
(* Safety.                                                                  *)

\* The file at the socket path belongs to every daemon that is between its
\* UnixListener::bind and its own paths.cleanup(): `status` and `disconnect`
\* reach it.  Relates remove_stale_socket and cleanup() of other processes to
\* this daemon's life; needs bind() not to run in two processes at once.
ReachableDaemon == \A d \in Daemons : pc[d] \in Bound => socket = d

\* A socket file is only unlinked by the daemon that made it, or when that
\* daemon is gone: no process takes the path from a running daemon.
OnlyOwnerUnlinks ==
    [][\A d \in Daemons :
         socket = d /\ socket' # d => pc[d] = "rmSocket" \/ ~Live(d)]_vars

\* The OpenVPN process of a running daemon can be reached through the socket
\* path, so that `disconnect` ends it and a second daemon cannot start another
\* beside it; only the OpenVPN of a connect task that has been aborted and is
\* not yet gone can outlive the path.
TunnelUnderControl ==
    \A d \in Daemons :
        Live(d) /\ tunnel[d] # "none" => socket = d \/ (Leaving(d) /\ attempt[d] # "none")

\* A client that was answered DISCONNECTED finds no session of that daemon.  An
\* OpenVPN process or DNS settings may still be there, or appear, for as long as
\* an aborted connect task is under way and not a moment longer: when the daemon
\* has ended nothing is left, unless restoring DNS failed.
DisconnectedIsDown ==
    \A c \in Clients :
        link[c] = "down" /\ pc[target[c]] # "killed" =>
            LET d == target[c] IN
            /\ ~session[d]
            /\ tunnel[d] # "none" => attempt[d] # "none"
            /\ dns[d] => attempt[d] # "none" \/ "restore_fails" \in Faults

\* A daemon waiting in select! has exactly one of a session and a reconnect
\* attempt: it never idles disconnected, and never connects twice.
LoopHasOneJob ==
    \A d \in Daemons : pc[d] = "loop" => (session[d] <=> attempt[d] = "none")

\* Of all running daemons at most one has a login in progress, and it is the
\* one that listens on the callback port: an assertion posted by the browser
\* cannot reach another daemon's OpenVPN.
OneLogin ==
    \A d \in Daemons : Live(d) /\ tunnel[d] = "starting" => acs = d

\* The port is bound by a connect task past its bind or by a monitor task that
\* has not ended, so a later connect is never refused for the sake of a task
\* that is already over.
PortHasUser ==
    \A d \in Daemons :
        acs = d => monitor[d] # "none" \/ attempt[d] \in {"spawn", "login", "aborted"}

(* Liveness.                                                                *)

\* Every control request is answered, with a reply or with end of file, even
\* while the daemon connects, reconnects or shuts down: no CLI command and no
\* duplicate `connect` waits for ever.
RequestAnswered == \A p \in Peers : link[p] = "sent" ~> link[p] # "sent"

\* A disconnect request in a daemon's queue ends that daemon, whether or not
\* the client is still there to read the reply.
DisconnectStops ==
    \A c \in Clients, d \in Daemons :
        (link[c] \in {"sent", "lost_sent"} /\ target[c] = d /\ kind[c] # "status") ~> ~Live(d)

\* A daemon in its loop without a session starts another connect: a failed
\* reconnect attempt is always followed by the next.
KeepsReconnecting ==
    \A d \in Daemons :
        (pc[d] = "loop" /\ ~session[d]) ~> (session[d] \/ attempt[d] = "start" \/ pc[d] # "loop")

\* After DISCONNECTED the daemon comes to its end with no OpenVPN process left,
\* not even that of an aborted reconnect attempt which had yet to spawn it,
\* unless the daemon is killed first.
DisconnectedEndsOpenVpn ==
    \A c \in Clients, d \in Daemons :
        (link[c] = "down" /\ target[c] = d)
            ~> (pc[d] = "killed" \/ (pc[d] = "exited" /\ tunnel[d] = "none"))

(* What makes the safety properties inductive.                              *)

\* One process at a time is in ControlServer::bind.
SerialBind ==
    \A d, e \in Daemons : pc[d] \in Binding /\ pc[e] \in Binding => d = e

\* A process that has decided to take the path over is alone: no daemon it
\* could disturb is bound.
TakeoverIsSafe ==
    \A d, e \in Daemons : pc[d] \in {"unlink", "unlinkState", "bind"} => pc[e] \notin Bound

\* The file at the path was made by a daemon that bound it and has neither
\* removed it nor gone on to another part of its life.
FileOwner ==
    socket # None => pc[socket] \in Bound \cup {"exited", "killed"}

\* Where a daemon is when its connect task has not been disposed of, and when
\* there may be an OpenVPN process.
TaskHome ==
    \A d \in Daemons :
        /\ attempt[d] \notin {"none", "err"} => pc[d] \in {"connecting", "loop", "serve"} \cup Behind
        /\ attempt[d] = "aborted" => Leaving(d)
        /\ Leaving(d) => attempt[d] # "sleep"
        /\ attempt[d] \in {"sleep", "start", "spawn", "err"} => tunnel[d] = "none"
        /\ pc[d] \in {"loop", "serve"} => (session[d] <=> attempt[d] = "none")
        /\ pc[d] \in {"none", "announce"} \cup Binding
               => tunnel[d] = "none" /\ attempt[d] = "none"
        /\ pc[d] \in {"terminate", "restore", "replyErr"} => attempt[d] = "none"
        /\ pc[d] \in {"restore"} \cup Behind => tunnel[d] = "none" \/ attempt[d] # "none"

\* Who has the callback port.
PortHome ==
    \A d \in Daemons :
        /\ monitor[d] # "none" => acs = d
        /\ attempt[d] \in {"spawn", "login"} => acs = d /\ monitor[d] = "none"
        /\ Live(d) /\ tunnel[d] = "starting" =>
               \/ attempt[d] = "login"
               \/ attempt[d] = "aborted" /\ acs = d /\ monitor[d] = "none"

\* A connection waits in one place, the queue or the handler of the daemon it
\* leads to, and a process that has not dialled has none.
Waiting == {"open", "sent", "lost_open", "lost_sent"}
QueueHome ==
    \A d \in Daemons :
        /\ \A i \in 1..Len(backlog[d]) :
             /\ target[backlog[d][i]] = d /\ link[backlog[d][i]] \in Waiting
             /\ backlog[d][i] # serving[d]
             /\ \A j \in 1..Len(backlog[d]) : backlog[d][i] = backlog[d][j] => i = j
        /\ serving[d] # None => target[serving[d]] = d /\ link[serving[d]] \in Waiting
LinkHome ==
    /\ \A c \in Clients :
         /\ cpc[c] \in {"idle", "dial"} => link[c] = "closed"
         /\ cpc[c] \in {"send", "wait"} => link[c] \notin {"lost_open", "lost_sent"}
    /\ \A d \in Daemons : pc[d] \in {"none", "probe", "dial"} => link[d] = "closed"

\* Who may have DNS settings: a session, or a connect that has just set them,
\* an aborted one included.  Once a client was answered DISCONNECTED the daemon
\* is on its way out, and at its end nothing is left to undo.
DnsHome ==
    \A d \in Daemons :
        /\ session[d] => pc[d] \in {"loop", "serve"}
        /\ dns[d] /\ pc[d] \in {"none", "loop", "serve"} \cup Startup
               => session[d] \/ attempt[d] = "ok"
        /\ dns[d] /\ Leaving(d) => attempt[d] = "ok" \/ "restore_fails" \in Faults
DownHome ==
    \A c \in Clients : link[c] = "down" =>
        /\ target[c] \in Daemons
        /\ pc[target[c]] \in {"rmSocket", "rmState", "drain", "exited", "killed"}
        /\ pc[target[c]] = "exited" =>
               /\ tunnel[target[c]] = "none"
               /\ dns[target[c]] => "restore_fails" \in Faults

SocketInv == SerialBind /\ TakeoverIsSafe /\ ReachableDaemon /\ FileOwner

ReplyInv == QueueHome /\ LinkHome /\ DnsHome /\ DownHome

IInv == TypeOK /\ SocketInv /\ TaskHome /\ PortHome /\ ReplyInv

(* What the project's documents say, checked against the code.              *)

\* "Duplicate daemon connects fail cleanly while a session is active": nobody
\* takes the socket path away from a daemon with a session.
ActiveSessionKeepsSocket ==
    [][\A d \in Daemons : session[d] /\ socket = d => socket' = d]_vars

\* "Stale socket/state files do not block a new connection": `reconnect` does
\* not give up waiting for a socket that no process serves.
StaleSocketDoesNotBlock ==
    [][\A c \in Clients : cpc[c] # "timedout" /\ cpc'[c] = "timedout" => Live(socket)]_vars

\* "Daemon SIGTERM disconnects OpenVPN and restores DNS": one signal is enough.
SigTermDisconnects == \A d \in Daemons : sig[d] = "pending" ~> ~Live(d)

\* "Ctrl-C during daemon startup cancels startup and cleans up": the cancelled
\* daemon leaves no OpenVPN process and no socket behind.
CancelledStartupCleansUp ==
    \A d \in Daemons : pc[d] = "killed" => tunnel[d] = "none" /\ socket # d

=============================================================================
