------------------------ MODULE DaemonTakeover_proofs ------------------------
(***************************************************************************)
(* Who owns the control socket, who has a tunnel, and what a client was    *)
(* told: proofs of the inductive invariant of DaemonControl and of what    *)
(* follows from it.                                                        *)
(***************************************************************************)
EXTENDS DaemonControl_proofs

-----------------------------------------------------------------------------
(* The socket path.  Of everything a step does, these lemmas only need what *)
(* it does to pc and to socket.                                             *)

SameElsewhere(d) == \A e \in Daemons \ {d} : pc'[e] = pc[e]

\* A step of daemon d as the socket path sees it.
SocketStep(d) ==
    \/ pc' = pc /\ socket' = socket
    \/ /\ SameElsewhere(d)
       /\ \/ /\ socket' = socket
             /\ \/ /\ pc[d] = "none" /\ pc'[d] = "probe"
                   /\ "concurrent_starts" \in Faults \/ \A e \in Daemons : pc[e] \notin Binding
                \/ pc[d] \in Binding /\ pc'[d] \in {"dial", "send", "ask"}
                \/ pc[d] = "probe" /\ socket = None /\ pc'[d] = "bind"
                \/ pc[d] = "dial" /\ (socket # None => ~Listening(socket)) /\ pc'[d] = "unlink"
                \/ pc[d] = "unlinkState" /\ pc'[d] = "bind"
                \/ pc[d] \in Bound /\ pc'[d] \in Bound
                \/ pc[d] = "rmState" /\ pc'[d] = "drain"
                \/ Live(d) /\ pc'[d] \in {"exited", "killed"}
          \/ pc[d] = "unlink" /\ pc'[d] = "unlinkState" /\ socket' = None
          \/ pc[d] = "bind" /\ socket = None /\ pc'[d] = "announce" /\ socket' = d
          \/ pc[d] = "rmSocket" /\ pc'[d] = "rmState" /\ socket' = None

\* Every step of a daemon is such a step.
LEMMA DaemonIsSocketStep ==
    ASSUME TypeOK, NEW d \in Daemons, Daemon(d)
    PROVE  SocketStep(d)
<1>1. CASE StartDaemon(d)
  BY <1>1
  DEF StartDaemon, Launch, Goto, TypeOK, ProcsOK, SocketStep, SameElsewhere,
      Live, Listening, Stopped, Binding, Startup, Open, Bound, vpn, files
<1>2. CASE Runner(d)
  BY <1>2
  DEF Runner, Bind, ProbeSocket, DialDaemon, Dial, DialRefused, SendProbe,
      Write, ProbeAnswered, UnlinkStaleSocket, UnlinkStaleState, BindSocket,
      ErrorExit, UndoDns, Crash, Gone, Closed, Goto, FreeAcs, InFlight,
      Leaving, Behind, Announce, SetAttempt, StartupSucceeds, StartupFails,
      RemoveSocket, RemoveState, Drained, TypeOK, ProcsOK, SocketStep,
      SameElsewhere, Live, Listening, Stopped, Binding, Startup, Open, Bound,
      vpn, files
<1>3. CASE ConnectTask(d)
  BY <1>3
  DEF ConnectTask, AttemptWakes, BindAcs, SpawnOpenVpn, Login, ConfigureDns,
      AttemptCancelled, DropSession, AttemptFails, SessionDropped, UndoDns,
      Leaving, Behind, SetAttempt, SetTunnel, Detach, FreeAcs, TypeOK,
      ProcsOK, SocketStep, SameElsewhere, Live, Listening, Stopped, Binding,
      Startup, Open, Bound, vpn, files
<1>4. CASE MonitorTask(d) \/ Environment(d)
  BY <1>4
  DEF MonitorTask, MonitorEnds, FreeAcs, Environment, MonitorStops,
      OpenVpnExits, SetTunnel, TypeOK, ProcsOK, SocketStep, SameElsewhere,
      Live, Listening, Stopped, Binding, Startup, Open, Bound, vpn, files
<1>5. CASE Tick(d)
  BY <1>5
  DEF Tick, TickExit, TickReconnected, TickRetry, TickIdle, DropSignal,
      SetAttempt, SetTunnel, AbortMonitor, ErrorExit, UndoDns, Crash, Gone,
      Closed, Goto, FreeAcs, InFlight, Leaving, Behind, TypeOK, ProcsOK,
      SocketStep, SameElsewhere, Live, Listening, Stopped, Binding, Startup,
      Open, Bound, vpn, files
<1>6. CASE Accept(d) \/ LoopSignal(d)
  BY <1>6
  DEF Accept, Goto, DropSignal, LoopSignal, TakeSession, AbortAttempt,
      SessionDropped, UndoDns, SetTunnel, SetAttempt, Detach, InFlight,
      Leaving, Behind, TypeOK, ProcsOK, SocketStep, SameElsewhere, Live,
      Listening, Stopped, Binding, Startup, Open, Bound, vpn, files
<1>7. CASE ControlLoop(d)
  BY <1>7
  DEF ControlLoop, ServeStatus, Respond, ErrorExit, UndoDns, Crash, Gone,
      Closed, Goto, FreeAcs, InFlight, Leaving, Behind, ServeNothing,
      ServeDisconnect, DropSignal, TakeSession, AbortAttempt, SessionDropped,
      SetTunnel, SetAttempt, Detach, TerminateOpenVpn, RestoreDns,
      AbortMonitor, AfterRestore, ReplyDisconnected, TypeOK, ProcsOK,
      SocketStep, SameElsewhere, Live, Listening, Stopped, Binding, Startup,
      Open, Bound, vpn, files
<1>8. CASE SigKill(d) \/ SigTerm(d) \/ CtrlC(d)
  BY <1>8
  DEF SigKill, ErrorExit, UndoDns, Crash, Gone, Closed, Goto, FreeAcs,
      InFlight, Leaving, Behind, SigTerm, CtrlC, TypeOK, ProcsOK, SocketStep,
      SameElsewhere, Live, Listening, Stopped, Binding, Startup, Open, Bound,
      vpn, files
<1>9. CASE ParentReturns(d) \/ ParentDies(d)
  BY <1>9
  DEF ParentReturns, ParentDies, TypeOK, ProcsOK, SocketStep, SameElsewhere,
      Live, Listening, Stopped, Binding, Startup, Open, Bound, vpn, files
<1>10. QED
  BY <1>1, <1>2, <1>3, <1>4, <1>5, <1>6, <1>7, <1>8, <1>9 DEF Daemon

\* Every step of the specification is such a step of some daemon.
LEMMA NextIsSocketStep ==
    ASSUME TypeOK, Next
    PROVE  (pc' = pc /\ socket' = socket) \/ \E d \in Daemons : SocketStep(d)
<1>1. ASSUME NEW c \in Clients, Client(c)
      PROVE  (pc' = pc /\ socket' = socket) \/ \E d \in Daemons : SocketStep(d)
  BY <1>1
  DEF Client, CliRequest, CliStart, CliGoto, CliDial, Dial, DialRefused,
      Unavailable, Disconnected, CliSend, Write, CliReply, Outcome,
      CliSocketGone, CliTimeout, CliReconnect, Launch, Goto, CliDies, Hangup,
      CliDone, TypeOK, ProcsOK, SocketStep, SameElsewhere, Live, Listening,
      Stopped, Binding, Startup, Open, Bound, vpn, files
<1>2. QED
  BY <1>1, DaemonIsSocketStep DEF Next

\* One such step keeps what the daemons rely on, if bind() is not entered by
\* two processes at once: whoever unlinks the path has seen that nobody
\* listens, and nobody else can have bound it since.
LEMMA SocketInvPreserved ==
    ASSUME TypeOK, SocketInv, "concurrent_starts" \notin Faults,
           NEW d \in Daemons, SocketStep(d)
    PROVE  SocketInv'
<1> USE DaemonControlAssumption
<1>1. pc \in [Daemons -> Stopped \cup Binding \cup Open \cup {"drain"}] /\ socket \in Daemons \cup {None}
  BY DEF TypeOK, ProcsOK, FilesOK
<1>2. SerialBind'
  BY <1>1 DEF SocketInv, SerialBind, SocketStep, SameElsewhere, Binding, Bound
<1>3. ReachableDaemon'
  BY <1>1 DEF SocketInv, SerialBind, TakeoverIsSafe, ReachableDaemon, SocketStep,
      SameElsewhere, Binding, Bound
<1>4. TakeoverIsSafe'
  BY <1>1 DEF SocketInv, SerialBind, TakeoverIsSafe, ReachableDaemon, SocketStep,
      SameElsewhere, Binding, Bound, Listening, Open
<1>5. FileOwner'
  BY <1>1 DEF SocketInv, SerialBind, ReachableDaemon, FileOwner, SocketStep,
      SameElsewhere, Binding, Bound, Live, Stopped
<1>6. QED
  BY <1>2, <1>3, <1>4, <1>5 DEF SocketInv

\* The only step that removes a bound daemon's file is that daemon's own
\* cleanup.
LEMMA SocketStepOwner ==
    ASSUME TypeOK, SocketInv, NEW d \in Daemons, SocketStep(d),
           NEW e \in Daemons, socket = e, socket' # e
    PROVE  pc[e] = "rmSocket" \/ ~Live(e)
BY DaemonControlAssumption
DEF SocketInv, TakeoverIsSafe, ReachableDaemon, FileOwner, SocketStep,
    Binding, Bound, Live, Stopped

-----------------------------------------------------------------------------
(* Connect tasks, OpenVPN processes and the callback port. *)

\* A connect task and its OpenVPN process stay where the runner disposes of them.
LEMMA TaskHomePreserved ==
    ASSUME TypeOK, TaskHome, Next
    PROVE  TaskHome'
<1>1. ASSUME NEW d \in Daemons, Daemon(d)
      PROVE  TaskHome'
  <2>1. CASE StartDaemon(d)
    BY <2>1
    DEF StartDaemon, Launch, Goto, TypeOK, ProcsOK, VpnOK, TaskHome,
        AttemptPhases, Stopped, Binding, Startup, Open, Bound, Live, vpn,
        Leaving, Behind
  <2>2. CASE Runner(d)
    <3>1. CASE Bind(d)
      BY <3>1
      DEF Bind, ProbeSocket, DialDaemon, Dial, DialRefused, SendProbe, Write,
          ProbeAnswered, UnlinkStaleSocket, UnlinkStaleState, BindSocket,
          ErrorExit, UndoDns, Crash, Gone, Closed, Goto, FreeAcs, InFlight,
          Leaving, Behind, TypeOK, ProcsOK, VpnOK, TaskHome, AttemptPhases,
          Stopped, Binding, Startup, Open, Bound, Live, vpn
    <3>2. CASE Announce(d)
      BY <3>2
      DEF Announce, Goto, SetAttempt, TypeOK, ProcsOK, VpnOK, TaskHome,
          AttemptPhases, Stopped, Binding, Startup, Open, Bound, Live, vpn,
          Leaving, Behind
    <3>3. CASE StartupSucceeds(d)
      BY <3>3
      DEF StartupSucceeds, SetAttempt, ErrorExit, UndoDns, Crash, Gone,
          Closed, Goto, FreeAcs, InFlight, Leaving, Behind, TypeOK, ProcsOK,
          VpnOK, TaskHome, AttemptPhases, Stopped, Binding, Startup, Open,
          Bound, Live, vpn
    <3>4. CASE StartupFails(d) \/ RemoveSocket(d)
      BY <3>4
      DEF StartupFails, RemoveSocket, Goto, TypeOK, ProcsOK, VpnOK, TaskHome,
          AttemptPhases, Stopped, Binding, Startup, Open, Bound, Live, vpn,
          Leaving, Behind
    <3>5. CASE RemoveState(d) \/ Drained(d)
      BY <3>5
      DEF RemoveState, Drained, ErrorExit, UndoDns, Crash, Gone, Closed, Goto,
          FreeAcs, InFlight, Leaving, Behind, TypeOK, ProcsOK, VpnOK,
          TaskHome, AttemptPhases, Stopped, Binding, Startup, Open, Bound,
          Live, vpn
    <3>6. QED
      BY <2>2, <3>1, <3>2, <3>3, <3>4, <3>5 DEF Runner
  <2>3. CASE ConnectTask(d)
    <3>1. pc' = pc /\ session' = session
      BY <2>3
      DEF ConnectTask, AttemptWakes, BindAcs, SpawnOpenVpn, Login,
          ConfigureDns, AttemptCancelled, DropSession
    <3>2. CASE AttemptWakes(d) \/ BindAcs(d) \/ SpawnOpenVpn(d)
      BY <3>1, <3>2
      DEF AttemptWakes, BindAcs, SpawnOpenVpn, AttemptFails, Leaving, Behind,
          SetAttempt, SetTunnel, TypeOK, ProcsOK, VpnOK, TaskHome,
          AttemptPhases, Stopped, Binding, Open, Bound
    <3>3. CASE Login(d) \/ ConfigureDns(d)
      BY <3>1, <3>3
      DEF Login, ConfigureDns, AttemptFails, Leaving, Behind, SetAttempt,
          SetTunnel, TypeOK, ProcsOK, VpnOK, TaskHome, AttemptPhases, Stopped,
          Binding, Open, Bound
    <3>4. CASE AttemptCancelled(d) \/ DropSession(d)
      BY <3>1, <3>4
      DEF AttemptCancelled, DropSession, AttemptFails, SessionDropped,
          UndoDns, SetAttempt, SetTunnel, TypeOK, ProcsOK, VpnOK, TaskHome,
          AttemptPhases, Stopped, Binding, Open, Bound, Leaving, Behind
    <3>5. QED
      BY <2>3, <3>2, <3>3, <3>4 DEF ConnectTask
  <2>4. CASE MonitorTask(d) \/ Environment(d)
    BY <2>4
    DEF MonitorTask, MonitorEnds, FreeAcs, Environment, MonitorStops,
        OpenVpnExits, SetTunnel, TypeOK, ProcsOK, VpnOK, TaskHome,
        AttemptPhases, Stopped, Binding, Startup, Open, Bound, Live, vpn,
        Leaving, Behind
  <2>5. CASE Tick(d)
    <3>1. CASE TickExit(d)
      BY <2>5, <3>1
      DEF Tick, TickExit, DropSignal, SetAttempt, SetTunnel, AbortMonitor,
          ErrorExit, UndoDns, Crash, Gone, Closed, Goto, FreeAcs, InFlight,
          Leaving, Behind, TypeOK, ProcsOK, VpnOK, TaskHome, AttemptPhases,
          Stopped, Binding, Startup, Open, Bound, Live, vpn
    <3>2. CASE TickReconnected(d)
      BY <2>5, <3>2
      DEF Tick, TickReconnected, DropSignal, SetAttempt, ErrorExit, UndoDns,
          Crash, Gone, Closed, Goto, FreeAcs, InFlight, Leaving, Behind,
          TypeOK, ProcsOK, VpnOK, TaskHome, AttemptPhases, Stopped, Binding,
          Startup, Open, Bound, Live, vpn
    <3>3. CASE TickRetry(d) \/ TickIdle(d)
      BY <2>5, <3>3
      DEF Tick, TickRetry, TickIdle, DropSignal, SetAttempt, InFlight,
          Leaving, Behind, TypeOK, ProcsOK, VpnOK, TaskHome, AttemptPhases,
          Stopped, Binding, Startup, Open, Bound, Live, vpn
    <3>4. QED
      BY <2>5, <3>1, <3>2, <3>3 DEF Tick
  <2>6. CASE Accept(d) \/ LoopSignal(d)
    BY <2>6
    DEF Accept, Goto, DropSignal, LoopSignal, TakeSession, AbortAttempt,
        SessionDropped, UndoDns, SetTunnel, SetAttempt, Detach, InFlight,
        Leaving, Behind, TypeOK, ProcsOK, VpnOK, TaskHome, AttemptPhases,
        Stopped, Binding, Startup, Open, Bound, Live, vpn
  <2>7. CASE ControlLoop(d)
    <3>1. CASE ServeStatus(d)
      BY <3>1
      DEF ServeStatus, Respond, ErrorExit, UndoDns, Crash, Gone, Closed, Goto,
          FreeAcs, InFlight, Leaving, Behind, TypeOK, ProcsOK, VpnOK,
          TaskHome, AttemptPhases, Stopped, Binding, Startup, Open, Bound,
          Live, vpn
    <3>2. CASE ServeNothing(d)
      BY <3>2
      DEF ServeNothing, ErrorExit, UndoDns, Crash, Gone, Closed, Goto,
          FreeAcs, InFlight, Leaving, Behind, TypeOK, ProcsOK, VpnOK,
          TaskHome, AttemptPhases, Stopped, Binding, Startup, Open, Bound,
          Live, vpn
    <3>3. CASE ServeDisconnect(d)
      BY <3>3
      DEF ServeDisconnect, DropSignal, TakeSession, AbortAttempt,
          SessionDropped, UndoDns, SetTunnel, SetAttempt, Detach, Goto,
          InFlight, Leaving, Behind, TypeOK, ProcsOK, VpnOK, TaskHome,
          AttemptPhases, Stopped, Binding, Startup, Open, Bound, Live, vpn
    <3>4. CASE TerminateOpenVpn(d)
      BY <3>4
      DEF TerminateOpenVpn, SetTunnel, Goto, TypeOK, ProcsOK, VpnOK, TaskHome,
          AttemptPhases, Stopped, Binding, Startup, Open, Bound, Live, vpn,
          Leaving, Behind
    <3>5. CASE RestoreDns(d)
      BY <3>5
      DEF RestoreDns, AbortMonitor, AfterRestore, Goto, TypeOK, ProcsOK,
          VpnOK, TaskHome, AttemptPhases, Stopped, Binding, Startup, Open,
          Bound, Live, vpn, Leaving, Behind
    <3>6. CASE ReplyDisconnected(d)
      BY <3>6
      DEF ReplyDisconnected, Respond, ErrorExit, UndoDns, Crash, Gone, Closed,
          Goto, FreeAcs, InFlight, Leaving, Behind, TypeOK, ProcsOK, VpnOK,
          TaskHome, AttemptPhases, Stopped, Binding, Startup, Open, Bound,
          Live, vpn
    <3>7. QED
      BY <2>7, <3>1, <3>2, <3>3, <3>4, <3>5, <3>6 DEF ControlLoop
  <2>8. CASE SigKill(d) \/ SigTerm(d) \/ CtrlC(d)
    BY <2>8
    DEF SigKill, ErrorExit, UndoDns, Crash, Gone, Closed, Goto, FreeAcs,
        InFlight, Leaving, Behind, SigTerm, CtrlC, TypeOK, ProcsOK, VpnOK,
        TaskHome, AttemptPhases, Stopped, Binding, Startup, Open, Bound, Live,
        vpn
  <2>9. CASE ParentReturns(d) \/ ParentDies(d)
    BY <2>9
    DEF ParentReturns, ParentDies, TypeOK, ProcsOK, VpnOK, TaskHome,
        AttemptPhases, Stopped, Binding, Startup, Open, Bound, Live, vpn,
        Leaving, Behind
  <2>10. QED
    BY <1>1, <2>1, <2>2, <2>3, <2>4, <2>5, <2>6, <2>7, <2>8, <2>9 DEF Daemon
<1>2. ASSUME NEW c \in Clients, Client(c)
      PROVE  TaskHome'
  BY <1>2
  DEF Client, CliRequest, CliStart, CliGoto, CliDial, Dial, DialRefused,
      Unavailable, Disconnected, CliSend, Write, CliReply, Outcome,
      CliSocketGone, CliTimeout, CliReconnect, Launch, Goto, CliDies, Hangup,
      CliDone, TypeOK, ProcsOK, VpnOK, TaskHome, AttemptPhases, Stopped,
      Binding, Startup, Open, Bound, Live, vpn, Leaving, Behind
<1>3. QED
  BY <1>1, <1>2 DEF Next

\* The callback port stays with the task that bound it.
LEMMA PortHomePreserved ==
    ASSUME TypeOK, TaskHome, PortHome, Next
    PROVE  PortHome'
<1>1. ASSUME NEW d \in Daemons, Daemon(d)
      PROVE  PortHome'
  <2>1. CASE StartDaemon(d)
    BY <2>1
    DEF StartDaemon, Launch, Goto, TypeOK, ProcsOK, VpnOK, TaskHome, PortHome,
        AttemptPhases, Stopped, Binding, Startup, Open, Bound, Live, vpn,
        Leaving, Behind
  <2>2. CASE Runner(d)
    <3>1. CASE Bind(d)
      BY <3>1
      DEF Bind, ProbeSocket, DialDaemon, Dial, DialRefused, SendProbe, Write,
          ProbeAnswered, UnlinkStaleSocket, UnlinkStaleState, BindSocket,
          ErrorExit, UndoDns, Crash, Gone, Closed, Goto, FreeAcs, InFlight,
          Leaving, Behind, TypeOK, ProcsOK, VpnOK, TaskHome, PortHome,
          AttemptPhases, Stopped, Binding, Startup, Open, Bound, Live, vpn
    <3>2. CASE Announce(d)
      BY <3>2
      DEF Announce, Goto, SetAttempt, TypeOK, ProcsOK, VpnOK, TaskHome,
          PortHome, AttemptPhases, Stopped, Binding, Startup, Open, Bound,
          Live, vpn, Leaving, Behind
    <3>3. CASE StartupSucceeds(d)
      BY <3>3
      DEF StartupSucceeds, SetAttempt, ErrorExit, UndoDns, Crash, Gone,
          Closed, Goto, FreeAcs, InFlight, Leaving, Behind, TypeOK, ProcsOK,
          VpnOK, TaskHome, PortHome, AttemptPhases, Stopped, Binding, Startup,
          Open, Bound, Live, vpn
    <3>4. CASE StartupFails(d) \/ RemoveSocket(d)
      BY <3>4
      DEF StartupFails, RemoveSocket, Goto, TypeOK, ProcsOK, VpnOK, TaskHome,
          PortHome, AttemptPhases, Stopped, Binding, Startup, Open, Bound,
          Live, vpn, Leaving, Behind
    <3>5. CASE RemoveState(d) \/ Drained(d)
      BY <3>5
      DEF RemoveState, Drained, ErrorExit, UndoDns, Crash, Gone, Closed, Goto,
          FreeAcs, InFlight, Leaving, Behind, TypeOK, ProcsOK, VpnOK,
          TaskHome, PortHome, AttemptPhases, Stopped, Binding, Startup, Open,
          Bound, Live, vpn
    <3>6. QED
      BY <2>2, <3>1, <3>2, <3>3, <3>4, <3>5 DEF Runner
  <2>3. CASE ConnectTask(d)
    <3>1. pc' = pc
      BY <2>3 DEF ConnectTask
    <3>2. CASE AttemptWakes(d)
      BY <3>1, <3>2, DaemonControlAssumption
      DEF AttemptWakes, SetAttempt, SetTunnel, Detach, FreeAcs, TypeOK,
          ProcsOK, VpnOK, AttemptPhases, TaskHome, PortHome, Live, Stopped,
          Binding, Bound, Open, Leaving, Behind
    <3>3. CASE BindAcs(d)
      BY <3>1, <3>3, DaemonControlAssumption
      DEF BindAcs, SetAttempt, SetTunnel, Detach, FreeAcs, TypeOK, ProcsOK,
          VpnOK, AttemptPhases, TaskHome, PortHome, Live, Stopped, Binding,
          Bound, Open, Leaving, Behind, AttemptFails
    <3>4. CASE SpawnOpenVpn(d)
      BY <3>1, <3>4, DaemonControlAssumption
      DEF SpawnOpenVpn, SetAttempt, SetTunnel, Detach, FreeAcs, TypeOK,
          ProcsOK, VpnOK, AttemptPhases, TaskHome, PortHome, Live, Stopped,
          Binding, Bound, Open, Leaving, Behind, AttemptFails
    <3>5. CASE Login(d)
      BY <3>1, <3>5, DaemonControlAssumption
      DEF Login, SetAttempt, SetTunnel, Detach, FreeAcs, TypeOK, ProcsOK,
          VpnOK, AttemptPhases, TaskHome, PortHome, Live, Stopped, Binding,
          Bound, Open, Leaving, Behind, AttemptFails
    <3>6. CASE ConfigureDns(d)
      BY <3>1, <3>6, DaemonControlAssumption
      DEF ConfigureDns, SetAttempt, SetTunnel, Detach, FreeAcs, TypeOK,
          ProcsOK, VpnOK, AttemptPhases, TaskHome, PortHome, Live, Stopped,
          Binding, Bound, Open, Leaving, Behind, AttemptFails
    <3>7. CASE AttemptCancelled(d)
      BY <3>1, <3>7, DaemonControlAssumption
      DEF AttemptCancelled, DropSession, AttemptFails, SessionDropped,
          UndoDns, Leaving, Behind, SetAttempt, SetTunnel, Detach, FreeAcs,
          TypeOK, ProcsOK, VpnOK, AttemptPhases, TaskHome, PortHome, Live,
          Stopped, Binding, Bound, Open
    <3>8. CASE DropSession(d)
      BY <3>1, <3>8, DaemonControlAssumption
      DEF DropSession, SessionDropped, SetAttempt, SetTunnel, Detach, TypeOK,
          ProcsOK, VpnOK, AttemptPhases, TaskHome, PortHome, Live, Stopped,
          Binding, Bound, Open, Leaving, Behind
    <3>9. QED
      BY <2>3, <3>2, <3>3, <3>4, <3>5, <3>6, <3>7, <3>8 DEF ConnectTask
  <2>4. CASE MonitorTask(d) \/ Environment(d)
    BY <2>4
    DEF MonitorTask, MonitorEnds, FreeAcs, Environment, MonitorStops,
        OpenVpnExits, SetTunnel, TypeOK, ProcsOK, VpnOK, TaskHome, PortHome,
        AttemptPhases, Stopped, Binding, Startup, Open, Bound, Live, vpn,
        Leaving, Behind
  <2>5. CASE Tick(d)
    <3>1. CASE TickExit(d)
      BY <2>5, <3>1
      DEF Tick, TickExit, DropSignal, SetAttempt, SetTunnel, AbortMonitor,
          ErrorExit, UndoDns, Crash, Gone, Closed, Goto, FreeAcs, InFlight,
          Leaving, Behind, TypeOK, ProcsOK, VpnOK, TaskHome, PortHome,
          AttemptPhases, Stopped, Binding, Startup, Open, Bound, Live, vpn
    <3>2. CASE TickReconnected(d)
      BY <2>5, <3>2
      DEF Tick, TickReconnected, DropSignal, SetAttempt, ErrorExit, UndoDns,
          Crash, Gone, Closed, Goto, FreeAcs, InFlight, Leaving, Behind,
          TypeOK, ProcsOK, VpnOK, TaskHome, PortHome, AttemptPhases, Stopped,
          Binding, Startup, Open, Bound, Live, vpn
    <3>3. CASE TickRetry(d) \/ TickIdle(d)
      BY <2>5, <3>3
      DEF Tick, TickRetry, TickIdle, DropSignal, SetAttempt, InFlight,
          Leaving, Behind, TypeOK, ProcsOK, VpnOK, TaskHome, PortHome,
          AttemptPhases, Stopped, Binding, Startup, Open, Bound, Live, vpn
    <3>4. QED
      BY <2>5, <3>1, <3>2, <3>3 DEF Tick
  <2>6. CASE Accept(d) \/ LoopSignal(d)
    BY <2>6
    DEF Accept, Goto, DropSignal, LoopSignal, TakeSession, AbortAttempt,
        SessionDropped, UndoDns, SetTunnel, SetAttempt, Detach, InFlight,
        Leaving, Behind, TypeOK, ProcsOK, VpnOK, TaskHome, PortHome,
        AttemptPhases, Stopped, Binding, Startup, Open, Bound, Live, vpn
  <2>7. CASE ControlLoop(d)
    <3>1. CASE ServeStatus(d)
      BY <3>1
      DEF ServeStatus, Respond, ErrorExit, UndoDns, Crash, Gone, Closed, Goto,
          FreeAcs, InFlight, Leaving, Behind, TypeOK, ProcsOK, VpnOK,
          TaskHome, PortHome, AttemptPhases, Stopped, Binding, Startup, Open,
          Bound, Live, vpn
    <3>2. CASE ServeNothing(d)
      BY <3>2
      DEF ServeNothing, ErrorExit, UndoDns, Crash, Gone, Closed, Goto,
          FreeAcs, InFlight, Leaving, Behind, TypeOK, ProcsOK, VpnOK,
          TaskHome, PortHome, AttemptPhases, Stopped, Binding, Startup, Open,
          Bound, Live, vpn
    <3>3. CASE ServeDisconnect(d)
      BY <3>3
      DEF ServeDisconnect, DropSignal, TakeSession, AbortAttempt,
          SessionDropped, UndoDns, SetTunnel, SetAttempt, Detach, Goto,
          InFlight, Leaving, Behind, TypeOK, ProcsOK, VpnOK, TaskHome,
          PortHome, AttemptPhases, Stopped, Binding, Startup, Open, Bound,
          Live, vpn
    <3>4. CASE TerminateOpenVpn(d)
      BY <3>4
      DEF TerminateOpenVpn, SetTunnel, Goto, TypeOK, ProcsOK, VpnOK, TaskHome,
          PortHome, AttemptPhases, Stopped, Binding, Startup, Open, Bound,
          Live, vpn, Leaving, Behind
    <3>5. CASE RestoreDns(d)
      BY <3>5
      DEF RestoreDns, AbortMonitor, AfterRestore, Goto, TypeOK, ProcsOK,
          VpnOK, TaskHome, PortHome, AttemptPhases, Stopped, Binding, Startup,
          Open, Bound, Live, vpn, Leaving, Behind
    <3>6. CASE ReplyDisconnected(d)
      BY <3>6
      DEF ReplyDisconnected, Respond, ErrorExit, UndoDns, Crash, Gone, Closed,
          Goto, FreeAcs, InFlight, Leaving, Behind, TypeOK, ProcsOK, VpnOK,
          TaskHome, PortHome, AttemptPhases, Stopped, Binding, Startup, Open,
          Bound, Live, vpn
    <3>7. QED
      BY <2>7, <3>1, <3>2, <3>3, <3>4, <3>5, <3>6 DEF ControlLoop
  <2>8. CASE SigKill(d) \/ SigTerm(d) \/ CtrlC(d)
    BY <2>8
    DEF SigKill, ErrorExit, UndoDns, Crash, Gone, Closed, Goto, FreeAcs,
        InFlight, Leaving, Behind, SigTerm, CtrlC, TypeOK, ProcsOK, VpnOK,
        TaskHome, PortHome, AttemptPhases, Stopped, Binding, Startup, Open,
        Bound, Live, vpn
  <2>9. CASE ParentReturns(d) \/ ParentDies(d)
    BY <2>9
    DEF ParentReturns, ParentDies, TypeOK, ProcsOK, VpnOK, TaskHome, PortHome,
        AttemptPhases, Stopped, Binding, Startup, Open, Bound, Live, vpn,
        Leaving, Behind
  <2>10. QED
    BY <1>1, <2>1, <2>2, <2>3, <2>4, <2>5, <2>6, <2>7, <2>8, <2>9 DEF Daemon
<1>2. ASSUME NEW c \in Clients, Client(c)
      PROVE  PortHome'
  BY <1>2
  DEF Client, CliRequest, CliStart, CliGoto, CliDial, Dial, DialRefused,
      Unavailable, Disconnected, CliSend, Write, CliReply, Outcome,
      CliSocketGone, CliTimeout, CliReconnect, Launch, Goto, CliDies, Hangup,
      CliDone, TypeOK, ProcsOK, VpnOK, TaskHome, PortHome, AttemptPhases,
      Stopped, Binding, Startup, Open, Bound, Live, vpn, Leaving, Behind
<1>3. QED
  BY <1>1, <1>2 DEF Next

\* Whoever has the callback port has a task that uses it.
LEMMA PortUserPreserved ==
    ASSUME TypeOK, TaskHome, PortHome, PortHasUser, Next
    PROVE  PortHasUser'
<1> USE DaemonControlAssumption
<1>1. ASSUME NEW d \in Daemons, Daemon(d)
      PROVE  PortHasUser'
  <2>1. CASE StartDaemon(d)
    BY <2>1
    DEF StartDaemon, Launch, PortHasUser, TypeOK, VpnOK, AttemptPhases, vpn
  <2>2. CASE Runner(d)
    BY <2>2
    DEF Runner, Bind, ProbeSocket, DialDaemon, SendProbe, ProbeAnswered,
        UnlinkStaleSocket, UnlinkStaleState, BindSocket, Announce, SetAttempt,
        TaskHome, StartupSucceeds, StartupFails, RemoveSocket, RemoveState,
        Drained, ErrorExit, UndoDns, Crash, Gone, Closed, Goto, FreeAcs,
        InFlight, Leaving, Behind, PortHasUser, TypeOK, VpnOK, AttemptPhases,
        vpn
  <2>3. CASE ConnectTask(d)
    BY <2>3
    DEF ConnectTask, AttemptWakes, BindAcs, SpawnOpenVpn, Login, ConfigureDns,
        AttemptCancelled, DropSession, AttemptFails, SessionDropped, UndoDns,
        Leaving, Behind, SetAttempt, Detach, FreeAcs, PortHome, PortHasUser,
        TypeOK, VpnOK, AttemptPhases, vpn
  <2>4. CASE MonitorTask(d) \/ Environment(d)
    BY <2>4
    DEF MonitorTask, MonitorEnds, FreeAcs, Environment, MonitorStops,
        OpenVpnExits, PortHome, PortHasUser, TypeOK, VpnOK, AttemptPhases, vpn
  <2>5. CASE Tick(d)
    BY <2>5
    DEF Tick, TickExit, TickReconnected, TickRetry, TickIdle, SetAttempt,
        AbortMonitor, TaskHome, ErrorExit, UndoDns, Crash, Gone, Closed, Goto,
        FreeAcs, InFlight, Leaving, Behind, PortHasUser, TypeOK, VpnOK,
        AttemptPhases, vpn
  <2>6. CASE Accept(d) \/ LoopSignal(d)
    BY <2>6
    DEF Accept, LoopSignal, DropSignal, TakeSession, AbortAttempt,
        SessionDropped, UndoDns, SetTunnel, SetAttempt, Detach, InFlight,
        Leaving, Behind, PortHasUser, TypeOK, VpnOK, AttemptPhases, vpn
  <2>7. CASE ControlLoop(d)
    BY <2>7
    DEF ControlLoop, ServeStatus, ServeNothing, ServeDisconnect, DropSignal,
        TakeSession, AbortAttempt, SessionDropped, UndoDns, SetTunnel,
        SetAttempt, Detach, TerminateOpenVpn, RestoreDns, AbortMonitor,
        ReplyDisconnected, ErrorExit, Crash, Gone, Closed, Goto, FreeAcs,
        InFlight, Leaving, Behind, PortHasUser, TypeOK, VpnOK, AttemptPhases,
        vpn
  <2>8. CASE SigKill(d) \/ SigTerm(d) \/ CtrlC(d)
    BY <2>8
    DEF SigKill, SigTerm, CtrlC, ErrorExit, UndoDns, Crash, Gone, Closed,
        Goto, FreeAcs, InFlight, Leaving, Behind, PortHasUser, TypeOK, VpnOK,
        AttemptPhases, vpn
  <2>9. CASE ParentReturns(d) \/ ParentDies(d)
    BY <2>9
    DEF ParentReturns, ParentDies, PortHasUser, TypeOK, VpnOK, AttemptPhases,
        vpn
  <2>10. QED
    BY <1>1, <2>1, <2>2, <2>3, <2>4, <2>5, <2>6, <2>7, <2>8, <2>9 DEF Daemon
<1>2. ASSUME NEW c \in Clients, Client(c)
      PROVE  PortHasUser'
  BY <1>2
  DEF Client, CliRequest, CliStart, CliDial, CliSend, CliReply, CliSocketGone,
      CliTimeout, CliReconnect, Launch, CliDies, CliDone, PortHasUser, TypeOK,
      VpnOK, AttemptPhases, vpn
<1>3. QED
  BY <1>1, <1>2 DEF Next

-----------------------------------------------------------------------------
(* Connections and replies.  The ways in which a step touches the listener  *)
(* queues: a connection is made, accepted, answered or written to, a        *)
(* process ends.                                                            *)

\* A step that moves no connection.
LEMMA QueuesKept ==
    ASSUME QueueHome, UNCHANGED <<backlog, serving, link, target>>
    PROVE  QueueHome'
BY DEF QueueHome

\* What is queued is a peer, and nobody is a process called None.
LEMMA QueuedPeers ==
    ASSUME TypeOK, NEW d \in Daemons
    PROVE  /\ backlog[d] \in Seq(Peers) /\ Len(backlog[d]) \in Nat
           /\ \A i \in 1..Len(backlog[d]) : backlog[d][i] \in Peers
           /\ serving[d] # None => serving[d] \in Peers
           /\ None \notin Peers
<1>1. backlog[d] \in Seq(Peers) /\ serving[d] \in Peers \cup {None}
  BY DEF TypeOK, QueueOK
<1>2. QED
  BY <1>1, DaemonControlAssumption DEF Peers

\* A connection is appended to the queue of the daemon it was made to.
LEMMA QueuesDialled ==
    ASSUME TypeOK, QueueHome, NEW p \in Peers, link[p] = "closed", Dial(p)
    PROVE  QueueHome'
<1>1. socket \in Daemons
  BY DEF Dial, TypeOK, FilesOK
<1>2. ASSUME NEW d \in Daemons
      PROVE  /\ \A i \in 1..Len(backlog'[d]) :
                  /\ target'[backlog'[d][i]] = d /\ link'[backlog'[d][i]] \in Waiting
                  /\ backlog'[d][i] # serving'[d]
                  /\ \A j \in 1..Len(backlog'[d]) : backlog'[d][i] = backlog'[d][j] => i = j
             /\ serving'[d] # None => target'[serving'[d]] = d /\ link'[serving'[d]] \in Waiting
  <2>1. /\ \A i \in 1..Len(backlog[d]) : backlog[d][i] # p /\ backlog[d][i] \in Peers
        /\ serving[d] # p
        /\ serving[d] # None => serving[d] \in Peers
    BY QueuedPeers DEF QueueHome, Waiting
  <2>2. /\ serving' = serving
        /\ \A q \in Peers \ {p} : link'[q] = link[q] /\ target'[q] = target[q]
        /\ link'[p] = "open" /\ target'[p] = socket
    BY DEF Dial, TypeOK, ConnsOK
  <2>3. CASE d # socket
    <3>1. backlog'[d] = backlog[d]
      BY <2>3 DEF Dial, TypeOK, QueueOK
    <3>2. QED
      BY <2>1, <2>2, <3>1 DEF QueueHome
  <2>4. CASE d = socket
    <3>1. backlog'[d] = Append(backlog[d], p)
      BY <1>1, <2>4 DEF Dial, TypeOK, QueueOK
    <3>2. /\ Len(backlog'[d]) = Len(backlog[d]) + 1 /\ Len(backlog[d]) \in Nat
          /\ \A i \in 1..Len(backlog[d]) : backlog'[d][i] = backlog[d][i]
          /\ backlog'[d][Len(backlog[d]) + 1] = p
      BY <3>1, QueuedPeers
    <3>3. \A i \in 1..Len(backlog'[d]) : i \in 1..Len(backlog[d]) \/ i = Len(backlog[d]) + 1
      BY <3>2
    <3>4. \A i \in 1..Len(backlog'[d]) :
            target'[backlog'[d][i]] = d /\ link'[backlog'[d][i]] \in Waiting
      BY <2>1, <2>2, <2>4, <3>2, <3>3 DEF QueueHome, Waiting
    <3>5. \A i \in 1..Len(backlog'[d]) : backlog'[d][i] # serving'[d]
      BY <2>1, <2>2, <3>2, <3>3 DEF QueueHome
    <3>6. \A i, j \in 1..Len(backlog'[d]) : backlog'[d][i] = backlog'[d][j] => i = j
      <4>1. \A i, j \in 1..Len(backlog[d]) : backlog[d][i] = backlog[d][j] => i = j
        BY DEF QueueHome
      <4>2. QED
        BY <2>1, <3>2, <3>3, <4>1
    <3>7. serving'[d] # None => target'[serving'[d]] = d /\ link'[serving'[d]] \in Waiting
      BY <2>1, <2>2 DEF QueueHome
    <3>8. QED
      BY <3>4, <3>5, <3>6, <3>7
  <2>5. QED
    BY <2>3, <2>4
<1>3. QED
  BY <1>2 DEF QueueHome

\* The reply to the connection being served ends it.
LEMMA QueuesAnswered ==
    ASSUME TypeOK, QueueHome, NEW d \in Daemons, NEW answer, Respond(d, answer)
    PROVE  QueueHome'
<1>1. ASSUME NEW e \in Daemons
      PROVE  /\ \A i \in 1..Len(backlog'[e]) :
                  /\ target'[backlog'[e][i]] = e /\ link'[backlog'[e][i]] \in Waiting
                  /\ backlog'[e][i] # serving'[e]
                  /\ \A j \in 1..Len(backlog'[e]) : backlog'[e][i] = backlog'[e][j] => i = j
             /\ serving'[e] # None => target'[serving'[e]] = e /\ link'[serving'[e]] \in Waiting
  <2>1. /\ backlog' = backlog /\ target' = target
        /\ \A q \in Peers : q # serving[d] => link'[q] = link[q]
        /\ serving'[d] = None
        /\ e # d => serving'[e] = serving[e]
    BY DEF Respond, TypeOK, QueueOK, ConnsOK
  <2>2. \A i \in 1..Len(backlog[e]) : backlog[e][i] # serving[d] /\ backlog[e][i] \in Peers
    <3>1. \A i \in 1..Len(backlog[e]) : backlog[e][i] \in Peers /\ backlog[e][i] # None
      BY QueuedPeers
    <3>2. QED
      BY <3>1 DEF QueueHome
  <2>3. e # d /\ serving[e] # None => serving[e] # serving[d] /\ serving[e] \in Peers
    BY QueuedPeers DEF QueueHome
  <2>4. \A i \in 1..Len(backlog[e]) : backlog[e][i] # None
    BY QueuedPeers
  <2>5. QED
    BY <2>1, <2>2, <2>3, <2>4 DEF QueueHome
<1>2. QED
  BY <1>1 DEF QueueHome

\* The listener of daemon d closes: its own connections go, the others stay.
LEMMA QueuesClosed ==
    ASSUME TypeOK, QueueHome, NEW d \in Daemons, Closed(d)
    PROVE  QueueHome'
<1>1. ASSUME NEW e \in Daemons
      PROVE  /\ \A i \in 1..Len(backlog'[e]) :
                  /\ target'[backlog'[e][i]] = e /\ link'[backlog'[e][i]] \in Waiting
                  /\ backlog'[e][i] # serving'[e]
                  /\ \A j \in 1..Len(backlog'[e]) : backlog'[e][i] = backlog'[e][j] => i = j
             /\ serving'[e] # None => target'[serving'[e]] = e /\ link'[serving'[e]] \in Waiting
  <2>1. CASE e = d
    <3>1. backlog'[e] = <<>> /\ serving'[e] = None
      BY <2>1 DEF Closed, TypeOK, QueueOK
    <3>2. Len(backlog'[e]) = 0
      BY <3>1
    <3>3. QED
      BY <3>1, <3>2
  <2>2. CASE e # d
    <3>1. backlog'[e] = backlog[e] /\ serving'[e] = serving[e] /\ target' = target
      BY <2>2 DEF Closed, TypeOK, QueueOK
    <3>2. \A q \in Peers : target[q] = e /\ link[q] \in Waiting => link'[q] \in Waiting
      BY <2>2 DEF Closed, LinksAfter, Held, Hangup, Waiting
    <3>3. QED
      BY <3>1, <3>2, QueuedPeers DEF QueueHome
  <2>3. QED
    BY <2>1, <2>2
<1>2. QED
  BY <1>1 DEF QueueHome

\* So they do when its process ends.
LEMMA QueuesGone ==
    ASSUME TypeOK, QueueHome, NEW d \in Daemons, NEW how, Gone(d, how)
    PROVE  QueueHome'
BY QueuesClosed DEF Gone

\* The first of the queue is accepted.
LEMMA QueuesAccepted ==
    ASSUME TypeOK, QueueHome, NEW d \in Daemons, Accept(d)
    PROVE  QueueHome'
<1>1. ASSUME NEW e \in Daemons
      PROVE  /\ \A i \in 1..Len(backlog'[e]) :
                  /\ target'[backlog'[e][i]] = e /\ link'[backlog'[e][i]] \in Waiting
                  /\ backlog'[e][i] # serving'[e]
                  /\ \A j \in 1..Len(backlog'[e]) : backlog'[e][i] = backlog'[e][j] => i = j
             /\ serving'[e] # None => target'[serving'[e]] = e /\ link'[serving'[e]] \in Waiting
  <2>0. link' = link /\ target' = target
    BY DEF Accept, conns
  <2>1. CASE e = d
    <3>1. /\ backlog'[d] = Tail(backlog[d]) /\ serving'[d] = Head(backlog[d])
          /\ backlog[d] # <<>> /\ backlog[d] \in Seq(Peers)
      BY DEF Accept, TypeOK, QueueOK
    <3>2. /\ Len(backlog'[d]) = Len(backlog[d]) - 1 /\ Len(backlog[d]) \in Nat
          /\ 1 \in 1..Len(backlog[d]) /\ Head(backlog[d]) = backlog[d][1]
          /\ \A i \in 1..Len(backlog'[d]) : backlog'[d][i] = backlog[d][i + 1]
      BY <3>1
    <3>3. \A i \in 1..Len(backlog'[d]) : i + 1 \in 1..Len(backlog[d]) /\ i + 1 # 1
      BY <3>2
    <3>4. \A i \in 1..Len(backlog'[d]) :
            /\ target'[backlog'[d][i]] = d /\ link'[backlog'[d][i]] \in Waiting
            /\ backlog'[d][i] # serving'[d]
      BY <2>0, <3>1, <3>2, <3>3 DEF QueueHome
    <3>5. \A i, j \in 1..Len(backlog'[d]) : backlog'[d][i] = backlog'[d][j] => i + 1 = j + 1
      <4>1. \A i, j \in 1..Len(backlog[d]) : backlog[d][i] = backlog[d][j] => i = j
        BY DEF QueueHome
      <4>2. SUFFICES ASSUME NEW i \in 1..Len(backlog'[d]), NEW j \in 1..Len(backlog'[d]),
                            backlog'[d][i] = backlog'[d][j]
                     PROVE  i + 1 = j + 1
        OBVIOUS
      <4>3. i + 1 \in 1..Len(backlog[d]) /\ j + 1 \in 1..Len(backlog[d])
        BY <3>3
      <4>4. backlog[d][i + 1] = backlog[d][j + 1]
        BY <3>2, <4>2
      <4>5. QED
        BY <4>1, <4>3, <4>4
    <3>6. target'[serving'[d]] = d /\ link'[serving'[d]] \in Waiting
      BY <2>0, <3>1, <3>2 DEF QueueHome
    <3>7. \A i, j \in 1..Len(backlog'[d]) : i + 1 = j + 1 => i = j
      OBVIOUS
    <3>8. QED
      BY <2>1, <3>4, <3>5, <3>6, <3>7
  <2>2. CASE e # d
    <3>1. backlog'[e] = backlog[e] /\ serving'[e] = serving[e]
      BY <2>2 DEF Accept, TypeOK, QueueOK
    <3>2. QED
      BY <2>0, <3>1 DEF QueueHome
  <2>3. QED
    BY <2>1, <2>2
<1>2. QED
  BY <1>1 DEF QueueHome

\* A peer writes its request, closes its end or dies; one that waits in a queue
\* stays there.
LEMMA QueuesRelinked ==
    ASSUME TypeOK, QueueHome, NEW p \in Peers, UNCHANGED <<backlog, serving, target>>,
           NEW x, link' = [link EXCEPT ![p] = x], link[p] \in Waiting => x \in Waiting
    PROVE  QueueHome'
<1>1. \A q \in Peers : link[q] \in Waiting => link'[q] \in Waiting
  BY DEF TypeOK, ConnsOK
<1>2. QED
  BY <1>1, QueuedPeers DEF QueueHome

\* Every connection stays in the one place it waits in.
LEMMA QueueHomePreserved ==
    ASSUME TypeOK, QueueHome, LinkHome, Next
    PROVE  QueueHome'
<1>g. ASSUME NEW d \in Daemons, Crash(d) \/ ErrorExit(d)
      PROVE  QueueHome'
  BY <1>g, QueuesGone DEF Crash, ErrorExit
<1>r. ASSUME NEW d \in Daemons, NEW answer, Respond(d, answer)
      PROVE  QueueHome'
  BY <1>r, QueuesAnswered
<1>k. (UNCHANGED <<queue, conns>>) => QueueHome'
  BY QueuesKept DEF queue, conns
<1>1. ASSUME NEW d \in Daemons, Daemon(d)
      PROVE  QueueHome'
  <2>0. d \in Peers
    BY DEF Peers
  <2>1. CASE DialDaemon(d)
    BY <1>g, <1>k, <2>0, <2>1, QueuesDialled DEF DialDaemon, DialRefused, LinkHome
  <2>2. CASE SendProbe(d)
    <3>1. /\ UNCHANGED <<backlog, serving, target>>
          /\ link' = [link EXCEPT ![d] = IF link[d] = "open" THEN "sent" ELSE link[d]]
      BY <2>2 DEF SendProbe, Write, queue
    <3>2. QED
      BY <2>0, <3>1, QueuesRelinked DEF Waiting
  <2>3. CASE Bind(d) /\ ~DialDaemon(d) /\ ~SendProbe(d)
    BY <1>g, <1>k, <2>3 DEF Bind, ProbeSocket, ProbeAnswered, UnlinkStaleSocket, UnlinkStaleState,
        BindSocket, queue, conns
  <2>4. CASE Runner(d) /\ ~Bind(d)
    <3>1. CASE RemoveState(d)
      BY <3>1, QueuesClosed DEF RemoveState
    <3>2. CASE Drained(d)
      BY <3>2, QueuesGone DEF Drained
    <3>3. QED
      BY <1>g, <1>k, <2>4, <3>1, <3>2
      DEF Runner, Announce, StartupSucceeds, StartupFails, RemoveSocket
  <2>5. CASE StartDaemon(d) \/ ConnectTask(d) \/ MonitorTask(d) \/ Environment(d)
    BY <1>k, <2>5 DEF StartDaemon, Launch, ConnectTask, MonitorTask, Environment
  <2>6. CASE Tick(d)
    <3>1. CASE Gone(d, "exited")
      BY <3>1, QueuesGone
    <3>2. CASE ~Gone(d, "exited")
      BY <1>g, <1>k, <2>6, <3>2 DEF Tick, TickExit, TickReconnected, TickRetry, TickIdle
    <3>3. QED
      BY <3>1, <3>2
  <2>7. CASE Accept(d)
    BY <2>7, QueuesAccepted
  <2>8. CASE LoopSignal(d) \/ ParentReturns(d) \/ ParentDies(d)
    BY <1>k, <2>8 DEF LoopSignal, DropSignal, ParentReturns, ParentDies
  <2>9. CASE ControlLoop(d)
    BY <1>g, <1>k, <1>r, <2>9 DEF ControlLoop, ServeStatus, ServeNothing, ServeDisconnect, DropSignal,
        TerminateOpenVpn, RestoreDns, ReplyDisconnected
  <2>10. CASE SigKill(d) \/ SigTerm(d) \/ CtrlC(d)
    BY <1>g, <1>k, <2>10 DEF SigKill, SigTerm, CtrlC
  <2>11. QED
    BY <1>1, <2>1, <2>2, <2>3, <2>4, <2>5, <2>6, <2>7, <2>8, <2>9, <2>10
    DEF Daemon, Runner
<1>2. ASSUME NEW c \in Clients, Client(c)
      PROVE  QueueHome'
  <2>0. c \in Peers
    BY DEF Peers
  <2>1. CASE CliDial(c)
    BY <1>k, <2>0, <2>1, QueuesDialled DEF CliDial, DialRefused, LinkHome
  <2>2. CASE CliSend(c)
    <3>1. /\ UNCHANGED <<backlog, serving, target>>
          /\ link' = [link EXCEPT ![c] = IF link[c] = "open" THEN "sent" ELSE link[c]]
      BY <2>2 DEF CliSend, Write, queue
    <3>2. QED
      BY <2>0, <3>1, QueuesRelinked DEF Waiting
  <2>3. CASE CliReply(c)
    <3>1. /\ UNCHANGED <<backlog, serving, target>> /\ link[c] \notin Waiting
          /\ link' = [link EXCEPT ![c] = "closed"]
      BY <2>3 DEF CliReply, Waiting, queue
    <3>2. QED
      BY <2>0, <3>1, QueuesRelinked
  <2>4. CASE CliDies(c)
    <3>1. /\ UNCHANGED <<backlog, serving, target>>
          /\ link' = [link EXCEPT ![c] = Hangup(link[c])]
      BY <2>4 DEF CliDies, queue
    <3>2. CASE link[c] \in {"open", "sent"} \/ link[c] \notin Waiting
      <4>1. link[c] \in Waiting => Hangup(link[c]) \in Waiting
        BY <3>2 DEF Waiting, Hangup
      <4>2. QED
        BY <2>0, <3>1, <4>1, QueuesRelinked
    <3>3. CASE link[c] \in {"lost_open", "lost_sent"}
      BY <2>4, <3>3 DEF CliDies, LinkHome
    <3>4. QED
      BY <3>2, <3>3 DEF Waiting
  <2>5. CASE CliDone(c)
    <3>1. /\ UNCHANGED <<backlog, serving, link>> /\ link[c] = "closed"
          /\ \A q \in Peers : q # c => target'[q] = target[q]
      BY <2>5 DEF CliDone, queue, TypeOK, ConnsOK
    <3>2. QED
      BY <2>0, <3>1, QueuedPeers DEF QueueHome, Waiting
  <2>6. CASE CliStart(c) \/ CliSocketGone(c) \/ CliTimeout(c) \/ CliReconnect(c)
    BY <1>k, <2>6 DEF CliStart, CliSocketGone, CliTimeout, CliReconnect, Launch
  <2>7. QED
    BY <1>2, <2>1, <2>2, <2>3, <2>4, <2>5, <2>6 DEF Client, CliRequest
<1>3. QED
  BY <1>1, <1>2 DEF Next

\* What a step of daemon d may do to the connection of another process.
Relinks(d, p) ==
    \/ link'[p] = link[p]
    \/ link[p] \in Waiting /\ target[p] = d /\ link'[p] \in {"closed", "eof"}
    \/ link[p] = "sent" /\ p = serving[d] /\ link'[p] \in {"status", "error"}
    \/ /\ link[p] = "sent" /\ p = serving[d] /\ link'[p] = "down"
       /\ pc[d] = "replyDown" /\ pc'[d] = "rmSocket"

\* What a step of a daemon does to the connection of another peer is one of these.
LEMMA DaemonRelinks ==
    ASSUME TypeOK, NEW d \in Daemons, Daemon(d), NEW p \in Peers, p # d
    PROVE  Relinks(d, p) /\ target'[p] = target[p]
<1>k. (UNCHANGED conns) => Relinks(d, p) /\ target'[p] = target[p]
  BY DEF Relinks, conns
<1>c. ASSUME Closed(d)
      PROVE  Relinks(d, p) /\ target'[p] = target[p]
  BY <1>c DEF Closed, LinksAfter, Held, Relinks, Waiting
<1>g. ASSUME Crash(d) \/ ErrorExit(d) \/ Gone(d, "exited")
      PROVE  Relinks(d, p) /\ target'[p] = target[p]
  BY <1>c, <1>g DEF Crash, ErrorExit, Gone
<1>r. ASSUME NEW answer \in {"status", "error"}, Respond(d, answer)
      PROVE  Relinks(d, p) /\ target'[p] = target[p]
  BY <1>r DEF Respond, Relinks, TypeOK, ConnsOK
<1>d. ASSUME Respond(d, "down"), pc[d] = "replyDown", pc'[d] = "rmSocket"
      PROVE  Relinks(d, p) /\ target'[p] = target[p]
  BY <1>d DEF Respond, Relinks, TypeOK, ConnsOK
<1>1. CASE Bind(d)
  <2>1. CASE DialDaemon(d)
    <3>1. CASE Dial(d)
      BY <3>1 DEF Dial, Relinks, TypeOK, ConnsOK
    <3>2. QED
      BY <1>g, <1>k, <2>1, <3>1 DEF DialDaemon, DialRefused
  <2>2. CASE SendProbe(d)
    BY <2>2 DEF SendProbe, Write, Relinks, TypeOK, ConnsOK
  <2>3. CASE ~DialDaemon(d) /\ ~SendProbe(d)
    BY <1>1, <1>g, <1>k, <2>3 DEF Bind, ProbeSocket, ProbeAnswered, UnlinkStaleSocket, UnlinkStaleState,
        BindSocket
  <2>4. QED
    BY <2>1, <2>2, <2>3
<1>2. CASE Runner(d) /\ ~Bind(d)
  BY <1>c, <1>g, <1>k, <1>2 DEF Runner, Announce, StartupSucceeds, StartupFails,
      RemoveSocket, RemoveState, Drained
<1>3. CASE StartDaemon(d) \/ ConnectTask(d) \/ MonitorTask(d) \/ Environment(d)
  BY <1>k, <1>3 DEF StartDaemon, Launch, ConnectTask, MonitorTask, Environment
<1>4. CASE Tick(d)
  BY <1>g, <1>k, <1>4 DEF Tick, TickExit, TickReconnected, TickRetry, TickIdle
<1>5. CASE Accept(d) \/ LoopSignal(d) \/ ParentReturns(d) \/ ParentDies(d)
  BY <1>k, <1>5 DEF Accept, LoopSignal, DropSignal, ParentReturns, ParentDies
<1>6. CASE ServeStatus(d) \/ ServeNothing(d) \/ ServeDisconnect(d)
           \/ TerminateOpenVpn(d) \/ RestoreDns(d)
  BY <1>g, <1>k, <1>r, <1>6 DEF ServeStatus, ServeNothing, ServeDisconnect, DropSignal,
      TerminateOpenVpn, RestoreDns
<1>7. CASE ReplyDisconnected(d)
  <2>1. Goto(d, "rmSocket") => pc'[d] = "rmSocket"
    BY DEF Goto, TypeOK, ProcsOK
  <2>2. QED
    BY <1>g, <1>r, <1>d, <1>7, <2>1 DEF ReplyDisconnected
<1>8. CASE SigKill(d) \/ SigTerm(d) \/ CtrlC(d)
  BY <1>g, <1>k, <1>8 DEF SigKill, SigTerm, CtrlC
<1>9. QED
  BY <1>1, <1>2, <1>3, <1>4, <1>5, <1>6, <1>7, <1>8 DEF Daemon, ControlLoop

\* A process has a connection only after it dialled, and loses its own end only
\* by dying.
LEMMA LinkHomePreserved ==
    ASSUME TypeOK, LinkHome, Next
    PROVE  LinkHome'
<1>1. ASSUME NEW d \in Daemons, Daemon(d)
      PROVE  LinkHome'
  <2>0. cpc' = cpc
    BY <1>1 DEF Daemon, StartDaemon, Runner, Bind, ProbeSocket, DialDaemon, SendProbe,
        ProbeAnswered, UnlinkStaleSocket, UnlinkStaleState, BindSocket,
        Announce, StartupSucceeds, StartupFails, RemoveSocket, RemoveState,
        Drained, ConnectTask, MonitorTask, Tick, Accept, LoopSignal,
        DropSignal, ControlLoop, ServeStatus, ServeNothing, ServeDisconnect,
        TerminateOpenVpn, RestoreDns, ReplyDisconnected, Environment, SigKill,
        SigTerm, ParentReturns, CtrlC, ParentDies, cli
  <2>1. ASSUME NEW c \in Clients
        PROVE  /\ cpc'[c] \in {"idle", "dial"} => link'[c] = "closed"
               /\ cpc'[c] \in {"send", "wait"} => link'[c] \notin {"lost_open", "lost_sent"}
    <3>1. c \in Peers /\ c # d
      BY DaemonControlAssumption DEF Peers
    <3>2. Relinks(d, c)
      BY <1>1, <3>1, DaemonRelinks
    <3>3. QED
      BY <2>0, <3>2 DEF LinkHome, Relinks, Waiting
  <2>2. ASSUME NEW e \in Daemons, pc'[e] \in {"none", "probe", "dial"}
        PROVE  link'[e] = "closed"
    <3>1. CASE e # d
      <4>1. pc'[e] = pc[e]
        <5>1. SocketStep(d)
          BY <1>1, DaemonIsSocketStep
        <5>2. QED
          BY <3>1, <5>1 DEF SocketStep, SameElsewhere
      <4>2. e \in Peers /\ Relinks(d, e)
        BY <1>1, <3>1, DaemonRelinks DEF Peers
      <4>3. QED
        BY <2>2, <4>1, <4>2 DEF LinkHome, Relinks, Waiting
    <3>2. CASE e = d
      <4>1. \/ pc' = pc /\ UNCHANGED conns
            \/ pc'[d] \notin {"none", "probe", "dial"}
            \/ UNCHANGED conns /\ pc[d] \in {"none", "probe"}
        BY <1>1, <2>2, <3>2
        DEF Daemon, StartDaemon, Launch, Runner, Bind, ProbeSocket,
            DialDaemon, SendProbe, ProbeAnswered, UnlinkStaleSocket,
            UnlinkStaleState, BindSocket, Announce, StartupSucceeds,
            StartupFails, RemoveSocket, RemoveState, Drained, ConnectTask,
            MonitorTask, Tick, TickExit, TickReconnected, TickRetry, TickIdle,
            Accept, LoopSignal, DropSignal, ControlLoop, ServeStatus,
            ServeNothing, ServeDisconnect, TerminateOpenVpn, RestoreDns,
            AfterRestore, ReplyDisconnected, Environment, SigKill, SigTerm,
            ParentReturns, CtrlC, ParentDies, Crash, ErrorExit, UndoDns, Gone,
            Closed, Goto, TypeOK, ProcsOK, Startup, Binding
      <4>2. QED
        BY <2>2, <3>2, <4>1 DEF LinkHome, conns
    <3>3. QED
      BY <3>1, <3>2
  <2>3. QED
    BY <2>1, <2>2 DEF LinkHome
<1>2. ASSUME NEW c \in Clients, Client(c)
      PROVE  LinkHome'
  BY <1>2, DaemonControlAssumption
  DEF Client, CliRequest, CliStart, CliGoto, CliDial, Dial, DialRefused,
      Unavailable, Disconnected, CliSend, Write, CliReply, Outcome,
      CliSocketGone, CliTimeout, CliReconnect, Launch, Goto, CliDies, Hangup,
      CliDone, LinkHome, TypeOK, ProcsOK, ConnsOK, CliOK, Peers, conns
<1>3. QED
  BY <1>1, <1>2 DEF Next

\* DNS settings belong to a session, to the connect task that made them, or to
\* a daemon that is taking them down.
LEMMA DaemonDnsHome ==
    ASSUME TypeOK, TaskHome, DnsHome, NEW d \in Daemons, Daemon(d)
    PROVE  DnsHome'
<1> USE DEF TypeOK, ProcsOK, VpnOK, AttemptPhases, TaskHome, DnsHome, Goto,
    SetAttempt, SetTunnel, Crash, ErrorExit, UndoDns, Gone, Closed, Startup,
    Binding, Live, Stopped, vpn, Leaving, Behind
<1>1. CASE Bind(d)
  BY <1>1 DEF Bind, ProbeSocket, DialDaemon, SendProbe, ProbeAnswered,
      UnlinkStaleSocket, UnlinkStaleState, BindSocket
<1>2. CASE Announce(d)
  BY <1>2 DEF Announce
<1>3. CASE StartupSucceeds(d)
  BY <1>3 DEF StartupSucceeds
<1>4. CASE StartupFails(d) \/ RemoveSocket(d) \/ StartDaemon(d)
  BY <1>4 DEF StartupFails, RemoveSocket, StartDaemon, Launch
<1>5. CASE RemoveState(d) \/ Drained(d)
  BY <1>5 DEF RemoveState, Drained
<1>6. CASE ConnectTask(d)
  <2>1. pc' = pc /\ session' = session
    BY <1>6 DEF ConnectTask, AttemptWakes, BindAcs, SpawnOpenVpn, Login,
        ConfigureDns, AttemptCancelled, DropSession
  <2>2. CASE AttemptWakes(d) \/ BindAcs(d) \/ SpawnOpenVpn(d) \/ Login(d)
             \/ AttemptCancelled(d)
    <3>1. attempt[d] # "ok" /\ dns' = dns
      BY <2>2 DEF AttemptWakes, BindAcs, SpawnOpenVpn, Login, AttemptCancelled
    <3>2. \A e \in Daemons : e # d => attempt'[e] = attempt[e]
      BY <2>2 DEF AttemptWakes, BindAcs, SpawnOpenVpn, Login, AttemptCancelled, AttemptFails
    <3>3. QED
      BY <2>1, <3>1, <3>2
  <2>3. CASE ConfigureDns(d)
    BY <2>1, <2>3 DEF ConfigureDns, AttemptFails
  <2>4. CASE DropSession(d)
    BY <2>1, <2>4 DEF DropSession, SessionDropped
  <2>5. QED
    BY <1>6, <2>2, <2>3, <2>4 DEF ConnectTask
<1>7. CASE MonitorTask(d) \/ Environment(d)
  BY <1>7 DEF MonitorTask, MonitorEnds, Environment, MonitorStops, OpenVpnExits
<1>8. CASE TickExit(d) /\ Tick(d)
  BY <1>8 DEF Tick, TickExit
<1>9. CASE Tick(d) /\ ~TickExit(d)
  BY <1>9 DEF Tick, TickReconnected, TickRetry, TickIdle
<1>10. CASE Accept(d) \/ ParentReturns(d) \/ ParentDies(d)
  BY <1>10 DEF Accept, ParentReturns, ParentDies
<1>11. CASE LoopSignal(d) \/ ServeDisconnect(d)
  BY <1>11 DEF LoopSignal, DropSignal, ServeDisconnect, TakeSession, AbortAttempt,
      SessionDropped, UndoDns, SetTunnel
<1>12. CASE ServeStatus(d) \/ ServeNothing(d) \/ ReplyDisconnected(d)
  BY <1>12 DEF ServeStatus, ServeNothing, ReplyDisconnected
<1>13. CASE TerminateOpenVpn(d) \/ RestoreDns(d)
  BY <1>13 DEF TerminateOpenVpn, RestoreDns, AfterRestore
<1>14. CASE SigKill(d) \/ SigTerm(d) \/ CtrlC(d)
  BY <1>14 DEF SigKill, SigTerm, CtrlC
<1>15. QED
  BY <1>1, <1>2, <1>3, <1>4, <1>5, <1>6, <1>7, <1>8, <1>9, <1>10, <1>11, <1>12, <1>13,
     <1>14 DEF Daemon, Runner, ControlLoop, Tick

Replied == {"rmSocket", "rmState", "drain", "exited", "killed"}

\* A daemon behind its reply, on its way out or gone, with nothing left to undo
\* when it has ended.
SettledAt(e) ==
    /\ pc[e] \in Replied
    /\ pc[e] = "exited" =>
           /\ tunnel[e] = "none"
           /\ dns[e] => "restore_fails" \in Faults

\* ... stays like that: it ends only when its connect task is over, and a task
\* that is over has left neither OpenVPN nor DNS settings.
LEMMA DaemonStaysSettled ==
    ASSUME TypeOK, TaskHome, DnsHome, NEW d \in Daemons, Daemon(d),
           NEW e \in Daemons, SettledAt(e)
    PROVE  SettledAt(e)'
<1> USE DEF TypeOK, ProcsOK, VpnOK, AttemptPhases, TaskHome, SettledAt, Replied, Goto,
    SetAttempt, SetTunnel, Crash, ErrorExit, UndoDns, Gone, Startup, Binding,
    Live, Stopped, vpn
<1>1. CASE Bind(d)
  BY <1>1 DEF Bind, ProbeSocket, DialDaemon, SendProbe, ProbeAnswered,
      UnlinkStaleSocket, UnlinkStaleState, BindSocket
<1>2. CASE Announce(d)
  BY <1>2 DEF Announce
<1>3. CASE StartupSucceeds(d)
  BY <1>3 DEF StartupSucceeds
<1>4. CASE StartupFails(d) \/ RemoveSocket(d) \/ StartDaemon(d)
  BY <1>4 DEF StartupFails, RemoveSocket, StartDaemon, Launch
<1>5. CASE RemoveState(d) \/ Drained(d)
  BY <1>5 DEF RemoveState, Drained, DnsHome, Leaving, Behind
<1>6. CASE ConnectTask(d)
  <2>1. pc' = pc /\ pc[d] # "exited"
    BY <1>6 DEF ConnectTask, AttemptWakes, BindAcs, SpawnOpenVpn, Login,
        ConfigureDns, AttemptCancelled, DropSession, Behind
  <2>2. \A f \in Daemons \ {d} : tunnel'[f] = tunnel[f] /\ dns'[f] = dns[f]
    BY <1>6 DEF ConnectTask, AttemptWakes, BindAcs, SpawnOpenVpn, Login,
        ConfigureDns, AttemptCancelled, DropSession, SessionDropped
  <2>3. QED
    BY <2>1, <2>2
<1>7. CASE MonitorTask(d) \/ Environment(d)
  BY <1>7 DEF MonitorTask, MonitorEnds, Environment, MonitorStops, OpenVpnExits
<1>8. CASE TickExit(d) /\ Tick(d)
  BY <1>8 DEF Tick, TickExit
<1>9. CASE Tick(d) /\ ~TickExit(d)
  BY <1>9 DEF Tick, TickReconnected, TickRetry, TickIdle
<1>10. CASE Accept(d) \/ ParentReturns(d) \/ ParentDies(d)
  BY <1>10 DEF Accept, ParentReturns, ParentDies
<1>11. CASE LoopSignal(d) \/ ServeDisconnect(d)
  BY <1>11 DEF LoopSignal, DropSignal, ServeDisconnect, TakeSession, AbortAttempt,
      SessionDropped, UndoDns, SetTunnel
<1>12. CASE ServeStatus(d) \/ ServeNothing(d) \/ ReplyDisconnected(d)
  BY <1>12 DEF ServeStatus, ServeNothing, ReplyDisconnected
<1>13. CASE TerminateOpenVpn(d) \/ RestoreDns(d)
  BY <1>13 DEF TerminateOpenVpn, RestoreDns, AfterRestore
<1>14. CASE SigKill(d) \/ SigTerm(d) \/ CtrlC(d)
  BY <1>14 DEF SigKill, SigTerm, CtrlC
<1>15. QED
  BY <1>1, <1>2, <1>3, <1>4, <1>5, <1>6, <1>7, <1>8, <1>9, <1>10, <1>11, <1>12, <1>13,
     <1>14 DEF Daemon, Runner, ControlLoop, Tick

\* A client that starts a daemon starts one that never ran.
LEMMA ClientStarts ==
    ASSUME TypeOK, NEW c \in Clients, Client(c)
    PROVE  /\ UNCHANGED <<session, attempt, tunnel, dns>>
           /\ \A e \in Daemons : pc'[e] = pc[e] \/ (pc[e] = "none" /\ pc'[e] = "probe")
           /\ \A p \in Peers : link'[p] = "down" => link[p] = "down" /\ target'[p] = target[p]
BY DaemonControlAssumption
DEF Client, CliRequest, CliStart, CliDial, Dial, DialRefused, CliSend, Write,
    CliReply, CliSocketGone, CliTimeout, CliReconnect, Launch, Goto, CliDies,
    Hangup, CliDone, TypeOK, ProcsOK, ConnsOK, Peers, conns, vpn

\* DISCONNECTED is said by a daemon that goes on to its end, which it reaches
\* with nothing left to undo.
LEMMA DownHomePreserved ==
    ASSUME TypeOK, TaskHome, QueueHome, DnsHome, DownHome, Next
    PROVE  DownHome'
<1>0. \A c \in Clients : link[c] = "down" => target[c] \in Daemons /\ SettledAt(target[c])
  BY DEF DownHome, SettledAt, Replied
<1>1. ASSUME NEW c \in Clients, link'[c] = "down"
      PROVE  \E t \in Daemons : target'[c] = t /\ SettledAt(t)'
  <2>1. ASSUME NEW d \in Daemons, Daemon(d)
        PROVE  \E t \in Daemons : target'[c] = t /\ SettledAt(t)'
    <3>1. c \in Peers /\ c # d
      BY DaemonControlAssumption DEF Peers
    <3>2. Relinks(d, c) /\ target'[c] = target[c]
      BY <2>1, <3>1, DaemonRelinks
    <3>3. CASE link[c] = "down"
      <4>1. PICK t \in Daemons : target[c] = t /\ SettledAt(t)
        BY <1>0, <3>3
      <4>2. SettledAt(t)'
        BY <2>1, <4>1, DaemonStaysSettled
      <4>3. QED
        BY <3>2, <4>1, <4>2
    <3>4. CASE /\ link[c] = "sent" /\ c = serving[d] /\ link'[c] = "down"
               /\ pc[d] = "replyDown" /\ pc'[d] = "rmSocket"
      <4>1. target'[c] = d
        <5>1. serving[d] # None
          BY <3>4, DaemonControlAssumption
        <5>2. QED
          BY <3>2, <3>4, <5>1 DEF QueueHome
      <4>2. SettledAt(d)'
        BY <3>4 DEF SettledAt, Replied
      <4>3. QED
        BY <4>1, <4>2
    <3>5. QED
      BY <1>1, <3>2, <3>3, <3>4 DEF Relinks
  <2>2. ASSUME NEW k \in Clients, Client(k)
        PROVE  \E t \in Daemons : target'[c] = t /\ SettledAt(t)'
    <3>1. c \in Peers
      BY DEF Peers
    <3>2. link[c] = "down" /\ target'[c] = target[c]
      BY <1>1, <2>2, <3>1, ClientStarts
    <3>3. PICK t \in Daemons : target[c] = t /\ SettledAt(t)
      BY <1>0, <3>2
    <3>4. pc'[t] = pc[t] /\ dns' = dns /\ tunnel' = tunnel
      BY <2>2, <3>3, ClientStarts DEF SettledAt, Replied
    <3>5. SettledAt(t)'
      BY <3>3, <3>4 DEF SettledAt
    <3>6. QED
      BY <3>2, <3>3, <3>5
  <2>3. QED
    BY <2>1, <2>2 DEF Next
<1>2. ASSUME NEW c \in Clients, link'[c] = "down"
      PROVE  /\ target'[c] \in Daemons
             /\ pc'[target'[c]] \in Replied
             /\ pc'[target'[c]] = "exited" =>
                    /\ tunnel'[target'[c]] = "none"
                    /\ dns'[target'[c]] => "restore_fails" \in Faults
  <2>1. PICK t \in Daemons : target'[c] = t /\ SettledAt(t)'
    BY <1>1, <1>2
  <2>2. QED
    BY <2>1 DEF SettledAt
<1>3. QED
  BY <1>2 DEF DownHome, Replied

\* Every step leaves DNS settings to a session or to a connect that is done.
LEMMA DnsHomePreserved ==
    ASSUME TypeOK, TaskHome, DnsHome, Next
    PROVE  DnsHome'
<1>1. ASSUME NEW c \in Clients, Client(c)
      PROVE  DnsHome'
  BY <1>1, ClientStarts DEF DnsHome, Startup, Binding, Leaving, Behind
<1>2. QED
  BY <1>1, DaemonDnsHome DEF Next

\* A step that changes nothing keeps the invariant.
LEMMA InvStutter ==
    ASSUME UNCHANGED vars
    PROVE  /\ SocketInv => SocketInv'
           /\ TaskHome => TaskHome'
           /\ PortHome => PortHome'
           /\ ReplyInv => ReplyInv'
BY DEF SocketInv, SerialBind, TakeoverIsSafe, ReachableDaemon, FileOwner,
    TaskHome, PortHome, Live, ReplyInv, QueueHome, LinkHome, DnsHome,
    DownHome, vars, files, vpn, queue, conns, cli, Leaving, Behind

\* Nobody has connected, so nobody was answered.
LEMMA ReplyInit == Init => ReplyInv
<1>1. ASSUME Init
      PROVE  ReplyInv
  <2>1. \A d \in Daemons : 1..Len(backlog[d]) = {} /\ serving[d] = None
    <3>1. \A d \in Daemons : backlog[d] = <<>> /\ serving[d] = None
      BY <1>1 DEF Init
    <3>2. 1..Len(<<>>) = {}
      OBVIOUS
    <3>3. QED
      BY <3>1, <3>2, Zenon
  <2>2. QueueHome
    BY <2>1 DEF QueueHome
  <2>3. LinkHome /\ DnsHome /\ DownHome
    BY <1>1 DEF Init, LinkHome, DnsHome, DownHome, Peers
  <2>4. QED
    BY <2>2, <2>3 DEF ReplyInv
<1>2. QED
  BY <1>1

\* A request, a connection and a reply are where their client waits for them.
LEMMA ReplyInvPreserved ==
    ASSUME TypeOK, TaskHome, ReplyInv, Next
    PROVE  ReplyInv'
BY QueueHomePreserved, LinkHomePreserved, DnsHomePreserved, DownHomePreserved DEF ReplyInv

-----------------------------------------------------------------------------
(* What holds however the processes are started. *)

TaskInv == TypeOK /\ TaskHome /\ PortHome /\ ReplyInv

\* The parts about tasks and replies together.
LEMMA TaskInvInit == Init => TaskInv
<1>1. Init => TypeOK
  BY DEF Init, TypeOK, ProcsOK, FilesOK, VpnOK, QueueOK, ConnsOK, CliOK, Stopped,
      AttemptPhases
<1>2. Init => TaskHome /\ PortHome
  BY DEF Init, TaskHome, PortHome, Live, Stopped, Leaving, Behind
<1>3. QED
  BY <1>1, <1>2, ReplyInit DEF TaskInv

\* They are kept by every step.
LEMMA TaskInvPreserved ==
    ASSUME TaskInv, Next
    PROVE  TaskInv'
BY ProcsPreserved, FilesPreserved, VpnPreserved, CliPreserved, ControlPreserved,
   TaskHomePreserved, PortHomePreserved, ReplyInvPreserved DEF TaskInv, TypeOK

\* So they always hold.
LEMMA TaskInvHolds == Spec => []TaskInv
<1>1. TaskInv /\ [Next]_vars => TaskInv'
  BY TaskInvPreserved, TypeStutter, InvStutter DEF TaskInv
<1>2. QED
  BY <1>1, TaskInvInit, PTL DEF Spec

\* At most one running daemon has a login in progress, the one that listens on
\* the callback port, whatever fails and however many daemons start at once.
THEOREM LoginIsExclusive == Spec => []OneLogin
<1>1. TaskInv => OneLogin
  BY DEF TaskInv, PortHome, OneLogin
<1>2. QED
  BY <1>1, TaskInvHolds, PTL

\* The control loop always has a session or a reconnect attempt, never both
\* and never neither.
THEOREM LoopKeepsOneJob == Spec => []LoopHasOneJob
<1>1. TaskInv => LoopHasOneJob
  BY DEF TaskInv, TaskHome, LoopHasOneJob
<1>2. QED
  BY <1>1, TaskInvHolds, PTL

\* A client that was answered DISCONNECTED finds nothing left of the session:
\* whatever fails, whoever else is in the queue and however the daemon goes on
\* to exit, what there is of OpenVPN and of DNS settings belongs to a connect
\* task that was aborted and still runs, and the daemon does not end before it
\* (handle_control_stream, disconnect_session, the runtime dropped by main).
THEOREM RepliedIsDown == Spec => []DisconnectedIsDown
<1>1. TaskInv => DisconnectedIsDown
  BY DEF TaskInv, TypeOK, ProcsOK, VpnOK, ReplyInv, DnsHome, DownHome, TaskHome,
      DisconnectedIsDown, Leaving, Behind, AttemptPhases
<1>2. QED
  BY <1>1, TaskInvHolds, PTL

\* The callback port is never kept by a task that is over.
THEOREM PortKeepsUser == Spec => []PortHasUser
<1>1. Init => PortHasUser
  BY DaemonControlAssumption DEF Init, PortHasUser
<1>2. TaskInv /\ PortHasUser /\ [Next]_vars => PortHasUser'
  BY PortUserPreserved DEF TaskInv, PortHasUser, vars, vpn
<1>3. QED
  BY <1>1, <1>2, TaskInvHolds, PTL DEF Spec

-----------------------------------------------------------------------------
(* What holds when a daemon-run process is not started while another is     *)
(* still in bind().                                                         *)

\* The inductive invariant of the socket takeover holds in every reachable
\* state: which path a listener is bound to, where the connect task, the session,
\* the callback port and a control connection may be (daemon.rs, main.rs).
THEOREM InvHolds ==
    ASSUME "concurrent_starts" \notin Faults
    PROVE  Spec => []IInv
<1>1. Init => IInv
  <2>1. Init => SocketInv
    BY DEF Init, SocketInv, SerialBind, TakeoverIsSafe, ReachableDaemon,
        FileOwner, Binding, Bound
  <2>2. QED
    BY <2>1, TaskInvInit DEF IInv, TaskInv
<1>2. IInv /\ [Next]_vars => IInv'
  <2>1. SUFFICES ASSUME IInv, Next PROVE IInv'
    BY TypeStutter, InvStutter DEF IInv
  <2>2. TaskInv'
    BY <2>1, TaskInvPreserved DEF IInv, TaskInv
  <2>3. CASE pc' = pc /\ socket' = socket
    BY <2>1, <2>2, <2>3
    DEF IInv, TaskInv, SocketInv, SerialBind, TakeoverIsSafe, ReachableDaemon,
        FileOwner
  <2>4. CASE \E d \in Daemons : SocketStep(d)
    BY <2>1, <2>2, <2>4, SocketInvPreserved DEF IInv, TaskInv
  <2>5. QED
    BY <2>1, <2>3, <2>4, NextIsSocketStep DEF IInv
<1>3. QED
  BY <1>1, <1>2, PTL DEF Spec

\* A daemon that is bound can be reached through the socket path until it
\* cleans up itself.
THEOREM DaemonStaysReachable ==
    ASSUME "concurrent_starts" \notin Faults
    PROVE  Spec => []ReachableDaemon
<1>1. IInv => ReachableDaemon
  BY DEF IInv, SocketInv
<1>2. QED
  BY <1>1, InvHolds, PTL

\* No process removes the socket of a running daemon other than that daemon.
THEOREM SocketIsOwned ==
    ASSUME "concurrent_starts" \notin Faults
    PROVE  Spec => OnlyOwnerUnlinks
<1>1. IInv /\ [Next]_vars =>
        [\A d \in Daemons :
            socket = d /\ socket' # d => pc[d] = "rmSocket" \/ ~Live(d)]_vars
  <2>1. SUFFICES ASSUME IInv, Next, NEW e \in Daemons, socket = e, socket' # e
                 PROVE  pc[e] = "rmSocket" \/ ~Live(e)
    OBVIOUS
  <2>2. PICK d \in Daemons : SocketStep(d)
    BY <2>1, NextIsSocketStep DEF IInv
  <2>3. QED
    BY <2>1, <2>2, SocketStepOwner DEF IInv
<1>2. QED
  BY <1>1, InvHolds, PTL DEF Spec, OnlyOwnerUnlinks

\* The OpenVPN process of a running daemon is under the control of whoever
\* speaks to the socket path.
THEOREM TunnelStaysUnderControl ==
    ASSUME "concurrent_starts" \notin Faults
    PROVE  Spec => []TunnelUnderControl
<1>1. IInv => TunnelUnderControl
  BY DEF IInv, TypeOK, ProcsOK, SocketInv, ReachableDaemon, TaskHome,
      TunnelUnderControl, Live, Stopped, Binding, Bound, Open, Leaving, Behind
<1>2. QED
  BY <1>1, InvHolds, PTL

=============================================================================
