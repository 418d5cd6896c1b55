------------------------ MODULE DaemonControl_proofs ------------------------
(***************************************************************************)
(* Proofs about DaemonControl, for any finite or infinite set of daemons   *)
(* and clients.                                                            *)
(***************************************************************************)
EXTENDS DaemonControl, TLAPS

-----------------------------------------------------------------------------
(* Type correctness, variable group by variable group. *)

\* Control points stay control points, whatever a handler returns.
LEMMA ProcsPreserved ==
    ASSUME TypeOK, Next
    PROVE  ProcsOK'
<1>1. ASSUME NEW d \in Daemons, Daemon(d)
      PROVE  ProcsOK'
  <2>1. CASE StartDaemon(d)
    BY <2>1
    DEF StartDaemon, Launch, Goto, TypeOK, ProcsOK, Stopped, Binding, Open,
        Bound
  <2>2. CASE Runner(d)
    BY <2>2
    DEF Runner, Bind, ProbeSocket, DialDaemon, Dial, DialRefused, SendProbe,
        Write, ProbeAnswered, UnlinkStaleSocket, UnlinkStaleState, BindSocket,
        ErrorExit, UndoDns, Crash, Gone, Closed, Goto, FreeAcs, InFlight,
        Leaving, Behind, Announce, SetAttempt, StartupSucceeds, StartupFails,
        RemoveSocket, RemoveState, Drained, TypeOK, ProcsOK, Stopped, Binding,
        Open, Bound
  <2>3. CASE ConnectTask(d)
    BY <2>3
    DEF ConnectTask, AttemptWakes, BindAcs, SpawnOpenVpn, Login, ConfigureDns,
        AttemptCancelled, DropSession, AttemptFails, SessionDropped, UndoDns,
        SetAttempt, SetTunnel, Detach, FreeAcs, TypeOK, ProcsOK, Stopped,
        Binding, Open, Bound
  <2>4. CASE MonitorTask(d) \/ Environment(d)
    BY <2>4
    DEF MonitorTask, MonitorEnds, FreeAcs, Environment, MonitorStops,
        OpenVpnExits, SetTunnel, TypeOK, ProcsOK, Stopped, Binding, Open,
        Bound
  <2>5. CASE Tick(d)
    BY <2>5
    DEF Tick, TickExit, TickReconnected, TickRetry, TickIdle, DropSignal,
        SetAttempt, SetTunnel, AbortMonitor, ErrorExit, UndoDns, Crash, Gone,
        Closed, Goto, FreeAcs, InFlight, Leaving, Behind, TypeOK, ProcsOK,
        Stopped, Binding, Open, Bound
  <2>6. CASE Accept(d) \/ LoopSignal(d)
    BY <2>6
    DEF Accept, Goto, DropSignal, LoopSignal, TakeSession, AbortAttempt,
        SessionDropped, UndoDns, SetTunnel, SetAttempt, Detach, InFlight,
        Leaving, Behind, TypeOK, ProcsOK, Stopped, Binding, Open, Bound
  <2>7. CASE ControlLoop(d)
    BY <2>7
    DEF ControlLoop, ServeStatus, Respond, ErrorExit, UndoDns, Crash, Gone,
        Closed, Goto, FreeAcs, InFlight, Leaving, Behind, ServeNothing,
        ServeDisconnect, DropSignal, TakeSession, AbortAttempt,
        SessionDropped, SetTunnel, SetAttempt, Detach, TerminateOpenVpn,
        RestoreDns, AbortMonitor, AfterRestore, ReplyDisconnected, TypeOK,
        ProcsOK, Stopped, Binding, Open, Bound
  <2>8. CASE SigKill(d) \/ SigTerm(d) \/ CtrlC(d)
    BY <2>8
    DEF SigKill, ErrorExit, UndoDns, Crash, Gone, Closed, Goto, FreeAcs,
        InFlight, Leaving, Behind, SigTerm, CtrlC, TypeOK, ProcsOK, Stopped,
        Binding, Open, Bound
  <2>9. CASE ParentReturns(d) \/ ParentDies(d)
    BY <2>9
    DEF ParentReturns, ParentDies, TypeOK, ProcsOK, Stopped, Binding, Open,
        Bound
  <2>10. QED
    BY <1>1, <2>1, <2>2, <2>3, <2>4, <2>5, <2>6, <2>7, <2>8, <2>9 DEF Daemon
<1>2. ASSUME NEW c \in Clients, Client(c)
      PROVE  ProcsOK'
  BY <1>2
  DEF Client, CliRequest, CliStart, CliGoto, CliDial, Dial, DialRefused,
      Unavailable, Disconnected, CliSend, Write, CliReply, Outcome,
      CliSocketGone, CliTimeout, CliReconnect, Launch, Goto, CliDies, Hangup,
      CliDone, TypeOK, ProcsOK, Stopped, Binding, Open, Bound
<1>3. QED
  BY <1>1, <1>2 DEF Next

\* The two paths hold some daemon's file or nothing.
LEMMA FilesPreserved ==
    ASSUME TypeOK, Next
    PROVE  FilesOK'
<1>1. ASSUME NEW d \in Daemons, Daemon(d)
      PROVE  FilesOK'
  <2>1. CASE StartDaemon(d)
    BY <2>1
    DEF StartDaemon, Launch, Goto, TypeOK, FilesOK, files
  <2>2. CASE Runner(d)
    BY <2>2
    DEF Runner, Bind, ProbeSocket, DialDaemon, Dial, DialRefused, SendProbe,
        Write, ProbeAnswered, UnlinkStaleSocket, UnlinkStaleState, BindSocket,
        ErrorExit, UndoDns, Crash, Gone, Closed, Goto, FreeAcs, InFlight,
        Leaving, Behind, Announce, SetAttempt, StartupSucceeds, StartupFails,
        RemoveSocket, RemoveState, Drained, TypeOK, FilesOK, files
  <2>3. CASE ConnectTask(d)
    BY <2>3
    DEF ConnectTask, AttemptWakes, BindAcs, SpawnOpenVpn, Login, ConfigureDns,
        AttemptCancelled, DropSession, AttemptFails, SessionDropped, UndoDns,
        SetAttempt, SetTunnel, Detach, FreeAcs, TypeOK, FilesOK, files
  <2>4. CASE MonitorTask(d) \/ Environment(d)
    BY <2>4
    DEF MonitorTask, MonitorEnds, FreeAcs, Environment, MonitorStops,
        OpenVpnExits, SetTunnel, TypeOK, FilesOK, files
  <2>5. CASE Tick(d)
    BY <2>5
    DEF Tick, TickExit, TickReconnected, TickRetry, TickIdle, DropSignal,
        SetAttempt, SetTunnel, AbortMonitor, ErrorExit, UndoDns, Crash, Gone,
        Closed, Goto, FreeAcs, InFlight, Leaving, Behind, TypeOK, FilesOK,
        files
  <2>6. CASE Accept(d) \/ LoopSignal(d)
    BY <2>6
    DEF Accept, Goto, DropSignal, LoopSignal, TakeSession, AbortAttempt,
        SessionDropped, UndoDns, SetTunnel, SetAttempt, Detach, InFlight,
        Leaving, Behind, TypeOK, FilesOK, files
  <2>7. CASE ControlLoop(d)
    BY <2>7
    DEF ControlLoop, ServeStatus, Respond, ErrorExit, UndoDns, Crash, Gone,
        Closed, Goto, FreeAcs, InFlight, Leaving, Behind, ServeNothing,
        ServeDisconnect, DropSignal, TakeSession, AbortAttempt,
        SessionDropped, SetTunnel, SetAttempt, Detach, TerminateOpenVpn,
        RestoreDns, AbortMonitor, AfterRestore, ReplyDisconnected, TypeOK,
        FilesOK, files
  <2>8. CASE SigKill(d) \/ SigTerm(d) \/ CtrlC(d)
    BY <2>8
    DEF SigKill, ErrorExit, UndoDns, Crash, Gone, Closed, Goto, FreeAcs,
        InFlight, Leaving, Behind, SigTerm, CtrlC, TypeOK, FilesOK, files
  <2>9. CASE ParentReturns(d) \/ ParentDies(d)
    BY <2>9
    DEF ParentReturns, ParentDies, TypeOK, FilesOK, files
  <2>10. QED
    BY <1>1, <2>1, <2>2, <2>3, <2>4, <2>5, <2>6, <2>7, <2>8, <2>9 DEF Daemon
<1>2. ASSUME NEW c \in Clients, Client(c)
      PROVE  FilesOK'
  BY <1>2
  DEF Client, CliRequest, CliStart, CliGoto, CliDial, Dial, DialRefused,
      Unavailable, Disconnected, CliSend, Write, CliReply, Outcome,
      CliSocketGone, CliTimeout, CliReconnect, Launch, Goto, CliDies, Hangup,
      CliDone, TypeOK, FilesOK, files
<1>3. QED
  BY <1>1, <1>2 DEF Next

\* Sessions, connect tasks, monitors and the port stay in their types.
LEMMA VpnPreserved ==
    ASSUME TypeOK, Next
    PROVE  VpnOK'
<1>1. ASSUME NEW d \in Daemons, Daemon(d)
      PROVE  VpnOK'
  <2>1. CASE StartDaemon(d)
    BY <2>1
    DEF StartDaemon, Launch, Goto, TypeOK, VpnOK, AttemptPhases, vpn
  <2>2. CASE Runner(d)
    <3>1. CASE Bind(d)
      BY <3>1
      DEF Bind, ProbeSocket, DialDaemon, Dial, DialRefused, SendProbe, Write,
          ProbeAnswered, UnlinkStaleSocket, UnlinkStaleState, BindSocket,
          ErrorExit, UndoDns, Crash, Gone, Closed, Goto, FreeAcs, InFlight,
          Leaving, Behind, TypeOK, VpnOK, AttemptPhases, vpn
    <3>2. CASE Announce(d)
      BY <3>2
      DEF Announce, Goto, SetAttempt, TypeOK, VpnOK, AttemptPhases, vpn
    <3>3. CASE StartupSucceeds(d)
      BY <3>3
      DEF StartupSucceeds, SetAttempt, ErrorExit, UndoDns, Crash, Gone,
          Closed, Goto, FreeAcs, InFlight, Leaving, Behind, TypeOK, VpnOK,
          AttemptPhases, vpn
    <3>4. CASE StartupFails(d) \/ RemoveSocket(d)
      BY <3>4
      DEF StartupFails, RemoveSocket, Goto, TypeOK, VpnOK, AttemptPhases, vpn
    <3>5. CASE RemoveState(d) \/ Drained(d)
      BY <3>5
      DEF RemoveState, Drained, ErrorExit, UndoDns, Crash, Gone, Closed, Goto,
          FreeAcs, InFlight, Leaving, Behind, TypeOK, VpnOK, AttemptPhases,
          vpn
    <3>6. QED
      BY <2>2, <3>1, <3>2, <3>3, <3>4, <3>5 DEF Runner
  <2>3. CASE ConnectTask(d)
    BY <2>3
    DEF ConnectTask, AttemptWakes, BindAcs, SpawnOpenVpn, Login, ConfigureDns,
        AttemptCancelled, DropSession, AttemptFails, SessionDropped, UndoDns,
        SetAttempt, SetTunnel, Detach, FreeAcs, TypeOK, VpnOK, AttemptPhases,
        vpn
  <2>4. CASE MonitorTask(d) \/ Environment(d)
    BY <2>4
    DEF MonitorTask, MonitorEnds, FreeAcs, Environment, MonitorStops,
        OpenVpnExits, SetTunnel, TypeOK, VpnOK, AttemptPhases, vpn
  <2>5. CASE Tick(d)
    <3>1. CASE TickExit(d)
      BY <2>5, <3>1
      DEF Tick, TickExit, DropSignal, SetAttempt, SetTunnel, AbortMonitor,
          ErrorExit, UndoDns, Crash, Gone, Closed, Goto, FreeAcs, InFlight,
          Leaving, Behind, TypeOK, VpnOK, AttemptPhases, vpn
    <3>2. CASE TickReconnected(d)
      BY <2>5, <3>2
      DEF Tick, TickReconnected, DropSignal, SetAttempt, ErrorExit, UndoDns,
          Crash, Gone, Closed, Goto, FreeAcs, InFlight, Leaving, Behind,
          TypeOK, VpnOK, AttemptPhases, vpn
    <3>3. CASE TickRetry(d) \/ TickIdle(d)
      BY <2>5, <3>3
      DEF Tick, TickRetry, TickIdle, DropSignal, SetAttempt, InFlight,
          Leaving, Behind, TypeOK, VpnOK, AttemptPhases, vpn
    <3>4. QED
      BY <2>5, <3>1, <3>2, <3>3 DEF Tick
  <2>6. CASE Accept(d) \/ LoopSignal(d)
    BY <2>6
    DEF Accept, Goto, DropSignal, LoopSignal, TakeSession, AbortAttempt,
        SessionDropped, UndoDns, SetTunnel, SetAttempt, Detach, InFlight,
        Leaving, Behind, TypeOK, VpnOK, AttemptPhases, vpn
  <2>7. CASE ControlLoop(d)
    <3>1. CASE ServeStatus(d)
      <4>1. CASE UNCHANGED vpn
        BY <4>1 DEF TypeOK, VpnOK, AttemptPhases, vpn
      <4>2. CASE ErrorExit(d)
        BY <4>2
        DEF ErrorExit, UndoDns, Gone, FreeAcs, TypeOK, VpnOK, AttemptPhases
      <4>3. QED
        BY <3>1, <4>1, <4>2 DEF ServeStatus
    <3>2. CASE ServeNothing(d)
      BY <3>2
      DEF ServeNothing, ErrorExit, UndoDns, Crash, Gone, Closed, Goto,
          FreeAcs, InFlight, Leaving, Behind, TypeOK, VpnOK, AttemptPhases,
          vpn
    <3>3. CASE ServeDisconnect(d)
      BY <3>3
      DEF ServeDisconnect, DropSignal, TakeSession, AbortAttempt,
          SessionDropped, UndoDns, SetTunnel, SetAttempt, Detach, Goto,
          InFlight, Leaving, Behind, TypeOK, VpnOK, AttemptPhases, vpn
    <3>4. CASE TerminateOpenVpn(d)
      BY <3>4
      DEF TerminateOpenVpn, SetTunnel, Goto, TypeOK, VpnOK, AttemptPhases, vpn
    <3>5. CASE RestoreDns(d)
      BY <3>5
      DEF RestoreDns, AbortMonitor, AfterRestore, Goto, TypeOK, VpnOK,
          AttemptPhases, vpn
    <3>6. CASE ReplyDisconnected(d)
      BY <3>6
      DEF ReplyDisconnected, Respond, ErrorExit, UndoDns, Crash, Gone, Closed,
          Goto, FreeAcs, InFlight, Leaving, Behind, TypeOK, VpnOK,
          AttemptPhases, vpn
    <3>7. QED
      BY <2>7, <3>1, <3>2, <3>3, <3>4, <3>5, <3>6 DEF ControlLoop
  <2>8. CASE SigKill(d) \/ SigTerm(d) \/ CtrlC(d)
    BY <2>8
    DEF SigKill, ErrorExit, UndoDns, Crash, Gone, Closed, Goto, FreeAcs,
        InFlight, Leaving, Behind, SigTerm, CtrlC, TypeOK, VpnOK,
        AttemptPhases, vpn
  <2>9. CASE ParentReturns(d) \/ ParentDies(d)
    BY <2>9
    DEF ParentReturns, ParentDies, TypeOK, VpnOK, AttemptPhases, vpn
  <2>10. QED
    BY <1>1, <2>1, <2>2, <2>3, <2>4, <2>5, <2>6, <2>7, <2>8, <2>9 DEF Daemon
<1>2. ASSUME NEW c \in Clients, Client(c)
      PROVE  VpnOK'
  BY <1>2
  DEF Client, CliRequest, CliStart, CliGoto, CliDial, Dial, DialRefused,
      Unavailable, Disconnected, CliSend, Write, CliReply, Outcome,
      CliSocketGone, CliTimeout, CliReconnect, Launch, Goto, CliDies, Hangup,
      CliDone, TypeOK, VpnOK, AttemptPhases, vpn
<1>3. QED
  BY <1>1, <1>2 DEF Next

\* A CLI process is always somewhere in its command.
LEMMA CliPreserved ==
    ASSUME TypeOK, Next
    PROVE  CliOK'
<1>1. ASSUME NEW d \in Daemons, Daemon(d)
      PROVE  CliOK'
  <2>1. CASE StartDaemon(d)
    BY <2>1
    DEF StartDaemon, Launch, Goto, TypeOK, CliOK, cli
  <2>2. CASE Runner(d)
    BY <2>2
    DEF Runner, Bind, ProbeSocket, DialDaemon, Dial, DialRefused, SendProbe,
        Write, ProbeAnswered, UnlinkStaleSocket, UnlinkStaleState, BindSocket,
        ErrorExit, UndoDns, Crash, Gone, Closed, Goto, FreeAcs, InFlight,
        Leaving, Behind, Announce, SetAttempt, StartupSucceeds, StartupFails,
        RemoveSocket, RemoveState, Drained, TypeOK, CliOK, cli
  <2>3. CASE ConnectTask(d)
    BY <2>3
    DEF ConnectTask, AttemptWakes, BindAcs, SpawnOpenVpn, Login, ConfigureDns,
        AttemptCancelled, DropSession, AttemptFails, SessionDropped, UndoDns,
        SetAttempt, SetTunnel, Detach, FreeAcs, TypeOK, CliOK, cli
  <2>4. CASE MonitorTask(d) \/ Environment(d)
    BY <2>4
    DEF MonitorTask, MonitorEnds, FreeAcs, Environment, MonitorStops,
        OpenVpnExits, SetTunnel, TypeOK, CliOK, cli
  <2>5. CASE Tick(d)
    BY <2>5
    DEF Tick, TickExit, TickReconnected, TickRetry, TickIdle, DropSignal,
        SetAttempt, SetTunnel, AbortMonitor, ErrorExit, UndoDns, Crash, Gone,
        Closed, Goto, FreeAcs, InFlight, Leaving, Behind, TypeOK, CliOK, cli
  <2>6. CASE Accept(d) \/ LoopSignal(d)
    BY <2>6
    DEF Accept, Goto, DropSignal, LoopSignal, TakeSession, AbortAttempt,
        SessionDropped, UndoDns, SetTunnel, SetAttempt, Detach, InFlight,
        Leaving, Behind, TypeOK, CliOK, cli
  <2>7. CASE ControlLoop(d)
    BY <2>7
    DEF ControlLoop, ServeStatus, Respond, ErrorExit, UndoDns, Crash, Gone,
        Closed, Goto, FreeAcs, InFlight, Leaving, Behind, ServeNothing,
        ServeDisconnect, DropSignal, TakeSession, AbortAttempt,
        SessionDropped, SetTunnel, SetAttempt, Detach, TerminateOpenVpn,
        RestoreDns, AbortMonitor, AfterRestore, ReplyDisconnected, TypeOK,
        CliOK, cli
  <2>8. CASE SigKill(d) \/ SigTerm(d) \/ CtrlC(d)
    BY <2>8
    DEF SigKill, ErrorExit, UndoDns, Crash, Gone, Closed, Goto, FreeAcs,
        InFlight, Leaving, Behind, SigTerm, CtrlC, TypeOK, CliOK, cli
  <2>9. CASE ParentReturns(d) \/ ParentDies(d)
    BY <2>9
    DEF ParentReturns, ParentDies, TypeOK, CliOK, cli
  <2>10. QED
    BY <1>1, <2>1, <2>2, <2>3, <2>4, <2>5, <2>6, <2>7, <2>8, <2>9 DEF Daemon
<1>2. ASSUME NEW c \in Clients, Client(c)
      PROVE  CliOK'
  BY <1>2
  DEF Client, CliRequest, CliStart, CliGoto, CliDial, Dial, DialRefused,
      Unavailable, Disconnected, CliSend, Write, CliReply, Outcome,
      CliSocketGone, CliTimeout, CliReconnect, Launch, Goto, CliDies, Hangup,
      CliDone, TypeOK, CliOK, cli
<1>3. QED
  BY <1>1, <1>2 DEF Next

\* The ways in which a step touches the listener queues and the connections:
\* a connection is made, a reply is written, a process ends.
LEMMA DialType ==
    ASSUME TypeOK, NEW p \in Peers, Dial(p)
    PROVE  QueueOK' /\ ConnsOK'
<1>1. socket \in Daemons
  BY DEF Dial, TypeOK, FilesOK
<1>2. Append(backlog[socket], p) \in Seq(Peers)
  BY <1>1 DEF TypeOK, QueueOK
<1>3. QueueOK'
  BY <1>1, <1>2 DEF Dial, TypeOK, QueueOK
<1>4. ConnsOK'
  BY <1>1 DEF Dial, TypeOK, ConnsOK
<1>5. QED
  BY <1>3, <1>4

\* A reply keeps the types.
LEMMA RespondType ==
    ASSUME TypeOK, NEW d \in Daemons,
           NEW answer \in {"status", "down", "error"}, Respond(d, answer)
    PROVE  QueueOK' /\ ConnsOK'
<1>1. QueueOK'
  BY DEF Respond, TypeOK, QueueOK
<1>2. ConnsOK'
  BY DEF Respond, TypeOK, ConnsOK
<1>3. QED
  BY <1>1, <1>2

\* So does a daemon whose listener and connections close.
LEMMA ClosedType ==
    ASSUME TypeOK, NEW d \in Daemons, Closed(d)
    PROVE  QueueOK' /\ ConnsOK'
<1>1. QueueOK'
  BY DEF Closed, TypeOK, QueueOK
<1>2. ConnsOK'
  BY DEF Closed, LinksAfter, Hangup, TypeOK, ConnsOK
<1>3. QED
  BY <1>1, <1>2

\* So does a daemon that is gone.
LEMMA GoneType ==
    ASSUME TypeOK, NEW d \in Daemons, NEW how, Gone(d, how)
    PROVE  QueueOK' /\ ConnsOK'
BY ClosedType DEF Gone

\* And one that leaves its control loop, in whatever way.
LEMMA ExitType ==
    ASSUME TypeOK, NEW d \in Daemons, Crash(d) \/ ErrorExit(d)
    PROVE  QueueOK' /\ ConnsOK'
BY GoneType DEF Crash, ErrorExit

\* Queued connections come from peers and lead to daemons.
LEMMA ControlPreserved ==
    ASSUME TypeOK, Next
    PROVE  (QueueOK /\ ConnsOK)'
<1>1. ASSUME NEW d \in Daemons, Daemon(d)
      PROVE  (QueueOK /\ ConnsOK)'
  <2>1. CASE StartDaemon(d)
    BY <2>1, DialType, RespondType, ExitType, GoneType
    DEF StartDaemon, Launch, TypeOK, QueueOK, ConnsOK, queue, conns, Peers,
        vpn
  <2>2. CASE Runner(d)
    <3>1. CASE Bind(d)
      BY <3>1, DialType, ExitType
      DEF Bind, ProbeSocket, DialDaemon, DialRefused, SendProbe, Write,
          ProbeAnswered, UnlinkStaleSocket, UnlinkStaleState, BindSocket,
          TypeOK, QueueOK, ConnsOK, queue, conns, Peers, vpn
    <3>2. CASE Announce(d) \/ StartupSucceeds(d) \/ StartupFails(d) \/ RemoveSocket(d)
      BY <3>2, ExitType
      DEF Announce, StartupSucceeds, StartupFails, RemoveSocket,
          TypeOK, QueueOK, ConnsOK, queue, conns, Peers, vpn
    <3>3. CASE RemoveState(d)
      BY <3>3, ClosedType DEF RemoveState
    <3>4. CASE Drained(d)
      BY <3>4, GoneType DEF Drained
    <3>5. QED
      BY <2>2, <3>1, <3>2, <3>3, <3>4 DEF Runner
  <2>3. CASE ConnectTask(d)
    BY <2>3, DialType, RespondType, ExitType, GoneType
    DEF ConnectTask, AttemptWakes, BindAcs, SpawnOpenVpn, Login, ConfigureDns,
        AttemptCancelled, DropSession, TypeOK, QueueOK, ConnsOK, queue, conns,
        Peers, vpn
  <2>4. CASE MonitorTask(d) \/ Environment(d)
    BY <2>4, DialType, RespondType, ExitType, GoneType
    DEF MonitorTask, MonitorEnds, Environment, MonitorStops, OpenVpnExits,
        TypeOK, QueueOK, ConnsOK, queue, conns, Peers, vpn
  <2>5. CASE Tick(d)
    BY <2>5, DialType, RespondType, ExitType, GoneType
    DEF Tick, TickExit, TickReconnected, TickRetry, TickIdle, DropSignal,
        TypeOK, QueueOK, ConnsOK, queue, conns, Peers, vpn
  <2>6. CASE Accept(d)
    <3>1. Head(backlog[d]) \in Peers /\ Tail(backlog[d]) \in Seq(Peers)
      BY <2>6 DEF Accept, TypeOK, QueueOK
    <3>2. QueueOK'
      BY <2>6, <3>1 DEF Accept, TypeOK, QueueOK
    <3>3. ConnsOK'
      BY <2>6 DEF Accept, TypeOK, ConnsOK, conns
    <3>4. QED
      BY <3>2, <3>3
  <2>7. CASE LoopSignal(d)
    BY <2>7, DialType, RespondType, ExitType, GoneType
    DEF LoopSignal, DropSignal, TypeOK, QueueOK, ConnsOK, queue, conns, Peers,
        vpn
  <2>8. CASE ControlLoop(d)
    BY <2>8, DialType, RespondType, ExitType, GoneType
    DEF ControlLoop, ServeStatus, ServeNothing, ServeDisconnect, DropSignal,
        TerminateOpenVpn, RestoreDns, ReplyDisconnected, TypeOK, QueueOK,
        ConnsOK, queue, conns, Peers, vpn
  <2>9. CASE SigKill(d) \/ SigTerm(d) \/ CtrlC(d)
    BY <2>9, DialType, RespondType, ExitType, GoneType
    DEF SigKill, SigTerm, CtrlC, TypeOK, QueueOK, ConnsOK, queue, conns,
        Peers, vpn
  <2>10. CASE ParentReturns(d) \/ ParentDies(d)
    BY <2>10, DialType, RespondType, ExitType, GoneType
    DEF ParentReturns, ParentDies, TypeOK, QueueOK, ConnsOK, queue, conns,
        Peers, vpn
  <2>11. QED
    BY <1>1, <2>1, <2>2, <2>3, <2>4, <2>5, <2>6, <2>7, <2>8, <2>9, <2>10 DEF Daemon
<1>2. ASSUME NEW c \in Clients, Client(c)
      PROVE  (QueueOK /\ ConnsOK)'
  BY <1>2, DialType, RespondType, ExitType, GoneType
  DEF Client, CliRequest, CliStart, CliDial, DialRefused, CliSend, Write,
      CliReply, CliSocketGone, CliTimeout, CliReconnect, Launch, CliDies,
      Hangup, CliDone, TypeOK, QueueOK, ConnsOK, queue, conns, Peers, vpn
<1>3. QED
  BY <1>1, <1>2 DEF Next

\* A step that changes nothing keeps the types.
LEMMA TypeStutter ==
    ASSUME TypeOK, UNCHANGED vars
    PROVE  TypeOK'
BY DEF TypeOK, ProcsOK, FilesOK, VpnOK, QueueOK, ConnsOK, CliOK, vars, files,
    vpn, queue, conns, cli

\* Every variable of the daemon and of its clients stays in its type.
THEOREM TypeCorrect == Spec => []TypeOK
<1>1. Init => TypeOK
  BY DEF Init, TypeOK, ProcsOK, FilesOK, VpnOK, QueueOK, ConnsOK, CliOK, Stopped,
      AttemptPhases
<1>2. TypeOK /\ [Next]_vars => TypeOK'
  BY ProcsPreserved, FilesPreserved, VpnPreserved, CliPreserved,
     ControlPreserved, TypeStutter DEF TypeOK
<1>3. QED
  BY <1>1, <1>2, PTL DEF Spec

=============================================================================
