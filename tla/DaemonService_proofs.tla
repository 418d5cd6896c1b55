------------------------ MODULE DaemonService_proofs -------------------------
(***************************************************************************)
(* DaemonControl implements TunnelService.  Of everything a step does, the *)
(* proof needs what it does to one daemon's pc, session, connect task and  *)
(* OpenVPN process: ServiceStep lists that, one lemma shows that the steps *)
(* of DaemonControl are such steps, another that such a step is one of     *)
(* TunnelService, or none.                                                 *)
(***************************************************************************)
EXTENDS DaemonTakeover_proofs, DaemonService

\* OpenVPN has connected before the connect task is past its login.
ServiceInv ==
    \A d \in Daemons :
        /\ attempt[d] = "login" => tunnel[d] = "starting"
        /\ attempt[d] \in {"configure", "ok"} \/ session[d] => tunnel[d] \in {"up", "exited"}
        /\ session[d] => pc[d] \in {"loop", "serve"}

Elsewhere(d) ==
    \A e \in Daemons \ {d} :
        pc'[e] = pc[e] /\ session'[e] = session[e]
        /\ attempt'[e] = attempt[e] /\ tunnel'[e] = tunnel[e]

Moves(d, from, to)    == pc[d] \in from /\ pc'[d] \in to
Attempts(d, from, to) == attempt[d] \in from /\ attempt'[d] = to
Fails(d, from)        == Attempts(d, from, IF Leaving(d) THEN "none" ELSE "err")
Tunnels(d, to)        == tunnel'[d] = to
SamePc(d)      == pc'[d] = pc[d]
SameSession(d) == session'[d] = session[d]
SameAttempt(d) == attempt'[d] = attempt[d]
SameTunnel(d)  == tunnel'[d] = tunnel[d]

\* Steps of the runner and of the control loop that leave the VPN alone.
QuietStep(d) ==
    /\ SameSession(d) /\ SameAttempt(d) /\ SameTunnel(d)
    /\ \/ SamePc(d)
       \/ Moves(d, Binding \cup {"none"}, Binding \cup {"announce"})
       \/ Moves(d, {"loop", "serve"}, {"loop", "serve"})
       \/ Moves(d, {"replyDown", "replyErr"}, {"rmSocket"})
       \/ Moves(d, {"rmSocket"}, {"rmState"})
       \/ Moves(d, {"rmState"}, {"drain"})
       \/ Moves(d, {"restore"}, {"rmSocket", "replyDown", "replyErr"})
       \/ Moves(d, {"connecting"}, {"rmSocket"}) /\ attempt[d] = "err"

\* Steps of the connect task.
TaskStep(d) ==
    /\ SameSession(d)
    /\ \/ /\ SamePc(d)
          /\ \/ Attempts(d, {"sleep"}, "start") /\ SameTunnel(d)
             \/ Attempts(d, {"start"}, "spawn") /\ SameTunnel(d)
             \/ Fails(d, {"start", "spawn"}) /\ SameTunnel(d)
             \/ /\ Attempts(d, {"spawn"}, IF Leaving(d) THEN "aborted" ELSE "login")
                /\ Tunnels(d, "starting")
             \/ Attempts(d, {"login"}, "configure") /\ Tunnels(d, "up")
             \/ Attempts(d, {"configure"}, "ok") /\ SameTunnel(d)
             \/ Fails(d, {"login", "configure"}) /\ Tunnels(d, "none")
             \/ Attempts(d, {"aborted"}, "none") /\ Tunnels(d, "none")
             \/ Leaving(d) /\ Attempts(d, {"ok"}, "none") /\ Tunnels(d, "none")
       \/ Moves(d, {"announce"}, {"connecting"}) /\ Attempts(d, {"none"}, "start") /\ SameTunnel(d)
       \/ pc[d] = "loop" /\ SamePc(d) /\ Attempts(d, {"err"}, "sleep") /\ SameTunnel(d)

\* The session begins, is lost, or is stopped; a connect is cancelled.
SessionStep(d) ==
    \/ /\ Moves(d, {"connecting", "loop"}, {"loop"}) /\ ~session[d] /\ session'[d] = TRUE
       /\ Attempts(d, {"ok"}, "none") /\ SameTunnel(d)
    \/ /\ pc[d] = "loop" /\ SamePc(d) /\ session[d] /\ session'[d] = FALSE
       /\ tunnel[d] = "exited" /\ attempt'[d] = "sleep" /\ Tunnels(d, "none")
    \/ /\ Moves(d, {"loop", "serve"}, {"terminate"}) /\ session[d] /\ session'[d] = FALSE
       /\ SameAttempt(d) /\ SameTunnel(d)
    \/ /\ Moves(d, {"loop", "serve"}, {"replyDown", "rmSocket"}) /\ ~session[d]
       /\ SameSession(d)
       /\ \/ Attempts(d, {"ok"}, "none") /\ Tunnels(d, "none")
          \/ Attempts(d, {"err"}, "none") /\ SameTunnel(d)
          \/ Attempts(d, {"sleep", "login"}, "aborted") /\ SameTunnel(d)
          \/ /\ attempt[d] \in {"start", "spawn", "login", "configure"}
             /\ SameAttempt(d) /\ SameTunnel(d)
    \/ /\ Moves(d, {"terminate"}, {"restore"}) /\ SameSession(d) /\ SameAttempt(d)
       /\ Tunnels(d, "none")

\* The process ends, or OpenVPN does.
EndStep(d) ==
    \/ /\ Live(d) /\ session'[d] = FALSE /\ attempt'[d] = "none"
       /\ \/ /\ pc[d] = "drain" /\ pc'[d] = "exited" /\ SameTunnel(d)
             /\ attempt[d] \in {"none", "err"}
          \/ /\ pc[d] \in Binding \cup {"connecting", "loop", "serve", "replyDown", "replyErr"}
             /\ pc'[d] = "exited"
             /\ Tunnels(d, IF InFlight(d) THEN tunnel[d] ELSE "none")
             /\ pc[d] = "connecting" => attempt[d] = "ok"
          \/ /\ pc'[d] = "killed"
             /\ Tunnels(d, IF tunnel[d] = "exited" THEN "none" ELSE tunnel[d])
    \/ /\ tunnel[d] = "up" /\ SamePc(d) /\ SameSession(d) /\ SameAttempt(d)
       /\ Tunnels(d, IF Live(d) THEN "exited" ELSE "none")

ServiceStep(d) ==
    Elsewhere(d) /\ (QuietStep(d) \/ TaskStep(d) \/ SessionStep(d) \/ EndStep(d))

-----------------------------------------------------------------------------

\* Every step of a daemon, and of a client that starts one, is such a step.
LEMMA NextIsServiceStep ==
    ASSUME TypeOK, TaskHome, ServiceInv, Next
    PROVE  (UNCHANGED <<pc, session, attempt, tunnel>>) \/ \E d \in Daemons : ServiceStep(d)
<1>1. ASSUME NEW d \in Daemons, Daemon(d)
      PROVE  ServiceStep(d)
  <2>1. CASE StartDaemon(d)
    BY <2>1
    DEF StartDaemon, Launch, Goto, ServiceStep, Elsewhere, QuietStep,
        TaskStep, SessionStep, EndStep, Moves, Attempts, Fails, Tunnels,
        SamePc, SameSession, SameAttempt, SameTunnel, TypeOK, ProcsOK, VpnOK,
        AttemptPhases, TaskHome, Live, InFlight, Leaving, Behind, Stopped,
        Binding, Startup, Bound, Open, vpn
  <2>2. CASE Bind(d)
    BY <2>2
    DEF Bind, ProbeSocket, DialDaemon, Dial, DialRefused, SendProbe, Write,
        ProbeAnswered, UnlinkStaleSocket, UnlinkStaleState, BindSocket,
        ErrorExit, UndoDns, Crash, Gone, Closed, Goto, FreeAcs, ServiceStep,
        Elsewhere, QuietStep, TaskStep, SessionStep, EndStep, Moves, Attempts,
        Fails, Tunnels, SamePc, SameSession, SameAttempt, SameTunnel, TypeOK,
        ProcsOK, VpnOK, AttemptPhases, TaskHome, Live, InFlight, Leaving,
        Behind, Stopped, Binding, Startup, Bound, Open, vpn
  <2>3. CASE Announce(d)
    BY <2>3
    DEF Announce, Goto, SetAttempt, ServiceStep, Elsewhere, QuietStep,
        TaskStep, SessionStep, EndStep, Moves, Attempts, Fails, Tunnels,
        SamePc, SameSession, SameAttempt, SameTunnel, TypeOK, ProcsOK, VpnOK,
        AttemptPhases, TaskHome, Live, InFlight, Leaving, Behind, Stopped,
        Binding, Startup, Bound, Open, vpn
  <2>4. CASE StartupSucceeds(d)
    BY <2>4
    DEF StartupSucceeds, ServiceInv, SetAttempt, ErrorExit, UndoDns, Crash,
        Gone, Closed, Goto, FreeAcs, ServiceStep, Elsewhere, QuietStep,
        TaskStep, SessionStep, EndStep, Moves, Attempts, Fails, Tunnels,
        SamePc, SameSession, SameAttempt, SameTunnel, TypeOK, ProcsOK, VpnOK,
        AttemptPhases, TaskHome, Live, InFlight, Leaving, Behind, Stopped,
        Binding, Startup, Bound, Open, vpn
  <2>5. CASE StartupFails(d) \/ RemoveSocket(d) \/ RemoveState(d) \/ Drained(d)
    BY <2>5
    DEF StartupFails, RemoveSocket, RemoveState, Drained, ErrorExit, UndoDns,
        Crash, Gone, Closed, Goto, FreeAcs, ServiceStep, Elsewhere, QuietStep,
        TaskStep, SessionStep, EndStep, Moves, Attempts, Fails, Tunnels,
        SamePc, SameSession, SameAttempt, SameTunnel, TypeOK, ProcsOK, VpnOK,
        AttemptPhases, TaskHome, Live, InFlight, Leaving, Behind, Stopped,
        Binding, Startup, Bound, Open, vpn
  <2>6. CASE ConnectTask(d)
    BY <2>6
    DEF ConnectTask, AttemptWakes, BindAcs, SpawnOpenVpn, Login, ConfigureDns,
        AttemptCancelled, DropSession, AttemptFails, SessionDropped, UndoDns,
        Leaving, Behind, SetAttempt, SetTunnel, Detach, FreeAcs, ServiceStep,
        Elsewhere, QuietStep, TaskStep, SessionStep, EndStep, Moves, Attempts,
        Fails, Tunnels, SamePc, SameSession, SameAttempt, SameTunnel, TypeOK,
        ProcsOK, VpnOK, AttemptPhases, TaskHome, Live, InFlight, Stopped,
        Binding, Startup, Bound, Open, vpn
  <2>7. CASE MonitorTask(d) \/ Environment(d)
    BY <2>7
    DEF MonitorTask, MonitorEnds, FreeAcs, Environment, MonitorStops,
        OpenVpnExits, SetTunnel, ServiceStep, Elsewhere, QuietStep, TaskStep,
        SessionStep, EndStep, Moves, Attempts, Fails, Tunnels, SamePc,
        SameSession, SameAttempt, SameTunnel, TypeOK, ProcsOK, VpnOK,
        AttemptPhases, TaskHome, Live, InFlight, Leaving, Behind, Stopped,
        Binding, Startup, Bound, Open, vpn
  <2>8. CASE Tick(d)
    BY <2>8
    DEF Tick, TickExit, TickReconnected, TickRetry, TickIdle, DropSignal,
        SetAttempt, SetTunnel, AbortMonitor, ErrorExit, UndoDns, Crash, Gone,
        Closed, Goto, FreeAcs, ServiceStep, Elsewhere, QuietStep, TaskStep,
        SessionStep, EndStep, Moves, Attempts, Fails, Tunnels, SamePc,
        SameSession, SameAttempt, SameTunnel, TypeOK, ProcsOK, VpnOK,
        AttemptPhases, TaskHome, Live, InFlight, Leaving, Behind, Stopped,
        Binding, Startup, Bound, Open, vpn
  <2>9. CASE Accept(d) \/ LoopSignal(d)
    BY <2>9
    DEF Accept, Goto, DropSignal, LoopSignal, TakeSession, AbortAttempt,
        SessionDropped, UndoDns, SetTunnel, SetAttempt, Detach, ServiceStep,
        Elsewhere, QuietStep, TaskStep, SessionStep, EndStep, Moves, Attempts,
        Fails, Tunnels, SamePc, SameSession, SameAttempt, SameTunnel, TypeOK,
        ProcsOK, VpnOK, AttemptPhases, TaskHome, Live, InFlight, Leaving,
        Behind, Stopped, Binding, Startup, Bound, Open, vpn
  <2>10. CASE ServeStatus(d) \/ ServeNothing(d)
    BY <2>10
    DEF ServeStatus, Respond, ServeNothing, ErrorExit, UndoDns, Crash, Gone,
        Closed, Goto, FreeAcs, ServiceStep, Elsewhere, QuietStep, TaskStep,
        SessionStep, EndStep, Moves, Attempts, Fails, Tunnels, SamePc,
        SameSession, SameAttempt, SameTunnel, TypeOK, ProcsOK, VpnOK,
        AttemptPhases, TaskHome, Live, InFlight, Leaving, Behind, Stopped,
        Binding, Startup, Bound, Open, vpn
  <2>11. CASE ServeDisconnect(d)
    BY <2>11
    DEF ServeDisconnect, DropSignal, TakeSession, AbortAttempt,
        SessionDropped, UndoDns, SetTunnel, SetAttempt, Detach, Goto,
        ServiceStep, Elsewhere, QuietStep, TaskStep, SessionStep, EndStep,
        Moves, Attempts, Fails, Tunnels, SamePc, SameSession, SameAttempt,
        SameTunnel, TypeOK, ProcsOK, VpnOK, AttemptPhases, TaskHome, Live,
        InFlight, Leaving, Behind, Stopped, Binding, Startup, Bound, Open, vpn
  <2>12. CASE TerminateOpenVpn(d) \/ RestoreDns(d)
    BY <2>12
    DEF TerminateOpenVpn, SetTunnel, RestoreDns, AbortMonitor, AfterRestore,
        Goto, ServiceStep, Elsewhere, QuietStep, TaskStep, SessionStep,
        EndStep, Moves, Attempts, Fails, Tunnels, SamePc, SameSession,
        SameAttempt, SameTunnel, TypeOK, ProcsOK, VpnOK, AttemptPhases,
        TaskHome, Live, InFlight, Leaving, Behind, Stopped, Binding, Startup,
        Bound, Open, vpn
  <2>13. CASE ReplyDisconnected(d)
    BY <2>13
    DEF ReplyDisconnected, Respond, ErrorExit, UndoDns, Crash, Gone, Closed,
        Goto, FreeAcs, ServiceStep, Elsewhere, QuietStep, TaskStep,
        SessionStep, EndStep, Moves, Attempts, Fails, Tunnels, SamePc,
        SameSession, SameAttempt, SameTunnel, TypeOK, ProcsOK, VpnOK,
        AttemptPhases, TaskHome, Live, InFlight, Leaving, Behind, Stopped,
        Binding, Startup, Bound, Open, vpn
  <2>14. CASE SigKill(d) \/ SigTerm(d) \/ CtrlC(d)
    BY <2>14
    DEF SigKill, SigTerm, CtrlC, ErrorExit, UndoDns, Crash, Gone, Closed,
        Goto, FreeAcs, ServiceStep, Elsewhere, QuietStep, TaskStep,
        SessionStep, EndStep, Moves, Attempts, Fails, Tunnels, SamePc,
        SameSession, SameAttempt, SameTunnel, TypeOK, ProcsOK, VpnOK,
        AttemptPhases, TaskHome, Live, InFlight, Leaving, Behind, Stopped,
        Binding, Startup, Bound, Open, vpn
  <2>15. CASE ParentReturns(d) \/ ParentDies(d)
    BY <2>15
    DEF ParentReturns, ParentDies, ServiceStep, Elsewhere, QuietStep,
        TaskStep, SessionStep, EndStep, Moves, Attempts, Fails, Tunnels,
        SamePc, SameSession, SameAttempt, SameTunnel, TypeOK, ProcsOK, VpnOK,
        AttemptPhases, TaskHome, Live, InFlight, Leaving, Behind, Stopped,
        Binding, Startup, Bound, Open, vpn
  <2>16. QED
    BY <1>1, <2>1, <2>2, <2>3, <2>4, <2>5, <2>6, <2>7, <2>8, <2>9, <2>10, <2>11, <2>12, <2>13, <2>14, <2>15
    DEF Daemon, Runner, ControlLoop
<1>2. ASSUME NEW c \in Clients, Client(c)
      PROVE  (UNCHANGED <<pc, session, attempt, tunnel>>) \/ \E d \in Daemons : ServiceStep(d)
  BY <1>2
  DEF Client, CliRequest, CliStart, CliGoto, CliDial, Dial, DialRefused,
      Unavailable, Disconnected, CliSend, Write, CliReply, Outcome,
      CliSocketGone, CliTimeout, CliReconnect, Launch, Goto, CliDies, Hangup,
      CliDone, ServiceStep, Elsewhere, QuietStep, TaskStep, SessionStep,
      EndStep, Moves, Attempts, Fails, Tunnels, SamePc, SameSession,
      SameAttempt, SameTunnel, TypeOK, ProcsOK, VpnOK, AttemptPhases,
      TaskHome, Live, InFlight, Leaving, Behind, Stopped, Binding, Startup,
      Bound, Open, vpn
<1>3. QED
  BY <1>1, <1>2 DEF Next

\* Such a step keeps what the refinement needs.
LEMMA ServiceInvPreserved ==
    ASSUME TypeOK, TaskHome, ServiceInv, NEW d \in Daemons, ServiceStep(d)
    PROVE  ServiceInv'
<1>1. \A e \in Daemons :
        /\ pc[e] \in Stopped \cup Binding \cup Open \cup {"drain"}
        /\ attempt[e] \in AttemptPhases
        /\ tunnel[e] \in {"none", "starting", "up", "exited"}
        /\ session[e] \in BOOLEAN
  BY DEF TypeOK, ProcsOK, VpnOK
<1>2. ASSUME NEW e \in Daemons
      PROVE  /\ attempt'[e] = "login" => tunnel'[e] = "starting"
             /\ attempt'[e] \in {"configure", "ok"} \/ session'[e] => tunnel'[e] \in {"up", "exited"}
             /\ session'[e] => pc'[e] \in {"loop", "serve"}
  <2>1. CASE e # d
    BY <2>1 DEF ServiceInv, ServiceStep, Elsewhere
  <2>2. CASE e = d /\ QuietStep(d)
    BY <1>1, <2>2 DEF ServiceInv, QuietStep, Moves, SamePc, SameSession, SameAttempt,
        SameTunnel, Binding
  <2>3. CASE e = d /\ TaskStep(d)
    BY <1>1, <2>3 DEF ServiceInv, TaskHome, TaskStep, Moves, Attempts, Fails, Tunnels,
        SamePc, SameSession, SameTunnel
  <2>4. CASE e = d /\ SessionStep(d)
    BY <1>1, <2>4 DEF ServiceInv, TaskHome, SessionStep, Moves, Attempts, Fails, Tunnels,
        SamePc, SameSession, SameAttempt, SameTunnel, InFlight, Leaving,
        Behind
  <2>5. CASE e = d /\ EndStep(d)
    BY <1>1, <2>5 DEF ServiceInv, TaskHome, EndStep, Tunnels, SamePc, SameSession,
        SameAttempt, Live, Stopped, Leaving, Behind
  <2>6. QED
    BY <2>1, <2>2, <2>3, <2>4, <2>5 DEF ServiceStep
<1>3. QED
  BY <1>2 DEF ServiceInv

-----------------------------------------------------------------------------

OpenVpn(d)  == IF Live(d) THEN tunnel[d] ELSE "none"
Orphaned(d) == ~Live(d) /\ tunnel[d] # "none"

\* A step of one daemon changes the abstract state at that daemon.
LEMMA StepIsLocal ==
    ASSUME NEW d \in Daemons, Elsewhere(d)
    PROVE  /\ phase' = [phase EXCEPT ![d] = Phase(d)']
           /\ openvpn' = [openvpn EXCEPT ![d] = OpenVpn(d)']
           /\ orphaned' = [orphaned EXCEPT ![d] = Orphaned(d)']
           /\ phase[d] = Phase(d) /\ openvpn[d] = OpenVpn(d) /\ orphaned[d] = Orphaned(d)
           /\ Phase(d)' = Phase(d) => phase' = phase
           /\ OpenVpn(d)' = OpenVpn(d) => openvpn' = openvpn
           /\ (Orphaned(d)' <=> Orphaned(d)) => orphaned' = orphaned
<1>1. \A e \in Daemons \ {d} : Phase(e)' = Phase(e)
  BY DEF Elsewhere, Phase, Cancelling, Leaving
<1>2. \A e \in Daemons \ {d} : OpenVpn(e)' = OpenVpn(e)
  BY DEF Elsewhere, OpenVpn, Live
<1>3. \A e \in Daemons \ {d} : Orphaned(e)' = Orphaned(e)
  BY DEF Elsewhere, Orphaned, Live
<1>4. \A e \in Daemons : Orphaned(e) \in BOOLEAN /\ Orphaned(e)' \in BOOLEAN
  BY DEF Orphaned
<1>5. phase = [e \in Daemons |-> Phase(e)] /\ openvpn = [e \in Daemons |-> OpenVpn(e)]
  BY DEF phase, openvpn, OpenVpn
<1>6. orphaned = [e \in Daemons |-> Orphaned(e)]
  BY DEF orphaned, Orphaned
<1>7. phase' = [e \in Daemons |-> Phase(e)'] /\ openvpn' = [e \in Daemons |-> OpenVpn(e)']
  BY DEF phase, openvpn, OpenVpn
<1>8. orphaned' = [e \in Daemons |-> Orphaned(e)']
  BY DEF orphaned, Orphaned
<1>9. phase' = [phase EXCEPT ![d] = Phase(d)'] /\ phase[d] = Phase(d)
      /\ (Phase(d)' = Phase(d) => phase' = phase)
  BY <1>1, <1>5, <1>7
<1>10. openvpn' = [openvpn EXCEPT ![d] = OpenVpn(d)'] /\ openvpn[d] = OpenVpn(d)
       /\ (OpenVpn(d)' = OpenVpn(d) => openvpn' = openvpn)
  BY <1>2, <1>5, <1>7
<1>11. orphaned' = [orphaned EXCEPT ![d] = Orphaned(d)'] /\ orphaned[d] = Orphaned(d)
  BY <1>3, <1>6, <1>8
<1>12. (Orphaned(d)' <=> Orphaned(d)) => orphaned' = orphaned
  <2>1. SUFFICES ASSUME Orphaned(d)' <=> Orphaned(d) PROVE orphaned' = orphaned
    OBVIOUS
  <2>2. Orphaned(d)' = Orphaned(d)
    BY <1>4, <2>1
  <2>3. QED
    BY <1>3, <1>6, <1>8, <2>2
<1>13. QED
  BY <1>9, <1>10, <1>11, <1>12

\* The phases, in this state and in the next.
PhaseTable(d) ==
    /\ pc[d] \in {"none", "exited", "announce"} \cup Binding => Phase(d) = "off"
    /\ pc[d] = "killed" => Phase(d) = "crashed"
    /\ pc[d] = "connecting" => Phase(d) = "connecting"
    /\ pc[d] \in {"loop", "serve"} /\ session[d] => Phase(d) = "up"
    /\ pc[d] \in {"loop", "serve"} /\ ~session[d] => Phase(d) = "connecting"
    /\ pc[d] \in {"terminate", "restore"} => Phase(d) = "stopping"
    /\ pc[d] = "replyDown" /\ attempt[d] \notin {"none", "err"} => Phase(d) = "cancelling"
    /\ pc[d] \in {"replyErr", "rmSocket", "rmState", "drain"} /\ attempt[d] \notin {"none", "err"}
           => Phase(d) = "draining"
    /\ pc[d] \in {"replyDown", "replyErr", "rmSocket", "rmState", "drain"}
          /\ attempt[d] \in {"none", "err"} => Phase(d) = "closing"

\* The phases the refinement mapping gives.
LEMMA PhaseValues ==
    ASSUME NEW d \in Daemons
    PROVE  PhaseTable(d) /\ PhaseTable(d)'
BY DEF PhaseTable, Phase, Cancelling, Leaving, Behind, Binding

\* Such a step seen from the service: what becomes of the phase, of OpenVPN and
\* of an orphan.
Becomes(d, from, to) == Phase(d) \in from /\ Phase(d)' = to
PhaseStays(d)   == Phase(d)' = Phase(d)
OpenVpnStays(d) == OpenVpn(d)' = OpenVpn(d)
OpenVpnGone(d)  == OpenVpn(d)' = "none"
OrphanStays(d)  == Orphaned(d)' <=> Orphaned(d)
OrphanLeft(d)   == OrphanStays(d) \/ (OpenVpn(d) # "none" /\ Orphaned(d)')

ServiceMove(d) ==
    \/ /\ OrphanStays(d)
       /\ \/ PhaseStays(d) /\ OpenVpnStays(d)
          \/ Becomes(d, {"off"}, "connecting") /\ OpenVpnStays(d)
          \/ /\ PhaseStays(d) /\ Phase(d) \in {"connecting", "cancelling", "draining"}
             /\ \/ OpenVpn(d) = "none" /\ OpenVpn(d)' = "starting"
                \/ OpenVpn(d) = "starting" /\ OpenVpn(d)' = "up"
          \/ Becomes(d, {"connecting"}, "connecting") /\ OpenVpnGone(d)
          \/ /\ Becomes(d, {"connecting"}, "up") /\ OpenVpnStays(d)
             /\ OpenVpn(d) \in {"up", "exited"}
          \/ PhaseStays(d) /\ OpenVpn(d) = "up" /\ OpenVpn(d)' = "exited"
          \/ Becomes(d, {"up"}, "connecting") /\ OpenVpn(d) = "exited" /\ OpenVpnGone(d)
          \/ Becomes(d, {"up"}, "stopping") /\ OpenVpnStays(d)
          \/ Becomes(d, {"stopping"}, "stopping") /\ OpenVpnGone(d)
          \/ Becomes(d, {"connecting"}, "cancelling") /\ OpenVpnStays(d)
          \/ Becomes(d, {"connecting", "cancelling"}, "draining") /\ OpenVpnStays(d)
          \/ Becomes(d, {"connecting", "cancelling", "draining"}, "closing") /\ OpenVpnGone(d)
          \/ Becomes(d, {"stopping"}, "closing") /\ OpenVpn(d) = "none" /\ OpenVpnStays(d)
          \/ Becomes(d, {"connecting", "up", "stopping", "closing"}, "off") /\ OpenVpnGone(d)
    \/ Becomes(d, {"connecting", "cancelling"}, "off") /\ OpenVpnGone(d) /\ OrphanLeft(d)
    \/ /\ Phase(d) # "crashed" /\ Phase(d)' = "crashed" /\ Phase(d) \in Service!Phases
       /\ OpenVpnGone(d) /\ OrphanLeft(d)
    \/ PhaseStays(d) /\ OpenVpnStays(d) /\ Orphaned(d) /\ ~Orphaned(d)'

\* A move of the phases of one daemon is a step of the service, or none.
LEMMA ServiceMoveRefines ==
    ASSUME NEW d \in Daemons, Elsewhere(d), ServiceMove(d)
    PROVE  Service!Step(d) \/ UNCHANGED Service!vars
<1> USE StepIsLocal DEF Becomes, PhaseStays, OpenVpnStays, OpenVpnGone, OrphanStays, OrphanLeft
<1>1. CASE PhaseStays(d) /\ OpenVpnStays(d) /\ OrphanStays(d)
  BY <1>1 DEF Service!vars
<1>2. CASE Becomes(d, {"off"}, "connecting") /\ OpenVpnStays(d) /\ OrphanStays(d)
  BY <1>2 DEF Service!Step, Service!Start, Service!Goes
<1>3. CASE PhaseStays(d) /\ Phase(d) \in {"connecting", "cancelling", "draining"}
           /\ OrphanStays(d) /\ OpenVpn(d) = "none" /\ OpenVpn(d)' = "starting"
  BY <1>3 DEF Service!Step, Service!Spawn, Service!Connecting, Service!Ovpn
<1>4. CASE PhaseStays(d) /\ Phase(d) \in {"connecting", "cancelling", "draining"}
           /\ OrphanStays(d) /\ OpenVpn(d) = "starting" /\ OpenVpn(d)' = "up"
  BY <1>4 DEF Service!Step, Service!Establish, Service!Connecting, Service!Ovpn
<1>5. CASE Becomes(d, {"connecting"}, "connecting") /\ OpenVpnGone(d) /\ OrphanStays(d)
  BY <1>5 DEF Service!Step, Service!GiveUp, Service!Ovpn
<1>6. CASE Becomes(d, {"connecting"}, "up") /\ OpenVpnStays(d) /\ OrphanStays(d)
           /\ OpenVpn(d) \in {"up", "exited"}
  BY <1>6 DEF Service!Step, Service!Ready, Service!Goes, Service!Connected
<1>7. CASE PhaseStays(d) /\ OpenVpn(d) = "up" /\ OpenVpn(d)' = "exited" /\ OrphanStays(d)
  BY <1>7 DEF Service!Step, Service!Exit, Service!Ovpn
<1>8. CASE Becomes(d, {"up"}, "connecting") /\ OpenVpn(d) = "exited" /\ OpenVpnGone(d)
           /\ OrphanStays(d)
  BY <1>8 DEF Service!Step, Service!Lose, Service!Goes, Service!Ovpn
<1>9. CASE Becomes(d, {"up"}, "stopping") /\ OpenVpnStays(d) /\ OrphanStays(d)
  BY <1>9 DEF Service!Step, Service!Stop, Service!Goes
<1>10. CASE Becomes(d, {"stopping"}, "stopping") /\ OpenVpnGone(d) /\ OrphanStays(d)
  BY <1>10 DEF Service!Step, Service!TakeDown, Service!Ovpn
<1>11. CASE Becomes(d, {"connecting"}, "cancelling") /\ OpenVpnStays(d) /\ OrphanStays(d)
  BY <1>11 DEF Service!Step, Service!Cancel, Service!Goes
<1>12. CASE Becomes(d, {"connecting", "cancelling"}, "draining") /\ OpenVpnStays(d)
            /\ OrphanStays(d)
  BY <1>12 DEF Service!Step, Service!Cancel, Service!Goes
<1>13. CASE Becomes(d, {"connecting", "cancelling", "draining"}, "closing") /\ OpenVpnGone(d)
            /\ OrphanStays(d)
  BY <1>13 DEF Service!Step, Service!Close, Service!Goes, Service!Ovpn
<1>14. CASE Becomes(d, {"stopping"}, "closing") /\ OpenVpn(d) = "none" /\ OpenVpnStays(d)
            /\ OrphanStays(d)
  BY <1>14 DEF Service!Step, Service!Close, Service!Goes
<1>15. CASE Becomes(d, {"connecting", "up", "stopping", "closing"}, "off") /\ OpenVpnGone(d)
            /\ OrphanStays(d)
  BY <1>15 DEF Service!Step, Service!End, Service!Goes, Service!Ovpn
<1>16. CASE Becomes(d, {"connecting", "cancelling"}, "off") /\ OpenVpnGone(d) /\ OrphanLeft(d)
  <2>1. CASE OrphanStays(d)
    BY <1>16, <2>1 DEF Service!Step, Service!Fail, Service!Goes, Service!Ovpn
  <2>2. CASE OpenVpn(d) # "none" /\ Orphaned(d)' = TRUE
    BY <1>16, <2>2 DEF Service!Step, Service!Fail, Service!Goes, Service!Ovpn
  <2>3. QED
    BY <1>16, <2>1, <2>2 DEF Orphaned
<1>17. CASE Phase(d) # "crashed" /\ Phase(d)' = "crashed" /\ Phase(d) \in Service!Phases
            /\ OpenVpnGone(d) /\ OrphanLeft(d)
  <2>1. CASE OrphanStays(d)
    BY <1>17, <2>1 DEF Service!Step, Service!Crash, Service!Goes, Service!Ovpn
  <2>2. CASE OpenVpn(d) # "none" /\ Orphaned(d)' = TRUE
    BY <1>17, <2>2 DEF Service!Step, Service!Crash, Service!Goes, Service!Ovpn
  <2>3. QED
    BY <1>17, <2>1, <2>2 DEF Orphaned
<1>18. CASE PhaseStays(d) /\ OpenVpnStays(d) /\ Orphaned(d) /\ ~Orphaned(d)'
  <2>1. Orphaned(d)' = FALSE
    BY <1>18 DEF Orphaned
  <2>2. QED
    BY <1>18, <2>1 DEF Service!Step, Service!OrphanEnds
<1>19. QED
  BY <1>1, <1>2, <1>3, <1>4, <1>5, <1>6, <1>7, <1>8, <1>9, <1>10, <1>11, <1>12,
     <1>13, <1>14, <1>15, <1>16, <1>17, <1>18 DEF ServiceMove

\* Where a daemon's OpenVPN process and its session are known.
LEMMA Known ==
    ASSUME TypeOK, NEW d \in Daemons
    PROVE  /\ pc[d] \in Stopped \cup Binding \cup Open \cup {"drain"}
           /\ attempt[d] \in AttemptPhases /\ session[d] \in BOOLEAN
           /\ tunnel[d] \in {"none", "starting", "up", "exited"}
BY DEF TypeOK, ProcsOK, VpnOK

\* Steps of the runner and of the control loop leave the phase alone, or move it on.
LEMMA QuietStepMoves ==
    ASSUME TypeOK, TaskHome, ServiceInv, NEW d \in Daemons, QuietStep(d)
    PROVE  ServiceMove(d)
<1>1. CASE SamePc(d)
  BY <1>1 DEF QuietStep, SamePc, SameSession, SameAttempt, SameTunnel, ServiceMove,
      PhaseStays, OpenVpnStays, OrphanStays, Phase, Cancelling, Leaving,
      Behind, OpenVpn, Orphaned, Live
<1>2. CASE ~SamePc(d)
  BY <1>2, Known, PhaseValues DEF QuietStep, Moves, SamePc, SameSession, SameAttempt, SameTunnel,
      ServiceMove, PhaseStays, OpenVpnStays, OpenVpnGone, OrphanStays,
      Becomes, PhaseTable, OpenVpn, Orphaned, Live, Stopped, Binding,
      TaskHome, Leaving, Behind
<1>3. QED
  BY <1>1, <1>2

\* The steps of the connect task.
LEMMA TaskStepMoves ==
    ASSUME TypeOK, TaskHome, ServiceInv, NEW d \in Daemons, TaskStep(d)
    PROVE  ServiceMove(d)
BY Known, PhaseValues DEF TaskStep, Moves, Attempts, Fails, Tunnels, SamePc, SameSession,
    SameTunnel, ServiceMove, PhaseStays, OpenVpnStays, OpenVpnGone,
    OrphanStays, Becomes, PhaseTable, OpenVpn, Orphaned, Live, Stopped,
    Binding, TaskHome, ServiceInv, Leaving, Behind

\* A session begins, is lost or is stopped; a connect is cancelled.
LEMMA SessionStepMoves ==
    ASSUME TypeOK, TaskHome, ServiceInv, NEW d \in Daemons, SessionStep(d)
    PROVE  ServiceMove(d)
BY Known, PhaseValues DEF SessionStep, Moves, Attempts, Fails, Tunnels, SamePc, SameSession,
    SameAttempt, SameTunnel, ServiceMove, PhaseStays, OpenVpnStays,
    OpenVpnGone, OrphanStays, Becomes, PhaseTable, OpenVpn, Orphaned, Live,
    InFlight, Leaving, Behind, Stopped, Binding, TaskHome, ServiceInv

\* The daemon ends, or OpenVPN does.
LEMMA EndStepMoves ==
    ASSUME TypeOK, TaskHome, ServiceInv, NEW d \in Daemons, EndStep(d)
    PROVE  ServiceMove(d)
<1> USE Known, PhaseValues
    DEF PhaseStays, OpenVpnStays, OpenVpnGone, OrphanStays, OrphanLeft, Becomes, PhaseTable,
        OpenVpn, Orphaned, Live, Stopped, Binding
<1>1. CASE pc[d] = "drain" /\ pc'[d] = "exited"
  <2>1. tunnel[d] = "none" /\ tunnel'[d] = "none" /\ Phase(d) = "closing" /\ Phase(d)' = "off"
    BY <1>1 DEF EndStep, SamePc, SameTunnel, TaskHome, Behind
  <2>2. QED
    BY <1>1, <2>1 DEF ServiceMove
<1>2. CASE pc[d] # "drain" /\ Live(d) /\ pc'[d] = "exited"
  <2>1. tunnel'[d] = IF InFlight(d) THEN tunnel[d] ELSE "none"
    BY <1>2 DEF EndStep, Tunnels, SamePc
  <2>2. CASE InFlight(d)
    <3>1. Phase(d) \in {"off", "connecting", "cancelling"} /\ Phase(d)' = "off"
      BY <1>2, <2>2 DEF EndStep, SamePc, TaskHome, InFlight, Leaving, Behind
    <3>2. Phase(d) = "off" => tunnel[d] = "none"
      BY <1>2, <3>1 DEF EndStep, SamePc, TaskHome
    <3>3. QED
      BY <1>2, <2>1, <2>2, <3>1, <3>2 DEF ServiceMove
  <2>3. CASE ~InFlight(d)
    <3>1. Phase(d)' = "off" /\ (Phase(d) = "off" => tunnel[d] = "none")
      BY <1>2 DEF EndStep, SamePc, TaskHome
    <3>2. Phase(d) \in {"off", "connecting", "up", "closing"}
      BY <1>2, <2>3 DEF EndStep, SamePc, InFlight, Leaving, Behind, AttemptPhases
    <3>3. QED
      BY <1>2, <2>1, <2>3, <3>1, <3>2 DEF ServiceMove
  <2>4. QED
    BY <2>2, <2>3
<1>3. CASE Live(d) /\ pc'[d] = "killed"
  <2>1. Phase(d) # "crashed" /\ Phase(d)' = "crashed" /\ Phase(d) \in Service!Phases
    BY <1>3 DEF Open, Bound, Service!Phases
  <2>2. tunnel'[d] = IF tunnel[d] = "exited" THEN "none" ELSE tunnel[d]
    BY <1>3 DEF EndStep, Tunnels, SamePc
  <2>3. QED
    BY <1>3, <2>1, <2>2 DEF ServiceMove
<1>4. CASE tunnel[d] = "up" /\ SamePc(d) /\ SameSession(d) /\ SameAttempt(d)
           /\ Tunnels(d, IF Live(d) THEN "exited" ELSE "none")
  <2>1. Phase(d)' = Phase(d)
    BY <1>4 DEF SamePc, SameSession, SameAttempt, Phase, Cancelling, Leaving
  <2>2. QED
    BY <1>4, <2>1 DEF SamePc, Tunnels, ServiceMove
<1>5. QED
  BY <1>1, <1>2, <1>3, <1>4 DEF EndStep

-----------------------------------------------------------------------------

\* Every step of DaemonControl is one of TunnelService, or none.
LEMMA NextRefines ==
    ASSUME TypeOK, TaskHome, ServiceInv, Next
    PROVE  Service!Next \/ UNCHANGED Service!vars
<1>1. CASE UNCHANGED <<pc, session, attempt, tunnel>>
  BY <1>1 DEF Service!vars, phase, openvpn, orphaned, Phase, Cancelling, Leaving,
      Behind, Live
<1>2. ASSUME NEW d \in Daemons, ServiceStep(d)
      PROVE  Service!Next \/ UNCHANGED Service!vars
  <2>1. ServiceMove(d) /\ Elsewhere(d)
    BY <1>2, QuietStepMoves, TaskStepMoves, SessionStepMoves, EndStepMoves DEF ServiceStep
  <2>2. QED
    BY <2>1, ServiceMoveRefines DEF Service!Next
<1>3. QED
  BY <1>1, <1>2, NextIsServiceStep

\* What the refinement rests on always holds.
LEMMA ServiceInvHolds == Spec => []ServiceInv
<1>1. Init => ServiceInv
  BY DEF Init, ServiceInv
<1>2. TaskInv /\ ServiceInv /\ [Next]_vars => ServiceInv'
  <2>1. SUFFICES ASSUME TaskInv, ServiceInv, [Next]_vars PROVE ServiceInv'
    OBVIOUS
  <2>2. CASE UNCHANGED <<pc, session, attempt, tunnel>>
    BY <2>1, <2>2 DEF ServiceInv
  <2>3. CASE UNCHANGED vars
    BY <2>2, <2>3 DEF vars, vpn
  <2>4. CASE Next
    BY <2>1, <2>2, <2>4, NextIsServiceStep, ServiceInvPreserved DEF TaskInv
  <2>5. QED
    BY <2>1, <2>3, <2>4
<1>3. QED
  BY <1>1, <1>2, TaskInvHolds, PTL DEF Spec

\* Every daemon keeps the promise of TunnelService, whatever fails and however
\* many daemons and clients there are.
THEOREM DaemonsImplementService == Spec => ImplementsService
<1>1. Init => Service!Init
  <2>1. SUFFICES ASSUME Init PROVE Service!Init
    OBVIOUS
  <2>2. ASSUME NEW d \in Daemons
        PROVE  pc[d] = "none" /\ tunnel[d] = "none" /\ ~Live(d) /\ Phase(d) = "off"
    BY <2>1, <2>2, PhaseValues DEF Init, Live, Stopped, PhaseTable
  <2>3. \A d \in Daemons : (~Live(d) /\ tunnel[d] # "none") = FALSE
    BY <2>2
  <2>4. QED
    BY <2>2, <2>3 DEF Service!Init, phase, openvpn, orphaned
<1>2. TaskInv /\ ServiceInv /\ [Next]_vars => [Service!Next]_(Service!vars)
  <2>1. SUFFICES ASSUME TaskInv, ServiceInv, [Next]_vars
                 PROVE  Service!Next \/ UNCHANGED Service!vars
    OBVIOUS
  <2>2. CASE UNCHANGED vars
    BY <2>2 DEF vars, vpn, Service!vars, phase, openvpn, orphaned, Phase, Cancelling,
        Leaving, Behind, Live
  <2>3. CASE Next
    BY <2>1, <2>3, NextRefines DEF TaskInv
  <2>4. QED
    BY <2>1, <2>2, <2>3
<1>3. QED
  BY <1>1, <1>2, TaskInvHolds, ServiceInvHolds, PTL
  DEF Spec, ImplementsService, Service!Spec

=============================================================================
