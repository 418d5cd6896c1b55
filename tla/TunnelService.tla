--------------------------- MODULE TunnelService ----------------------------
(***************************************************************************)
(* What a process that connects a VPN promises about its OpenVPN process,  *)
(* whatever the control socket, the login, DNS and the timeouts do:        *)
(*   - it spawns OpenVPN only while it is connecting, and never a second   *)
(*     one beside the first;                                               *)
(*   - it says it is connected only when OpenVPN has connected;            *)
(*   - a lost session is followed by another attempt, or by the end;       *)
(*   - from the moment a session is being stopped there is no new one;     *)
(*   - a connect that is cancelled may get as far as to spawn OpenVPN, or  *)
(*     to connect it, but never becomes a session, and the process waits   *)
(*     for its end;                                                        *)
(*   - a process that ends in good order leaves no OpenVPN process: only   *)
(*     one that crashes, or fails in the middle of a connect, may.         *)
(* DaemonService shows that DaemonControl implements this for every daemon *)
(* on the host, VpnSession that it does so for one process.                *)
(***************************************************************************)
CONSTANT Procs

VARIABLES
    phase,      \* process -> what it is doing
    openvpn,    \* process -> its OpenVPN process
    orphaned    \* process -> an OpenVPN process has outlived it

vars == <<phase, openvpn, orphaned>>

Phases == { "off", "crashed",
            "connecting",   \* the first connect, or a reconnect attempt
            "up",           \* a session
            "stopping",     \* the session is being taken down
            "cancelling",   \* the connect is cancelled, its client not answered
            "draining",     \* the connect is cancelled, nobody waits for it
            "closing" }     \* nothing is left to take down but the control files

TypeOK ==
    /\ phase \in [Procs -> Phases]
    /\ openvpn \in [Procs -> {"none", "starting", "up", "exited"}]
    /\ orphaned \in [Procs -> BOOLEAN]

Init ==
    /\ phase = [p \in Procs |-> "off"]
    /\ openvpn = [p \in Procs |-> "none"]
    /\ orphaned = [p \in Procs |-> FALSE]

Goes(p, from, to) == phase[p] \in from /\ phase' = [phase EXCEPT ![p] = to]
Ovpn(p, state)    == openvpn' = [openvpn EXCEPT ![p] = state]
Connecting(p)     == phase[p] \in {"connecting", "cancelling", "draining"}
Connected(p)      == openvpn[p] \in {"up", "exited"}

Start(p)  == Goes(p, {"off", "crashed"}, "connecting") /\ UNCHANGED <<openvpn, orphaned>>

Spawn(p) ==
    /\ Connecting(p) /\ openvpn[p] = "none"
    /\ Ovpn(p, "starting") /\ UNCHANGED <<phase, orphaned>>

Establish(p) ==
    /\ Connecting(p) /\ openvpn[p] = "starting"
    /\ Ovpn(p, "up") /\ UNCHANGED <<phase, orphaned>>

\* OpenVPN loses its connection before anybody has used it.
Restart(p) ==
    /\ phase[p] = "connecting" /\ openvpn[p] = "up"
    /\ Ovpn(p, "starting") /\ UNCHANGED <<phase, orphaned>>

\* A connect gives up.
GiveUp(p) ==
    /\ phase[p] = "connecting"
    /\ Ovpn(p, "none") /\ UNCHANGED <<phase, orphaned>>

Ready(p) ==
    /\ Goes(p, {"connecting"}, "up") /\ Connected(p)
    /\ UNCHANGED <<openvpn, orphaned>>

\* OpenVPN ends by itself.
Exit(p) ==
    /\ openvpn[p] \in {"starting", "up"}
    /\ Ovpn(p, "exited") /\ UNCHANGED <<phase, orphaned>>

\* The process notices it.
Lose(p) ==
    /\ Goes(p, {"up"}, "connecting") /\ openvpn[p] = "exited"
    /\ Ovpn(p, "none") /\ UNCHANGED orphaned

Stop(p) == Goes(p, {"up"}, "stopping") /\ UNCHANGED <<openvpn, orphaned>>

TakeDown(p) ==
    /\ phase[p] = "stopping"
    /\ Ovpn(p, "none") /\ UNCHANGED <<phase, orphaned>>

\* The connect is told to stop; it need not notice at once.
Cancel(p) ==
    /\ Goes(p, {"connecting"}, "cancelling") \/ Goes(p, {"connecting", "cancelling"}, "draining")
    /\ UNCHANGED <<openvpn, orphaned>>

\* A connect is cancelled, or a session dropped, and OpenVPN killed with it.
Kill(p) ==
    /\ Goes(p, {"connecting", "up"}, "stopping")
    /\ Ovpn(p, "none") /\ UNCHANGED orphaned

\* Nothing is left of the session, or of the connect that was cancelled.
Close(p) ==
    \/ /\ Goes(p, {"connecting", "cancelling", "draining"}, "closing")
       /\ Ovpn(p, "none") /\ UNCHANGED orphaned
    \/ /\ Goes(p, {"stopping"}, "closing") /\ openvpn[p] = "none"
       /\ UNCHANGED <<openvpn, orphaned>>

\* The end in good order.
End(p) ==
    /\ Goes(p, {"connecting", "up", "stopping", "closing"}, "off")
    /\ Ovpn(p, "none") /\ UNCHANGED orphaned

\* An error ends the process in the middle of a connect: the one it makes, or
\* the one it has cancelled for a client that cannot be answered.
Fail(p) ==
    /\ Goes(p, {"connecting", "cancelling"}, "off")
    /\ Ovpn(p, "none")
    /\ \/ UNCHANGED orphaned
       \/ openvpn[p] # "none" /\ orphaned' = [orphaned EXCEPT ![p] = TRUE]

Crash(p) ==
    /\ Goes(p, Phases \ {"crashed"}, "crashed")
    /\ Ovpn(p, "none")
    /\ \/ UNCHANGED orphaned
       \/ openvpn[p] # "none" /\ orphaned' = [orphaned EXCEPT ![p] = TRUE]

OrphanEnds(p) ==
    /\ orphaned[p] /\ orphaned' = [orphaned EXCEPT ![p] = FALSE]
    /\ UNCHANGED <<phase, openvpn>>

Step(p) ==
    \/ Start(p) \/ Spawn(p) \/ Establish(p) \/ Restart(p) \/ GiveUp(p) \/ Ready(p) \/ Exit(p)
    \/ Lose(p) \/ Stop(p) \/ TakeDown(p) \/ Cancel(p) \/ Kill(p) \/ Close(p)
    \/ End(p) \/ Fail(p) \/ Crash(p) \/ OrphanEnds(p)

Next == \E p \in Procs : Step(p)

Spec == Init /\ [][Next]_vars

=============================================================================
