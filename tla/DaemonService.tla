--------------------------- MODULE DaemonService ----------------------------
(* Every daemon of DaemonControl keeps the promise of TunnelService.        *)
EXTENDS DaemonControl

\* A daemon that has left its control loop with a connect still under way.
Cancelling(d) == Leaving(d) /\ attempt[d] \notin {"none", "err"}

Phase(d) ==
    CASE pc[d] \in {"none", "exited", "announce"} \cup Binding -> "off"
      [] pc[d] = "killed" -> "crashed"
      [] pc[d] = "connecting" -> "connecting"
      [] pc[d] \in {"loop", "serve"} -> IF session[d] THEN "up" ELSE "connecting"
      [] Cancelling(d) /\ pc[d] = "replyDown" -> "cancelling"
      [] Cancelling(d) /\ pc[d] # "replyDown" -> "draining"
      [] Leaving(d) /\ ~Cancelling(d) -> "closing"
      [] OTHER -> "stopping"

phase    == [d \in Daemons |-> Phase(d)]
openvpn  == [d \in Daemons |-> IF Live(d) THEN tunnel[d] ELSE "none"]
orphaned == [d \in Daemons |-> ~Live(d) /\ tunnel[d] # "none"]

Service == INSTANCE TunnelService WITH Procs <- Daemons

\* Every step of the daemons, the clients and the environment is a step of the
\* service or none: no daemon runs two OpenVPN processes, reports a session
\* OpenVPN has not connected or whose connect it has aborted, reconnects after a
\* session was stopped, or ends in good order with OpenVPN running (main.rs,
\* client.rs, process.rs).
ImplementsService == Service!Spec

=============================================================================
