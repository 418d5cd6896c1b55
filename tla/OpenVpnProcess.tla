--------------------------- MODULE OpenVpnProcess ---------------------------
(***************************************************************************)
(* The OpenVPN child of a session and its management port                  *)
(* (openvpn/process.rs, openvpn/management.rs).  awsvpn reserves a port by *)
(* binding and closing it, starts OpenVPN with that port, and connects to  *)
(* it with retries; between the reservation and OpenVPN's own bind the     *)
(* port belongs to nobody.                                                 *)
(***************************************************************************)
VARIABLES
    child,  \* the OpenVPN process, as its parent sees it
    port,   \* who listens on the reserved management port
    mgmt    \* who is at the other end of the management connection

process == <<child, port, mgmt>>

ChildStates == {"none", "starting", "hold", "login", "up", "term", "exited"}

ProcessOK ==
    /\ child \in ChildStates
    /\ port \in {"own", "other", "free"}
    /\ mgmt \in {"own", "other", "closed"}

ProcessInit == child = "none" /\ port = "free" /\ mgmt = "closed"

Alive == child \in {"starting", "hold", "login", "up", "term"}

-----------------------------------------------------------------------------
(* OpenVpnPrepared and OpenVpnProcess.                                      *)

reserve_management_port == port' = "free" /\ mgmt' = "closed" /\ UNCHANGED child

spawn == child' = "starting" /\ UNCHANGED <<port, mgmt>>

\* The child is gone, and with it its listener.
Gone ==
    /\ child' = "none"
    /\ port' = IF port = "own" THEN "free" ELSE port
    /\ mgmt' = "closed"

\* Mutant: the child is not killed when its OpenVpnProcess is dropped.
DropProcessOnly == UNCHANGED process

\* The OpenVpnProcess is dropped: kill_on_drop is SIGKILL.
DropProcess == Gone

\* terminate(): an exited child is only reaped, another gets SIGTERM.
request_termination ==
    /\ child' = IF child = "exited" THEN "exited" ELSE "term"
    /\ UNCHANGED <<port, mgmt>>

\* ... then its wait(), bounded by a timeout after which it is killed.
WaitEnds == child \in {"term", "exited"} /\ Gone

-----------------------------------------------------------------------------
(* ManagementClient.                                                        *)

\* connect_with_retry takes the first listener it finds.
ConnectManagement ==
    /\ port # "free"
    /\ mgmt' = port
    /\ UNCHANGED <<child, port>>

\* Mutant: whoever answers is taken for OpenVPN.
AuthenticateAnybody == mgmt # "closed" /\ UNCHANGED <<port, mgmt>> /\ child' = "login"

\* The password is accepted and drive_saml_auth releases the hold; what is not
\* OpenVPN does not answer with SUCCESS.
authenticate ==
    /\ mgmt = "own" /\ child = "hold"
    /\ child' = "login"
    /\ UNCHANGED <<port, mgmt>>

-----------------------------------------------------------------------------
(* OpenVPN itself.                                                          *)

\* It listens on the port it was given, or exits when it cannot.
Listen ==
    /\ child = "starting"
    /\ IF port = "free" THEN child' = "hold" /\ port' = "own"
                      ELSE child' = "exited" /\ UNCHANGED port
    /\ UNCHANGED mgmt

\* An unrelated program is given the port meanwhile.
PortTaken ==
    /\ child \in {"none", "starting"} /\ port = "free"
    /\ port' = "other"
    /\ UNCHANGED <<child, mgmt>>

Establish == child = "login" /\ child' = "up" /\ UNCHANGED <<port, mgmt>>

\* The connection is lost and OpenVPN starts over; hold and login are answered
\* by the reconnect monitor.
Restart == child = "up" /\ child' = "login" /\ UNCHANGED <<port, mgmt>>

\* Its parent has yet to reap it.
Exit ==
    /\ child' = "exited"
    /\ port' = IF port = "own" THEN "free" ELSE port
    /\ UNCHANGED mgmt

=============================================================================
