------------------------------ MODULE LinuxDns ------------------------------
(***************************************************************************)
(* The native DNS of awsvpn on Linux (dns.rs): the tun interface of the    *)
(* session is found by its address, systemd-resolved is told to use the    *)
(* VPN's servers on it in two commands, and resolvconf is used when one of *)
(* the two fails.  What resolvectl sets belongs to the interface and goes  *)
(* with it; a record of resolvconf stays until it is deleted.              *)
(***************************************************************************)
CONSTANTS
    Tuns,   \* names of tun interfaces
    Addrs,  \* addresses the VPN gives out
    None

VARIABLES
    link,       \* interface -> who opened it, and its address
    resolved,   \* interface -> what resolvectl has set on it
    records,    \* interfaces that resolvconf has a record for
    guard,      \* LinuxDnsMethod: what restore() undoes
    tun         \* the interface configure_linux_dns works on

linux == <<link, resolved, records, guard, tun>>

NoLink  == [owner |-> None, addr |-> None]
NoGuard == [method |-> None, tun |-> None]

LinuxOK ==
    /\ link \in [Tuns -> [owner : {"own", "orphan", None}, addr : Addrs \cup {None}]]
    /\ resolved \in [Tuns -> SUBSET {"dns", "domain"}]
    /\ records \in SUBSET Tuns
    /\ guard \in [method : {"resolved", "resolvconf", None}, tun : Tuns \cup {None}]
    /\ tun \in Tuns \cup {None}

LinuxInit ==
    /\ link = [t \in Tuns |-> NoLink]
    /\ resolved = [t \in Tuns |-> {}]
    /\ records = {} /\ guard = NoGuard /\ tun = None

-----------------------------------------------------------------------------
(* The interfaces.                                                          *)

\* OpenVPN opens an interface under any free name; the VPN gives it an address
\* nobody else has.
OpenLink ==
    /\ \E t \in Tuns, a \in Addrs :
          /\ link[t] = NoLink /\ \A u \in Tuns : link[u].addr # a
          /\ link' = [link EXCEPT ![t] = [owner |-> "own", addr |-> a]]
    /\ UNCHANGED <<resolved, records>>

\* The interfaces of `owner` are closed, what resolvectl set on them goes too.
CloseLinks(owner) ==
    /\ link' = [t \in Tuns |-> IF link[t].owner = owner THEN NoLink ELSE link[t]]
    /\ resolved' = [t \in Tuns |-> IF link[t].owner = owner THEN {} ELSE resolved[t]]

\* The OpenVPN process that opened them has lost its parent.
Abandon ==
    link' = [t \in Tuns |->
                IF link[t].owner = "own" THEN [link[t] EXCEPT !.owner = "orphan"] ELSE link[t]]

OwnAddr == LET own == {t \in Tuns : link[t].owner = "own"}
           IN  IF own = {} THEN None ELSE link[CHOOSE t \in own : TRUE].addr

-----------------------------------------------------------------------------
(* configure_linux_dns.                                                     *)

\* `ip -o -4 addr show`: the interface that has the address.
linux_interface_for_ipv4(addr) == {t \in Tuns : addr # None /\ link[t].addr = addr}

\* A command of resolvectl needs the interface.
CanResolve == link[tun] # NoLink

Resolvectl(what) ==
    /\ resolved' = [resolved EXCEPT ![tun] = what]
    /\ UNCHANGED <<link, records, tun>>

SetDns    == CanResolve /\ Resolvectl(resolved[tun] \cup {"dns"}) /\ UNCHANGED guard
\* Mutant: the interface is not made the route of every name.
SetDomainForgotten ==
    CanResolve /\ Resolvectl(resolved[tun]) /\ guard' = [method |-> "resolved", tun |-> tun]
SetDomain ==
    CanResolve /\ Resolvectl(resolved[tun] \cup {"domain"})
    /\ guard' = [method |-> "resolved", tun |-> tun]

\* `resolvectl revert` when the domain could not be set; its error is ignored.
Revert == (Resolvectl({}) \/ UNCHANGED <<link, resolved, records, tun>>) /\ UNCHANGED guard

\* `resolvconf -a <interface>.awsvpn` does not look at the interface.
configure_resolvconf ==
    /\ records' = records \cup {tun}
    /\ guard' = [method |-> "resolvconf", tun |-> tun]
    /\ UNCHANGED <<link, resolved, tun>>

-----------------------------------------------------------------------------
(* restore_linux_dns.  OpenVPN's interface has usually gone by then, which  *)
(* resolvectl reports as "No such device": that is no error.                *)

\* Mutant: a record of resolvconf is not deleted.
RestoreForgotten ==
    /\ resolved' = [t \in Tuns |->
          IF guard.method = "resolved" /\ t = guard.tun THEN {} ELSE resolved[t]]
    /\ UNCHANGED <<link, records>>

Restore ==
    /\ resolved' = [t \in Tuns |->
          IF guard.method = "resolved" /\ t = guard.tun THEN {} ELSE resolved[t]]
    /\ records' = IF guard.method = "resolvconf" THEN records \ {guard.tun} ELSE records
    /\ UNCHANGED link

\* The guard is taken before the command runs, and is not put back.
TakeGuard == guard' = NoGuard /\ tun' = None

=============================================================================
