---------------------------- MODULE RouteMonitor ----------------------------
(***************************************************************************)
(* The route monitor of a session on macOS (client.rs): a task that looks  *)
(* at `netstat -rn` every ten seconds, warns once when a pushed route is   *)
(* missing, and ends.                                                      *)
(***************************************************************************)
EXTENDS RouteTable

VARIABLES
    table,      \* the kernel's routes, as far as they matter here
    watched,    \* the routes the session's monitor looks for; {}: there is none
    detached,   \* the same for monitors whose JoinHandle was dropped
    warned      \* the session's monitor has warned

routing == <<table, watched, detached, warned>>

MonitorOK ==
    /\ table \in SUBSET Entry
    /\ watched \in SUBSET Route /\ detached \in SUBSET SUBSET Route
    /\ warned \in BOOLEAN

MonitorInit == table = {} /\ watched = {} /\ detached = {} /\ warned = FALSE

-----------------------------------------------------------------------------
(* The task.                                                                *)

spawn_route_monitor(os, routes) ==
    /\ watched' = IF os = "macos" THEN routes ELSE {}
    /\ warned' = FALSE
    /\ UNCHANGED <<table, detached>>

abort_route_monitor == watched' = {} /\ warned' = FALSE

\* connect() returns an error after it has spawned the monitor: the handle is
\* dropped, the task goes on.
DetachMonitor ==
    /\ detached' = IF watched = {} THEN detached ELSE detached \cup {watched}
    /\ abort_route_monitor

\* Mutant: the routes are all missing, not any of them.
RouteTickAll ==
    /\ watched # {} /\ \A r \in watched : ~pushed_routes_present_in_netstat(table, {r})
    /\ watched' = {} /\ warned' = TRUE
    /\ UNCHANGED <<table, detached>>

\* A tick that finds every route, or whose netstat fails, changes nothing.
RouteTick ==
    /\ ~pushed_routes_present_in_netstat(table, watched)
    /\ watched' = {} /\ warned' = TRUE
    /\ UNCHANGED <<table, detached>>

DetachedTick ==
    /\ \E routes \in detached :
          /\ ~pushed_routes_present_in_netstat(table, routes)
          /\ detached' = detached \ {routes}
    /\ UNCHANGED <<table, watched, warned>>

-----------------------------------------------------------------------------
(* The kernel's table.                                                      *)

\* OpenVPN adds a route per option with a contiguous netmask; macOS prints some
\* of them (a host, a classful network) without a prefix.
EntriesOf(routes, bare) ==
    {[network |-> r.network \cap r.netmask,
      prefix  |-> netmask_prefix(r.netmask),
      bare    |-> r \in bare,
      device  |-> "own"] : r \in {x \in routes : netmask_prefix(x.netmask) # Invalid}}

AddRoutes(routes) ==
    \E bare \in SUBSET routes : table' = table \cup EntriesOf(routes, bare)

Without(device) == {e \in table : e.device # device}

\* The routes of an OpenVPN process whose parent was killed stay with it.
AbandonRoutes == table' = Without("own") \cup
    {[e EXCEPT !.device = "orphan"] : e \in table \ Without("own")}

\* The network removes a route, or moves it to another device.
Drift ==
    /\ \E e \in table, moved \in BOOLEAN :
          /\ e.device = "own"
          /\ table' = (table \ {e}) \cup
                      IF moved THEN {[e EXCEPT !.device = "other"]} ELSE {}
    /\ UNCHANGED <<watched, detached, warned>>

=============================================================================
