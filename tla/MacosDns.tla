------------------------------ MODULE MacosDns ------------------------------
(***************************************************************************)
(* The native DNS of awsvpn on macOS (dns.rs).  A session runs a DNS proxy *)
(* on 127.0.0.1:53, points the DNS key of the primary network service at   *)
(* it and keeps what was there under State:/Network/awsvpn; a monitor      *)
(* thread repairs the key when the network rewrites it.  Every connect and *)
(* every disconnect command first puts back what an earlier process left.  *)
(*                                                                         *)
(* The keys of the dynamic store, the port and the primary service belong  *)
(* to the host and survive a process that is killed.  A run of scutil is   *)
(* one step: its script is written before awsvpn waits for it.             *)
(***************************************************************************)
EXTENDS Naturals

CONSTANTS
    Procs,      \* awsvpn processes that connect or clean up, each reusable
    Services,   \* network services
    Values,     \* DNS settings the network gives to a service
    Local,      \* the settings of awsvpn: ServerAddresses 127.0.0.1
    None,       \* no key, no service, nobody
    Other,      \* a local resolver that is not awsvpn's proxy
    Faults,     \* what the environment may do
    MaxFaults   \* how often it does so

AllFaults ==
    { "killed",         \* a process is killed
      "scutil_fails",   \* scutil cannot be run, or fails before it does anything
      "drift",          \* the network writes its settings to a key once more
      "switch",         \* another service becomes primary, or none is
      "resolver",       \* another resolver takes 127.0.0.1:53
      "new_settings",   \* the network changes a key awsvpn has set up
      "overlap" }       \* a process starts while another one runs

ASSUME MacosDnsAssumption ==
    /\ Local \notin Values /\ None \notin Values /\ Local # None
    /\ None \notin Services /\ None \notin Procs /\ Other \notin Procs /\ Other # None
    /\ Faults \subseteq AllFaults /\ MaxFaults \in Nat

VARIABLES
    primary,    \* PrimaryService of State:/Network/Global/IPv4
    dns,        \* State:/Network/Service/<service>/DNS
    root,       \* State:/Network/awsvpn: PrimaryService and HadDNS
    saved,      \* State:/Network/awsvpn/OldDNSState
    port,       \* who listens on 127.0.0.1:53
    pc,         \* where a process is
    job,        \* what it does there: who called restore_macos_system_dns
    service,    \* its primary_service
    had,        \* its had_dns
    monitor,    \* its monitor thread: where it is, the service it watches
    net,        \* what the network would have a service use
    faults,     \* how often the environment interfered
    trouble,    \* a process was killed, or scutil failed, and nobody cleaned up
    changed     \* the network has changed a key while awsvpn was using it

store == <<dns, root, saved>>
locals == <<job, service, had>>
procs == <<pc, locals, monitor>>
world == <<primary, net, changed>>
vars  == <<store, port, procs, world, faults, trouble>>

NoRoot == [service |-> None, had |-> FALSE]
Off    == [at |-> "off", service |-> None]

Steps == {"idle", "root", "state", "primary", "uses", "probe", "cleanup", "login",
          "bind", "service", "had", "setup", "active", "stopMonitor", "stopProxy"}
Jobs  == {"connect", "configure", "restore", "command"}

TypeOK ==
    /\ primary \in Services \cup {None}
    /\ dns \in [Services -> Values \cup {Local, None}]
    /\ root \in [service : Services \cup {None}, had : BOOLEAN]
    /\ saved \in Values \cup {Local, None}
    /\ port \in Procs \cup {Other, None}
    /\ pc \in [Procs -> Steps] /\ job \in [Procs -> Jobs]
    /\ service \in [Procs -> Services \cup {None}] /\ had \in [Procs -> BOOLEAN]
    /\ monitor \in [Procs -> [at : {"off", "wait", "repair"}, service : Services \cup {None}]]
    /\ net \in [Services -> Values \cup {None}]
    /\ faults \in Nat /\ trouble \in BOOLEAN /\ changed \in BOOLEAN

Init ==
    /\ primary \in Services \cup {None}
    /\ net \in [Services -> Values \cup {None}] /\ dns = net
    /\ root = NoRoot /\ saved = None /\ port = None
    /\ pc = [p \in Procs |-> "idle"] /\ job = [p \in Procs |-> "command"]
    /\ service = [p \in Procs |-> None] /\ had = [p \in Procs |-> FALSE]
    /\ monitor = [p \in Procs |-> Off]
    /\ faults = 0 /\ trouble = FALSE /\ changed = FALSE

Idle(p)     == pc[p] = "idle"
At(p, step) == pc[p] = step
Goes(p, to) == pc' = [pc EXCEPT ![p] = to]
Forgets(p)  == service' = [service EXCEPT ![p] = None] /\ had' = [had EXCEPT ![p] = FALSE]
Ends(p)     == Goes(p, "idle") /\ job' = [job EXCEPT ![p] = "command"] /\ Forgets(p)
Frees(p)    == port' = IF port = p THEN None ELSE port

-----------------------------------------------------------------------------
(* restore_macos_system_dns.  What the keys say is read in several runs of  *)
(* scutil, the keys are written in one.                                     *)

\* connect() or a disconnect command starts with cleanup_stale_native_dns.
Start(p, j) ==
    /\ Idle(p)
    /\ "overlap" \in Faults \/ \A q \in Procs : Idle(q)
    /\ Goes(p, "root") /\ job' = [job EXCEPT ![p] = j]
    /\ UNCHANGED <<store, port, service, had, monitor, world, faults, trouble>>

CheckRoot(p) ==
    /\ At(p, "root")
    /\ Goes(p, IF root = NoRoot THEN "primary" ELSE "state")
    /\ UNCHANGED <<store, port, job, service, had, monitor, world, faults, trouble>>

\* A root that has gone meanwhile names no service.
ReadRoot(p) ==
    /\ At(p, "state")
    /\ Goes(p, "cleanup")
    /\ service' = [service EXCEPT ![p] = root.service]
    /\ had' = [had EXCEPT ![p] = root.had]
    /\ UNCHANGED <<store, port, job, monitor, world, faults, trouble>>

\* stale_macos_local_dns_service: without a root, the primary service is only
\* touched when it uses the proxy and nobody answers there.
FindPrimary(p) ==
    /\ At(p, "primary")
    /\ Goes(p, IF primary = None THEN "cleanup" ELSE "uses")
    /\ service' = [service EXCEPT ![p] = primary]
    /\ had' = [had EXCEPT ![p] = FALSE]
    /\ UNCHANGED <<store, port, job, monitor, world, faults, trouble>>

UsesLocalProxy(s) == dns[s] = Local

CheckUses(p) ==
    /\ At(p, "uses")
    /\ Goes(p, IF UsesLocalProxy(service[p]) THEN "probe" ELSE "cleanup")
    /\ service' = [service EXCEPT ![p] = IF UsesLocalProxy(@) THEN @ ELSE None]
    /\ UNCHANGED <<store, port, job, had, monitor, world, faults, trouble>>

Probe(p) ==
    /\ At(p, "probe")
    /\ Goes(p, "cleanup")
    /\ service' = [service EXCEPT ![p] = IF port = None THEN @ ELSE None]
    /\ UNCHANGED <<store, port, job, had, monitor, world, faults, trouble>>

\* Mutant: the saved settings are not put back.
SettingsRemoved(p) == None

\* `get OldDNSState, set key` leaves the key alone when nothing was saved.
Settings(p) ==
    IF ~had[p] THEN None ELSE IF saved # None THEN saved ELSE dns[service[p]]

AfterCleanup(p) ==
    CASE job[p] = "connect"   -> "login"
      [] job[p] = "configure" -> "bind"
      [] job[p] = "restore"   -> "stopProxy"
      [] job[p] = "command"   -> "idle"

Cleanup(p) ==
    /\ At(p, "cleanup")
    /\ dns' = IF service[p] = None THEN dns
              ELSE [dns EXCEPT ![service[p]] = Settings(p)]
    /\ root' = NoRoot /\ saved' = None
    /\ Goes(p, AfterCleanup(p)) /\ Forgets(p)
    /\ trouble' = FALSE
    /\ UNCHANGED <<port, job, monitor, world, faults>>

-----------------------------------------------------------------------------
(* configure_native_dns.                                                    *)

\* The login succeeds, or fails before DNS is touched.
Login(p) ==
    /\ At(p, "login")
    /\ \/ Goes(p, "root") /\ job' = [job EXCEPT ![p] = "configure"] /\ UNCHANGED <<service, had>>
       \/ Ends(p)
    /\ UNCHANGED <<store, port, monitor, world, faults, trouble>>

BindProxy(p) ==
    /\ At(p, "bind")
    /\ IF port = None THEN port' = p /\ Goes(p, "service") /\ UNCHANGED locals
                      ELSE Ends(p) /\ UNCHANGED port
    /\ UNCHANGED <<store, monitor, world, faults, trouble>>

FindService(p) ==
    /\ At(p, "service")
    /\ IF primary = None
       THEN Ends(p) /\ Frees(p)
       ELSE /\ Goes(p, "had") /\ service' = [service EXCEPT ![p] = primary]
            /\ UNCHANGED <<port, job, had>>
    /\ UNCHANGED <<store, monitor, world, faults, trouble>>

\* Mutant: the settings of the service are never looked for.
HasDnsNever(s) == FALSE

\* Mutant: what scutil printed is kept, not whether it named a key.
HasDnsShown(s) == dns[s]

HasDns(s) == dns[s] # None

CheckHad(p) ==
    /\ At(p, "had")
    /\ Goes(p, "setup")
    /\ had' = [had EXCEPT ![p] = HasDns(service[p])]
    /\ UNCHANGED <<store, port, job, service, monitor, world, faults, trouble>>

\* Mutant: the key is saved after it was set.
SavedAfterwards(p) == IF had[p] THEN Local ELSE None

\* `get key, set OldDNSState`
Saved(p) == IF had[p] THEN dns[service[p]] ELSE None

Setup(p) ==
    /\ At(p, "setup")
    /\ saved' = Saved(p)
    /\ dns' = [dns EXCEPT ![service[p]] = Local]
    /\ root' = [service |-> service[p], had |-> had[p]]
    /\ Goes(p, "active")
    /\ monitor' = [monitor EXCEPT ![p] = [at |-> "wait", service |-> service[p]]]
    /\ Forgets(p)
    /\ UNCHANGED <<port, job, world, faults, trouble>>

-----------------------------------------------------------------------------
(* The monitor thread, and NativeDnsGuard::restore, which every way out of  *)
(* a session takes (disconnect, an OpenVPN that exits, Drop).               *)

\* Mutant: a key that exists is taken for the proxy's.
DriftedRemoved(s) == dns[s] = None

Drifted(s) == ~UsesLocalProxy(s)

\* The check may have begun before the thread is told to stop.
MonitorCheck(p) ==
    /\ pc[p] \in {"active", "stopMonitor"}
    /\ monitor[p].at = "wait" /\ Drifted(monitor[p].service)
    /\ monitor' = [monitor EXCEPT ![p].at = "repair"]
    /\ UNCHANGED <<store, port, pc, job, service, had, world, faults, trouble>>

MonitorRepair(p) ==
    /\ monitor[p].at = "repair"
    /\ dns' = [dns EXCEPT ![monitor[p].service] = Local]
    /\ monitor' = [monitor EXCEPT ![p].at = "wait"]
    /\ UNCHANGED <<root, saved, port, pc, job, service, had, world, faults, trouble>>

StopMonitor(p) ==
    /\ At(p, "active")
    /\ Goes(p, "stopMonitor")
    /\ UNCHANGED <<store, port, job, service, had, monitor, world, faults, trouble>>

\* Mutant: the thread is told to stop and not waited for.
JoinedNot(p) == TRUE

\* A repair that has begun is finished before join() returns.
Joined(p) == monitor[p].at = "wait"

\* Mutant: the proxy is stopped before the settings are put back.
ProxyStopsFirst(p) == Frees(p)

ProxyStays(p) == UNCHANGED port

JoinMonitor(p) ==
    /\ At(p, "stopMonitor") /\ Joined(p)
    /\ monitor' = [monitor EXCEPT ![p] = IF @.at = "wait" THEN Off ELSE @]
    /\ ProxyStays(p)
    /\ Goes(p, "root") /\ job' = [job EXCEPT ![p] = "restore"]
    /\ UNCHANGED <<store, service, had, world, faults, trouble>>

\* The proxy is stopped whether the settings were restored or not.
StopProxy(p) ==
    /\ At(p, "stopProxy")
    /\ Frees(p) /\ Ends(p)
    /\ UNCHANGED <<store, monitor, world, faults, trouble>>

-----------------------------------------------------------------------------
(* What goes wrong, and the network.                                        *)

Happens(f) == f \in Faults /\ faults < MaxFaults /\ faults' = faults + 1

\* A run of scutil fails.  Without a primary service there is nothing stale;
\* any other error goes to the caller, which drops the proxy if it has one.
ScutilFails(p) ==
    /\ Happens("scutil_fails")
    /\ \/ /\ At(p, "primary")
          /\ Goes(p, "cleanup")
          /\ Forgets(p) /\ UNCHANGED <<port, job, trouble>>
       \/ /\ pc[p] \in {"root", "state", "uses", "cleanup", "service", "had", "setup"}
          /\ IF job[p] = "restore"
             THEN Goes(p, "stopProxy") /\ Forgets(p) /\ UNCHANGED <<port, job>>
             ELSE Ends(p) /\ Frees(p)
          /\ trouble' = TRUE
    /\ UNCHANGED <<store, monitor, world>>

RepairFails(p) ==
    /\ Happens("scutil_fails")
    /\ monitor[p].at = "repair"
    /\ monitor' = [monitor EXCEPT ![p].at = "wait"]
    /\ UNCHANGED <<store, port, pc, job, service, had, world, trouble>>

Kill(p) ==
    /\ Happens("killed") /\ ~Idle(p)
    /\ Ends(p) /\ Frees(p)
    /\ monitor' = [monitor EXCEPT ![p] = Off]
    /\ trouble' = TRUE
    /\ UNCHANGED <<store, world>>

Drift(s) ==
    /\ Happens("drift") /\ dns[s] # net[s]
    /\ dns' = [dns EXCEPT ![s] = net[s]]
    /\ UNCHANGED <<root, saved, port, procs, world, trouble>>

\* The network gives a service new settings, or none.
NewSettings(s, v) ==
    /\ v # net[s]
    /\ IF root = NoRoot /\ \A p \in Procs : Idle(p)
       THEN UNCHANGED <<faults, changed>>
       ELSE Happens("new_settings") /\ changed' = TRUE
    /\ net' = [net EXCEPT ![s] = v] /\ dns' = [dns EXCEPT ![s] = v]
    /\ UNCHANGED <<root, saved, port, procs, primary, trouble>>

Switch ==
    /\ Happens("switch")
    /\ \E s \in Services \cup {None} : s # primary /\ primary' = s
    /\ UNCHANGED <<store, port, procs, net, changed, trouble>>

Resolver ==
    /\ \/ port = None /\ port' = Other /\ Happens("resolver")
       \/ port = Other /\ port' = None /\ UNCHANGED faults
    /\ UNCHANGED <<store, procs, world, trouble>>

-----------------------------------------------------------------------------
Step(p) ==
    \/ CheckRoot(p) \/ ReadRoot(p) \/ FindPrimary(p) \/ CheckUses(p) \/ Probe(p)
    \/ Cleanup(p) \/ Login(p) \/ BindProxy(p) \/ FindService(p) \/ CheckHad(p)
    \/ Setup(p) \/ JoinMonitor(p) \/ StopProxy(p)

Monitor(p) == MonitorCheck(p) \/ MonitorRepair(p)

Network ==
    \/ Switch \/ Resolver
    \/ \E s \in Services : Drift(s) \/ \E v \in Values \cup {None} : NewSettings(s, v)

Process(p) ==
    \/ \E j \in {"connect", "command"} : Start(p, j)
    \/ Step(p) \/ Monitor(p) \/ StopMonitor(p)
    \/ ScutilFails(p) \/ RepairFails(p) \/ Kill(p)

Next == (\E p \in Procs : Process(p)) \/ Network

Spec == Init /\ [][Next]_vars

\* A process goes on, and so does its monitor thread.
Fairness == \A p \in Procs : WF_vars(Step(p)) /\ WF_vars(Monitor(p))
FairSpec == Spec /\ Fairness

-----------------------------------------------------------------------------
(* Properties.                                                              *)

\* While the network keeps its settings, the keys hold at every moment, a
\* process that is killed there included, all that the next cleanup needs: a
\* service that points at the proxy is the one in the root, and what is saved
\* is what the network had given it.
Recoverable ==
    ~changed => \A s \in Services :
        \/ dns[s] = net[s]
        \/ /\ dns[s] = Local /\ root.service = s
           /\ net[s] = IF root.had THEN saved ELSE None

\* As long as nothing has gone wrong, no service points at 127.0.0.1 without
\* awsvpn's proxy there: it is started before and stopped after the keys are
\* written, and the monitor does not write them afterwards.
ResolverAnswers ==
    ~trouble /\ ~changed => \A s \in Services : dns[s] = Local => port \in Procs

\* A cleanup that succeeds puts every service back to what the network gave
\* it, whatever earlier processes have left.
CleanupRestores ==
    [][\A p \in Procs : At(p, "cleanup") /\ ~At(p, "cleanup")' =>
          trouble' \/ changed \/ dns' = net']_vars

\* When no process runs and none has been killed or failed, the system's DNS
\* is as the network gave it ("DNS state is restored when the VPN
\* disconnects", README.md).
RestoredWhenDone == (\A p \in Procs : Idle(p)) /\ ~trouble /\ ~changed => dns = net

\* The inductive invariant, for processes that run one after the other.  What
\* the keys say holds while the network keeps its settings.
ServiceKnown ==
    \A p \in Procs : pc[p] \in {"uses", "had", "setup"} => service[p] \in Services

Alone == \A p, q \in Procs : Idle(p) \/ Idle(q) \/ p = q

MonitorHome ==
    \A p \in Procs : monitor[p].at # "off" => pc[p] \in {"active", "stopMonitor"}

\* A root means trouble, or the session it belongs to has not restored it yet.
RootHome ==
    /\ \A p \in Procs : pc[p] \in {"service", "had", "setup"} => port = p
    /\ root # NoRoot =>
          \/ trouble
          \/ port \in Procs /\ pc[port] \in {"active", "stopMonitor", "root", "state", "cleanup"}

KeysOK ==
    /\ \A s \in Services : dns[s] = net[s] \/ (dns[s] = Local /\ root.service = s)
    /\ root # NoRoot =>
          /\ root.service \in Services
          /\ net[root.service] = IF root.had THEN saved ELSE None
          /\ root.had => saved # None

\* What a process has read and decided is still true when it writes the keys.
ProcOK(p) ==
    /\ pc[p] \in {"primary", "uses", "bind", "service", "had", "setup"} => root = NoRoot
    /\ pc[p] # "probe"
    /\ pc[p] = "setup" => had[p] = HasDns(service[p])
    /\ pc[p] = "cleanup" => service[p] = root.service
    /\ pc[p] = "cleanup" /\ service[p] # None => had[p] = root.had
    /\ monitor[p].at # "off" => monitor[p].service = root.service

IInv ==
    /\ ServiceKnown
    /\ "overlap" \notin Faults =>
          /\ Alone /\ MonitorHome /\ RootHome
          /\ ~changed => KeysOK /\ \A p \in Procs : ProcOK(p)

\* The monitor repairs the key of its service.
DriftRepaired ==
    \A p \in Procs : At(p, "active") /\ ~UsesLocalProxy(monitor[p].service)
        ~> (~At(p, "active") \/ UsesLocalProxy(monitor[p].service))
=============================================================================
