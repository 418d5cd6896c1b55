--------------------------- MODULE MacosDns_proofs ---------------------------
(***************************************************************************)
(* Proofs about MacosDns, for any processes, services, settings and faults. *)
(* What the keys say is proved for processes that run one after the other. *)
(***************************************************************************)
EXTENDS MacosDns, TLAPS

\* ServiceKnown is what the types need beyond TypeOK: a key is only read for a
\* service that is there.
TypeInv == TypeOK /\ ServiceKnown

\* The types in the initial states,
LEMMA TypeInit == Init => TypeInv
<1> SUFFICES ASSUME Init
             PROVE  TypeInv
  OBVIOUS
<1>1. dns \in [Services -> Values \cup {Local, None}] /\ net \in [Services -> Values \cup {None}]
  BY DEF Init
<1>2. monitor \in [Procs -> [at : {"off", "wait", "repair"}, service : Services \cup {None}]]
  BY DEF Init, Off
<1>3. root \in [service : Services \cup {None}, had : BOOLEAN]
  BY DEF Init, NoRoot
<1>4. /\ pc \in [Procs -> Steps] /\ job \in [Procs -> Jobs]
      /\ service \in [Procs -> Services \cup {None}] /\ had \in [Procs -> BOOLEAN]
      /\ ServiceKnown
  BY DEF Init, Steps, Jobs, ServiceKnown
<1>5. QED
  BY <1>1, <1>2, <1>3, <1>4 DEF Init, TypeInv, TypeOK

\* and after every step,
LEMMA TypeNext == TypeInv /\ [Next]_vars => TypeInv'
<1> SUFFICES ASSUME TypeInv, [Next]_vars
             PROVE  TypeInv'
  OBVIOUS
<1> USE MacosDnsAssumption
<1> USE DEF TypeInv, TypeOK, ServiceKnown, Steps, Jobs, Goes, At, Idle, Forgets, Ends,
           Frees, store, procs, locals, world, NoRoot, Off
<1>1. ASSUME NEW p \in Procs, NEW j \in {"connect", "command"}, Start(p, j)
     PROVE  TypeInv'
  BY <1>1 DEF Start
<1>2. ASSUME NEW p \in Procs, CheckRoot(p)
     PROVE  TypeInv'
  BY <1>2 DEF CheckRoot
<1>3. ASSUME NEW p \in Procs, ReadRoot(p)
     PROVE  TypeInv'
  BY <1>3 DEF ReadRoot
<1>4. ASSUME NEW p \in Procs, FindPrimary(p)
     PROVE  TypeInv'
  BY <1>4 DEF FindPrimary
<1>5. ASSUME NEW p \in Procs, CheckUses(p)
     PROVE  TypeInv'
  BY <1>5 DEF CheckUses, UsesLocalProxy
<1>6. ASSUME NEW p \in Procs, Probe(p)
     PROVE  TypeInv'
  BY <1>6 DEF Probe
<1>7. ASSUME NEW p \in Procs, Cleanup(p)
     PROVE  TypeInv'
  BY <1>7 DEF Cleanup, Settings, AfterCleanup
<1>8. ASSUME NEW p \in Procs, Login(p)
     PROVE  TypeInv'
  BY <1>8 DEF Login
<1>9. ASSUME NEW p \in Procs, BindProxy(p)
     PROVE  TypeInv'
  <2>1. /\ pc' \in [Procs -> Steps] /\ job' \in [Procs -> Jobs]
        /\ service' \in [Procs -> Services \cup {None}] /\ had' \in [Procs -> BOOLEAN]
    BY <1>9 DEF BindProxy
  <2>2. port' \in Procs \cup {Other, None}
    BY <1>9 DEF BindProxy
  <2>3. ServiceKnown'
    BY <1>9 DEF BindProxy
  <2>4. QED
    BY <1>9, <2>1, <2>2, <2>3 DEF BindProxy
<1>10. ASSUME NEW p \in Procs, FindService(p)
     PROVE  TypeInv'
  <2>1. /\ pc' \in [Procs -> Steps] /\ job' \in [Procs -> Jobs]
        /\ service' \in [Procs -> Services \cup {None}] /\ had' \in [Procs -> BOOLEAN]
    <3>1. CASE primary = None
      BY <1>10, <3>1 DEF FindService
    <3>2. CASE primary # None
      <4>1. pc' = [pc EXCEPT ![p] = "had"] /\ service' = [service EXCEPT ![p] = primary]
        BY <1>10, <3>2 DEF FindService
      <4>2. UNCHANGED <<job, had>>
        BY <1>10, <3>2 DEF FindService
      <4>3. QED
        BY <4>1, <4>2
    <3>3. QED
      BY <3>1, <3>2
  <2>2. port' \in Procs \cup {Other, None}
    BY <1>10 DEF FindService
  <2>3. ServiceKnown'
    BY <1>10 DEF FindService
  <2>4. QED
    BY <1>10, <2>1, <2>2, <2>3 DEF FindService
<1>11. ASSUME NEW p \in Procs, CheckHad(p)
     PROVE  TypeInv'
  BY <1>11 DEF CheckHad, HasDns
<1>12. ASSUME NEW p \in Procs, Setup(p)
     PROVE  TypeInv'
  BY <1>12 DEF Setup, Saved
<1>13. ASSUME NEW p \in Procs, MonitorCheck(p)
     PROVE  TypeInv'
  BY <1>13 DEF MonitorCheck, Drifted
<1>14. ASSUME NEW p \in Procs, MonitorRepair(p)
     PROVE  TypeInv'
  <2>1. monitor[p] \in [at : {"off", "wait", "repair"}, service : Services \cup {None}]
    OBVIOUS
  <2>2. [monitor[p] EXCEPT !.at = "wait"] \in [at : {"off", "wait", "repair"}, service : Services \cup {None}]
    BY <2>1
  <2>3. monitor' \in [Procs -> [at : {"off", "wait", "repair"}, service : Services \cup {None}]]
    BY <1>14, <2>2 DEF MonitorRepair
  <2>4. dns' \in [Services -> Values \cup {Local, None}]
    BY <1>14 DEF MonitorRepair
  <2>5. QED
    BY <1>14, <2>3, <2>4 DEF MonitorRepair
<1>15. ASSUME NEW p \in Procs, StopMonitor(p)
     PROVE  TypeInv'
  BY <1>15 DEF StopMonitor
<1>16. ASSUME NEW p \in Procs, JoinMonitor(p)
     PROVE  TypeInv'
  BY <1>16 DEF JoinMonitor, Joined, ProxyStays
<1>17. ASSUME NEW p \in Procs, StopProxy(p)
     PROVE  TypeInv'
  BY <1>17 DEF StopProxy
<1>18. ASSUME NEW p \in Procs, ScutilFails(p)
     PROVE  TypeInv'
  <2>1. /\ pc' \in [Procs -> Steps] /\ job' \in [Procs -> Jobs]
        /\ service' \in [Procs -> Services \cup {None}] /\ had' \in [Procs -> BOOLEAN]
    BY <1>18 DEF ScutilFails, Happens
  <2>2. port' \in Procs \cup {Other, None}
    BY <1>18 DEF ScutilFails, Happens
  <2>3. ServiceKnown'
    BY <1>18 DEF ScutilFails, Happens
  <2>4. QED
    <3>1. faults' \in Nat
      BY <1>18 DEF ScutilFails, Happens
    <3>4. trouble' = trouble \/ trouble' = TRUE
      BY <1>18 DEF ScutilFails
    <3>5. trouble' \in BOOLEAN
      BY <3>4
    <3>2. UNCHANGED <<store, monitor, world>>
      BY <1>18 DEF ScutilFails
    <3>3. QED
      BY <2>1, <2>2, <2>3, <3>1, <3>5, <3>2
<1>19. ASSUME NEW p \in Procs, RepairFails(p)
     PROVE  TypeInv'
  BY <1>19 DEF RepairFails, Happens
<1>20. ASSUME NEW p \in Procs, Kill(p)
     PROVE  TypeInv'
  BY <1>20 DEF Kill, Happens
<1>21. CASE Network
  <2>1. CASE Switch
    BY <2>1 DEF Switch, Happens
  <2>2. CASE Resolver
    BY <2>2 DEF Resolver, Happens
  <2>3. ASSUME NEW s \in Services, Drift(s)
       PROVE  TypeInv'
    BY <2>3 DEF Drift, Happens
  <2>4. ASSUME NEW s \in Services, NEW v \in Values \cup {None}, NewSettings(s, v)
       PROVE  TypeInv'
    <3>1. dns' \in [Services -> Values \cup {Local, None}] /\ net' \in [Services -> Values \cup {None}]
      BY <2>4 DEF NewSettings
    <3>2. faults' \in Nat /\ changed' \in BOOLEAN
      <4>1. CASE root = NoRoot /\ \A q \in Procs : Idle(q)
        BY <2>4, <4>1 DEF NewSettings
      <4>2. CASE ~(root = NoRoot /\ \A q \in Procs : Idle(q))
        <5>1. Happens("new_settings") /\ changed' = TRUE
          BY <2>4, <4>2, Zenon DEF NewSettings
        <5>2. QED
          BY <5>1 DEF Happens
      <4>3. QED
        BY <4>1, <4>2
    <3>3. QED
      BY <2>4, <3>1, <3>2 DEF NewSettings
  <2>5. QED
    BY <1>21, <2>1, <2>2, <2>3, <2>4 DEF Network
<1>22. CASE UNCHANGED vars
  BY <1>22 DEF vars
<1>23. QED
  BY <1>1, <1>2, <1>3, <1>4, <1>5, <1>6, <1>7, <1>8, <1>9, <1>10, <1>11, <1>12, <1>13, <1>14, <1>15, <1>16, <1>17, <1>18, <1>19, <1>20, <1>21, <1>22 DEF Next, Process, Step, Monitor

\* so always.
LEMMA TypeInvHolds == Spec => []TypeInv
BY TypeInit, TypeNext, PTL DEF Spec

\* TypeOK: every variable keeps its type, whatever goes wrong.
THEOREM TypeCorrect == Spec => []TypeOK
<1>1. TypeInv => TypeOK
  BY DEF TypeInv
<1>2. QED
  BY TypeInvHolds, <1>1, PTL

-----------------------------------------------------------------------------
(* One process at a time.  ProcStep is what a step of process p may do to   *)
(* where the processes are.                                                 *)

ProcStep(p) ==
    /\ \A q \in Procs \ {p} : pc'[q] = pc[q] /\ monitor'[q] = monitor[q]
    /\ Idle(p) => \A q \in Procs : Idle(q)
    /\ monitor'[p].at # "off" => pc'[p] \in {"active", "stopMonitor"}

LEMMA ProcessIsProcStep ==
    ASSUME TypeInv, MonitorHome, "overlap" \notin Faults, NEW p \in Procs, Process(p)
    PROVE  ProcStep(p)
<1> USE DEF TypeInv, TypeOK, MonitorHome, ProcStep, Goes, At, Idle, Ends, procs, Off
<1>1. ASSUME NEW j \in {"connect", "command"}, Start(p, j)
     PROVE  ProcStep(p)
  BY <1>1 DEF Start
<1>2. CASE CheckRoot(p)
  BY <1>2 DEF CheckRoot
<1>3. CASE ReadRoot(p)
  BY <1>3 DEF ReadRoot
<1>4. CASE FindPrimary(p)
  BY <1>4 DEF FindPrimary
<1>5. CASE CheckUses(p)
  BY <1>5 DEF CheckUses
<1>6. CASE Probe(p)
  BY <1>6 DEF Probe
<1>7. CASE Cleanup(p)
  BY <1>7 DEF Cleanup, AfterCleanup
<1>8. CASE Login(p)
  BY <1>8 DEF Login
<1>9. CASE BindProxy(p)
  BY <1>9 DEF BindProxy
<1>10. CASE FindService(p)
  BY <1>10 DEF FindService
<1>11. CASE CheckHad(p)
  BY <1>11 DEF CheckHad
<1>12. CASE Setup(p)
  BY <1>12 DEF Setup
<1>13. CASE MonitorCheck(p)
  BY <1>13 DEF MonitorCheck
<1>14. CASE MonitorRepair(p)
  BY <1>14 DEF MonitorRepair
<1>15. CASE StopMonitor(p)
  BY <1>15 DEF StopMonitor
<1>16. CASE JoinMonitor(p)
  BY <1>16 DEF JoinMonitor, Joined
<1>17. CASE StopProxy(p)
  BY <1>17 DEF StopProxy
<1>18. CASE ScutilFails(p)
  BY <1>18 DEF ScutilFails
<1>19. CASE RepairFails(p)
  BY <1>19 DEF RepairFails
<1>20. CASE Kill(p)
  BY <1>20 DEF Kill
<1>21. QED
  BY <1>1, <1>2, <1>3, <1>4, <1>5, <1>6, <1>7, <1>8, <1>9, <1>10, <1>11, <1>12, <1>13, <1>14, <1>15, <1>16, <1>17, <1>18, <1>19, <1>20 DEF Process, Step, Monitor

LEMMA AloneNext ==
    ASSUME TypeInv, TypeInv', "overlap" \notin Faults, Alone, MonitorHome, [Next]_vars
    PROVE  Alone' /\ MonitorHome'
<1>1. CASE \E p \in Procs : ProcStep(p)
  BY <1>1 DEF ProcStep, Alone, MonitorHome, Idle
<1>2. CASE UNCHANGED procs
  BY <1>2 DEF procs, Alone, MonitorHome, Idle
<1>3. QED
  BY <1>1, <1>2, ProcessIsProcStep
     DEF Next, Network, Switch, Resolver, Drift, NewSettings, vars, procs

-----------------------------------------------------------------------------
(* Whose the root is.                                                       *)

LEMMA RootHomeNext ==
    ASSUME TypeInv, "overlap" \notin Faults, Alone, MonitorHome, RootHome, [Next]_vars
    PROVE  RootHome'
<1> USE MacosDnsAssumption
<1> USE DEF TypeInv, TypeOK, Alone, MonitorHome, RootHome, Goes, At, Idle, Ends, Frees,
           store, world, procs, locals
<1>1. ASSUME NEW p \in Procs, NEW j \in {"connect", "command"}, Start(p, j)
     PROVE  RootHome'
  BY <1>1 DEF Start
<1>2. ASSUME NEW p \in Procs, CheckRoot(p)
     PROVE  RootHome'
  BY <1>2 DEF CheckRoot
<1>3. ASSUME NEW p \in Procs, ReadRoot(p)
     PROVE  RootHome'
  BY <1>3 DEF ReadRoot
<1>4. ASSUME NEW p \in Procs, FindPrimary(p)
     PROVE  RootHome'
  BY <1>4 DEF FindPrimary
<1>5. ASSUME NEW p \in Procs, CheckUses(p)
     PROVE  RootHome'
  BY <1>5 DEF CheckUses
<1>6. ASSUME NEW p \in Procs, Probe(p)
     PROVE  RootHome'
  BY <1>6 DEF Probe
<1>7. ASSUME NEW p \in Procs, Cleanup(p)
     PROVE  RootHome'
  <2>1. AfterCleanup(p) \in {"login", "bind", "stopProxy", "idle"}
    BY DEF AfterCleanup, Jobs
  <2>2. root' = NoRoot /\ port' = port /\ pc' = [pc EXCEPT ![p] = AfterCleanup(p)]
    BY <1>7 DEF Cleanup
  <2>3. QED
    BY <2>1, <2>2
<1>8. ASSUME NEW p \in Procs, Login(p)
     PROVE  RootHome'
  BY <1>8 DEF Login
<1>9. ASSUME NEW p \in Procs, BindProxy(p)
     PROVE  RootHome'
  BY <1>9 DEF BindProxy
<1>10. ASSUME NEW p \in Procs, FindService(p)
     PROVE  RootHome'
  BY <1>10 DEF FindService
<1>11. ASSUME NEW p \in Procs, CheckHad(p)
     PROVE  RootHome'
  BY <1>11 DEF CheckHad
<1>12. ASSUME NEW p \in Procs, Setup(p)
     PROVE  RootHome'
  BY <1>12 DEF Setup
<1>13. ASSUME NEW p \in Procs, MonitorCheck(p)
     PROVE  RootHome'
  BY <1>13 DEF MonitorCheck
<1>14. ASSUME NEW p \in Procs, MonitorRepair(p)
     PROVE  RootHome'
  BY <1>14 DEF MonitorRepair
<1>15. ASSUME NEW p \in Procs, StopMonitor(p)
     PROVE  RootHome'
  BY <1>15 DEF StopMonitor
<1>16. ASSUME NEW p \in Procs, JoinMonitor(p)
     PROVE  RootHome'
  BY <1>16 DEF JoinMonitor, ProxyStays
<1>17. ASSUME NEW p \in Procs, StopProxy(p)
     PROVE  RootHome'
  BY <1>17 DEF StopProxy
<1>18. ASSUME NEW p \in Procs, ScutilFails(p)
     PROVE  RootHome'
  BY <1>18 DEF ScutilFails, Happens
<1>19. ASSUME NEW p \in Procs, RepairFails(p)
     PROVE  RootHome'
  BY <1>19 DEF RepairFails
<1>20. ASSUME NEW p \in Procs, Kill(p)
     PROVE  RootHome'
  BY <1>20 DEF Kill, Happens
<1>21. CASE Network
  BY <1>21 DEF Network, Switch, Resolver, Drift, NewSettings
<1>22. CASE UNCHANGED vars
  BY <1>22 DEF vars
<1>23. QED
  BY <1>1, <1>2, <1>3, <1>4, <1>5, <1>6, <1>7, <1>8, <1>9, <1>10, <1>11, <1>12, <1>13, <1>14, <1>15, <1>16, <1>17, <1>18, <1>19, <1>20, <1>21, <1>22 DEF Next, Process, Step, Monitor

-----------------------------------------------------------------------------
(* What the keys say.                                                       *)

\* After a step of p only p has to be looked at: the others do nothing.
LEMMA OnlyOneAtWork ==
    ASSUME TypeInv, TypeInv', "overlap" \notin Faults, Alone, MonitorHome,
           NEW p \in Procs, ProcStep(p), ProcOK(p)'
    PROVE  \A q \in Procs : ProcOK(q)'
<1>1. \A q \in Procs \ {p} : Idle(q)' /\ monitor'[q].at = "off"
  BY DEF ProcStep, Alone, MonitorHome, Idle, TypeInv, TypeOK
<1>2. \A q \in Procs \ {p} : ProcOK(q)'
  BY <1>1 DEF ProcOK, Idle
<1>3. QED
  BY <1>2

\* The steps of a process that leave the keys alone.
LEMMA QuietStepNext ==
    ASSUME TypeInv, TypeInv', "overlap" \notin Faults, Alone, MonitorHome,
           NEW p \in Procs, Process(p), ~Cleanup(p), ~Setup(p), ~MonitorRepair(p),
           ~changed, KeysOK, \A q \in Procs : ProcOK(q)
    PROVE  KeysOK' /\ \A q \in Procs : ProcOK(q)'
<1> USE MacosDnsAssumption
<1>1. UNCHANGED <<store, net>>
  BY DEF Process, Step, Monitor, Start, CheckRoot, ReadRoot, FindPrimary, CheckUses, Probe,
         Login, BindProxy, FindService, CheckHad, MonitorCheck, StopMonitor, JoinMonitor,
         StopProxy, ScutilFails, RepairFails, Kill, world, procs
<1>2. KeysOK'
  BY <1>1 DEF KeysOK, store
<1>3. ProcOK(p)'
  <2> USE <1>1 DEF TypeInv, TypeOK, MonitorHome, KeysOK, ProcOK, Goes, At, Idle, Ends, Forgets,
           store, procs, locals, world, NoRoot, HasDns, Off
  <2>1. ASSUME NEW j \in {"connect", "command"}, Start(p, j)
       PROVE  ProcOK(p)'
    BY <2>1 DEF Start
  <2>2. CASE CheckRoot(p)
    BY <2>2 DEF CheckRoot
  <2>3. CASE ReadRoot(p)
    BY <2>3 DEF ReadRoot
  <2>4. CASE FindPrimary(p)
    <3>1. root = NoRoot /\ monitor'[p].at = "off"
      BY <2>4 DEF FindPrimary
    <3>2. CASE primary = None
      BY <2>4, <3>1, <3>2 DEF FindPrimary
    <3>3. CASE primary # None
      BY <2>4, <3>1, <3>3 DEF FindPrimary
    <3>4. QED
      BY <3>2, <3>3
  <2>5. CASE CheckUses(p)
    <3>1. root = NoRoot /\ monitor'[p].at = "off"
      BY <2>5 DEF CheckUses
    <3>2. service[p] \in Services /\ dns[service[p]] # Local
      BY <2>5, <3>1 DEF CheckUses, ServiceKnown
    <3>3. pc'[p] = "cleanup" /\ service'[p] = None
      BY <2>5, <3>2 DEF CheckUses, UsesLocalProxy
    <3>4. QED
      BY <3>1, <3>3
  <2>6. CASE Login(p)
    BY <2>6 DEF Login
  <2>7. CASE BindProxy(p)
    BY <2>7 DEF BindProxy
  <2>8. CASE FindService(p)
    BY <2>8 DEF FindService
  <2>9. CASE CheckHad(p)
    BY <2>9 DEF CheckHad
  <2>10. CASE MonitorCheck(p)
    BY <2>10 DEF MonitorCheck
  <2>11. CASE StopMonitor(p)
    BY <2>11 DEF StopMonitor
  <2>12. CASE JoinMonitor(p)
    BY <2>12 DEF JoinMonitor, Joined
  <2>13. CASE StopProxy(p)
    BY <2>13 DEF StopProxy
  <2>14. CASE ScutilFails(p)
    BY <2>14 DEF ScutilFails
  <2>15. CASE RepairFails(p)
    BY <2>15 DEF RepairFails
  <2>16. CASE Kill(p)
    BY <2>16 DEF Kill
  <2>17. CASE Probe(p)
    BY <2>17 DEF Probe
  <2>18. QED
    BY <2>1, <2>2, <2>3, <2>4, <2>5, <2>6, <2>7, <2>8, <2>9, <2>10, <2>11, <2>12, <2>13, <2>14, <2>15, <2>16, <2>17 DEF Process, Step, Monitor
<1>4. QED
  BY <1>2, <1>3, ProcessIsProcStep, OnlyOneAtWork

\* What the keys hold is what a cleanup needs.
LEMMA CleanupPutsBack ==
    ASSUME TypeInv, NEW p \in Procs, Cleanup(p), KeysOK, ProcOK(p)
    PROVE  dns' = net
<1> USE MacosDnsAssumption
<1> USE DEF TypeInv, TypeOK, KeysOK, ProcOK, At, NoRoot
<1>1. service[p] = root.service
  BY DEF Cleanup
<1>2. CASE service[p] = None
  <2>1. \A s \in Services : dns[s] = net[s]
    BY <1>1, <1>2
  <2>2. QED
    BY <1>2, <2>1 DEF Cleanup
<1>3. CASE service[p] # None
  <2>1. service[p] \in Services /\ root # NoRoot
    BY <1>1, <1>3
  <2>2. had[p] = root.had
    BY <1>3 DEF Cleanup
  <2>3. Settings(p) = net[service[p]]
    BY <1>1, <2>1, <2>2 DEF Settings
  <2>4. \A s \in Services \ {service[p]} : dns[s] = net[s]
    BY <1>1
  <2>5. dns' = [dns EXCEPT ![service[p]] = net[service[p]]]
    BY <1>3, <2>3 DEF Cleanup
  <2>6. QED
    BY <2>1, <2>4, <2>5
<1>4. QED
  BY <1>2, <1>3

\* The steps of a process that write the keys.
LEMMA WritingStepNext ==
    ASSUME TypeInv, TypeInv', "overlap" \notin Faults, Alone, MonitorHome, NEW p \in Procs,
           Cleanup(p) \/ Setup(p) \/ MonitorRepair(p),
           ~changed, KeysOK, \A q \in Procs : ProcOK(q)
    PROVE  KeysOK' /\ \A q \in Procs : ProcOK(q)'
<1> USE MacosDnsAssumption
<1> SUFFICES KeysOK' /\ ProcOK(p)'
  BY ProcessIsProcStep, OnlyOneAtWork DEF Process, Step, Monitor
<1>1. CASE Cleanup(p)
  <2>1. dns' = net /\ net' = net /\ root' = NoRoot
    BY <1>1, CleanupPutsBack DEF Cleanup, world
  <2>2. KeysOK'
    BY <2>1 DEF KeysOK
  <2>3. AfterCleanup(p) \in {"login", "bind", "stopProxy", "idle"}
    BY DEF AfterCleanup, TypeInv, TypeOK, Jobs
  <2>4. monitor'[p].at = "off" /\ pc'[p] = AfterCleanup(p)
    BY <1>1 DEF Cleanup, MonitorHome, At, Goes, TypeInv, TypeOK
  <2>5. QED
    BY <2>1, <2>2, <2>3, <2>4 DEF ProcOK
<1>2. CASE Setup(p)
  <2> DEFINE s == service[p]
  <2>1. root = NoRoot /\ had[p] = (dns[s] # None) /\ s \in Services
    BY <1>2 DEF Setup, At, ProcOK, HasDns, TypeInv, ServiceKnown
  <2>2. dns = net
    BY <2>1 DEF KeysOK, NoRoot, TypeInv, TypeOK
  <2>3. /\ dns' = [dns EXCEPT ![s] = Local] /\ net' = net
        /\ root' = [service |-> s, had |-> had[p]]
        /\ saved' = Saved(p)
        /\ pc'[p] = "active" /\ monitor'[p] = [at |-> "wait", service |-> s]
    BY <1>2 DEF Setup, Goes, world, TypeInv, TypeOK
  <2>4. root'.service = s /\ root'.had = had[p] /\ monitor'[p].service = s
    BY <2>3
  <2>5. net[s] = IF had[p] THEN saved' ELSE None
    BY <2>1, <2>2, <2>3 DEF Saved
  <2>6. had[p] => saved' # None
    BY <2>1, <2>3 DEF Saved
  <2>7. \A t \in Services : dns'[t] = net'[t] \/ (dns'[t] = Local /\ t = s)
    BY <2>2, <2>3 DEF TypeInv, TypeOK
  <2>8. KeysOK'
    BY <2>1, <2>3, <2>4, <2>5, <2>6, <2>7 DEF KeysOK
  <2>9. QED
    BY <2>3, <2>4, <2>8 DEF ProcOK
<1>3. CASE MonitorRepair(p)
  <2> DEFINE s == monitor[p].service
  <2>1. s = root.service
    BY <1>3 DEF MonitorRepair, ProcOK
  <2>2. dns' = [dns EXCEPT ![s] = Local] /\ UNCHANGED <<root, saved, pc, service, had, net>>
    BY <1>3 DEF MonitorRepair, world
  <2>3. monitor'[p].service = s
    BY <1>3 DEF MonitorRepair, TypeInv, TypeOK
  <2>4. KeysOK'
    BY <2>1, <2>2 DEF KeysOK, TypeInv, TypeOK
  <2>5. pc[p] \in {"active", "stopMonitor"}
    BY <1>3 DEF MonitorRepair, MonitorHome
  <2>6. QED
    BY <2>1, <2>2, <2>3, <2>4, <2>5 DEF ProcOK
<1>4. QED
  BY <1>1, <1>2, <1>3

\* The network, while it keeps the settings that are in use.
LEMMA NetworkNext ==
    ASSUME TypeInv, TypeInv', MonitorHome, Network,
           ~changed', KeysOK, \A q \in Procs : ProcOK(q)
    PROVE  KeysOK' /\ \A q \in Procs : ProcOK(q)'
<1> USE MacosDnsAssumption
<1>1. CASE Switch \/ Resolver
  <2>1. UNCHANGED <<store, procs, net>>
    BY <1>1 DEF Switch, Resolver, world
  <2>2. QED
    BY <2>1 DEF KeysOK, ProcOK, HasDns, store, procs, locals
<1>2. ASSUME NEW s \in Services, Drift(s)
     PROVE  KeysOK' /\ \A q \in Procs : ProcOK(q)'
  <2>1. dns' = [dns EXCEPT ![s] = net[s]] /\ dns[s] # net[s]
        /\ UNCHANGED <<root, saved, procs, net>>
    BY <1>2 DEF Drift, world
  <2>2. root # NoRoot
    BY <2>1 DEF KeysOK, NoRoot
  <2>3. KeysOK'
    BY <2>1 DEF KeysOK, TypeInv, TypeOK
  <2>4. QED
    BY <2>1, <2>2, <2>3 DEF ProcOK, procs, locals
<1>3. ASSUME NEW s \in Services, NEW v \in Values \cup {None}, NewSettings(s, v)
     PROVE  KeysOK' /\ \A q \in Procs : ProcOK(q)'
  <2>1. root = NoRoot /\ \A q \in Procs : Idle(q)
    BY <1>3, Zenon DEF NewSettings
  <2>2. /\ dns' = [dns EXCEPT ![s] = v] /\ net' = [net EXCEPT ![s] = v]
        /\ UNCHANGED <<root, saved, procs>>
    BY <1>3 DEF NewSettings
  <2>3. KeysOK'
    BY <2>1, <2>2 DEF KeysOK, TypeInv, TypeOK
  <2>4. \A q \in Procs : pc'[q] = "idle" /\ monitor'[q].at = "off"
    BY <2>1, <2>2 DEF MonitorHome, Idle, procs
  <2>5. QED
    BY <2>3, <2>4 DEF ProcOK
<1>4. QED
  BY <1>1, <1>2, <1>3 DEF Network

\* Once the network has changed a key, it has been changed for good.
LEMMA ChangedStays == ASSUME TypeInv, [Next]_vars, ~changed' PROVE ~changed
<1>1. ASSUME NEW p \in Procs, Process(p)
     PROVE  UNCHANGED changed
  BY <1>1
     DEF Process, Step, Monitor, Start, CheckRoot, ReadRoot, FindPrimary, CheckUses, Probe,
         Cleanup, Login, BindProxy, FindService, CheckHad, Setup, MonitorCheck, MonitorRepair,
         StopMonitor, JoinMonitor, StopProxy, ScutilFails, RepairFails, Kill, world
<1>2. CASE Network
  <2>1. ASSUME NEW s \in Services, NEW v \in Values \cup {None}, NewSettings(s, v)
       PROVE  ~changed
    BY <2>1 DEF NewSettings
  <2>2. QED
    BY <1>2, <2>1 DEF Network, Switch, Resolver, Drift, world
<1>3. QED
  BY <1>1, <1>2 DEF Next, vars, world

\* The invariant holds initially,
LEMMA InvInit == Init => IInv
<1> SUFFICES ASSUME Init
             PROVE  IInv
  OBVIOUS
<1>1. \A p \in Procs : pc[p] = "idle" /\ monitor[p].at = "off"
  BY DEF Init, Off
<1>2. dns = net /\ root = NoRoot
  BY DEF Init
<1>3. ServiceKnown /\ Alone /\ MonitorHome
  BY <1>1 DEF ServiceKnown, Alone, MonitorHome, Idle
<1>4. RootHome
  BY <1>1, <1>2 DEF RootHome
<1>5. KeysOK /\ \A p \in Procs : ProcOK(p)
  BY <1>1, <1>2 DEF KeysOK, ProcOK
<1>6. QED
  BY <1>3, <1>4, <1>5 DEF IInv

\* and every step keeps it.
LEMMA InvNext == TypeInv /\ TypeInv' /\ IInv /\ [Next]_vars => IInv'
<1> SUFFICES ASSUME TypeInv, TypeInv', IInv, [Next]_vars, "overlap" \notin Faults
             PROVE  /\ Alone' /\ MonitorHome' /\ RootHome'
                    /\ ~changed' => KeysOK' /\ \A p \in Procs : ProcOK(p)'
  BY DEF IInv, TypeInv
<1>1. Alone /\ MonitorHome /\ RootHome
  BY DEF IInv
<1>2. Alone' /\ MonitorHome' /\ RootHome'
  BY <1>1, AloneNext, RootHomeNext
<1>3. ASSUME ~changed'
     PROVE  KeysOK' /\ \A p \in Procs : ProcOK(p)'
  <2>1. ~changed /\ KeysOK /\ \A p \in Procs : ProcOK(p)
    BY <1>3, ChangedStays DEF IInv
  <2>2. ASSUME NEW p \in Procs, Process(p)
       PROVE  KeysOK' /\ \A q \in Procs : ProcOK(q)'
    BY <1>1, <2>1, <2>2, QuietStepNext, WritingStepNext
  <2>3. CASE Network
    BY <1>1, <1>3, <2>1, <2>3, NetworkNext
  <2>4. CASE UNCHANGED vars
    BY <2>1, <2>4 DEF vars, store, procs, locals, world, KeysOK, ProcOK, HasDns
  <2>5. QED
    BY <2>2, <2>3, <2>4 DEF Next
<1>4. QED
  BY <1>2, <1>3

\* IInv: one process is at work, what it has read is still true, and the keys
\* hold what a cleanup needs.
THEOREM InvHolds == Spec => []IInv
BY TypeInit, TypeNext, InvInit, InvNext, PTL DEF Spec

-----------------------------------------------------------------------------
(* What a user of the host sees.                                            *)

\* Recoverable: while the network keeps its settings, a service that points at
\* the proxy is the one in the root, and what is saved is what the network had
\* given it, wherever a process is killed.
THEOREM AlwaysRecoverable ==
    ASSUME "overlap" \notin Faults
    PROVE  Spec => []Recoverable
<1>1. TypeInv /\ IInv => Recoverable
  BY MacosDnsAssumption DEF IInv, KeysOK, Recoverable, TypeInv, TypeOK, NoRoot
<1>2. QED
  BY <1>1, TypeInvHolds, InvHolds, PTL

\* RestoredWhenDone: when every process has ended, and none was killed or
\* failed, DNS is as the network gave it.
THEOREM DnsIsRestored ==
    ASSUME "overlap" \notin Faults
    PROVE  Spec => []RestoredWhenDone
<1>1. TypeInv /\ IInv => RestoredWhenDone
  <2> SUFFICES ASSUME TypeInv, IInv,
                      \A p \in Procs : Idle(p), ~trouble, ~changed
               PROVE  dns = net
    BY DEF RestoredWhenDone
  <2>1. root = NoRoot
    BY DEF IInv, RootHome, Idle
  <2>2. \A s \in Services : dns[s] = net[s]
    BY <2>1, MacosDnsAssumption DEF IInv, KeysOK, NoRoot
  <2>3. QED
    BY <2>2 DEF TypeInv, TypeOK
<1>2. QED
  BY <1>1, TypeInvHolds, InvHolds, PTL

\* ResolverAnswers: while nothing has gone wrong, no service points at a proxy
\* that is not there.
THEOREM ResolverIsThere ==
    ASSUME "overlap" \notin Faults
    PROVE  Spec => []ResolverAnswers
<1>1. TypeInv /\ IInv => ResolverAnswers
  <2> SUFFICES ASSUME TypeInv, IInv, ~trouble, ~changed,
                      NEW s \in Services, dns[s] = Local
               PROVE  port \in Procs
    BY DEF ResolverAnswers
  <2>1. dns[s] # net[s]
    BY MacosDnsAssumption DEF TypeInv, TypeOK
  <2>2. root # NoRoot
    BY <2>1, MacosDnsAssumption DEF IInv, KeysOK, NoRoot
  <2>3. QED
    BY <2>2 DEF IInv, RootHome
<1>2. QED
  BY <1>1, TypeInvHolds, InvHolds, PTL

\* CleanupRestores: a cleanup that succeeds puts every service back to what the
\* network gave it.
THEOREM CleanupAlwaysRestores ==
    ASSUME "overlap" \notin Faults
    PROVE  Spec => CleanupRestores
<1>1. TypeInv /\ TypeInv' /\ IInv /\ [Next]_vars =>
        [\A p \in Procs : At(p, "cleanup") /\ ~At(p, "cleanup")' =>
            trouble' \/ changed \/ dns' = net']_vars
  <2>1. SUFFICES ASSUME TypeInv, TypeInv', IInv, Next, NEW p \in Procs,
                        At(p, "cleanup"), ~At(p, "cleanup")'
                 PROVE  trouble' \/ changed \/ dns' = net'
    OBVIOUS
  <2>2. Alone /\ MonitorHome
    BY <2>1 DEF IInv
  <2>3. PICK q \in Procs : Process(q)
    BY <2>1 DEF Next, Network, Switch, Resolver, Drift, NewSettings, procs, At
  <2>4. ProcStep(q) /\ q = p
    BY <2>1, <2>2, <2>3, ProcessIsProcStep DEF ProcStep, Alone, Idle, At
  <2>5. CASE Cleanup(p)
    BY <2>1, <2>5, CleanupPutsBack DEF IInv, Cleanup, world
  <2>6. CASE ScutilFails(p) \/ Kill(p)
    BY <2>1, <2>6 DEF ScutilFails, Kill, At
  <2>7. QED
    BY <2>1, <2>2, <2>3, <2>4, <2>5, <2>6
       DEF Process, Step, Monitor, Start, CheckRoot, ReadRoot, FindPrimary, CheckUses, Probe,
           Login, BindProxy, FindService, CheckHad, Setup, MonitorCheck, MonitorRepair,
           StopMonitor, JoinMonitor, StopProxy, RepairFails, MonitorHome, At, Idle
<1>2. QED
  BY <1>1, TypeInvHolds, InvHolds, PTL DEF Spec, CleanupRestores

=============================================================================
