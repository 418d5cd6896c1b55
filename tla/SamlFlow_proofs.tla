-------------------------- MODULE SamlFlow_proofs --------------------------
(***************************************************************************)
(* Proofs about SamlFlow, for every set of faults and every bound.         *)
(***************************************************************************)
EXTENDS SamlFlow, SequenceTheorems, TLAPS

-----------------------------------------------------------------------------
(* Type correctness.                                                        *)

LineSet == [kind : Lines, id : Nat]

\* What OpenVPN reports is appended to a sequence of lines.
LEMMA EmitTyped ==
    ASSUME events \in Seq(LineSet), NEW L \in Seq(LineSet), Emit(L)
    PROVE  events' \in Seq(LineSet)
BY ConcatProperties DEF Emit

\* A line that OpenVPN reports is one.
LEMMA LineTyped ==
    ASSUME NEW k \in Lines, NEW n \in Nat
    PROVE  Line(k, n) \in LineSet
BY DEF Line, LineSet

\* Returning from the flow empties the queues that end at it.
LEMMA ReturnTyped ==
    ASSUME TypeOK, Return, trouble' \in BOOLEAN
    PROVE  TypeOK'
BY DEF TypeOK, FlowOK, OpenVpnOK, BrowserOK, Return, session, server, browser,
       history, Challenge

\* The handler and receive_once.
LEMMA FlowTyped ==
    ASSUME TypeOK, Flow
    PROVE  TypeOK'
<1> USE DEF TypeOK, FlowOK, OpenVpnOK, BrowserOK, state, session, openvpn,
            server, browser, history, Challenge
<1>h. (\E k \in Lines : Reads(k)) =>
        Tail(events) \in Seq(LineSet) /\ Head(events) \in LineSet
  BY HeadTailProperties DEF Reads, LineSet
<1>b. (\E k \in {"post", "get", "bad", "silent"} : Receives(k)) =>
        Tail(backlog) \in Seq(Requests) /\ Head(backlog) \in Requests
  BY HeadTailProperties DEF Receives
<1>c. \A c \in Commands : Append(cmds, c) \in Seq(Commands)
  OBVIOUS
<1>1. CASE StartFlow
  BY <1>1, <1>c DEF StartFlow, Send, Release, Commands
<1>2. CASE AnswerPrompt
  BY <1>2, <1>h, <1>c DEF AnswerPrompt, Send, Handled, Acs, Crv1, Commands,
     LineSet, Lines
<1>3. CASE IgnoreDuplicate
  BY <1>3, <1>h DEF IgnoreDuplicate, Handled, LineSet, Lines
<1>4. CASE OpenPage
  BY <1>4, <1>h DEF OpenPage, Handled, LineSet, Lines
<1>5. CASE BrowserFails
  BY <1>5, ReturnTyped DEF BrowserFails
<1>6. CASE HandleConnected
  BY <1>6, <1>h DEF HandleConnected, Handled, StoreAddress, Forget, LineSet, Lines
<1>7. CASE HandleRestart
  BY <1>7, <1>h DEF HandleRestart, Handled, LineSet, Lines
<1>8. CASE HandleAuthFailure
  BY <1>8, <1>h, <1>c DEF HandleAuthFailure, Handled, ReleaseHold, Send, Release,
     Commands, LineSet, Lines
<1>9. CASE HandlePush
  BY <1>9, <1>h DEF HandlePush, Handled, Capture, LineSet, Lines
<1>10. CASE HandleError
  BY <1>10, ReturnTyped DEF HandleError
<1>11. CASE ReceiveAssertion
  BY <1>11, <1>b, <1>c DEF ReceiveAssertion, SendResponse, Send, Crv1, Commands,
     Requests
<1>12. CASE ContinueAfterGet
  BY <1>12, <1>b DEF ContinueAfterGet
<1>13. CASE ReceiveFails
  BY <1>13, ReturnTyped DEF ReceiveFails
<1>14. QED
  BY <1>1, <1>2, <1>3, <1>4, <1>5, <1>6, <1>7, <1>8, <1>9, <1>10, <1>11, <1>12,
     <1>13 DEF Flow, HandleEvent, ReceiveOnce

\* OpenVPN, the server and the faults that hit them.
LEMMA OpenVpnTyped ==
    ASSUME TypeOK, OpenVpn \/ RefuseAnyway \/ Break \/ OpenVpnExits
    PROVE  TypeOK'
<1> USE DEF TypeOK, FlowOK, OpenVpnOK, BrowserOK, World, state, session, server,
            browser, history, Challenge, Goes
<1>c. cmds # <<>> => Tail(cmds) \in Seq(Commands) /\ Head(cmds) \in Commands
  BY HeadTailProperties
<1>n. NoCred \in Commands
  BY DEF NoCred, Commands
<1>1. CASE TakeRelease
  BY <1>1, <1>c DEF TakeRelease
<1>2. CASE TakeCredential
  <2>1. events' \in Seq(LineSet)
    <3>1. <<Line("auth-failure", 0)>> \in Seq(LineSet)
      BY LineTyped DEF Lines
    <3>2. QED
      BY <1>2, <3>1, EmitTyped DEF TakeCredential, LineSet
  <2>2. kept' \in Commands /\ cred' \in Commands
    BY <1>2, <1>c, <1>n DEF TakeCredential
  <2>3. ovpn' \in {"hold", "connecting", "prompt", "challenged", "auth", "pushed",
                   "up", "exited"}
    BY <1>2 DEF TakeCredential
  <2>4. QED
    BY <1>2, <2>1, <2>2, <2>3, <1>c DEF TakeCredential, LineSet
<1>3. CASE Connect
  <2>1. <<Line("prompt", 0)>> \in Seq(LineSet)
    BY LineTyped DEF Lines
  <2>2. events' \in Seq(LineSet)
    BY <1>3, <2>1, EmitTyped DEF Connect, LineSet
  <2>3. QED
    BY <1>3, <2>2, <1>n DEF Connect, LineSet
<1>4. CASE IssueChallenge
  <2> DEFINE c == Line("challenge", issued + 1)
             a == Line("auth-failure", 0)
  <2>1. c \in LineSet /\ a \in LineSet
    BY LineTyped DEF Lines
  <2>2. <<c>> \in Seq(LineSet) /\ <<c, c>> \in Seq(LineSet)
    BY <2>1
  <2>3. \A t \in {<<c>>, <<c, c>>} : Append(t, a) \in Seq(LineSet)
    BY <2>1, <2>2, AppendProperties
  <2>4. \E L \in Seq(LineSet) : Emit(L)
    BY <1>4, <2>2, <2>3 DEF IssueChallenge
  <2>5. events' \in Seq(LineSet)
    BY <2>4, EmitTyped DEF LineSet
  <2>6. ovpn' \in {"challenged", "hold"}
    BY <1>4 DEF IssueChallenge
  <2>7. QED
    BY <1>4, <2>5, <2>6 DEF IssueChallenge, LineSet
<1>5. CASE AcceptResponse
  <2>a. connection' \in Nat /\ bare' \in {bare, bare \cup {connection'}}
    BY <1>5 DEF AcceptResponse, TypeOK, OpenVpnOK
  <2>1. connection' \in Nat /\ bare' \in SUBSET Nat
    BY <2>a DEF TypeOK, OpenVpnOK
  <2>2. \A n \in Nat : <<Line("push", n)>> \in Seq(LineSet)
    BY LineTyped DEF Lines
  <2>3. \E n \in Nat : Emit(<<Line("push", n)>>)
    BY <1>5, <2>1 DEF AcceptResponse
  <2>4. events' \in Seq(LineSet)
    BY <2>2, <2>3, EmitTyped DEF LineSet
  <2>5. QED
    BY <1>5, <2>1, <2>4 DEF AcceptResponse, LineSet
<1>6. CASE FinishConnect
  <2>1. <<Line("connected", connection)>> \in Seq(LineSet)
    BY LineTyped DEF Lines
  <2>2. events' \in Seq(LineSet)
    BY <1>6, <2>1, EmitTyped DEF FinishConnect, LineSet
  <2>3. QED
    BY <1>6, <2>2 DEF FinishConnect, LineSet
<1>7. CASE RefuseLogin
  <2>1. <<Line("auth-failed", 0), Line("auth-failure", 0)>> \in Seq(LineSet)
    <3>1. Line("auth-failed", 0) \in LineSet /\ Line("auth-failure", 0) \in LineSet
      BY LineTyped DEF Lines
    <3>2. QED
      BY <3>1
  <2>2. events' \in Seq(LineSet)
    BY <1>7, <2>1, EmitTyped DEF RefuseLogin, LineSet
  <2>3. QED
    BY <1>7, <2>2 DEF RefuseLogin, LineSet
<1>8. CASE RefuseAnyway
  <2>1. /\ <<Line("auth-failed", 0), Line("auth-failure", 0)>> \in Seq(LineSet)
        /\ <<Line("auth-failure", 0)>> \in Seq(LineSet)
        /\ <<Line("malformed", 0)>> \in Seq(LineSet)
    <3>1. /\ Line("auth-failed", 0) \in LineSet /\ Line("auth-failure", 0) \in LineSet
          /\ Line("malformed", 0) \in LineSet
      BY LineTyped DEF Lines
    <3>2. QED
      BY <3>1
  <2>2. events' \in Seq(LineSet)
    BY <1>8, <2>1, EmitTyped DEF RefuseAnyway, LineSet
  <2>3. QED
    BY <1>8, <2>2 DEF RefuseAnyway, LineSet
<1>9. CASE Break
  <2>1. <<Line("restart", 0)>> \in Seq(LineSet) /\ <<Line("auth-failure", 0)>> \in Seq(LineSet)
    BY LineTyped DEF Lines
  <2>2. events' \in Seq(LineSet)
    BY <1>9, <2>1, EmitTyped DEF Break, LineSet
  <2>3. ovpn' \in {"connecting", "hold"} /\ trouble' \in BOOLEAN
    BY <1>9 DEF Break
  <2>4. QED
    BY <1>9, <2>2, <2>3 DEF Break, LineSet
<1>10. CASE OpenVpnExits
  <2>1. <<Line("fatal", 0)>> \in Seq(LineSet)
    BY LineTyped DEF Lines
  <2>2. events' \in Seq(LineSet)
    BY <1>10, <2>1, EmitTyped DEF OpenVpnExits, LineSet
  <2>3. QED
    BY <1>10, <2>2 DEF OpenVpnExits, LineSet
<1>11. QED
  BY <1>1, <1>2, <1>3, <1>4, <1>5, <1>6, <1>7, <1>8, <1>9, <1>10 DEF OpenVpn

\* The browser.
LEMMA BrowserTyped ==
    ASSUME TypeOK, Browser \/ ExtraRequest
    PROVE  TypeOK'
<1> USE DEF TypeOK, FlowOK, OpenVpnOK, BrowserOK, Rest, state, session, openvpn,
            server, browser, history, Challenge
<1>a. \A k \in {"post", "get", "bad", "silent"}, n \in Nat :
        Append(backlog, [kind |-> k, id |-> n]) \in Seq(Requests)
  BY DEF Requests
<1>1. CASE PostAssertion
  BY <1>1, <1>a DEF PostAssertion, Arrives
<1>2. CASE SilentEnds
  <2>1. PICK i \in 1..Len(backlog) : backlog' = [backlog EXCEPT ![i].kind = "bad"]
    BY <1>2 DEF SilentEnds
  <2>2. [backlog[i] EXCEPT !.kind = "bad"] \in Requests
    <3>1. backlog[i] \in Requests
      BY ElementOfSeq
    <3>2. QED
      BY <3>1 DEF Requests
  <2>3. backlog' = [backlog EXCEPT ![i] = [backlog[i] EXCEPT !.kind = "bad"]]
    BY <2>1
  <2>4. backlog' \in Seq(Requests)
    BY <2>2, <2>3
  <2>5. QED
    BY <1>2, <2>4 DEF SilentEnds
<1>3. CASE ExtraRequest
  <2>1. \E k \in {"post", "get", "bad", "silent"}, n \in Nat : Arrives(k, n)
    BY <1>3 DEF ExtraRequest
  <2>2. backlog' \in Seq(Requests)
    BY <2>1, <1>a DEF Arrives
  <2>3. extra' \in Nat
    BY <1>3 DEF ExtraRequest
  <2>4. trouble' = trouble \/ trouble' = TRUE
    BY <1>3 DEF ExtraRequest
  <2>5. QED
    BY <1>3, <2>2, <2>3, <2>4 DEF ExtraRequest
<1>4. QED
  BY <1>1, <1>2, <1>3 DEF Browser

\* The types in the initial states.
LEMMA TypeInitially ==
    ASSUME Init
    PROVE  TypeOK
<1>1. FlowOK /\ BrowserOK
  BY DEF Init, FlowOK, BrowserOK, Challenge
<1>2. OpenVpnOK
  BY DEF Init, OpenVpnOK, NoCred, Commands, Challenge
<1>3. events = <<>> /\ cmds = <<>> /\ backlog = <<>>
  BY DEF Init
<1>4. QED
  BY <1>1, <1>2, <1>3 DEF TypeOK

\* Every variable keeps its type: state ids, queues and control points of the
\* login never leave their sets.
THEOREM TypeCorrect == Spec => []TypeOK
<1>1. Init => TypeOK
  BY TypeInitially
<1>2. TypeOK /\ [Next]_vars => TypeOK'
  <2>1. CASE UNCHANGED vars
    BY <2>1 DEF vars, state, session, openvpn, server, browser, history, TypeOK,
       FlowOK, OpenVpnOK, BrowserOK
  <2>2. CASE Next
    BY <2>2, FlowTyped, OpenVpnTyped, BrowserTyped DEF Next
  <2>3. QED
    BY <2>1, <2>2
<1>3. QED
  BY <1>1, <1>2, PTL DEF Spec

-----------------------------------------------------------------------------
(* The order of challenges: no challenge that was answered is still to be   *)
(* handled as a new one.                                                    *)

Settings == <<waiting, active, response, answered, spent>>

\* OpenVPN reports challenges made just now, or none.
LEMMA LinesEmitted ==
    ASSUME TypeOK, AnswersOK, LinesOK, UNCHANGED Settings,
           issued' \in Nat, issued <= issued',
           NEW L \in Seq(LineSet), Emit(L),
           \A k \in 1..Len(L) : L[k].kind = "challenge" =>
              /\ issued < L[k].id
              /\ L[k].id = issued'
              /\ \A m \in 1..Len(L) : L[m].kind # "connected"
    PROVE  LinesOK'
<1> DEFINE N == Len(events)
<1>1. events \in Seq(LineSet) /\ N \in Nat /\ Len(L) \in Nat
  BY DEF TypeOK, LineSet
<1>2. CASE Ended
  <2>1. events' = events
    BY <1>2 DEF Emit
  <2>2. \A j \in 1..N : events[j].id \in Nat
    <3>1. \A j \in 1..N : events[j] \in LineSet
      BY <1>1, ElementOfSeq
    <3>2. QED
      BY <3>1 DEF LineSet
  <2>3. QED
    BY <2>1, <2>2 DEF LinesOK, Told, Settings, TypeOK, OpenVpnOK, Challenge
<1>3. CASE ~Ended
  <2>1. /\ Len(events') = N + Len(L)
        /\ \A i \in 1..(N + Len(L)) :
             events'[i] = IF i <= N THEN events[i] ELSE L[i - N]
    BY <1>1, <1>3, ConcatProperties DEF Emit
  <2>2. \A j \in 1..N : events[j].id \in Nat
    <3>1. \A j \in 1..N : events[j] \in LineSet
      BY <1>1, ElementOfSeq
    <3>2. QED
      BY <3>1 DEF LineSet
  <2>3. ASSUME NEW j \in 1..Len(events'), ~(j <= N), Told(j)'
        PROVE  /\ issued < events'[j].id
               /\ events'[j].id = issued'
               /\ \A i \in 1..Len(events') : i > N => events'[i].kind # "connected"
    <3>1. j - N \in 1..Len(L) /\ events'[j] = L[j - N]
      BY <1>1, <2>1, <2>3
    <3>2. \A i \in 1..Len(events') : i > N => i - N \in 1..Len(L) /\ events'[i] = L[i - N]
      BY <1>1, <2>1
    <3>3. QED
      BY <2>3, <3>1, <3>2 DEF Told
  <2>4. \A j \in 1..Len(events') : Told(j)' =>
         LET s == events'[j].id IN
         /\ 0 < s /\ s <= issued' /\ waiting' <= s
         /\ \A a \in answered' : a <= s
         /\ s \in answered' => s = active'
    <3> SUFFICES ASSUME NEW j \in 1..Len(events'), Told(j)'
                 PROVE LET s == events'[j].id IN
                       /\ 0 < s /\ s <= issued' /\ waiting' <= s
                       /\ \A a \in answered' : a <= s
                       /\ s \in answered' => s = active'
      OBVIOUS
    <3>1. CASE j <= N
      <4>1. j \in 1..N /\ events'[j] = events[j] /\ Told(j)
        BY <1>1, <2>1, <3>1 DEF Told
      <4>2. LET s == events[j].id IN
            /\ 0 < s /\ s <= issued /\ waiting <= s
            /\ \A a \in answered : a <= s
            /\ s \in answered => s = active
        BY <4>1 DEF LinesOK
      <4>3. issued \in Nat /\ events[j].id \in Nat
        BY <4>1, <2>2 DEF TypeOK, OpenVpnOK, Challenge
      <4>4. QED
        BY <4>1, <4>2, <4>3 DEF Settings
    <3>2. CASE ~(j <= N)
      BY <3>2, <2>3 DEF AnswersOK, Settings, TypeOK, OpenVpnOK, FlowOK, Challenge
    <3>3. QED
      BY <3>1, <3>2
  <2>5. \A i, j \in 1..Len(events') : i < j /\ Told(i)' /\ Told(j)' =>
         events'[i].id <= events'[j].id
    <3> SUFFICES ASSUME NEW i \in 1..Len(events'), NEW j \in 1..Len(events'),
                        i < j, Told(i)', Told(j)'
                 PROVE  events'[i].id <= events'[j].id
      OBVIOUS
    <3>1. CASE j <= N
      BY <1>1, <2>1, <3>1 DEF LinesOK, Told
    <3>2. CASE ~(j <= N)
      BY <2>3, <2>4, <3>2
    <3>3. QED
      BY <3>1, <3>2
  <2>6. \A i, j \in 1..Len(events') :
         i < j /\ events'[i].kind = "connected" /\ Told(j)' =>
           /\ waiting' < events'[j].id
           /\ events'[j].id \notin answered'
    <3> SUFFICES ASSUME NEW i \in 1..Len(events'), NEW j \in 1..Len(events'),
                        i < j, events'[i].kind = "connected", Told(j)'
                 PROVE  waiting' < events'[j].id /\ events'[j].id \notin answered'
      OBVIOUS
    <3>1. CASE j <= N
      BY <1>1, <2>1, <3>1 DEF LinesOK, Told, Settings
    <3>2. CASE ~(j <= N)
      BY <2>3, <3>2 DEF AnswersOK, Settings, TypeOK, OpenVpnOK, FlowOK, Challenge
    <3>3. QED
      BY <3>1, <3>2
  <2>7. \A h, i, j \in 1..Len(events') :
         h < i /\ i < j /\ Told(h)' /\ events'[i].kind = "connected" /\ Told(j)' =>
           events'[h].id < events'[j].id
    <3> SUFFICES ASSUME NEW h \in 1..Len(events'), NEW i \in 1..Len(events'),
                        NEW j \in 1..Len(events'), h < i, i < j, Told(h)',
                        events'[i].kind = "connected", Told(j)'
                 PROVE  events'[h].id < events'[j].id
      OBVIOUS
    <3>1. CASE j <= N
      <4>1. /\ h \in 1..N /\ i \in 1..N /\ j \in 1..N
            /\ events'[h] = events[h] /\ events'[i] = events[i]
            /\ events'[j] = events[j]
        <5>1. h \in 1..N /\ i \in 1..N /\ j \in 1..N
          BY <1>1, <3>1
        <5>2. \A k \in 1..N : events'[k] = events[k]
          BY <1>1, <2>1
        <5>3. QED
          BY <5>1, <5>2
      <4>2. Told(h) /\ Told(j) /\ events[i].kind = "connected"
        BY <4>1 DEF Told
      <4>3. QED
        BY <4>1, <4>2 DEF LinesOK
    <3>2. CASE ~(j <= N)
      <4>1. i <= N
        BY <2>3, <3>2, <1>1
      <4>2. h \in 1..N /\ events'[h] = events[h] /\ Told(h)
        BY <4>1, <1>1, <2>1 DEF Told
      <4>3. events[h].id <= issued
        BY <4>2 DEF LinesOK
      <4>4. issued < events'[j].id /\ events'[j].id = issued'
        BY <3>2, <2>3
      <4>5. issued \in Nat /\ events[h].id \in Nat
        BY <4>2, <2>2 DEF TypeOK, OpenVpnOK, Challenge
      <4>6. QED
        BY <4>2, <4>3, <4>4, <4>5
    <3>3. QED
      BY <3>1, <3>2
  <2>8. QED
    BY <2>4, <2>5, <2>6, <2>7 DEF LinesOK, Told
<1>4. QED
  BY <1>2, <1>3

\* What the first line says, and what is known of the others.
LEMMA FirstLine ==
    ASSUME TypeOK, LinesOK, events # <<>>
    PROVE  /\ Head(events) = events[1]
           /\ Tail(events) \in Seq(LineSet)
           /\ Len(Tail(events)) = Len(events) - 1
           /\ \A i \in 1..Len(Tail(events)) : /\ Tail(events)[i] = events[i + 1]
                                              /\ i + 1 \in 1..Len(events)
           /\ 1 \in 1..Len(events)
           /\ \A i \in 1..Len(events) : events[i] \in LineSet
<1>1. events \in Seq(LineSet)
  BY DEF TypeOK, LineSet
<1>2. Len(events) \in Nat /\ Len(events) # 0
  BY <1>1, EmptySeq
<1>3. QED
  BY <1>1, <1>2, HeadTailProperties, ElementOfSeq

\* A line that is no new challenge and no connection.
LEMMA LinesHandled ==
    ASSUME TypeOK, LinesOK, events # <<>>, Handled,
           UNCHANGED <<waiting, active, answered, issued>>
    PROVE  LinesOK'
BY FirstLine DEF Handled, LinesOK, Told

\* A challenge the flow opens a page for was never answered.
LEMMA NewChallenge ==
    ASSUME TypeOK, AnswersOK, LinesOK, OpenPage
    PROVE  /\ waiting' \notin answered
           /\ 0 < waiting' /\ waiting' <= issued
           /\ \A a \in answered : a < waiting'
<1>1. events[1].kind = "challenge" /\ waiting' = events[1].id /\ 1 \in 1..Len(events)
  BY FirstLine DEF OpenPage, Reads
<1>2. waiting' \in Nat /\ answered \subseteq Nat
  BY <1>1, FirstLine DEF OpenPage, Reads, LineSet, TypeOK, FlowOK, Challenge
<1>3. /\ 0 < waiting' /\ waiting' <= issued
      /\ \A a \in answered : a <= waiting'
      /\ waiting' \in answered => waiting' = active
  BY <1>1 DEF LinesOK, Told
<1>4. waiting' \notin answered
  BY <1>1, <1>3, FirstLine DEF OpenPage, IsDuplicate, AnswersOK, Reads
<1>5. QED
  BY <1>2, <1>3, <1>4

\* Lines that report no challenge.
PlainKinds == Lines \ {"challenge"}

\* One line more in the queue.
LEMMA OneLine ==
    ASSUME TypeOK, AnswersOK, LinesOK, UNCHANGED Settings, UNCHANGED issued,
           NEW k \in PlainKinds, NEW n \in Nat, Emit(<<Line(k, n)>>)
    PROVE  LinesOK'
<1> DEFINE L == <<Line(k, n)>>
<1>1. Line(k, n) \in LineSet /\ Line(k, n).kind # "challenge"
  BY DEF Line, LineSet, PlainKinds
<1>2. L \in Seq(LineSet) /\ \A i \in 1..Len(L) : L[i].kind # "challenge"
  BY <1>1
<1>3. issued' \in Nat /\ issued <= issued'
  BY DEF TypeOK, OpenVpnOK, Challenge
<1>4. QED
  BY <1>2, <1>3, LinesEmitted

\* Two lines more.
LEMMA TwoLines ==
    ASSUME TypeOK, AnswersOK, LinesOK, UNCHANGED Settings, UNCHANGED issued,
           NEW k \in PlainKinds, NEW n \in Nat, NEW l \in PlainKinds, NEW m \in Nat,
           Emit(<<Line(k, n), Line(l, m)>>)
    PROVE  LinesOK'
<1> DEFINE L == <<Line(k, n), Line(l, m)>>
<1>1. /\ Line(k, n) \in LineSet /\ Line(k, n).kind # "challenge"
      /\ Line(l, m) \in LineSet /\ Line(l, m).kind # "challenge"
  BY DEF Line, LineSet, PlainKinds
<1>2. L \in Seq(LineSet) /\ \A i \in 1..Len(L) : L[i].kind # "challenge"
  BY <1>1
<1>3. issued' \in Nat /\ issued <= issued'
  BY DEF TypeOK, OpenVpnOK, Challenge
<1>4. QED
  BY <1>2, <1>3, LinesEmitted

\* No line more.
LEMMA NoLine ==
    ASSUME LinesOK, UNCHANGED Settings, UNCHANGED <<issued, events>>
    PROVE  LinesOK'
BY DEF LinesOK, Told, Settings

\* A challenge, reported once or twice, perhaps with the reconnect after it.
LEMMA ChallengeLines ==
    ASSUME TypeOK, AnswersOK, LinesOK, IssueChallenge
    PROVE  LinesOK'
<1> DEFINE c == Line("challenge", issued + 1)
           a == Line("auth-failure", 0)
           Fits(L) == /\ L \in Seq(LineSet)
                      /\ \A k \in 1..Len(L) : /\ L[k].kind # "connected"
                                              /\ L[k].kind = "challenge" =>
                                                   L[k].id = issued + 1
<1>1. issued \in Nat /\ issued' = issued + 1 /\ UNCHANGED Settings
  BY DEF IssueChallenge, World, state, history, Settings, TypeOK, OpenVpnOK,
         Challenge
<1>2. /\ c \in LineSet /\ c.kind = "challenge" /\ c.id = issued + 1
      /\ a \in LineSet /\ a.kind = "auth-failure"
  BY <1>1 DEF Line, LineSet, Lines
<1> HIDE DEF c, a
<1>3. Fits(<<c>>) /\ Fits(<<c, c>>)
  BY <1>2
<1>4. ASSUME NEW t, Fits(t)
      PROVE  Fits(Append(t, a))
  <2>1. /\ Append(t, a) \in Seq(LineSet)
        /\ Len(Append(t, a)) = Len(t) + 1 /\ Len(t) \in Nat
        /\ \A k \in 1..Len(t) : Append(t, a)[k] = t[k]
        /\ Append(t, a)[Len(t) + 1] = a
    BY <1>2, <1>4, AppendProperties
  <2>2. \A k \in 1..Len(Append(t, a)) : k \in 1..Len(t) \/ k = Len(t) + 1
    BY <2>1
  <2>3. QED
    BY <1>2, <1>4, <2>1, <2>2
<1>5. \E t \in {<<c>>, <<c, c>>} : Emit(t) \/ Emit(Append(t, a))
  BY DEF IssueChallenge, c, a
<1>6. PICK L : Fits(L) /\ Emit(L)
  BY <1>3, <1>4, <1>5
<1>7. L \in Seq(LineSet) /\ issued' \in Nat /\ issued <= issued'
  BY <1>1, <1>6
<1>8. \A k \in 1..Len(L) : L[k].kind = "challenge" =>
        /\ issued < L[k].id /\ L[k].id = issued'
        /\ \A m \in 1..Len(L) : L[m].kind # "connected"
  BY <1>1, <1>6
<1>9. QED
  BY <1>1, <1>6, <1>7, <1>8, LinesEmitted

\* What OpenVPN reports keeps the order of the challenges.
LEMMA OpenVpnLines ==
    ASSUME TypeOK, AnswersOK, LinesOK, OpenVpn \/ RefuseAnyway \/ Break \/ OpenVpnExits
    PROVE  LinesOK'
<1>1. UNCHANGED Settings
  BY DEF OpenVpn, TakeRelease, TakeCredential, Connect, IssueChallenge,
     AcceptResponse, FinishConnect, RefuseLogin, RefuseAnyway, Break, OpenVpnExits,
     World, state, history, Settings
<1>2. CASE IssueChallenge
  BY <1>2, ChallengeLines
<1>3. ASSUME ~IssueChallenge
      PROVE  LinesOK'
  <2>1. UNCHANGED issued
    BY <1>3 DEF OpenVpn, TakeRelease, TakeCredential, Connect, AcceptResponse,
       FinishConnect, RefuseLogin, RefuseAnyway, Break, OpenVpnExits, server
  <2>2. CASE events' = events
    BY <2>1, <2>2, <1>1, NoLine
  <2>3. CASE events' # events
    <3>1. \/ \E k \in PlainKinds, n \in Nat : Emit(<<Line(k, n)>>)
          \/ \E k, l \in PlainKinds, n, m \in Nat : Emit(<<Line(k, n), Line(l, m)>>)
      <4>1. PlainKinds = {"prompt", "push", "connected", "restart", "auth-failure",
                          "auth-failed", "fatal", "malformed"}
        BY DEF PlainKinds, Lines
      <4>2. CASE AcceptResponse \/ FinishConnect
        <5>1. connection \in Nat /\ connection + 1 \in Nat
          BY DEF TypeOK, OpenVpnOK
        <5>2. QED
          BY <4>1, <4>2, <5>1 DEF AcceptResponse, FinishConnect
      <4>3. CASE TakeRelease \/ TakeCredential \/ Connect
        BY <2>3, <4>1, <4>3 DEF TakeRelease, TakeCredential, Connect
      <4>4. CASE RefuseLogin \/ RefuseAnyway \/ Break \/ OpenVpnExits
        BY <2>3, <4>1, <4>4 DEF RefuseLogin, RefuseAnyway, Break, OpenVpnExits
      <4>5. QED
        BY <1>3, <4>2, <4>3, <4>4 DEF OpenVpn
    <3>2. QED
      BY <1>1, <2>1, <3>1, OneLine, TwoLines
  <2>4. QED
    BY <2>2, <2>3
<1>4. QED
  BY <1>2, <1>3

\* Returning drops every line and forgets the active challenge.
LEMMA ReturnKeeps ==
    ASSUME TypeOK, AnswersOK, PostsOK, Return
    PROVE  AnswersOK' /\ LinesOK' /\ PostsOK'
<1>1. events' = <<>> /\ backlog' = <<>>
  BY DEF Return
<1>2. UNCHANGED <<answered, spent, pages, issued>> /\ waiting' = 0 /\ active' = 0
      /\ response' = 0
  BY DEF Return, history, browser, server
<1>3. Len(events') = 0 /\ Len(backlog') = 0
  BY <1>1
<1>4. AnswersOK'
  BY <1>2 DEF AnswersOK, TypeOK, OpenVpnOK, Challenge
<1>5. LinesOK' /\ PostsOK'
  BY <1>2, <1>3 DEF LinesOK, PostsOK
<1>6. QED
  BY <1>4, <1>5

\* The browser's requests carry numbers of challenges.
LEMMA BrowserKeeps ==
    ASSUME TypeOK, AnswersOK, LinesOK, PostsOK, Browser \/ ExtraRequest
    PROVE  AnswersOK' /\ LinesOK' /\ PostsOK'
<1>1. UNCHANGED Settings /\ UNCHANGED <<issued, events>>
  BY DEF Browser, PostAssertion, SilentEnds, ExtraRequest, Rest, state, history,
     server, Settings
<1>2. AnswersOK' /\ LinesOK'
  BY <1>1, NoLine DEF AnswersOK, Settings
<1>3. pages' \subseteq pages
  BY DEF Browser, PostAssertion, SilentEnds, ExtraRequest, browser
<1>4. ASSUME NEW k, NEW n, Arrives(k, n), k = "post" => 0 < n /\ n <= issued,
             k \in {"post", "get", "bad", "silent"}, n \in Nat
      PROVE  PostsOK'
  <2>1. [kind |-> k, id |-> n] \in Requests /\ backlog \in Seq(Requests)
    BY <1>4 DEF Requests, TypeOK
  <2>2. /\ Len(backlog') = Len(backlog) + 1
        /\ \A i \in 1..Len(backlog) : backlog'[i] = backlog[i]
        /\ backlog'[Len(backlog) + 1] = [kind |-> k, id |-> n]
    BY <1>4, <2>1, AppendProperties DEF Arrives
  <2>3. \A i \in 1..Len(backlog') : i \in 1..Len(backlog) \/ i = Len(backlog) + 1
    BY <2>1, <2>2
  <2>4. QED
    BY <1>1, <1>3, <1>4, <2>2, <2>3 DEF PostsOK
<1>5. CASE PostAssertion
  <2>1. PICK s \in pages : Arrives("post", s)
    BY <1>5 DEF PostAssertion
  <2>2. s \in Nat /\ 0 < s /\ s <= issued
    BY DEF PostsOK, TypeOK, BrowserOK, Challenge
  <2>3. QED
    BY <1>2, <1>4, <2>1, <2>2
<1>6. CASE ExtraRequest
  <2>1. \/ \E k \in {"get", "bad", "silent"} : Arrives(k, 0)
        \/ \E s \in 1..issued : Arrives("post", s)
    BY <1>6 DEF ExtraRequest
  <2>2. CASE \E k \in {"get", "bad", "silent"} : Arrives(k, 0)
    <3>1. PICK k \in {"get", "bad", "silent"} : Arrives(k, 0)
      BY <2>2
    <3>2. k # "post" /\ k \in {"post", "get", "bad", "silent"} /\ 0 \in Nat
      OBVIOUS
    <3>3. PostsOK'
      BY <3>1, <3>2, <1>4
    <3>4. QED
      BY <1>2, <3>3
  <2>3. CASE \E s \in 1..issued : Arrives("post", s)
    <3>1. PICK s \in 1..issued : Arrives("post", s)
      BY <2>3
    <3>2. s \in Nat /\ 0 < s /\ s <= issued
      BY <3>1 DEF TypeOK, OpenVpnOK, Challenge
    <3>3. PostsOK'
      BY <3>1, <3>2, <1>4
    <3>4. QED
      BY <1>2, <3>3
  <2>4. QED
    BY <2>1, <2>2, <2>3
<1>7. CASE SilentEnds
  <2>1. PICK i \in 1..Len(backlog) : backlog' = [backlog EXCEPT ![i].kind = "bad"]
    BY <1>7 DEF SilentEnds
  <2>2. Len(backlog') = Len(backlog) /\ \A j \in 1..Len(backlog) :
           backlog'[j] = IF j = i THEN [backlog[i] EXCEPT !.kind = "bad"] ELSE backlog[j]
    BY <2>1 DEF TypeOK
  <2>3. backlog[i] \in Requests
    BY ElementOfSeq DEF TypeOK
  <2>4. \A j \in 1..Len(backlog) : backlog'[j].kind = "post" => backlog'[j] = backlog[j]
    BY <2>2, <2>3 DEF Requests
  <2>5. QED
    BY <1>1, <1>2, <1>3, <2>2, <2>4 DEF PostsOK
<1>8. QED
  BY <1>2, <1>5, <1>6, <1>7 DEF Browser

\* One more challenge is answered: it is later than those answered before.
LEMMA ReceiveKeeps ==
    ASSUME TypeOK, AnswersOK, LinesOK, PostsOK, ReceiveAssertion
    PROVE  AnswersOK' /\ LinesOK' /\ PostsOK'
<1>1. /\ waiting # 0 /\ waiting \in Nat /\ waiting <= issued /\ issued \in Nat
      /\ answered \subseteq Nat
  BY DEF ReceiveAssertion, Receives, TypeOK, FlowOK, OpenVpnOK, Challenge, AnswersOK
<1>2. /\ backlog \in Seq(Requests) /\ backlog # <<>> /\ Head(backlog) = backlog[1]
      /\ 1 \in 1..Len(backlog) /\ backlog[1].kind = "post"
  <2>1. backlog \in Seq(Requests) /\ backlog # <<>>
    BY DEF ReceiveAssertion, Receives, TypeOK
  <2>2. QED
    BY <2>1, EmptySeq DEF ReceiveAssertion, Receives
<1>3. response' \in Nat /\ 0 < response'
  <2>1. backlog[1] \in Requests
    BY <1>2, ElementOfSeq
  <2>2. 0 < backlog[1].id
    BY <1>2 DEF PostsOK
  <2>3. response' = backlog[1].id
    BY <1>2 DEF ReceiveAssertion
  <2>4. QED
    BY <2>1, <2>2, <2>3 DEF Requests
<1>4. /\ active' = waiting /\ waiting' = 0 /\ answered' = answered \cup {waiting}
      /\ UNCHANGED <<spent, issued, events, pages>>
  BY DEF ReceiveAssertion, server, browser
<1>5. \A a \in answered : a < waiting /\ a <= issued
  BY <1>1 DEF AnswersOK
<1>6. AnswersOK'
  <2>1. waiting \notin answered
    BY <1>1, <1>5
  <2>2. QED
    BY <1>1, <1>3, <1>4, <1>5, <2>1 DEF AnswersOK
<1>7. LinesOK'
  <2>1. \A j \in 1..Len(events) : events[j].id \in Nat
    <3>1. \A j \in 1..Len(events) : events[j] \in LineSet
      BY ElementOfSeq DEF TypeOK, LineSet
    <3>2. QED
      BY <3>1 DEF LineSet
  <2>2. \A j \in 1..Len(events) : Told(j) =>
         LET s == events[j].id IN
         /\ 0 < s /\ s <= issued' /\ waiting' <= s
         /\ \A a \in answered' : a <= s
         /\ s \in answered' => s = active'
    BY <1>1, <1>4, <1>5, <2>1 DEF LinesOK
  <2>3. \A i, j \in 1..Len(events) :
         i < j /\ events[i].kind = "connected" /\ Told(j) =>
           /\ waiting' < events[j].id
           /\ events[j].id \notin answered'
    BY <1>1, <1>4, <2>1 DEF LinesOK
  <2>4. QED
    BY <1>4, <2>2, <2>3 DEF LinesOK, Told
<1>8. PostsOK'
  BY <1>2, <1>4, HeadTailProperties DEF ReceiveAssertion, PostsOK
<1>9. QED
  BY <1>6, <1>7, <1>8

\* A page that is opened is the first for its challenge, and keeps the order.
LEMMA PageKeeps ==
    ASSUME TypeOK, AnswersOK, LinesOK, PostsOK, OpenPage
    PROVE  AnswersOK' /\ LinesOK' /\ PostsOK'
<1>1. /\ waiting' \notin answered /\ 0 < waiting' /\ waiting' <= issued
      /\ \A a \in answered : a < waiting'
  BY NewChallenge
<1>2. /\ UNCHANGED <<active, response, answered, spent, issued, backlog>>
      /\ events # <<>> /\ events' = Tail(events) /\ pages' = pages \cup {waiting'}
      /\ waiting' = events[1].id /\ Told(1)
  BY FirstLine DEF OpenPage, state, history, server, Handled, Reads, Told
<1>3. waiting' \in Nat /\ issued \in Nat
  BY <1>2, FirstLine DEF LineSet, TypeOK, OpenVpnOK, Challenge
<1>4. AnswersOK'
  BY <1>1, <1>2 DEF AnswersOK
<1>5. PostsOK'
  BY <1>1, <1>2, <1>3 DEF PostsOK
<1>6. LinesOK'
  <2>1. /\ Len(events') = Len(events) - 1 /\ Len(events) \in Nat
        /\ 1 \in 1..Len(events)
        /\ \A i \in 1..Len(events') : events'[i] = events[i + 1] /\ i + 1 \in 1..Len(events)
                                      /\ 1 < i + 1
    BY <1>2, FirstLine DEF TypeOK
  <2>2. \A j \in 1..Len(events') : Told(j)' => waiting' <= events'[j].id
    BY <1>2, <2>1 DEF LinesOK, Told
  <2>3. \A i, j \in 1..Len(events') :
         i < j /\ events'[i].kind = "connected" /\ Told(j)' => waiting' < events'[j].id
    <3> SUFFICES ASSUME NEW i \in 1..Len(events'), NEW j \in 1..Len(events'), i < j,
                        events'[i].kind = "connected", Told(j)'
                 PROVE  waiting' < events'[j].id
      OBVIOUS
    <3>1. /\ 1 \in 1..Len(events) /\ i + 1 \in 1..Len(events) /\ j + 1 \in 1..Len(events)
          /\ 1 < i + 1 /\ i + 1 < j + 1 /\ Told(1) /\ Told(j + 1)
          /\ events[i + 1].kind = "connected"
      BY <1>2, <2>1 DEF Told
    <3>2. events[1].id < events[j + 1].id
      BY <3>1 DEF LinesOK
    <3>3. QED
      BY <1>2, <2>1, <3>2
  <2>4. QED
    BY <1>2, <2>1, <2>2, <2>3 DEF LinesOK, Told
<1>7. QED
  BY <1>4, <1>5, <1>6

\* With a connection in front, no line behind it reports an answered challenge.
LEMMA ConnectedKeeps ==
    ASSUME TypeOK, AnswersOK, LinesOK, PostsOK, HandleConnected
    PROVE  AnswersOK' /\ LinesOK' /\ PostsOK'
<1>1. /\ UNCHANGED <<waiting, answered, issued, backlog, pages>>
      /\ active' = 0 /\ response' = 0 /\ spent' = answered /\ waiting = 0
      /\ events # <<>> /\ events' = Tail(events) /\ events[1].kind = "connected"
  BY FirstLine DEF HandleConnected, Forget, server, browser, Handled, Reads
<1>2. AnswersOK'
  BY <1>1 DEF AnswersOK
<1>3. PostsOK'
  BY <1>1 DEF PostsOK
<1>4. LinesOK'
  <2>1. /\ Len(events') = Len(events) - 1 /\ Len(events) \in Nat
        /\ 1 \in 1..Len(events)
        /\ \A i \in 1..Len(events') : events'[i] = events[i + 1] /\ i + 1 \in 1..Len(events)
                                      /\ 1 < i + 1
    BY <1>1, FirstLine DEF TypeOK
  <2>2. \A j \in 1..Len(events') : Told(j)' => events'[j].id \notin answered
    BY <1>1, <2>1 DEF LinesOK, Told
  <2>3. QED
    BY <1>1, <2>1, <2>2 DEF LinesOK, Told
<1>5. QED
  BY <1>2, <1>3, <1>4

\* The flow.
LEMMA FlowKeeps ==
    ASSUME TypeOK, AnswersOK, LinesOK, PostsOK, Flow
    PROVE  AnswersOK' /\ LinesOK' /\ PostsOK'
<1>1. CASE Return
  BY <1>1, ReturnKeeps
<1>2. CASE OpenPage
  BY <1>2, PageKeeps
<1>3. CASE ReceiveAssertion
  BY <1>3, ReceiveKeeps
<1>4. CASE HandleConnected
  BY <1>4, ConnectedKeeps
<1>5. CASE StartFlow
  <2>1. UNCHANGED Settings /\ UNCHANGED <<issued, events, backlog, pages>>
    BY <1>5 DEF StartFlow, state, history, server, browser, Settings
  <2>2. QED
    BY <2>1, NoLine DEF AnswersOK, PostsOK, Settings
<1>6. CASE \/ AnswerPrompt \/ IgnoreDuplicate \/ HandleRestart \/ HandleAuthFailure
           \/ HandlePush
  <2>1. /\ UNCHANGED <<waiting, active, response, answered, spent, issued, backlog, pages>>
        /\ events # <<>> /\ Handled
    BY <1>6 DEF AnswerPrompt, IgnoreDuplicate, HandleRestart, HandleAuthFailure,
       HandlePush, Reads, state, history, server, browser
  <2>2. QED
    BY <2>1, LinesHandled DEF AnswersOK, PostsOK
<1>7. CASE ContinueAfterGet
  <2>1. /\ UNCHANGED Settings /\ UNCHANGED <<issued, events, pages>>
        /\ backlog # <<>> /\ backlog' = Tail(backlog)
    BY <1>7 DEF ContinueAfterGet, Receives, state, history, server, browser, Settings
  <2>2. PostsOK'
    BY <2>1, HeadTailProperties DEF PostsOK, TypeOK
  <2>3. QED
    BY <2>1, <2>2, NoLine DEF AnswersOK, Settings
<1>8. QED
  BY <1>1, <1>2, <1>3, <1>4, <1>5, <1>6, <1>7 DEF Flow, HandleEvent, ReceiveOnce,
     BrowserFails, HandleError, ReceiveFails

OrderOK == TypeOK /\ AnswersOK /\ LinesOK /\ PostsOK

\* Every step keeps the order of challenges, lines and posts.
LEMMA OrderInductive ==
    ASSUME OrderOK, [Next]_vars
    PROVE  OrderOK'
<1>1. CASE UNCHANGED vars
  BY <1>1 DEF OrderOK, vars, state, session, openvpn, server, browser, history,
     TypeOK, FlowOK, OpenVpnOK, BrowserOK, AnswersOK, LinesOK, PostsOK, Told
<1>2. CASE Flow
  BY <1>2, FlowTyped, FlowKeeps DEF OrderOK
<1>3. CASE OpenVpn \/ RefuseAnyway \/ Break \/ OpenVpnExits
  <2>1. TypeOK' /\ LinesOK'
    BY <1>3, OpenVpnTyped, OpenVpnLines DEF OrderOK
  <2>2. /\ UNCHANGED <<waiting, active, response, answered, spent, backlog, pages>>
        /\ issued' = issued \/ issued' = issued + 1
    BY <1>3 DEF OpenVpn, TakeRelease, TakeCredential, Connect, IssueChallenge,
       AcceptResponse, FinishConnect, RefuseLogin, RefuseAnyway, Break, OpenVpnExits,
       World, state, history, browser, server
  <2>3. /\ issued \in Nat /\ waiting \in Nat /\ answered \subseteq Nat /\ pages \subseteq Nat
        /\ \A i \in 1..Len(backlog) : backlog[i].id \in Nat
    <3>1. \A i \in 1..Len(backlog) : backlog[i] \in Requests
      BY ElementOfSeq DEF OrderOK, TypeOK
    <3>2. QED
      BY <3>1 DEF OrderOK, TypeOK, OpenVpnOK, FlowOK, BrowserOK, Challenge, Requests
  <2>4. AnswersOK'
    <3>1. waiting' <= issued' /\ \A a \in answered : a <= issued'
      <4>1. issued <= issued' /\ issued' \in Nat
        BY <2>2, <2>3
      <4>2. waiting <= issued /\ \A a \in answered : a <= issued
        BY DEF OrderOK, AnswersOK
      <4>3. waiting <= issued'
        BY <2>3, <4>1, <4>2
      <4>4. \A a \in answered : a \in Nat /\ a <= issued'
        BY <2>3, <4>1, <4>2
      <4>5. QED
        BY <2>2, <4>3, <4>4
    <3>2. QED
      BY <2>2, <3>1 DEF OrderOK, AnswersOK
  <2>5. PostsOK'
    <3>1. issued <= issued' /\ issued' \in Nat
      BY <2>2, <2>3
    <3>2. \A n \in Nat : n <= issued => n <= issued'
      BY <2>3, <3>1
    <3>3. PostsOK
      BY DEF OrderOK
    <3>4. \A s \in pages : s <= issued'
      BY <2>3, <3>2, <3>3 DEF PostsOK
    <3>5. \A i \in 1..Len(backlog) :
            backlog[i].kind = "post" => 0 < backlog[i].id /\ backlog[i].id <= issued'
      BY <2>3, <3>2, <3>3 DEF PostsOK
    <3>6. QED
      BY <2>2, <3>3, <3>4, <3>5 DEF PostsOK
  <2>6. QED
    BY <2>1, <2>4, <2>5 DEF OrderOK
<1>4. CASE Browser \/ ExtraRequest
  BY <1>4, BrowserTyped, BrowserKeeps DEF OrderOK
<1>5. QED
  BY <1>1, <1>2, <1>3, <1>4 DEF Next

\* So they are always in order.
LEMMA OrderHolds == Spec => []OrderOK
<1>1. Init => OrderOK
  <2> SUFFICES ASSUME Init PROVE AnswersOK /\ LinesOK /\ PostsOK
    BY TypeInitially DEF OrderOK
  <2>1. Len(events) = 0 /\ Len(backlog) = 0
    BY DEF Init
  <2>2. QED
    BY <2>1 DEF Init, AnswersOK, LinesOK, PostsOK
<1>2. QED
  BY <1>1, OrderInductive, PTL DEF Spec
-----------------------------------------------------------------------------
(* What the order of the challenges gives.                                  *)

\* A login page is opened only for a challenge that was not answered yet,
\* however often OpenVPN reports it and whatever else happens.
THEOREM BrowserOpensOnce == Spec => BrowserOncePerChallenge
<1>1. ASSUME OrderOK, [Next]_vars
      PROVE  [waiting' # waiting => waiting' \notin answered]_vars
  <2> SUFFICES ASSUME waiting' # waiting PROVE waiting' \notin answered
    OBVIOUS
  <2>1. CASE OpenPage
    BY <1>1, <2>1, NewChallenge DEF OrderOK
  <2>2. CASE ~OpenPage
    <3>1. waiting' = 0
      BY <1>1, <2>2 DEF vars, Next, Flow, StartFlow, HandleEvent, AnswerPrompt,
         IgnoreDuplicate, BrowserFails, HandleConnected, HandleRestart,
         HandleAuthFailure, HandlePush, HandleError, ReceiveOnce, ReceiveAssertion,
         ContinueAfterGet, ReceiveFails, Return, OpenVpn, TakeRelease,
         TakeCredential, Connect, IssueChallenge, AcceptResponse, FinishConnect,
         RefuseLogin, RefuseAnyway, Break, OpenVpnExits, World, Browser,
         PostAssertion, SilentEnds, ExtraRequest, Rest
    <3>2. QED
      BY <1>1, <3>1 DEF OrderOK, AnswersOK
  <2>3. QED
    BY <2>1, <2>2
<1>2. QED
  BY <1>1, OrderHolds, PTL DEF BrowserOncePerChallenge, Spec

\* A command is sent by four operations and taken by two.
LEMMA CommandsGrow ==
    ASSUME TypeOK, [Next]_vars, Len(cmds') > Len(cmds)
    PROVE  StartFlow \/ AnswerPrompt \/ ReceiveAssertion \/ HandleAuthFailure
<1>1. CASE cmds' = cmds
  BY <1>1 DEF TypeOK
<1>2. CASE TakeRelease \/ TakeCredential
  <2>1. cmds # <<>> /\ cmds' = Tail(cmds) /\ cmds \in Seq(Commands)
    BY <1>2 DEF TakeRelease, TakeCredential, TypeOK
  <2>2. Len(cmds') = Len(cmds) - 1 /\ Len(cmds) \in Nat
    BY <2>1, HeadTailProperties
  <2>3. QED
    BY <2>2
<1>3. QED
  BY <1>1, <1>2 DEF vars, Next, Flow, HandleEvent, IgnoreDuplicate, OpenPage,
     BrowserFails, HandleConnected, HandleRestart, HandlePush, HandleError,
     ReceiveOnce, ContinueAfterGet, ReceiveFails, Return, OpenVpn, Connect,
     IssueChallenge, AcceptResponse, FinishConnect, RefuseLogin, RefuseAnyway,
     Break, OpenVpnExits, Browser, PostAssertion, SilentEnds, ExtraRequest, Rest

\* The last of a queue of commands after one was sent.
LEMMA LastCommand ==
    ASSUME TypeOK, NEW c \in Commands, Send(c)
    PROVE  cmds'[Len(cmds')] = c
BY AppendProperties DEF Send, TypeOK

\* A response is never sent again once the connection it led to was reported.
THEOREM ResponseIsForgotten == Spec => ForgottenAfterConnect
<1>1. ASSUME OrderOK, [Next]_vars
      PROVE  [Len(cmds') > Len(cmds) =>
                LET c == cmds'[Len(cmds')] IN c.kind = "crv1" => c.id \notin spent]_vars
  <2> DEFINE Last == cmds'[Len(cmds')]
  <2> SUFFICES ASSUME Len(cmds') > Len(cmds)
               PROVE  Last.kind = "crv1" => Last.id \notin spent
    OBVIOUS
  <2>1. TypeOK /\ AnswersOK
    BY <1>1 DEF OrderOK
  <2>2. CASE StartFlow \/ HandleAuthFailure
    <3>1. Release \in Commands /\ Release.kind # "crv1"
      BY DEF Release, Commands
    <3>2. QED
      BY <2>1, <2>2, <3>1, LastCommand DEF StartFlow, HandleAuthFailure, ReleaseHold
  <2>3. CASE AnswerPrompt
    <3>1. Acs \in Commands /\ Acs.kind # "crv1"
      BY DEF Acs, Commands
    <3>2. /\ Crv1(active, response) \in Commands /\ Crv1(active, response).id = active
          /\ active \notin spent
      BY <2>1 DEF Crv1, Commands, TypeOK, FlowOK, Challenge, AnswersOK
    <3>3. Send(Acs) \/ Send(Crv1(active, response))
      BY <2>3 DEF AnswerPrompt
    <3>4. QED
      BY <2>1, <3>1, <3>2, <3>3, LastCommand
  <2>4. CASE ReceiveAssertion
    <3>1. waiting \notin spent
      BY <2>1, <2>4 DEF ReceiveAssertion, Receives, AnswersOK, TypeOK, FlowOK, Challenge
    <3>2. Head(backlog) \in Requests
      BY <2>1, <2>4, HeadTailProperties DEF ReceiveAssertion, Receives, TypeOK
    <3>3. /\ Crv1(waiting, Head(backlog).id) \in Commands
          /\ Crv1(waiting, Head(backlog).id).id = waiting
      BY <2>1, <3>2 DEF Crv1, Commands, Requests, TypeOK, FlowOK, Challenge
    <3>4. QED
      BY <2>1, <2>4, <3>1, <3>3, LastCommand DEF ReceiveAssertion, SendResponse
  <2>5. QED
    BY <1>1, <2>1, <2>2, <2>3, <2>4, CommandsGrow
<1>2. QED
  BY <1>1, OrderHolds, PTL DEF ForgottenAfterConnect, Spec
-----------------------------------------------------------------------------
(* One assertion at a time, while none is posted twice.                     *)

\* Requests that carry no assertion change nothing.
LEMMA NoPost ==
    ASSUME TypeOK, NEW k \in {"get", "bad", "silent"}, Arrives(k, 0),
           UNCHANGED <<waiting, pages>>, ListenerOK, ~Ended
    PROVE  ListenerOK'
<1>1. [kind |-> k, id |-> 0] \in Requests
  BY DEF Requests
<1>2. /\ Len(backlog') = Len(backlog) + 1 /\ Len(backlog) \in Nat
      /\ \A i \in 1..Len(backlog) : backlog'[i] = backlog[i]
      /\ backlog'[Len(backlog) + 1] = [kind |-> k, id |-> 0]
  BY <1>1, AppendProperties DEF Arrives, TypeOK
<1>3. \A i \in 1..Len(backlog') : backlog'[i].kind = "post" => i \in 1..Len(backlog)
  BY <1>2
<1>4. QED
  BY <1>2, <1>3 DEF ListenerOK

\* The head of the backlog is taken by receive_once.
LEMMA HeadTaken ==
    ASSUME TypeOK, ListenerOK, ~Ended, Running, backlog # <<>>, backlog' = Tail(backlog),
           UNCHANGED pages, PostsOK,
           \/ UNCHANGED waiting
           \/ backlog[1].kind = "post"
    PROVE  ListenerOK' /\ (backlog[1].kind = "post" => backlog[1].id = waiting)
<1>1. /\ Len(backlog') = Len(backlog) - 1 /\ Len(backlog) \in Nat
      /\ 1 \in 1..Len(backlog)
      /\ \A i \in 1..Len(backlog') : /\ backlog'[i] = backlog[i + 1]
                                      /\ i + 1 \in 1..Len(backlog) /\ i + 1 # 1
  BY HeadTailProperties DEF TypeOK
<1>2. CASE backlog[1].kind = "post"
  <2>1. /\ pages = {} /\ backlog[1].id = waiting
        /\ \A j \in 1..Len(backlog) : backlog[j].kind = "post" => j = 1
    BY <1>1, <1>2 DEF ListenerOK
  <2>2. \A i \in 1..Len(backlog') : backlog'[i].kind # "post"
    BY <1>1, <2>1
  <2>3. QED
    BY <2>1, <2>2 DEF ListenerOK
<1>3. CASE backlog[1].kind # "post"
  <2>1. UNCHANGED <<waiting, pages>>
    BY <1>3
  <2>2. \A i, j \in 1..Len(backlog') : i + 1 = j + 1 => i = j
    OBVIOUS
  <2>3. \A i \in 1..Len(backlog') : backlog'[i].kind = "post" =>
           /\ backlog'[i].id = waiting /\ pages = {}
           /\ \A j \in 1..Len(backlog') : backlog'[j].kind = "post" => j = i
    BY <1>1, <2>2 DEF ListenerOK
  <2>4. QED
    BY <1>3, <2>1, <2>3 DEF ListenerOK
<1>4. QED
  BY <1>2, <1>3

\* The listener holds one assertion at most, unless one is posted again.
LEMMA ListenerInductive ==
    ASSUME OrderOK, ListenerOK, [Next]_vars, "resubmit" \notin Faults \/ ~trouble'
    PROVE  ListenerOK'
<1>0. TypeOK /\ PostsOK
  BY DEF OrderOK
<1>1. CASE UNCHANGED <<phase, waiting, pages, backlog>>
  BY <1>1 DEF ListenerOK, Ended
<1>2. CASE Return
  BY <1>2 DEF Return, ListenerOK, Ended
<1>3. CASE StartFlow \/ HandleConnected
  <2>1. UNCHANGED <<waiting, pages, backlog>> /\ ~Ended
    BY <1>3 DEF StartFlow, HandleConnected, Reads, Running, Ended, browser
  <2>2. QED
    BY <2>1 DEF ListenerOK
<1>4. CASE OpenPage
  <2>1. /\ waiting = 0 /\ ~Ended /\ pages' = pages \cup {waiting'}
        /\ backlog' = backlog
    BY <1>4 DEF OpenPage, Reads, Running, Ended
  <2>2. pages = {} /\ \A i \in 1..Len(backlog) : backlog[i].kind # "post"
    BY <1>0, <2>1 DEF ListenerOK, PostsOK
  <2>3. QED
    BY <2>1, <2>2 DEF ListenerOK
<1>5. CASE ReceiveAssertion \/ ContinueAfterGet
  <2>1. /\ Running /\ ~Ended /\ backlog # <<>> /\ backlog' = Tail(backlog)
        /\ UNCHANGED pages /\ Head(backlog) = backlog[1]
        /\ UNCHANGED waiting \/ backlog[1].kind = "post"
    BY <1>0, <1>5, HeadTailProperties DEF ReceiveAssertion, ContinueAfterGet, Receives,
       Running, Ended, browser, TypeOK
  <2>2. QED
    BY <1>0, <2>1, HeadTaken
<1>6. CASE PostAssertion
  <2>1. PICK s \in pages : pages' = pages \ {s} /\ Arrives("post", s)
    BY <1>6 DEF PostAssertion
  <2>2. ~Ended /\ UNCHANGED waiting /\ s \in Nat /\ backlog \in Seq(Requests)
    BY <1>0, <1>6 DEF PostAssertion, Rest, TypeOK, BrowserOK, Challenge
  <2>3. /\ s = waiting /\ pages' = {}
        /\ \A i \in 1..Len(backlog) : backlog[i].kind # "post"
    BY <2>1, <2>2 DEF ListenerOK
  <2>4. [kind |-> "post", id |-> s] \in Requests
    BY <2>2 DEF Requests
  <2>5. /\ Len(backlog') = Len(backlog) + 1 /\ Len(backlog) \in Nat
        /\ \A i \in 1..Len(backlog) : backlog'[i] = backlog[i]
        /\ backlog'[Len(backlog) + 1] = [kind |-> "post", id |-> s]
    BY <2>1, <2>2, <2>4, AppendProperties DEF Arrives
  <2>6. \A i \in 1..Len(backlog') : backlog'[i].kind = "post" => i = Len(backlog) + 1
    BY <2>3, <2>5
  <2>7. QED
    BY <2>2, <2>3, <2>5, <2>6 DEF ListenerOK
<1>7. CASE ExtraRequest
  <2>1. /\ ~Ended /\ UNCHANGED <<waiting, pages>>
        /\ \E k \in {"get", "bad", "silent"} : Arrives(k, 0)
    BY <1>7 DEF ExtraRequest, Rest
  <2>2. QED
    BY <1>0, <2>1, NoPost
<1>8. CASE SilentEnds
  <2>1. PICK i \in 1..Len(backlog) : backlog' = [backlog EXCEPT ![i].kind = "bad"]
    BY <1>8 DEF SilentEnds
  <2>2. /\ Len(backlog') = Len(backlog) /\ backlog[i] \in Requests
        /\ \A j \in 1..Len(backlog) :
             backlog'[j] = IF j = i THEN [backlog[i] EXCEPT !.kind = "bad"] ELSE backlog[j]
    BY <1>0, <2>1, ElementOfSeq DEF TypeOK
  <2>3. \A j \in 1..Len(backlog) : backlog'[j].kind = "post" => backlog'[j] = backlog[j]
    BY <2>2 DEF Requests
  <2>4. UNCHANGED <<phase, waiting, pages>>
    BY <1>8 DEF SilentEnds, Rest, browser
  <2>5. QED
    BY <2>2, <2>3, <2>4 DEF ListenerOK, Ended
<1>9. QED
  <2>1. CASE vars' = vars
    BY <1>1, <2>1 DEF vars, browser
  <2>2. CASE OpenVpn \/ RefuseAnyway \/ Break \/ OpenVpnExits
    BY <1>1, <2>2 DEF OpenVpn, TakeRelease, TakeCredential, Connect, IssueChallenge,
       AcceptResponse, FinishConnect, RefuseLogin, RefuseAnyway, Break, OpenVpnExits,
       World, browser
  <2>3. CASE Flow
    BY <1>1, <1>2, <1>3, <1>4, <1>5, <2>3 DEF Flow, HandleEvent, AnswerPrompt,
       IgnoreDuplicate, BrowserFails, HandleRestart, HandleAuthFailure, HandlePush,
       HandleError, ReceiveOnce, ReceiveFails, browser
  <2>4. QED
    BY <1>6, <1>7, <1>8, <2>1, <2>2, <2>3 DEF Next, Browser

-----------------------------------------------------------------------------
(* The response sent is the one received for the challenge.                 *)

Matches(c) == c.kind = "crv1" => c.assertion = c.id
CredsOK == /\ \A i \in 1..Len(cmds) : Matches(cmds[i])
           /\ Matches(kept) /\ Matches(cred)
           /\ active = response

\* Taking a command, or leaving the queue alone, moves credentials only.
LEMMA TakenMatches ==
    ASSUME TypeOK, CredsOK, cmds # <<>>, cmds' = Tail(cmds),
           kept' \in {kept, NoCred, Head(cmds)}, cred' \in {cred, Head(cmds)},
           UNCHANGED <<active, response>>
    PROVE  CredsOK'
<1>1. /\ Len(cmds') = Len(cmds) - 1 /\ Len(cmds) \in Nat /\ 1 \in 1..Len(cmds)
      /\ Head(cmds) = cmds[1]
      /\ \A i \in 1..Len(cmds') : cmds'[i] = cmds[i + 1] /\ i + 1 \in 1..Len(cmds)
  BY HeadTailProperties DEF TypeOK
<1>2. Matches(Head(cmds)) /\ Matches(NoCred)
  BY <1>1 DEF CredsOK, Matches, NoCred
<1>3. QED
  BY <1>1, <1>2 DEF CredsOK, Matches

\* Sending a matching credential keeps the queue matching.
LEMMA SentMatches ==
    ASSUME TypeOK, CredsOK, NEW c \in Commands, Matches(c), Send(c),
           UNCHANGED <<kept, cred>>, active' = response'
    PROVE  CredsOK'
<1>1. /\ Len(cmds') = Len(cmds) + 1 /\ Len(cmds) \in Nat
      /\ \A i \in 1..Len(cmds) : cmds'[i] = cmds[i]
      /\ cmds'[Len(cmds) + 1] = c
  BY AppendProperties DEF Send, TypeOK
<1>2. \A i \in 1..Len(cmds') : i \in 1..Len(cmds) \/ i = Len(cmds) + 1
  BY <1>1
<1>3. QED
  BY <1>1, <1>2 DEF CredsOK, Matches

\* Every step keeps credentials matched.
LEMMA CredsInductive ==
    ASSUME OrderOK, ListenerOK, CredsOK, [Next]_vars
    PROVE  CredsOK'
<1>0. TypeOK /\ PostsOK
  BY DEF OrderOK
<1>1. CASE UNCHANGED <<cmds, kept, cred, active, response>>
  BY <1>1 DEF CredsOK, Matches
<1>2. CASE UNCHANGED <<cmds, kept, cred>> /\ active' = 0 /\ response' = 0
  BY <1>2 DEF CredsOK, Matches
<1>3. CASE StartFlow \/ HandleAuthFailure
  <2>1. Release \in Commands /\ Matches(Release)
    BY DEF Release, Commands, Matches
  <2>2. Send(Release) /\ UNCHANGED <<kept, cred, active, response>>
    BY <1>3 DEF StartFlow, HandleAuthFailure, ReleaseHold, openvpn, state
  <2>3. QED
    BY <1>0, <2>1, <2>2, SentMatches DEF CredsOK
<1>4. CASE AnswerPrompt
  <2>1. Acs \in Commands /\ Matches(Acs)
    BY DEF Acs, Commands, Matches
  <2>2. Crv1(active, response) \in Commands /\ Matches(Crv1(active, response))
    BY <1>0 DEF Crv1, Commands, Matches, CredsOK, TypeOK, FlowOK, Challenge
  <2>3. /\ Send(Acs) \/ Send(Crv1(active, response))
        /\ UNCHANGED <<kept, cred, active, response>>
    BY <1>4 DEF AnswerPrompt, openvpn, state
  <2>4. QED
    BY <1>0, <2>1, <2>2, <2>3, SentMatches DEF CredsOK
<1>5. CASE ReceiveAssertion
  <2>1. /\ ~Ended /\ backlog # <<>> /\ backlog \in Seq(Requests)
        /\ 1 \in 1..Len(backlog) /\ Head(backlog) = backlog[1]
        /\ backlog[1].kind = "post"
    BY <1>0, <1>5, HeadTailProperties DEF ReceiveAssertion, Receives, Running, Ended, TypeOK
  <2>2. Head(backlog).id = waiting
    BY <2>1 DEF ListenerOK
  <2>3. Crv1(waiting, waiting) \in Commands /\ Matches(Crv1(waiting, waiting))
    BY <1>0 DEF Crv1, Commands, Matches, TypeOK, FlowOK, Challenge
  <2>4. /\ Send(Crv1(waiting, waiting)) /\ active' = response'
        /\ UNCHANGED <<kept, cred>>
    BY <1>5, <2>2 DEF ReceiveAssertion, SendResponse, openvpn
  <2>5. QED
    BY <1>0, <2>3, <2>4, SentMatches
<1>6. CASE TakeRelease \/ TakeCredential
  <2>1. /\ cmds # <<>> /\ cmds' = Tail(cmds)
        /\ kept' \in {kept, NoCred, Head(cmds)} /\ cred' \in {cred, Head(cmds)}
        /\ UNCHANGED <<active, response>>
    BY <1>6 DEF TakeRelease, TakeCredential, World, state
  <2>2. QED
    BY <1>0, <2>1, TakenMatches
<1>7. CASE Connect
  <2>1. /\ cmds' = cmds /\ kept' = NoCred /\ cred' \in {cred, kept}
        /\ UNCHANGED <<active, response>>
    BY <1>7 DEF Connect, World, state
  <2>2. QED
    BY <2>1 DEF CredsOK, Matches, NoCred
<1>8. QED
  <2>1. CASE vars' = vars
    BY <1>1, <2>1 DEF vars, state, openvpn
  <2>2. CASE OpenVpn \/ RefuseAnyway \/ Break \/ OpenVpnExits
    BY <1>1, <1>6, <1>7, <2>2 DEF OpenVpn, IssueChallenge, AcceptResponse,
       FinishConnect, RefuseLogin, RefuseAnyway, Break, OpenVpnExits, World, state
  <2>3. CASE Flow
    BY <1>1, <1>2, <1>3, <1>4, <1>5, <2>3 DEF Flow, HandleEvent, Return, Forget,
       IgnoreDuplicate, OpenPage, BrowserFails, HandleConnected, HandleRestart,
       HandlePush, HandleError, ReceiveOnce, ContinueAfterGet, ReceiveFails,
       openvpn, state
  <2>4. CASE Browser \/ ExtraRequest
    BY <1>1, <2>4 DEF Browser, PostAssertion, SilentEnds, ExtraRequest, Rest, state,
       openvpn
  <2>5. QED
    BY <2>1, <2>2, <2>3, <2>4 DEF Next

\* Unless an assertion is posted again, every response on its way to the server
\* answers the challenge it was posted for, for any number of logins.  The run
\* doc_stale_assertion shows that the assumption is needed.
THEOREM AssertionsMatch ==
    ASSUME "resubmit" \notin Faults
    PROVE  Spec => []AssertionMatches
<1> DEFINE I == OrderOK /\ ListenerOK /\ CredsOK
<1>1. Init => ListenerOK /\ CredsOK
  <2> SUFFICES ASSUME Init PROVE ListenerOK /\ CredsOK
    OBVIOUS
  <2>1. Len(backlog) = 0 /\ Len(cmds) = 0 /\ pages = {}
    BY DEF Init
  <2>2. QED
    BY <2>1 DEF Init, ListenerOK, CredsOK, Matches, NoCred
<1>2. I /\ [Next]_vars => I'
  BY OrderInductive, ListenerInductive, CredsInductive
<1>3. Spec => []I
  <2>1. Init /\ OrderOK => I
    BY <1>1
  <2> HIDE DEF I
  <2>2. QED
    BY <1>2, <2>1, OrderHolds, PTL DEF Spec
<1>4. I => AssertionMatches
  BY DEF CredsOK, Matches, AssertionMatches, Credentials
<1>5. QED
  BY <1>3, <1>4, PTL
=============================================================================
