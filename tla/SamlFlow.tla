------------------------------ MODULE SamlFlow ------------------------------
(***************************************************************************)
(* The SAML login of awsvpn.  drive_saml_auth (phase "login") answers the  *)
(* management events of a starting OpenVPN until it is connected; then     *)
(* monitor_reconnects (phase "session") answers those of later logins with *)
(* the same handler, a fresh SamlFlowState and the same callback listener. *)
(*                                                                         *)
(* The handler takes one event at a time and blocks in receive_once while  *)
(* the user logs in, so events, commands and browser requests queue up and *)
(* OpenVPN may have moved on when the answer reaches it.                   *)
(*                                                                         *)
(* A login page, its CRV1 state id and the assertion it leads to are the   *)
(* number of the server's challenge; 0 is Rust's None.  OpenVPN, the       *)
(* server and the browser are external: they do what the tests of          *)
(* saml/flow.rs and client.rs let them do, and what Faults allows.         *)
(***************************************************************************)
EXTENDS Naturals, Sequences

CONSTANTS
    Faults,     \* what OpenVPN, the server, the browser and the user may do
    MaxBreaks,  \* how often a connection is lost, a login refused or demanded
    MaxExtra    \* how many requests reach the listener that no page was opened for

\* What is in Mild must not end a login; everything else may.
Mild ==
    { "duplicate_challenge",  \* OpenVPN reports a challenge twice
      "restart",              \* an established connection is lost (ping-restart)
      "reauth",               \* the server demands a new login (auth-failure)
      "bare_push",            \* a push reply names no DNS server and no route
      "get" }                 \* a request that is not POST /
Harsh ==
    { "restart_in_login",     \* the connection is lost during a login
      "refused",              \* the server refuses a login it could accept
      "malformed",            \* a challenge the parser refuses
      "openvpn_fatal",        \* OpenVPN reports a fatal error and exits
      "openvpn_exits",        \* OpenVPN exits without a word
      "browser_fails",        \* no browser can be started
      "bad",                  \* a POST without a usable SAMLResponse
      "silent",               \* a connection that sends nothing
      "browser_gone",         \* the browser closes before it has the answer
      "saml_timeout",         \* the user does not log in in time
      "resubmit" }            \* the browser posts an assertion once more

ASSUME SamlFlowAssumption ==
    /\ Faults \subseteq Mild \cup Harsh
    /\ MaxBreaks \in Nat
    /\ MaxExtra \in Nat

VARIABLES
    phase,      \* "start", "login", "session"; "failed", "stopped"
    waiting,    \* the challenge receive_once waits for
    active,     \* SamlFlowState.active_state_id
    response,   \* SamlFlowState.saml_response
    options,    \* SamlFlowState.dns_servers and routes: the connection they are of
    configured, \* the connection whose options the session was configured from
    vpnIp,      \* VpnSession.vpn_ip: the connection whose address it is
    events,     \* management lines on their way to awsvpn
    cmds,       \* management commands on their way to OpenVPN
    ovpn,       \* where OpenVPN is
    kept,       \* a credential it was given before it asked
    cred,       \* the credential it logs in with
    issued,     \* how many challenges the server has made
    accepted,   \* the challenges whose response it has accepted
    connection, \* how many logins it has accepted: the number of the latest
    bare,       \* those of them whose push reply named no option (history)
    pages,      \* login pages open in the browser
    backlog,    \* requests at the callback listener
    answered,   \* challenges answered with an assertion
    spent,      \* those of them that a later Connected event has settled
    breaks,     \* connections lost, logins refused and demanded so far
    extra,      \* requests made that no page was opened for
    trouble     \* something Harsh has happened

state   == <<active, response, options>>
session == <<configured, vpnIp>>
openvpn == <<ovpn, kept, cred>>
server  == <<issued, accepted, connection, bare>>
browser == <<pages, extra>>
history == <<answered, spent>>
vars == <<phase, waiting, state, session, events, cmds, openvpn, server,
          browser, backlog, history, breaks, trouble>>

Running == phase \in {"login", "session"}
Ended   == phase \in {"failed", "stopped"}

Release    == [kind |-> "release", id |-> 0, assertion |-> 0]
Acs        == [kind |-> "acs", id |-> 0, assertion |-> 0]
Crv1(s, a) == [kind |-> "crv1", id |-> s, assertion |-> a]
NoCred     == [kind |-> "none", id |-> 0, assertion |-> 0]
Line(k, n) == [kind |-> k, id |-> n]

Lines    == {"prompt", "challenge", "push", "connected", "restart",
             "auth-failure", "auth-failed", "fatal", "malformed"}
Commands == [kind : {"release", "acs", "crv1", "none"}, id : Nat, assertion : Nat]
Requests == [kind : {"post", "get", "bad", "silent"}, id : Nat]

Challenge == Nat    \* 0 or the number of a challenge

FlowOK ==
    /\ phase \in {"start", "login", "session", "failed", "stopped"}
    /\ waiting \in Challenge /\ active \in Challenge /\ response \in Challenge
    /\ options \in Nat /\ configured \in Nat /\ vpnIp \in Nat
    /\ answered \in SUBSET Challenge /\ spent \in SUBSET Challenge

OpenVpnOK ==
    /\ ovpn \in {"hold", "connecting", "prompt", "challenged", "auth", "pushed",
                 "up", "exited"}
    /\ kept \in Commands /\ cred \in Commands
    /\ issued \in Challenge /\ accepted \in SUBSET Challenge
    /\ connection \in Nat /\ bare \in SUBSET Nat
    /\ breaks \in Nat /\ trouble \in BOOLEAN

BrowserOK == pages \in SUBSET Challenge /\ extra \in Nat

TypeOK ==
    /\ FlowOK /\ OpenVpnOK /\ BrowserOK
    /\ events \in Seq([kind : Lines, id : Nat])
    /\ cmds \in Seq(Commands)
    /\ backlog \in Seq(Requests)

Init ==
    /\ phase = "start"
    /\ waiting = 0 /\ active = 0 /\ response = 0 /\ options = 0
    /\ configured = 0 /\ vpnIp = 0
    /\ events = <<>> /\ cmds = <<>> /\ backlog = <<>>
    /\ ovpn = "hold" /\ kept = NoCred /\ cred = NoCred
    /\ issued = 0 /\ accepted = {} /\ connection = 0 /\ bare = {}
    /\ pages = {} /\ answered = {} /\ spent = {}
    /\ breaks = 0 /\ extra = 0 /\ trouble = FALSE

-----------------------------------------------------------------------------
(* The flow.                                                                *)

\* drive_saml_auth or monitor_reconnects returns.  After a failed login
\* connect() ends OpenVPN and drops the listener; a failed monitor only drops
\* the listener and the management connection.
Return ==
    /\ phase' = IF phase = "login" THEN "failed" ELSE "stopped"
    /\ ovpn' = IF phase = "login" THEN "exited" ELSE ovpn
    /\ waiting' = 0 /\ active' = 0 /\ response' = 0 /\ options' = 0
    /\ events' = <<>> /\ backlog' = <<>>
    /\ UNCHANGED <<session, cmds, kept, cred, server, browser, history, breaks>>

Send(c) == cmds' = Append(cmds, c)

StartFlow ==
    /\ phase = "start"
    /\ phase' = "login"
    /\ Send(Release)
    /\ UNCHANGED <<waiting, state, session, events, openvpn, server, browser,
                   backlog, history, breaks, trouble>>

\* The next management line, when the handler is not inside receive_once.
Reads(k) ==
    /\ Running /\ waiting = 0
    /\ events # <<>> /\ Head(events).kind = k

Handled == events' = Tail(events)

AnswerPrompt ==
    /\ Reads("prompt") /\ Handled
    /\ Send(IF active # 0 /\ response # 0 THEN Crv1(active, response) ELSE Acs)
    /\ UNCHANGED <<phase, waiting, state, session, openvpn, server, browser,
                   backlog, history, breaks, trouble>>

\* Mutant: every challenge is taken for a new one.
IsDuplicateNever(s) == FALSE

\* A challenge whose response was sent is reported again.
IsDuplicate(s) == active = s /\ response # 0

IgnoreDuplicate ==
    /\ Reads("challenge") /\ IsDuplicate(Head(events).id)
    /\ Handled
    /\ UNCHANGED <<phase, waiting, state, session, cmds, openvpn, server, browser,
                   backlog, history, breaks, trouble>>

OpenPage ==
    /\ Reads("challenge") /\ ~IsDuplicate(Head(events).id)
    /\ Handled
    /\ waiting' = Head(events).id
    /\ pages' = pages \cup {Head(events).id}
    /\ UNCHANGED <<phase, state, session, cmds, openvpn, server, extra, backlog,
                   history, breaks, trouble>>

BrowserFails ==
    /\ "browser_fails" \in Faults
    /\ Reads("challenge") /\ ~IsDuplicate(Head(events).id)
    /\ Return
    /\ trouble' = TRUE

-----------------------------------------------------------------------------
(* receive_once: one connection at a time, in the order they were made.     *)

Receives(k) ==
    /\ Running /\ waiting # 0
    /\ backlog # <<>> /\ Head(backlog).kind = k

\* Mutant: the response goes out under the state id stored before it.
SendResponseEarlierId ==
    Send(Crv1(IF active = 0 THEN waiting ELSE active, Head(backlog).id))
\* Mutant: the request itself is passed on.
SendResponseRaw == Send(Head(backlog))

SendResponse == Send(Crv1(waiting, Head(backlog).id))

ReceiveAssertion ==
    /\ Receives("post")
    /\ backlog' = Tail(backlog)
    /\ SendResponse
    /\ active' = waiting /\ response' = Head(backlog).id
    /\ waiting' = 0
    /\ answered' = answered \cup {waiting}
    /\ UNCHANGED <<phase, options, session, events, openvpn, server, browser,
                   spent, breaks, trouble>>

\* should_continue_after_error: not POST, or not /.
ContinueAfterGet ==
    /\ Receives("get")
    /\ backlog' = Tail(backlog)
    /\ UNCHANGED <<phase, waiting, state, session, events, cmds, openvpn, server,
                   browser, history, breaks, trouble>>

ReceiveFails ==
    /\ \/ Receives("bad")
       \/ Receives("post") /\ "browser_gone" \in Faults  \* write_response fails
       \/ Running /\ waiting # 0 /\ "saml_timeout" \in Faults
    /\ Return
    /\ trouble' = TRUE

-----------------------------------------------------------------------------
(* The rest of the handler, and the end of the management connection.       *)

\* Mutant: the monitor keeps the response after the login it was made for.
ForgetInLoginOnly ==
    IF phase = "login" THEN active' = 0 /\ response' = 0
                       ELSE UNCHANGED <<active, response>>

Forget == active' = 0 /\ response' = 0

\* Mutant: the monitor does not store the address of the new connection.
StoreAddressOnce == vpnIp' = IF phase = "login" THEN Head(events).id ELSE vpnIp

StoreAddress == vpnIp' = Head(events).id

\* In the login, drive_saml_auth returns the outcome and connect() starts the
\* monitor with a default state; the monitor only stores the new address.
HandleConnected ==
    /\ Reads("connected") /\ Handled
    /\ StoreAddress
    /\ Forget
    /\ spent' = answered
    /\ IF phase = "login"
       THEN phase' = "session" /\ configured' = options /\ options' = 0
       ELSE UNCHANGED <<phase, configured, options>>
    /\ UNCHANGED <<waiting, cmds, openvpn, server, browser, backlog, answered,
                   breaks, trouble>>

\* RECONNECTING for another reason than auth-failure is only reported.
HandleRestart ==
    /\ Reads("restart") /\ Handled
    /\ UNCHANGED <<phase, waiting, state, session, cmds, openvpn, server, browser,
                   backlog, history, breaks, trouble>>

\* Mutant: only a stored response justifies a reconnect.
MayReconnectAnswered == active # 0

MayReconnect == phase = "session" \/ active # 0

\* Mutant: the hold is left to be released by itself.
ReleaseHoldNot == UNCHANGED cmds

ReleaseHold == Send(Release)

HandleAuthFailure ==
    /\ Reads("auth-failure") /\ MayReconnect
    /\ Handled
    /\ ReleaseHold
    /\ UNCHANGED <<phase, waiting, state, session, openvpn, server, browser,
                   backlog, history, breaks, trouble>>

\* Mutant: the options of the first push reply are kept.
CaptureFirst == options' = IF options = 0 THEN Head(events).id ELSE options

\* A push reply without DNS servers and routes is None for parse_pushed_options,
\* and leaves what an earlier connection has pushed.
Capture == options' = IF Head(events).id = 0 THEN options ELSE Head(events).id

HandlePush ==
    /\ Reads("push") /\ Handled
    /\ Capture
    /\ UNCHANGED <<phase, waiting, active, response, session, cmds, openvpn,
                   server, browser, backlog, history, breaks, trouble>>

\* AUTH_FAILED, >FATAL, a line the parser refuses, an auth-failure nobody
\* expected; end of file and errors of a socket whose OpenVPN has exited.
HandleError ==
    /\ \/ \E k \in {"auth-failed", "fatal", "malformed"} : Reads(k)
       \/ Reads("auth-failure") /\ ~MayReconnect
       \/ Running /\ waiting = 0 /\ ovpn = "exited"
    /\ Return
    /\ UNCHANGED trouble

HandleEvent ==
    \/ AnswerPrompt \/ IgnoreDuplicate \/ OpenPage \/ BrowserFails
    \/ HandleConnected \/ HandleRestart \/ HandleAuthFailure \/ HandlePush
    \/ HandleError
ReceiveOnce == ReceiveAssertion \/ ContinueAfterGet \/ ReceiveFails

Flow == StartFlow \/ HandleEvent \/ ReceiveOnce

-----------------------------------------------------------------------------
(* OpenVPN and the server.  With --management-hold and --auth-nocache it    *)
(* holds after an auth-failure restart and asks for a credential in every   *)
(* new connection.                                                          *)

Emit(lines) == events' = IF Ended THEN events ELSE events \o lines

Goes(to) == ovpn' = to
World == <<phase, waiting, state, session, browser, backlog, history>>

TakeRelease ==
    /\ cmds # <<>> /\ Head(cmds) = Release
    /\ cmds' = Tail(cmds)
    /\ Goes(IF ovpn = "hold" THEN "connecting" ELSE ovpn)
    /\ UNCHANGED <<World, events, kept, cred, server, breaks, trouble>>

\* A credential is used when OpenVPN asked for one.  The response to a
\* challenge may make it reconnect first (the second test of saml/flow.rs
\* then continues without, the fourth with another prompt), or arrive when it
\* is already on its way there.  Any other credential is not needed.
TakeCredential ==
    /\ cmds # <<>> /\ Head(cmds) # Release
    /\ cmds' = Tail(cmds)
    /\ LET c == Head(cmds) IN
       \/ /\ ovpn \in {"prompt", "challenged"}
          /\ Goes("auth") /\ cred' = c
          /\ UNCHANGED <<kept, events>>
       \/ /\ ovpn = "challenged" /\ c = Crv1(issued, c.assertion)
          /\ kept' \in {NoCred, c}
          /\ Goes("hold") /\ Emit(<<Line("auth-failure", 0)>>)
          /\ UNCHANGED cred
       \/ /\ ovpn \in {"hold", "connecting"}
          /\ kept' \in IF c = Crv1(issued, c.assertion) THEN {kept, c} ELSE {kept}
          /\ UNCHANGED <<ovpn, cred, events>>
       \/ /\ ovpn \in {"auth", "pushed", "up", "exited"}
          /\ UNCHANGED <<ovpn, kept, cred, events>>
    /\ UNCHANGED <<World, server, breaks, trouble>>

Connect ==
    /\ ovpn = "connecting"
    /\ kept' = NoCred
    /\ IF kept = NoCred
       THEN Goes("prompt") /\ Emit(<<Line("prompt", 0)>>) /\ UNCHANGED cred
       ELSE Goes("auth") /\ cred' = kept /\ UNCHANGED events
    /\ UNCHANGED <<World, cmds, server, breaks, trouble>>

\* The server answers ACS::port with a challenge, which OpenVPN reports in a
\* PASSWORD line before it asks, or in a LOG line before it reconnects.
IssueChallenge ==
    /\ ovpn = "auth" /\ cred = Acs
    /\ issued' = issued + 1
    /\ LET c    == Line("challenge", issued + 1)
           told == IF "duplicate_challenge" \in Faults
                   THEN {<<c>>, <<c, c>>} ELSE {<<c>>}
       IN \E t \in told :
            \/ Emit(t) /\ Goes("challenged")
            \/ Emit(Append(t, Line("auth-failure", 0))) /\ Goes("hold")
    /\ UNCHANGED <<World, cmds, kept, cred, accepted, connection, bare, breaks, trouble>>

\* The response to the latest challenge is accepted, perhaps more than once.
AcceptResponse ==
    /\ ovpn = "auth" /\ cred = Crv1(issued, issued)
    /\ accepted' = accepted \cup {issued}
    /\ connection' = connection + 1
    /\ Goes("pushed")
    /\ \/ Emit(<<Line("push", connection')>>) /\ UNCHANGED bare
       \/ /\ "bare_push" \in Faults
          /\ Emit(<<Line("push", 0)>>)
          /\ bare' = bare \cup {connection'}
    /\ UNCHANGED <<World, cmds, kept, cred, issued, breaks, trouble>>

FinishConnect ==
    /\ ovpn = "pushed"
    /\ Goes("up")
    /\ Emit(<<Line("connected", connection)>>)
    /\ UNCHANGED <<World, cmds, kept, cred, server, breaks, trouble>>

\* Any other response is refused, and one that was accepted before may be.
RefuseLogin ==
    /\ ovpn = "auth" /\ cred # Acs
    /\ cred # Crv1(issued, issued) \/ issued \in accepted
    /\ \E to \in {"hold", "exited"} : Goes(to)
    /\ Emit(<<Line("auth-failed", 0), Line("auth-failure", 0)>>)
    /\ UNCHANGED <<World, cmds, kept, cred, server, breaks, trouble>>

\* The server refuses a login it could accept, if it answers ACS::port without
\* AUTH_FAILED; a challenge may be one the parser refuses.
RefuseAnyway ==
    /\ ovpn = "auth" /\ breaks < MaxBreaks
    /\ breaks' = breaks + 1
    /\ \/ "refused" \in Faults /\ Emit(<<Line("auth-failed", 0), Line("auth-failure", 0)>>)
       \/ "refused" \in Faults /\ cred = Acs /\ Emit(<<Line("auth-failure", 0)>>)
       \/ "malformed" \in Faults /\ cred = Acs /\ Emit(<<Line("malformed", 0)>>)
    /\ Goes("hold")
    /\ trouble' = TRUE
    /\ UNCHANGED <<World, cmds, kept, cred, server>>

\* The connection is lost, or the server demands a new login.
Break ==
    /\ breaks < MaxBreaks
    /\ breaks' = breaks + 1
    /\ \/ /\ ovpn = "up" /\ "restart" \in Faults
          /\ Goes("connecting") /\ Emit(<<Line("restart", 0)>>)
          /\ UNCHANGED trouble
       \/ /\ ovpn = "up" /\ "reauth" \in Faults
          /\ Goes("hold") /\ Emit(<<Line("auth-failure", 0)>>)
          /\ UNCHANGED trouble
       \/ /\ ovpn \in {"prompt", "challenged", "auth", "pushed"}
          /\ "restart_in_login" \in Faults
          /\ Goes("connecting") /\ Emit(<<Line("restart", 0)>>)
          /\ trouble' = TRUE
    /\ UNCHANGED <<World, cmds, kept, cred, server>>

OpenVpnExits ==
    /\ ovpn # "exited"
    /\ \/ "openvpn_fatal" \in Faults /\ Emit(<<Line("fatal", 0)>>)
       \/ "openvpn_exits" \in Faults /\ UNCHANGED events
    /\ Goes("exited")
    /\ trouble' = TRUE
    /\ UNCHANGED <<World, cmds, kept, cred, server, breaks>>

OpenVpn == TakeRelease \/ TakeCredential \/ Connect \/ IssueChallenge
           \/ AcceptResponse \/ FinishConnect \/ RefuseLogin

-----------------------------------------------------------------------------
(* The user and the browser.  The listener is bound until the flow returns. *)

Arrives(k, n) == backlog' = Append(backlog, [kind |-> k, id |-> n])
Rest == <<phase, waiting, state, session, events, cmds, openvpn, server, history,
          breaks>>

PostAssertion ==
    /\ ~Ended
    /\ \E s \in pages :
         /\ pages' = pages \ {s}
         /\ Arrives("post", s)
    /\ UNCHANGED <<Rest, extra, trouble>>

ExtraRequest ==
    /\ ~Ended /\ extra < MaxExtra
    /\ extra' = extra + 1
    /\ \/ /\ "get" \in Faults
          /\ Arrives("get", 0)
          /\ UNCHANGED trouble
       \/ /\ \E k \in {"bad", "silent"} \cap Faults : Arrives(k, 0)
          /\ trouble' = TRUE
       \/ /\ "resubmit" \in Faults
          /\ \E s \in (1..issued) \ pages : s \in answered /\ Arrives("post", s)
          /\ trouble' = TRUE
    /\ UNCHANGED <<Rest, pages>>

\* An idle connection is closed: the request ends before its headers.
SilentEnds ==
    /\ \E i \in 1..Len(backlog) :
         /\ backlog[i].kind = "silent"
         /\ backlog' = [backlog EXCEPT ![i].kind = "bad"]
    /\ UNCHANGED <<Rest, browser, trouble>>

Browser == PostAssertion \/ SilentEnds

Next == Flow \/ OpenVpn \/ Browser \/ RefuseAnyway \/ Break \/ OpenVpnExits
        \/ ExtraRequest

Spec == Init /\ [][Next]_vars

\* Tokio polls the flow; OpenVPN and the server go on; the user who has a
\* login page logs in, or auth_timeout passes (tokio::time::timeout).
Fairness ==
    /\ WF_vars(Flow)
    /\ WF_vars(OpenVpn)
    /\ WF_vars(Browser)
FairSpec == Spec /\ Fairness

-----------------------------------------------------------------------------
(* Properties.                                                              *)

\* Every SAML response on its way to the server answers the challenge it was
\* posted for: the listener, which stays bound from login to login, never
\* hands an assertion of an earlier login to a later one.
Credentials == {cmds[i] : i \in 1..Len(cmds)} \cup {kept, cred}
AssertionMatches ==
    /\ \A c \in Credentials : c.kind = "crv1" => c.assertion = c.id
    /\ active = response

\* Why the properties of the flow hold.  Challenges are reported in the order
\* they are made; those already answered are the active one, and no connection
\* was reported in between.
Told(i) == events[i].kind = "challenge"
AnswersOK ==
    /\ (active = 0) = (response = 0)
    /\ active # 0 => active \in answered
    /\ active \notin spent /\ spent \subseteq answered
    /\ 0 \notin answered /\ waiting <= issued
    /\ \A a \in answered : /\ a <= issued
                           /\ active # 0 => a <= active
                           /\ waiting # 0 => a < waiting
LinesOK ==
    /\ \A j \in 1..Len(events) : Told(j) =>
         LET s == events[j].id IN
         /\ 0 < s /\ s <= issued /\ waiting <= s
         /\ \A a \in answered : a <= s
         /\ s \in answered => s = active
    /\ \A i, j \in 1..Len(events) : i < j /\ Told(i) /\ Told(j) =>
         events[i].id <= events[j].id
    /\ \A i, j \in 1..Len(events) :
         i < j /\ events[i].kind = "connected" /\ Told(j) =>
           /\ waiting < events[j].id
           /\ events[j].id \notin answered
    /\ \A h, i, j \in 1..Len(events) :
         h < i /\ i < j /\ Told(h) /\ events[i].kind = "connected" /\ Told(j) =>
           events[h].id < events[j].id
PostsOK ==
    /\ 0 \notin pages /\ \A s \in pages : s <= issued
    /\ \A i \in 1..Len(backlog) :
         backlog[i].kind = "post" => 0 < backlog[i].id /\ backlog[i].id <= issued

\* The listener and the open pages hold one assertion at most, the one that
\* receive_once waits for (unless it is posted again).
ListenerOK ==
    ~Ended =>
      /\ pages \subseteq {waiting}
      /\ \A i \in 1..Len(backlog) : backlog[i].kind = "post" =>
           /\ backlog[i].id = waiting
           /\ pages = {}
           /\ \A j \in 1..Len(backlog) : backlog[j].kind = "post" => j = i

\* The reports of a connection arrive in its order, the push reply before the
\* Connected event, what they say is not older than what the flow stored, and
\* the newest is stored or still to be handled; for the options, the newest that
\* named any.
Said(k, j) == events[j].kind = k
Report(j)  == (Said("push", j) /\ events[j].id # 0) \/ Said("connected", j)
InOrder ==
    /\ vpnIp <= connection /\ options <= connection
    /\ \A j \in 1..Len(events) : Report(j) =>
         /\ vpnIp <= events[j].id /\ options <= events[j].id
         /\ events[j].id <= connection
    /\ \A i, j \in 1..Len(events) :
         i < j /\ Report(i) /\ Report(j) => events[i].id <= events[j].id
AddressComes ==
    ovpn = "up" => \/ vpnIp = connection
                   \/ \E j \in 1..Len(events) :
                        Said("connected", j) /\ events[j].id = connection
\* No connection after n, up to c, has named an option.
UpToDate(n, c) == n <= c /\ \A k \in (n + 1)..c : k \in bare
OptionsCome ==
    phase \in {"start", "login"} =>
      /\ \A j \in 1..Len(events) : Said("connected", j) =>
           \/ UpToDate(options, events[j].id)
           \/ \E i \in 1..Len(events) :
                i < j /\ Said("push", i) /\ UpToDate(events[i].id, events[j].id)
      /\ \/ UpToDate(options, connection)
         \/ \E i \in 1..Len(events) : Said("push", i) /\ UpToDate(events[i].id, connection)
NothingYet ==
    phase = "start" => /\ ovpn \in {"hold", "exited"} /\ cmds = <<>>
                       /\ \A j \in 1..Len(events) : Said("fatal", j)
AddressOK == ~Ended => InOrder /\ AddressComes /\ OptionsCome /\ NothingYet

\* Without trouble the flow and OpenVPN take turns.  The latest challenge is
\* open until it is answered; its response is the only one under way and was
\* not accepted before; a prompt or a hold waits for exactly one command.
Answer == Crv1(issued, issued)
Open   == issued # 0 /\ issued \notin answered
Usable == issued \in answered /\ issued \notin accepted

LinesCalm ==
    \A j \in 1..Len(events) :
      /\ events[j].kind \notin {"auth-failed", "fatal", "malformed"}
      /\ Told(j) => events[j].id = issued
      /\ Said("prompt", j) => j = Len(events) /\ ovpn = "prompt" /\ cmds = <<>>
      /\ Said("auth-failure", j) => j = Len(events) /\ ovpn = "hold"
LoginCalm ==
    phase = "login" =>
      /\ answered = {} \/ active # 0
      /\ ovpn = "up" => \E j \in 1..Len(events) : Said("connected", j)
      /\ (\E j \in 1..Len(events) : Said("auth-failure", j)) =>
           \/ active # 0 \/ waiting # 0
           \/ \E j \in 1..Len(events) : Told(j) \/ Said("connected", j)
FlowCalm ==
    /\ ~Ended
    /\ phase = "start" => waiting = 0 /\ answered = {}
    /\ \A i \in 1..Len(backlog) : backlog[i].kind \in {"post", "get"}
    /\ active \in {0, issued} /\ waiting \in {0, issued} /\ response = active
    /\ Open => /\ waiting # 0 \/ \E j \in 1..Len(events) : Told(j)
               /\ ovpn \in {"challenged", "hold"} /\ cmds = <<>> /\ kept = NoCred
    /\ issued \in accepted /\ active # 0 =>
         ovpn = "pushed" \/ \E j \in 1..Len(events) : Said("connected", j)
Sent == cmds = <<>> \/ (cmds = <<Answer>> /\ Usable)
CommandsCalm ==
    /\ accepted \subseteq answered
    /\ kept = NoCred \/ (kept = Answer /\ Usable /\ ovpn \in {"hold", "connecting"})
    /\ \/ ovpn \in {"connecting", "pushed", "up"} /\ cmds = <<>>
       \/ ovpn = "auth" /\ cmds = <<>> /\ ((cred = Acs /\ active = 0) \/ (cred = Answer /\ Usable))
       \/ ovpn = "prompt" /\ cmds = <<Acs>> /\ active = 0
       \/ ovpn \in {"prompt", "challenged"} /\ Sent
       \/ ovpn = "hold" /\ phase = "start" /\ cmds = <<>> /\ events = <<>>
       \/ ovpn = "hold" /\ events # <<>> /\ Said("auth-failure", Len(events)) /\ Sent
       \/ /\ ovpn = "hold" /\ events = <<>> /\ waiting = 0 /\ ~Open
          /\ cmds = <<Release>> \/ (cmds = <<Answer, Release>> /\ Usable)
Calm   == LinesCalm /\ LoginCalm /\ FlowCalm /\ CommandsCalm
TurnOK == ~trouble => Calm

IInv ==
    /\ AnswersOK /\ LinesOK /\ PostsOK
    /\ "resubmit" \notin Faults \/ ~trouble => ListenerOK
    /\ AddressOK
    /\ TurnOK

\* A login or a monitor only ends when something Harsh has happened:
\* duplicate challenges, other requests, lost connections and new logins do
\* not, whatever the order they come in.
CooperativeLoginHolds == Ended => trouble

\* While OpenVPN is connected and all its lines are handled, the address the
\* session reports is that of the current connection.
AddressIsCurrent ==
    phase = "session" /\ events = <<>> /\ ovpn = "up" => vpnIp = connection

\* DNS and routes are configured from the push reply of the connection the
\* login ended in, also when an earlier one was lost after its push reply.  Only
\* when that reply named no option, they are those of the last one that did.
ConfiguredFromConnection ==
    [][phase = "login" /\ phase' = "session" => UpToDate(configured, vpnIp)']_vars

\* The user is never asked to log in for a challenge that was answered,
\* however often OpenVPN reports it (flow.rs 93-99).
BrowserOncePerChallenge ==
    [][waiting' # waiting => waiting' \notin answered]_vars

\* Once the flow has seen the connection a response was made for, it never
\* sends that response again: a later prompt starts a new login.
ForgottenAfterConnect ==
    [][Len(cmds') > Len(cmds) =>
         LET c == cmds'[Len(cmds')] IN c.kind = "crv1" => c.id \notin spent]_vars

\* OpenVPN is not left waiting in a hold, at a prompt or in a challenge while
\* a flow is there to answer it.
NeverLeftWaiting ==
    ovpn \notin {"up", "exited"} ~> (ovpn \in {"up", "exited"} \/ Ended)
=============================================================================
