-------------------------- MODULE SamlLogin_proofs --------------------------
(***************************************************************************)
(* What a login leads to: the address and the options of the connection it *)
(* ended in, and that nothing but trouble ends it.  Proofs about SamlFlow, *)
(* for every set of faults and every bound.                                *)
(***************************************************************************)
EXTENDS SamlFlow_proofs

-----------------------------------------------------------------------------
(* The queue of management lines.                                           *)

\* The types of the numbers the lines carry and of what they are stored in.
LEMMA Numbers ==
    ASSUME TypeOK
    PROVE  /\ events \in Seq(LineSet) /\ Len(events) \in Nat
           /\ \A j \in 1..Len(events) : events[j].id \in Nat /\ events[j].kind \in Lines
           /\ vpnIp \in Nat /\ options \in Nat /\ connection \in Nat /\ issued \in Nat
           /\ answered \subseteq Nat /\ active \in Nat /\ waiting \in Nat
<1>1. events \in Seq(LineSet)
  BY DEF TypeOK, LineSet
<1>2. \A j \in 1..Len(events) : events[j] \in LineSet
  BY <1>1, ElementOfSeq
<1>3. QED
  BY <1>1, <1>2 DEF TypeOK, FlowOK, OpenVpnOK, Challenge, LineSet

\* The first line is taken, the others move up.
LEMMA Shift ==
    ASSUME TypeOK, events # <<>>, Handled
    PROVE  /\ Len(events) > 0 /\ Len(events') = Len(events) - 1
           /\ Head(events) = events[1]
           /\ \A j \in 1..Len(events') : /\ events'[j] = events[j + 1]
                                         /\ j + 1 \in 1..Len(events)
           /\ \A j \in 1..Len(events) : \/ j = 1
                                        \/ /\ j - 1 \in 1..Len(events')
                                           /\ events'[j - 1] = events[j]
<1>1. events \in Seq(LineSet) /\ Len(events) \in Nat
  BY Numbers
<1>2. Len(events) # 0
  BY <1>1, EmptySeq
<1>3. /\ Len(events') = Len(events) - 1 /\ Head(events) = events[1]
      /\ \A j \in 1..Len(events') : events'[j] = events[j + 1]
  BY <1>1, HeadTailProperties DEF Handled
<1>4. \A j \in 1..Len(events') : j + 1 \in 1..Len(events)
  BY <1>1, <1>2, <1>3
<1>5. ASSUME NEW j \in 1..Len(events), j # 1
      PROVE  j - 1 \in 1..Len(events') /\ events'[j - 1] = events[j]
  <2>1. j - 1 \in 1..Len(events') /\ (j - 1) + 1 = j
    BY <1>1, <1>2, <1>3, <1>5
  <2>2. QED
    BY <1>3, <2>1
<1>6. QED
  BY <1>1, <1>2, <1>3, <1>4, <1>5

\* New lines stand behind the old ones.
LEMMA Extend ==
    ASSUME TypeOK, ~Ended, NEW L \in Seq(LineSet), Emit(L)
    PROVE  /\ Len(events') = Len(events) + Len(L)
           /\ Len(events) \in Nat /\ Len(L) \in Nat
           /\ \A j \in 1..Len(events) : j \in 1..Len(events') /\ events'[j] = events[j]
           /\ \A k \in 1..Len(L) : /\ Len(events) + k \in 1..Len(events')
                                   /\ events'[Len(events) + k] = L[k]
           /\ \A j \in 1..Len(events') :
                \/ j \in 1..Len(events)
                \/ /\ j > Len(events) /\ j - Len(events) \in 1..Len(L)
                   /\ events'[j] = L[j - Len(events)]
<1>1. events \in Seq(LineSet) /\ Len(events) \in Nat /\ Len(L) \in Nat
  BY Numbers
<1>2. /\ Len(events') = Len(events) + Len(L)
      /\ \A j \in 1..(Len(events) + Len(L)) :
           events'[j] = IF j <= Len(events) THEN events[j] ELSE L[j - Len(events)]
  BY <1>1, ConcatProperties DEF Emit
<1>3. ASSUME NEW k \in 1..Len(L)
      PROVE  Len(events) + k \in 1..Len(events') /\ events'[Len(events) + k] = L[k]
  <2>1. /\ Len(events) + k \in 1..(Len(events) + Len(L))
        /\ ~(Len(events) + k <= Len(events)) /\ (Len(events) + k) - Len(events) = k
    BY <1>1, <1>3
  <2>2. QED
    BY <1>2, <2>1
<1>4. QED
  BY <1>1, <1>2, <1>3

-----------------------------------------------------------------------------
(* The address and the options.                                             *)

\* What was said in a line that stays is said one place earlier.
LEMMA ShiftSaid ==
    ASSUME TypeOK, events # <<>>, Handled
    PROVE  /\ \A j \in 1..Len(events') :
                /\ j + 1 \in 1..Len(events) /\ events'[j].id = events[j + 1].id
                /\ \A k : Said(k, j)' <=> Said(k, j + 1)
                /\ Report(j)' <=> Report(j + 1)
           /\ \A j \in 1..Len(events) : j > 1 =>
                /\ j - 1 \in 1..Len(events') /\ events'[j - 1].id = events[j].id
                /\ \A k : Said(k, j - 1)' <=> Said(k, j)
                /\ Report(j - 1)' <=> Report(j)
BY Shift DEF Said, Report

\* The reports that are left are still in order.
LEMMA OrderShifts ==
    ASSUME TypeOK, InOrder, events # <<>>, Handled, UNCHANGED connection,
           vpnIp' <= connection, options' <= connection,
           \A j \in 1..Len(events) : 1 < j /\ Report(j) =>
             vpnIp' <= events[j].id /\ options' <= events[j].id
    PROVE  InOrder'
<1>1. Len(events) \in Nat /\ Len(events') = Len(events) - 1
  BY Shift, Numbers
<1>2. ASSUME NEW j \in 1..Len(events'), Report(j)'
      PROVE  /\ vpnIp' <= events'[j].id /\ options' <= events'[j].id
             /\ events'[j].id <= connection'
  <2>1. /\ j + 1 \in 1..Len(events) /\ events'[j].id = events[j + 1].id
        /\ Report(j + 1) /\ 1 < j + 1
    BY <1>1, <1>2, ShiftSaid
  <2>2. QED
    BY <2>1 DEF InOrder
<1>3. ASSUME NEW i \in 1..Len(events'), NEW j \in 1..Len(events'), i < j,
             Report(i)', Report(j)'
      PROVE  events'[i].id <= events'[j].id
  <2>1. /\ i + 1 \in 1..Len(events) /\ events'[i].id = events[i + 1].id
        /\ j + 1 \in 1..Len(events) /\ events'[j].id = events[j + 1].id
        /\ Report(i + 1) /\ Report(j + 1) /\ i + 1 < j + 1
    BY <1>1, <1>3, ShiftSaid
  <2>2. QED
    BY <2>1 DEF InOrder
<1>4. QED
  BY <1>2, <1>3 DEF InOrder

\* Newer options are up to date if older ones are, ...
LEMMA Newer ==
    ASSUME NEW n \in Nat, NEW m \in Nat, NEW c \in Nat, n <= m, m <= c, UpToDate(n, c)
    PROVE  UpToDate(m, c)
BY DEF UpToDate

\* ... and stay so when no connection has come since that named any.
LEMMA StaysUpToDate ==
    ASSUME NEW n \in Nat, NEW c \in Nat, UpToDate(n, c), bare \subseteq bare'
    PROVE  UpToDate(n, c)'
BY DEF UpToDate

\* The options are those of the connection still to be reported.
LEMMA OptionsShift ==
    ASSUME TypeOK, events # <<>>, Handled, UNCHANGED <<phase, connection, bare>>,
           options' \in Nat,
           phase \in {"start", "login"} =>
             /\ \A j \in 1..Len(events) : 1 < j /\ Said("connected", j) =>
                  \/ UpToDate(options', events[j].id)
                  \/ \E i \in 1..Len(events) :
                       1 < i /\ i < j /\ Said("push", i) /\ UpToDate(events[i].id, events[j].id)
             /\ \/ UpToDate(options', connection)
                \/ \E i \in 1..Len(events) :
                     1 < i /\ Said("push", i) /\ UpToDate(events[i].id, connection)
    PROVE  OptionsCome'
<1>1. Len(events) \in Nat /\ \A n, c : UpToDate(n, c) => UpToDate(n, c)'
  BY Numbers DEF UpToDate
<1>2. ASSUME phase \in {"start", "login"}, NEW j \in 1..Len(events'), Said("connected", j)'
      PROVE  \/ UpToDate(options, events[j].id)'
             \/ \E i \in 1..Len(events') :
                  i < j /\ Said("push", i)' /\ UpToDate(events[i].id, events[j].id)'
  <2>1. /\ Said("connected", j + 1) /\ j + 1 \in 1..Len(events) /\ 1 < j + 1
        /\ events'[j].id = events[j + 1].id
    BY <1>2, ShiftSaid
  <2>2. ASSUME NEW i \in 1..Len(events), 1 < i, i < j + 1, Said("push", i),
               UpToDate(events[i].id, events[j + 1].id)
        PROVE  \E h \in 1..Len(events') :
                  h < j /\ Said("push", h)' /\ UpToDate(events[h].id, events[j].id)'
    <3>1. i - 1 \in 1..Len(events') /\ i - 1 < j
          /\ Said("push", i - 1)' /\ events'[i - 1].id = events[i].id
      BY <1>1, <2>2, ShiftSaid
    <3>2. UpToDate(events[i - 1].id, events[j].id)'
      BY <2>1, <2>2, <3>1 DEF UpToDate
    <3>3. QED
      BY <3>1, <3>2
  <2>3. CASE UpToDate(options', events[j + 1].id)
    BY <2>1, <2>3 DEF UpToDate
  <2>4. QED
    BY <1>2, <2>1, <2>2, <2>3
<1>3. ASSUME phase \in {"start", "login"}
      PROVE  \/ UpToDate(options, connection)'
             \/ \E i \in 1..Len(events') :
                  Said("push", i)' /\ UpToDate(events[i].id, connection)'
  <2>1. ASSUME NEW i \in 1..Len(events), 1 < i, Said("push", i),
               UpToDate(events[i].id, connection)
        PROVE  \E h \in 1..Len(events') :
                  Said("push", h)' /\ UpToDate(events[h].id, connection)'
    <3>1. i - 1 \in 1..Len(events') /\ Said("push", i - 1)' /\ events'[i - 1].id = events[i].id
      BY <1>1, <2>1, ShiftSaid
    <3>2. UpToDate(events[i - 1].id, connection)'
      BY <2>1, <3>1 DEF UpToDate
    <3>3. QED
      BY <3>1, <3>2
  <2>2. CASE UpToDate(options', connection)
    BY <2>2 DEF UpToDate
  <2>3. QED
    BY <1>3, <2>1, <2>2
<1>4. QED
  BY <1>2, <1>3 DEF OptionsCome

\* A line that is no report of a connection is handled.
LEMMA AddressShifts ==
    ASSUME TypeOK, AddressOK, ~Ended, events # <<>>, Handled, ~Report(1),
           Head(events).kind # "push",
           phase # "start", UNCHANGED <<phase, vpnIp, options, connection, bare, ovpn>>
    PROVE  AddressOK'
<1>1. InOrder'
  BY OrderShifts DEF AddressOK, InOrder
<1>2. Len(events) \in Nat /\ ~Said("push", 1) /\ ~Said("connected", 1)
  BY Numbers, Shift DEF Report, Said
<1>3. AddressComes'
  <2>1. CASE ovpn = "up" /\ vpnIp # connection
    <3>1. PICK j \in 1..Len(events) : Said("connected", j) /\ events[j].id = connection
      BY <2>1 DEF AddressOK, AddressComes
    <3>2. /\ j - 1 \in 1..Len(events') /\ Said("connected", j - 1)'
          /\ events'[j - 1].id = connection'
      BY <1>2, <3>1, ShiftSaid
    <3>3. QED
      BY <3>2 DEF AddressComes
  <2>2. QED
    BY <2>1 DEF AddressComes
<1>4. OptionsCome'
  <2>1. options' \in Nat /\ OptionsCome
    BY Numbers DEF AddressOK
  <2>2. \A j \in 1..Len(events) : Said("connected", j) \/ Said("push", j) => 1 < j
    BY <1>2
  <2>3. QED
    BY <2>1, <2>2, OptionsShift DEF OptionsCome
<1>5. QED
  BY <1>1, <1>3, <1>4 DEF AddressOK, NothingYet

\* The flow stores what a push reply says.
LEMMA AddressPushed ==
    ASSUME TypeOK, AddressOK, HandlePush
    PROVE  AddressOK'
<1>1. /\ ~Ended /\ events # <<>> /\ Handled /\ phase # "start"
      /\ options' = IF events[1].id = 0 THEN options ELSE events[1].id
      /\ Said("push", 1) /\ ~Said("connected", 1) /\ 1 \in 1..Len(events)
      /\ UNCHANGED <<phase, vpnIp, connection, bare, ovpn>>
  BY Shift, Numbers DEF HandlePush, Reads, Capture, Running, Ended, Said, openvpn, server, session
<1>2. /\ options <= options' /\ events[1].id <= options' /\ options' <= connection
      /\ \A j \in 1..Len(events) : 1 < j /\ Report(j) => options' <= events[j].id
      /\ options' \in Nat /\ connection \in Nat
  BY <1>1, Numbers DEF AddressOK, InOrder, Report
<1>3. InOrder'
  BY <1>1, <1>2, OrderShifts DEF AddressOK, InOrder
<1>4. AddressComes'
  <2>1. ASSUME ovpn = "up"
        PROVE  \/ vpnIp = connection
               \/ \E j \in 1..Len(events) :
                    1 < j /\ Said("connected", j) /\ events[j].id = connection
    BY <1>1, <2>1, Numbers DEF AddressOK, AddressComes
  <2>2. ASSUME NEW j \in 1..Len(events), 1 < j, Said("connected", j),
               events[j].id = connection
        PROVE  AddressComes'
    <3>1. /\ j - 1 \in 1..Len(events') /\ Said("connected", j - 1)'
          /\ events'[j - 1].id = connection'
      BY <1>1, <2>2, ShiftSaid
    <3>2. QED
      BY <3>1 DEF AddressComes
  <2>3. CASE vpnIp = connection
    BY <1>1, <2>3 DEF AddressComes
  <2>4. CASE ovpn # "up"
    BY <1>1, <2>4 DEF AddressComes
  <2>5. QED
    BY <2>1, <2>2, <2>3, <2>4
<1>5. OptionsCome'
  <2>1. ASSUME phase \in {"start", "login"}, NEW j \in 1..Len(events), Said("connected", j)
        PROVE  \/ UpToDate(options', events[j].id)
               \/ \E i \in 1..Len(events) :
                    1 < i /\ i < j /\ Said("push", i) /\ UpToDate(events[i].id, events[j].id)
    <3>1. 1 < j /\ options' <= events[j].id
      BY <1>1, <1>2, <2>1, Numbers DEF Report
    <3>2. \A n \in {options, events[1].id} :
            UpToDate(n, events[j].id) => UpToDate(options', events[j].id)
      BY <1>1, <1>2, <3>1, Numbers, Newer
    <3>3. \/ UpToDate(options, events[j].id)
          \/ \E i \in 1..Len(events) :
               i < j /\ Said("push", i) /\ UpToDate(events[i].id, events[j].id)
      BY <1>1, <2>1 DEF AddressOK, OptionsCome
    <3>4. QED
      BY <3>2, <3>3, Numbers
  <2>2. ASSUME phase \in {"start", "login"}
        PROVE  \/ UpToDate(options', connection)
               \/ \E i \in 1..Len(events) :
                    1 < i /\ Said("push", i) /\ UpToDate(events[i].id, connection)
    <3>1. \A n \in {options, events[1].id} :
            UpToDate(n, connection) => UpToDate(options', connection)
      BY <1>1, <1>2, Numbers, Newer
    <3>2. \/ UpToDate(options, connection)
          \/ \E i \in 1..Len(events) : Said("push", i) /\ UpToDate(events[i].id, connection)
      BY <1>1, <2>2 DEF AddressOK, OptionsCome
    <3>3. QED
      BY <3>1, <3>2, Numbers
  <2>3. QED
    BY <1>1, <1>2, <2>1, <2>2, OptionsShift
<1>6. QED
  BY <1>1, <1>3, <1>4, <1>5 DEF AddressOK, NothingYet

\* The flow takes the address of the connection reported, and in the login the
\* options.
LEMMA AddressConnected ==
    ASSUME TypeOK, AddressOK, HandleConnected
    PROVE  AddressOK'
<1>1. /\ ~Ended /\ events # <<>> /\ Handled /\ phase' = "session" /\ vpnIp' = events[1].id
      /\ Said("connected", 1) /\ 1 \in 1..Len(events) /\ options' \in {0, options}
      /\ UNCHANGED <<connection, ovpn>>
  BY Shift, Numbers DEF HandleConnected, Reads, StoreAddress, Running, Ended, Said,
     openvpn, server, session
<1>a. Report(1) /\ InOrder
  BY <1>1 DEF Report, AddressOK
<1>2. /\ vpnIp <= vpnIp' /\ vpnIp' <= connection /\ options' <= connection
      /\ \A j \in 1..Len(events) : 1 < j /\ Report(j) =>
           vpnIp' <= events[j].id /\ options' <= events[j].id
  <2>1. /\ vpnIp <= events[1].id /\ events[1].id <= connection /\ options <= connection
    BY <1>1, <1>a DEF InOrder
  <2>2. \A j \in 1..Len(events) : 1 < j /\ Report(j) =>
          events[1].id <= events[j].id /\ options <= events[j].id
    BY <1>1, <1>a DEF InOrder
  <2>3. options' <= options /\ options \in Nat /\ options' \in Nat /\ connection \in Nat
    BY <1>1, Numbers
  <2>4. QED
    BY <1>1, <2>1, <2>2, <2>3, Numbers
<1>3. InOrder'
  BY <1>1, <1>2, OrderShifts DEF AddressOK
<1>4. AddressComes'
  <2>1. ASSUME ovpn = "up"
        PROVE  \/ vpnIp' = connection
               \/ \E j \in 1..Len(events) :
                    1 < j /\ Said("connected", j) /\ events[j].id = connection
    BY <1>1, <1>2, <2>1, Numbers DEF AddressOK, AddressComes
  <2>2. ASSUME NEW j \in 1..Len(events), 1 < j, Said("connected", j),
               events[j].id = connection
        PROVE  AddressComes'
    <3>1. /\ j - 1 \in 1..Len(events') /\ Said("connected", j - 1)'
          /\ events'[j - 1].id = connection'
      BY <1>1, <2>2, ShiftSaid
    <3>2. QED
      BY <3>1 DEF AddressComes
  <2>3. CASE vpnIp' = connection
    BY <1>1, <2>3 DEF AddressComes
  <2>4. CASE ovpn # "up"
    BY <1>1, <2>4 DEF AddressComes
  <2>5. QED
    BY <2>1, <2>2, <2>3, <2>4
<1>5. QED
  BY <1>1, <1>3, <1>4 DEF AddressOK, OptionsCome, NothingYet

\* What was said stays in its place, and new lines stand behind it.
LEMMA ExtendSaid ==
    ASSUME TypeOK, ~Ended, NEW L \in Seq(LineSet), Emit(L)
    PROVE  /\ \A j \in 1..Len(events) :
                /\ j \in 1..Len(events') /\ events'[j].id = events[j].id
                /\ \A k : Said(k, j)' <=> Said(k, j)
                /\ Report(j)' <=> Report(j)
           /\ \A j \in 1..Len(events') :
                \/ j \in 1..Len(events)
                \/ \E k \in 1..Len(L) : j = Len(events) + k /\ events'[j] = L[k]
<1>1. \A j \in 1..Len(events') :
        \/ j \in 1..Len(events)
        \/ \E k \in 1..Len(L) : j = Len(events) + k /\ events'[j] = L[k]
  BY Extend
<1>2. QED
  BY <1>1, Extend DEF Said, Report

\* OpenVPN reports something else than a connection.
LEMMA AddressExtends ==
    ASSUME TypeOK, AddressOK, ~Ended, NEW L \in Seq(LineSet), Emit(L),
           \A k \in 1..Len(L) : L[k].kind \notin {"push", "connected"},
           UNCHANGED <<phase, vpnIp, options, connection, bare>>,
           ovpn' \notin {"up", "pushed"}, NothingYet'
    PROVE  AddressOK'
<1>1. ASSUME NEW j \in 1..Len(events'), Report(j)'
      PROVE  j \in 1..Len(events) /\ Report(j)
  <2>1. ASSUME NEW k \in 1..Len(L), events'[j] = L[k]
        PROVE  FALSE
    BY <1>1, <2>1 DEF Report, Said
  <2>2. j \in 1..Len(events)
    BY <2>1, ExtendSaid
  <2>3. QED
    BY <1>1, <2>2, ExtendSaid
<1>2. ASSUME NEW j \in 1..Len(events'), Said("connected", j)'
      PROVE  j \in 1..Len(events) /\ Said("connected", j)
  <2>1. Report(j)'
    BY <1>2 DEF Report
  <2>2. j \in 1..Len(events)
    BY <1>1, <2>1
  <2>3. QED
    BY <1>2, <2>2, ExtendSaid
<1>3. InOrder'
  BY <1>1, ExtendSaid DEF AddressOK, InOrder
<1>4. AddressComes'
  BY DEF AddressComes
<1>5. OptionsCome'
  <2>1. ASSUME phase \in {"start", "login"}, NEW j \in 1..Len(events'), Said("connected", j)'
        PROVE  \/ UpToDate(options, events[j].id)'
               \/ \E i \in 1..Len(events') :
                    i < j /\ Said("push", i)' /\ UpToDate(events[i].id, events[j].id)'
    <3>1. /\ j \in 1..Len(events) /\ Said("connected", j) /\ events'[j].id = events[j].id
      BY <1>2, <2>1, ExtendSaid
    <3>2. \/ UpToDate(options, events[j].id)
          \/ \E i \in 1..Len(events) :
               i < j /\ Said("push", i) /\ UpToDate(events[i].id, events[j].id)
      BY <2>1, <3>1 DEF AddressOK, OptionsCome
    <3>3. CASE UpToDate(options, events[j].id)
      BY <3>1, <3>3 DEF UpToDate
    <3>4. ASSUME NEW i \in 1..Len(events), i < j, Said("push", i),
                 UpToDate(events[i].id, events[j].id)
          PROVE  i \in 1..Len(events') /\ Said("push", i)' /\ UpToDate(events[i].id, events[j].id)'
      <4>1. i \in 1..Len(events') /\ Said("push", i)' /\ events'[i].id = events[i].id
        BY <3>4, ExtendSaid
      <4>2. QED
        BY <3>1, <3>4, <4>1 DEF UpToDate
    <3>5. QED
      BY <3>2, <3>3, <3>4
  <2>2. ASSUME phase \in {"start", "login"}
        PROVE  \/ UpToDate(options, connection)'
               \/ \E i \in 1..Len(events') :
                    Said("push", i)' /\ UpToDate(events[i].id, connection)'
    <3>1. \/ UpToDate(options, connection)
          \/ \E i \in 1..Len(events) : Said("push", i) /\ UpToDate(events[i].id, connection)
      BY <2>2 DEF AddressOK, OptionsCome
    <3>2. CASE UpToDate(options, connection)
      BY <3>2 DEF UpToDate
    <3>3. ASSUME NEW i \in 1..Len(events), Said("push", i), UpToDate(events[i].id, connection)
          PROVE  i \in 1..Len(events') /\ Said("push", i)' /\ UpToDate(events[i].id, connection)'
      <4>1. i \in 1..Len(events') /\ Said("push", i)' /\ events'[i].id = events[i].id
        BY <3>3, ExtendSaid
      <4>2. QED
        BY <3>3, <4>1 DEF UpToDate
    <3>4. QED
      BY <3>1, <3>2, <3>3
  <2>3. QED
    BY <2>1, <2>2 DEF OptionsCome
<1>6. QED
  BY <1>3, <1>4, <1>5 DEF AddressOK

\* A step that handles and reports nothing.
LEMMA AddressKept ==
    ASSUME AddressOK, ~Ended,
           UNCHANGED <<phase, vpnIp, options, connection, bare, events>>,
           ovpn' = ovpn \/ ovpn' \notin {"up", "pushed"}, NothingYet'
    PROVE  AddressOK'
<1>1. InOrder'
  BY DEF AddressOK, InOrder, Report, Said
<1>2. AddressComes' /\ OptionsCome'
  BY DEF AddressOK, AddressComes, OptionsCome, UpToDate, Said
<1>3. QED
  BY <1>1, <1>2 DEF AddressOK

\* One line is reported.
LEMMA Appended ==
    ASSUME TypeOK, ~Ended, NEW k \in Lines, NEW n \in Nat, Emit(<<Line(k, n)>>)
    PROVE  /\ Len(events) \in Nat /\ Len(events') = Len(events) + 1
           /\ events'[Len(events) + 1].kind = k /\ events'[Len(events) + 1].id = n
           /\ Len(events) + 1 \in 1..Len(events')
           /\ \A j \in 1..Len(events) : j \in 1..Len(events') /\ events'[j] = events[j]
           /\ \A j \in 1..Len(events') : j \in 1..Len(events) \/ j = Len(events) + 1
<1>1. <<Line(k, n)>> \in Seq(LineSet) /\ Len(<<Line(k, n)>>) = 1
      /\ Line(k, n).kind = k /\ Line(k, n).id = n
  BY LineTyped DEF Line
<1>2. /\ Len(events) \in Nat /\ Len(events') = Len(events) + 1
      /\ events'[Len(events) + 1] = Line(k, n)
      /\ \A j \in 1..Len(events) : events'[j] = events[j]
  <2>1. events \in Seq(LineSet) /\ Len(events) \in Nat /\ events' = events \o <<Line(k, n)>>
    BY Numbers DEF Emit
  <2>2. QED
    BY <1>1, <2>1, ConcatProperties
<1>3. QED
  BY <1>1, <1>2

\* The newest report stands last.
LEMMA OrderExtends ==
    ASSUME TypeOK, InOrder, ~Ended, NEW k \in {"push", "connected"}, NEW n \in Nat,
           connection' \in Nat, connection <= connection',
           n = connection' \/ (k = "push" /\ n = 0),
           Emit(<<Line(k, n)>>), UNCHANGED <<vpnIp, options>>
    PROVE  InOrder'
<1> DEFINE N == Len(events)
<1>a. /\ N \in Nat /\ Len(events') = N + 1
      /\ events'[N + 1].kind = k /\ events'[N + 1].id = n
      /\ \A j \in 1..N : events'[j] = events[j]
      /\ \A j \in 1..Len(events') : j \in 1..N \/ j = N + 1
  BY Appended DEF Lines
<1>b. ASSUME NEW j \in 1..Len(events'), Report(j)', j = N + 1
      PROVE  events'[j].id = connection'
  BY <1>a, <1>b DEF Report, Said
<1>c. \A j \in 1..N : Report(j)' <=> Report(j)
  BY <1>a DEF Report, Said
<1>1. /\ N \in Nat /\ Len(events') = N + 1
      /\ \A j \in 1..Len(events') : Report(j)' /\ j = N + 1 => events'[j].id = connection'
      /\ \A j \in 1..N : events'[j].id = events[j].id /\ (Report(j)' <=> Report(j))
      /\ \A j \in 1..Len(events') : j \in 1..N \/ j = N + 1
  BY <1>a, <1>b, <1>c
<1>2. ASSUME NEW j \in 1..Len(events'), Report(j)'
      PROVE  /\ vpnIp' <= events'[j].id /\ options' <= events'[j].id
             /\ events'[j].id <= connection'
  <2>1. CASE j \in 1..N
    BY <1>1, <1>2, <2>1, Numbers DEF InOrder
  <2>2. CASE j = N + 1
    BY <1>1, <1>2, <2>2, Numbers DEF InOrder
  <2>3. QED
    BY <1>1, <2>1, <2>2
<1>3. ASSUME NEW i \in 1..Len(events'), NEW j \in 1..Len(events'), i < j,
             Report(i)', Report(j)'
      PROVE  events'[i].id <= events'[j].id
  <2>1. i \in 1..N
    BY <1>1, <1>3
  <2>2. CASE j \in 1..N
    BY <1>1, <1>3, <2>1, <2>2 DEF InOrder
  <2>3. CASE j = N + 1
    BY <1>1, <1>2, <1>3, <2>1, <2>3
  <2>4. QED
    BY <1>1, <2>2, <2>3
<1>4. vpnIp' <= connection' /\ options' <= connection'
  BY Numbers DEF InOrder
<1>5. QED
  BY <1>2, <1>3, <1>4 DEF InOrder

\* A connection is announced by its push reply.
LEMMA AddressAccepted ==
    ASSUME TypeOK, AddressOK, AcceptResponse, ~Ended
    PROVE  AddressOK'
<1>1. /\ connection \in Nat /\ connection' = connection + 1 /\ ovpn' = "pushed"
      /\ UNCHANGED <<phase, vpnIp, options, cmds>> /\ phase # "start"
  BY Numbers DEF AcceptResponse, AddressOK, NothingYet, Goes, World, state, session
<1>a. PICK n \in {0, connection'} :
        /\ Emit(<<Line("push", n)>>) /\ bare \subseteq bare'
        /\ n = connection' \/ connection' \in bare'
  BY DEF AcceptResponse
<1>2. InOrder'
  BY <1>1, <1>a, OrderExtends DEF AddressOK
<1>3. OptionsCome'
  <2>1. /\ Len(events) + 1 \in 1..Len(events')
        /\ events'[Len(events) + 1].kind = "push"
        /\ events'[Len(events) + 1].id = n
        /\ \A j \in 1..Len(events) : /\ j \in 1..Len(events')
                                     /\ events'[j].id = events[j].id
                                     /\ Said("push", j)' <=> Said("push", j)
                                     /\ Said("connected", j)' <=> Said("connected", j)
        /\ \A j \in 1..Len(events') : Said("connected", j)' => j \in 1..Len(events)
    BY <1>1, <1>a, Appended DEF Lines, Said
  <2>2. \A m, c \in Nat : UpToDate(m, c) => UpToDate(m, c)'
    BY <1>a, StaysUpToDate
  <2>3. ASSUME phase \in {"start", "login"}
        PROVE  \/ UpToDate(options, connection)'
               \/ \E i \in 1..Len(events') :
                    Said("push", i)' /\ UpToDate(events[i].id, connection)'
    <3>1. CASE n = connection'
      <4>1. PICK p \in 1..Len(events') :
              events'[p].kind = "push" /\ events'[p].id = connection'
        BY <2>1, <3>1
      <4>2. Said("push", p)' /\ UpToDate(events[p].id, connection)'
        BY <1>1, <4>1 DEF UpToDate, Said
      <4>3. QED
        BY <4>1, <4>2
    <3>2. CASE connection' \in bare'
      <4>1. ASSUME NEW m \in Nat, UpToDate(m, connection)
            PROVE  m <= connection' /\ \A k \in (m + 1)..connection' : k \in bare'
        BY <1>1, <1>a, <3>2, <4>1 DEF UpToDate
      <4>2. \/ UpToDate(options, connection)
            \/ \E i \in 1..Len(events) : Said("push", i) /\ UpToDate(events[i].id, connection)
        BY <1>1, <2>3 DEF AddressOK, OptionsCome
      <4>3. CASE UpToDate(options, connection)
        BY <1>1, <4>1, <4>3, Numbers DEF UpToDate
      <4>4. ASSUME NEW i \in 1..Len(events), Said("push", i), UpToDate(events[i].id, connection)
            PROVE  i \in 1..Len(events') /\ Said("push", i)' /\ UpToDate(events[i].id, connection)'
        BY <2>1, <4>1, <4>4, Numbers DEF UpToDate
      <4>5. QED
        BY <4>2, <4>3, <4>4
    <3>3. QED
      BY <1>a, <3>1, <3>2
  <2>4. ASSUME phase \in {"start", "login"}, NEW j \in 1..Len(events'), Said("connected", j)'
        PROVE  \/ UpToDate(options, events[j].id)'
               \/ \E i \in 1..Len(events') :
                    i < j /\ Said("push", i)' /\ UpToDate(events[i].id, events[j].id)'
    <3>1. /\ j \in 1..Len(events) /\ Said("connected", j) /\ events'[j].id = events[j].id
          /\ events[j].id \in Nat
      BY <2>1, <2>4, Numbers
    <3>2. \/ UpToDate(options, events[j].id)
          \/ \E i \in 1..Len(events) :
               i < j /\ Said("push", i) /\ UpToDate(events[i].id, events[j].id)
      BY <1>1, <2>4, <3>1 DEF AddressOK, OptionsCome
    <3>3. CASE UpToDate(options, events[j].id)
      BY <1>1, <1>a, <3>1, <3>3 DEF UpToDate
    <3>4. ASSUME NEW i \in 1..Len(events), i < j, Said("push", i),
                 UpToDate(events[i].id, events[j].id)
          PROVE  i \in 1..Len(events') /\ Said("push", i)' /\ UpToDate(events[i].id, events[j].id)'
      BY <1>a, <2>1, <3>1, <3>4 DEF UpToDate
    <3>5. QED
      BY <3>2, <3>3, <3>4
  <2>5. QED
    BY <1>1, <2>3, <2>4 DEF OptionsCome
<1>4. QED
  BY <1>1, <1>2, <1>3 DEF AddressOK, AddressComes, NothingYet

\* ... and by a Connected event behind it.
LEMMA AddressUp ==
    ASSUME TypeOK, AddressOK, FinishConnect, ~Ended
    PROVE  AddressOK'
<1>1. /\ UNCHANGED <<connection, bare>> /\ connection \in Nat /\ ovpn = "pushed" /\ ovpn' = "up"
      /\ UNCHANGED <<phase, vpnIp, options, cmds>> /\ phase # "start"
      /\ Emit(<<Line("connected", connection')>>)
  BY Numbers DEF FinishConnect, AddressOK, NothingYet, Goes, World, state, session, server
<1>2. InOrder'
  BY <1>1, OrderExtends DEF AddressOK
<1>3. /\ Len(events) \in Nat /\ Len(events) + 1 \in 1..Len(events')
      /\ events'[Len(events) + 1].kind = "connected"
      /\ events'[Len(events) + 1].id = connection'
      /\ \A j \in 1..Len(events) : /\ j \in 1..Len(events')
                                   /\ events'[j].id = events[j].id
                                   /\ Said("push", j)' <=> Said("push", j)
                                   /\ Said("connected", j)' <=> Said("connected", j)
      /\ \A j \in 1..Len(events') : j \in 1..Len(events) \/ j = Len(events) + 1
  BY <1>1, Appended DEF Lines, Said
<1>4. AddressComes'
  BY <1>3 DEF AddressComes, Said
<1>5. OptionsCome'
  <2>1. \A n, c : UpToDate(n, c)' <=> UpToDate(n, c)
    BY <1>1 DEF UpToDate
  <2>2. ASSUME phase \in {"start", "login"}
        PROVE  \/ UpToDate(options, connection)
               \/ \E i \in 1..Len(events) : Said("push", i) /\ UpToDate(events[i].id, connection)
    BY <1>1, <2>2 DEF AddressOK, OptionsCome
  <2>3. ASSUME phase \in {"start", "login"}, NEW j \in 1..Len(events'), Said("connected", j)'
        PROVE  \/ UpToDate(options, events[j].id)'
               \/ \E i \in 1..Len(events') :
                    i < j /\ Said("push", i)' /\ UpToDate(events[i].id, events[j].id)'
    <3>1. CASE j \in 1..Len(events)
      <4>1. \/ UpToDate(options, events[j].id)
            \/ \E i \in 1..Len(events) :
                 i < j /\ Said("push", i) /\ UpToDate(events[i].id, events[j].id)
        BY <1>1, <1>3, <2>3, <3>1 DEF AddressOK, OptionsCome
      <4>2. QED
        BY <1>1, <1>3, <3>1, <4>1 DEF UpToDate
    <3>2. CASE j = Len(events) + 1
      BY <1>1, <1>3, <2>2, <2>3, <3>2 DEF UpToDate
    <3>3. QED
      BY <1>3, <2>3, <3>1, <3>2
  <2>4. ASSUME phase \in {"start", "login"}
        PROVE  \/ UpToDate(options, connection)'
               \/ \E i \in 1..Len(events') :
                    Said("push", i)' /\ UpToDate(events[i].id, connection)'
    BY <1>1, <1>3, <2>2, <2>4 DEF UpToDate
  <2>5. QED
    BY <1>1, <2>3, <2>4 DEF OptionsCome
<1>6. QED
  BY <1>1, <1>2, <1>4, <1>5 DEF AddressOK, NothingYet

\* A challenge is told once or twice, and a reconnect follows if OpenVPN holds.
Telling(L) ==
    /\ L \in Seq(LineSet) /\ Len(L) > 0 /\ L[1].kind = "challenge"
    /\ \A k \in 1..Len(L) :
         \/ L[k].kind = "challenge" /\ L[k].id = issued'
         \/ k = Len(L) /\ L[k].kind = "auth-failure" /\ ovpn' = "hold"
    /\ \/ ovpn' = "hold" /\ L[Len(L)].kind = "auth-failure"
       \/ ovpn' = "challenged"

\* What OpenVPN reports of a new challenge.
LEMMA ChallengeTold ==
    ASSUME TypeOK, IssueChallenge
    PROVE  /\ issued' = issued + 1
           /\ \E L : Telling(L) /\ Emit(L)
<1> DEFINE c == Line("challenge", issued + 1)
           a == Line("auth-failure", 0)
           Fits(L) == /\ L \in Seq(LineSet) /\ Len(L) \in Nat \ {0}
                      /\ \A k \in 1..Len(L) : L[k] = c
<1>1. issued \in Nat /\ issued' = issued + 1
  BY Numbers DEF IssueChallenge
<1>2. /\ c \in LineSet /\ c.kind = "challenge" /\ c.id = issued'
      /\ a \in LineSet /\ a.kind = "auth-failure"
  BY <1>1 DEF Line, LineSet, Lines
<1>3. PICK t \in {<<c>>, <<c, c>>} : \/ Emit(t) /\ ovpn' = "challenged"
                                     \/ Emit(Append(t, a)) /\ ovpn' = "hold"
  BY DEF IssueChallenge, Goes
<1> HIDE DEF c, a
<1>4. Fits(t)
  <2>1. Fits(<<c>>) /\ Fits(<<c, c>>)
    BY <1>2
  <2>2. QED
    BY <1>3, <2>1
<1>5. CASE Emit(t) /\ ovpn' = "challenged"
  <2>1. Telling(t)
    BY <1>2, <1>4, <1>5 DEF Telling
  <2>2. QED
    BY <1>1, <1>5, <2>1
<1>6. CASE Emit(Append(t, a)) /\ ovpn' = "hold"
  <2>1. /\ Append(t, a) \in Seq(LineSet) /\ Len(Append(t, a)) = Len(t) + 1
        /\ \A k \in 1..Len(t) : Append(t, a)[k] = t[k]
        /\ Append(t, a)[Len(t) + 1] = a
    BY <1>2, <1>4, AppendProperties
  <2>2. Telling(Append(t, a))
    BY <1>2, <1>4, <1>6, <2>1 DEF Telling
  <2>3. QED
    BY <1>1, <1>6, <2>2
<1>7. QED
  BY <1>3, <1>5, <1>6

\* The lines that say nothing of a new connection.
LEMMA OtherLines ==
    ASSUME TypeOK, events' # events,
           \/ TakeRelease \/ TakeCredential \/ Connect \/ IssueChallenge \/ RefuseLogin
           \/ RefuseAnyway \/ Break \/ OpenVpnExits
    PROVE  \E L \in Seq(LineSet) :
              /\ Emit(L)
              /\ \A k \in 1..Len(L) : L[k].kind \notin {"push", "connected"}
<1> DEFINE Other == Lines \ {"push", "connected"}
           Fits(L) == L \in Seq(LineSet) /\ \A k \in 1..Len(L) : L[k].kind \in Other
<1>1. \A k \in Other, n \in Nat : Line(k, n) \in LineSet /\ Line(k, n).kind \in Other
  BY DEF Line, LineSet
<1>2. \A k \in Other, n \in Nat : Fits(<<Line(k, n)>>)
  BY <1>1
<1>3. \A k, l \in Other, n, m \in Nat : Fits(<<Line(k, n), Line(l, m)>>)
  BY <1>1
<1>4. Other = {"prompt", "challenge", "restart", "auth-failure", "auth-failed", "fatal",
               "malformed"}
  BY DEF Lines
<1>5. CASE IssueChallenge
  <2>1. PICK L : Telling(L) /\ Emit(L)
    BY <1>5, ChallengeTold
  <2>2. L \in Seq(LineSet) /\ \A k \in 1..Len(L) : L[k].kind \notin {"push", "connected"}
    BY <2>1 DEF Telling
  <2>3. QED
    BY <2>1, <2>2
<1>6. CASE \/ TakeRelease \/ TakeCredential \/ Connect \/ RefuseLogin \/ RefuseAnyway
           \/ Break \/ OpenVpnExits
  <2>1. \/ \E k \in Other, n \in Nat : Emit(<<Line(k, n)>>)
        \/ \E k, l \in Other, n, m \in Nat : Emit(<<Line(k, n), Line(l, m)>>)
    <3>1. CASE TakeRelease \/ TakeCredential \/ Connect
      BY <1>4, <3>1 DEF TakeRelease, TakeCredential, Connect
    <3>2. CASE RefuseLogin \/ RefuseAnyway \/ Break \/ OpenVpnExits
      BY <1>4, <3>2 DEF RefuseLogin, RefuseAnyway, Break, OpenVpnExits
    <3>3. QED
      BY <1>6, <3>1, <3>2
  <2> HIDE DEF Other
  <2>2. \E L : Fits(L) /\ Emit(L)
    BY <1>2, <1>3, <2>1
  <2>3. QED
    BY <2>2 DEF Other
<1>7. QED
  BY <1>5, <1>6

\* What the stored address and options have to do with the reports on their way
\* is kept by every step, whatever goes wrong.
LEMMA AddressInductive ==
    ASSUME TypeOK, AddressOK, [Next]_vars
    PROVE  AddressOK'
<1>1. CASE Ended'
  BY <1>1 DEF AddressOK
<1>2. CASE Return
  BY <1>1, <1>2 DEF Return, Ended
<1>3. CASE StartFlow
  <2>1. /\ ~Ended /\ phase = "start" /\ phase' = "login"
        /\ UNCHANGED <<vpnIp, options, connection, bare, events, ovpn>>
    BY <1>3 DEF StartFlow, Ended, state, session, server, openvpn
  <2>2. /\ InOrder /\ ovpn \notin {"up", "pushed"}
        /\ \A j \in 1..Len(events) : Said("fatal", j)
    BY <2>1 DEF AddressOK, NothingYet
  <2>3. InOrder'
    BY <2>1, <2>2 DEF InOrder, Report, Said
  <2>4. OptionsCome'
    BY <2>1 DEF AddressOK, OptionsCome, UpToDate, Said
  <2>5. QED
    BY <2>1, <2>2, <2>3, <2>4 DEF AddressOK, AddressComes, NothingYet
<1>4. CASE AnswerPrompt \/ IgnoreDuplicate \/ OpenPage \/ HandleRestart \/ HandleAuthFailure
  <2>1. /\ ~Ended /\ phase # "start" /\ events # <<>> /\ Handled
        /\ Head(events).kind \notin {"push", "connected"}
        /\ UNCHANGED <<phase, vpnIp, options, connection, bare, ovpn>>
    BY <1>4 DEF AnswerPrompt, IgnoreDuplicate, OpenPage, HandleRestart, HandleAuthFailure,
       Reads, Running, Ended, state, session, server, openvpn
  <2>2. ~Report(1)
    BY <2>1, Shift DEF Report, Said
  <2>3. QED
    BY <2>1, <2>2, AddressShifts
<1>5. CASE HandlePush \/ HandleConnected
  BY <1>5, AddressPushed, AddressConnected
<1>6. CASE ReceiveAssertion \/ ContinueAfterGet
  <2>1. /\ ~Ended /\ phase # "start"
        /\ UNCHANGED <<phase, vpnIp, options, connection, bare, events, ovpn>>
    BY <1>6 DEF ReceiveAssertion, ContinueAfterGet, Receives, Running, Ended, state,
       session, server, openvpn
  <2>2. QED
    BY <2>1, AddressKept DEF NothingYet
<1>7. CASE ~Ended /\ (OpenVpn \/ RefuseAnyway \/ Break \/ OpenVpnExits)
  <2>1. UNCHANGED <<phase, vpnIp, options>>
    BY <1>7 DEF OpenVpn, TakeRelease, TakeCredential, Connect, IssueChallenge,
       AcceptResponse, FinishConnect, RefuseLogin, RefuseAnyway, Break, OpenVpnExits,
       World, state, session
  <2>2. CASE AcceptResponse \/ FinishConnect
    BY <1>7, <2>2, AddressAccepted, AddressUp
  <2>3. CASE \/ TakeRelease \/ TakeCredential \/ Connect \/ IssueChallenge \/ RefuseLogin
             \/ RefuseAnyway \/ Break \/ OpenVpnExits
    <3>1. UNCHANGED <<connection, bare>>
      BY <2>3 DEF TakeRelease, TakeCredential, Connect, IssueChallenge, RefuseLogin,
         RefuseAnyway, Break, OpenVpnExits, server
    <3>2. NothingYet'
      <4>1. CASE phase # "start"
        BY <2>1, <4>1 DEF NothingYet
      <4>2. CASE phase = "start"
        <5>1. ovpn \in {"hold", "exited"} /\ cmds = <<>>
              /\ \A j \in 1..Len(events) : events[j].kind = "fatal"
          BY <1>7, <4>2 DEF AddressOK, NothingYet, Said
        <5>2. /\ ovpn' = "exited" /\ cmds' = cmds
              /\ Emit(<<Line("fatal", 0)>>) \/ events' = events
          BY <2>3, <5>1 DEF TakeRelease, TakeCredential, Connect, IssueChallenge,
             RefuseLogin, RefuseAnyway, Break, OpenVpnExits, Goes
        <5>3. \A j \in 1..Len(events') : events'[j].kind = "fatal"
          BY <1>7, <5>1, <5>2, Appended DEF Lines
        <5>4. QED
          BY <5>1, <5>2, <5>3 DEF NothingYet, Said
      <4>3. QED
        BY <4>1, <4>2
    <3>3. CASE events' = events
      <4>1. ovpn' = ovpn \/ ovpn' \notin {"up", "pushed"}
        BY <2>3 DEF TakeRelease, TakeCredential, Connect, IssueChallenge, RefuseLogin,
           RefuseAnyway, Break, OpenVpnExits, Goes
      <4>2. QED
        BY <1>7, <2>1, <3>1, <3>2, <3>3, <4>1, AddressKept
    <3>4. CASE events' # events
      <4>1. ovpn' \notin {"up", "pushed"}
        BY <2>3, <3>4 DEF TakeRelease, TakeCredential, Connect, IssueChallenge,
           RefuseLogin, RefuseAnyway, Break, OpenVpnExits, Goes
      <4>2. QED
        BY <1>7, <2>1, <2>3, <3>1, <3>2, <3>4, <4>1, OtherLines, AddressExtends
    <3>5. QED
      BY <3>3, <3>4
  <2>4. QED
    BY <1>7, <2>2, <2>3 DEF OpenVpn
<1>8. CASE ~Ended /\ (Browser \/ ExtraRequest \/ UNCHANGED vars)
  <2>1. UNCHANGED <<phase, vpnIp, options, connection, bare, events, ovpn, cmds>>
    BY <1>8 DEF Browser, PostAssertion, SilentEnds, ExtraRequest, Rest, vars, state,
       session, server, openvpn
  <2>2. NothingYet'
    BY <1>8, <2>1 DEF AddressOK, NothingYet, Said
  <2>3. QED
    BY <1>8, <2>1, <2>2, AddressKept
<1>9. QED
  <2>1. CASE Flow
    BY <1>2, <1>3, <1>4, <1>5, <1>6, <2>1 DEF Flow, HandleEvent, BrowserFails,
       HandleError, ReceiveOnce, ReceiveFails
  <2>2. CASE ~Flow /\ Ended
    BY <1>1, <2>2 DEF Ended, vars, Next, OpenVpn, TakeRelease, TakeCredential, Connect,
       IssueChallenge, AcceptResponse, FinishConnect, RefuseLogin, RefuseAnyway, Break,
       OpenVpnExits, World, Browser, PostAssertion, SilentEnds, ExtraRequest, Rest
  <2>3. QED
    BY <1>7, <1>8, <2>1, <2>2 DEF Next

\* So address and options are always in order.
LEMMA AddressHolds == Spec => []AddressOK
<1>1. Init => AddressOK
  <2> SUFFICES ASSUME Init PROVE AddressOK
    OBVIOUS
  <2>1. Len(events) = 0
    BY DEF Init
  <2>2. QED
    BY <2>1 DEF Init, AddressOK, InOrder, AddressComes, OptionsCome, UpToDate, NothingYet
<1>2. QED
  BY <1>1, AddressInductive, TypeCorrect, PTL DEF Spec

\* While OpenVPN is connected and its lines are handled, the session's address
\* is that of the connection it has, however many were lost and made anew, and
\* whatever else failed (client.rs, monitor_reconnects).
THEOREM AddressStaysCurrent == Spec => []AddressIsCurrent
<1>1. TypeOK /\ AddressOK => AddressIsCurrent
  <2> SUFFICES ASSUME AddressOK, phase = "session", events = <<>>, ovpn = "up"
               PROVE  vpnIp = connection
    BY DEF AddressIsCurrent
  <2>1. Len(events) = 0 /\ ~Ended
    BY DEF Ended
  <2>2. QED
    BY <2>1 DEF AddressOK, AddressComes
<1>2. QED
  BY <1>1, AddressHolds, TypeCorrect, PTL

\* The login hands over the options of the connection whose address it stores,
\* not those of one that was lost after its push reply; if that connection named
\* none, those of the latest connection that did.
THEOREM OptionsAreOfConnection == Spec => ConfiguredFromConnection
<1>1. ASSUME TypeOK, AddressOK, [Next]_vars
      PROVE  [phase = "login" /\ phase' = "session" => UpToDate(configured, vpnIp)']_vars
  <2> SUFFICES ASSUME phase = "login", phase' = "session"
               PROVE  UpToDate(configured, vpnIp)'
    OBVIOUS
  <2>1. HandleConnected
    BY <1>1 DEF vars, Next, Flow, StartFlow, HandleEvent, AnswerPrompt,
       IgnoreDuplicate, OpenPage, BrowserFails, HandleRestart, HandleAuthFailure,
       HandlePush, HandleError, ReceiveOnce, ReceiveAssertion, ContinueAfterGet,
       ReceiveFails, Return, OpenVpn, TakeRelease, TakeCredential, Connect,
       IssueChallenge, AcceptResponse, FinishConnect, RefuseLogin, RefuseAnyway,
       Break, OpenVpnExits, World, Browser, PostAssertion, SilentEnds, ExtraRequest,
       Rest
  <2>2. /\ ~Ended /\ 1 \in 1..Len(events) /\ Said("connected", 1)
        /\ vpnIp' = events[1].id /\ configured' = options /\ bare' = bare
    BY <1>1, <2>1, Shift, Numbers DEF HandleConnected, Reads, StoreAddress, Said, Ended,
       server
  <2>3. UpToDate(options, events[1].id)
    BY <1>1, <2>2 DEF AddressOK, OptionsCome
  <2>4. QED
    BY <2>2, <2>3 DEF UpToDate
<1>2. QED
  BY <1>1, AddressHolds, TypeCorrect, PTL DEF Spec, ConfiguredFromConnection

-----------------------------------------------------------------------------
(* A login without trouble: the flow and OpenVPN take turns.                *)

\* A challenge the flow waits for is the latest, and open.
LEMMA CalmAwaits ==
    ASSUME OrderOK, FlowCalm, waiting # 0
    PROVE  waiting = issued /\ Open
BY Numbers DEF OrderOK, AnswersOK, FlowCalm, Open

\* The response under way answers a challenge that is no longer open.
LEMMA CalmAnswer ==
    ASSUME OrderOK
    PROVE  /\ Usable => issued # 0 /\ ~Open
           /\ Answer \in Commands /\ Release \in Commands /\ Acs \in Commands
           /\ Answer.kind = "crv1" /\ Answer # Release /\ Answer # Acs /\ Answer # NoCred
           /\ Acs # Release
<1>1. /\ Answer \in Commands /\ Release \in Commands /\ Acs \in Commands
      /\ Answer.kind = "crv1" /\ Release.kind = "release" /\ Acs.kind = "acs"
      /\ NoCred.kind = "none"
  BY Numbers DEF OrderOK, Answer, Crv1, Release, Acs, NoCred, Commands
<1>2. Usable => issued # 0 /\ ~Open
  BY DEF OrderOK, AnswersOK, Usable, Open
<1>3. QED
  BY <1>1, <1>2

\* The queues of commands that occur.
LEMMA Pair ==
    ASSUME NEW x \in Commands, NEW y \in Commands
    PROVE  /\ Append(<<>>, x) = <<x>> /\ Append(<<x>>, y) = <<x, y>>
           /\ <<x>> # <<>> /\ <<x, y>> # <<>> /\ Head(<<x>>) = x /\ Head(<<x, y>>) = x
           /\ Tail(<<x>>) = <<>> /\ Tail(<<x, y>>) = <<y>>
<1> DEFINE s == Append(<<x>>, y)
           t == <<x, y>>
<1>1. s \in Seq(Commands) /\ t \in Seq(Commands) /\ Len(s) = 2 /\ Len(t) = 2
  BY AppendProperties
<1>2. s[1] = t[1] /\ s[2] = t[2]
  BY AppendProperties
<1>3. \A i \in 1..Len(s) : s[i] = t[i]
  <2>1. \A i \in 1..2 : i = 1 \/ i = 2
    OBVIOUS
  <2> HIDE DEF s, t
  <2>2. QED
    BY <1>1, <1>2, <2>1
<1>4. s = t
  <2> HIDE DEF s, t
  <2>1. QED
    BY <1>1, <1>3, SeqEqual
<1>5. QED
  BY <1>4

\* A line that is neither a prompt nor the end of a connection is handled.
LEMMA CalmShifts ==
    ASSUME OrderOK, Calm, events # <<>>, Handled,
           ~Said("prompt", 1), ~Said("auth-failure", 1),
           UNCHANGED <<issued, accepted, answered, ovpn, cmds, kept, cred>>,
           active' \in {0, active}, phase' # "start"
    PROVE  LinesCalm' /\ CommandsCalm'
<1>1. TypeOK /\ Len(events) \in Nat
  BY Numbers DEF OrderOK
<1>2. Len(events) > 0 /\ Len(events') = Len(events) - 1
  BY <1>1, Shift
<1>3. LinesCalm'
  BY <1>1, <1>2, Shift DEF Calm, LinesCalm, Told, Said
<1>4. ASSUME Said("auth-failure", Len(events))
      PROVE  events' # <<>> /\ Said("auth-failure", Len(events))'
  <2>1. Len(events) # 1
    BY <1>4
  <2>2. /\ Len(events) - 1 \in 1..Len(events') /\ (Len(events) - 1) + 1 = Len(events)
    BY <1>1, <1>2, <2>1
  <2>3. events'[Len(events')].kind = "auth-failure"
    BY <1>1, <1>2, <1>4, <2>2, Shift DEF Said
  <2>4. QED
    BY <1>2, <2>2, <2>3 DEF Said
<1>5. CommandsCalm'
  BY <1>4 DEF Calm, CommandsCalm, Answer, Usable, Sent
<1>6. QED
  BY <1>3, <1>5

\* What another line said is still said.
LEMMA Remains ==
    ASSUME TypeOK, events # <<>>, Handled, NEW k, ~Said(k, 1),
           \E j \in 1..Len(events) : Said(k, j)
    PROVE  \E i \in 1..Len(events') : Said(k, i)'
<1>1. PICK j \in 1..Len(events) : Said(k, j)
  OBVIOUS
<1>2. j # 1
  BY <1>1
<1>3. j - 1 \in 1..Len(events') /\ events'[j - 1] = events[j]
  BY <1>2, Shift
<1>4. QED
  BY <1>1, <1>3 DEF Said

\* A page is opened for the latest challenge.
LEMMA CalmPage ==
    ASSUME OrderOK, Calm, OpenPage
    PROVE  Calm'
<1>1. /\ events # <<>> /\ Handled /\ Running /\ Told(1) /\ waiting' = events[1].id
      /\ events[1].kind = "challenge"
      /\ UNCHANGED <<phase, active, response, cmds, ovpn, kept, cred, issued, accepted,
                     answered, backlog>>
  BY Shift DEF OrderOK, OpenPage, Reads, Told, state, openvpn, server, history
<1>2. TypeOK /\ 1 \in 1..Len(events)
  BY <1>1, Shift, Numbers DEF OrderOK
<1>3. waiting' = issued /\ issued # 0
  BY <1>1, <1>2, Numbers DEF OrderOK, LinesOK, Calm, LinesCalm
<1>4. LinesCalm' /\ CommandsCalm'
  BY <1>1, CalmShifts DEF Said, Running
<1>5. LoginCalm'
  BY <1>1, <1>2, <1>3, Remains DEF Calm, LoginCalm, Said
<1>6. FlowCalm'
  <2>1. (\E j \in 1..Len(events) : Said("connected", j)) =>
          (\E j \in 1..Len(events') : Said("connected", j)')
    BY <1>1, <1>2, Remains DEF Said
  <2>2. QED
    BY <1>1, <1>3, <2>1 DEF Calm, FlowCalm, Ended, Running, Open
<1>7. QED
  BY <1>4, <1>5, <1>6 DEF Calm

\* A challenge that was answered is told again.
LEMMA CalmDuplicate ==
    ASSUME OrderOK, Calm, IgnoreDuplicate
    PROVE  Calm'
<1>1. /\ events # <<>> /\ Handled /\ Running /\ Told(1) /\ active = events[1].id
      /\ events[1].kind = "challenge" /\ response # 0
      /\ UNCHANGED <<phase, waiting, active, response, cmds, ovpn, kept, cred, issued,
                     accepted, answered, backlog>>
  BY Shift DEF OrderOK, IgnoreDuplicate, IsDuplicate, Reads, Told, state, openvpn, server,
     history
<1>2. TypeOK /\ 1 \in 1..Len(events)
  BY <1>1, Shift, Numbers DEF OrderOK
<1>3. active = issued /\ active # 0 /\ active \in answered /\ ~Open
  BY <1>1, <1>2, Numbers DEF OrderOK, LinesOK, AnswersOK, Calm, LinesCalm, Open
<1>4. LinesCalm' /\ CommandsCalm'
  BY <1>1, CalmShifts DEF Said, Running
<1>5. LoginCalm'
  BY <1>1, <1>2, <1>3, Remains DEF Calm, LoginCalm, Said
<1>6. FlowCalm'
  <2>1. (\E j \in 1..Len(events) : Said("connected", j)) =>
          (\E j \in 1..Len(events') : Said("connected", j)')
    BY <1>1, <1>2, Remains DEF Said
  <2>2. ~Open'
    BY <1>1, <1>3 DEF Open
  <2>3. QED
    BY <1>1, <2>1, <2>2 DEF Calm, FlowCalm, Ended
<1>7. QED
  BY <1>4, <1>5, <1>6 DEF Calm

\* A restart or a push reply.
LEMMA CalmReport ==
    ASSUME OrderOK, Calm, HandleRestart \/ HandlePush
    PROVE  Calm'
<1>1. /\ events # <<>> /\ Handled /\ Running /\ events[1].kind \in {"restart", "push"}
      /\ UNCHANGED <<phase, waiting, active, response, cmds, ovpn, kept, cred, issued,
                     accepted, answered, backlog>>
  BY Shift DEF OrderOK, HandleRestart, HandlePush, Reads, state, openvpn, server, history
<1>2. TypeOK
  BY DEF OrderOK
<1>3. LinesCalm' /\ CommandsCalm'
  BY <1>1, CalmShifts DEF Said, Running
<1>4. /\ (\E j \in 1..Len(events) : Said("connected", j)) =>
           (\E j \in 1..Len(events') : Said("connected", j)')
      /\ (\E j \in 1..Len(events) : Told(j)) => (\E j \in 1..Len(events') : Told(j)')
  BY <1>1, <1>2, Remains DEF Said, Told
<1>5. LoginCalm'
  <2>1. (\E j \in 1..Len(events') : Said("auth-failure", j)') =>
          \E j \in 1..Len(events) : Said("auth-failure", j)
    BY <1>1, <1>2, Shift DEF Said
  <2>2. QED
    BY <1>1, <1>4, <2>1 DEF Calm, LoginCalm
<1>6. FlowCalm'
  BY <1>1, <1>4 DEF Calm, FlowCalm, Ended, Open
<1>7. QED
  BY <1>3, <1>5, <1>6 DEF Calm

\* The connection is there, and the response it was made with is forgotten.
LEMMA CalmConnected ==
    ASSUME OrderOK, Calm, HandleConnected
    PROVE  Calm'
<1>1. /\ events # <<>> /\ Handled /\ Running /\ events[1].kind = "connected"
      /\ phase' = "session" /\ active' = 0 /\ response' = 0
      /\ UNCHANGED <<waiting, cmds, ovpn, kept, cred, issued, accepted, answered, backlog>>
  BY Shift DEF OrderOK, HandleConnected, Forget, Reads, openvpn, server, Running
<1>2. TypeOK
  BY DEF OrderOK
<1>3. LinesCalm' /\ CommandsCalm'
  BY <1>1, CalmShifts DEF Said
<1>4. (\E j \in 1..Len(events) : Told(j)) => (\E j \in 1..Len(events') : Told(j)')
  BY <1>1, <1>2, Remains DEF Said, Told
<1>5. FlowCalm' /\ LoginCalm'
  BY <1>1, <1>4 DEF Calm, FlowCalm, LoginCalm, Ended, Open
<1>6. QED
  BY <1>3, <1>5 DEF Calm

\* The prompt is the last line, and its answer the only command.
LEMMA CalmPrompt ==
    ASSUME OrderOK, Calm, AnswerPrompt
    PROVE  Calm'
<1>1. /\ events # <<>> /\ Handled /\ Running /\ waiting = 0 /\ events[1].kind = "prompt"
      /\ Send(IF active # 0 /\ response # 0 THEN Crv1(active, response) ELSE Acs)
      /\ UNCHANGED <<phase, waiting, active, response, ovpn, kept, cred, issued,
                     accepted, answered, backlog>>
  BY Shift DEF OrderOK, AnswerPrompt, Reads, state, openvpn, server, history
<1>2. TypeOK /\ Len(events) \in Nat /\ 1 \in 1..Len(events)
  BY <1>1, Shift, Numbers DEF OrderOK
<1>3. /\ Len(events) = 1 /\ Len(events') = 0 /\ ovpn = "prompt" /\ cmds = <<>>
  BY <1>1, <1>2, Shift DEF Calm, LinesCalm, Said
<1>4. LinesCalm'
  BY <1>3 DEF LinesCalm
<1>5. ~Open
  BY <1>3 DEF Calm, FlowCalm
<1>6. active # 0 => active = issued /\ response = issued /\ Usable
  <2>1. ~\E j \in 1..Len(events) : Said("connected", j)
    BY <1>1, <1>3 DEF Said
  <2>2. QED
    BY <1>3, <2>1 DEF Calm, FlowCalm, OrderOK, AnswersOK, Usable
<1>7. CASE active # 0
  <2>1. cmds' = <<Answer>>
    BY <1>1, <1>3, <1>6, <1>7, Pair, CalmAnswer DEF Send, Answer
  <2>2. CommandsCalm'
    BY <1>1, <1>3, <1>6, <1>7, <2>1 DEF Calm, CommandsCalm, Sent, Answer, Usable
  <2>3. QED
    BY <2>2, <1>1, <1>3, <1>4, <1>5, <1>6, <1>7
    DEF Calm, LoginCalm, FlowCalm, Ended, Open, Usable
<1>8. CASE active = 0
  <2>1. cmds' = <<Acs>>
    BY <1>1, <1>3, <1>8, Pair, CalmAnswer DEF Send
  <2>2. CommandsCalm'
    BY <1>1, <1>3, <1>8, <2>1 DEF Calm, CommandsCalm, Answer, Usable
  <2>3. QED
    BY <2>2, <1>1, <1>3, <1>4, <1>5, <1>8
    DEF Calm, LoginCalm, FlowCalm, Ended, Open
<1>9. QED
  BY <1>7, <1>8

\* The hold is released after the last line, when no challenge is open.
LEMMA CalmHold ==
    ASSUME OrderOK, Calm, HandleAuthFailure
    PROVE  Calm'
<1>1. /\ events # <<>> /\ Handled /\ Running /\ waiting = 0
      /\ events[1].kind = "auth-failure" /\ Send(Release)
      /\ UNCHANGED <<phase, waiting, active, response, ovpn, kept, cred, issued,
                     accepted, answered, backlog>>
  BY Shift DEF OrderOK, HandleAuthFailure, ReleaseHold, Reads, state, openvpn, server,
     history
<1>2. TypeOK /\ Len(events) \in Nat /\ 1 \in 1..Len(events)
  BY <1>1, Shift, Numbers DEF OrderOK
<1>3. Len(events) = 1 /\ Len(events') = 0 /\ ovpn = "hold"
  BY <1>1, <1>2, Shift DEF Calm, LinesCalm, Said
<1>4. events' = <<>>
  BY <1>1, <1>2, <1>3, HeadTailProperties, EmptySeq DEF Handled, TypeOK
<1>5. LinesCalm'
  BY <1>3 DEF LinesCalm
<1>6. ~Open /\ ~\E j \in 1..Len(events) : Said("connected", j)
  BY <1>1, <1>3 DEF Calm, FlowCalm, Said, Told
<1>7. cmds = <<>> \/ (cmds = <<Answer>> /\ Usable)
  BY <1>1, <1>3 DEF Calm, CommandsCalm, Sent
<1>8. cmds' = <<Release>> \/ (cmds' = <<Answer, Release>> /\ Usable)
  BY <1>1, <1>7, Pair, CalmAnswer DEF Send
<1>9. CommandsCalm'
  BY <1>1, <1>3, <1>4, <1>6, <1>8
  DEF Calm, CommandsCalm, Answer, Usable, Open
<1>10. LoginCalm' /\ FlowCalm'
  BY <1>1, <1>3, <1>6 DEF Calm, LoginCalm, FlowCalm, Ended, Open, Said
<1>11. QED
  BY <1>5, <1>9, <1>10 DEF Calm

\* An open challenge is answered, by the assertion that was posted for it.
LEMMA CalmAnswered ==
    ASSUME OrderOK, ListenerOK, Calm, ReceiveAssertion
    PROVE  Calm'
<1>1. /\ Running /\ waiting # 0 /\ backlog # <<>> /\ Head(backlog).kind = "post"
      /\ Send(Crv1(waiting, Head(backlog).id)) /\ active' = waiting
      /\ response' = Head(backlog).id /\ waiting' = 0
      /\ answered' = answered \cup {waiting} /\ backlog' = Tail(backlog)
      /\ UNCHANGED <<phase, events, ovpn, kept, cred, issued, accepted>>
  BY DEF ReceiveAssertion, Receives, SendResponse, openvpn, server
<1>2. waiting = issued /\ Open
  BY <1>1, CalmAwaits DEF Calm
<1>3. Head(backlog).id = waiting
  <2>1. 1 \in 1..Len(backlog) /\ Head(backlog) = backlog[1]
    BY <1>1, HeadTailProperties, EmptySeq DEF OrderOK, TypeOK
  <2>2. QED
    BY <1>1, <2>1 DEF ListenerOK, Running, Ended
<1>4. ovpn \in {"challenged", "hold"} /\ cmds = <<>> /\ kept = NoCred
  BY <1>2 DEF Calm, FlowCalm
<1>5. cmds' = <<Answer>>
  BY <1>1, <1>2, <1>3, <1>4, Pair, CalmAnswer DEF Send, Answer
<1>6. issued \notin accepted /\ Usable' /\ ~Open'
  BY <1>1, <1>2 DEF Calm, CommandsCalm, Open, Usable
<1>7. LinesCalm'
  BY <1>1, <1>4 DEF Calm, LinesCalm, Told, Said
<1>8. CommandsCalm'
  BY <1>1, <1>2, <1>4, <1>5, <1>6 DEF Calm, CommandsCalm, Sent, Answer, Said, Running
<1>9. \A i \in 1..Len(backlog') : backlog'[i].kind \in {"post", "get"}
  BY <1>1, HeadTailProperties, EmptySeq DEF OrderOK, TypeOK, Calm, FlowCalm
<1>10. FlowCalm'
  BY <1>1, <1>2, <1>3, <1>6, <1>9 DEF Calm, FlowCalm, Ended, Running
<1>11. LoginCalm'
  BY <1>1 DEF Calm, LoginCalm, Said
<1>12. QED
  BY <1>7, <1>8, <1>10, <1>11 DEF Calm

\* The login starts by releasing the hold.
LEMMA CalmStart ==
    ASSUME OrderOK, AddressOK, Calm, StartFlow
    PROVE  Calm'
<1>1. /\ phase = "start" /\ phase' = "login" /\ Send(Release)
      /\ UNCHANGED <<waiting, active, response, events, ovpn, kept, cred, issued,
                     accepted, answered, backlog>>
  BY DEF StartFlow, state, openvpn, server, history
<1>2. /\ ovpn \in {"hold", "exited"} /\ cmds = <<>> /\ waiting = 0 /\ answered = {}
      /\ \A j \in 1..Len(events) : Said("fatal", j)
  BY <1>1 DEF AddressOK, NothingYet, Calm, FlowCalm, Ended
<1>3. ~\E j \in 1..Len(events) : TRUE
  BY <1>2 DEF Calm, LinesCalm, Said
<1>4. ovpn = "hold"
  BY <1>2 DEF Calm, CommandsCalm
<1>5. events = <<>>
  BY <1>3, Numbers, EmptySeq DEF OrderOK
<1>6. ~Open
  BY <1>2, <1>3 DEF Calm, FlowCalm
<1>7. cmds' = <<Release>>
  BY <1>1, <1>2, Pair, CalmAnswer DEF Send
<1>8. LinesCalm' /\ LoginCalm'
  BY <1>1, <1>2, <1>3, <1>4 DEF LinesCalm, LoginCalm
<1>9. FlowCalm' /\ CommandsCalm'
  BY <1>1, <1>2, <1>3, <1>4, <1>5, <1>6, <1>7
  DEF Calm, FlowCalm, CommandsCalm, Ended, Open, Answer, Usable
<1>10. QED
  BY <1>8, <1>9 DEF Calm

\* OpenVPN takes the release of its hold.
LEMMA CalmReleased ==
    ASSUME OrderOK, Calm, TakeRelease
    PROVE  Calm'
<1>1. /\ cmds # <<>> /\ Head(cmds) = Release /\ cmds' = Tail(cmds)
      /\ ovpn' = IF ovpn = "hold" THEN "connecting" ELSE ovpn
      /\ UNCHANGED <<phase, waiting, active, response, events, kept, cred, issued,
                     accepted, answered, backlog>>
  BY DEF TakeRelease, Goes, World, state, server, history
<1>2. /\ cmds = <<Release>> /\ ovpn = "hold" /\ events = <<>> /\ ~Open
  BY <1>1, Pair, CalmAnswer DEF Calm, CommandsCalm, Sent
<1>3. cmds' = <<>> /\ ovpn' = "connecting"
  BY <1>1, <1>2, Pair, CalmAnswer
<1>4. CommandsCalm'
  BY <1>1, <1>2, <1>3 DEF Calm, CommandsCalm, Answer, Usable
<1>5. LinesCalm' /\ LoginCalm' /\ FlowCalm'
  BY <1>1, <1>2, <1>3 DEF Calm, LinesCalm, LoginCalm, FlowCalm, Ended, Open, Said
<1>6. QED
  BY <1>4, <1>5 DEF Calm

\* OpenVPN takes the credential it asked for, the response to its challenge, or
\* one it keeps for when it is asked.
LEMMA CalmTaken ==
    ASSUME OrderOK, Calm, TakeCredential
    PROVE  Calm'
<1>1. /\ cmds # <<>> /\ Head(cmds) # Release /\ cmds' = Tail(cmds)
      /\ UNCHANGED <<phase, waiting, active, response, issued, accepted, answered,
                     backlog>>
      /\ TypeOK /\ ~Ended
  BY DEF TakeCredential, World, state, server, history, OrderOK, Calm, FlowCalm
<1>2. \/ ovpn = "prompt" /\ cmds = <<Acs>> /\ active = 0
      \/ ovpn \in {"prompt", "challenged"} /\ cmds = <<Answer>> /\ Usable
      \/ /\ ovpn = "hold" /\ events # <<>> /\ Said("auth-failure", Len(events))
         /\ cmds = <<Answer>> /\ Usable
      \/ /\ ovpn = "hold" /\ events = <<>> /\ waiting = 0 /\ ~Open
         /\ cmds = <<Answer, Release>> /\ Usable
  BY <1>1, Pair, CalmAnswer DEF Calm, CommandsCalm, Sent
<1>3. ~Open /\ cmds # <<>>
  BY <1>1 DEF Calm, FlowCalm
<1>4. CASE ovpn = "hold"
  <2>1. /\ Head(cmds) = Answer /\ Usable
        /\ \/ /\ events # <<>> /\ Said("auth-failure", Len(events)) /\ cmds' = <<>>
           \/ events = <<>> /\ waiting = 0 /\ cmds' = <<Release>>
    <3>1. /\ Head(<<Answer>>) = Answer /\ Tail(<<Answer>>) = <<>>
          /\ Head(<<Answer, Release>>) = Answer /\ Tail(<<Answer, Release>>) = <<Release>>
      BY Pair, CalmAnswer
    <3>2. \/ /\ events # <<>> /\ Said("auth-failure", Len(events))
             /\ cmds = <<Answer>> /\ Usable
          \/ events = <<>> /\ waiting = 0 /\ cmds = <<Answer, Release>> /\ Usable
      BY <1>2, <1>4
    <3>3. QED
      BY <1>1, <3>1, <3>2
  <2>2. UNCHANGED <<ovpn, cred, events>> /\ kept' \in {kept, Answer}
    BY <1>4, <2>1 DEF TakeCredential
  <2>3. kept' = NoCred \/ (kept' = Answer' /\ Usable')
    BY <1>1, <2>1, <2>2 DEF Calm, CommandsCalm, Answer, Usable
  <2>4. CommandsCalm'
    <3>1. CASE events # <<>>
      BY <1>1, <1>4, <2>1, <2>2, <2>3, <3>1 DEF Calm, CommandsCalm, Sent, Said
    <3>2. CASE events = <<>>
      BY <1>1, <1>3, <1>4, <2>1, <2>2, <2>3, <3>2 DEF Calm, CommandsCalm, Open
    <3>3. QED
      BY <3>1, <3>2
  <2>5. LinesCalm' /\ LoginCalm' /\ FlowCalm'
    BY <1>1, <1>3, <1>4, <2>2 DEF Calm, LinesCalm, LoginCalm, FlowCalm, Ended, Open, Said,
       Told
  <2>6. QED
    BY <2>4, <2>5 DEF Calm
<1>5. CASE ovpn \in {"prompt", "challenged"}
  <2>1. /\ kept = NoCred /\ cmds' = <<>>
        /\ \/ Head(cmds) = Acs /\ active = 0
           \/ Head(cmds) = Answer /\ Usable
    BY <1>1, <1>2, <1>5, Pair, CalmAnswer DEF Calm, CommandsCalm
  <2>2. CASE ovpn' = "auth" /\ cred' = Head(cmds) /\ UNCHANGED <<kept, events>>
    <3>1. CommandsCalm'
      BY <1>1, <2>1, <2>2 DEF Calm, CommandsCalm, Answer, Usable
    <3>2. LinesCalm'
      BY <1>1, <1>3, <1>5, <2>1, <2>2 DEF Calm, LinesCalm, Said, Told
    <3>3. LoginCalm' /\ FlowCalm'
      BY <1>1, <1>3, <1>5, <2>1, <2>2 DEF Calm, LoginCalm, FlowCalm, Ended, Open, Said,
         Told
    <3>4. QED
      BY <3>1, <3>2, <3>3 DEF Calm
  <2>3. CASE /\ ovpn = "challenged" /\ ovpn' = "hold" /\ Head(cmds).kind = "crv1"
             /\ kept' \in {NoCred, Head(cmds)} /\ Emit(<<Line("auth-failure", 0)>>)
             /\ UNCHANGED cred
    <3>1. Head(cmds) = Answer /\ Usable
      BY <2>1, <2>3 DEF Acs
    <3>2. /\ Len(events) \in Nat /\ Len(events') = Len(events) + 1
          /\ events'[Len(events) + 1].kind = "auth-failure"
          /\ \A j \in 1..Len(events) : j \in 1..Len(events') /\ events'[j] = events[j]
          /\ \A j \in 1..Len(events') : j \in 1..Len(events) \/ j = Len(events) + 1
      BY <1>1, <2>3, Appended DEF Lines
    <3>3. events' # <<>> /\ Said("auth-failure", Len(events))'
      BY <3>2 DEF Said
    <3>4. CommandsCalm'
      BY <1>1, <2>1, <2>3, <3>1, <3>3 DEF Calm, CommandsCalm, Answer, Usable, Sent
    <3>5. LinesCalm'
      BY <1>1, <2>3, <3>2 DEF Calm, LinesCalm, Said, Told
    <3>6. FlowCalm'
      BY <1>1, <1>3, <2>3, <3>2 DEF Calm, FlowCalm, Ended, Open, Said
    <3>7. LoginCalm'
      BY <1>1, <2>3, <3>1 DEF Calm, LoginCalm, Usable
    <3>8. QED
      BY <3>4, <3>5, <3>6, <3>7 DEF Calm
  <2>4. QED
    BY <1>5, <2>2, <2>3 DEF TakeCredential, Goes, Crv1
<1>6. QED
  BY <1>2, <1>4, <1>5

\* OpenVPN connects, and asks unless it kept the response.
LEMMA CalmConnects ==
    ASSUME OrderOK, Calm, Connect
    PROVE  Calm'
<1>1. /\ ovpn = "connecting" /\ kept' = NoCred /\ TypeOK /\ ~Ended
      /\ UNCHANGED <<phase, waiting, active, response, cmds, issued, accepted, answered,
                     backlog>>
  BY DEF Connect, World, state, server, history, OrderOK, Calm, FlowCalm
<1>2. cmds = <<>> /\ (kept = NoCred \/ (kept = Answer /\ Usable)) /\ ~Open
  BY <1>1 DEF Calm, CommandsCalm, FlowCalm
<1>3. \A j \in 1..Len(events) : ~Said("prompt", j) /\ ~Said("auth-failure", j)
  BY <1>1 DEF Calm, LinesCalm
<1>4. CASE ovpn' = "auth" /\ cred' = kept /\ kept # NoCred /\ UNCHANGED events
  <2>1. CommandsCalm'
    BY <1>1, <1>2, <1>4 DEF Calm, CommandsCalm, Answer, Usable
  <2>2. LinesCalm' /\ LoginCalm' /\ FlowCalm'
    BY <1>1, <1>2, <1>3, <1>4
    DEF Calm, LinesCalm, LoginCalm, FlowCalm, Ended, Open, Said, Told
  <2>3. QED
    BY <2>1, <2>2 DEF Calm
<1>5. CASE ovpn' = "prompt" /\ Emit(<<Line("prompt", 0)>>) /\ UNCHANGED cred
  <2>1. /\ Len(events) \in Nat /\ Len(events') = Len(events) + 1
        /\ events'[Len(events) + 1].kind = "prompt"
        /\ \A j \in 1..Len(events) : j \in 1..Len(events') /\ events'[j] = events[j]
        /\ \A j \in 1..Len(events') : j \in 1..Len(events) \/ j = Len(events) + 1
    BY <1>1, <1>5, Appended DEF Lines
  <2>2. CommandsCalm'
    BY <1>1, <1>2, <1>5 DEF Calm, CommandsCalm, Sent
  <2>3. LinesCalm'
    BY <1>1, <1>2, <1>3, <1>5, <2>1 DEF Calm, LinesCalm, Said, Told
  <2>4. FlowCalm'
    BY <1>1, <1>2, <1>5, <2>1 DEF Calm, FlowCalm, Ended, Open, Said
  <2>5. LoginCalm'
    BY <1>1, <1>3, <1>5, <2>1 DEF Calm, LoginCalm, Said
  <2>6. QED
    BY <2>2, <2>3, <2>4, <2>5 DEF Calm
<1>6. QED
  BY <1>4, <1>5 DEF Connect, Goes

\* A new challenge is open, told, and nothing else is under way.
LEMMA CalmChallenge ==
    ASSUME OrderOK, Calm, IssueChallenge
    PROVE  Calm'
<1>1. /\ ovpn = "auth" /\ cred = Acs /\ TypeOK /\ ~Ended
      /\ UNCHANGED <<phase, waiting, active, response, cmds, kept, accepted, answered,
                     backlog>>
  BY DEF IssueChallenge, World, state, history, OrderOK, Calm, FlowCalm
<1>2. /\ cmds = <<>> /\ active = 0 /\ kept = NoCred /\ ~Open
  BY <1>1, CalmAnswer DEF Calm, CommandsCalm, FlowCalm
<1>3. waiting = 0
  BY <1>2, CalmAwaits DEF Calm
<1>4. \A j \in 1..Len(events) : ~Told(j) /\ ~Said("prompt", j) /\ ~Said("auth-failure", j)
  <2>1. ASSUME NEW j \in 1..Len(events), Told(j)
        PROVE  FALSE
    BY <1>1, <1>2, <2>1, Numbers DEF OrderOK, LinesOK, Calm, LinesCalm, Open
  <2>2. QED
    BY <1>1, <2>1 DEF Calm, LinesCalm
<1>5. PICK L : Telling(L) /\ Emit(L)
  BY <1>1, ChallengeTold
<1>6. issued' = issued + 1 /\ issued' \in Nat /\ issued' # 0
  BY <1>1, ChallengeTold, Numbers
<1>7. issued' \notin answered /\ issued' \notin accepted
  <2>1. \A a \in answered : a <= issued /\ a \in Nat
    BY <1>1, Numbers DEF OrderOK, AnswersOK
  <2>2. QED
    BY <1>1, <1>6, <2>1, Numbers DEF Calm, CommandsCalm
<1>8. /\ Len(events') = Len(events) + Len(L) /\ Len(events) \in Nat /\ Len(L) \in Nat \ {0}
      /\ \A j \in 1..Len(events) : j \in 1..Len(events') /\ events'[j] = events[j]
      /\ \A k \in 1..Len(L) : /\ Len(events) + k \in 1..Len(events')
                              /\ events'[Len(events) + k] = L[k]
      /\ \A j \in 1..Len(events') :
           \/ j \in 1..Len(events)
           \/ /\ j > Len(events) /\ j - Len(events) \in 1..Len(L)
              /\ events'[j] = L[j - Len(events)]
  BY <1>1, <1>5, Extend DEF Telling
<1>9. \E j \in 1..Len(events') : Told(j)'
  <2>1. Len(events) + 1 \in 1..Len(events') /\ events'[Len(events) + 1].kind = "challenge"
    BY <1>5, <1>8 DEF Telling
  <2>2. QED
    BY <2>1 DEF Told
<1>10. LinesCalm'
  <2>1. ASSUME NEW j \in 1..Len(events')
        PROVE  /\ events'[j].kind \notin {"auth-failed", "fatal", "malformed"}
               /\ Told(j)' => events'[j].id = issued'
               /\ ~Said("prompt", j)'
               /\ Said("auth-failure", j)' => j = Len(events') /\ ovpn' = "hold"
    <3>1. CASE j \in 1..Len(events)
      BY <1>4, <1>8, <3>1 DEF Calm, LinesCalm, Told, Said
    <3>2. CASE j \notin 1..Len(events)
      <4>1. j - Len(events) \in 1..Len(L) /\ events'[j] = L[j - Len(events)]
        BY <1>8, <3>2
      <4>2. \/ events'[j].kind = "challenge" /\ events'[j].id = issued'
            \/ j = Len(events') /\ events'[j].kind = "auth-failure" /\ ovpn' = "hold"
        BY <1>5, <1>8, <4>1 DEF Telling
      <4>3. QED
        BY <4>2 DEF Told, Said
    <3>3. QED
      BY <3>1, <3>2
  <2>2. QED
    BY <2>1 DEF LinesCalm
<1>11. CommandsCalm'
  <2>1. CASE ovpn' = "challenged"
    BY <1>1, <1>2, <2>1 DEF Calm, CommandsCalm, Sent
  <2>2. CASE ovpn' = "hold" /\ L[Len(L)].kind = "auth-failure"
    <3>1. Len(events') # 0 /\ events'[Len(events')].kind = "auth-failure"
      BY <1>8, <2>2
    <3>2. events' # <<>> /\ Said("auth-failure", Len(events))'
      BY <3>1 DEF Said
    <3>3. QED
      BY <1>1, <1>2, <2>2, <3>2 DEF Calm, CommandsCalm, Sent
  <2>3. QED
    BY <1>5, <2>1, <2>2 DEF Telling
<1>12. FlowCalm'
  BY <1>1, <1>2, <1>3, <1>5, <1>6, <1>7, <1>9 DEF Calm, FlowCalm, Ended, Open, Telling
<1>13. LoginCalm'
  BY <1>1, <1>5, <1>9 DEF Calm, LoginCalm, Telling
<1>14. QED
  BY <1>10, <1>11, <1>12, <1>13 DEF Calm

\* The response is accepted; nothing is under way until the connection is up.
LEMMA CalmAccepted ==
    ASSUME OrderOK, Calm, AcceptResponse
    PROVE  Calm'
<1>1. /\ ovpn = "auth" /\ cred = Answer /\ ovpn' = "pushed" /\ TypeOK /\ ~Ended
      /\ accepted' = accepted \cup {issued} /\ connection' \in Nat
      /\ UNCHANGED <<phase, waiting, active, response, cmds, kept, issued, answered,
                     backlog>>
  BY Numbers DEF AcceptResponse, World, state, history, OrderOK, Calm, FlowCalm, Goes,
     Answer
<1>a. PICK n \in Nat : Emit(<<Line("push", n)>>)
  BY <1>1 DEF AcceptResponse
<1>2. cmds = <<>> /\ Usable /\ kept = NoCred /\ ~Open
  BY <1>1, CalmAnswer DEF Calm, CommandsCalm, FlowCalm
<1>3. /\ Len(events) \in Nat /\ Len(events') = Len(events) + 1
      /\ events'[Len(events) + 1].kind = "push"
      /\ \A j \in 1..Len(events) : j \in 1..Len(events') /\ events'[j] = events[j]
      /\ \A j \in 1..Len(events') : j \in 1..Len(events) \/ j = Len(events) + 1
  BY <1>1, <1>a, Appended DEF Lines
<1>4. \A j \in 1..Len(events) : ~Said("prompt", j) /\ ~Said("auth-failure", j)
  BY <1>1 DEF Calm, LinesCalm
<1>5. CommandsCalm'
  BY <1>1, <1>2 DEF Calm, CommandsCalm, Usable
<1>6. LinesCalm'
  BY <1>1, <1>3, <1>4 DEF Calm, LinesCalm, Said, Told
<1>7. LoginCalm'
  BY <1>1, <1>3, <1>4 DEF Calm, LoginCalm, Said
<1>8. FlowCalm'
  BY <1>1, <1>2, <1>3 DEF Calm, FlowCalm, Ended, Open
<1>9. QED
  BY <1>5, <1>6, <1>7, <1>8 DEF Calm

\* The connection is up, which is said last.
LEMMA CalmUp ==
    ASSUME OrderOK, Calm, FinishConnect
    PROVE  Calm'
<1>1. /\ ovpn = "pushed" /\ ovpn' = "up" /\ TypeOK /\ ~Ended
      /\ Emit(<<Line("connected", connection)>>) /\ connection \in Nat
      /\ UNCHANGED <<phase, waiting, active, response, cmds, kept, issued, accepted,
                     answered, backlog>>
  BY Numbers DEF FinishConnect, World, state, server, history, OrderOK, Calm, FlowCalm,
     Goes
<1>2. cmds = <<>> /\ kept = NoCred /\ ~Open
  BY <1>1 DEF Calm, CommandsCalm, FlowCalm
<1>3. /\ Len(events) \in Nat /\ Len(events') = Len(events) + 1
      /\ events'[Len(events) + 1].kind = "connected"
      /\ \A j \in 1..Len(events) : j \in 1..Len(events') /\ events'[j] = events[j]
      /\ \A j \in 1..Len(events') : j \in 1..Len(events) \/ j = Len(events) + 1
      /\ Len(events) + 1 \in 1..Len(events')
  BY <1>1, Appended DEF Lines
<1>4. \A j \in 1..Len(events) : ~Said("prompt", j) /\ ~Said("auth-failure", j)
  BY <1>1 DEF Calm, LinesCalm
<1>5. CommandsCalm'
  BY <1>1, <1>2 DEF Calm, CommandsCalm
<1>6. LinesCalm'
  BY <1>1, <1>3, <1>4 DEF Calm, LinesCalm, Said, Told
<1>7. \E j \in 1..Len(events') : Said("connected", j)'
  BY <1>3 DEF Said
<1>8. LoginCalm' /\ FlowCalm'
  BY <1>1, <1>2, <1>7 DEF Calm, LoginCalm, FlowCalm, Ended, Open
<1>9. QED
  BY <1>5, <1>6, <1>8 DEF Calm

\* An established connection is lost, or a new login demanded.
LEMMA CalmBreak ==
    ASSUME OrderOK, Calm, Break, ~trouble'
    PROVE  Calm'
<1>1. /\ ovpn = "up" /\ TypeOK /\ ~Ended
      /\ UNCHANGED <<phase, waiting, active, response, cmds, kept, issued, accepted,
                     answered, backlog>>
      /\ \/ ovpn' = "connecting" /\ Emit(<<Line("restart", 0)>>)
         \/ ovpn' = "hold" /\ Emit(<<Line("auth-failure", 0)>>)
  BY DEF Break, World, state, server, history, OrderOK, Calm, FlowCalm, Goes
<1>2. cmds = <<>> /\ kept = NoCred /\ ~Open
  BY <1>1 DEF Calm, CommandsCalm, FlowCalm
<1>3. /\ Len(events) \in Nat /\ Len(events') = Len(events) + 1
      /\ \/ events'[Len(events) + 1].kind = "restart" /\ ovpn' = "connecting"
         \/ events'[Len(events) + 1].kind = "auth-failure" /\ ovpn' = "hold"
      /\ \A j \in 1..Len(events) : j \in 1..Len(events') /\ events'[j] = events[j]
      /\ \A j \in 1..Len(events') : j \in 1..Len(events) \/ j = Len(events) + 1
  BY <1>1, Appended DEF Lines
<1>4. \A j \in 1..Len(events) : ~Said("prompt", j) /\ ~Said("auth-failure", j)
  BY <1>1 DEF Calm, LinesCalm
<1>5. CommandsCalm'
  <2>1. CASE ovpn' = "connecting"
    BY <1>1, <1>2, <2>1 DEF Calm, CommandsCalm
  <2>2. CASE ovpn' = "hold"
    <3>1. events' # <<>> /\ Said("auth-failure", Len(events))'
      BY <1>3, <2>2 DEF Said
    <3>2. QED
      BY <1>1, <1>2, <2>2, <3>1 DEF Calm, CommandsCalm, Sent
  <2>3. QED
    BY <1>1, <2>1, <2>2
<1>6. LinesCalm'
  BY <1>1, <1>3, <1>4 DEF Calm, LinesCalm, Said, Told
<1>7. (\E j \in 1..Len(events) : Said("connected", j)) =>
        (\E j \in 1..Len(events') : Said("connected", j)')
  BY <1>3 DEF Said
<1>8. LoginCalm' /\ FlowCalm'
  BY <1>1, <1>2, <1>3, <1>7 DEF Calm, LoginCalm, FlowCalm, Ended, Open
<1>9. QED
  BY <1>5, <1>6, <1>8 DEF Calm

\* Nothing ends the login, the server refuses no response, and no connection to
\* the listener is silent.
LEMMA CalmGoesOn ==
    ASSUME OrderOK, Calm
    PROVE  ~HandleError /\ ~RefuseLogin /\ ~SilentEnds
<1>1. ASSUME HandleError
      PROVE  FALSE
  <2>1. ovpn # "exited"
    BY DEF Calm, CommandsCalm
  <2>2. /\ events # <<>> /\ waiting = 0 /\ Running
        /\ \/ events[1].kind \in {"auth-failed", "fatal", "malformed"}
           \/ events[1].kind = "auth-failure" /\ ~MayReconnect
        /\ 1 \in 1..Len(events) /\ Len(events) \in Nat
    <3>1. /\ events # <<>> /\ waiting = 0 /\ Running
          /\ \/ Head(events).kind \in {"auth-failed", "fatal", "malformed"}
             \/ Head(events).kind = "auth-failure" /\ ~MayReconnect
      BY <1>1, <2>1 DEF HandleError, Reads
    <3>2. /\ events \in Seq(LineSet) /\ Len(events) \in Nat
      BY Numbers DEF OrderOK
    <3>3. QED
      BY <3>1, <3>2, HeadTailProperties, EmptySeq
  <2>3. /\ events[1].kind = "auth-failure" /\ phase = "login" /\ active = 0
        /\ Len(events) = 1
    BY <2>2 DEF Calm, LinesCalm, Said, MayReconnect, Running
  <2>4. PICK j \in 1..Len(events) : Told(j) \/ Said("connected", j)
    BY <2>2, <2>3 DEF Calm, LoginCalm, Said
  <2>5. j = 1
    BY <2>3, <2>4
  <2>6. QED
    BY <2>3, <2>4, <2>5 DEF Told, Said
<1>2. ASSUME RefuseLogin
      PROVE  FALSE
  <2>1. ovpn = "auth" /\ cred # Acs /\ (cred # Answer \/ issued \in accepted)
    BY <1>2 DEF RefuseLogin, Answer
  <2>2. cred = Answer /\ Usable
    BY <2>1 DEF Calm, CommandsCalm
  <2>3. QED
    BY <2>1, <2>2 DEF Usable
<1>3. ASSUME SilentEnds
      PROVE  FALSE
  BY <1>3 DEF SilentEnds, Calm, FlowCalm
<1>4. QED
  BY <1>1, <1>2, <1>3

\* The listener gets another request, or gives a login page to one.
LEMMA CalmRequests ==
    ASSUME OrderOK, Calm, ~trouble',
           ContinueAfterGet \/ PostAssertion \/ ExtraRequest
    PROVE  Calm'
<1>1. UNCHANGED <<phase, waiting, active, response, events, cmds, ovpn, kept, cred,
                  issued, accepted, answered>>
  BY DEF ContinueAfterGet, PostAssertion, ExtraRequest, Rest, state, openvpn, server,
     history
<1>2. backlog \in Seq(Requests)
  BY DEF OrderOK, TypeOK
<1>3. \A i \in 1..Len(backlog') : backlog'[i].kind \in {"post", "get"}
  <2>1. CASE ContinueAfterGet
    <3>1. backlog # <<>> /\ backlog' = Tail(backlog)
      BY <2>1 DEF ContinueAfterGet, Receives
    <3>2. /\ Len(backlog) \in Nat /\ Len(backlog') = Len(backlog) - 1
          /\ \A i \in 1..Len(backlog') : backlog'[i] = backlog[i + 1]
      BY <1>2, <3>1, HeadTailProperties
    <3>3. QED
      BY <3>2 DEF Calm, FlowCalm
  <2>2. CASE PostAssertion \/ ExtraRequest
    <3>1. PICK k \in {"post", "get"}, n \in Nat : Arrives(k, n)
      BY <2>2 DEF PostAssertion, ExtraRequest, OrderOK, TypeOK, BrowserOK, Challenge
    <3>2. [kind |-> k, id |-> n] \in Requests
      BY DEF Requests
    <3>3. /\ Len(backlog) \in Nat /\ Len(backlog') = Len(backlog) + 1
          /\ \A i \in 1..Len(backlog) : backlog'[i] = backlog[i]
          /\ backlog'[Len(backlog) + 1] = [kind |-> k, id |-> n]
      BY <1>2, <3>1, <3>2, AppendProperties DEF Arrives
    <3>4. \A i \in 1..Len(backlog') : i \in 1..Len(backlog) \/ i = Len(backlog) + 1
      BY <3>3
    <3>5. QED
      BY <3>3, <3>4 DEF Calm, FlowCalm
  <2>3. QED
    BY <2>1, <2>2
<1>4. LinesCalm' /\ LoginCalm'
  BY <1>1 DEF Calm, LinesCalm, LoginCalm, Said, Told
<1>5. FlowCalm'
  BY <1>1, <1>3 DEF Calm, FlowCalm, Ended, Open, Told, Said
<1>6. CommandsCalm'
  BY <1>1 DEF Calm, CommandsCalm, Sent, Answer, Usable, Open, Said
<1>7. QED
  BY <1>4, <1>5, <1>6 DEF Calm

\* As long as there is no trouble, the flow and OpenVPN take turns.
LEMMA TurnInductive ==
    ASSUME OrderOK, AddressOK, ~trouble => ListenerOK, TurnOK, [Next]_vars
    PROVE  TurnOK'
<1>1. SUFFICES ASSUME ~trouble'
               PROVE  Calm'
  BY DEF TurnOK
<1>2. trouble' \in {trouble, TRUE}
  BY DEF vars, Next, Flow, StartFlow, HandleEvent, AnswerPrompt, IgnoreDuplicate,
     OpenPage, BrowserFails, HandleConnected, HandleRestart, HandleAuthFailure,
     HandlePush, HandleError, ReceiveOnce, ReceiveAssertion, ContinueAfterGet,
     ReceiveFails, OpenVpn, TakeRelease, TakeCredential, Connect, IssueChallenge,
     AcceptResponse, FinishConnect, RefuseLogin, RefuseAnyway, Break, OpenVpnExits,
     Browser, PostAssertion, SilentEnds, ExtraRequest
<1>3. ~trouble /\ Calm /\ ListenerOK
  <2>1. trouble' = trouble \/ trouble' = TRUE
    BY <1>2
  <2>2. ~trouble
    BY <1>1, <2>1, Zenon
  <2>3. QED
    BY <2>2 DEF TurnOK
<1>4. CASE UNCHANGED vars
  <2>1. UNCHANGED <<phase, waiting, active, response, events, cmds, ovpn, kept, cred,
                    issued, accepted, answered, backlog>>
    BY <1>4 DEF vars, state, openvpn, server, history
  <2>2. LinesCalm' /\ LoginCalm' /\ FlowCalm'
    BY <1>3, <2>1 DEF Calm, LinesCalm, LoginCalm, FlowCalm, Ended, Open, Said, Told
  <2>3. CommandsCalm'
    BY <1>3, <2>1 DEF Calm, CommandsCalm, Sent, Answer, Usable, Open, Said
  <2>4. QED
    BY <2>2, <2>3 DEF Calm
<1>5. CASE Flow
  <2>1. ~BrowserFails /\ ~ReceiveFails
    BY <1>1 DEF BrowserFails, ReceiveFails
  <2>2. CASE StartFlow
    BY <1>3, <2>2, CalmStart
  <2>3. CASE HandleEvent
    BY <1>3, <2>1, <2>3, CalmPage, CalmDuplicate, CalmReport, CalmConnected, CalmPrompt,
       CalmHold, CalmGoesOn DEF HandleEvent
  <2>4. CASE ReceiveOnce
    BY <1>1, <1>3, <2>1, <2>4, CalmAnswered, CalmRequests DEF ReceiveOnce
  <2>5. QED
    BY <1>5, <2>2, <2>3, <2>4 DEF Flow
<1>6. CASE OpenVpn
  BY <1>3, <1>6, CalmReleased, CalmTaken, CalmConnects, CalmChallenge, CalmAccepted,
     CalmUp, CalmGoesOn DEF OpenVpn
<1>7. CASE RefuseAnyway \/ Break \/ OpenVpnExits
  BY <1>1, <1>3, <1>7, CalmBreak DEF RefuseAnyway, OpenVpnExits
<1>8. CASE Browser \/ ExtraRequest
  BY <1>1, <1>3, <1>8, CalmRequests, CalmGoesOn DEF Browser
<1>9. QED
  BY <1>4, <1>5, <1>6, <1>7, <1>8 DEF Next

\* Everything the model checker checks as IInv holds, for every set of faults.
THEOREM InvHolds == Spec => []IInv
<1> DEFINE Inv == "resubmit" \notin Faults \/ ~trouble => ListenerOK
           J   == OrderOK /\ AddressOK /\ Inv /\ TurnOK
<1>1. Init => Inv /\ TurnOK
  <2> SUFFICES ASSUME Init PROVE ListenerOK /\ Calm
    BY DEF TurnOK
  <2>1. Len(backlog) = 0 /\ Len(events) = 0 /\ pages = {}
    BY DEF Init
  <2>2. ListenerOK
    BY <2>1 DEF ListenerOK
  <2>3. LinesCalm /\ LoginCalm /\ FlowCalm
    BY <2>1 DEF Init, LinesCalm, LoginCalm, FlowCalm, Ended, Open
  <2>4. CommandsCalm
    BY DEF Init, CommandsCalm
  <2>5. QED
    BY <2>2, <2>3, <2>4 DEF Calm
<1>2. OrderOK /\ AddressOK /\ Inv /\ TurnOK /\ [Next]_vars => Inv' /\ TurnOK'
  <2> SUFFICES ASSUME OrderOK, AddressOK, Inv, TurnOK, [Next]_vars
               PROVE  Inv' /\ TurnOK'
    OBVIOUS
  <2>1. TurnOK'
    BY TurnInductive
  <2>2. trouble' \in {trouble, TRUE}
    BY DEF vars, Next, Flow, StartFlow, HandleEvent, AnswerPrompt, IgnoreDuplicate,
       OpenPage, BrowserFails, HandleConnected, HandleRestart, HandleAuthFailure,
       HandlePush, HandleError, ReceiveOnce, ReceiveAssertion, ContinueAfterGet,
       ReceiveFails, OpenVpn, TakeRelease, TakeCredential, Connect, IssueChallenge,
       AcceptResponse, FinishConnect, RefuseLogin, RefuseAnyway, Break, OpenVpnExits,
       Browser, PostAssertion, SilentEnds, ExtraRequest
  <2>3. ASSUME "resubmit" \notin Faults \/ ~trouble'
        PROVE  ListenerOK'
    BY <2>2, <2>3, ListenerInductive
  <2>4. QED
    BY <2>1, <2>3
<1>3. Spec => [](Inv /\ TurnOK)
  <2> HIDE DEF Inv
  <2>1. QED
    BY <1>1, <1>2, OrderHolds, AddressHolds, PTL DEF Spec
<1>4. OrderOK /\ AddressOK /\ Inv /\ TurnOK => IInv
  BY DEF OrderOK, IInv
<1>5. QED
  <2> HIDE DEF Inv
  <2>1. QED
    BY <1>3, <1>4, OrderHolds, AddressHolds, PTL

\* A login, and the monitor after it, goes on until there is trouble: it is
\* ended by no duplicate challenge, by no other request to the listener, by no
\* connection lost and by no new login demanded, in whatever order they come.
THEOREM OnlyTroubleEnds == Spec => []CooperativeLoginHolds
<1>1. IInv => CooperativeLoginHolds
  BY DEF IInv, TurnOK, Calm, FlowCalm, CooperativeLoginHolds
<1>2. QED
  BY <1>1, InvHolds, PTL

=============================================================================
