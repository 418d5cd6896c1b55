-------------------------- MODULE RouteTable_proofs --------------------------
(***************************************************************************)
(* The arithmetic of RouteTable for every width: prefixes and masks are    *)
(* two forms of the same thing, and a row of netstat that says its prefix  *)
(* is compared with a pushed route as the addresses the two cover demand.  *)
(***************************************************************************)
EXTENDS RouteTable, WellFoundedInduction, TLAPS

LEMMA WidthType == Width \in Nat \ {0} /\ PartBits \in Nat \ {0} /\ Width = 4 * PartBits
BY RouteTableAssumption DEF Width

\* The shift of prefix_mask never reaches the width, where the machine would
\* shift by nothing: prefix 0 is a case of its own.
LEMMA PrefixMaskIs ==
    ASSUME NEW p \in Prefixes
    PROVE  prefix_mask(p) = {b \in Bits : b >= Width - p}
<1>1. CASE p = 0
  BY <1>1, WidthType DEF prefix_mask, Bits
<1>2. CASE p # 0
  <2>1. (Width - p) % Width = Width - p
    BY <1>2, WidthType DEF Prefixes
  <2>2. QED
    BY <1>2, <2>1 DEF prefix_mask, ShiftedOnes
<1>3. QED
  BY <1>1, <1>2

\* The least-number principle, from the library's facts on well-founded sets.
LEMMA LeastNumber ==
    ASSUME NEW T \in SUBSET Nat, T # {}
    PROVE  \E x \in T : \A y \in T : x <= y
<1> DEFINE less == {ss \in Nat \X Nat : ss[1] < ss[2]}
<1>1. IsWellFoundedOn(less, Nat)
  BY NatLessThanWellFounded DEF OpToRel
<1>2. PICK x \in T : \A y \in T : ~ (<<y, x>> \in less)
  BY <1>1, WFMin
<1>3. ASSUME NEW y \in T, ~(x <= y)
      PROVE  FALSE
  <2>1. x \in Nat /\ y \in Nat /\ y < x
    BY <1>3
  <2>2. <<y, x>> \in less
    BY <2>1
  <2>3. QED
    BY <1>2, <2>2
<1>4. QED
  BY <1>3

\* There is a first zero, or the mask is all ones.
LEMMA LeadingOnesType ==
    ASSUME NEW mask \in Addresses
    PROVE  LeadingOnes(mask) \in Prefixes
<1> DEFINE zeros == {n \in Prefixes : Width - n - 1 \notin mask}
           Leads(n) == /\ \A b \in Bits : b >= Width - n => b \in mask
                       /\ Width - n - 1 \notin mask
<1>1. Width \in zeros
  BY WidthType DEF Prefixes, Addresses, Bits
<1>2. PICK n \in zeros : \A m \in zeros : n <= m
  <2>1. zeros \in SUBSET Nat /\ zeros # {}
    BY <1>1, WidthType DEF Prefixes
  <2> HIDE DEF zeros
  <2>2. QED
    BY <2>1, LeastNumber
<1>3. ASSUME NEW b \in Bits, b >= Width - n
      PROVE  b \in mask
  <2>1. Width - 1 - b \in Prefixes /\ Width - 1 - b < n
    BY <1>3, WidthType DEF Prefixes, Bits
  <2>2. Width - 1 - b \notin zeros
    BY <1>2, <2>1, WidthType DEF Prefixes
  <2>3. Width - (Width - 1 - b) - 1 = b
    BY WidthType DEF Bits
  <2>4. QED
    BY <2>1, <2>2, <2>3
<1>4. Leads(n)
  BY <1>2, <1>3
<1>5. \E k \in Prefixes : Leads(k)
  BY <1>2, <1>4
<1>6. QED
  BY <1>5 DEF LeadingOnes

\* A mask that is all ones above some bit and nothing below has that many
\* leading ones.
LEMMA LeadingOnesOfMask ==
    ASSUME NEW p \in Prefixes
    PROVE  LeadingOnes(prefix_mask(p)) = p
<1> DEFINE mask == {b \in Bits : b >= Width - p}
           Leads(n) == /\ \A b \in Bits : b >= Width - n => b \in mask
                       /\ Width - n - 1 \notin mask
<1>1. Leads(p)
  BY WidthType DEF Bits, Prefixes
<1>2. ASSUME NEW n \in Prefixes, Leads(n)
      PROVE  n = p
  <2>1. CASE n < p
    <3>1. Width - n - 1 \in Bits /\ Width - n - 1 >= Width - p
      BY <2>1, WidthType DEF Bits, Prefixes
    <3>2. QED
      BY <1>2, <3>1
  <2>2. CASE n > p
    <3>1. Width - n \in Bits /\ ~(Width - n >= Width - p)
      BY <2>2, WidthType DEF Bits, Prefixes
    <3>2. Width - n \in mask
      BY <1>2, <3>1, WidthType DEF Prefixes
    <3>3. QED
      BY <3>1, <3>2
  <2>3. QED
    BY <2>1, <2>2, WidthType DEF Prefixes
<1>3. LeadingOnes(mask) = CHOOSE n \in Prefixes : Leads(n)
  BY DEF LeadingOnes
<1>4. (CHOOSE n \in Prefixes : Leads(n)) = p
  BY <1>1, <1>2
<1>5. QED
  BY <1>3, <1>4, PrefixMaskIs

\* Netmask to prefix and back: nothing is lost for any prefix, the two ends 0
\* and Width among them.
THEOREM MaskRoundTrip ==
    ASSUME NEW p \in Prefixes
    PROVE  netmask_prefix(prefix_mask(p)) = p
<1>1. \A b \in prefix_mask(p) : b >= Width - p
  BY PrefixMaskIs
<1>2. QED
  BY <1>1, LeadingOnesOfMask DEF netmask_prefix

-----------------------------------------------------------------------------

\* Two networks that cover the same addresses have the same mask.
LEMMA MaskOfCovers ==
    ASSUME NEW n \in Addresses, NEW m \in Addresses, NEW o \in Addresses, NEW q \in Addresses,
           Covers(n, m) = Covers(o, q)
    PROVE  m \subseteq q
<1>1. SUFFICES ASSUME NEW b \in m, b \notin q PROVE FALSE
  OBVIOUS
<1>2. DEFINE flipped == (n \ {b}) \cup ({b} \ n)
<1>3. n \in Covers(o, q) /\ flipped \in Addresses
  BY <1>1 DEF Covers, Addresses
<1>4. flipped \cap q = n \cap q
  BY <1>1
<1>5. flipped \in Covers(n, m)
  BY <1>3, <1>4 DEF Covers
<1>6. flipped \cap m = n \cap m
  BY <1>5 DEF Covers
<1>7. QED
  BY <1>1, <1>6

\* ... and are the same on it: comparing networks and masks is comparing what
\* they cover.
LEMMA CoversDecides ==
    ASSUME NEW n \in Addresses, NEW m \in Addresses, NEW o \in Addresses, NEW q \in Addresses
    PROVE  Covers(n, m) = Covers(o, q) <=> m = q /\ n \cap m = o \cap q
<1>1. ASSUME Covers(n, m) = Covers(o, q) PROVE m = q /\ n \cap m = o \cap q
  <2>1. m = q
    BY <1>1, MaskOfCovers DEF Addresses
  <2>2. n \in Covers(o, q)
    BY <1>1 DEF Covers
  <2>3. QED
    BY <2>1, <2>2 DEF Covers
<1>2. ASSUME m = q /\ n \cap m = o \cap q PROVE Covers(n, m) = Covers(o, q)
  BY <1>2 DEF Covers
<1>3. QED
  BY <1>1, <1>2

LEMMA PrefixMaskType ==
    ASSUME NEW p \in Prefixes
    PROVE  prefix_mask(p) \in Addresses
BY PrefixMaskIs DEF Addresses

\* The parts that netstat does not print are zero, so that nothing is lost.
LEMMA PartsCoverAddress ==
    ASSUME NEW a \in Addresses
    PROVE  /\ PartsOf(a) \in 1 .. 4
           /\ {b \in a : b >= LowestBit(PartsOf(a))} = a
<1> DEFINE Fits(n) == /\ \A b \in a : b >= LowestBit(n)
                      /\ \A m \in 1 .. n - 1 : \E b \in a : b < LowestBit(m)
           All(n) == \A b \in a : b >= LowestBit(n)
<1>1. \A b \in a : b \in Int /\ b >= 0
  BY WidthType DEF Addresses, Bits
<1>2. All(4)
  BY <1>1, WidthType DEF LowestBit
<1>3. \A n \in 1 .. 4 : LowestBit(n) \in Int
  BY WidthType DEF LowestBit
<1>4. \A n \in 1 .. 4 : (~All(n) => \E b \in a : b < LowestBit(n))
  BY <1>1, <1>3
<1>5. \E n \in 1 .. 4 : Fits(n)
  <2>1. CASE All(1)
    <3>1. Fits(1)
      BY <2>1
    <3>2. QED
      BY <3>1
  <2>2. CASE ~All(1) /\ All(2)
    <3>1. Fits(2)
      BY <1>4, <2>2
    <3>2. QED
      BY <3>1
  <2>3. CASE ~All(1) /\ ~All(2) /\ All(3)
    <3>1. Fits(3)
      BY <1>4, <2>3
    <3>2. QED
      BY <3>1
  <2>4. CASE ~All(1) /\ ~All(2) /\ ~All(3)
    <3>1. Fits(4)
      BY <1>2, <1>4, <2>4
    <3>2. QED
      BY <3>1
  <2>5. QED
    BY <2>1, <2>2, <2>3, <2>4
<1>6. PartsOf(a) \in 1 .. 4 /\ Fits(PartsOf(a))
  <2>1. PartsOf(a) = CHOOSE n \in 1 .. 4 : Fits(n)
    BY DEF PartsOf
  <2>2. QED
    BY <1>5, <2>1
<1>7. QED
  BY <1>6

\* A row that says its prefix is read as the network and prefix it stands for.
LEMMA RowIsRead ==
    ASSUME NEW e \in Entry, e.device # "other", e.prefix = 0 \/ ~e.bare
    PROVE  parse_macos_netstat_route(Row(e)) = Key(e.network, e.prefix)
<1> DEFINE row == Row(e)
<1>1. e.network \in Addresses /\ e.prefix \in Prefixes /\ e.bare \in BOOLEAN
  BY DEF Entry
<1>2. row.utun /\ parse_macos_netstat_route(row) = parse_macos_route_destination(row)
  BY DEF Row, parse_macos_netstat_route
<1>3. CASE e.prefix = 0
  BY <1>1, <1>2, <1>3 DEF Row, parse_macos_route_destination, Key, prefix_mask
<1>4. CASE e.prefix # 0
  <2>1. row.parts = PartsOf(e.network) /\ row.prefix = e.prefix /\ row.address = e.network
    BY <1>4 DEF Row
  <2>2. row.parts # 0 /\ row.prefix # Invalid
    BY <1>1, <2>1, PartsCoverAddress, RouteTableAssumption, WidthType DEF Prefixes
  <2>3. parse_macos_route_destination(row)
            = Key({b \in row.address : b >= LowestBit(row.parts)}, row.prefix)
    BY <2>2 DEF parse_macos_route_destination
  <2>4. QED
    BY <1>1, <1>2, <2>1, <2>3, PartsCoverAddress
<1>5. QED
  BY <1>3, <1>4

\* A route with a readable row on a utun device that covers its addresses is
\* found, whatever its netmask: the monitor does not warn of it.
THEOREM SeenIsPresent ==
    ASSUME NEW table \in SUBSET Entry, NEW r \in Route, Seen(table, r)
    PROVE  pushed_routes_present_in_netstat(table, {r})
<1>1. PICK e \in table : /\ e.device # "other"
                         /\ e.prefix = 0 \/ ~e.bare
                         /\ Covers(e.network, {b \in Bits : b >= Width - e.prefix})
                                = Covers(r.network, r.netmask)
  BY DEF Seen
<1>2. /\ e \in Entry /\ e.network \in Addresses /\ e.prefix \in Prefixes
      /\ r.network \in Addresses /\ r.netmask \in Addresses
  BY DEF Entry, Route
<1>3. r.netmask = prefix_mask(e.prefix)
      /\ e.network \cap prefix_mask(e.prefix) = r.network \cap prefix_mask(e.prefix)
  <2>1. prefix_mask(e.prefix) \in Addresses
    BY <1>2, PrefixMaskType
  <2>2. Covers(e.network, prefix_mask(e.prefix)) = Covers(r.network, r.netmask)
    BY <1>1, <1>2, PrefixMaskIs
  <2>3. prefix_mask(e.prefix) = r.netmask
        /\ e.network \cap prefix_mask(e.prefix) = r.network \cap r.netmask
    BY <1>2, <2>1, <2>2, CoversDecides
  <2>4. QED
    BY <2>3
<1>4. netmask_prefix(r.netmask) = e.prefix /\ e.prefix # Invalid
  BY <1>2, <1>3, MaskRoundTrip, RouteTableAssumption, WidthType DEF Prefixes
<1>5. pushed_route_key(r) = Key(e.network, e.prefix)
  BY <1>3, <1>4 DEF pushed_route_key, UnwrapOr, Key
<1>6. parse_macos_netstat_route(Row(e)) = pushed_route_key(r)
  BY <1>1, <1>2, <1>5, RowIsRead
<1>7. QED
  BY <1>6 DEF pushed_routes_present_in_netstat

=============================================================================
