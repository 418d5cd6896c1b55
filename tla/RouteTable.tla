----------------------------- MODULE RouteTable -----------------------------
(***************************************************************************)
(* The arithmetic of awsvpn on routes: what parse_pushed_options takes     *)
(* from a push reply, and how a pushed route is compared with the rows of  *)
(* `netstat -rn` (client.rs, openvpn/parser.rs).                           *)
(*                                                                         *)
(* An address or a netmask is the set of its one bits, bit Width - 1 being *)
(* the first; it is written in four parts of PartBits bits each (8 in the  *)
(* code, where Width is 32).                                               *)
(***************************************************************************)
EXTENDS Integers, Sequences

CONSTANTS
    PartBits,   \* bits of a part of an address
    Absent,     \* a word that an option does not have
    Invalid     \* what cannot be parsed: Rust's None

ASSUME RouteTableAssumption ==
    /\ PartBits \in Nat \ {0}
    /\ Invalid \notin Nat /\ Absent # Invalid

Width     == 4 * PartBits
Bits      == 0 .. Width - 1
Addresses == SUBSET Bits
Prefixes  == 0 .. Width

Route == [network : Addresses, netmask : Addresses]

-----------------------------------------------------------------------------
(* client.rs: prefixes and masks.                                           *)

\* u32::MAX << n; the machine shifts by n modulo the width.
ShiftedOnes(n) == {b \in Bits : b >= n % Width}

\* Mutant: prefix 0 is not a case of its own.
PrefixMaskUnguarded(prefix) == ShiftedOnes(Width - prefix)

prefix_mask(prefix) == IF prefix = 0 THEN {} ELSE ShiftedOnes(Width - prefix)

\* The loop counts the leading ones of the mask.
LeadingOnes(mask) ==
    CHOOSE n \in Prefixes :
        /\ \A b \in Bits : b >= Width - n => b \in mask
        /\ Width - n - 1 \notin mask

\* Invalid when a one follows the first zero.
netmask_prefix(mask) ==
    IF \A b \in mask : b >= Width - LeadingOnes(mask) THEN LeadingOnes(mask) ELSE Invalid

UnwrapOr(option, default) == IF option = Invalid THEN default ELSE option

Key(network, prefix) == <<network \cap prefix_mask(prefix), prefix>>

pushed_route_key(route) ==
    Key(route.network, UnwrapOr(netmask_prefix(route.netmask), Width))

-----------------------------------------------------------------------------
(* A route of the kernel, [network, prefix, bare, device], and the row      *)
(* netstat prints for it: trailing zero parts are left out, "default" has   *)
(* no parts, and a `bare` row is printed without its prefix.                *)

Devices  == {"own", "orphan", "other"}  \* our utun, another utun, another device
Entry    == [network : Addresses, prefix : Prefixes, bare : BOOLEAN, device : Devices]

LowestBit(part) == Width - part * PartBits
PartsOf(address) ==
    CHOOSE n \in 1 .. 4 :
        /\ \A b \in address : b >= LowestBit(n)
        /\ \A m \in 1 .. n - 1 : \E b \in address : b < LowestBit(m)

Row(entry) ==
    [address |-> entry.network,
     parts   |-> IF entry.prefix = 0 THEN 0 ELSE PartsOf(entry.network),
     prefix  |-> IF entry.bare THEN Invalid ELSE entry.prefix,
     utun    |-> entry.device # "other"]

\* "default", or parts "/" prefix; parts that are not printed are zero.
parse_macos_route_destination(row) ==
    CASE row.parts = 0 -> Key({}, 0)
      [] row.parts # 0 /\ row.prefix = Invalid -> Invalid
      [] OTHER -> Key({b \in row.address : b >= LowestBit(row.parts)}, row.prefix)

parse_macos_netstat_route(row) ==
    IF row.utun THEN parse_macos_route_destination(row) ELSE Invalid

pushed_routes_present_in_netstat(table, routes) ==
    \A r \in routes : \E e \in table :
        parse_macos_netstat_route(Row(e)) = pushed_route_key(r)

\* The reference: a route is the set of addresses it covers.
Covers(network, mask) == {a \in Addresses : a \cap mask = network \cap mask}

\* The table has a row on a utun device that says its prefix, or "default",
\* and covers the addresses of the route.
Seen(table, r) ==
    \E e \in table :
        /\ e.device # "other"
        /\ e.prefix = 0 \/ ~e.bare
        /\ Covers(e.network, {b \in Bits : b >= Width - e.prefix})
               = Covers(r.network, r.netmask)

-----------------------------------------------------------------------------
(* openvpn/parser.rs: a push reply is a sequence of options.                *)

Option == [name : STRING, address : {Invalid} \cup Addresses,
           netmask : {Absent, Invalid} \cup Addresses]

DnsServers(reply) ==
    {reply[i].address : i \in {j \in DOMAIN reply :
        reply[j].name = "dhcp-option DNS" /\ reply[j].address # Invalid}}

\* A route without a netmask is a host.
Routes(reply) ==
    {[network |-> reply[i].address,
      netmask |-> IF reply[i].netmask = Absent THEN Bits ELSE reply[i].netmask] :
        i \in {j \in DOMAIN reply :
            reply[j].name = "route" /\ Invalid \notin {reply[j].address, reply[j].netmask}}}

\* Invalid when the line names neither: the options of an earlier line stay.
parse_pushed_options(reply) ==
    IF DnsServers(reply) = {} /\ Routes(reply) = {} THEN Invalid
    ELSE [dns_servers |-> DnsServers(reply), routes |-> Routes(reply)]

=============================================================================
