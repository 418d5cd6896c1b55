--------------------------- MODULE MC_VpnSession ----------------------------
(* Instances of VpnSession for TLC.                                         *)
EXTENDS VpnSession, TLC

Setup(os, mode, scripts) == [os |-> os, mode |-> mode, dns |-> "default", scripts |-> scripts]

\* Linux with systemd-resolved or resolvconf, with the scripts beside an OpenVPN
\* binary of the user's, in the foreground; macOS; and `--dns disabled`.
AllSetups ==
    { Setup("linux", "daemon", FALSE), Setup("linux", "daemon", TRUE),
      Setup("linux", "foreground", FALSE), Setup("macos", "daemon", FALSE),
      [Setup("linux", "foreground", FALSE) EXCEPT !.dns = "disabled"] }

\* Parts of one bit: 1.0.0.0 is {3}, and the network 1/2 has the netmask
\* 1.1.0.0.
Net    == {3}
Mask   == {3, 2}
Host   == {3, 0}
Dns(address) == [name |-> "dhcp-option DNS", address |-> address, netmask |-> Absent]
RouteOption(network, netmask) == [name |-> "route", address |-> network, netmask |-> netmask]
Other == [name |-> "ping 1", address |-> Invalid, netmask |-> Absent]

\* A server, a network and a host; nothing; a whole-address-space route that
\* is not written with zeros, and words that do not parse.
Replies ==
    { << Dns(Host), RouteOption(Net, Mask), RouteOption(Host, Absent), Dns(Host) >>,
      << Other, Dns(Invalid), RouteOption(Net, Invalid) >>,
      << RouteOption(Net, {}), Dns(Host) >> }

=============================================================================
