-------------------------- MODULE MC_DaemonControl --------------------------
(* Instances of DaemonControl for TLC. *)
EXTENDS DaemonService, TLC

\* The daemons are interchangeable, and so are the clients.
Symmetry == Permutations(Daemons) \cup Permutations(Clients)

=============================================================================
