---------------------------- MODULE MC_MacosDns ----------------------------
(* Instances of MacosDns for TLC. *)
EXTENDS MacosDns
=============================================================================
