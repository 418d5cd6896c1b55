---------------------------- MODULE MC_SamlFlow ----------------------------
(* Instances of SamlFlow for TLC. *)
EXTENDS SamlFlow
=============================================================================
