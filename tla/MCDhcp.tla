------------------------------- MODULE MCDhcp -------------------------------
(***************************************************************************)
(* Dhcp for TLC: the DHCP servers are interchangeable.                     *)
(***************************************************************************)
EXTENDS Dhcp, TLC

ServerSymmetry == Permutations(Servers)
=============================================================================
