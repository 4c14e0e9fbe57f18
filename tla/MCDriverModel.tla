--------------------------- MODULE MCDriverModel ---------------------------
(***************************************************************************)
(* The device tree DriverModel is checked on: a root, a bus, and two       *)
(* devices of one uclass on it, both asking for sequence number 0.         *)
(***************************************************************************)
EXTENDS DriverModel

MCParent == <<0, 1, 2, 2>>
MCUclass == <<"root", "bus", "leaf", "leaf">>
MCReqSeq == <<-1, -1, 0, 0>>
=============================================================================
