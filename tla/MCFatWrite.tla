----------------------------- MODULE MCFatWrite -----------------------------
(***************************************************************************)
(* An instance of FatWrite: the environment file and one other.            *)
(***************************************************************************)
EXTENDS FatWrite, TLC

CONSTANTS env, img

MCFiles == {env, img}

\* No definition tells one file from another.
Symmetry == Permutations(MCFiles)
=============================================================================
