--------------------------- MODULE MCDgramClient ---------------------------
(* Instances of DgramClient for TLC. *)
EXTENDS DgramClient, TLC

DataSymmetry == Permutations(Data)
=============================================================================
