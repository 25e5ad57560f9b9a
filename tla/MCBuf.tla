------------------------------- MODULE MCBuf -------------------------------
(* Instances of Buf for TLC. *)
EXTENDS Buf, TLC

ByteSymmetry == Permutations(Byte)
=============================================================================
