------------------------------ MODULE MCStream ------------------------------
(* Instances of Stream for TLC. *)
EXTENDS Stream, TLC

\* Every callback but the one io_stream_write calls before it queues its rest.
SafeWriters == Callbacks \ {"write_sent"}

ByteSymmetry == Permutations(Byte)
=============================================================================
