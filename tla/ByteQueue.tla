----------------------------- MODULE ByteQueue -----------------------------
(***************************************************************************)
(* What a byte buffer promises its users: bytes come out in the order they *)
(* went in, none lost, none repeated, until the buffer is dropped.         *)
(***************************************************************************)
EXTENDS Integers, Sequences, SequencesExt

CONSTANT Byte

VARIABLES
    queue,    \* the bytes held, oldest first
    taken     \* the bytes the last step handed out

vars == <<queue, taken>>

TypeOK == queue \in Seq(Byte) /\ taken \in Seq(Byte)

Init == queue = <<>> /\ taken = <<>>

\* Any bytes, or none, behind those held.
Put == queue' \in Seq(Byte) /\ IsPrefix(queue, queue') /\ taken' = <<>>

Take == \E n \in 1..Len(queue) :
            /\ taken' = SubSeq(queue, 1, n)
            /\ queue' = SubSeq(queue, n + 1, Len(queue))

Drop == queue' = <<>> /\ taken' = <<>>

Next == Put \/ Take \/ Drop

Spec == Init /\ [][Next]_vars
=============================================================================
