----------------------------- MODULE BlockFifo -----------------------------
(***************************************************************************)
(* What a queue of blocks promises: blocks leave in the order they came,   *)
(* and the memory of a block the queue answers for is released when the    *)
(* block leaves, not before and not twice.                                 *)
(***************************************************************************)
EXTENDS Integers, Sequences

CONSTANTS
    Data,       \* memory a block may point at
    Owned       \* the block types whose data the queue releases

VARIABLES
    fifo,       \* blocks [data, type], oldest first
    heap        \* data allocated and to be released by the queue

vars == <<fifo, heap>>

DataOf(b) == IF b.type \in Owned THEN {b.data} ELSE {}

Init == fifo = <<>> /\ heap = {}

\* A block that is not in the queue yet, to the end of it.
Put == /\ Len(fifo') = Len(fifo) + 1
       /\ SubSeq(fifo', 1, Len(fifo)) = fifo
       /\ LET b == fifo'[Len(fifo')] IN
              /\ DataOf(b) \cap heap = {}
              /\ heap' = heap \cup DataOf(b)

Drop == /\ fifo # <<>>
        /\ fifo' = Tail(fifo)
        /\ heap' = heap \ DataOf(Head(fifo))

Clear == fifo' = <<>> /\ heap' = {}

Next == Put \/ Drop \/ Clear

Spec == Init /\ [][Next]_vars
=============================================================================
