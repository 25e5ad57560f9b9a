------------------------------- MODULE Queue -------------------------------
(***************************************************************************)
(* library/io_queue.c: a queue of blocks, each a pointer to data that may  *)
(* belong to the queue, kept as a chain of segments of SegLen blocks.      *)
(* Its operations are steps of the module that owns the queue.             *)
(***************************************************************************)
EXTENDS Integers, Sequences, SequencesExt

CONSTANTS
    Data,        \* memory the blocks point at
    SegLen       \* IO_QUEUE_PART_BLOCKS_LENGTH

ASSUME LengthAssumption == SegLen \in Nat \ {0}

\* enum io_queue_block_type: what io_queue_block_free passes to free()
Types == {"IOQB_STATIC", "IOQB_DYNAMIC", "IOQB_LOCAL"}
Freed == Types \ {"IOQB_STATIC"}

Block == [data : Data, type : Types]

VARIABLES
    segs,        \* the chain from first to last: [begin, blocks], end = Len(blocks)
    heap         \* data the queue has been given or has allocated, not released

queueVars == <<segs, heap>>

Segment == {s \in [begin : Nat, blocks : Seq(Block)] :
                s.begin <= Len(s.blocks) /\ Len(s.blocks) <= SegLen}

QueueTypeOK == segs \in Seq(Segment) /\ heap \subseteq Data

QueueInit == segs = <<>> /\ heap = {}

io_queue_seg_new == [begin |-> 0, blocks |-> <<>>]

io_queue_is_empty == segs = <<>>

Waiting(s) == SubSeq(s.blocks, s.begin + 1, Len(s.blocks))

Contents == FlattenSeq([i \in DOMAIN segs |-> Waiting(segs[i])])

-----------------------------------------------------------------------------

\* Mutant: the last place of a segment stays unused.
WithPlace_OffByOne ==
    IF segs = <<>> THEN <<io_queue_seg_new>>
    ELSE IF Len(segs[Len(segs)].blocks) >= SegLen - 1 THEN Append(segs, io_queue_seg_new)
    ELSE segs

\* io_queue_new_block takes the next place of the last segment, if it has one.
WithPlace ==
    IF segs = <<>> THEN <<io_queue_seg_new>>
    ELSE IF Len(segs[Len(segs)].blocks) >= SegLen THEN Append(segs, io_queue_seg_new)
    ELSE segs

\* A dynamic block brings its data; a local one gets a copy in fresh memory.
io_queue_put_block(d, type) ==
    /\ segs' = [WithPlace EXCEPT ![Len(WithPlace)].blocks =
                    Append(@, [data |-> d, type |-> type])]
    /\ heap' = IF type \in Freed THEN heap \cup {d} ELSE heap

\* The oldest block, looked for in the first segment only.
HasBlock == segs # <<>> /\ segs[1].begin < Len(segs[1].blocks)

io_queue_get_block == segs[1].blocks[segs[1].begin + 1]

\* Mutant: the data of the block is not released.
io_queue_block_drop_KeepsData ==
    LET s == segs[1] IN
    /\ HasBlock
    /\ segs' = IF s.begin + 1 < Len(s.blocks) THEN [segs EXCEPT ![1].begin = @ + 1]
               ELSE IF Len(segs) > 1 THEN Tail(segs)
               ELSE <<io_queue_seg_new>>
    /\ UNCHANGED heap

\* A segment used up is released, but for the last one, which is reset.
io_queue_block_drop ==
    LET s == segs[1] IN
    /\ HasBlock
    /\ heap' = IF io_queue_get_block.type \in Freed
               THEN heap \ {io_queue_get_block.data} ELSE heap
    /\ segs' = IF s.begin + 1 < Len(s.blocks) THEN [segs EXCEPT ![1].begin = @ + 1]
               ELSE IF Len(segs) > 1 THEN Tail(segs)
               ELSE <<io_queue_seg_new>>

\* The data of every waiting block is released; the segments are not.
io_queue_free ==
    /\ segs' = <<>>
    /\ heap' = heap \ UNION {{b.data : b \in {c \in ToSet(Waiting(segs[i])) : c.type \in Freed}}
                             : i \in DOMAIN segs}

-----------------------------------------------------------------------------

\* Memory that waiting blocks point at or that the queue has still to release.
InUse == {Contents[i].data : i \in DOMAIN Contents} \cup heap

-----------------------------------------------------------------------------
(* Properties *)

\* Only the first segment has been read from, all but the last are full, and a
\* segment with nothing waiting is the only one.
ChainIsPacked ==
    /\ \A i \in 1..(Len(segs) - 1) : Len(segs[i].blocks) = SegLen
    /\ \A i \in 2..Len(segs) : segs[i].begin = 0
    /\ Len(segs) > 1 => \A i \in DOMAIN segs : segs[i].begin < Len(segs[i].blocks)

\* The queue hands blocks out in order, and releases the data of each block it
\* answers for once, when the block leaves.
Abstract == INSTANCE BlockFifo WITH fifo <- Contents, Owned <- Freed

IsBlockFifo == Abstract!Spec

=============================================================================
