-------------------------------- MODULE Buf --------------------------------
(***************************************************************************)
(* library/io_buf.c: a byte buffer kept as a chain of segments of fixed    *)
(* size.  Bytes are appended in the last segment, by io_buf_write or from  *)
(* a socket by io_buf_recv, and consumed from the first, by io_buf_read or *)
(* to a socket by io_buf_send.  Each turn of the loop of an operation is a *)
(* step: between two of them the kernel decides what a socket takes or     *)
(* gives.                                                                  *)
(***************************************************************************)
EXTENDS Integers, Sequences, SequencesExt

CONSTANTS
    Byte,
    SegSize,     \* sizeof io_seg.data
    MaxBytes,    \* bound: bytes held
    MaxChunk     \* bound: bytes of one write or read

ASSUME SizesAssumption == SegSize \in Nat \ {0} /\ MaxBytes \in Nat /\ MaxChunk \in Nat

VARIABLES
    chain,       \* the chain from first on: [begin, data], end = Len(data)
    last,        \* b->last is not NULL
    op,          \* the operation under way, or "none"
    tail,        \* bytes io_buf_write has still to store
    want,        \* bytes io_buf_read has still to fetch
    taken,       \* bytes the last step copied out
    used         \* history: io_buf_recv and io_buf_add, if called since the init

bufVars == <<chain, last, op, tail, want, taken, used>>

BufSegment == [begin : 0..SegSize, data : BoundedSeq(Byte, SegSize)]

BufTypeOK ==
    /\ chain \in Seq(BufSegment)
    /\ last \in BOOLEAN
    /\ op \in {"none", "write", "read", "send", "recv"}
    /\ tail \in Seq(Byte)
    /\ want \in Nat
    /\ taken \in Seq(Byte)
    /\ used \subseteq {"io_buf_recv", "io_buf_add"}

io_seg_new == [begin |-> 0, data |-> <<>>]

io_buf_init == chain = <<>> /\ last = FALSE

BufInit ==
    /\ io_buf_init
    /\ op = "none"
    /\ tail = <<>>
    /\ want = 0
    /\ taken = <<>>
    /\ used = {}

Unread(s) == SubSeq(s.data, s.begin + 1, Len(s.data))

Bytes == FlattenSeq([i \in DOMAIN chain |-> Unread(chain[i])])

io_buf_is_empty == chain = <<>>

-----------------------------------------------------------------------------
(* Appending. *)

\* io_buf_get_last_seg makes the first segment when b->last is NULL.
WithLastSeg == IF last THEN chain ELSE <<io_seg_new>>

\* Mutant: a segment counts as full one byte early.
WithRoom_OffByOne ==
    IF Len(Last(chain).data) >= SegSize - 1 THEN Append(chain, io_seg_new) ELSE chain

\* io_buf_get_seg_to_write adds a segment when the last one has no room.
WithRoom ==
    IF Len(Last(chain).data) = SegSize THEN Append(chain, io_seg_new) ELSE chain

Room == SegSize - Len(Last(WithRoom).data)

\* The chain with chunk stored at the end of the segment there is room in.
Stored(chunk) ==
    [WithRoom EXCEPT ![Len(WithRoom)].data = @ \o chunk]

io_buf_write(data) ==
    /\ op = "none"
    /\ chain' = WithLastSeg
    /\ last' = TRUE
    /\ tail' = data
    /\ op' = "write"
    /\ taken' = <<>>
    /\ UNCHANGED <<want, used>>

WriteStep ==
    /\ op = "write"
    /\ LET len == IF Room < Len(tail) THEN Room ELSE Len(tail) IN
           /\ chain' = Stored(SubSeq(tail, 1, len))
           /\ tail' = SubSeq(tail, len + 1, Len(tail))
    /\ op' = IF tail' = <<>> THEN "none" ELSE "write"
    /\ taken' = <<>>
    /\ UNCHANGED <<last, want, used>>

io_buf_recv ==
    /\ op = "none"
    /\ chain' = WithLastSeg
    /\ last' = TRUE
    /\ op' = "recv"
    /\ taken' = <<>>
    /\ used' = used \cup {"io_buf_recv"}
    /\ UNCHANGED <<tail, want>>

\* recv() that fills the room there is is followed by another one.
RecvStep ==
    /\ op = "recv"
    /\ \E chunk \in BoundedSeq(Byte, Room) :
           /\ Len(Bytes) + Len(chunk) <= MaxBytes
           /\ chain' = Stored(chunk)
           /\ op' = IF Len(chunk) = Room THEN "recv" ELSE "none"
    /\ taken' = <<>>
    /\ UNCHANGED <<last, tail, want, used>>

\* The segment prepared for recv() stays in the chain when recv() fails.
RecvFails ==
    /\ op = "recv"
    /\ chain' = WithRoom
    /\ op' = "none"
    /\ taken' = <<>>
    /\ UNCHANGED <<last, tail, want, used>>

\* A segment filled elsewhere becomes the last one.
io_buf_add(data) ==
    /\ op = "none"
    /\ chain' = Append(chain, [begin |-> 0, data |-> data])
    /\ last' = TRUE
    /\ taken' = <<>>
    /\ used' = used \cup {"io_buf_add"}
    /\ UNCHANGED <<op, tail, want>>

-----------------------------------------------------------------------------
(* Consuming. *)

\* Mutant: the pointer to the last segment outlives it.
Consume_KeepsLast(n) ==
    LET s == Head(chain) IN
    /\ taken' = SubSeq(s.data, s.begin + 1, s.begin + n)
    /\ UNCHANGED last
    /\ chain' = IF s.begin + n < Len(s.data)
               THEN [chain EXCEPT ![1].begin = @ + n] ELSE Tail(chain)

\* Mutant: a segment used up stays in the chain.
Consume_KeepsSegment(n) ==
    LET s == Head(chain) IN
    /\ taken' = SubSeq(s.data, s.begin + 1, s.begin + n)
    /\ chain' = [chain EXCEPT ![1].begin = @ + n]
    /\ UNCHANGED last

\* Mutant: bytes taken in part are not counted.
Consume_Repeats(n) ==
    LET s == Head(chain) IN
    /\ taken' = SubSeq(s.data, s.begin + 1, s.begin + n)
    /\ IF s.begin + n < Len(s.data)
       THEN UNCHANGED <<chain, last>>
       ELSE chain' = Tail(chain) /\ last' = (last /\ Tail(chain) # <<>>)

\* n bytes leave the first segment; one consumed to its end is released, and
\* with the last one the pointer to it.
Consume(n) ==
    LET s == Head(chain) IN
    /\ taken' = SubSeq(s.data, s.begin + 1, s.begin + n)
    /\ IF s.begin + n < Len(s.data)
       THEN chain' = [chain EXCEPT ![1].begin = @ + n] /\ UNCHANGED last
       ELSE chain' = Tail(chain) /\ last' = (last /\ Tail(chain) # <<>>)

io_buf_read(size) ==
    /\ op = "none"
    /\ want' = size
    /\ op' = "read"
    /\ taken' = <<>>
    /\ UNCHANGED <<chain, last, tail, used>>

ReadStep ==
    /\ op = "read"
    /\ want > 0 /\ chain # <<>>
    /\ LET unread == Len(Unread(Head(chain)))
           n == IF unread > want THEN want ELSE unread
       IN Consume(n) /\ want' = want - n
    /\ UNCHANGED <<op, tail, used>>

ReadReturns ==
    /\ op = "read"
    /\ want = 0 \/ chain = <<>>
    /\ op' = "none"
    /\ want' = 0
    /\ taken' = <<>>
    /\ UNCHANGED <<chain, last, tail, used>>

io_buf_send ==
    /\ op = "none"
    /\ op' = "send"
    /\ taken' = <<>>
    /\ UNCHANGED <<chain, last, tail, want, used>>

\* send() takes part of what the first segment holds, or all of it.
SendStep ==
    /\ op = "send"
    /\ chain # <<>>
    /\ LET unread == Len(Unread(Head(chain))) IN
       \E n \in 0..unread : Consume(n) /\ op' = IF n < unread THEN "none" ELSE "send"
    /\ UNCHANGED <<tail, want, used>>

\* send() fails, whatever the calls before it have taken.
SendFails ==
    /\ op = "send"
    /\ chain # <<>>
    /\ Unread(Head(chain)) # <<>>
    /\ op' = "none"
    /\ taken' = <<>>
    /\ UNCHANGED <<chain, last, tail, want, used>>

SendReturns ==
    /\ op = "send"
    /\ chain = <<>>
    /\ op' = "none"
    /\ taken' = <<>>
    /\ UNCHANGED <<chain, last, tail, want, used>>

io_buf_free ==
    /\ op = "none"
    /\ chain' = <<>>
    /\ last' = FALSE
    /\ taken' = <<>>
    /\ used' = {}
    /\ UNCHANGED <<op, tail, want>>

BufNext ==
    \/ \E data \in BoundedSeq(Byte, MaxChunk) :
           /\ data # <<>>
           /\ Len(Bytes) + Len(data) <= MaxBytes
           /\ \/ io_buf_write(data)
              \/ Len(data) <= SegSize /\ io_buf_add(data)
    \/ \E size \in 1..MaxChunk : io_buf_read(size)
    \/ io_buf_recv
    \/ WriteStep \/ ReadStep \/ ReadReturns \/ RecvStep \/ RecvFails
    \/ io_buf_send \/ SendStep \/ SendFails \/ SendReturns \/ io_buf_free

BufSpec == BufInit /\ [][BufNext]_bufVars

-----------------------------------------------------------------------------
(* Properties *)

\* b->last is NULL exactly when b->first is: no operation leaves it pointing
\* at a segment already released.
LastIsValid == last <=> chain # <<>>

\* Unless segments have been added from elsewhere, one that io_buf_write or io_buf_recv
\* moved on from is full and not used up: only the last may have room or be
\* empty.  Only the first has been read from.
BufIsPacked ==
    /\ \A i \in DOMAIN chain : chain[i].begin <= Len(chain[i].data)
    /\ "io_buf_add" \notin used => \A i \in 1..(Len(chain) - 1) :
           chain[i].begin < Len(chain[i].data) /\ Len(chain[i].data) = SegSize
    /\ \A i \in 2..Len(chain) : chain[i].begin = 0

\* A buffer nobody receives into is empty, as its users test it by b->first,
\* exactly when it holds no byte: io_stream_write relies on it to choose
\* between sending at once and queueing behind what is queued.
EmptyMeansNoBytes ==
    "io_buf_recv" \notin used /\ op = "none" => (io_buf_is_empty <=> Bytes = <<>>)

\* The chain of segments is a queue of bytes: what is consumed by reads and by
\* sends that take part of it is what was appended, in order.
AbstractBuf == INSTANCE ByteQueue WITH queue <- Bytes

IsByteQueue == AbstractBuf!Spec

=============================================================================
