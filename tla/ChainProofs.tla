---------------------------- MODULE ChainProofs ----------------------------
(***************************************************************************)
(* The two chains of segments, for segments of any length.                 *)
(*                                                                         *)
(* That of io_queue.c, with the datagram client that drives it: the queue  *)
(* looks for the oldest block in its first segment only, and the client    *)
(* asks for POLLOUT as long as one is there.                               *)
(*                                                                         *)
(* That of io_buf.c, which is changed one loop turn at a time.             *)
(***************************************************************************)
EXTENDS Buf, DgramClient, ListLemmas

\* ChainIsPacked for any chain, and what it leaves open: a segment that is alone
\* has blocks waiting or has been reset.
Packed(s) ==
    /\ \A i \in 1..(Len(s) - 1) : Len(s[i].blocks) = SegLen
    /\ \A i \in 2..Len(s) : s[i].begin = 0
    /\ \A i \in 1..Len(s) : \/ s[i].begin < Len(s[i].blocks)
                            \/ Len(s) = 1 /\ s[i].blocks = <<>>

ChainInv == TypeOK /\ Packed(segs)

\* The fields of a segment.
LEMMA SegmentFields ==
    ASSUME NEW s \in Segment
    PROVE  /\ s.begin \in Nat /\ s.blocks \in Seq(Block) /\ Len(s.blocks) \in Nat
           /\ s.begin <= Len(s.blocks) /\ Len(s.blocks) <= SegLen
           /\ s = [begin |-> s.begin, blocks |-> s.blocks]
BY DEF Segment

LEMMA IsSegment ==
    ASSUME NEW begin \in Nat, NEW blocks \in Seq(Block), begin <= Len(blocks), Len(blocks) <= SegLen
    PROVE  [begin |-> begin, blocks |-> blocks] \in Segment
BY DEF Segment

\* A block is stored behind those of a segment that has room.
LEMMA StoredBlock ==
    ASSUME NEW s \in Segment, NEW b \in Block, Len(s.blocks) < SegLen
    PROVE  /\ [s EXCEPT !.blocks = Append(@, b)] \in Segment
           /\ [s EXCEPT !.blocks = Append(@, b)].begin = s.begin
           /\ Len([s EXCEPT !.blocks = Append(@, b)].blocks) = Len(s.blocks) + 1
<1>1. SegLen \in Nat
  BY LengthAssumption
<1>2. /\ s.begin \in Nat /\ Len(s.blocks) \in Nat /\ s.begin <= Len(s.blocks)
      /\ s \in [begin : Nat, blocks : Seq(Block)]
  BY DEF Segment
<1>3. Append(s.blocks, b) \in Seq(Block) /\ Len(Append(s.blocks, b)) = Len(s.blocks) + 1
  BY <1>2, AppendProperties
<1>4. [s EXCEPT !.blocks = Append(@, b)] = [begin |-> s.begin, blocks |-> Append(s.blocks, b)]
  <2>1. PICK a : a = Append(s.blocks, b)
    OBVIOUS
  <2>2. [s EXCEPT !.blocks = a] = [begin |-> s.begin, blocks |-> a]
    BY <1>2
  <2> QED
    BY <2>1, <2>2
<1>5. s.begin <= Len(s.blocks) + 1 /\ Len(s.blocks) + 1 <= SegLen
  BY <1>1, <1>2
<1> QED
  BY <1>2, <1>3, <1>4, <1>5, IsSegment

\* A new segment is empty.
LEMMA NewSegment ==
    io_queue_seg_new \in Segment /\ io_queue_seg_new.begin = 0 /\ io_queue_seg_new.blocks = <<>>
<1>1. PICK b : b = <<>>
  OBVIOUS
<1>2. b \in Seq(Block) /\ 0 \in Nat /\ 0 <= Len(b) /\ Len(b) <= SegLen
  BY <1>1, LengthAssumption
<1>3. [begin |-> 0, blocks |-> b] \in Segment
  BY <1>2, IsSegment
<1> QED
  BY <1>1, <1>3 DEF io_queue_seg_new

\* The last segment has room when io_queue_new_block is done with the chain; the
\* segments before it are full.
LEMMA PlaceIsThere ==
    ASSUME segs \in Seq(Segment), Packed(segs)
    PROVE  /\ WithPlace \in Seq(Segment) /\ Len(WithPlace) \in Nat \ {0}
           /\ Len(WithPlace[Len(WithPlace)].blocks) < SegLen
           /\ \A i \in 1..(Len(WithPlace) - 1) :
                  Len(WithPlace[i].blocks) = SegLen /\ WithPlace[i].begin < SegLen
           /\ \A i \in 2..Len(WithPlace) : WithPlace[i].begin = 0
<1>0. SegLen \in Nat /\ SegLen > 0
  BY LengthAssumption
<1>1. CASE segs = <<>>
  <2>1. WithPlace = <<io_queue_seg_new>>
    BY <1>1 DEF WithPlace
  <2>2. /\ Len(<<io_queue_seg_new>>) = 1 /\ <<io_queue_seg_new>>[1] = io_queue_seg_new
        /\ <<io_queue_seg_new>> \in Seq(Segment)
    BY NewSegment
  <2> QED
    BY <1>0, <2>1, <2>2, NewSegment
<1>2. CASE segs # <<>> /\ Len(segs[Len(segs)].blocks) >= SegLen
  <2>1. WithPlace = Append(segs, io_queue_seg_new)
    BY <1>2 DEF WithPlace
  <2>2. /\ Append(segs, io_queue_seg_new) \in Seq(Segment)
        /\ Len(Append(segs, io_queue_seg_new)) = Len(segs) + 1
        /\ \A i \in 1..Len(segs) : Append(segs, io_queue_seg_new)[i] = segs[i]
        /\ Append(segs, io_queue_seg_new)[Len(segs) + 1] = io_queue_seg_new
    BY NewSegment, AppendProperties
  <2>3. Len(segs) \in Nat /\ Len(segs) > 0
    BY <1>2
  <2>4. ASSUME NEW i \in 1..Len(segs)
        PROVE  Len(segs[i].blocks) = SegLen /\ segs[i].begin < SegLen
    <3>1. /\ segs[i].begin \in Nat /\ Len(segs[i].blocks) \in Nat
          /\ Len(segs[i].blocks) <= SegLen
      BY SegmentFields
    <3>2. Len(segs[i].blocks) = SegLen
      <4>1. CASE i = Len(segs)
        BY <1>0, <1>2, <3>1, <4>1
      <4>2. CASE i # Len(segs)
        BY <2>3, <4>2 DEF Packed
      <4> QED
        BY <4>1, <4>2
    <3>3. segs[i].blocks # <<>>
      BY <1>0, <3>2
    <3> QED
      BY <3>2, <3>3 DEF Packed
  <2>5. \A i \in 2..Len(segs) : segs[i].begin = 0
    BY DEF Packed
  <2> DEFINE w == Append(segs, io_queue_seg_new)
  <2> HIDE DEF w
  <2>6. /\ w \in Seq(Segment) /\ Len(w) = Len(segs) + 1
        /\ \A i \in 1..Len(segs) : w[i] = segs[i]
        /\ w[Len(segs) + 1] = io_queue_seg_new /\ WithPlace = w
    BY <2>1, <2>2 DEF w
  <2>7. Len(w[Len(w)].blocks) < SegLen
    BY <1>0, <2>6, NewSegment
  <2>8. \A i \in 1..(Len(w) - 1) : Len(w[i].blocks) = SegLen /\ w[i].begin < SegLen
    BY <2>3, <2>4, <2>6
  <2>9. ASSUME NEW i \in 2..Len(w) PROVE w[i].begin = 0
    BY <2>3, <2>5, <2>6, NewSegment
  <2> QED
    BY <2>3, <2>6, <2>7, <2>8, <2>9
<1>3. CASE segs # <<>> /\ ~(Len(segs[Len(segs)].blocks) >= SegLen)
  <2>1. WithPlace = segs /\ Len(segs) \in Nat \ {0}
    BY <1>3 DEF WithPlace
  <2>2. Len(segs[Len(segs)].blocks) \in Nat
    BY <2>1, SegmentFields
  <2>3. ASSUME NEW i \in 1..(Len(segs) - 1)
        PROVE  Len(segs[i].blocks) = SegLen /\ segs[i].begin < SegLen
    <3>1. i \in 1..Len(segs) /\ Len(segs[i].blocks) = SegLen
      BY <2>1 DEF Packed
    <3>2. segs[i].blocks # <<>>
      BY <1>0, <3>1
    <3> QED
      BY <3>1, <3>2 DEF Packed
  <2> QED
    BY <1>0, <1>3, <2>1, <2>2, <2>3 DEF Packed
<1> QED
  BY <1>1, <1>2, <1>3

\* A block that is put leaves the chain packed.
LEMMA PutKeepsChain ==
    ASSUME segs \in Seq(Segment), Packed(segs), NEW d \in Data, NEW type \in Types,
           io_queue_put_block(d, type)
    PROVE  segs' \in Seq(Segment) /\ Packed(segs')
<1>1. PICK w, b : w = WithPlace /\ b = [data |-> d, type |-> type]
  OBVIOUS
<1>2. /\ w \in Seq(Segment) /\ Len(w) \in Nat \ {0}
      /\ Len(w[Len(w)].blocks) < SegLen
      /\ \A i \in 1..(Len(w) - 1) : Len(w[i].blocks) = SegLen /\ w[i].begin < SegLen
      /\ \A i \in 2..Len(w) : w[i].begin = 0
  BY <1>1, PlaceIsThere
<1>3. b \in Block
  BY <1>1 DEF Block
<1>4. PICK n, s : n = Len(w) /\ s = [w[n] EXCEPT !.blocks = Append(@, b)]
  OBVIOUS
<1>5. n \in 1..Len(w) /\ w[n] \in Segment /\ Len(w[n].blocks) < SegLen
  BY <1>2, <1>4
<1>6. s \in Segment /\ s.begin = w[n].begin /\ Len(s.blocks) = Len(w[n].blocks) + 1
  BY <1>3, <1>4, <1>5, StoredBlock
<1>7. segs' = [w EXCEPT ![n] = s]
  BY <1>1, <1>4 DEF io_queue_put_block
<1>8. PICK t : t = [w EXCEPT ![n] = s]
  OBVIOUS
<1>9. /\ t \in Seq(Segment) /\ Len(t) = n
      /\ \A j \in 1..Len(w) : t[j] = IF j = n THEN s ELSE w[j]
  BY <1>2, <1>4, <1>5, <1>6, <1>8, ExceptSeq
<1>10. n \in Nat /\ n > 0 /\ \A j \in 1..n : t[j] = IF j = n THEN s ELSE w[j]
  <2>1. n = Len(w)
    BY <1>4
  <2>2. n \in Nat /\ n > 0
    BY <1>2, <2>1
  <2>3. \A j \in 1..n : t[j] = IF j = n THEN s ELSE w[j]
    BY <1>9, <2>1
  <2> QED
    BY <2>2, <2>3
<1>11. ASSUME NEW i \in 1..(Len(t) - 1) PROVE Len(t[i].blocks) = SegLen
  BY <1>2, <1>4, <1>9, <1>10
<1>12. ASSUME NEW i \in 2..Len(t) PROVE t[i].begin = 0
  <2>1. i \in 2..Len(w) /\ w[i].begin = 0
    BY <1>2, <1>4, <1>9
  <2>2. t[i] = IF i = n THEN s ELSE w[i]
    BY <1>9, <1>10, <1>12
  <2>3. CASE i = n
    BY <1>6, <2>1, <2>2, <2>3
  <2>4. CASE i # n
    BY <2>1, <2>2, <2>4
  <2> QED
    BY <2>3, <2>4
<1>13. ASSUME NEW i \in 1..Len(t) PROVE t[i].begin < Len(t[i].blocks)
  <2>1. CASE i = n
    <3>1. w[n].begin \in Nat /\ Len(w[n].blocks) \in Nat /\ w[n].begin <= Len(w[n].blocks)
      BY <1>5, SegmentFields
    <3>2. t[i] = s
      BY <1>10, <2>1
    <3> QED
      BY <1>6, <3>1, <3>2
  <2>2. CASE i # n
    <3>1. t[i] = w[i] /\ i \in 1..(Len(w) - 1)
      BY <1>4, <1>9, <1>10, <2>2
    <3> QED
      BY <1>2, <3>1
  <2> QED
    BY <2>1, <2>2
<1>14. Packed(t)
  BY <1>11, <1>12, <1>13 DEF Packed
<1> QED
  BY <1>7, <1>8, <1>9, <1>14

\* A block that is dropped leaves the chain packed, and at least one segment.
LEMMA DropKeepsChain ==
    ASSUME segs \in Seq(Segment), Packed(segs), io_queue_block_drop
    PROVE  segs' \in Seq(Segment) /\ Packed(segs') /\ segs' # <<>>
<1>1. segs # <<>> /\ Len(segs) \in Nat /\ Len(segs) > 0 /\ segs[1] \in Segment
  BY DEF io_queue_block_drop, HasBlock
<1>2. PICK s : s = segs[1]
  OBVIOUS
<1>3. /\ s \in Segment /\ s.begin \in Nat /\ Len(s.blocks) \in Nat
      /\ s.blocks \in Seq(Block) /\ Len(s.blocks) <= SegLen
  BY <1>1, <1>2, SegmentFields
<1>4. CASE s.begin + 1 < Len(s.blocks)
  <2>1. segs' = [segs EXCEPT ![1].begin = @ + 1]
    BY <1>2, <1>4 DEF io_queue_block_drop
  <2>2. PICK t : t = [s EXCEPT !.begin = @ + 1]
    OBVIOUS
  <2>3. t = [begin |-> s.begin + 1, blocks |-> s.blocks]
    BY <1>3, <2>2 DEF Segment
  <2>4. t \in Segment /\ t.begin = s.begin + 1 /\ t.blocks = s.blocks
    <3>1. s.begin + 1 \in Nat /\ s.begin + 1 <= Len(s.blocks)
      BY <1>3, <1>4
    <3>2. t \in Segment
      BY <1>3, <2>3, <3>1, IsSegment
    <3> QED
      BY <2>3, <3>2
  <2>5. segs' = [segs EXCEPT ![1] = t]
    BY <1>2, <2>1, <2>2
  <2>6. PICK u : u = [segs EXCEPT ![1] = t]
    OBVIOUS
  <2>7. 1 \in 1..Len(segs)
    BY <1>1
  <2>8. /\ u \in Seq(Segment) /\ Len(u) = Len(segs)
        /\ \A j \in 1..Len(segs) : u[j] = IF j = 1 THEN t ELSE segs[j]
    BY <2>4, <2>6, <2>7, ExceptSeq
  <2>9. ASSUME NEW i \in 1..(Len(u) - 1) PROVE Len(u[i].blocks) = SegLen
    BY <1>1, <1>2, <2>4, <2>8 DEF Packed
  <2>10. ASSUME NEW i \in 2..Len(u) PROVE u[i].begin = 0
    BY <1>1, <2>8 DEF Packed
  <2>11. ASSUME NEW i \in 1..Len(u)
         PROVE  u[i].begin < Len(u[i].blocks) \/ (Len(u) = 1 /\ u[i].blocks = <<>>)
    <3>1. CASE i = 1
      BY <1>4, <2>4, <2>7, <2>8, <3>1
    <3>2. CASE i # 1
      BY <2>8, <3>2 DEF Packed
    <3> QED
      BY <3>1, <3>2
  <2>12. Packed(u) /\ u # <<>>
    BY <1>1, <2>8, <2>9, <2>10, <2>11 DEF Packed
  <2> QED
    BY <2>5, <2>6, <2>8, <2>12
<1>5. CASE ~(s.begin + 1 < Len(s.blocks)) /\ Len(segs) > 1
  <2>0. Len(segs) \in Nat /\ Len(segs) > 1 /\ ~(Len(segs) = 1)
    <3>1. \A n \in Nat : n > 1 => ~(n = 1)
      OBVIOUS
    <3> QED
      BY <1>1, <1>5, <3>1
  <2>1. segs' = Tail(segs)
    BY <1>2, <1>5 DEF io_queue_block_drop
  <2>2. PICK u : u = Tail(segs)
    OBVIOUS
  <2>3. /\ u \in Seq(Segment) /\ Len(u) = Len(segs) - 1
        /\ \A i \in 1..Len(u) : u[i] = segs[i + 1]
    BY <1>1, <2>2, HeadTailProperties
  <2>4. ASSUME NEW i \in 1..Len(u)
        PROVE  /\ i + 1 \in 2..Len(segs) /\ i + 1 \in 1..Len(segs)
               /\ u[i] = segs[i + 1]
               /\ i < Len(u) => i + 1 \in 1..(Len(segs) - 1)
    BY <1>1, <2>3
  <2>5. ASSUME NEW i \in 1..(Len(u) - 1) PROVE Len(u[i].blocks) = SegLen
    <3>1. i \in 1..Len(u) /\ i < Len(u)
      BY <1>1, <2>3
    <3> QED
      BY <2>4, <3>1 DEF Packed
  <2>6. ASSUME NEW i \in 1..Len(u)
        PROVE  u[i].begin = 0 /\ u[i].begin < Len(u[i].blocks)
    <3>1. segs[i + 1].begin = 0 /\ segs[i + 1].begin < Len(segs[i + 1].blocks)
      BY <2>0, <2>4 DEF Packed
    <3> QED
      BY <2>4, <3>1
  <2>7. u # <<>>
    BY <1>1, <1>5, <2>3
  <2>8. Packed(u)
    BY <2>3, <2>5, <2>6 DEF Packed
  <2> QED
    BY <2>1, <2>2, <2>3, <2>7, <2>8
<1>6. CASE ~(s.begin + 1 < Len(s.blocks)) /\ ~(Len(segs) > 1)
  <2>1. segs' = <<io_queue_seg_new>>
    BY <1>2, <1>6 DEF io_queue_block_drop
  <2>2. PICK u : u = <<io_queue_seg_new>>
    OBVIOUS
  <2>3. u \in Seq(Segment) /\ Len(u) = 1 /\ u[1] = io_queue_seg_new
    BY <2>2, NewSegment
  <2>4. Packed(u) /\ u # <<>>
    BY <2>3, NewSegment DEF Packed
  <2> QED
    BY <2>1, <2>2, <2>3, <2>4
<1> QED
  BY <1>4, <1>5, <1>6

-----------------------------------------------------------------------------
(* What the chain holds *)

\* The blocks waiting in each segment of a chain, and in all of them.
WaitingIn(s) == [i \in DOMAIN s |-> Waiting(s[i])]

BlocksOf(s) == FlattenSeq(WaitingIn(s))

LEMMA WaitingType ==
    ASSUME NEW s \in Seq(Segment)
    PROVE  /\ WaitingIn(s) \in Seq(Seq(Block)) /\ Len(WaitingIn(s)) = Len(s)
           /\ \A i \in 1..Len(s) : WaitingIn(s)[i] = Waiting(s[i])
<1>1. ASSUME NEW t \in Segment PROVE Waiting(t) \in Seq(Block)
  <2>1. /\ t.begin \in Nat /\ t.blocks \in Seq(Block) /\ Len(t.blocks) \in Nat
    BY SegmentFields
  <2>2. t.begin + 1 \in Int /\ \A i \in (t.begin + 1)..Len(t.blocks) : t.blocks[i] \in Block
    <3>1. (t.begin + 1)..Len(t.blocks) \subseteq 1..Len(t.blocks)
      BY <2>1
    <3> QED
      BY <2>1, <3>1, ElementOfSeq
  <2> QED
    BY <2>1, <2>2, SubSeqProperties DEF Waiting
<1>2. DOMAIN s = 1..Len(s) /\ Len(s) \in Nat /\ \A i \in 1..Len(s) : s[i] \in Segment
  OBVIOUS
<1>3. \A i \in 1..Len(s) : Waiting(s[i]) \in Seq(Block)
  BY <1>1, <1>2
<1>4. WaitingIn(s) = [i \in 1..Len(s) |-> Waiting(s[i])]
  BY <1>2 DEF WaitingIn
<1> QED
  BY <1>2, <1>3, <1>4

LEMMA BlocksType ==
    ASSUME NEW s \in Seq(Segment)
    PROVE  BlocksOf(s) \in Seq(Block)
BY WaitingType, FlattenType DEF BlocksOf

\* What the first segment begins with and the last one ends with, for lists of blocks.
LEMMA BlocksFirst ==
    \A q \in Seq(Seq(Block)), a, b \in Seq(Block) :
        q # <<>> /\ q[1] = a \o b => FlattenSeq(q) = a \o FlattenSeq([q EXCEPT ![1] = b])
BY FlattenFirst

LEMMA BlocksLast ==
    \A q \in Seq(Seq(Block)), a, b \in Seq(Block) :
        q # <<>> /\ q[Len(q)] = a
            => FlattenSeq([q EXCEPT ![Len(q)] = a \o b]) = FlattenSeq(q) \o b
BY FlattenLast

\* A new segment adds nothing.
LEMMA NewSegmentIsEmpty ==
    ASSUME NEW s \in Seq(Segment)
    PROVE  BlocksOf(Append(s, io_queue_seg_new)) = BlocksOf(s)
<1> DEFINE r == Append(s, io_queue_seg_new)
           q == WaitingIn(s)
<1>1. Waiting(io_queue_seg_new) = <<>>
  <2>1. SubSeq(<<>>, 1, 0) = <<>>
    BY SubSeqEmpty
  <2> QED
    BY <2>1 DEF Waiting, io_queue_seg_new
<1>2. /\ r \in Seq(Segment) /\ Len(r) = Len(s) + 1 /\ r[Len(s) + 1] = io_queue_seg_new
      /\ \A i \in 1..Len(s) : r[i] = s[i]
  BY NewSegment, AppendProperties
<1>3. /\ q \in Seq(Seq(Block)) /\ Len(q) = Len(s)
      /\ \A i \in 1..Len(s) : q[i] = Waiting(s[i])
  BY WaitingType
<1> HIDE DEF r, q
<1>4. /\ WaitingIn(r) \in Seq(Seq(Block)) /\ Len(WaitingIn(r)) = Len(r)
      /\ \A i \in 1..Len(r) : WaitingIn(r)[i] = Waiting(r[i])
  BY <1>2, WaitingType
<1>5. <<>> \in Seq(Block) /\ Len(s) \in Nat
  OBVIOUS
<1>6. /\ Append(q, <<>>) \in Seq(Seq(Block)) /\ Len(Append(q, <<>>)) = Len(q) + 1
      /\ \A i \in 1..Len(q) : Append(q, <<>>)[i] = q[i]
      /\ Append(q, <<>>)[Len(q) + 1] = <<>>
  BY <1>3, <1>5, AppendProperties
<1>7. WaitingIn(r) = Append(q, <<>>)
  <2>1. Len(WaitingIn(r)) = Len(Append(q, <<>>)) /\ Len(WaitingIn(r)) = Len(s) + 1
    BY <1>2, <1>3, <1>4, <1>6
  <2>2. ASSUME NEW i \in 1..(Len(s) + 1) PROVE WaitingIn(r)[i] = Append(q, <<>>)[i]
    <3>1. WaitingIn(r)[i] = Waiting(r[i])
      BY <1>2, <1>4, Zenon
    <3>2. CASE i = Len(s) + 1
      BY <1>1, <1>2, <1>3, <1>6, <3>1, <3>2, Zenon
    <3>3. CASE i # Len(s) + 1
      <4>1. i \in 1..Len(s)
        BY <1>5, <3>3
      <4> QED
        BY <1>2, <1>3, <1>6, <3>1, <4>1, Zenon
    <3> QED
      BY <3>2, <3>3
  <2> QED
    BY <1>4, <1>6, <2>1, <2>2, SeqEqual
<1>8. FlattenSeq(Append(q, <<>>)) = FlattenSeq(q) \o <<>>
  BY <1>3, <1>5, FlattenAppend
<1>9. FlattenSeq(q) \o <<>> = FlattenSeq(q)
  BY <1>3, FlattenType, ConcatEmptySeq
<1> QED
  BY <1>7, <1>8, <1>9 DEF r, q, BlocksOf

\* A changed segment is a changed piece.
LEMMA WaitingExcept ==
    ASSUME NEW s \in Seq(Segment), NEW n \in 1..Len(s), NEW t \in Segment
    PROVE  WaitingIn([s EXCEPT ![n] = t]) = [WaitingIn(s) EXCEPT ![n] = Waiting(t)]
<1>1. DOMAIN [s EXCEPT ![n] = t] = DOMAIN s /\ n \in DOMAIN s
  OBVIOUS
<1>2. \A i \in DOMAIN s : [s EXCEPT ![n] = t][i] = IF i = n THEN t ELSE s[i]
  OBVIOUS
<1> DEFINE u == [s EXCEPT ![n] = t]
<1> HIDE DEF u
<1>3. WaitingIn(u) = [i \in DOMAIN s |-> IF i = n THEN Waiting(t) ELSE Waiting(s[i])]
  BY <1>1, <1>2 DEF u, WaitingIn
<1>4. [WaitingIn(s) EXCEPT ![n] = Waiting(t)]
          = [i \in DOMAIN s |-> IF i = n THEN Waiting(t) ELSE Waiting(s[i])]
  BY DEF WaitingIn
<1> QED
  BY <1>3, <1>4 DEF u

\* A block stored in a segment waits behind those that wait there.
LEMMA StoredWaits ==
    ASSUME NEW s \in Segment, NEW b \in Block, Len(s.blocks) < SegLen
    PROVE  /\ Waiting(s) \in Seq(Block)
           /\ Waiting([s EXCEPT !.blocks = Append(@, b)]) = Waiting(s) \o <<b>>
<1>1. /\ s.begin \in Nat /\ s.blocks \in Seq(Block) /\ Len(s.blocks) \in Nat
      /\ s.begin <= Len(s.blocks) /\ s = [begin |-> s.begin, blocks |-> s.blocks]
  BY SegmentFields
<1>2. PICK q, m : q = s.blocks /\ m = s.begin + 1
  OBVIOUS
<1>3. q \in Seq(Block) /\ m \in 1..(Len(q) + 1) /\ Len(q) \in Nat
  BY <1>1, <1>2
<1>4. <<b>> \in Seq(Block) /\ Len(<<b>>) = 1
  OBVIOUS
<1>5. SubSeq(q \o <<b>>, m, Len(q) + 1) = SubSeq(q, m, Len(q)) \o <<b>>
  <2>1. PICK o : o = <<b>>
    OBVIOUS
  <2>2. SubSeq(q \o o, m, Len(q) + Len(o)) = SubSeq(q, m, Len(q)) \o o
    BY <1>3, <1>4, <2>1, SubSeqOfLonger
  <2>3. Len(o) = 1
    BY <1>4, <2>1
  <2> QED
    BY <2>1, <2>2, <2>3, Zenon
<1>6. Append(q, b) = q \o <<b>> /\ Len(Append(q, b)) = Len(q) + 1
  BY <1>3, AppendIsConcat, AppendProperties
<1>7. PICK a : a = Append(s.blocks, b)
  OBVIOUS
<1>8. [s EXCEPT !.blocks = a] = [begin |-> s.begin, blocks |-> a]
  BY <1>1
<1>9. Waiting([begin |-> s.begin, blocks |-> a]) = SubSeq(a, m, Len(a))
  BY <1>2 DEF Waiting
<1>10. Waiting(s) = SubSeq(q, m, Len(q))
  BY <1>2 DEF Waiting
<1>11. Waiting(s) \in Seq(Block)
  <2>1. m \in Int /\ Len(q) \in Int /\ m..Len(q) \subseteq 1..Len(q)
    BY <1>3
  <2>2. \A i \in m..Len(q) : q[i] \in Block
    BY <1>3, <2>1, ElementOfSeq
  <2> QED
    BY <1>10, <2>1, <2>2, SubSeqProperties
<1>12. Waiting([s EXCEPT !.blocks = a]) = Waiting(s) \o <<b>>
  <2>1. a = q \o <<b>> /\ Len(a) = Len(q) + 1
    BY <1>2, <1>6, <1>7
  <2> QED
    BY <1>5, <1>8, <1>9, <1>10, <2>1, Zenon
<1> QED
  BY <1>7, <1>11, <1>12, Zenon

\* A block that is put waits behind all the others.
LEMMA PutAppends ==
    ASSUME segs \in Seq(Segment), Packed(segs), NEW d \in Data, NEW type \in Types,
           io_queue_put_block(d, type)
    PROVE  BlocksOf(segs') = BlocksOf(segs) \o <<[data |-> d, type |-> type]>>
<1>1. PICK w, b : w = WithPlace /\ b = [data |-> d, type |-> type]
  OBVIOUS
<1>2. /\ w \in Seq(Segment) /\ Len(w) \in Nat \ {0}
      /\ Len(w[Len(w)].blocks) < SegLen
  BY <1>1, PlaceIsThere
<1>3. b \in Block
  BY <1>1 DEF Block
<1>4. PICK n, s : n = Len(w) /\ s = [w[n] EXCEPT !.blocks = Append(@, b)]
  OBVIOUS
<1>5. n \in 1..Len(w) /\ w[n] \in Segment /\ Len(w[n].blocks) < SegLen
  BY <1>2, <1>4
<1>6. s \in Segment
  BY <1>3, <1>4, <1>5, StoredBlock
<1>7. segs' = [w EXCEPT ![n] = s]
  BY <1>1, <1>4 DEF io_queue_put_block
<1>8. Waiting(w[n]) \in Seq(Block) /\ Waiting(s) = Waiting(w[n]) \o <<b>>
  BY <1>3, <1>4, <1>5, StoredWaits
<1>9. BlocksOf(w) = BlocksOf(segs)
  <2>1. CASE WithPlace = segs
    BY <1>1, <2>1
  <2>2. CASE WithPlace = Append(segs, io_queue_seg_new)
    BY <1>1, <2>2, NewSegmentIsEmpty
  <2>3. segs = <<>> => <<io_queue_seg_new>> = Append(segs, io_queue_seg_new)
    OBVIOUS
  <2> QED
    BY <2>1, <2>2, <2>3 DEF WithPlace
<1>10. WaitingIn(segs') = [WaitingIn(w) EXCEPT ![n] = Waiting(s)]
  BY <1>2, <1>5, <1>6, <1>7, WaitingExcept
<1>11. PICK q, a, o : q = WaitingIn(w) /\ a = Waiting(w[n]) /\ o = <<b>>
  OBVIOUS
<1>12. q \in Seq(Seq(Block)) /\ Len(q) = Len(w) /\ \A i \in 1..Len(w) : q[i] = Waiting(w[i])
  BY <1>2, <1>11, WaitingType
<1>13. a \in Seq(Block) /\ o \in Seq(Block)
  BY <1>3, <1>8, <1>11
<1>14. q # <<>> /\ n = Len(q)
  BY <1>2, <1>4, <1>12
<1>15. q[n] = a
  BY <1>5, <1>11, <1>12, Zenon
<1>16. FlattenSeq([q EXCEPT ![Len(q)] = a \o o]) = FlattenSeq(q) \o o
  <2>1. q \in Seq(Seq(Block))
    BY <1>12
  <2>2. q # <<>> /\ q[Len(q)] = a
             => FlattenSeq([q EXCEPT ![Len(q)] = a \o o]) = FlattenSeq(q) \o o
    BY <1>13, <2>1, BlocksLast, Zenon
  <2>3. q # <<>> /\ q[Len(q)] = a
    BY <1>14, <1>15, Zenon
  <2> QED
    BY <2>2, <2>3, Zenon
<1>17. Waiting(s) = a \o o
  BY <1>8, <1>11
<1>18. FlattenSeq(WaitingIn(segs')) = FlattenSeq(q) \o o
  BY <1>10, <1>11, <1>14, <1>16, <1>17, Zenon
<1> QED
  BY <1>1, <1>9, <1>11, <1>18, Zenon DEF BlocksOf

\* The block that get_block finds is the oldest of those that wait, and the one
\* that drop takes away.
LEMMA DropTakesOldest ==
    ASSUME segs \in Seq(Segment), Packed(segs), io_queue_block_drop
    PROVE  /\ io_queue_get_block \in Block
           /\ BlocksOf(segs) = <<io_queue_get_block>> \o BlocksOf(segs')
<1>1. segs # <<>> /\ Len(segs) \in Nat /\ Len(segs) > 0 /\ segs[1] \in Segment
  BY DEF io_queue_block_drop, HasBlock
<1>2. PICK s, b, q : s = segs[1] /\ b = io_queue_get_block /\ q = WaitingIn(segs)
  OBVIOUS
<1>3. /\ s \in Segment /\ s.begin \in Nat /\ Len(s.blocks) \in Nat
      /\ s.blocks \in Seq(Block) /\ Len(s.blocks) <= SegLen
      /\ s = [begin |-> s.begin, blocks |-> s.blocks]
  BY <1>1, <1>2, SegmentFields
<1>4. s.begin < Len(s.blocks) /\ b = s.blocks[s.begin + 1]
  BY <1>2 DEF io_queue_block_drop, HasBlock, io_queue_get_block
<1>5. b \in Block
  BY <1>3, <1>4
<1>6. /\ q \in Seq(Seq(Block)) /\ Len(q) = Len(segs)
      /\ \A i \in 1..Len(segs) : q[i] = Waiting(segs[i])
  BY <1>2, WaitingType
<1>7. q # <<>> /\ q[1] = Waiting(s)
  <2>1. 1 \in 1..Len(segs)
    BY <1>1
  <2>2. q[1] = Waiting(s)
    BY <1>2, <1>6, <2>1, Zenon
  <2> QED
    BY <1>1, <1>6, <2>2
<1> DEFINE rest == SubSeq(s.blocks, s.begin + 2, Len(s.blocks))
<1>8. Waiting(s) = <<b>> \o rest
  <2>1. PICK u, m, n : u = s.blocks /\ m = s.begin + 1 /\ n = Len(s.blocks)
    OBVIOUS
  <2>2. u \in Seq(Block) /\ m \in 1..Len(u) /\ n \in m..Len(u) /\ m + 1 = s.begin + 2
    BY <1>3, <1>4, <2>1
  <2>3. SubSeq(u, m, n) = <<u[m]>> \o SubSeq(u, m + 1, n)
    BY <2>2, SubSeqRecursiveFirst
  <2> QED
    BY <1>4, <2>1, <2>2, <2>3, Zenon DEF Waiting
<1>9. rest \in Seq(Block)
  <2>1. PICK u, m, n : u = s.blocks /\ m = s.begin + 2 /\ n = Len(s.blocks)
    OBVIOUS
  <2>2. u \in Seq(Block) /\ m \in Int /\ n \in Int /\ m..n \subseteq 1..Len(u)
    BY <1>3, <2>1
  <2>3. \A i \in m..n : u[i] \in Block
    BY <2>2, ElementOfSeq
  <2>4. SubSeq(u, m, n) \in Seq(Block)
    BY <2>2, <2>3, SubSeqProperties
  <2> QED
    BY <2>1, <2>4, Zenon
<1>10. CASE s.begin + 1 < Len(s.blocks)
  <2>1. segs' = [segs EXCEPT ![1].begin = @ + 1]
    BY <1>2, <1>10 DEF io_queue_block_drop
  <2>2. PICK t : t = [s EXCEPT !.begin = @ + 1]
    OBVIOUS
  <2>3. t = [begin |-> s.begin + 1, blocks |-> s.blocks]
    BY <1>3, <2>2
  <2>4. t \in Segment
    <3>1. s.begin + 1 \in Nat /\ s.begin + 1 <= Len(s.blocks)
      BY <1>3, <1>10
    <3> QED
      BY <1>3, <2>3, <3>1, IsSegment
  <2>5. segs' = [segs EXCEPT ![1] = t] /\ 1 \in 1..Len(segs)
    BY <1>1, <1>2, <2>1, <2>2
  <2>6. Waiting(t) = rest
    <3>1. (s.begin + 1) + 1 = s.begin + 2
      BY <1>3
    <3> QED
      BY <2>3, <3>1 DEF Waiting
  <2>7. WaitingIn(segs') = [q EXCEPT ![1] = rest]
    <3>1. WaitingIn([segs EXCEPT ![1] = t]) = [WaitingIn(segs) EXCEPT ![1] = Waiting(t)]
      BY <2>4, <2>5, WaitingExcept
    <3> QED
      BY <1>2, <2>5, <2>6, <3>1, Zenon
  <2>8. FlattenSeq(q) = <<b>> \o FlattenSeq([q EXCEPT ![1] = rest])
    <3>1. PICK o, r : o = <<b>> /\ r = rest
      OBVIOUS
    <3>2. q \in Seq(Seq(Block)) /\ o \in Seq(Block) /\ r \in Seq(Block)
      BY <1>5, <1>6, <1>9, <3>1
    <3>3. q # <<>> /\ q[1] = o \o r => FlattenSeq(q) = o \o FlattenSeq([q EXCEPT ![1] = r])
      BY <3>2, BlocksFirst, Zenon
    <3> QED
      BY <1>7, <1>8, <3>1, <3>3, Zenon
  <2> QED
    BY <1>2, <1>5, <2>7, <2>8, Zenon DEF BlocksOf
<1>11. CASE ~(s.begin + 1 < Len(s.blocks))
  <2>1. Waiting(s) = <<b>>
    <3>1. s.begin + 1 = Len(s.blocks)
      BY <1>3, <1>4, <1>11
    <3>2. rest = <<>>
      BY <1>3, <3>1, SubSeqEmpty
    <3>3. <<b>> \o <<>> = <<b>>
      BY <1>5, ConcatEmptySeq
    <3> QED
      BY <1>8, <3>2, <3>3
  <2>2. FlattenSeq(q) = <<b>> \o FlattenSeq(Tail(q))
    <3>1. FlattenSeq(q) = Head(q) \o FlattenSeq(Tail(q))
      BY <1>6, <1>7, FlattenHead
    <3>2. Head(q) = q[1]
      BY <1>6, <1>7
    <3> QED
      BY <1>7, <2>1, <3>1, <3>2, Zenon
  <2>3. FlattenSeq(Tail(q)) = BlocksOf(segs')
    <3>1. CASE Len(segs) > 1
      <4>1. segs' = Tail(segs)
        BY <1>2, <1>11, <3>1 DEF io_queue_block_drop
      <4>2. PICK u, p : u = Tail(segs) /\ p = Tail(q)
        OBVIOUS
      <4>3. /\ u \in Seq(Segment) /\ Len(u) = Len(segs) - 1
            /\ \A i \in 1..Len(u) : u[i] = segs[i + 1]
        BY <1>1, <4>2, HeadTailProperties
      <4>4. /\ p \in Seq(Seq(Block)) /\ Len(p) = Len(q) - 1
            /\ \A i \in 1..Len(p) : p[i] = q[i + 1]
        BY <1>6, <1>7, <4>2, HeadTailProperties
      <4>5. /\ WaitingIn(u) \in Seq(Seq(Block)) /\ Len(WaitingIn(u)) = Len(u)
            /\ \A i \in 1..Len(u) : WaitingIn(u)[i] = Waiting(u[i])
        BY <4>3, WaitingType
      <4>6. ASSUME NEW i \in 1..Len(u) PROVE WaitingIn(u)[i] = p[i]
        <5>1. i + 1 \in 1..Len(segs) /\ i \in 1..Len(p)
          BY <1>1, <1>6, <4>3, <4>4
        <5>2. p[i] = q[i + 1]
          BY <4>4, <5>1, Zenon
        <5>3. q[i + 1] = Waiting(segs[i + 1])
          BY <1>6, <5>1, Zenon
        <5>4. WaitingIn(u)[i] = Waiting(segs[i + 1])
          BY <4>3, <4>5, Zenon
        <5> QED
          BY <5>2, <5>3, <5>4, Zenon
      <4>7. WaitingIn(u) = p
        <5>1. Len(WaitingIn(u)) = Len(p)
          BY <1>6, <4>3, <4>4, <4>5
        <5>2. \A i \in 1..Len(WaitingIn(u)) : WaitingIn(u)[i] = p[i]
          BY <4>5, <4>6, Zenon
        <5> QED
          BY <4>4, <4>5, <5>1, <5>2, SeqEqual
      <4> QED
        BY <4>1, <4>2, <4>7, Zenon DEF BlocksOf
    <3>2. CASE ~(Len(segs) > 1)
      <4>1. segs' = <<io_queue_seg_new>>
        BY <1>2, <1>11, <3>2 DEF io_queue_block_drop
      <4>2. <<io_queue_seg_new>> = Append(<<>>, io_queue_seg_new) /\ <<>> \in Seq(Segment)
        OBVIOUS
      <4>3. BlocksOf(segs') = BlocksOf(<<>>)
        BY <4>1, <4>2, NewSegmentIsEmpty
      <4>4. WaitingIn(<<>>) = <<>>
        BY DEF WaitingIn
      <4>5. Tail(q) = <<>>
        <5>1. Len(q) = 1
          BY <1>1, <1>6, <3>2
        <5>2. Tail(q) \in Seq(Seq(Block)) /\ Len(Tail(q)) = Len(q) - 1
          BY <1>6, <1>7, HeadTailProperties
        <5>3. Len(Tail(q)) = 0
          BY <5>1, <5>2
        <5> QED
          BY <5>2, <5>3, EmptySeq
      <4> QED
        BY <4>3, <4>4, <4>5, Zenon DEF BlocksOf
    <3> QED
      BY <3>1, <3>2
  <2> QED
    BY <1>2, <1>5, <2>2, <2>3, Zenon DEF BlocksOf
<1> QED
  BY <1>10, <1>11

\* The data of blocks, in order, and what the queue has to release of them.
DataIn(c) == [i \in DOMAIN c |-> c[i].data]

Owed(c) == {b.data : b \in {x \in ToSet(c) : x.type \in Freed}}

LEMMA DataType ==
    ASSUME NEW c \in Seq(Block)
    PROVE  /\ DataIn(c) \in Seq(Data) /\ Len(DataIn(c)) = Len(c)
           /\ \A i \in 1..Len(c) : DataIn(c)[i] = c[i].data
<1>1. DOMAIN c = 1..Len(c) /\ Len(c) \in Nat /\ \A i \in 1..Len(c) : c[i] \in Block
  OBVIOUS
<1>2. \A i \in 1..Len(c) : c[i].data \in Data
  BY <1>1 DEF Block
<1>3. DataIn(c) = [i \in 1..Len(c) |-> c[i].data]
  BY <1>1 DEF DataIn
<1> QED
  BY <1>1, <1>2, <1>3

LEMMA DataOfSet ==
    ASSUME NEW c \in Seq(Block)
    PROVE  ToSet(DataIn(c)) = {b.data : b \in ToSet(c)}
BY DEF DataIn, ToSet

LEMMA DataAppended ==
    ASSUME NEW c \in Seq(Block), NEW b \in Block
    PROVE  DataIn(c \o <<b>>) = Append(DataIn(c), b.data)
<1> DEFINE e == c \o <<b>>
           w == Append(DataIn(c), b.data)
<1>1. /\ e \in Seq(Block) /\ Len(e) = Len(c) + 1 /\ e[Len(c) + 1] = b
      /\ \A i \in 1..Len(c) : e[i] = c[i]
  BY AppendIsConcat, AppendProperties
<1> HIDE DEF e
<1>2. /\ DataIn(c) \in Seq(Data) /\ Len(DataIn(c)) = Len(c) /\ b.data \in Data
      /\ \A i \in 1..Len(c) : DataIn(c)[i] = c[i].data
  BY DataType DEF Block
<1>3. /\ DataIn(e) \in Seq(Data) /\ Len(DataIn(e)) = Len(e)
      /\ \A i \in 1..Len(e) : DataIn(e)[i] = e[i].data
  BY <1>1, DataType
<1>4. /\ w \in Seq(Data) /\ Len(w) = Len(c) + 1
      /\ \A i \in 1..Len(c) : w[i] = DataIn(c)[i]
      /\ w[Len(c) + 1] = b.data
  <2>1. PICK d, x : d = DataIn(c) /\ x = b.data
    OBVIOUS
  <2>2. d \in Seq(Data) /\ x \in Data /\ Len(d) = Len(c)
    BY <1>2, <2>1
  <2>3. /\ Append(d, x) \in Seq(Data) /\ Len(Append(d, x)) = Len(d) + 1
        /\ \A i \in 1..Len(d) : Append(d, x)[i] = d[i]
        /\ Append(d, x)[Len(d) + 1] = x
    BY <2>2, AppendProperties
  <2> QED
    BY <2>1, <2>2, <2>3, Zenon
<1> HIDE DEF w
<1>5. ASSUME NEW i \in 1..Len(DataIn(e)) PROVE DataIn(e)[i] = w[i]
  <2>1. DataIn(e)[i] = e[i].data
    BY <1>3
  <2>2. CASE i = Len(c) + 1
    BY <1>1, <1>4, <2>1, <2>2, Zenon
  <2>3. CASE i # Len(c) + 1
    <3>1. i \in 1..Len(c)
      BY <1>1, <1>3, <2>3
    <3> QED
      BY <1>1, <1>2, <1>4, <2>1, <3>1, Zenon
  <2> QED
    BY <2>2, <2>3
<1>6. DataIn(e) = w
  BY <1>1, <1>3, <1>4, <1>5, SeqEqual
<1> QED
  BY <1>6 DEF e, w

LEMMA DataOfRest ==
    ASSUME NEW c \in Seq(Block), c # <<>>
    PROVE  DataIn(c) # <<>> /\ Head(DataIn(c)) = Head(c).data /\ Tail(DataIn(c)) = DataIn(Tail(c))
<1> DEFINE w == DataIn(c)
           t == Tail(c)
           v == Tail(w)
<1>1. Len(c) \in Nat /\ Len(c) # 0 /\ 1 \in 1..Len(c) /\ Head(c) = c[1]
  OBVIOUS
<1>2. /\ w \in Seq(Data) /\ Len(w) = Len(c)
      /\ \A i \in 1..Len(c) : w[i] = c[i].data
  BY DataType
<1>3. /\ t \in Seq(Block) /\ Len(t) = Len(c) - 1
      /\ \A i \in 1..Len(t) : t[i] = c[i + 1]
  BY HeadTailProperties
<1> HIDE DEF w, t
<1>4. w # <<>> /\ Head(w) = w[1]
  BY <1>1, <1>2
<1>5. /\ v \in Seq(Data) /\ Len(v) = Len(w) - 1
      /\ \A i \in 1..Len(v) : v[i] = w[i + 1]
  BY <1>2, <1>4, HeadTailProperties
<1>6. /\ DataIn(t) \in Seq(Data) /\ Len(DataIn(t)) = Len(t)
      /\ \A i \in 1..Len(t) : DataIn(t)[i] = t[i].data
  BY <1>3, DataType
<1> HIDE DEF v
<1>7. ASSUME NEW i \in 1..Len(v) PROVE v[i] = DataIn(t)[i]
  <2>1. i \in 1..Len(t) /\ i + 1 \in 1..Len(c)
    BY <1>1, <1>2, <1>3, <1>5
  <2>2. v[i] = c[i + 1].data
    BY <1>2, <1>5, <2>1, Zenon
  <2>3. DataIn(t)[i] = c[i + 1].data
    BY <1>3, <1>6, <2>1, Zenon
  <2> QED
    BY <2>2, <2>3
<1>8. Len(v) = Len(DataIn(t))
  BY <1>2, <1>3, <1>5, <1>6
<1>9. v = DataIn(t)
  BY <1>5, <1>6, <1>7, <1>8, SeqEqual
<1>10. w[1] = c[1].data
  BY <1>1, <1>2
<1> QED
  BY <1>1, <1>4, <1>9, <1>10 DEF v, w, t

-----------------------------------------------------------------------------
(* The client *)

LEMMA InitIsChain == Init => ChainInv
<1> SUFFICES ASSUME Init PROVE ChainInv
  OBVIOUS
<1>1. segs = <<>> /\ heap = {} /\ alive = TRUE /\ pollout = FALSE /\ wire = <<>> /\ accepted = <<>>
  BY DEF Init, QueueInit
<1>2. \A S : <<>> \in Seq(S)
  OBVIOUS
<1>3. TypeOK
  BY <1>1, <1>2 DEF TypeOK, QueueTypeOK
<1>4. Packed(segs)
  BY <1>1 DEF Packed
<1> QED
  BY <1>3, <1>4 DEF ChainInv

LEMMA StepKeepsChain == ChainInv /\ [Next]_vars => ChainInv'
<1> SUFFICES ASSUME ChainInv, [Next]_vars PROVE ChainInv'
  OBVIOUS
<1>0. /\ segs \in Seq(Segment) /\ heap \subseteq Data /\ Packed(segs)
      /\ alive \in BOOLEAN /\ pollout \in BOOLEAN /\ wire \in Seq(Data) /\ accepted \in Seq(Data)
  BY DEF ChainInv, TypeOK, QueueTypeOK
<1>1. ASSUME NEW d \in Data, Sending(d) PROVE accepted' \in Seq(Data)
  BY <1>0, <1>1, AppendProperties DEF Sending
<1>2. ASSUME NEW d \in Data, SendNow(d) PROVE ChainInv'
  <2>1. wire' \in Seq(Data)
    BY <1>0, <1>2, AppendProperties DEF SendNow
  <2> QED
    BY <1>0, <1>1, <1>2, <2>1 DEF SendNow, ChainInv, TypeOK, QueueTypeOK
<1>3. ASSUME NEW d \in Data, NEW type \in Types, SendLater(d, type) PROVE ChainInv'
  <2>1. segs' \in Seq(Segment) /\ Packed(segs')
    BY <1>0, <1>3, PutKeepsChain DEF SendLater
  <2>2. heap' \subseteq Data
    BY <1>0, <1>3 DEF SendLater, io_queue_put_block
  <2> QED
    BY <1>0, <1>1, <1>3, <2>1, <2>2 DEF SendLater, ChainInv, TypeOK, QueueTypeOK
<1>4. CASE EventSends
  <2>1. segs' \in Seq(Segment) /\ Packed(segs')
    BY <1>0, <1>4, DropKeepsChain DEF EventSends
  <2>2. heap' \subseteq Data
    BY <1>0, <1>4 DEF EventSends, io_queue_block_drop
  <2>3. io_queue_get_block \in Block
    <3>1. segs[1] \in Segment /\ segs[1].begin < Len(segs[1].blocks)
      BY <1>0, <1>4 DEF EventSends, HasBlock
    <3>2. PICK s : s = segs[1]
      OBVIOUS
    <3>3. s.begin \in Nat /\ s.blocks \in Seq(Block) /\ s.begin < Len(s.blocks)
      BY <3>1, <3>2, SegmentFields
    <3>4. s.blocks[s.begin + 1] \in Block
      BY <3>3
    <3> QED
      BY <3>2, <3>4 DEF io_queue_get_block
  <2>4. io_queue_get_block.data \in Data
    BY <2>3 DEF Block
  <2>5. wire' \in Seq(Data)
    BY <1>0, <1>4, <2>4, AppendProperties DEF EventSends
  <2>6. pollout' \in BOOLEAN
    BY <1>0, <1>4 DEF EventSends, StopPolling
  <2> QED
    BY <1>0, <1>4, <2>1, <2>2, <2>5, <2>6 DEF EventSends, ChainInv, TypeOK, QueueTypeOK
<1>5. CASE EventSendsNothing
  <2>1. pollout' \in BOOLEAN
    BY <1>0, <1>5 DEF EventSendsNothing, StopPolling
  <2> QED
    BY <1>0, <1>5, <2>1 DEF EventSendsNothing, ChainInv, TypeOK, QueueTypeOK
<1>6. CASE io_dgram_client_free
  <2>1. segs' = <<>> /\ heap' \subseteq heap
    BY <1>6 DEF io_dgram_client_free, io_queue_free
  <2>2. segs' \in Seq(Segment) /\ Packed(segs')
    BY <2>1 DEF Packed
  <2>3. alive' \in BOOLEAN /\ UNCHANGED <<pollout, wire, accepted>>
    BY <1>6 DEF io_dgram_client_free
  <2> QED
    BY <1>0, <2>1, <2>2, <2>3 DEF ChainInv, TypeOK, QueueTypeOK
<1>7. CASE UNCHANGED vars
  BY <1>0, <1>7 DEF vars, ChainInv, TypeOK, QueueTypeOK
<1> QED
  BY <1>2, <1>3, <1>4, <1>5, <1>6, <1>7 DEF Next

LEMMA ChainIsInvariant == Spec => []ChainInv
BY InitIsChain, StepKeepsChain, PTL DEF Spec

\* The variables of the client and of its queue keep their types, for segments of
\* any length and any number of datagrams.
THEOREM TypeCorrect == Spec => []TypeOK
<1>1. ChainInv => TypeOK
  BY DEF ChainInv
<1> QED
  BY <1>1, ChainIsInvariant, PTL

\* Only the first segment has been read from, all but the last are full, and one
\* with nothing waiting is alone, so that the queue may look for its oldest block
\* in the first segment only.
THEOREM QueueStaysPacked == Spec => []ChainIsPacked
<1>1. ChainInv => ChainIsPacked
  <2> SUFFICES ASSUME Packed(segs), segs \in Seq(Segment) PROVE ChainIsPacked
    BY DEF ChainInv, TypeOK, QueueTypeOK
  <2>1. DOMAIN segs = 1..Len(segs) /\ Len(segs) \in Nat
    OBVIOUS
  <2>2. ASSUME Len(segs) > 1, NEW i \in 1..Len(segs) PROVE segs[i].begin < Len(segs[i].blocks)
    <3>1. ~(Len(segs) = 1)
      BY <2>1, <2>2
    <3> QED
      BY <3>1 DEF Packed
  <2> QED
    BY <2>1, <2>2 DEF Packed, ChainIsPacked
<1> QED
  BY <1>1, ChainIsInvariant, PTL

\* A datagram that waits is polled for, and the client is alive: neither a send
\* nor the event handler leaves one behind.
THEOREM QueuedDatagramsArePolled == Spec => []PendingIsPolled
<1>1. Init => PendingIsPolled
  BY DEF Init, QueueInit, PendingIsPolled, HasBlock
<1>2. ChainInv /\ PendingIsPolled /\ [Next]_vars => PendingIsPolled'
  <2> SUFFICES ASSUME ChainInv, PendingIsPolled, [Next]_vars PROVE PendingIsPolled'
    OBVIOUS
  <2>1. ASSUME NEW d \in Data, SendNow(d) PROVE PendingIsPolled'
    BY <2>1 DEF SendNow, PendingIsPolled, HasBlock
  <2>2. ASSUME NEW d \in Data, NEW type \in Types, SendLater(d, type) PROVE PendingIsPolled'
    BY <2>2 DEF SendLater, Sending, PendingIsPolled
  <2>3. CASE EventSends
    <3>1. segs' # <<>>
      BY <2>3, DropKeepsChain DEF EventSends, ChainInv, TypeOK, QueueTypeOK
    <3> QED
      BY <2>3, <3>1 DEF EventSends, StopPolling, PendingIsPolled
  <2>4. CASE EventSendsNothing
    <3>1. HasBlock' => HasBlock /\ segs' # <<>>
      BY <2>4 DEF EventSendsNothing, HasBlock
    <3> QED
      BY <2>4, <3>1 DEF EventSendsNothing, StopPolling, PendingIsPolled
  <2>5. CASE io_dgram_client_free
    BY <2>5 DEF io_dgram_client_free, io_queue_free, PendingIsPolled, HasBlock
  <2>6. CASE UNCHANGED vars
    BY <2>6 DEF vars, PendingIsPolled, HasBlock
  <2> QED
    BY <2>1, <2>2, <2>3, <2>4, <2>5, <2>6 DEF Next
<1> QED
  BY <1>1, <1>2, ChainIsInvariant, PTL DEF Spec

-----------------------------------------------------------------------------
(* Order, and the memory of the blocks *)

\* The heap is the data of the waiting blocks that the queue has to release, and
\* no two blocks wait with the same data.
QueueInv ==
    /\ ChainInv
    /\ IsInjective(DataIn(Contents))
    /\ heap = Owed(Contents)

LEMMA ContentsAre == Contents = BlocksOf(segs) /\ Contents' = BlocksOf(segs')
BY DEF Contents, BlocksOf, WaitingIn

LEMMA ContentsType == ASSUME ChainInv PROVE Contents \in Seq(Block)
<1>1. segs \in Seq(Segment)
  BY DEF ChainInv, TypeOK, QueueTypeOK
<1> QED
  BY <1>1, BlocksType, ContentsAre

\* Putting a block of data that is not in use.
LEMMA PutKeepsQueue ==
    ASSUME QueueInv, NEW d \in Data, d \notin InUse, NEW type \in Types,
           io_queue_put_block(d, type)
    PROVE  /\ Contents' = Contents \o <<[data |-> d, type |-> type]>>
           /\ DataIn(Contents') = Append(DataIn(Contents), d)
           /\ IsInjective(DataIn(Contents'))
           /\ heap' = Owed(Contents')
           /\ d \notin heap
<1>1. PICK b : b = [data |-> d, type |-> type]
  OBVIOUS
<1>2. b \in Block /\ b.data = d /\ b.type = type
  BY <1>1 DEF Block
<1>3. Contents' = Contents \o <<b>>
  <2>1. segs \in Seq(Segment) /\ Packed(segs)
    BY DEF QueueInv, ChainInv, TypeOK, QueueTypeOK
  <2> QED
    BY <1>1, <2>1, PutAppends, ContentsAre
<1>4. Contents \in Seq(Block)
  BY ContentsType DEF QueueInv
<1>5. DataIn(Contents') = Append(DataIn(Contents), d)
  BY <1>2, <1>3, <1>4, DataAppended
<1>6. d \notin heap /\ d \notin ToSet(DataIn(Contents))
  <2>1. DOMAIN DataIn(Contents) = DOMAIN Contents
    BY DEF DataIn
  <2>2. ToSet(DataIn(Contents)) = {Contents[i].data : i \in DOMAIN Contents}
    BY DEF DataIn, ToSet
  <2> QED
    BY <2>2 DEF InUse
<1>7. DataIn(Contents) \in Seq(Data) /\ IsInjective(DataIn(Contents))
  BY <1>4, DataType DEF QueueInv
<1>8. IsInjective(DataIn(Contents'))
  <2>1. PICK q : q = DataIn(Contents)
    OBVIOUS
  <2>2. IsInjective(Append(q, d))
    BY <1>6, <1>7, <2>1, QueueNode
  <2> QED
    BY <1>5, <2>1, <2>2, Zenon
<1>9. ToSet(Contents') = ToSet(Contents) \cup {b}
  <2>1. <<b>> \in Seq(Block) /\ ToSet(<<b>>) = {b}
    BY <1>2 DEF ToSet
  <2>2. PICK c, o : c = Contents /\ o = <<b>>
    OBVIOUS
  <2>3. ToSet(c \o o) = ToSet(c) \cup ToSet(o)
    BY <1>4, <2>1, <2>2, ConcatElements
  <2> QED
    BY <1>3, <2>1, <2>2, <2>3, Zenon
<1>10. heap' = IF type \in Freed THEN heap \cup {d} ELSE heap
  BY DEF io_queue_put_block
<1>11. heap = Owed(Contents)
  BY DEF QueueInv
<1>12. heap' = Owed(Contents')
  BY <1>2, <1>9, <1>10, <1>11, Zenon DEF Owed
<1> QED
  BY <1>1, <1>3, <1>5, <1>6, <1>8, <1>12

\* Dropping the oldest block.
LEMMA DropKeepsQueue ==
    ASSUME QueueInv, io_queue_block_drop
    PROVE  /\ io_queue_get_block \in Block
           /\ Contents # <<>> /\ Head(Contents) = io_queue_get_block
           /\ Contents' = Tail(Contents)
           /\ DataIn(Contents) = <<io_queue_get_block.data>> \o DataIn(Contents')
           /\ IsInjective(DataIn(Contents'))
           /\ heap' = Owed(Contents')
           /\ DataIn(Contents') \in Seq(Data)
<1>1. PICK b, c : b = io_queue_get_block /\ c = Contents
  OBVIOUS
<1>2. segs \in Seq(Segment) /\ Packed(segs)
  BY DEF QueueInv, ChainInv, TypeOK, QueueTypeOK
<1>3. b \in Block /\ c = <<b>> \o Contents'
  BY <1>1, <1>2, DropTakesOldest, ContentsAre
<1>4. c \in Seq(Block) /\ Contents' \in Seq(Block)
  <2>1. segs' \in Seq(Segment)
    BY <1>2, DropKeepsChain
  <2> QED
    BY <1>1, <1>2, <2>1, BlocksType, ContentsAre
<1>5. PICK t : t = Contents'
  OBVIOUS
<1>6. c # <<>> /\ Head(c) = b /\ Tail(c) = t
  <2>1. t \in Seq(Block) /\ b \in Block /\ c = <<b>> \o t
    BY <1>3, <1>4, <1>5
  <2>2. /\ <<b>> \o t # <<>>
        /\ Head(<<b>> \o t) = b /\ Tail(<<b>> \o t) = t
    BY <2>1, HeadTailOfCons
  <2> QED
    BY <2>1, <2>2, Zenon
<1>7. DataIn(c) # <<>> /\ Head(DataIn(c)) = b.data /\ Tail(DataIn(c)) = DataIn(t)
  BY <1>4, <1>6, DataOfRest
<1>8. DataIn(c) \in Seq(Data) /\ DataIn(t) \in Seq(Data) /\ IsInjective(DataIn(c))
  BY <1>1, <1>4, <1>5, DataType DEF QueueInv
<1>9. IsInjective(DataIn(t)) /\ ToSet(DataIn(t)) = ToSet(DataIn(c)) \ {b.data}
  <2>1. PICK q, r : q = DataIn(c) /\ r = DataIn(t)
    OBVIOUS
  <2>2. IsInjective(Tail(q)) /\ ToSet(Tail(q)) = ToSet(q) \ {Head(q)}
    BY <1>7, <1>8, <2>1, PopNode
  <2> QED
    BY <1>7, <2>1, <2>2, Zenon
<1>10. DataIn(c) = <<b.data>> \o DataIn(t)
  <2>1. PICK q : q = DataIn(c)
    OBVIOUS
  <2>2. q \in Seq(Data) /\ q # <<>> /\ Len(q) \in Nat
    BY <1>7, <1>8, <2>1
  <2>3. q = <<Head(q)>> \o Tail(q)
    BY <2>2
  <2> QED
    BY <1>7, <2>1, <2>3, Zenon
<1>11. ToSet(c) = {b} \cup ToSet(t)
  <2>1. <<b>> \in Seq(Block) /\ ToSet(<<b>>) = {b}
    BY <1>3 DEF ToSet
  <2>2. PICK o : o = <<b>>
    OBVIOUS
  <2>3. ToSet(o \o t) = ToSet(o) \cup ToSet(t)
    BY <1>4, <1>5, <2>1, <2>2, ConcatElements
  <2> QED
    BY <1>3, <1>5, <2>1, <2>2, <2>3, Zenon
<1>12. \A x \in ToSet(t) : x.data # b.data
  <2>1. ToSet(DataIn(t)) = {x.data : x \in ToSet(t)}
    BY <1>4, <1>5, DataOfSet
  <2> QED
    BY <1>9, <2>1, Zenon
<1>13. heap' = IF b.type \in Freed THEN heap \ {b.data} ELSE heap
  BY <1>1 DEF io_queue_block_drop
<1>14. heap = Owed(c)
  BY <1>1 DEF QueueInv
<1>15. heap' = Owed(t)
  <2>1. Owed(c) = Owed(t) \cup (IF b.type \in Freed THEN {b.data} ELSE {})
    BY <1>11 DEF Owed
  <2>2. b.data \notin Owed(t)
    BY <1>12 DEF Owed
  <2> QED
    BY <1>13, <1>14, <2>1, <2>2
<1> QED
  BY <1>1, <1>3, <1>5, <1>6, <1>8, <1>9, <1>10, <1>15

\* Freeing the queue.
LEMMA FreeKeepsQueue ==
    ASSUME QueueInv, io_queue_free
    PROVE  Contents' = <<>> /\ heap' = {}
<1>1. segs \in Seq(Segment) /\ segs' = <<>>
  BY DEF QueueInv, ChainInv, TypeOK, QueueTypeOK, io_queue_free
<1>2. Contents' = <<>>
  <2>1. WaitingIn(<<>>) = <<>>
    BY DEF WaitingIn
  <2> QED
    BY <1>1, <2>1, FlattenEmpty, ContentsAre, Zenon DEF BlocksOf
<1>3. PICK q : q = WaitingIn(segs)
  OBVIOUS
<1>4. /\ q \in Seq(Seq(Block)) /\ Len(q) = Len(segs) /\ DOMAIN segs = 1..Len(segs)
      /\ \A i \in 1..Len(segs) : q[i] = Waiting(segs[i])
  BY <1>1, <1>3, WaitingType
<1>5. ToSet(Contents) = UNION {ToSet(q[i]) : i \in 1..Len(q)}
  <2>1. q \in Seq(Seq(Block))
    BY <1>4
  <2>2. ToSet(FlattenSeq(q)) = UNION {ToSet(q[i]) : i \in 1..Len(q)}
    BY <2>1, FlattenElements
  <2> QED
    BY <1>3, <2>2, ContentsAre, Zenon DEF BlocksOf
<1>6. heap = Owed(Contents)
  BY DEF QueueInv
<1>7. heap' = heap \ UNION {{b.data : b \in {c \in ToSet(Waiting(segs[i])) : c.type \in Freed}}
                            : i \in DOMAIN segs}
  BY DEF io_queue_free
<1>8. ASSUME NEW x \in heap
      PROVE  \E i \in DOMAIN segs :
                 x \in {b.data : b \in {c \in ToSet(Waiting(segs[i])) : c.type \in Freed}}
  <2>1. PICK b \in ToSet(Contents) : b.type \in Freed /\ x = b.data
    BY <1>6, <1>8, Zenon DEF Owed
  <2>2. PICK i \in 1..Len(q) : b \in ToSet(q[i])
    BY <1>5, <2>1, Zenon
  <2>3. i \in DOMAIN segs /\ b \in ToSet(Waiting(segs[i]))
    BY <1>4, <2>2, Zenon
  <2> QED
    BY <2>1, <2>3, Zenon
<1>9. heap' = {}
  BY <1>7, <1>8, Zenon
<1> QED
  BY <1>2, <1>9

LEMMA InitIsQueue == Init => QueueInv /\ Contents = <<>> /\ heap = {}
<1> SUFFICES ASSUME Init PROVE QueueInv /\ Contents = <<>> /\ heap = {}
  OBVIOUS
<1>1. ChainInv /\ segs = <<>> /\ heap = {}
  BY InitIsChain DEF Init, QueueInit
<1>2. Contents = <<>>
  <2>1. WaitingIn(<<>>) = <<>>
    BY DEF WaitingIn
  <2> QED
    BY <1>1, <2>1, FlattenEmpty, ContentsAre, Zenon DEF BlocksOf
<1>3. DataIn(<<>>) = <<>> /\ IsInjective(<<>>) /\ Owed(<<>>) = {}
  BY DEF DataIn, IsInjective, Owed, ToSet
<1> QED
  BY <1>1, <1>2, <1>3 DEF QueueInv

LEMMA StepKeepsQueue == QueueInv /\ [Next]_vars => QueueInv'
<1> SUFFICES ASSUME QueueInv, [Next]_vars PROVE QueueInv'
  OBVIOUS
<1>0. ChainInv'
  BY StepKeepsChain DEF QueueInv
<1>1. ASSUME UNCHANGED <<segs, heap>> PROVE QueueInv'
  <2>1. Contents' = Contents /\ heap' = heap
    BY <1>1, ContentsAre
  <2> QED
    BY <1>0, <2>1 DEF QueueInv
<1>2. ASSUME NEW d \in Data, NEW type \in Types, SendLater(d, type) PROVE QueueInv'
  BY <1>0, <1>2, PutKeepsQueue DEF SendLater, Sending, QueueInv
<1>3. CASE EventSends
  BY <1>0, <1>3, DropKeepsQueue DEF EventSends, QueueInv
<1>4. CASE io_dgram_client_free
  <2>1. Contents' = <<>> /\ heap' = {}
    BY <1>4, FreeKeepsQueue DEF io_dgram_client_free
  <2>2. DataIn(<<>>) = <<>> /\ IsInjective(<<>>) /\ Owed(<<>>) = {}
    BY DEF DataIn, IsInjective, Owed, ToSet
  <2> QED
    BY <1>0, <2>1, <2>2 DEF QueueInv
<1> QED
  BY <1>1, <1>2, <1>3, <1>4 DEF Next, SendNow, EventSendsNothing, vars

LEMMA QueueIsInvariant == Spec => []QueueInv
BY InitIsQueue, StepKeepsQueue, PTL DEF Spec

\* Datagrams reach the kernel in the order they were accepted, whether they went
\* at once or through the queue, and each once: what has been sent and what waits
\* are together what was accepted, for any segments and any number of datagrams.
THEOREM DatagramsKeepTheirOrder == Spec => []SentInOrder
<1>0. Pending = DataIn(Contents) /\ Pending' = DataIn(Contents')
  BY DEF Pending, DataIn
<1>1. Init => SentInOrder
  <2> SUFFICES ASSUME Init PROVE wire \o DataIn(Contents) = accepted
    BY <1>0 DEF SentInOrder
  <2>1. Contents = <<>> /\ DataIn(<<>>) = <<>>
    BY InitIsQueue DEF DataIn
  <2> QED
    BY <2>1 DEF Init
<1>2. QueueInv /\ SentInOrder /\ [Next]_vars => SentInOrder'
  <2> SUFFICES ASSUME QueueInv, SentInOrder, [Next]_vars, alive' PROVE SentInOrder'
    BY DEF SentInOrder
  <2>1. /\ wire \in Seq(Data) /\ accepted \in Seq(Data) /\ DataIn(Contents) \in Seq(Data)
        /\ alive \in BOOLEAN
    BY ContentsType, DataType DEF QueueInv, ChainInv, TypeOK
  <2>2. ASSUME NEW d \in Data, SendNow(d) PROVE wire' \o DataIn(Contents') = accepted'
    <3>1. segs = <<>> /\ Contents' = Contents /\ alive
      BY <2>2, ContentsAre DEF SendNow, Sending, io_queue_is_empty
    <3>2. Contents = <<>>
      <4>1. WaitingIn(<<>>) = <<>>
        BY DEF WaitingIn
      <4> QED
        BY <3>1, <4>1, FlattenEmpty, ContentsAre, Zenon DEF BlocksOf
    <3>3. DataIn(<<>>) = <<>>
      BY DEF DataIn
    <3>4. wire \o <<>> = accepted
      BY <1>0, <3>1, <3>2, <3>3, Zenon DEF SentInOrder
    <3>5. wire' = Append(wire, d) /\ accepted' = Append(accepted, d)
      BY <2>2 DEF SendNow, Sending
    <3>6. wire' \in Seq(Data) /\ wire \o <<>> = wire /\ wire' \o <<>> = wire'
      BY <2>1, <3>5, AppendProperties, ConcatEmptySeq
    <3> QED
      BY <3>1, <3>2, <3>3, <3>4, <3>5, <3>6, Zenon
  <2>3. ASSUME NEW d \in Data, NEW type \in Types, SendLater(d, type)
        PROVE  wire' \o DataIn(Contents') = accepted'
    <3>1. /\ d \notin InUse /\ io_queue_put_block(d, type) /\ wire' = wire /\ alive
          /\ accepted' = Append(accepted, d)
      BY <2>3 DEF SendLater, Sending
    <3>2. DataIn(Contents') = Append(DataIn(Contents), d)
      BY <3>1, PutKeepsQueue
    <3>3. wire \o DataIn(Contents) = accepted
      BY <1>0, <3>1, Zenon DEF SentInOrder
    <3>4. PICK w, q : w = wire /\ q = DataIn(Contents)
      OBVIOUS
    <3>5. w \o Append(q, d) = Append(w \o q, d)
      BY <2>1, <3>4
    <3> QED
      BY <3>1, <3>2, <3>3, <3>4, <3>5, Zenon
  <2>4. ASSUME EventSends PROVE wire' \o DataIn(Contents') = accepted'
    <3>1. PICK x, q, w : x = io_queue_get_block.data /\ q = DataIn(Contents') /\ w = wire
      OBVIOUS
    <3>2. io_queue_block_drop /\ wire' = Append(w, x) /\ accepted' = accepted /\ alive
      BY <2>4, <3>1 DEF EventSends
    <3>3. /\ io_queue_get_block \in Block /\ DataIn(Contents) = <<x>> \o q
          /\ q \in Seq(Data)
      BY <3>1, <3>2, DropKeepsQueue
    <3>4. x \in Data /\ w \in Seq(Data)
      BY <2>1, <3>1, <3>3 DEF Block
    <3>5. w \o DataIn(Contents) = accepted
      BY <1>0, <3>1, <3>2, Zenon DEF SentInOrder
    <3>6. Append(w, x) = w \o <<x>>
      BY <3>4, AppendIsConcat
    <3>7. (w \o <<x>>) \o q = w \o (<<x>> \o q)
      <4>1. PICK o : o = <<x>>
        OBVIOUS
      <4>2. o \in Seq(Data)
        BY <3>4, <4>1
      <4>3. (w \o o) \o q = w \o (o \o q)
        BY <3>3, <3>4, <4>2, ConcatAssociative
      <4> QED
        BY <4>1, <4>3, Zenon
    <3> QED
      BY <3>1, <3>2, <3>3, <3>5, <3>6, <3>7, Zenon
  <2>5. ASSUME UNCHANGED <<segs, wire, accepted>>, alive
        PROVE  wire' \o DataIn(Contents') = accepted'
    <3>1. Contents' = Contents
      BY <2>5, ContentsAre
    <3> QED
      BY <1>0, <2>5, <3>1 DEF SentInOrder
  <2>6. wire' \o DataIn(Contents') = accepted'
    BY <2>2, <2>3, <2>4, <2>5
       DEF Next, EventSendsNothing, io_dgram_client_free, vars
  <2> QED
    BY <1>0, <2>6 DEF SentInOrder
<1> QED
  BY <1>1, <1>2, QueueIsInvariant, PTL DEF Spec

\* The queue is a queue of blocks: put adds one at the end, drop takes the oldest
\* and releases its data if the queue answers for it, free releases the data of
\* all that wait, each once.
THEOREM QueueIsBlockFifo == Spec => IsBlockFifo
<1>1. Init => Abstract!Init
  BY InitIsQueue DEF Abstract!Init
<1>2. QueueInv /\ [Next]_vars => [Abstract!Next]_(Abstract!vars)
  <2> SUFFICES ASSUME QueueInv, [Next]_vars PROVE [Abstract!Next]_(Abstract!vars)
    OBVIOUS
  <2>1. ASSUME NEW d \in Data, NEW type \in Types, SendLater(d, type) PROVE Abstract!Put
    <3>1. PICK b, c : b = [data |-> d, type |-> type] /\ c = Contents
      OBVIOUS
    <3>2. d \notin InUse /\ io_queue_put_block(d, type)
      BY <2>1 DEF SendLater, Sending
    <3>3. Contents' = c \o <<b>> /\ d \notin heap /\ b.data = d /\ b.type = type
      BY <3>1, <3>2, PutKeepsQueue
    <3>4. heap' = IF type \in Freed THEN heap \cup {d} ELSE heap
      BY <3>2 DEF io_queue_put_block
    <3>5. c \in Seq(Block) /\ b \in Block
      BY <3>1, ContentsType DEF QueueInv, Block
    <3>6. /\ Len(c \o <<b>>) = Len(c) + 1 /\ (c \o <<b>>)[Len(c) + 1] = b
          /\ SubSeq(c \o <<b>>, 1, Len(c)) = c
      <4>1. Append(c, b) = c \o <<b>> /\ Len(Append(c, b)) = Len(c) + 1
            /\ Append(c, b)[Len(c) + 1] = b
        BY <3>5, AppendIsConcat, AppendProperties
      <4>2. PICK o : o = <<b>>
        OBVIOUS
      <4>3. o \in Seq(Block)
        BY <3>5, <4>2
      <4>4. SubSeq(c \o o, 1, Len(c)) = c
        BY <3>5, <4>3, PrefixOfLonger
      <4> QED
        BY <4>1, <4>2, <4>4, Zenon
    <3>7. /\ Len(Contents') = Len(Contents) + 1
          /\ SubSeq(Contents', 1, Len(Contents)) = Contents
          /\ Contents'[Len(Contents')] = b
      BY <3>1, <3>3, <3>6, Zenon
    <3>8. heap' = heap \cup Abstract!DataOf(b) /\ Abstract!DataOf(b) \cap heap = {}
      BY <3>3, <3>4 DEF Abstract!DataOf
    <3> QED
      BY <3>7, <3>8, Zenon DEF Abstract!Put
  <2>2. CASE EventSends
    <3>1. PICK b : b = io_queue_get_block
      OBVIOUS
    <3>2. io_queue_block_drop
      BY <2>2 DEF EventSends
    <3>3. Contents # <<>> /\ Head(Contents) = b /\ Contents' = Tail(Contents)
      BY <3>1, <3>2, DropKeepsQueue
    <3>4. heap' = IF b.type \in Freed THEN heap \ {b.data} ELSE heap
      BY <3>1, <3>2 DEF io_queue_block_drop
    <3>5. heap' = heap \ Abstract!DataOf(b)
      BY <3>4 DEF Abstract!DataOf
    <3> QED
      BY <3>3, <3>5 DEF Abstract!Next, Abstract!Drop
  <2>3. CASE io_dgram_client_free
    BY <2>3, FreeKeepsQueue DEF io_dgram_client_free, Abstract!Next, Abstract!Clear
  <2>4. ASSUME UNCHANGED <<segs, heap>> PROVE UNCHANGED Abstract!vars
    BY <2>4, ContentsAre DEF Abstract!vars
  <2> QED
    BY <2>1, <2>2, <2>3, <2>4 DEF Next, SendNow, EventSendsNothing, vars, Abstract!Next
<1> QED
  BY <1>1, <1>2, QueueIsInvariant, PTL DEF Spec, IsBlockFifo, Abstract!Spec

-----------------------------------------------------------------------------
(* The byte buffer of io_buf.c, whose chain is kept the same way: what its  *)
(* segments hold.                                                          *)

\* A segment has bytes to read, or nothing has been stored in it yet.
Unspent(s) == s.begin < Len(s.data) \/ (s.begin = 0 /\ s.data = <<>>)

\* Every segment is unspent and only the first has been read from.
Sound(c) ==
    /\ \A i \in 1..Len(c) : Unspent(c[i])
    /\ \A i \in 2..Len(c) : c[i].begin = 0

\* All segments but the last are full.
Filled(c) == \A i \in 1..(Len(c) - 1) : Len(c[i].data) = SegSize

UnreadIn(c) == [i \in DOMAIN c |-> Unread(c[i])]

BytesOf(c) == FlattenSeq(UnreadIn(c))

LEMMA BytesAre == Bytes = BytesOf(chain) /\ Bytes' = BytesOf(chain')
BY DEF Bytes, BytesOf, UnreadIn

LEMMA SizeIsNat == SegSize \in Nat /\ SegSize > 0
BY SizesAssumption

LEMMA BufSegmentFields ==
    ASSUME NEW s \in BufSegment
    PROVE  /\ s.begin \in Nat /\ s.data \in Seq(Byte) /\ Len(s.data) \in Nat
           /\ Len(s.data) <= SegSize
           /\ s = [begin |-> s.begin, data |-> s.data]
<1>1. /\ s.begin \in 0..SegSize /\ s.data \in BoundedSeq(Byte, SegSize)
      /\ s = [begin |-> s.begin, data |-> s.data]
  BY DEF BufSegment
<1>2. s.data \in Seq(Byte) /\ Len(s.data) <= SegSize
  BY <1>1, SizeIsNat, BoundedSeqIs
<1>3. \A n \in 0..SegSize : n \in Nat
  BY SizeIsNat
<1>4. Len(s.data) \in Nat
  BY <1>2, LenProperties
<1> QED
  BY <1>1, <1>2, <1>3, <1>4, Zenon

LEMMA IsBufSegment ==
    ASSUME NEW b \in Nat, NEW d \in Seq(Byte), b <= Len(d), Len(d) <= SegSize
    PROVE  [begin |-> b, data |-> d] \in BufSegment
<1>1. d \in BoundedSeq(Byte, SegSize)
  BY SizeIsNat, BoundedSeqIs
<1>2. b \in 0..SegSize
  BY SizeIsNat
<1> QED
  BY <1>1, <1>2, Zenon DEF BufSegment

LEMMA UnreadBytes ==
    ASSUME NEW s \in BufSegment, Unspent(s)
    PROVE  /\ Unread(s) \in Seq(Byte) /\ Len(Unread(s)) = Len(s.data) - s.begin
           /\ s.begin <= Len(s.data)
<1>1. PICK d, b, n : d = s.data /\ b = s.begin /\ n = Len(s.data)
  OBVIOUS
<1>2. d \in Seq(Byte) /\ b \in Nat /\ n \in Nat /\ n = Len(d)
  BY <1>1, BufSegmentFields
<1>3. b <= n
  <2>1. b < n \/ (b = 0 /\ d = <<>>)
    BY <1>1, Zenon DEF Unspent
  <2> QED
    BY <1>2, <2>1
<1>4. b + 1 \in Int /\ n \in Int /\ (b + 1)..n \subseteq 1..n
  BY <1>2
<1>5. \A i \in (b + 1)..n : d[i] \in Byte
  BY <1>2, <1>4, ElementOfSeq
<1>6. /\ SubSeq(d, b + 1, n) \in Seq(Byte)
      /\ Len(SubSeq(d, b + 1, n)) = IF b + 1 <= n THEN n - (b + 1) + 1 ELSE 0
  BY <1>4, <1>5, SubSeqProperties
<1>7. (IF b + 1 <= n THEN n - (b + 1) + 1 ELSE 0) = n - b
  BY <1>2, <1>3
<1>8. Unread(s) = SubSeq(d, b + 1, n)
  BY <1>1, Zenon DEF Unread
<1> QED
  BY <1>1, <1>3, <1>6, <1>7, <1>8, Zenon

LEMMA UnreadType ==
    ASSUME NEW c \in Seq(BufSegment), Sound(c)
    PROVE  /\ UnreadIn(c) \in Seq(Seq(Byte)) /\ Len(UnreadIn(c)) = Len(c)
           /\ \A i \in 1..Len(c) : UnreadIn(c)[i] = Unread(c[i])
           /\ BytesOf(c) \in Seq(Byte)
<1>1. DOMAIN c = 1..Len(c) /\ Len(c) \in Nat /\ \A i \in 1..Len(c) : c[i] \in BufSegment
  OBVIOUS
<1>2. \A i \in 1..Len(c) : Unread(c[i]) \in Seq(Byte)
  BY <1>1, UnreadBytes DEF Sound
<1>3. UnreadIn(c) = [i \in 1..Len(c) |-> Unread(c[i])]
  BY <1>1 DEF UnreadIn
<1>4. UnreadIn(c) \in Seq(Seq(Byte)) /\ Len(UnreadIn(c)) = Len(c)
  BY <1>1, <1>2, <1>3
<1>5. BytesOf(c) \in Seq(Byte)
  BY <1>4, FlattenType DEF BytesOf
<1> QED
  BY <1>3, <1>4, <1>5

\* Of lists of bytes: what their first and their last list contribute.
LEMMA BytesFirst ==
    \A q \in Seq(Seq(Byte)), a, b \in Seq(Byte) :
        q # <<>> /\ q[1] = a \o b => FlattenSeq(q) = a \o FlattenSeq([q EXCEPT ![1] = b])
BY FlattenFirst

LEMMA BytesLast ==
    \A q \in Seq(Seq(Byte)), a, b \in Seq(Byte) :
        q # <<>> /\ q[Len(q)] = a
            => FlattenSeq([q EXCEPT ![Len(q)] = a \o b]) = FlattenSeq(q) \o b
BY FlattenLast

\* A segment behind the others.
LEMMA SegmentAdded ==
    ASSUME NEW c \in Seq(BufSegment), Sound(c), NEW s \in BufSegment, Unspent(s), s.begin = 0
    PROVE  /\ Append(c, s) \in Seq(BufSegment) /\ Sound(Append(c, s))
           /\ Len(Append(c, s)) = Len(c) + 1 /\ Append(c, s)[Len(c) + 1] = s
           /\ \A i \in 1..Len(c) : Append(c, s)[i] = c[i]
           /\ BytesOf(Append(c, s)) = BytesOf(c) \o Unread(s)
<1> DEFINE r == Append(c, s)
<1>1. /\ r \in Seq(BufSegment) /\ Len(r) = Len(c) + 1 /\ r[Len(c) + 1] = s
      /\ \A i \in 1..Len(c) : r[i] = c[i]
  BY AppendProperties
<1>2. Len(c) \in Nat
  OBVIOUS
<1> HIDE DEF r
<1>3. ASSUME NEW i \in 1..Len(r) PROVE Unspent(r[i]) /\ (i \in 2..Len(r) => r[i].begin = 0)
  <2>1. CASE i = Len(c) + 1
    BY <1>1, <2>1, Zenon
  <2>2. CASE i # Len(c) + 1
    <3>1. i \in 1..Len(c) /\ (i \in 2..Len(r) => i \in 2..Len(c))
      BY <1>1, <1>2, <2>2
    <3>2. r[i] = c[i]
      BY <1>1, <3>1, Zenon
    <3> QED
      BY <3>1, <3>2, Zenon DEF Sound
  <2> QED
    BY <2>1, <2>2
<1>4. Sound(r)
  <2>1. 2..Len(r) \subseteq 1..Len(r)
    BY <1>1, <1>2
  <2> QED
    BY <1>3, <2>1 DEF Sound
<1>5. PICK q, x : q = UnreadIn(c) /\ x = Unread(s)
  OBVIOUS
<1>6. /\ q \in Seq(Seq(Byte)) /\ Len(q) = Len(c)
      /\ \A i \in 1..Len(c) : q[i] = Unread(c[i])
  BY <1>5, UnreadType
<1>7. x \in Seq(Byte)
  BY <1>5, UnreadBytes
<1>8. /\ UnreadIn(r) \in Seq(Seq(Byte)) /\ Len(UnreadIn(r)) = Len(r)
      /\ \A i \in 1..Len(r) : UnreadIn(r)[i] = Unread(r[i])
  BY <1>1, <1>4, UnreadType
<1>9. /\ Append(q, x) \in Seq(Seq(Byte)) /\ Len(Append(q, x)) = Len(q) + 1
      /\ \A i \in 1..Len(q) : Append(q, x)[i] = q[i]
      /\ Append(q, x)[Len(q) + 1] = x
  BY <1>6, <1>7, AppendProperties
<1>10. UnreadIn(r) = Append(q, x)
  <2>1. Len(UnreadIn(r)) = Len(Append(q, x)) /\ Len(UnreadIn(r)) = Len(c) + 1
    BY <1>1, <1>6, <1>8, <1>9
  <2>2. ASSUME NEW i \in 1..(Len(c) + 1) PROVE UnreadIn(r)[i] = Append(q, x)[i]
    <3>1. UnreadIn(r)[i] = Unread(r[i])
      BY <1>1, <1>8, Zenon
    <3>2. CASE i = Len(c) + 1
      BY <1>1, <1>5, <1>6, <1>9, <3>1, <3>2, Zenon
    <3>3. CASE i # Len(c) + 1
      <4>1. i \in 1..Len(c)
        BY <1>2, <3>3
      <4> QED
        BY <1>1, <1>6, <1>9, <3>1, <4>1, Zenon
    <3> QED
      BY <3>2, <3>3
  <2> QED
    BY <1>8, <1>9, <2>1, <2>2, SeqEqual
<1>11. FlattenSeq(Append(q, x)) = FlattenSeq(q) \o x
  BY <1>6, <1>7, FlattenAppend
<1> QED
  BY <1>1, <1>4, <1>5, <1>10, <1>11, Zenon DEF r, BytesOf

\* A changed segment.
With(c, n, s) == [c EXCEPT ![n] = s]

LEMMA SegmentChanged ==
    ASSUME NEW c \in Seq(BufSegment), Sound(c), NEW n \in 1..Len(c),
           NEW s \in BufSegment, Unspent(s), n # 1 => s.begin = 0
    PROVE  /\ With(c, n, s) \in Seq(BufSegment) /\ Sound(With(c, n, s))
           /\ Len(With(c, n, s)) = Len(c)
           /\ \A i \in 1..Len(c) : With(c, n, s)[i] = IF i = n THEN s ELSE c[i]
           /\ UnreadIn(With(c, n, s)) = With(UnreadIn(c), n, Unread(s))
<1> DEFINE r == [c EXCEPT ![n] = s]
<1>1. /\ r \in Seq(BufSegment) /\ Len(r) = Len(c)
      /\ \A i \in 1..Len(c) : r[i] = IF i = n THEN s ELSE c[i]
  BY ExceptSeq
<1> HIDE DEF r
<1>2. ASSUME NEW i \in 1..Len(r) PROVE Unspent(r[i]) /\ (i \in 2..Len(r) => r[i].begin = 0)
  <2>1. r[i] = IF i = n THEN s ELSE c[i]
    BY <1>1, Zenon
  <2>2. i \in 1..Len(c) /\ (i \in 2..Len(r) => i \in 2..Len(c) /\ i # 1)
    BY <1>1
  <2> QED
    BY <2>1, <2>2, Zenon DEF Sound
<1>3. Sound(r)
  <2>1. 2..Len(r) \subseteq 1..Len(r)
    BY <1>1
  <2> QED
    BY <1>2, <2>1 DEF Sound
<1>4. DOMAIN c = 1..Len(c) /\ DOMAIN r = 1..Len(c)
  BY <1>1
<1>5. UnreadIn(r) = [i \in 1..Len(c) |-> IF i = n THEN Unread(s) ELSE Unread(c[i])]
  <2>1. \A i \in 1..Len(c) : Unread(r[i]) = IF i = n THEN Unread(s) ELSE Unread(c[i])
    BY <1>1, Zenon
  <2> QED
    BY <1>4, <2>1 DEF UnreadIn
<1>6. [UnreadIn(c) EXCEPT ![n] = Unread(s)]
          = [i \in 1..Len(c) |-> IF i = n THEN Unread(s) ELSE Unread(c[i])]
  BY <1>4 DEF UnreadIn
<1> QED
  BY <1>1, <1>3, <1>5, <1>6 DEF r, With

\* Bytes stored behind those of a segment.
LEMMA BytesStored ==
    ASSUME NEW s \in BufSegment, Unspent(s), NEW chunk \in Seq(Byte),
           Len(s.data) + Len(chunk) <= SegSize
    PROVE  /\ [s EXCEPT !.data = @ \o chunk] \in BufSegment
           /\ Unspent([s EXCEPT !.data = @ \o chunk])
           /\ [s EXCEPT !.data = @ \o chunk].begin = s.begin
           /\ [s EXCEPT !.data = @ \o chunk].data = s.data \o chunk
           /\ Len([s EXCEPT !.data = @ \o chunk].data) = Len(s.data) + Len(chunk)
           /\ Unread([s EXCEPT !.data = @ \o chunk]) = Unread(s) \o chunk
<1>1. /\ s.begin \in Nat /\ s.data \in Seq(Byte) /\ Len(s.data) \in Nat
      /\ s = [begin |-> s.begin, data |-> s.data]
  BY BufSegmentFields
<1>2. s.begin <= Len(s.data)
  BY UnreadBytes
<1>3. PICK d, b, e : d = s.data /\ b = s.begin /\ e = s.data \o chunk
  OBVIOUS
<1>4. d \in Seq(Byte) /\ b \in Nat /\ Len(d) \in Nat /\ Len(chunk) \in Nat /\ b <= Len(d)
  BY <1>1, <1>2, <1>3
<1>5. e \in Seq(Byte) /\ Len(e) = Len(d) + Len(chunk)
  BY <1>3, <1>4, ConcatProperties
<1>6. PICK r : r = [begin |-> b, data |-> e]
  OBVIOUS
<1>7. [s EXCEPT !.data = @ \o chunk] = r
  <2>1. [s EXCEPT !.data = e] = [begin |-> s.begin, data |-> e]
    BY <1>1
  <2> QED
    BY <1>3, <1>6, <2>1, Zenon
<1>8. r.begin = b /\ r.data = e
  BY <1>6
<1>9. r \in BufSegment
  <2>1. b <= Len(e) /\ Len(e) <= SegSize
    <3>1. Len(d) = Len(s.data)
      BY <1>3
    <3> QED
      BY <1>4, <1>5, <3>1
  <2> QED
    BY <1>4, <1>5, <1>6, <2>1, IsBufSegment
<1>10. Unspent(r)
  <2>1. CASE b < Len(d)
    <3>1. b < Len(e)
      BY <1>4, <1>5, <2>1
    <3> QED
      BY <1>8, <3>1 DEF Unspent
  <2>2. CASE b = 0 /\ d = <<>>
    <3>1. CASE chunk = <<>>
      <4>1. e = <<>>
        <5>1. <<>> \o <<>> = <<>>
          OBVIOUS
        <5> QED
          BY <1>3, <2>2, <3>1, <5>1, Zenon
      <4> QED
        BY <1>8, <2>2, <4>1, Zenon DEF Unspent
    <3>2. CASE chunk # <<>>
      <4>1. 0 < Len(e)
        BY <1>4, <1>5, <3>2
      <4> QED
        BY <1>8, <2>2, <4>1, Zenon DEF Unspent
    <3> QED
      BY <3>1, <3>2
  <2> QED
    BY <1>3, <2>1, <2>2, Zenon DEF Unspent
<1>11. Unread(r) = Unread(s) \o chunk
  <2>1. PICK m : m = b + 1
    OBVIOUS
  <2>2. m \in 1..(Len(d) + 1)
    BY <1>4, <2>1
  <2>3. SubSeq(d \o chunk, m, Len(d) + Len(chunk)) = SubSeq(d, m, Len(d)) \o chunk
    BY <1>4, <2>2, SubSeqOfLonger
  <2>4. Unread(s) = SubSeq(d, m, Len(d)) /\ Unread(r) = SubSeq(e, m, Len(e))
    BY <1>3, <1>8, <2>1, Zenon DEF Unread
  <2> QED
    BY <1>3, <1>5, <2>3, <2>4, Zenon
<1> QED
  BY <1>3, <1>5, <1>7, <1>8, <1>9, <1>10, <1>11, Zenon

\* Storing in the last segment of a chain appends to what the chain holds.
LEMMA StoredBehind ==
    ASSUME NEW c \in Seq(BufSegment), Sound(c), c # <<>>, NEW chunk \in Seq(Byte),
           Len(c[Len(c)].data) + Len(chunk) <= SegSize, NEW r,
           r = [c EXCEPT ![Len(c)].data = @ \o chunk]
    PROVE  /\ r \in Seq(BufSegment) /\ Sound(r) /\ Len(r) = Len(c)
           /\ \A i \in 1..(Len(c) - 1) : r[i] = c[i]
           /\ Len(r[Len(c)].data) = Len(c[Len(c)].data) + Len(chunk)
           /\ BytesOf(r) = BytesOf(c) \o chunk
<1>1. PICK n, s : n = Len(c) /\ s = [c[n] EXCEPT !.data = @ \o chunk]
  OBVIOUS
<1>2. /\ n \in Nat /\ n \in 1..Len(c) /\ c[n] \in BufSegment /\ Unspent(c[n])
      /\ n # 1 => c[n].begin = 0
  <2>1. n \in Nat /\ n \in 1..Len(c) /\ (n # 1 => n \in 2..Len(c))
    BY <1>1
  <2>2. c[n] \in BufSegment
    BY <2>1, ElementOfSeq
  <2> QED
    BY <2>1, <2>2, Zenon DEF Sound
<1>3. Len(c[n].data) + Len(chunk) <= SegSize
  BY <1>1
<1>4. /\ s \in BufSegment /\ Unspent(s) /\ s.begin = c[n].begin
      /\ Len(s.data) = Len(c[n].data) + Len(chunk)
      /\ Unread(s) = Unread(c[n]) \o chunk
  BY <1>1, <1>2, <1>3, BytesStored
<1>5. r = With(c, n, s)
  BY <1>1, <1>2 DEF With
<1>6. n # 1 => s.begin = 0
  BY <1>2, <1>4
<1>7. /\ r \in Seq(BufSegment) /\ Sound(r) /\ Len(r) = Len(c)
      /\ \A i \in 1..Len(c) : r[i] = IF i = n THEN s ELSE c[i]
      /\ UnreadIn(r) = With(UnreadIn(c), n, Unread(s))
  <2>1. n \in 1..Len(c) /\ s \in BufSegment /\ Unspent(s)
    BY <1>2, <1>4
  <2> QED
    <3>1. With(c, n, s) \in Seq(BufSegment) /\ Sound(With(c, n, s))
      BY <1>6, <2>1, SegmentChanged
    <3>2. Len(With(c, n, s)) = Len(c)
      BY <1>6, <2>1, SegmentChanged
    <3>3. \A i \in 1..Len(c) : With(c, n, s)[i] = IF i = n THEN s ELSE c[i]
      BY <1>6, <2>1, SegmentChanged
    <3>4. UnreadIn(With(c, n, s)) = With(UnreadIn(c), n, Unread(s))
      BY <1>6, <2>1, SegmentChanged
    <3> QED
      BY <1>5, <3>1, <3>2, <3>3, <3>4, Zenon
<1>8. PICK q, a : q = UnreadIn(c) /\ a = Unread(c[n])
  OBVIOUS
<1>9. /\ q \in Seq(Seq(Byte)) /\ Len(q) = Len(c)
      /\ \A i \in 1..Len(c) : q[i] = Unread(c[i])
  BY <1>8, UnreadType
<1>10. a \in Seq(Byte) /\ q # <<>> /\ q[Len(q)] = a
  <2>1. a \in Seq(Byte)
    BY <1>2, <1>8, UnreadBytes
  <2>2. q # <<>>
    BY <1>1, <1>2, <1>9
  <2>3. q[n] = a
    BY <1>2, <1>8, <1>9, Zenon
  <2> QED
    BY <1>1, <1>9, <2>1, <2>2, <2>3, Zenon
<1>11. FlattenSeq(With(q, Len(q), a \o chunk)) = FlattenSeq(q) \o chunk
  BY <1>9, <1>10, BytesLast, Zenon DEF With
<1>12. BytesOf(r) = BytesOf(c) \o chunk
  BY <1>1, <1>4, <1>7, <1>8, <1>9, <1>11, Zenon DEF BytesOf
<1>13. \A i \in 1..(Len(c) - 1) : i \in 1..Len(c) /\ i # n
  BY <1>1, <1>2
<1>14. \A i \in 1..(Len(c) - 1) : r[i] = c[i]
  BY <1>7, <1>13, Zenon
<1>15. r[n] = s
  BY <1>2, <1>7, Zenon
<1> QED
  BY <1>1, <1>4, <1>7, <1>12, <1>14, <1>15, Zenon

\* Bytes consumed are the first of those that the chain holds.
LEMMA ConsumedInFront ==
    ASSUME chain \in Seq(BufSegment), Sound(chain), chain # <<>>,
           NEW n \in 0..Len(Unread(Head(chain))), Consume(n)
    PROVE  /\ chain' \in Seq(BufSegment) /\ Sound(chain')
           /\ Filled(chain) => Filled(chain')
           /\ taken' \in Seq(Byte) /\ Len(taken') = n
           /\ BytesOf(chain) = taken' \o BytesOf(chain')
           /\ (\A i \in 1..Len(chain) : chain[i].data # <<>>)
                  => \A i \in 1..Len(chain') : chain'[i].data # <<>>
           /\ \/ Len(chain') = Len(chain) /\ last' = last
              \/ chain' = Tail(chain) /\ last' = (last /\ Tail(chain) # <<>>)
<1>1. Len(chain) \in Nat /\ 1 \in 1..Len(chain) /\ Head(chain) = chain[1]
  OBVIOUS
<1>2. PICK s, q : s = chain[1] /\ q = UnreadIn(chain)
  OBVIOUS
<1>3. s \in BufSegment /\ Unspent(s)
  BY <1>1, <1>2 DEF Sound
<1>4. PICK b, d : b = s.begin /\ d = s.data
  OBVIOUS
<1>5. /\ b \in Nat /\ d \in Seq(Byte) /\ Len(d) \in Nat /\ Len(d) <= SegSize
      /\ s = [begin |-> b, data |-> d]
  BY <1>3, <1>4, BufSegmentFields
<1>6. Unread(s) \in Seq(Byte) /\ Len(Unread(s)) = Len(d) - b /\ b <= Len(d)
  BY <1>3, <1>4, UnreadBytes
<1>7. n \in Nat /\ n <= Len(d) - b
  <2>1. n \in 0..Len(Unread(s))
    BY <1>1, <1>2, Zenon
  <2>2. PICK l : l = Len(d) - b
    OBVIOUS
  <2>3. n \in 0..l /\ l \in Int
    BY <1>5, <1>6, <2>1, <2>2
  <2> QED
    BY <2>2, <2>3
<1>8. taken' = SubSeq(d, b + 1, b + n)
  BY <1>1, <1>2, <1>4 DEF Consume
<1> DEFINE rest == SubSeq(d, b + n + 1, Len(d))
<1>9. /\ taken' \in Seq(Byte) /\ Len(taken') = n /\ rest \in Seq(Byte)
      /\ Unread(s) = taken' \o rest
  <2>1. b + 1 \in 1..(Len(d) + 1) /\ b + n \in b..Len(d) /\ (b + 1) - 1 = b
        /\ Len(d) \in (b + n)..Len(d)
    BY <1>5, <1>6, <1>7
  <2>2. PICK m, k, e : m = b + 1 /\ k = b + n /\ e = Len(d)
    OBVIOUS
  <2>3. m \in 1..(Len(d) + 1) /\ k \in (m - 1)..Len(d) /\ e \in k..Len(d)
    BY <2>1, <2>2
  <2>4. SubSeq(d, m, k) \o SubSeq(d, k + 1, e) = SubSeq(d, m, e)
    BY <1>5, <2>3, ConcatAdjacentSubSeq
  <2>5. Unread(s) = SubSeq(d, m, e)
    BY <1>4, <2>2, Zenon DEF Unread
  <2>6. m \in Int /\ k \in Int /\ e \in Int /\ m..k \subseteq 1..Len(d)
        /\ (k + 1)..e \subseteq 1..Len(d)
    BY <1>5, <2>1, <2>2
  <2>7. (\A i \in m..k : d[i] \in Byte) /\ (\A i \in (k + 1)..e : d[i] \in Byte)
    BY <1>5, <2>6, ElementOfSeq
  <2>8. SubSeq(d, m, k) \in Seq(Byte) /\ Len(SubSeq(d, m, k)) = IF m <= k THEN k - m + 1 ELSE 0
    BY <2>6, <2>7, SubSeqProperties
  <2>9. (IF m <= k THEN k - m + 1 ELSE 0) = n
    BY <1>5, <1>7, <2>2
  <2>10. SubSeq(d, k + 1, e) \in Seq(Byte)
    <3>1. k + 1 \in Int
      BY <2>6
    <3> QED
      BY <2>6, <2>7, <3>1, SubSeqProperties
  <2> QED
    BY <1>8, <2>2, <2>4, <2>5, <2>8, <2>9, <2>10, Zenon
<1>10. /\ q \in Seq(Seq(Byte)) /\ Len(q) = Len(chain)
       /\ \A i \in 1..Len(chain) : q[i] = Unread(chain[i])
  BY <1>2, UnreadType
<1>11. q # <<>> /\ q[1] = taken' \o rest
  <2>1. q # <<>>
    BY <1>1, <1>10
  <2>2. q[1] = Unread(s)
    BY <1>1, <1>2, <1>10, Zenon
  <2> QED
    BY <1>9, <2>1, <2>2, Zenon
<1> HIDE DEF rest
<1>12. CASE b + n < Len(d)
  <2>1. chain' = [chain EXCEPT ![1].begin = @ + n] /\ last' = last
    BY <1>1, <1>2, <1>4, <1>12 DEF Consume
  <2>2. PICK t : t = [begin |-> b + n, data |-> d]
    OBVIOUS
  <2>3. t = [s EXCEPT !.begin = @ + n] /\ t.begin = b + n /\ t.data = d
    BY <1>5, <2>2
  <2>4. t \in BufSegment
    <3>1. b + n \in Nat /\ b + n <= Len(d)
      BY <1>5, <1>7
    <3> QED
      BY <1>5, <2>2, <3>1, IsBufSegment
  <2>5. Unspent(t)
    BY <1>12, <2>3 DEF Unspent
  <2>6. chain' = With(chain, 1, t)
    BY <1>1, <1>2, <2>1, <2>3 DEF With
  <2>7. With(chain, 1, t) \in Seq(BufSegment) /\ Sound(With(chain, 1, t))
    BY <1>1, <2>4, <2>5, SegmentChanged
  <2>8. Len(With(chain, 1, t)) = Len(chain)
    BY <1>1, <2>4, <2>5, SegmentChanged
  <2>9. \A i \in 1..Len(chain) : With(chain, 1, t)[i] = IF i = 1 THEN t ELSE chain[i]
    BY <1>1, <2>4, <2>5, SegmentChanged
  <2>10. UnreadIn(With(chain, 1, t)) = With(UnreadIn(chain), 1, Unread(t))
    BY <1>1, <2>4, <2>5, SegmentChanged
  <2>11. Unread(t) = rest
    BY <2>3, Zenon DEF Unread, rest
  <2>12. FlattenSeq(q) = taken' \o FlattenSeq(With(q, 1, rest))
    BY <1>9, <1>10, <1>11, BytesFirst, Zenon DEF With
  <2>13. BytesOf(chain) = taken' \o BytesOf(chain')
    BY <1>2, <2>6, <2>10, <2>11, <2>12, Zenon DEF BytesOf
  <2>14. \A i \in 1..Len(chain) : With(chain, 1, t)[i].data = chain[i].data
    BY <1>2, <1>4, <2>3, <2>9, Zenon
  <2>15. Filled(chain) => Filled(chain')
    <3>1. \A i \in 1..(Len(chain) - 1) : i \in 1..Len(chain)
      BY <1>1
    <3> QED
      BY <2>6, <2>8, <2>14, <3>1, Zenon DEF Filled
  <2>16. (\A i \in 1..Len(chain) : chain[i].data # <<>>)
             => \A i \in 1..Len(chain') : chain'[i].data # <<>>
    BY <2>6, <2>8, <2>14, Zenon
  <2> QED
    BY <1>9, <2>1, <2>6, <2>7, <2>8, <2>13, <2>15, <2>16, Zenon
<1>13. CASE ~(b + n < Len(d))
  <2>1. chain' = Tail(chain) /\ last' = (last /\ Tail(chain) # <<>>)
    BY <1>1, <1>2, <1>4, <1>13 DEF Consume
  <2>2. rest = <<>>
    <3>1. b + n + 1 \in Int /\ Len(d) \in Int /\ Len(d) < b + n + 1
      BY <1>5, <1>7, <1>13
    <3> QED
      BY <3>1, SubSeqEmpty DEF rest
  <2>3. PICK r, p : r = Tail(chain) /\ p = Tail(q)
    OBVIOUS
  <2>4. /\ r \in Seq(BufSegment) /\ Len(r) = Len(chain) - 1
        /\ \A i \in 1..Len(r) : r[i] = chain[i + 1]
    BY <2>3, HeadTailProperties
  <2>5. /\ p \in Seq(Seq(Byte)) /\ Len(p) = Len(q) - 1
        /\ \A i \in 1..Len(p) : p[i] = q[i + 1]
    BY <1>10, <1>11, <2>3, HeadTailProperties
  <2>6. Sound(r)
    <3>1. \A i \in 1..Len(r) : i + 1 \in 1..Len(chain) /\ i + 1 \in 2..Len(chain)
      BY <1>1, <2>4
    <3>2. \A i \in 1..Len(r) : Unspent(r[i]) /\ r[i].begin = 0
      BY <2>4, <3>1, Zenon DEF Sound
    <3>3. 2..Len(r) \subseteq 1..Len(r)
      BY <1>1, <2>4
    <3> QED
      BY <3>2, <3>3 DEF Sound
  <2>7. Filled(chain) => Filled(r)
    <3>1. \A i \in 1..(Len(r) - 1) : i \in 1..Len(r) /\ i + 1 \in 1..(Len(chain) - 1)
      BY <1>1, <2>4
    <3> QED
      BY <2>4, <3>1, Zenon DEF Filled
  <2>8. (\A i \in 1..Len(chain) : chain[i].data # <<>>)
            => \A i \in 1..Len(r) : r[i].data # <<>>
    <3>1. \A i \in 1..Len(r) : i + 1 \in 1..Len(chain)
      BY <1>1, <2>4
    <3> QED
      BY <2>4, <3>1, Zenon
  <2>9. UnreadIn(r) = p
    <3>1. /\ UnreadIn(r) \in Seq(Seq(Byte)) /\ Len(UnreadIn(r)) = Len(r)
          /\ \A i \in 1..Len(r) : UnreadIn(r)[i] = Unread(r[i])
      BY <2>4, <2>6, UnreadType
    <3>2. ASSUME NEW i \in 1..Len(r) PROVE UnreadIn(r)[i] = p[i]
      <4>1. i + 1 \in 1..Len(chain) /\ i \in 1..Len(p)
        BY <1>1, <1>10, <2>4, <2>5
      <4> QED
        BY <1>10, <2>4, <2>5, <3>1, <4>1, Zenon
    <3>3. Len(UnreadIn(r)) = Len(p)
      BY <1>10, <2>4, <2>5, <3>1
    <3>4. \A i \in 1..Len(UnreadIn(r)) : UnreadIn(r)[i] = p[i]
      BY <3>1, <3>2, Zenon
    <3> QED
      BY <2>5, <3>1, <3>3, <3>4, SeqEqual
  <2>10. FlattenSeq(q) = taken' \o FlattenSeq(p)
    <3>1. FlattenSeq(q) = Head(q) \o FlattenSeq(Tail(q))
      BY <1>10, <1>11, FlattenHead
    <3>2. Head(q) = q[1]
      BY <1>10, <1>11
    <3>3. taken' \o <<>> = taken'
      BY <1>9, ConcatEmptySeq
    <3> QED
      BY <1>11, <2>2, <2>3, <3>1, <3>2, <3>3, Zenon
  <2>11. BytesOf(chain) = taken' \o BytesOf(chain')
    BY <1>2, <2>1, <2>3, <2>9, <2>10, Zenon DEF BytesOf
  <2> QED
    BY <1>9, <2>1, <2>3, <2>4, <2>6, <2>7, <2>8, <2>11, Zenon
<1> QED
  BY <1>12, <1>13

-----------------------------------------------------------------------------
(* The operations of the byte buffer *)

\* No segment is empty.
AllHold(c) == \A i \in 1..Len(c) : c[i].data # <<>>

\* What keeps the properties of the buffer: an operation that appends has found a
\* last segment and has bytes to store, one that receives has been noted; the
\* segments are full but for the last, and none is empty unless it was made for
\* the bytes that follow.
BufInv ==
    /\ BufTypeOK
    /\ LastIsValid
    /\ Sound(chain)
    /\ "io_buf_add" \notin used => Filled(chain)
    /\ op \in {"write", "recv"} => chain # <<>>
    /\ op = "write" => tail # <<>>
    /\ op = "recv" => "io_buf_recv" \in used
    /\ "io_buf_recv" \notin used => AllHold(chain) \/ (op = "write" /\ Len(chain) = 1)

LEMMA NewBufSegment ==
    /\ io_seg_new \in BufSegment /\ Unspent(io_seg_new) /\ io_seg_new.begin = 0
    /\ io_seg_new.data = <<>> /\ Unread(io_seg_new) = <<>>
<1>1. PICK d : d = <<>>
  OBVIOUS
<1>2. d \in Seq(Byte) /\ Len(d) = 0 /\ 0 \in Nat /\ 0 <= Len(d) /\ Len(d) <= SegSize
  BY <1>1, SizeIsNat
<1>3. [begin |-> 0, data |-> d] \in BufSegment
  BY <1>2, IsBufSegment
<1>4. SubSeq(<<>>, 1, 0) = <<>>
  BY SubSeqEmpty
<1> QED
  BY <1>1, <1>3, <1>4 DEF io_seg_new, Unspent, Unread

\* A new segment behind the others holds nothing.
LEMMA NewBufSegmentAdded ==
    ASSUME NEW c \in Seq(BufSegment), Sound(c), NEW r, r = Append(c, io_seg_new)
    PROVE  /\ r \in Seq(BufSegment) /\ Sound(r) /\ r # <<>> /\ BytesOf(r) = BytesOf(c)
           /\ Len(r) = Len(c) + 1 /\ r[Len(c) + 1] = io_seg_new
           /\ \A i \in 1..Len(c) : r[i] = c[i]
<1>1. PICK s : s = io_seg_new
  OBVIOUS
<1>2. s \in BufSegment /\ Unspent(s) /\ s.begin = 0 /\ Unread(s) = <<>>
  BY <1>1, NewBufSegment
<1>3. /\ Append(c, s) \in Seq(BufSegment) /\ Sound(Append(c, s))
      /\ Len(Append(c, s)) = Len(c) + 1 /\ Append(c, s)[Len(c) + 1] = s
      /\ \A i \in 1..Len(c) : Append(c, s)[i] = c[i]
      /\ BytesOf(Append(c, s)) = BytesOf(c) \o Unread(s)
  BY <1>2, SegmentAdded
<1>4. BytesOf(c) \o <<>> = BytesOf(c)
  BY UnreadType, ConcatEmptySeq
<1>5. Len(c) + 1 # 0
  OBVIOUS
<1>6. r # <<>>
  <2>1. Len(r) = Len(c) + 1
    BY <1>1, <1>3
  <2>2. Len(<<>>) = 0
    OBVIOUS
  <2> QED
    BY <1>5, <2>1, <2>2
<1> QED
  BY <1>1, <1>2, <1>3, <1>4, <1>6, Zenon

\* io_buf_get_last_seg.
LEMMA LastSegIsThere ==
    ASSUME BufInv, NEW w, w = WithLastSeg
    PROVE  /\ w \in Seq(BufSegment) /\ Sound(w) /\ w # <<>> /\ BytesOf(w) = BytesOf(chain)
           /\ w = chain \/ Len(w) = 1
           /\ Filled(chain) => Filled(w)
<1>1. chain \in Seq(BufSegment) /\ Sound(chain) /\ (last <=> chain # <<>>) /\ last \in BOOLEAN
  BY DEF BufInv, BufTypeOK, LastIsValid
<1>2. CASE last
  BY <1>1, <1>2 DEF WithLastSeg
<1>3. CASE ~last
  <2>1. chain = <<>> /\ w = <<io_seg_new>>
    BY <1>1, <1>3 DEF WithLastSeg
  <2>2. w = Append(chain, io_seg_new) /\ Len(chain) = 0
    BY <2>1
  <2>3. /\ w \in Seq(BufSegment) /\ Sound(w) /\ w # <<>> /\ BytesOf(w) = BytesOf(chain)
        /\ Len(w) = Len(chain) + 1
    BY <1>1, <2>2, NewBufSegmentAdded
  <2>4. Len(w) = 1
    BY <2>2, <2>3
  <2>5. Filled(w)
    <3>1. 1..(Len(w) - 1) = {}
      BY <2>4
    <3> QED
      BY <3>1, Zenon DEF Filled
  <2> QED
    BY <2>3, <2>4, <2>5
<1> QED
  BY <1>2, <1>3

\* io_buf_get_seg_to_write.
LEMMA RoomIsThere ==
    ASSUME chain \in Seq(BufSegment), Sound(chain), chain # <<>>, NEW w, w = WithRoom
    PROVE  /\ w \in Seq(BufSegment) /\ Sound(w) /\ w # <<>> /\ BytesOf(w) = BytesOf(chain)
           /\ Filled(chain) => Filled(w)
           /\ Room \in Nat /\ Room > 0 /\ Room = SegSize - Len(w[Len(w)].data)
           /\ Len(w[Len(w)].data) \in Nat /\ Len(w) \in Nat /\ Len(w) > 0
           /\ AllHold(chain) \/ Len(chain) = 1
                  => \A i \in 1..(Len(w) - 1) : w[i].data # <<>>
<1>1. Len(chain) \in Nat /\ Len(chain) > 0 /\ Len(chain) \in 1..Len(chain)
  OBVIOUS
<1>2. PICK n, d : n = Len(chain) /\ d = chain[Len(chain)].data
  OBVIOUS
<1>3. d \in Seq(Byte) /\ Len(d) \in Nat /\ Len(d) <= SegSize
  <2>1. chain[n] \in BufSegment
    BY <1>1, <1>2, ElementOfSeq
  <2> QED
    BY <1>2, <2>1, BufSegmentFields
<1>4. Room = SegSize - Len(w[Len(w)].data)
  BY DEF Room, Last
<1>5. CASE Len(d) = SegSize
  <2>1. w = Append(chain, io_seg_new)
    BY <1>2, <1>5 DEF WithRoom, Last
  <2>2. /\ w \in Seq(BufSegment) /\ Sound(w) /\ w # <<>> /\ BytesOf(w) = BytesOf(chain)
        /\ Len(w) = Len(chain) + 1 /\ w[Len(chain) + 1] = io_seg_new
        /\ \A i \in 1..Len(chain) : w[i] = chain[i]
    BY <2>1, NewBufSegmentAdded
  <2>3. w[Len(w)].data = <<>> /\ Len(w[Len(w)].data) = 0 /\ Len(w) - 1 = n
    BY <1>1, <1>2, <2>2, NewBufSegment
  <2>4. ASSUME Filled(chain) PROVE Filled(w)
    <3>1. ASSUME NEW i \in 1..n PROVE Len(w[i].data) = SegSize
      <4>1. w[i] = chain[i]
        BY <1>2, <2>2, Zenon
      <4>2. CASE i = n
        BY <1>2, <1>5, <4>1, <4>2
      <4>3. CASE i # n
        <5>1. i \in 1..(Len(chain) - 1)
          BY <1>1, <1>2, <4>3
        <5> QED
          BY <2>4, <4>1, <5>1, Zenon DEF Filled
      <4> QED
        BY <4>2, <4>3
    <3> QED
      BY <2>3, <3>1, Zenon DEF Filled
  <2>5. ASSUME AllHold(chain) \/ Len(chain) = 1, NEW i \in 1..n PROVE w[i].data # <<>>
    <3>1. w[i] = chain[i]
      BY <1>2, <2>2, Zenon
    <3>2. d # <<>>
      BY <1>3, <1>5, SizeIsNat
    <3>3. Len(chain) = 1 => i = n
      BY <1>1, <1>2
    <3> QED
      BY <1>2, <2>5, <3>1, <3>2, <3>3, Zenon DEF AllHold
  <2>6. Room \in Nat /\ Room > 0
    BY <1>4, <2>3, SizeIsNat
  <2>7. Len(w) \in Nat /\ Len(w) > 0 /\ Len(w[Len(w)].data) \in Nat
    BY <1>1, <2>2, <2>3
  <2> QED
    BY <1>4, <2>2, <2>3, <2>4, <2>5, <2>6, <2>7, Zenon
<1>6. CASE Len(d) # SegSize
  <2>1. w = chain
    BY <1>2, <1>6 DEF WithRoom, Last
  <2>2. Len(w[Len(w)].data) = Len(d)
    BY <1>2, <2>1
  <2>3. Room \in Nat /\ Room > 0
    BY <1>3, <1>4, <1>6, <2>2, SizeIsNat
  <2>4. ASSUME AllHold(chain) \/ Len(chain) = 1, NEW i \in 1..(Len(w) - 1)
        PROVE  w[i].data # <<>>
    <3>1. i \in 1..Len(chain) /\ ~(Len(chain) = 1)
      BY <1>1, <2>1
    <3> QED
      BY <2>1, <2>4, <3>1 DEF AllHold
  <2> QED
    BY <1>1, <1>3, <1>4, <2>1, <2>2, <2>3, <2>4
<1> QED
  BY <1>5, <1>6

\* Storing in the room there is.
LEMMA StoredInRoom ==
    ASSUME chain \in Seq(BufSegment), Sound(chain), chain # <<>>,
           NEW chunk \in Seq(Byte), Len(chunk) <= Room, NEW r, r = Stored(chunk)
    PROVE  /\ r \in Seq(BufSegment) /\ Sound(r) /\ r # <<>> /\ BytesOf(r) = BytesOf(chain) \o chunk
           /\ Filled(chain) => Filled(r)
           /\ chunk # <<>> /\ (AllHold(chain) \/ Len(chain) = 1) => AllHold(r)
<1>1. PICK w : w = WithRoom
  OBVIOUS
<1>2. /\ w \in Seq(BufSegment) /\ Sound(w) /\ w # <<>> /\ BytesOf(w) = BytesOf(chain)
      /\ Filled(chain) => Filled(w)
      /\ Room \in Nat /\ Room = SegSize - Len(w[Len(w)].data)
      /\ Len(w[Len(w)].data) \in Nat /\ Len(w) \in Nat /\ Len(w) > 0
      /\ AllHold(chain) \/ Len(chain) = 1
             => \A i \in 1..(Len(w) - 1) : w[i].data # <<>>
  BY <1>1, RoomIsThere
<1>3. PICK n, k : n = Len(w) /\ k = Len(w[Len(w)].data)
  OBVIOUS
<1>4. Len(chunk) \in Nat /\ n \in Nat /\ n > 0 /\ k \in Nat
  BY <1>2, <1>3
<1>5. Len(w[Len(w)].data) + Len(chunk) <= SegSize
  BY <1>2, <1>3, <1>4, SizeIsNat
<1>6. r = [w EXCEPT ![Len(w)].data = @ \o chunk]
  BY <1>1 DEF Stored
<1>7. /\ r \in Seq(BufSegment) /\ Sound(r) /\ Len(r) = Len(w)
      /\ \A i \in 1..(Len(w) - 1) : r[i] = w[i]
      /\ Len(r[Len(w)].data) = Len(w[Len(w)].data) + Len(chunk)
      /\ BytesOf(r) = BytesOf(w) \o chunk
  BY <1>2, <1>5, <1>6, StoredBehind
<1>8. r # <<>>
  BY <1>2, <1>7
<1>9. Filled(chain) => Filled(r)
  BY <1>2, <1>7, Zenon DEF Filled
<1>10. ASSUME chunk # <<>>, AllHold(chain) \/ Len(chain) = 1 PROVE AllHold(r)
  <2>1. Len(chunk) # 0
    BY <1>10
  <2>2. r[n].data # <<>>
    <3>1. Len(r[n].data) = k + Len(chunk)
      BY <1>3, <1>7
    <3>2. k + Len(chunk) # 0
      BY <1>4, <2>1
    <3>3. Len(<<>>) = 0
      OBVIOUS
    <3> QED
      BY <3>1, <3>2, <3>3
  <2>3. \A i \in 1..Len(r) : i = n \/ i \in 1..(Len(w) - 1)
    BY <1>3, <1>4, <1>7
  <2>4. \A i \in 1..(Len(w) - 1) : r[i].data # <<>>
    BY <1>2, <1>7, <1>10, Zenon
  <2> QED
    BY <2>2, <2>3, <2>4, Zenon DEF AllHold
<1> QED
  BY <1>2, <1>7, <1>8, <1>9, <1>10, Zenon

\* What an operation does to the bytes held, as steps of the queue of bytes.
LEMMA AppendedIsPut ==
    ASSUME Bytes \in Seq(Byte), NEW chunk \in Seq(Byte), Bytes' = Bytes \o chunk, taken' = <<>>
    PROVE  AbstractBuf!Put
<1>1. PICK q : q = Bytes
  OBVIOUS
<1>2. /\ q \o chunk \in Seq(Byte) /\ Len(q \o chunk) = Len(q) + Len(chunk)
      /\ Len(q) \in Nat /\ Len(chunk) \in Nat
  BY <1>1, ConcatProperties
<1>3. SubSeq(q \o chunk, 1, Len(q)) = q /\ SubSeq(q, 1, Len(q)) = q
  BY <1>1, PrefixOfLonger, SubSeqFull
<1>4. Len(q) <= Len(q \o chunk)
  BY <1>2
<1>5. AbstractBuf!IsPrefix(q, q \o chunk)
  BY <1>3, <1>4, Zenon DEF AbstractBuf!IsPrefix
<1> QED
  BY <1>1, <1>2, <1>5, Zenon DEF AbstractBuf!Put

LEMMA UnchangedIsPut ==
    ASSUME Bytes \in Seq(Byte), Bytes' = Bytes, taken' = <<>>
    PROVE  AbstractBuf!Put
<1>1. Bytes \o <<>> = Bytes
  BY ConcatEmptySeq
<1>2. PICK e : e = <<>>
  OBVIOUS
<1>3. e \in Seq(Byte) /\ Bytes' = Bytes \o e
  BY <1>1, <1>2
<1> QED
  BY <1>3, AppendedIsPut

LEMMA BufFacts ==
    ASSUME BufInv
    PROVE  /\ chain \in Seq(BufSegment) /\ Sound(chain) /\ Bytes \in Seq(Byte)
           /\ tail \in Seq(Byte) /\ want \in Nat /\ used \subseteq {"io_buf_recv", "io_buf_add"}
           /\ last \in BOOLEAN /\ (last <=> chain # <<>>)
           /\ "io_buf_add" \notin used => Filled(chain)
           /\ op \in {"none", "write", "read", "send", "recv"}
           /\ "io_buf_recv" \notin used => AllHold(chain) \/ (op = "write" /\ Len(chain) = 1)
<1>1. chain \in Seq(BufSegment) /\ Sound(chain)
  BY DEF BufInv, BufTypeOK
<1>2. Bytes \in Seq(Byte)
  BY <1>1, UnreadType, BytesAre
<1> QED
  BY <1>1, <1>2 DEF BufInv, BufTypeOK, LastIsValid

LEMMA ConsumeKeepsBuf ==
    ASSUME BufInv, chain # <<>>, op \in {"read", "send"},
           NEW n \in 0..Len(Unread(Head(chain))), Consume(n), tail' = tail, want' \in Nat,
           used' = used, op' \in {"none", "read", "send"}
    PROVE  BufInv' /\ AbstractBuf!Next
<1>0. /\ chain \in Seq(BufSegment) /\ Sound(chain) /\ Bytes \in Seq(Byte)
      /\ tail \in Seq(Byte) /\ used \subseteq {"io_buf_recv", "io_buf_add"}
      /\ last \in BOOLEAN /\ (last <=> chain # <<>>)
      /\ "io_buf_add" \notin used => Filled(chain)
      /\ "io_buf_recv" \notin used => AllHold(chain) \/ (op = "write" /\ Len(chain) = 1)
  BY BufFacts
<1>1. /\ chain' \in Seq(BufSegment) /\ Sound(chain')
      /\ Filled(chain) => Filled(chain')
      /\ taken' \in Seq(Byte) /\ Len(taken') = n
      /\ Bytes = taken' \o Bytes'
  BY <1>0, ConsumedInFront, BytesAre
<1>2. AllHold(chain) => AllHold(chain')
  BY <1>0, ConsumedInFront DEF AllHold
<1>3. last' \in BOOLEAN /\ (last' <=> chain' # <<>>)
  <2>1. \/ Len(chain') = Len(chain) /\ last' = last
        \/ chain' = Tail(chain) /\ last' = (last /\ Tail(chain) # <<>>)
    BY <1>0, ConsumedInFront
  <2>2. chain # <<>> /\ last
    BY <1>0
  <2>3. Len(chain') = Len(chain) => chain' # <<>>
    BY <1>0, <1>1, <2>2
  <2> QED
    BY <2>1, <2>2, <2>3
<1>4. op' \notin {"write", "recv"} /\ op \notin {"write", "recv"}
  OBVIOUS
<1>5. BufTypeOK' /\ LastIsValid'
  BY <1>0, <1>1, <1>3 DEF BufTypeOK, LastIsValid
<1>6. BufInv'
  BY <1>0, <1>1, <1>2, <1>4, <1>5 DEF BufInv
<1>7. Bytes' \in Seq(Byte)
  BY BufFacts, <1>1, UnreadType, BytesAre
<1>8. CASE n = 0
  <2>1. taken' = <<>>
    BY <1>1, <1>8
  <2>2. <<>> \o Bytes' = Bytes'
    BY <1>7, ConcatEmptySeq
  <2>3. Bytes' = Bytes
    BY <1>1, <2>1, <2>2
  <2> QED
    BY <1>0, <1>6, <2>1, <2>3, UnchangedIsPut DEF AbstractBuf!Next
<1>9. CASE n # 0
  <2>1. PICK a, b : a = taken' /\ b = Bytes'
    OBVIOUS
  <2>2. a \in Seq(Byte) /\ b \in Seq(Byte) /\ Len(a) = n /\ Bytes = a \o b /\ n \in Nat
    BY <1>1, <1>7, <2>1
  <2>t. a \in Seq(Byte) /\ b \in Seq(Byte)
    BY <2>2
  <2>3. Len(a \o b) = Len(a) + Len(b) /\ Len(b) \in Nat
    BY <2>t, ConcatProperties
  <2>4. /\ SubSeq(a \o b, 1, Len(a)) = a
        /\ SubSeq(a \o b, Len(a) + 1, Len(a) + Len(b)) = b
    BY <2>t, PrefixOfLonger, SuffixOfLonger
  <2>5. n \in 1..Len(Bytes)
    BY <1>9, <2>2, <2>3
  <2>6. taken' = SubSeq(Bytes, 1, n) /\ Bytes' = SubSeq(Bytes, n + 1, Len(Bytes))
    BY <2>1, <2>2, <2>3, <2>4, Zenon
  <2>7. AbstractBuf!Take
    BY <2>5, <2>6, Zenon DEF AbstractBuf!Take
  <2> QED
    BY <1>6, <2>7 DEF AbstractBuf!Next
<1> QED
  BY <1>8, <1>9

\* An operation that begins or ends and leaves the chain alone.
LEMMA OtherwiseKeepsBuf ==
    ASSUME BufInv, chain' = chain, last' = last, taken' = <<>>, tail' = tail, used' = used,
           want' \in Nat, op' \in {"none", "read", "send"}, op \in {"none", "read", "send"}
    PROVE  BufInv' /\ AbstractBuf!Next
<1>1. Bytes' = Bytes
  BY BytesAre
<1>2. taken' \in Seq(Byte)
  OBVIOUS
<1>3. BufTypeOK' /\ LastIsValid'
  BY <1>2, BufFacts DEF BufTypeOK, LastIsValid
<1>4. op' \notin {"write", "recv"} /\ op \notin {"write", "recv"}
  OBVIOUS
<1>5. BufInv'
  BY <1>3, <1>4, BufFacts DEF BufInv
<1>6. AbstractBuf!Put
  BY <1>1, BufFacts, UnchangedIsPut
<1> QED
  BY <1>5, <1>6 DEF AbstractBuf!Next

\* io_buf_write.
LEMMA WriteKeepsBuf ==
    ASSUME BufInv, NEW data \in Seq(Byte), data # <<>>, io_buf_write(data)
    PROVE  BufInv' /\ AbstractBuf!Next
<1>1. PICK w : w = WithLastSeg
  OBVIOUS
<1>2. /\ w \in Seq(BufSegment) /\ Sound(w) /\ w # <<>> /\ BytesOf(w) = BytesOf(chain)
      /\ w = chain \/ Len(w) = 1
      /\ Filled(chain) => Filled(w)
  BY <1>1, LastSegIsThere
<1>3. /\ chain' = w /\ last' = TRUE /\ tail' = data /\ op' = "write" /\ op = "none"
      /\ taken' = <<>> /\ want' = want /\ used' = used
  BY <1>1 DEF io_buf_write
<1>4. taken' \in Seq(Byte)
  BY <1>3
<1>5. BufTypeOK' /\ LastIsValid'
  BY <1>2, <1>3, <1>4, BufFacts DEF BufTypeOK, LastIsValid
<1>6. "io_buf_recv" \notin used => AllHold(w) \/ Len(w) = 1
  BY <1>2, <1>3, BufFacts
<1>7. BufInv'
  BY <1>2, <1>3, <1>5, <1>6, BufFacts DEF BufInv
<1>8. Bytes' = Bytes
  BY <1>2, <1>3, BytesAre
<1> QED
  BY <1>3, <1>7, <1>8, BufFacts, UnchangedIsPut DEF AbstractBuf!Next

LEMMA WriteStepKeepsBuf ==
    ASSUME BufInv, WriteStep
    PROVE  BufInv' /\ AbstractBuf!Next
<1>1. op = "write" /\ chain # <<>> /\ tail # <<>> /\ tail \in Seq(Byte) /\ Len(tail) \in Nat
  BY BufFacts DEF WriteStep, BufInv
<1>2. Room \in Nat /\ Room > 0
  <2>1. PICK w : w = WithRoom
    OBVIOUS
  <2> QED
    BY <1>1, <2>1, BufFacts, RoomIsThere
<1>3. PICK len : len = IF Room < Len(tail) THEN Room ELSE Len(tail)
  OBVIOUS
<1>4. len \in Nat /\ len > 0 /\ len <= Room /\ len <= Len(tail)
  <2>1. Len(tail) > 0
    BY <1>1
  <2>2. PICK k, m : k = Room /\ m = Len(tail)
    OBVIOUS
  <2>3. k \in Nat /\ m \in Nat /\ k > 0 /\ m > 0 /\ len = IF k < m THEN k ELSE m
    BY <1>1, <1>2, <1>3, <2>1, <2>2
  <2>4. len \in Nat /\ len > 0 /\ len <= k /\ len <= m
    BY <2>3
  <2> QED
    BY <2>2, <2>4
<1>5. PICK chunk, rest : chunk = SubSeq(tail, 1, len) /\ rest = SubSeq(tail, len + 1, Len(tail))
  OBVIOUS
<1>6. /\ chunk \in Seq(Byte) /\ Len(chunk) = len /\ rest \in Seq(Byte)
  <2>1. 1 \in Int /\ len \in Int /\ len + 1 \in Int /\ Len(tail) \in Int
        /\ 1..len \subseteq 1..Len(tail) /\ (len + 1)..Len(tail) \subseteq 1..Len(tail)
    BY <1>1, <1>4
  <2>2. (\A i \in 1..len : tail[i] \in Byte) /\ \A i \in (len + 1)..Len(tail) : tail[i] \in Byte
    BY <1>1, <2>1, ElementOfSeq
  <2>3. /\ SubSeq(tail, 1, len) \in Seq(Byte)
        /\ Len(SubSeq(tail, 1, len)) = IF 1 <= len THEN len - 1 + 1 ELSE 0
        /\ SubSeq(tail, len + 1, Len(tail)) \in Seq(Byte)
    BY <2>1, <2>2, SubSeqProperties
  <2>4. (IF 1 <= len THEN len - 1 + 1 ELSE 0) = len
    BY <1>4
  <2> QED
    BY <1>5, <2>3, <2>4, Zenon
<1>7. /\ chain' = Stored(chunk) /\ tail' = rest /\ taken' = <<>>
      /\ op' = (IF tail' = <<>> THEN "none" ELSE "write")
      /\ last' = last /\ want' = want /\ used' = used
  BY <1>3, <1>5 DEF WriteStep
<1>8. chunk # <<>>
  <2>1. Len(chunk) # 0
    BY <1>4, <1>6
  <2>2. Len(<<>>) = 0
    OBVIOUS
  <2> QED
    BY <2>1, <2>2
<1>9. PICK r : r = Stored(chunk)
  OBVIOUS
<1>10. Len(chunk) <= Room
  BY <1>4, <1>6
<1>11. /\ r \in Seq(BufSegment) /\ Sound(r) /\ r # <<>> /\ BytesOf(r) = BytesOf(chain) \o chunk
       /\ Filled(chain) => Filled(r)
       /\ AllHold(chain) \/ Len(chain) = 1 => AllHold(r)
  BY <1>1, <1>6, <1>8, <1>9, <1>10, BufFacts, StoredInRoom
<1>12. taken' \in Seq(Byte) /\ op' \in {"none", "write"}
  BY <1>7
<1>13. BufTypeOK' /\ LastIsValid'
  BY <1>1, <1>6, <1>7, <1>9, <1>11, <1>12, BufFacts DEF BufTypeOK, LastIsValid
<1>14. "io_buf_recv" \notin used => AllHold(r)
  BY <1>11, BufFacts
<1>15. /\ "io_buf_add" \notin used' => Filled(chain')
       /\ op' \in {"write", "recv"} => chain' # <<>>
       /\ op' = "write" => tail' # <<>>
       /\ op' # "recv"
       /\ "io_buf_recv" \notin used' => AllHold(chain')
       /\ Sound(chain')
  BY <1>7, <1>9, <1>11, <1>14, BufFacts
<1>16. BufInv'
  BY <1>13, <1>15 DEF BufInv
<1>17. Bytes' = Bytes \o chunk
  BY <1>7, <1>9, <1>11, BytesAre
<1> QED
  BY <1>6, <1>7, <1>16, <1>17, BufFacts, AppendedIsPut DEF AbstractBuf!Next

\* io_buf_recv.
LEMMA RecvKeepsBuf ==
    ASSUME BufInv, io_buf_recv
    PROVE  BufInv' /\ AbstractBuf!Next
<1>1. PICK w : w = WithLastSeg
  OBVIOUS
<1>2. /\ w \in Seq(BufSegment) /\ Sound(w) /\ w # <<>> /\ BytesOf(w) = BytesOf(chain)
      /\ Filled(chain) => Filled(w)
  BY <1>1, LastSegIsThere
<1>3. /\ chain' = w /\ last' = TRUE /\ tail' = tail /\ op' = "recv"
      /\ taken' = <<>> /\ want' = want /\ used' = used \cup {"io_buf_recv"}
  BY <1>1 DEF io_buf_recv
<1>4. taken' \in Seq(Byte)
  BY <1>3
<1>5. BufTypeOK' /\ LastIsValid'
  BY <1>2, <1>3, <1>4, BufFacts DEF BufTypeOK, LastIsValid
<1>6. BufInv'
  BY <1>2, <1>3, <1>5, BufFacts DEF BufInv
<1>7. Bytes' = Bytes
  BY <1>2, <1>3, BytesAre
<1> QED
  BY <1>3, <1>6, <1>7, BufFacts, UnchangedIsPut DEF AbstractBuf!Next

LEMMA RecvStepKeepsBuf ==
    ASSUME BufInv, RecvStep
    PROVE  BufInv' /\ AbstractBuf!Next
<1>1. op = "recv" /\ chain # <<>> /\ "io_buf_recv" \in used
  BY DEF RecvStep, BufInv
<1>2. Room \in Nat /\ Room > 0
  <2>1. PICK w : w = WithRoom
    OBVIOUS
  <2> QED
    BY <1>1, <2>1, BufFacts, RoomIsThere
<1>3. PICK chunk \in BoundedSeq(Byte, Room) :
          chain' = Stored(chunk) /\ op' = IF Len(chunk) = Room THEN "recv" ELSE "none"
  BY Zenon DEF RecvStep
<1>4. chunk \in Seq(Byte) /\ Len(chunk) <= Room
  BY <1>2, BoundedSeqIs
<1>5. PICK r : r = Stored(chunk)
  OBVIOUS
<1>6. /\ r \in Seq(BufSegment) /\ Sound(r) /\ r # <<>> /\ BytesOf(r) = BytesOf(chain) \o chunk
      /\ Filled(chain) => Filled(r)
  BY <1>1, <1>4, <1>5, BufFacts, StoredInRoom
<1>7. /\ taken' = <<>> /\ last' = last /\ tail' = tail /\ want' = want /\ used' = used
      /\ op' \in {"recv", "none"}
  BY <1>3 DEF RecvStep
<1>8. taken' \in Seq(Byte)
  BY <1>7
<1>9. BufTypeOK' /\ LastIsValid'
  BY <1>1, <1>3, <1>5, <1>6, <1>7, <1>8, BufFacts DEF BufTypeOK, LastIsValid
<1>10. BufInv'
  BY <1>1, <1>3, <1>5, <1>6, <1>7, <1>9, BufFacts DEF BufInv
<1>11. Bytes' = Bytes \o chunk
  BY <1>3, <1>5, <1>6, BytesAre
<1> QED
  BY <1>4, <1>7, <1>10, <1>11, BufFacts, AppendedIsPut DEF AbstractBuf!Next

LEMMA RecvFailsKeepsBuf ==
    ASSUME BufInv, RecvFails
    PROVE  BufInv' /\ AbstractBuf!Next
<1>1. op = "recv" /\ chain # <<>> /\ "io_buf_recv" \in used
  BY DEF RecvFails, BufInv
<1>2. PICK w : w = WithRoom
  OBVIOUS
<1>3. /\ w \in Seq(BufSegment) /\ Sound(w) /\ w # <<>> /\ BytesOf(w) = BytesOf(chain)
      /\ Filled(chain) => Filled(w)
  BY <1>1, <1>2, BufFacts, RoomIsThere
<1>4. /\ chain' = w /\ op' = "none" /\ taken' = <<>> /\ last' = last /\ tail' = tail
      /\ want' = want /\ used' = used
  BY <1>2 DEF RecvFails
<1>5. taken' \in Seq(Byte)
  BY <1>4
<1>6. BufTypeOK' /\ LastIsValid'
  BY <1>1, <1>3, <1>4, <1>5, BufFacts DEF BufTypeOK, LastIsValid
<1>7. BufInv'
  BY <1>1, <1>3, <1>4, <1>6, BufFacts DEF BufInv
<1>8. Bytes' = Bytes
  BY <1>3, <1>4, BytesAre
<1> QED
  BY <1>4, <1>7, <1>8, BufFacts, UnchangedIsPut DEF AbstractBuf!Next

\* io_buf_add.
LEMMA AddKeepsBuf ==
    ASSUME BufInv, NEW data \in Seq(Byte), data # <<>>, Len(data) <= SegSize, io_buf_add(data)
    PROVE  BufInv' /\ AbstractBuf!Next
<1>1. PICK s, r : s = [begin |-> 0, data |-> data] /\ r = Append(chain, s)
  OBVIOUS
<1>2. 0 \in Nat /\ Len(data) \in Nat /\ 0 <= Len(data) /\ 0 < Len(data)
  OBVIOUS
<1>3. s \in BufSegment
  BY <1>1, <1>2, IsBufSegment
<1>4. s.begin = 0 /\ s.data = data
  BY <1>1
<1>5. Unspent(s)
  BY <1>2, <1>4 DEF Unspent
<1>6. /\ r \in Seq(BufSegment) /\ Sound(r) /\ Len(r) = Len(chain) + 1 /\ r[Len(chain) + 1] = s
      /\ \A i \in 1..Len(chain) : r[i] = chain[i]
      /\ BytesOf(r) = BytesOf(chain) \o Unread(s)
  BY <1>1, <1>3, <1>4, <1>5, BufFacts, SegmentAdded
<1>7. /\ op = "none" /\ op' = op /\ chain' = r /\ last' = TRUE /\ taken' = <<>>
      /\ used' = used \cup {"io_buf_add"} /\ tail' = tail /\ want' = want
  BY <1>1 DEF io_buf_add
<1>8. Len(chain) \in Nat /\ r # <<>>
  <2>1. Len(chain) \in Nat
    BY BufFacts
  <2>2. Len(r) # 0
    BY <1>6, <2>1
  <2> QED
    BY <2>1, <2>2
<1>9. AllHold(chain) => AllHold(r)
  <2>1. \A i \in 1..Len(r) : i = Len(chain) + 1 \/ i \in 1..Len(chain)
    BY <1>6, <1>8
  <2> QED
    BY <1>4, <1>6, <2>1, Zenon DEF AllHold
<1>10. taken' \in Seq(Byte)
  BY <1>7
<1>11. BufTypeOK' /\ LastIsValid'
  BY <1>6, <1>7, <1>8, <1>10, BufFacts DEF BufTypeOK, LastIsValid
<1>12. BufInv'
  BY <1>6, <1>7, <1>8, <1>9, <1>11, BufFacts DEF BufInv
<1>13. Unread(s) \in Seq(Byte) /\ Bytes' = Bytes \o Unread(s)
  BY <1>3, <1>5, <1>6, <1>7, UnreadBytes, BytesAre
<1> QED
  BY <1>7, <1>12, <1>13, BufFacts, AppendedIsPut DEF AbstractBuf!Next

\* io_buf_read and io_buf_send.
LEMMA ReadStepKeepsBuf ==
    ASSUME BufInv, ReadStep
    PROVE  BufInv' /\ AbstractBuf!Next
<1>1. PICK unread, n :
          /\ unread = Len(Unread(Head(chain))) /\ n = (IF unread > want THEN want ELSE unread)
          /\ Consume(n) /\ want' = want - n
  BY DEF ReadStep
<1>2. op = "read" /\ chain # <<>> /\ op' = op /\ tail' = tail /\ used' = used
  BY DEF ReadStep
<1>3. unread \in Nat
  <2>1. chain[1] \in BufSegment /\ Unspent(chain[1]) /\ Head(chain) = chain[1]
    <3>1. 1 \in 1..Len(chain) /\ Head(chain) = chain[1]
      BY <1>2, BufFacts
    <3> QED
      BY <3>1, BufFacts DEF Sound
  <2>2. Unread(Head(chain)) \in Seq(Byte)
    BY <2>1, UnreadBytes
  <2> QED
    BY <1>1, <2>2, LenProperties
<1>4. n \in 0..unread /\ want' \in Nat
  <2>1. want \in Nat
    BY BufFacts
  <2> QED
    BY <1>1, <1>3, <2>1
<1>5. n \in 0..Len(Unread(Head(chain)))
  BY <1>1, <1>4, Zenon
<1>6. op \in {"read", "send"} /\ op' \in {"none", "read", "send"}
  BY <1>2
<1> QED
  BY <1>1, <1>2, <1>4, <1>5, <1>6, ConsumeKeepsBuf

LEMMA SendStepKeepsBuf ==
    ASSUME BufInv, SendStep
    PROVE  BufInv' /\ AbstractBuf!Next
<1>1. PICK n \in 0..Len(Unread(Head(chain))) :
          Consume(n) /\ op' \in {"none", "send"}
  BY DEF SendStep
<1>2. op = "send" /\ chain # <<>> /\ tail' = tail /\ used' = used /\ want' = want
  BY DEF SendStep
<1>3. op \in {"read", "send"} /\ op' \in {"none", "read", "send"} /\ want' \in Nat
  BY <1>1, <1>2, BufFacts
<1> QED
  BY <1>1, <1>2, <1>3, ConsumeKeepsBuf

\* io_buf_free.
LEMMA BufFreeKeepsBuf ==
    ASSUME BufInv, io_buf_free
    PROVE  BufInv' /\ AbstractBuf!Next
<1>1. /\ chain' = <<>> /\ last' = FALSE /\ taken' = <<>> /\ used' = {} /\ op = "none"
      /\ op' = op /\ tail' = tail /\ want' = want
  BY DEF io_buf_free
<1>2. \A S : <<>> \in Seq(S)
  OBVIOUS
<1>3. Sound(<<>>) /\ Filled(<<>>) /\ AllHold(<<>>)
  BY DEF Sound, Filled, AllHold
<1>4. BufTypeOK' /\ LastIsValid'
  BY <1>1, <1>2, BufFacts DEF BufTypeOK, LastIsValid
<1>5. BufInv'
  BY <1>1, <1>3, <1>4 DEF BufInv
<1>6. Bytes' = <<>>
  <2>1. UnreadIn(<<>>) = <<>>
    BY DEF UnreadIn
  <2> QED
    BY <1>1, <2>1, FlattenEmpty, BytesAre, Zenon DEF BytesOf
<1> QED
  BY <1>1, <1>5, <1>6 DEF AbstractBuf!Next, AbstractBuf!Drop

LEMMA BufInitHolds == BufInit => BufInv /\ Bytes = <<>>
<1> SUFFICES ASSUME BufInit PROVE BufInv /\ Bytes = <<>>
  OBVIOUS
<1>1. /\ chain = <<>> /\ last = FALSE /\ taken = <<>> /\ used = {} /\ op = "none"
      /\ tail = <<>> /\ want = 0
  BY DEF BufInit, io_buf_init
<1>2. \A S : <<>> \in Seq(S)
  OBVIOUS
<1>3. Sound(<<>>) /\ Filled(<<>>) /\ AllHold(<<>>)
  BY DEF Sound, Filled, AllHold
<1>4. BufTypeOK /\ LastIsValid
  BY <1>1, <1>2 DEF BufTypeOK, LastIsValid
<1>5. BufInv
  BY <1>1, <1>3, <1>4 DEF BufInv
<1>6. Bytes = <<>>
  <2>1. UnreadIn(<<>>) = <<>>
    BY DEF UnreadIn
  <2> QED
    BY <1>1, <2>1, FlattenEmpty, BytesAre, Zenon DEF BytesOf
<1> QED
  BY <1>5, <1>6

LEMMA StepKeepsBuf == BufInv /\ BufNext => BufInv' /\ AbstractBuf!Next
<1> SUFFICES ASSUME BufInv, BufNext PROVE BufInv' /\ AbstractBuf!Next
  OBVIOUS
<1>1. ASSUME NEW data \in BoundedSeq(Byte, MaxChunk), data # <<>>,
             io_buf_write(data) \/ (Len(data) <= SegSize /\ io_buf_add(data))
      PROVE  BufInv' /\ AbstractBuf!Next
  <2>1. data \in Seq(Byte)
    BY SizesAssumption, BoundedSeqIs
  <2> QED
    BY <1>1, <2>1, WriteKeepsBuf, AddKeepsBuf
<1>2. ASSUME NEW size \in 1..MaxChunk, io_buf_read(size) PROVE BufInv' /\ AbstractBuf!Next
  <2>1. want' \in Nat /\ op' \in {"none", "read", "send"} /\ op \in {"none", "read", "send"}
    BY <1>2, SizesAssumption DEF io_buf_read
  <2> QED
    BY <1>2, <2>1, OtherwiseKeepsBuf DEF io_buf_read
<1>3. CASE ReadReturns
  <2>1. want' \in Nat /\ op' \in {"none", "read", "send"} /\ op \in {"none", "read", "send"}
    BY <1>3 DEF ReadReturns
  <2> QED
    BY <1>3, <2>1, OtherwiseKeepsBuf DEF ReadReturns
<1>4. CASE io_buf_send \/ SendFails \/ SendReturns
  <2>1. want' \in Nat /\ op' \in {"none", "read", "send"} /\ op \in {"none", "read", "send"}
    BY <1>4, BufFacts DEF io_buf_send, SendFails, SendReturns
  <2> QED
    BY <1>4, <2>1, OtherwiseKeepsBuf DEF io_buf_send, SendFails, SendReturns
<1> QED
  BY <1>1, <1>2, <1>3, <1>4, RecvKeepsBuf, WriteStepKeepsBuf, ReadStepKeepsBuf, RecvStepKeepsBuf,
     RecvFailsKeepsBuf, SendStepKeepsBuf, BufFreeKeepsBuf DEF BufNext

LEMMA BufInvStutters == BufInv /\ UNCHANGED bufVars => BufInv' /\ UNCHANGED AbstractBuf!vars
<1> SUFFICES ASSUME BufInv, UNCHANGED bufVars PROVE BufInv' /\ UNCHANGED AbstractBuf!vars
  OBVIOUS
<1>1. BufTypeOK' /\ LastIsValid'
  BY DEF BufInv, BufTypeOK, LastIsValid, bufVars
<1>2. BufInv'
  BY <1>1 DEF BufInv, bufVars
<1>3. Bytes' = Bytes /\ taken' = taken
  BY BytesAre DEF bufVars
<1> QED
  BY <1>2, <1>3 DEF AbstractBuf!vars

LEMMA BufIsInvariant == BufSpec => []BufInv
BY BufInitHolds, StepKeepsBuf, BufInvStutters, PTL DEF BufSpec

\* The variables of the buffer keep their types, for segments of any size.
THEOREM BufTypeCorrect == BufSpec => []BufTypeOK
<1>1. BufInv => BufTypeOK
  BY DEF BufInv
<1> QED
  BY <1>1, BufIsInvariant, PTL

\* b->last is NULL exactly when b->first is, in the middle of an operation too.
THEOREM LastStaysValid == BufSpec => []LastIsValid
<1>1. BufInv => LastIsValid
  BY DEF BufInv
<1> QED
  BY <1>1, BufIsInvariant, PTL

\* Only the first segment has been read from, and without io_buf_add all but the
\* last are full and not used up.
THEOREM BufStaysPacked == BufSpec => []BufIsPacked
<1>1. BufInv => BufIsPacked
  <2> SUFFICES ASSUME BufInv PROVE BufIsPacked
    OBVIOUS
  <2>1. DOMAIN chain = 1..Len(chain) /\ Len(chain) \in Nat
    BY BufFacts
  <2>2. \A i \in 1..Len(chain) : chain[i] \in BufSegment /\ Unspent(chain[i])
    BY BufFacts, ElementOfSeq DEF Sound
  <2>3. \A i \in 1..Len(chain) : chain[i].begin <= Len(chain[i].data)
    BY <2>2, UnreadBytes
  <2>4. ASSUME "io_buf_add" \notin used, NEW i \in 1..(Len(chain) - 1)
        PROVE  chain[i].begin < Len(chain[i].data) /\ Len(chain[i].data) = SegSize
    <3>1. i \in 1..Len(chain)
      BY <2>1
    <3>2. Len(chain[i].data) = SegSize
      BY <2>4, BufFacts, Zenon DEF Filled
    <3>3. chain[i].data # <<>>
      BY <3>2, SizeIsNat
    <3> QED
      BY <2>2, <3>1, <3>2, <3>3, Zenon DEF Unspent
  <2> QED
    BY <2>1, <2>3, <2>4, BufFacts, Zenon DEF BufIsPacked, Sound
<1> QED
  BY <1>1, BufIsInvariant, PTL

\* Between operations, a buffer nobody receives into has no segment exactly when
\* it holds no byte.
THEOREM EmptyBufHoldsNothing == BufSpec => []EmptyMeansNoBytes
<1>1. BufInv => EmptyMeansNoBytes
  <2> SUFFICES ASSUME BufInv, "io_buf_recv" \notin used, op = "none"
               PROVE  chain = <<>> <=> Bytes = <<>>
    BY DEF EmptyMeansNoBytes, io_buf_is_empty
  <2>1. ASSUME chain = <<>> PROVE Bytes = <<>>
    <3>1. UnreadIn(<<>>) = <<>>
      BY DEF UnreadIn
    <3> QED
      BY <2>1, <3>1, FlattenEmpty, BytesAre, Zenon DEF BytesOf
  <2>2. ASSUME chain # <<>> PROVE Bytes # <<>>
    <3>1. AllHold(chain)
      BY BufFacts
    <3>2. PICK q, s : q = UnreadIn(chain) /\ s = chain[1]
      OBVIOUS
    <3>3. 1 \in 1..Len(chain)
      BY <2>2, BufFacts
    <3>4. s \in BufSegment /\ Unspent(s) /\ s.data # <<>>
      BY <3>1, <3>2, <3>3, BufFacts, ElementOfSeq DEF AllHold, Sound
    <3>5. Unread(s) \in Seq(Byte) /\ Unread(s) # <<>>
      <4>1. s.begin < Len(s.data)
        BY <3>4, Zenon DEF Unspent
      <4>2. s.begin \in Nat /\ Len(s.data) \in Nat
        BY <3>4, BufSegmentFields
      <4>3. Unread(s) \in Seq(Byte) /\ Len(Unread(s)) = Len(s.data) - s.begin
        BY <3>4, UnreadBytes
      <4>4. Len(Unread(s)) # 0
        BY <4>1, <4>2, <4>3
      <4>5. Len(<<>>) = 0
        OBVIOUS
      <4> QED
        BY <4>3, <4>4, <4>5
    <3>6. q \in Seq(Seq(Byte)) /\ Len(q) = Len(chain) /\ q[1] = Unread(s)
      BY <3>2, <3>3, BufFacts, UnreadType
    <3>7. q # <<>>
      BY <2>2, <3>6, BufFacts
    <3>8. FlattenSeq(q) = Head(q) \o FlattenSeq(Tail(q))
      BY <3>6, <3>7, FlattenHead
    <3>9. Head(q) = Unread(s)
      BY <3>6, <3>7
    <3>10. Tail(q) \in Seq(Seq(Byte))
      BY <3>6, <3>7, HeadTailProperties
    <3>11. FlattenSeq(Tail(q)) \in Seq(Byte)
      BY <3>10, FlattenType
    <3>12. Unread(s) \o FlattenSeq(Tail(q)) # <<>>
      BY <3>5, <3>11, ConcatEqualIffEmpty
    <3> QED
      BY <3>2, <3>8, <3>9, <3>12, BytesAre, Zenon DEF BytesOf
  <2> QED
    BY <2>1, <2>2
<1> QED
  BY <1>1, BufIsInvariant, PTL

\* The chain of segments is a queue of bytes: whatever sizes are written, read,
\* received and sent, in part or not at all, bytes leave in the order they came.
THEOREM BufIsByteQueue == BufSpec => IsByteQueue
<1>1. BufInit => AbstractBuf!Init
  BY BufInitHolds DEF BufInit, AbstractBuf!Init
<1>2. BufInv /\ [BufNext]_bufVars => [AbstractBuf!Next]_(AbstractBuf!vars)
  BY StepKeepsBuf, BufInvStutters
<1> QED
  BY <1>1, <1>2, BufIsInvariant, PTL DEF BufSpec, IsByteQueue, AbstractBuf!Spec

=============================================================================
