---------------------------- MODULE StreamProofs ----------------------------
(***************************************************************************)
(* What io_stream.c owes to an application whose sent() callback does not  *)
(* write when a write calls it: bytes keep their order, queued ones wait   *)
(* for POLLOUT, and all_sent() tells the truth, for any bytes, any depth   *)
(* of callbacks and any amount written.                                    *)
(***************************************************************************)
EXTENDS Stream, SequenceTheorems, TLAPS

\* No frame of s waits for the sent() callback of a write.
NoWriteSent(s) == \A i \in DOMAIN s : s[i].at # "write_sent"

\* A write that waits for sent() is on top of the stack: nothing is called by
\* that callback.
OnTop == stack # <<>> => NoWriteSent(Tail(stack))

\* The bytes that the kernel has, then those of the write that waits for sent(),
\* which has found the buffer empty, or else those of the buffer.
Order ==
    IF stack # <<>> /\ Top.at = "write_sent"
    THEN out = <<>> /\ wire \o Top.rest = accepted
    ELSE wire \o out = accepted

OrderInv == TypeOK /\ OnTop /\ Order

\* Whoever is on the stack, bytes in the buffer are polled for.
Queued == out # <<>> => "POLLOUT" \in events

-----------------------------------------------------------------------------
(* The stack *)

\* A frame is pushed on a stack.
LEMMA Push ==
    ASSUME NEW at \in Callbacks, NEW rest \in Seq(Byte), NEW more \in BOOLEAN,
           rest # <<>> => at = "write_sent",
           more => at = "event_sent",
           NEW below \in Seq(Frame)
    PROVE  /\ Call(at, rest, more) \o below \in Seq(Frame)
           /\ Call(at, rest, more) \o below # <<>>
           /\ Head(Call(at, rest, more) \o below) = [at |-> at, rest |-> rest, more |-> more]
           /\ Tail(Call(at, rest, more) \o below) = below
<1> DEFINE f == [at |-> at, rest |-> rest, more |-> more]
           s == <<f>> \o below
<1>1. f \in Frame /\ <<f>> \in Seq(Frame) /\ Len(<<f>>) = 1 /\ <<f>>[1] = f
  BY DEF Frame
<1> HIDE DEF f
<1>2. /\ s \in Seq(Frame)
      /\ Len(s) = 1 + Len(below)
      /\ \A i \in 1..(1 + Len(below)) : s[i] = IF i <= 1 THEN <<f>>[i] ELSE below[i - 1]
  BY <1>1, ConcatProperties
<1> HIDE DEF s
<1>3. Len(below) \in Nat
  OBVIOUS
<1>4. s # <<>> /\ Head(s) = f
  BY <1>1, <1>2, <1>3
<1>5. /\ Tail(s) \in Seq(Frame)
      /\ Len(Tail(s)) = Len(below)
      /\ \A i \in 1..Len(below) : Tail(s)[i] = s[i + 1]
  BY <1>2, <1>3, <1>4, HeadTailProperties
<1>6. ASSUME NEW i \in 1..Len(below) PROVE Tail(s)[i] = below[i]
  BY <1>2, <1>3, <1>5
<1>7. Tail(s) = below
  BY <1>5, <1>6, SeqEqual
<1> QED
  BY <1>2, <1>4, <1>7 DEF Call, f, s

\* A frame alone is a stack.
LEMMA Alone ==
    ASSUME NEW at \in Callbacks, NEW more \in BOOLEAN, more => at = "event_sent",
           at # "write_sent"
    PROVE  /\ Call(at, <<>>, more) \in Seq(Frame)
           /\ Call(at, <<>>, more) # <<>>
           /\ Head(Call(at, <<>>, more)).at = at
           /\ Tail(Call(at, <<>>, more)) = <<>>
           /\ NoWriteSent(Call(at, <<>>, more))
<1>1. [at |-> at, rest |-> <<>>, more |-> more] \in Frame
  BY DEF Frame
<1> QED
  BY <1>1 DEF Call, NoWriteSent

\* Nothing is below the frames of an empty stack.
LEMMA NobodyWaits == NoWriteSent(<<>>)
BY DEF NoWriteSent

\* A stack whose top does not wait for a write's sent(), with what is below it.
LEMMA TopIsOther ==
    ASSUME NEW s \in Seq(Frame), s # <<>>, Head(s).at # "write_sent", NoWriteSent(Tail(s))
    PROVE  NoWriteSent(s)
<1>1. /\ Len(s) \in Nat /\ Len(s) > 0 /\ DOMAIN s = 1..Len(s) /\ Head(s) = s[1]
      /\ Tail(s) \in Seq(Frame)
      /\ Len(Tail(s)) = Len(s) - 1
      /\ \A i \in 1..(Len(s) - 1) : Tail(s)[i] = s[i + 1]
  BY HeadTailProperties
<1>2. DOMAIN Tail(s) = 1..(Len(s) - 1)
  BY <1>1
<1>3. ASSUME NEW i \in 1..Len(s), i # 1 PROVE s[i].at # "write_sent"
  <2>1. i - 1 \in 1..(Len(s) - 1) /\ (i - 1) + 1 = i
    BY <1>1, <1>3
  <2>2. Tail(s)[i - 1] = s[i]
    BY <1>1, <2>1
  <2> QED
    BY <1>2, <2>1, <2>2 DEF NoWriteSent
<1> QED
  BY <1>1, <1>3 DEF NoWriteSent

\* What is below the top of such a stack, and the top itself.
LEMMA NobodyBelow ==
    ASSUME NEW s \in Seq(Frame), s # <<>>, NoWriteSent(s)
    PROVE  NoWriteSent(Tail(s)) /\ Head(s).at # "write_sent"
<1>1. /\ Len(s) \in Nat /\ Len(s) > 0 /\ DOMAIN s = 1..Len(s) /\ Head(s) = s[1]
      /\ Tail(s) \in Seq(Frame)
      /\ Len(Tail(s)) = Len(s) - 1
      /\ \A i \in 1..(Len(s) - 1) : Tail(s)[i] = s[i + 1]
  BY HeadTailProperties
<1>2. DOMAIN Tail(s) = 1..(Len(s) - 1)
  BY <1>1
<1>3. ASSUME NEW i \in 1..(Len(s) - 1) PROVE Tail(s)[i].at # "write_sent"
  <2>1. i + 1 \in 1..Len(s)
    BY <1>1
  <2> QED
    BY <1>1, <2>1 DEF NoWriteSent
<1> QED
  BY <1>1, <1>2, <1>3 DEF NoWriteSent

\* The bytes of data split where send() stopped.
LEMMA Split ==
    ASSUME NEW data \in Seq(Byte), NEW n \in 0..Len(data)
    PROVE  /\ SubSeq(data, 1, n) \in Seq(Byte)
           /\ SubSeq(data, n + 1, Len(data)) \in Seq(Byte)
           /\ SubSeq(data, 1, n) \o SubSeq(data, n + 1, Len(data)) = data
<1>1. Len(data) \in Nat /\ \A i \in 1..Len(data) : data[i] \in Byte
  OBVIOUS
<1>2. 1 \in 1..(Len(data) + 1) /\ n \in (1 - 1)..Len(data) /\ Len(data) \in n..Len(data)
  BY <1>1
<1>3. SubSeq(data, 1, n) \o SubSeq(data, n + 1, Len(data)) = SubSeq(data, 1, Len(data))
  BY <1>2, ConcatAdjacentSubSeq
<1>4. SubSeq(data, 1, Len(data)) = data
  BY SubSeqFull
<1>5. SubSeq(data, 1, n) \in Seq(Byte)
  <2>1. \A i \in 1..n : data[i] \in Byte
    BY <1>1
  <2> QED
    BY <1>1, <2>1, SubSeqProperties
<1>6. SubSeq(data, n + 1, Len(data)) \in Seq(Byte)
  <2>1. \A i \in (n + 1)..Len(data) : data[i] \in Byte
    BY <1>1
  <2>2. n + 1 \in Int
    BY <1>1
  <2> QED
    BY <1>1, <2>1, <2>2, SubSeqProperties
<1> QED
  BY <1>3, <1>4, <1>5, <1>6

\* Behind other bytes, too.
LEMMA SplitBehind ==
    ASSUME NEW before \in Seq(Byte), NEW data \in Seq(Byte), NEW n \in 0..Len(data)
    PROVE  /\ before \o SubSeq(data, 1, n) \in Seq(Byte)
           /\ SubSeq(data, n + 1, Len(data)) \in Seq(Byte)
           /\ (before \o SubSeq(data, 1, n)) \o SubSeq(data, n + 1, Len(data)) = before \o data
<1>1. PICK head, rest : head = SubSeq(data, 1, n) /\ rest = SubSeq(data, n + 1, Len(data))
  OBVIOUS
<1>2. head \in Seq(Byte) /\ rest \in Seq(Byte)
  BY <1>1, Split
<1>3. head \o rest = data
  BY <1>1, Split
<1>4. (before \o head) \o rest = before \o (head \o rest)
  BY <1>2, ConcatAssociative
<1>5. before \o head \in Seq(Byte)
  BY <1>2, ConcatProperties
<1>6. (before \o head) \o rest = before \o data
  BY <1>3, <1>4
<1> QED
  BY <1>1, <1>2, <1>5, <1>6

-----------------------------------------------------------------------------
(* What a step keeps *)

\* The end of a write queues what is left, or tells that nothing is.
LEMMA WriteRestQueues ==
    ASSUME TypeOK, NEW rest \in Seq(Byte), NEW below \in Seq(Frame), NoWriteSent(below),
           WriteRest(rest, below)
    PROVE  /\ out' = out \o rest /\ out' \in Seq(Byte)
           /\ events' \subseteq {"POLLIN", "POLLOUT"}
           /\ stack' \in Seq(Frame)
           /\ NoWriteSent(stack')
<1>1. CASE rest = <<>>
  <2>1. out' = out /\ events' = events \ {"POLLOUT"}
        /\ stack' = Call("write_all_sent", <<>>, FALSE) \o below
    BY <1>1 DEF WriteRest
  <2>2. out \o rest = out
    BY <1>1, ConcatEmptySeq DEF TypeOK
  <2>3. /\ stack' \in Seq(Frame) /\ stack' # <<>>
        /\ Head(stack') = [at |-> "write_all_sent", rest |-> <<>>, more |-> FALSE]
        /\ Tail(stack') = below
    <3> DEFINE pushed == Call("write_all_sent", <<>>, FALSE) \o below
    <3>1. /\ pushed \in Seq(Frame) /\ pushed # <<>>
          /\ Head(pushed) = [at |-> "write_all_sent", rest |-> <<>>, more |-> FALSE]
          /\ Tail(pushed) = below
      <4>1. "write_all_sent" \in Callbacks /\ <<>> \in Seq(Byte) /\ FALSE \in BOOLEAN
        BY DEF Callbacks
      <4> QED
        BY <4>1, Push
    <3>2. stack' = pushed
      BY <2>1
    <3> HIDE DEF pushed
    <3> QED
      BY <3>1, <3>2
  <2>4. Head(stack').at # "write_sent"
    BY <2>3
  <2>5. NoWriteSent(stack')
    BY <2>3, <2>4, TopIsOther
  <2> QED
    BY <2>1, <2>2, <2>3, <2>5 DEF TypeOK
<1>2. CASE rest # <<>>
  <2>1. out' = out \o rest /\ events' = events \cup {"POLLOUT"} /\ stack' = below
    BY <1>2 DEF WriteRest
  <2>2. out \o rest \in Seq(Byte)
    BY ConcatProperties DEF TypeOK
  <2> QED
    BY <2>1, <2>2 DEF TypeOK
<1> QED
  BY <1>1, <1>2

\* Where nothing waits for a write's sent(), the order is that of wire and buffer.
LEMMA OrderHere ==
    ASSUME TypeOK, OnTop, Order, stack = <<>> \/ Top.at # "write_sent"
    PROVE  wire \o out = accepted /\ NoWriteSent(stack)
<1>1. wire \o out = accepted
  BY DEF Order
<1>2. NoWriteSent(stack)
  BY NobodyWaits, TopIsOther DEF OnTop, Top, TypeOK
<1> QED
  BY <1>1, <1>2

\* A stack on which nothing waits for a write's sent() satisfies both parts.
LEMMA OrderThere ==
    ASSUME stack' \in Seq(Frame), NoWriteSent(stack'), wire' \o out' = accepted'
    PROVE  OnTop' /\ Order'
<1>1. stack' # <<>> => NoWriteSent(Tail(stack')) /\ Head(stack').at # "write_sent"
  BY NobodyBelow
<1> QED
  BY <1>1 DEF OnTop, Order, Top

\* The data of a write is a sequence of bytes.
LEMMA DataIsBytes == \A d \in Data : d \in Seq(Byte)
<1>1. MaxBytes \in Nat
  BY BoundsAssumption
<1> QED
  BY <1>1 DEF Data, BoundedSeq, SeqOf


-----------------------------------------------------------------------------
(* Order, step by step *)

\* A write finds code of the application on top of the stack.
LEMMA WriterOnTop ==
    ASSUME OrderInv, "write_sent" \notin Writers, NEW data, Writing(data)
    PROVE  stack # <<>> /\ Top.at # "write_sent" /\ NoWriteSent(stack) /\ wire \o out = accepted
<1>1. stack # <<>> /\ Top.at # "write_sent"
  BY DEF Writing
<1> QED
  BY <1>1, OrderHere DEF OrderInv

LEMMA WriteDirectKeepsOrder ==
    ASSUME OrderInv, "write_sent" \notin Writers,
           NEW data \in Seq(Byte), NEW n \in 0..Len(data), WriteDirect(data, n)
    PROVE  OrderInv'
<1> DEFINE head == SubSeq(data, 1, n)
           rest == SubSeq(data, n + 1, Len(data))
<1>1. head \in Seq(Byte) /\ rest \in Seq(Byte) /\ head \o rest = data
  BY Split
<1>2. stack # <<>> /\ NoWriteSent(stack) /\ wire \o out = accepted
  BY WriterOnTop DEF WriteDirect
<1>3. TypeOK
  BY DEF OrderInv
<1>4. out = <<>> /\ wire \o out = wire
  BY <1>3, ConcatEmptySeq DEF WriteDirect, Direct, TypeOK
<1>5. /\ accepted' = accepted \o data /\ wire' = wire \o head
      /\ UNCHANGED <<open, connecting>>
  BY DEF WriteDirect
<1>6. n > 0 => stack' = Call("write_sent", rest, FALSE) \o stack /\ UNCHANGED <<events, out>>
  BY DEF WriteDirect
<1>7. ~(n > 0) => WriteRest(rest, stack)
  BY DEF WriteDirect
<1> HIDE DEF head, rest
<1>8. wire' \in Seq(Byte) /\ accepted' \in Seq(Byte) /\ wire' \o rest = accepted'
  <2>1. wire \in Seq(Byte) /\ accepted \in Seq(Byte)
    BY <1>3 DEF TypeOK
  <2>2. wire \o head \in Seq(Byte) /\ (wire \o head) \o rest = wire \o data
    BY <2>1, SplitBehind DEF head, rest
  <2>3. accepted \o data \in Seq(Byte)
    BY <2>1, ConcatProperties
  <2> QED
    BY <1>2, <1>4, <1>5, <2>2, <2>3
<1>9. CASE n > 0
  <2> DEFINE pushed == Call("write_sent", rest, FALSE) \o stack
  <2>1. /\ pushed \in Seq(Frame) /\ pushed # <<>>
        /\ Head(pushed) = [at |-> "write_sent", rest |-> rest, more |-> FALSE]
        /\ Tail(pushed) = stack
    <3>1. "write_sent" \in Callbacks /\ FALSE \in BOOLEAN /\ stack \in Seq(Frame)
      BY <1>3 DEF Callbacks, TypeOK
    <3> QED
      BY <1>1, <3>1, Push
  <2>2. stack' = pushed /\ UNCHANGED <<events, out>>
    BY <1>6, <1>9
  <2> HIDE DEF pushed
  <2>3. TypeOK'
    BY <1>3, <1>5, <1>8, <2>1, <2>2 DEF TypeOK
  <2>4. OnTop'
    BY <1>2, <2>1, <2>2 DEF OnTop
  <2>5. Order'
    <3>1. stack' # <<>> /\ Head(stack').at = "write_sent" /\ Head(stack').rest = rest
      BY <2>1, <2>2
    <3>2. out' = <<>>
      BY <1>4, <2>2
    <3>3. wire' \o Head(stack').rest = accepted'
      BY <1>8, <3>1
    <3> QED
      BY <3>1, <3>2, <3>3 DEF Order, Top
  <2> QED
    BY <2>3, <2>4, <2>5 DEF OrderInv
<1>10. CASE ~(n > 0)
  <2>1. /\ out' = out \o rest /\ out' \in Seq(Byte)
        /\ events' \subseteq {"POLLIN", "POLLOUT"}
        /\ stack' \in Seq(Frame)
        /\ NoWriteSent(stack')
    <3>1. WriteRest(rest, stack) /\ stack \in Seq(Frame)
      BY <1>3, <1>7, <1>10 DEF TypeOK
    <3> QED
      BY <1>1, <1>2, <1>3, <3>1, WriteRestQueues
  <2>2. out' = rest
    BY <1>1, <1>4, <2>1, ConcatEmptySeq
  <2>3. TypeOK'
    BY <1>3, <1>5, <1>8, <2>1 DEF TypeOK
  <2>4. OnTop' /\ Order'
    BY <1>8, <2>1, <2>2, OrderThere
  <2> QED
    BY <2>3, <2>4 DEF OrderInv
<1> QED
  BY <1>9, <1>10

LEMMA WriteQueuedKeepsOrder ==
    ASSUME OrderInv, "write_sent" \notin Writers, NEW data \in Seq(Byte), WriteQueued(data)
    PROVE  OrderInv'
<1>1. NoWriteSent(stack) /\ wire \o out = accepted
  BY WriterOnTop DEF WriteQueued
<1>2. TypeOK /\ stack \in Seq(Frame)
  BY DEF OrderInv, TypeOK
<1>3. /\ accepted' = accepted \o data /\ WriteRest(data, stack)
      /\ UNCHANGED <<open, connecting, wire>>
  BY DEF WriteQueued
<1>4. /\ out' = out \o data /\ out' \in Seq(Byte)
      /\ events' \subseteq {"POLLIN", "POLLOUT"}
      /\ stack' \in Seq(Frame)
      /\ NoWriteSent(stack')
  BY <1>1, <1>2, <1>3, WriteRestQueues
<1>5. wire' \o out' = accepted' /\ accepted' \in Seq(Byte)
  <2>1. wire \in Seq(Byte) /\ out \in Seq(Byte) /\ accepted \in Seq(Byte)
    BY <1>2 DEF TypeOK
  <2>2. (wire \o out) \o data = wire \o (out \o data) /\ accepted \o data \in Seq(Byte)
    BY <2>1, ConcatAssociative, ConcatProperties
  <2> QED
    BY <1>1, <1>3, <1>4, <2>2
<1>6. TypeOK'
  BY <1>2, <1>3, <1>4, <1>5 DEF TypeOK
<1>7. OnTop' /\ Order'
  BY <1>4, <1>5, OrderThere
<1> QED
  BY <1>6, <1>7 DEF OrderInv

\* The bytes io_buf_send passes on go from the buffer to the kernel.
LEMMA PassedOn ==
    ASSUME OrderInv, Polled, NEW n \in 0..Len(out),
           wire' = wire \o SubSeq(out, 1, n), out' = SubSeq(out, n + 1, Len(out)),
           accepted' = accepted
    PROVE  /\ wire' \in Seq(Byte) /\ out' \in Seq(Byte) /\ accepted' \in Seq(Byte)
           /\ wire' \o out' = accepted'
<1>1. TypeOK /\ wire \in Seq(Byte) /\ out \in Seq(Byte) /\ accepted \in Seq(Byte)
  BY DEF OrderInv, TypeOK
<1>2. wire \o out = accepted
  BY OrderHere DEF OrderInv, Polled
<1>3. /\ wire \o SubSeq(out, 1, n) \in Seq(Byte)
      /\ SubSeq(out, n + 1, Len(out)) \in Seq(Byte)
      /\ (wire \o SubSeq(out, 1, n)) \o SubSeq(out, n + 1, Len(out)) = wire \o out
  BY <1>1, SplitBehind
<1> QED
  BY <1>1, <1>2, <1>3

\* all_sent() or recv() is called by the event handler, or nothing more.
LEMMA AfterSentCalls ==
    ASSUME TypeOK, NEW more \in BOOLEAN, AfterSent(more)
    PROVE  /\ events' \subseteq {"POLLIN", "POLLOUT"}
           /\ stack' \in Seq(Frame)
           /\ NoWriteSent(stack')
<1>1. events' \subseteq {"POLLIN", "POLLOUT"}
  BY DEF AfterSent, TypeOK
<1>2. \/ stack' = Call("event_all_sent", <<>>, FALSE)
      \/ stack' = Call("recv", <<>>, FALSE)
      \/ stack' = <<>>
  BY DEF AfterSent
<1>3. /\ Call("event_all_sent", <<>>, FALSE) \in Seq(Frame)
      /\ NoWriteSent(Call("event_all_sent", <<>>, FALSE))
  BY Alone DEF Callbacks
<1>4. /\ Call("recv", <<>>, FALSE) \in Seq(Frame)
      /\ NoWriteSent(Call("recv", <<>>, FALSE))
  BY Alone DEF Callbacks
<1>5. <<>> \in Seq(Frame) /\ NoWriteSent(<<>>)
  BY NobodyWaits
<1> QED
  BY <1>1, <1>2, <1>3, <1>4, <1>5

\* The event handler called sent(), which waits alone.
LEMMA SentCalled ==
    ASSUME NEW more \in BOOLEAN
    PROVE  /\ Call("event_sent", <<>>, more) \in Seq(Frame)
           /\ NoWriteSent(Call("event_sent", <<>>, more))
BY Alone DEF Callbacks

LEMMA SendQueuedKeepsOrder ==
    ASSUME OrderInv, NEW n \in 0..Len(out), NEW more \in BOOLEAN, SendQueued(n, more)
    PROVE  OrderInv'
<1>1. /\ wire' \in Seq(Byte) /\ out' \in Seq(Byte) /\ accepted' \in Seq(Byte)
      /\ wire' \o out' = accepted'
  BY PassedOn DEF SendQueued
<1>2. /\ events' \subseteq {"POLLIN", "POLLOUT"} /\ stack' \in Seq(Frame)
      /\ NoWriteSent(stack')
  <2>1. CASE n > 0
    BY <2>1, SentCalled DEF SendQueued, OrderInv, TypeOK
  <2>2. CASE ~(n > 0)
    BY <2>2, AfterSentCalls DEF SendQueued, OrderInv
  <2> QED
    BY <2>1, <2>2
<1>3. TypeOK'
  BY <1>1, <1>2 DEF SendQueued, OrderInv, TypeOK
<1> QED
  BY <1>1, <1>2, <1>3, OrderThere DEF OrderInv

LEMMA SendFailsKeepsOrder ==
    ASSUME OrderInv, NEW n \in 0..(Len(out) - 1), NEW gone \in BOOLEAN, NEW more \in BOOLEAN,
           SendFails(n, gone, more)
    PROVE  OrderInv'
<1>1. n \in 0..Len(out)
  BY DEF OrderInv, TypeOK
<1>2. /\ wire' \in Seq(Byte) /\ out' \in Seq(Byte) /\ accepted' \in Seq(Byte)
      /\ wire' \o out' = accepted'
  BY <1>1, PassedOn DEF SendFails
<1>3. stack' \in Seq(Frame) /\ NoWriteSent(stack')
  BY SentCalled, NobodyWaits DEF SendFails
<1>4. TypeOK'
  BY <1>2, <1>3 DEF SendFails, OrderInv, TypeOK
<1> QED
  BY <1>2, <1>3, <1>4, OrderThere DEF OrderInv

\* The other returns take the top frame away.
LEMMA PopsKeepOrder ==
    ASSUME OrderInv, Returns \/ ConnectedReturns \/ RecvReturns
    PROVE  OrderInv'
<1>1. TypeOK /\ stack # <<>> /\ Top.at # "write_sent"
  BY DEF OrderInv, Returns, ConnectedReturns, RecvReturns
<1>2. /\ stack' = Tail(stack) /\ UNCHANGED <<connecting, out, wire, accepted>>
      /\ open' \in BOOLEAN /\ events' \subseteq {"POLLIN", "POLLOUT"}
  <2>1. CASE Returns
    BY <1>1, <2>1 DEF Returns, TypeOK
  <2>2. CASE ConnectedReturns
    BY <1>1, <2>2 DEF ConnectedReturns, TypeOK
  <2>3. CASE RecvReturns
    BY <1>1, <2>3 DEF RecvReturns, TypeOK
  <2> QED
    BY <2>1, <2>2, <2>3
<1>3. wire \o out = accepted
  BY <1>1, OrderHere DEF OrderInv
<1>4. NoWriteSent(Tail(stack)) /\ Tail(stack) \in Seq(Frame)
  BY <1>1, HeadTailProperties DEF OrderInv, OnTop, TypeOK
<1>5. TypeOK'
  BY <1>1, <1>2, <1>4 DEF TypeOK
<1> QED
  BY <1>2, <1>3, <1>4, <1>5, OrderThere DEF OrderInv

LEMMA WriteSentReturnsKeepsOrder ==
    ASSUME OrderInv, WriteSentReturns
    PROVE  OrderInv'
<1>1. TypeOK /\ stack # <<>> /\ Top.at = "write_sent" /\ WriteRest(Top.rest, Tail(stack))
      /\ UNCHANGED <<open, connecting, wire, accepted>>
  BY DEF OrderInv, WriteSentReturns
<1>2. out = <<>> /\ wire \o Top.rest = accepted
  BY <1>1 DEF OrderInv, Order
<1>3. Top \in Frame /\ Tail(stack) \in Seq(Frame) /\ NoWriteSent(Tail(stack))
  BY <1>1, HeadTailProperties DEF OrderInv, OnTop, TypeOK, Top
<1>4. Top.rest \in Seq(Byte)
  BY <1>3 DEF Frame
<1>5. /\ out' = out \o Top.rest /\ out' \in Seq(Byte)
      /\ events' \subseteq {"POLLIN", "POLLOUT"}
      /\ stack' \in Seq(Frame)
      /\ NoWriteSent(stack')
  BY <1>1, <1>3, <1>4, WriteRestQueues
<1>6. out' = Top.rest
  BY <1>2, <1>4, <1>5, ConcatEmptySeq
<1>7. TypeOK'
  BY <1>1, <1>5 DEF TypeOK
<1> QED
  BY <1>1, <1>2, <1>5, <1>6, <1>7, OrderThere DEF OrderInv

LEMMA EventSentReturnsKeepsOrder ==
    ASSUME OrderInv, EventSentReturns
    PROVE  OrderInv'
<1>1. TypeOK /\ stack # <<>> /\ Top.at # "write_sent"
  BY DEF OrderInv, EventSentReturns
<1>2. Top.more \in BOOLEAN
  BY <1>1, HeadTailProperties DEF TypeOK, Top, Frame
<1>3. /\ events' \subseteq {"POLLIN", "POLLOUT"} /\ stack' \in Seq(Frame)
      /\ NoWriteSent(stack')
  BY <1>1, <1>2, AfterSentCalls DEF EventSentReturns
<1>4. wire \o out = accepted
  BY <1>1, OrderHere DEF OrderInv
<1>5. TypeOK'
  BY <1>1, <1>3 DEF EventSentReturns, TypeOK
<1> QED
  BY <1>3, <1>4, <1>5, OrderThere DEF OrderInv, EventSentReturns

\* Steps that touch neither bytes nor the buffer, and push one callback at most.
LEMMA OthersKeepOrder ==
    ASSUME OrderInv, io_stream_close \/ AppRuns \/ ConnectFails \/ Connects \/ Receive
    PROVE  OrderInv'
<1>1. CASE io_stream_close
  BY <1>1 DEF io_stream_close, OrderInv, TypeOK, OnTop, Order, Top
<1>2. CASE AppRuns \/ ConnectFails \/ Connects \/ Receive
  <2>1. stack = <<>>
    BY <1>2 DEF AppRuns, ConnectFails, Connects, Receive, Polled
  <2>2. /\ UNCHANGED <<events, out, wire, accepted>>
        /\ open' \in BOOLEAN /\ connecting' \in BOOLEAN
        /\ stack' \in {<<>>, Call("app", <<>>, FALSE), Call("connected", <<>>, FALSE),
                       Call("recv", <<>>, FALSE)}
    BY <1>2 DEF AppRuns, ConnectFails, Connects, Receive, Polled, OrderInv, TypeOK
  <2>3. \A at \in {"app", "connected", "recv"} :
            Call(at, <<>>, FALSE) \in Seq(Frame) /\ NoWriteSent(Call(at, <<>>, FALSE))
    BY Alone DEF Callbacks
  <2>4. stack' \in Seq(Frame) /\ NoWriteSent(stack')
    <3>1. <<>> \in Seq(Frame) /\ NoWriteSent(<<>>)
      BY NobodyWaits
    <3> QED
      BY <2>2, <2>3, <3>1
  <2>5. wire \o out = accepted
    BY <2>1, OrderHere DEF OrderInv
  <2>6. TypeOK'
    BY <2>2, <2>4 DEF OrderInv, TypeOK
  <2> QED
    BY <2>2, <2>4, <2>5, <2>6, OrderThere DEF OrderInv
<1> QED
  BY <1>1, <1>2

LEMMA InitOrders == Init => OrderInv
<1> SUFFICES ASSUME Init PROVE OrderInv
  OBVIOUS
<1>1. /\ Call("connected", <<>>, FALSE) \in Seq(Frame)
      /\ NoWriteSent(Call("connected", <<>>, FALSE))
      /\ Head(Call("connected", <<>>, FALSE)).at = "connected"
      /\ Tail(Call("connected", <<>>, FALSE)) = <<>>
  BY Alone DEF Callbacks
<1>2. stack = <<>> \/ stack = Call("connected", <<>>, FALSE)
  BY DEF Init, Call
<1>3. TypeOK
  <2>1. /\ open = TRUE /\ connecting \in BOOLEAN /\ events \subseteq {"POLLIN", "POLLOUT"}
        /\ out = <<>> /\ wire = <<>> /\ accepted = <<>>
    BY DEF Init
  <2>2. <<>> \in Seq(Byte) /\ <<>> \in Seq(Frame)
    OBVIOUS
  <2>3. stack \in Seq(Frame)
    BY <1>1, <1>2, <2>2
  <2> QED
    BY <2>1, <2>2, <2>3 DEF TypeOK
<1>4. OnTop
  BY <1>1, <1>2, NobodyWaits DEF OnTop
<1>5. Order
  <2>1. ~(stack # <<>> /\ Top.at = "write_sent")
    BY <1>1, <1>2 DEF Top
  <2>2. out = <<>> /\ wire = <<>> /\ accepted = <<>>
    BY DEF Init
  <2>3. wire \o out = wire
    BY <1>3, <2>2, ConcatEmptySeq DEF TypeOK
  <2> QED
    BY <2>1, <2>2, <2>3 DEF Order
<1> QED
  BY <1>3, <1>4, <1>5 DEF OrderInv

LEMMA StepKeepsOrder ==
    ASSUME OrderInv, "write_sent" \notin Writers, [Next]_vars
    PROVE  OrderInv'
<1>1. CASE Write
  BY <1>1, DataIsBytes, WriteDirectKeepsOrder, WriteQueuedKeepsOrder DEF Write
<1>2. CASE io_stream_close \/ AppRuns \/ ConnectFails \/ Connects \/ Receive
  BY <1>2, OthersKeepOrder
<1>3. CASE Return
  BY <1>3, PopsKeepOrder, WriteSentReturnsKeepsOrder, EventSentReturnsKeepsOrder DEF Return
<1>4. CASE \E more \in BOOLEAN : SendQueued(0, more)
  <2>1. 0 \in 0..Len(out)
    BY DEF OrderInv, TypeOK
  <2> QED
    BY <1>4, <2>1, SendQueuedKeepsOrder
<1>5. CASE SendSome
  <2>1. PICK n \in 1..Len(out), more \in BOOLEAN : SendQueued(n, more)
    BY <1>5 DEF SendSome
  <2>2. n \in 0..Len(out)
    BY DEF OrderInv, TypeOK
  <2> QED
    BY <2>1, <2>2, SendQueuedKeepsOrder
<1>6. CASE \E n \in 0..(Len(out) - 1), gone, more \in BOOLEAN : SendFails(n, gone, more)
  BY <1>6, SendFailsKeepsOrder
<1>7. CASE UNCHANGED vars
  BY <1>7 DEF vars, OrderInv, TypeOK, OnTop, Order, Top
<1> QED
  BY <1>1, <1>2, <1>3, <1>4, <1>5, <1>6, <1>7 DEF Next

LEMMA OrderIsInvariant ==
    ASSUME "write_sent" \notin Writers
    PROVE  Spec => []OrderInv
<1>1. OrderInv /\ [Next]_vars => OrderInv'
  BY StepKeepsOrder
<1> QED
  BY InitOrders, <1>1, PTL DEF Spec

\* The variables of a stream keep their types.
THEOREM TypeCorrect ==
    ASSUME "write_sent" \notin Writers
    PROVE  Spec => []TypeOK
<1>1. OrderInv => TypeOK
  BY DEF OrderInv
<1> QED
  BY <1>1, OrderIsInvariant, PTL

\* If the sent() callback of io_stream_write does not write, the bytes the kernel
\* has taken and those in the buffer are what the application wrote, in order,
\* through direct and queued writes, whatever is written from other callbacks.
THEOREM WritesKeepTheirOrder ==
    ASSUME "write_sent" \notin Writers
    PROVE  Spec => []WireIsOrdered
<1>1. OrderInv => WireIsOrdered
  <2> SUFFICES ASSUME OrderInv, Unqueued = {} PROVE wire \o out = accepted
    BY DEF WireIsOrdered
  <2>1. CASE stack # <<>> /\ Top.at = "write_sent"
    <3>1. 1 \in DOMAIN stack /\ Top = stack[1] /\ Top \in Frame
      BY <2>1 DEF OrderInv, TypeOK, Top
    <3>2. Top.rest = <<>>
      BY <2>1, <3>1 DEF Unqueued
    <3> QED
      BY <2>1, <3>2 DEF OrderInv, Order
  <2>2. CASE ~(stack # <<>> /\ Top.at = "write_sent")
    BY <2>2 DEF OrderInv, Order
  <2> QED
    BY <2>1, <2>2
<1> QED
  BY <1>1, OrderIsInvariant, PTL

-----------------------------------------------------------------------------
(* POLLOUT and all_sent() *)

\* Writes of at least one byte.
LEMMA NoEmptyData ==
    ASSUME ~ZeroWrites
    PROVE  \A d \in Data : d # <<>>
BY DEF Data

\* The end of a write of which nothing is left finds the buffer empty.
LEMMA WriteRestPolls ==
    ASSUME TypeOK, Queued, NEW rest \in Seq(Byte), NEW below,
           WriteRest(rest, below), rest = <<>> => out = <<>>
    PROVE  Queued' /\ (stack' = below \/ out' = <<>>)
BY DEF WriteRest, Queued, TypeOK

LEMMA StepPolls ==
    ASSUME OrderInv, Queued, ~ZeroWrites, [Next]_vars
    PROVE  Queued'
<1>0. TypeOK
  BY DEF OrderInv
<1>1. ASSUME NEW d \in Data, WriteQueued(d) PROVE Queued'
  <2>1. d \in Seq(Byte) /\ d # <<>> /\ WriteRest(d, stack)
    BY <1>1, DataIsBytes, NoEmptyData DEF WriteQueued
  <2> QED
    BY <1>0, <2>1, WriteRestPolls
<1>2. ASSUME NEW d \in Data, NEW n \in 0..Len(d), WriteDirect(d, n) PROVE Queued'
  <2>1. out = <<>>
    BY <1>2 DEF WriteDirect, Direct
  <2>2. SubSeq(d, n + 1, Len(d)) \in Seq(Byte)
    BY <1>2, DataIsBytes, Split
  <2>3. CASE n > 0
    BY <1>2, <2>1, <2>3 DEF WriteDirect, Queued
  <2>4. CASE ~(n > 0)
    <3>1. WriteRest(SubSeq(d, n + 1, Len(d)), stack)
      BY <1>2, <2>4 DEF WriteDirect
    <3> QED
      BY <1>0, <2>1, <2>2, <3>1, WriteRestPolls
  <2> QED
    BY <2>3, <2>4
<1>3. CASE io_stream_close \/ AppRuns \/ ConnectFails \/ Connects \/ Receive
  BY <1>3 DEF Queued, io_stream_close, AppRuns, ConnectFails, Connects, Receive
<1>4. CASE Returns \/ ConnectedReturns \/ RecvReturns
  BY <1>4 DEF Queued, Returns, ConnectedReturns, RecvReturns
<1>5. CASE WriteSentReturns
  <2>1. stack # <<>> /\ Top.at = "write_sent" /\ WriteRest(Top.rest, Tail(stack))
    BY <1>5 DEF WriteSentReturns
  <2>2. out = <<>>
    BY <2>1 DEF OrderInv, Order
  <2>3. Top.rest \in Seq(Byte)
    BY <1>0, <2>1, HeadTailProperties DEF TypeOK, Top, Frame
  <2> QED
    BY <1>0, <2>1, <2>2, <2>3, WriteRestPolls
<1>6. CASE EventSentReturns
  BY <1>6 DEF Queued, EventSentReturns, AfterSent
<1>7. ASSUME NEW n, NEW more, SendQueued(n, more) PROVE Queued'
  <2>1. "POLLOUT" \in events /\ (events' = events \/ AfterSent(more))
    BY <1>7 DEF SendQueued
  <2> QED
    BY <2>1 DEF Queued, AfterSent
<1>8. ASSUME NEW n, NEW gone, NEW more, SendFails(n, gone, more) PROVE Queued'
  BY <1>8 DEF SendFails, Queued
<1>9. CASE UNCHANGED vars
  BY <1>9 DEF vars, Queued
<1> QED
  BY <1>1, <1>2, <1>3, <1>4, <1>5, <1>6, <1>7, <1>8, <1>9 DEF Next, Write, Return, SendSome

LEMMA QueuedIsInvariant ==
    ASSUME "write_sent" \notin Writers, ~ZeroWrites
    PROVE  Spec => []Queued
<1>1. Init => Queued
  BY DEF Init, Queued
<1>2. OrderInv /\ Queued /\ [Next]_vars => Queued'
  BY StepPolls
<1> QED
  BY <1>1, <1>2, OrderIsInvariant, PTL DEF Spec

\* If moreover every write has at least one byte, what is queued on an open stream
\* is waiting for POLLOUT, whichever callbacks queued it.
THEOREM QueuedBytesArePolled ==
    ASSUME "write_sent" \notin Writers, ~ZeroWrites
    PROVE  Spec => []PendingIsPolled
<1>1. Queued => PendingIsPolled
  BY DEF Queued, PendingIsPolled
<1> QED
  BY <1>1, QueuedIsInvariant, PTL

\* all_sent() is called at the end of a write that has left nothing, or else the
\* stack is the one below it.
LEMMA WriteRestTells ==
    ASSUME TypeOK, NEW rest \in Seq(Byte), NEW below \in Seq(Frame), NoWriteSent(below),
           WriteRest(rest, below), rest = <<>> => out = <<>>
    PROVE  stack' = below \/ (out' = <<>> /\ NoWriteSent(stack'))
<1>1. NoWriteSent(stack')
  BY WriteRestQueues
<1> QED
  BY <1>1 DEF WriteRest

\* The event handler calls all_sent() with an empty buffer.
LEMMA AfterSentTells ==
    ASSUME NEW more, AfterSent(more), Calls("write_all_sent") \/ Calls("event_all_sent")
    PROVE  out' = <<>> /\ NoWriteSent(stack')
<1>1. CASE out' = <<>>
  <2>1. stack' = Call("event_all_sent", <<>>, FALSE)
    BY <1>1 DEF AfterSent
  <2>2. NoWriteSent(Call("event_all_sent", <<>>, FALSE))
    BY Alone DEF Callbacks
  <2> QED
    BY <1>1, <2>1, <2>2
<1>2. CASE out' # <<>>
  <2>1. stack' = Call("recv", <<>>, FALSE) \/ stack' = <<>>
    BY <1>2 DEF AfterSent
  <2>2. stack' # <<>> => Head(stack').at = "recv"
    BY <2>1, Alone DEF Callbacks
  <2> QED
    BY <2>2 DEF Calls
<1> QED
  BY <1>1, <1>2

\* A step that leaves the stack, takes its top away or calls another callback.
LEMMA NotCalled ==
    ASSUME \/ stack' = stack
           \/ stack # <<>> /\ stack' = Tail(stack)
           \/ stack' = <<>>
           \/ stack' # <<>> /\ Head(stack').at \notin {"write_all_sent", "event_all_sent"}
    PROVE  ~(Calls("write_all_sent") \/ Calls("event_all_sent"))
BY DEF Calls

LEMMA StepTells ==
    ASSUME OrderInv, "write_sent" \notin Writers, ~ZeroWrites, [Next]_vars,
           Calls("write_all_sent") \/ Calls("event_all_sent")
    PROVE  out' = <<>> /\ NoWriteSent(stack')
<1>0. TypeOK /\ stack \in Seq(Frame)
  BY DEF OrderInv, TypeOK
<1>1. ASSUME NEW d \in Data, WriteQueued(d) PROVE out' = <<>> /\ NoWriteSent(stack')
  <2>1. d \in Seq(Byte) /\ d # <<>> /\ WriteRest(d, stack)
    BY <1>1, DataIsBytes, NoEmptyData DEF WriteQueued
  <2>2. NoWriteSent(stack)
    BY <1>1, WriterOnTop DEF WriteQueued
  <2> QED
    BY <1>0, <2>1, <2>2, WriteRestTells, NotCalled
<1>2. ASSUME NEW d \in Data, NEW n \in 0..Len(d), WriteDirect(d, n)
      PROVE  out' = <<>> /\ NoWriteSent(stack')
  <2> DEFINE rest == SubSeq(d, n + 1, Len(d))
  <2>1. out = <<>> /\ NoWriteSent(stack)
    BY <1>2, WriterOnTop DEF WriteDirect, Direct
  <2>2. rest \in Seq(Byte)
    BY <1>2, DataIsBytes, Split
  <2>3. n > 0 => stack' = Call("write_sent", rest, FALSE) \o stack
    BY <1>2 DEF WriteDirect
  <2>4. ~(n > 0) => WriteRest(rest, stack)
    BY <1>2 DEF WriteDirect
  <2> HIDE DEF rest
  <2>5. CASE n > 0
    <3>1. "write_sent" \in Callbacks /\ FALSE \in BOOLEAN
      BY DEF Callbacks
    <3>2. stack' # <<>> /\ Head(stack') = [at |-> "write_sent", rest |-> rest, more |-> FALSE]
      <4> DEFINE pushed == Call("write_sent", rest, FALSE) \o stack
      <4>1. /\ pushed # <<>>
            /\ Head(pushed) = [at |-> "write_sent", rest |-> rest, more |-> FALSE]
        BY <1>0, <2>2, <3>1, Push
      <4>2. stack' = pushed
        BY <2>3, <2>5
      <4> HIDE DEF pushed
      <4> QED
        BY <4>1, <4>2
    <3>3. Head(stack').at = "write_sent"
      BY <3>2
    <3> QED
      BY <3>2, <3>3, NotCalled
  <2>6. CASE ~(n > 0)
    BY <1>0, <2>1, <2>2, <2>4, <2>6, WriteRestTells, NotCalled
  <2> QED
    BY <2>5, <2>6
<1>3. CASE io_stream_close \/ AppRuns \/ ConnectFails \/ Connects \/ Receive
  <2>1. \/ stack' = stack \/ stack' = <<>>
        \/ stack' \in {Call("app", <<>>, FALSE), Call("connected", <<>>, FALSE),
                       Call("recv", <<>>, FALSE)}
    BY <1>3 DEF io_stream_close, AppRuns, ConnectFails, Connects, Receive
  <2>2. \A at \in {"app", "connected", "recv"} :
            Call(at, <<>>, FALSE) # <<>> /\ Head(Call(at, <<>>, FALSE)).at = at
    BY Alone DEF Callbacks
  <2> QED
    BY <2>1, <2>2, NotCalled
<1>4. CASE Returns \/ ConnectedReturns \/ RecvReturns
  BY <1>4, NotCalled DEF Returns, ConnectedReturns, RecvReturns
<1>5. CASE WriteSentReturns
  <2>1. stack # <<>> /\ Top.at = "write_sent" /\ WriteRest(Top.rest, Tail(stack))
    BY <1>5 DEF WriteSentReturns
  <2>2. out = <<>>
    BY <2>1 DEF OrderInv, Order
  <2>3. Top.rest \in Seq(Byte) /\ Tail(stack) \in Seq(Frame) /\ NoWriteSent(Tail(stack))
    BY <1>0, <2>1, HeadTailProperties DEF OrderInv, OnTop, Top, Frame
  <2> QED
    BY <1>0, <2>1, <2>2, <2>3, WriteRestTells, NotCalled
<1>6. CASE EventSentReturns
  BY <1>6, AfterSentTells DEF EventSentReturns
<1>7. ASSUME NEW n, NEW more \in BOOLEAN, SendQueued(n, more)
      PROVE  out' = <<>> /\ NoWriteSent(stack')
  <2>1. stack' = Call("event_sent", <<>>, more) \/ AfterSent(more)
    BY <1>7 DEF SendQueued
  <2>2. stack' # Call("event_sent", <<>>, more)
    BY Alone, NotCalled DEF Callbacks
  <2> QED
    BY <2>1, <2>2, AfterSentTells
<1>8. ASSUME NEW n, NEW gone \in BOOLEAN, NEW more \in BOOLEAN, SendFails(n, gone, more)
      PROVE  out' = <<>> /\ NoWriteSent(stack')
  <2>1. stack' = Call("event_sent", <<>>, more) \/ stack' = <<>>
    BY <1>8 DEF SendFails
  <2>2. stack' # Call("event_sent", <<>>, more)
    BY Alone, NotCalled DEF Callbacks
  <2> QED
    BY <2>1, <2>2, NotCalled
<1>9. CASE UNCHANGED vars
  BY <1>9, NotCalled DEF vars
<1> QED
  BY <1>1, <1>2, <1>3, <1>4, <1>5, <1>6, <1>7, <1>8, <1>9 DEF Next, Write, Return, SendSome

\* Under the same assumptions all_sent() is called only when the buffer is empty
\* and no write is waiting with a rest, from a write as from the event handler.
THEOREM AllSentTellsTheTruth ==
    ASSUME "write_sent" \notin Writers, ~ZeroWrites
    PROVE  Spec => AllSentIsTrue
<1>1. ASSUME NoWriteSent(stack') PROVE Unqueued' = {}
  BY <1>1 DEF NoWriteSent, Unqueued
<1>2. OrderInv /\ [Next]_vars =>
          [Calls("write_all_sent") \/ Calls("event_all_sent") =>
               out' = <<>> /\ Unqueued' = {}]_vars
  BY <1>1, StepTells
<1> QED
  BY <1>2, OrderIsInvariant, PTL DEF Spec, AllSentIsTrue

=============================================================================
