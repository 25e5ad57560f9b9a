------------------------------- MODULE Stream -------------------------------
(***************************************************************************)
(* One stream connection of library/io_stream.c: io_stream_write, the      *)
(* event handler, and the callbacks of the application that both of them   *)
(* call and that may write to the stream or close it in turn.              *)
(*                                                                         *)
(* The C stack is a variable: a frame for every library function that is   *)
(* waiting for a callback to return.  The output buffer is the queue of    *)
(* bytes module Buf implements; it is empty exactly when it holds no byte  *)
(* (EmptyMeansNoBytes there).                                              *)
(***************************************************************************)
EXTENDS Integers, Sequences, SequencesExt

CONSTANTS
    Byte,
    Writers,     \* the callbacks that write to the stream
    ZeroWrites,  \* TRUE: the application writes zero bytes, too
    MaxBytes,    \* bound: bytes the application writes in all
    MaxDepth     \* bound: frames on the stack

\* "app" is other code of the program: start(), timers, other descriptors.
Callbacks == {"app", "connected", "recv", "write_sent", "write_all_sent",
              "event_sent", "event_all_sent"}

ASSUME WritersAssumption == Writers \subseteq Callbacks /\ ZeroWrites \in BOOLEAN
ASSUME BoundsAssumption == MaxBytes \in Nat /\ MaxDepth \in Nat

VARIABLES
    open,        \* fd >= 0
    connecting,
    events,      \* what poll is asked for
    out,         \* the bytes held in the output buffer
    wire,        \* the bytes the kernel has taken, in order
    accepted,    \* history: the bytes of all writes that did not fail
    stack        \* the callbacks under way, innermost first

vars == <<open, connecting, events, out, wire, accepted, stack>>

\* rest: what io_stream_write has still to do; more: POLLIN is still to serve
Frame == {f \in [at : Callbacks, rest : Seq(Byte), more : BOOLEAN] :
              /\ f.rest # <<>> => f.at = "write_sent"
              /\ f.more => f.at = "event_sent"}

TypeOK ==
    /\ open \in BOOLEAN
    /\ connecting \in BOOLEAN
    /\ events \subseteq {"POLLIN", "POLLOUT"}
    /\ out \in Seq(Byte)
    /\ wire \in Seq(Byte)
    /\ accepted \in Seq(Byte)
    /\ stack \in Seq(Frame)

\* io_stream_accept and io_stream_connect.  One that is connected calls
\* connected() at once; nothing is queued yet and POLLOUT is not asked for.
Init ==
    /\ open = TRUE
    /\ connecting \in BOOLEAN
    /\ events = IF connecting THEN {"POLLIN", "POLLOUT"} ELSE {"POLLIN"}
    /\ out = <<>>
    /\ wire = <<>>
    /\ accepted = <<>>
    /\ stack = IF connecting THEN <<>>
               ELSE <<[at |-> "connected", rest |-> <<>>, more |-> FALSE]>>

Call(at, rest, more) == <<[at |-> at, rest |-> rest, more |-> more]>>

Top == Head(stack)

-----------------------------------------------------------------------------
(* io_stream_write, called by the application code on top of the stack *)

\* Mutant: bytes are queued and nobody is asked for POLLOUT.
WriteRest_NotPolled(rest, below) ==
    IF rest = <<>>
    THEN /\ events' = events \ {"POLLOUT"}
         /\ stack' = Call("write_all_sent", <<>>, FALSE) \o below
         /\ UNCHANGED out
    ELSE /\ out' = out \o rest
         /\ stack' = below
         /\ UNCHANGED events

\* The end of io_stream_write, with rest still unsent, over the frames in below.
WriteRest(rest, below) ==
    IF rest = <<>>
    THEN /\ events' = events \ {"POLLOUT"}
         /\ stack' = Call("write_all_sent", <<>>, FALSE) \o below
         /\ UNCHANGED out
    ELSE /\ events' = events \cup {"POLLOUT"}
         /\ out' = out \o rest
         /\ stack' = below

Writing(data) ==
    /\ stack # <<>>
    /\ Top.at \in Writers
    /\ open
    /\ Len(stack) < MaxDepth
    /\ Len(accepted) + Len(data) <= MaxBytes

\* Mutant: a write does not look whether bytes are queued before it.
Direct_Overtakes == ~connecting

Direct == ~connecting /\ out = <<>>

\* The buffer is empty: send() takes the first n bytes at once.
WriteDirect(data, n) ==
    /\ Writing(data)
    /\ Direct
    /\ accepted' = accepted \o data
    /\ wire' = wire \o SubSeq(data, 1, n)
    /\ LET rest == SubSeq(data, n + 1, Len(data)) IN
       IF n > 0
       THEN /\ stack' = Call("write_sent", rest, FALSE) \o stack
            /\ UNCHANGED <<events, out>>
       ELSE WriteRest(rest, stack)
    /\ UNCHANGED <<open, connecting>>

\* Something is queued, or there is no connection yet: queue behind it.
WriteQueued(data) ==
    /\ Writing(data)
    /\ ~Direct
    /\ accepted' = accepted \o data
    /\ WriteRest(data, stack)
    /\ UNCHANGED <<open, connecting, wire>>

\* io_stream_close; a write from now on returns 0 and does nothing.
io_stream_close ==
    /\ stack # <<>>
    /\ open
    /\ open' = FALSE
    /\ UNCHANGED <<connecting, events, out, wire, accepted, stack>>

-----------------------------------------------------------------------------
(* io_stream_event_handler, called by io_ds_poll *)

Polled == stack = <<>> /\ open

ConnectFails ==
    /\ Polled
    /\ connecting
    /\ open' = FALSE
    /\ UNCHANGED <<connecting, events, out, wire, accepted, stack>>

\* getpeername fails only when the peer is gone already; no callback then.
Connects ==
    /\ Polled
    /\ connecting
    /\ connecting' = FALSE
    /\ stack' \in {<<>>, Call("connected", <<>>, FALSE)}
    /\ UNCHANGED <<open, events, out, wire, accepted>>

\* Mutant: all_sent() is called whatever is left.
AfterSent_Unchecked(more) ==
    /\ events' = events \ {"POLLOUT"}
    /\ stack' = Call("event_all_sent", <<>>, FALSE)

\* What follows the sent() callback: all_sent() if nothing is queued any more,
\* else POLLIN when it was reported together with POLLOUT.
AfterSent(more) ==
    IF out' = <<>>
    THEN /\ events' = events \ {"POLLOUT"}
         /\ stack' = Call("event_all_sent", <<>>, FALSE)
    ELSE /\ events' = events
         /\ stack' = IF more THEN Call("recv", <<>>, FALSE) ELSE <<>>

\* io_buf_send passes the first n bytes of the queue on.
SendQueued(n, more) ==
    /\ Polled
    /\ ~connecting
    /\ "POLLOUT" \in events
    /\ wire' = wire \o SubSeq(out, 1, n)
    /\ out' = SubSeq(out, n + 1, Len(out))
    /\ IF n > 0
       THEN stack' = Call("event_sent", <<>>, more) /\ UNCHANGED events
       ELSE AfterSent(more)
    /\ UNCHANGED <<open, connecting, accepted>>

\* It passes n bytes on and then fails.  A connection that is gone is closed
\* and sent() is called all the same, and what follows it; after any other error,
\* EAGAIN included, the handler gives up.
SendFails(n, gone, more) ==
    /\ Polled
    /\ ~connecting
    /\ "POLLOUT" \in events
    /\ n < Len(out)
    /\ wire' = wire \o SubSeq(out, 1, n)
    /\ out' = SubSeq(out, n + 1, Len(out))
    /\ open' = ~gone
    /\ stack' = IF gone THEN Call("event_sent", <<>>, more) ELSE <<>>
    /\ UNCHANGED <<connecting, events, accepted>>

Receive ==
    /\ Polled
    /\ ~connecting
    /\ stack' = Call("recv", <<>>, FALSE)
    /\ UNCHANGED <<open, connecting, events, out, wire, accepted>>

-----------------------------------------------------------------------------
(* Application code starts and returns. *)

AppRuns ==
    /\ stack = <<>>
    /\ stack' = Call("app", <<>>, FALSE)
    /\ UNCHANGED <<open, connecting, events, out, wire, accepted>>

Returns ==
    /\ stack # <<>>
    /\ Top.at \in {"app", "write_all_sent", "event_all_sent"}
    /\ stack' = Tail(stack)
    /\ UNCHANGED <<open, connecting, events, out, wire, accepted>>

\* Mutant: POLLOUT is cleared although connected() has written.
ConnectedReturns_Clears ==
    /\ stack # <<>>
    /\ Top.at = "connected"
    /\ stack' = Tail(stack)
    /\ events' = events \ {"POLLOUT"}
    /\ UNCHANGED <<open, connecting, out, wire, accepted>>

ConnectedReturns ==
    /\ stack # <<>>
    /\ Top.at = "connected"
    /\ stack' = Tail(stack)
    /\ events' = IF out = <<>> THEN events \ {"POLLOUT"} ELSE events
    /\ UNCHANGED <<open, connecting, out, wire, accepted>>

\* A negative result of recv() closes the connection.
RecvReturns ==
    /\ stack # <<>>
    /\ Top.at = "recv"
    /\ stack' = Tail(stack)
    /\ open' \in {open, FALSE}
    /\ UNCHANGED <<connecting, events, out, wire, accepted>>

WriteSentReturns ==
    /\ stack # <<>>
    /\ Top.at = "write_sent"
    /\ WriteRest(Top.rest, Tail(stack))
    /\ UNCHANGED <<open, connecting, wire, accepted>>

EventSentReturns ==
    /\ stack # <<>>
    /\ Top.at = "event_sent"
    /\ UNCHANGED out
    /\ AfterSent(Top.more)
    /\ UNCHANGED <<open, connecting, wire, accepted>>

Return == Returns \/ ConnectedReturns \/ RecvReturns \/ WriteSentReturns \/ EventSentReturns

Data == {d \in BoundedSeq(Byte, MaxBytes) : ZeroWrites \/ d # <<>>}

Write == \E d \in Data : WriteQueued(d) \/ \E n \in 0..Len(d) : WriteDirect(d, n)

SendSome == \E n \in 1..Len(out), more \in BOOLEAN : SendQueued(n, more)

Next ==
    \/ Write \/ io_stream_close \/ AppRuns \/ Return
    \/ ConnectFails \/ Connects \/ Receive
    \/ \E more \in BOOLEAN : SendQueued(0, more)
    \/ SendSome
    \/ \E n \in 0..(Len(out) - 1), gone, more \in BOOLEAN : SendFails(n, gone, more)

Spec == Init /\ [][Next]_vars

\* Callbacks return, a connection is made or refused, and the peer reads: a
\* socket that is polled for POLLOUT takes bytes again and again.
FairSpec == Spec /\ WF_vars(Return) /\ SF_vars(Connects \/ ConnectFails) /\ SF_vars(SendSome)

-----------------------------------------------------------------------------
(* Properties *)

\* The bytes inside a write that waits for its sent() callback.
Unqueued == {i \in DOMAIN stack : stack[i].at = "write_sent" /\ stack[i].rest # <<>>}

\* What the application wrote reaches the kernel in the order of the writes,
\* nothing lost or doubled between the direct path and the queued one, though
\* callbacks write in the middle of both.
WireIsOrdered == Unqueued = {} => wire \o out = accepted

\* Queued bytes are waiting for POLLOUT: "later call all_sent() method".
PendingIsPolled == stack = <<>> /\ open /\ out # <<>> => "POLLOUT" \in events

\* A step that calls a callback, rather than returning from one or changing
\* nothing on the stack.
Calls(at) ==
    /\ stack' # <<>> /\ Head(stack').at = at
    /\ stack' # stack
    /\ stack = <<>> \/ stack' # Tail(stack)

\* When all_sent() is called no byte of any write is left behind.
AllSentIsTrue ==
    [][Calls("write_all_sent") \/ Calls("event_all_sent") => out' = <<>> /\ Unqueued' = {}]_vars

\* A connection that keeps taking bytes drains its queue, and the application
\* is told by all_sent(), unless the connection is closed.
AllSentFollows ==
    (stack = <<>> /\ open /\ out # <<>>) ~>
        (~open \/ (stack # <<>> /\ Top.at = "event_all_sent"))

=============================================================================
