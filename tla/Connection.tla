----------------------------- MODULE Connection -----------------------------
(***************************************************************************)
(* What the connections of the example servers have in common: the stream, *)
(* the peer and the text between them, over what module Stream says of     *)
(* io_stream_write and of the event handler: a write that is sent at once  *)
(* calls all_sent() before it returns, one that is queued has it called    *)
(* from a later POLLOUT.                                                   *)
(*                                                                         *)
(* The text of a message is told in three parts: what it says and the two  *)
(* halves of what ends it, CR and LF of a command, and the ends of the     *)
(* last line and of the empty line of an HTTP request.  A read may end     *)
(* behind any of them.                                                     *)
(***************************************************************************)
EXTENDS Integers, Sequences, FiniteSetsExt

CONSTANTS
    BSD,         \* which of its two bodies io_stream_accept was compiled with
    Size,        \* parts that fit the buffer of a connection
    MaxMessages  \* bound: messages the peer sends

ASSUME ConnectionAssumption == BSD \in BOOLEAN /\ Size \in Nat \ {0} /\ MaxMessages \in Nat

VARIABLES
    conn,        \* "none", "refused", "open", "freed"; "undefined" when anything may happen
    state,       \* of the connection: it receives, or is to be closed when all is sent
    buf,         \* the text in its buffer
    out,         \* writes of which the output buffer still holds something
    answers,     \* history: the message that each answer is for, and if it is good
    objects,     \* memory of connections that is allocated and not freed
    input,       \* what the peer has sent and nobody has read
    messages,    \* the kinds of the messages the peer has begun, in order
    part,        \* parts of the last one that are sent
    eof,         \* the peer has closed its side
    piped,       \* history: the peer did not wait for an answer
    torn         \* history: a read has cut a message where the server does not mend it

peerVars == <<input, messages, part, eof, piped>>
conVars == <<conn, state, buf, out, answers, objects, torn>>

Parts == <<"text", "half", "end">>

Text == [n : 1..MaxMessages, part : {Parts[i] : i \in DOMAIN Parts}]

TypeOK ==
    /\ conn \in {"none", "refused", "open", "freed", "undefined"}
    /\ state \in {"RECV", "CLOSE"}
    /\ buf \in Seq(Text) /\ Len(buf) <= Size
    /\ out \in Nat
    /\ answers \in Seq([n : 1..MaxMessages, good : BOOLEAN])
    /\ objects \in Nat
    /\ input \in Seq(Text)
    /\ Len(messages) <= MaxMessages
    /\ part \in 0..Len(Parts)
    /\ eof \in BOOLEAN
    /\ piped \in BOOLEAN
    /\ torn \in BOOLEAN

Init ==
    /\ conn = "none"
    /\ state = "RECV"
    /\ buf = <<>>
    /\ out = 0
    /\ answers = <<>>
    /\ objects = 0
    /\ input = <<>>
    /\ messages = <<>>
    /\ part = Len(Parts)
    /\ eof = FALSE
    /\ piped = FALSE
    /\ torn = FALSE

-----------------------------------------------------------------------------
(* The peer *)

BeginMessage(kind) ==
    /\ conn = "open" /\ ~eof
    /\ part = Len(Parts)
    /\ Len(messages) < MaxMessages
    /\ messages' = Append(messages, kind)
    /\ part' = 1
    /\ input' = Append(input, [n |-> Len(messages) + 1, part |-> Parts[1]])
    /\ piped' = (piped \/ Len(answers) < Len(messages))
    /\ UNCHANGED <<conVars, eof>>

ContinueMessage ==
    /\ conn = "open" /\ ~eof
    /\ part < Len(Parts)
    /\ part' = part + 1
    /\ input' = Append(input, [n |-> Len(messages), part |-> Parts[part + 1]])
    /\ UNCHANGED <<conVars, messages, eof, piped>>

PeerCloses ==
    /\ conn = "open" /\ ~eof
    /\ eof' = TRUE
    /\ UNCHANGED <<conVars, input, messages, part, piped>>

Peer(kinds) == (\E kind \in kinds : BeginMessage(kind)) \/ ContinueMessage \/ PeerCloses

-----------------------------------------------------------------------------
(* The stream *)

\* What may be queued behind n writes over o queued ones: an empty buffer lets
\* writes through, up to the first that is not taken as a whole.  A write that
\* fails leaves no trace.
Written(o, n) == IF o > 0 THEN {o + n} ELSE 0..n

\* The body of io_stream_accept for other systems than BSD asks the descriptor of the
\* new stream, which calloc() has set to 0, for a connection, and not the listening
\* one.  A server that keeps the memory of a connection it could not accept leaks it;
\* n writes greet the peer.
Accept(keeps, n) ==
    /\ conn = "none"
    /\ conn' \in IF BSD THEN {"refused", "open"} ELSE {"refused"}
    /\ objects' = IF conn' = "open" \/ keeps THEN 1 ELSE 0
    /\ IF conn' = "open" THEN out' \in Written(0, n) ELSE UNCHANGED out
    /\ UNCHANGED <<state, buf, answers, torn, peerVars>>

\* Closed by its own event method, and freed by io_ds_poll behind it.
Close ==
    /\ conn' = "freed"
    /\ objects' = 0

\* io_d_free in an event method: io_ds_poll reads freed memory behind it, and
\* frees the connection once more if it finds -1 there.
FreeInEvent ==
    /\ conn' \in {"freed", "undefined"}
    /\ objects' = 0

\* The part of the input a read with that much room takes.
Chunk(room) == SubSeq(input, 1, Min({Len(input), room}))

\* A callback that is to close returns at once, and what has arrived is left unread.
Polled == conn = "open" /\ state = "RECV" /\ (input # <<>> \/ eof)

\* The reads that bring something.
Read(room) ==
    /\ Polled
    /\ Chunk(room) # <<>>
    /\ input' = SubSeq(input, Len(Chunk(room)) + 1, Len(input))
    /\ UNCHANGED <<messages, part, eof, piped>>

\* recv() gives 0 when the peer has closed, and when there is no room to receive to.
RecvEnds(room) ==
    /\ Polled
    /\ Chunk(room) = <<>>
    /\ Close
    /\ UNCHANGED <<state, buf, out, answers, torn, peerVars>>

RecvFails ==
    /\ Polled
    /\ Close
    /\ UNCHANGED <<state, buf, out, answers, torn, peerVars>>

\* The buffer passes some of what it holds on, and allSent follows the last of it.
SendQueued(allSent) ==
    /\ conn = "open"
    /\ out > 0
    /\ out' \in 0..(out - 1)
    /\ IF out' = 0 THEN allSent ELSE UNCHANGED <<conn, objects>>
    /\ UNCHANGED <<state, buf, answers, torn, peerVars>>

\* The peer is gone: the event handler closes.
SendFails ==
    /\ conn = "open"
    /\ out > 0
    /\ Close
    /\ UNCHANGED <<state, buf, out, answers, torn, peerVars>>

-----------------------------------------------------------------------------
(* The end of a message *)

\* Mutant: the search stops one short of the end of the chunk.
Ends_Short(chunk) ==
    {i \in 1..(Len(chunk) - 2) : chunk[i].part = "half" /\ chunk[i + 1].part = "end"}

Ends(chunk) ==
    {i \in 1..(Len(chunk) - 1) : chunk[i].part = "half" /\ chunk[i + 1].part = "end"}

\* strstr in the part of the text that has just arrived.
HasEnd(chunk) == Ends(chunk) # {}

\* The end of a message arrives in two reads, which the search above does not see.
Tears(chunk) == chunk # <<>> /\ Head(chunk).part = "end"
=============================================================================
