----------------------------- MODULE EchoServer -----------------------------
(***************************************************************************)
(* A connection of examples/sock-echo.c.  A command ends with LF; what is  *)
(* behind its first CR is left out.                                        *)
(***************************************************************************)
EXTENDS Connection

Kinds == {"quit", "other"}

port_accept == Accept(TRUE, 1)

\* The text of a command up to its CR.
Cmd(text) ==
    IF \E i \in DOMAIN text : text[i].part = "half"
    THEN SubSeq(text, 1, (CHOOSE i \in DOMAIN text :
                             /\ text[i].part = "half"
                             /\ \A j \in 1..(i - 1) : text[j].part # "half") - 1)
    ELSE text

LfAt(text) == {i \in DOMAIN text : text[i].part = "end"}

\* The place of the k-th LF.
Lf(text, k) == CHOOSE i \in LfAt(text) : Cardinality({j \in LfAt(text) : j <= i}) = k

\* The answers to all commands in text, in order; from is where the next one begins.
Commands(text) ==
    LET from(k) == IF k = 1 THEN 1 ELSE Lf(text, k - 1) + 1
    IN [k \in 1..Cardinality(LfAt(text)) |->
           LET n == text[Lf(text, k)].n
           IN [n |-> n,
               good |-> Cmd(SubSeq(text, from(k), Lf(text, k) - 1))
                            = <<[n |-> n, part |-> "text"]>>]]

\* The command that ends the connection is the whole text of a message.
Quits(answer) == answer.good /\ messages[answer.n] = "quit"

\* Mutant: the rest begins with the last command.
Rest_Whole(text, chunk) ==
    IF LfAt(chunk) = {} THEN chunk ELSE SubSeq(chunk, Max(LfAt(chunk)), Len(chunk))

\* The part that has just arrived, behind its last LF.  Without an LF it takes the
\* place of what had arrived before.
Rest(text, chunk) ==
    IF LfAt(chunk) = {} THEN chunk ELSE SubSeq(chunk, Max(LfAt(chunk)) + 1, Len(chunk))

\* "quit" frees the connection in the loop, which goes on with it.
port_stream_recv ==
    LET chunk == Chunk(Size - Len(buf))
        text == buf \o chunk
        all == Commands(text)
        quit == {k \in DOMAIN all : Quits(all[k])}
        done == IF quit = {} THEN all ELSE SubSeq(all, 1, Min(quit))
    IN /\ Read(Size - Len(buf))
       /\ answers' = answers \o done
       /\ out' \in Written(out, Len(done))
       /\ torn' = (torn \/ (buf # <<>> /\ LfAt(chunk) = {}))
       /\ buf' = Rest(text, chunk)
       /\ IF quit = {} THEN UNCHANGED <<conn, objects>> ELSE FreeInEvent
       /\ UNCHANGED state

EchoRecv == port_stream_recv \/ RecvEnds(Size - Len(buf))

EchoNext ==
    \/ port_accept
    \/ Peer(Kinds)
    \/ EchoRecv \/ RecvFails
    \/ SendQueued(UNCHANGED <<conn, objects>>) \/ SendFails
=============================================================================
