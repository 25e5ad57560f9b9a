----------------------------- MODULE PortServer -----------------------------
(***************************************************************************)
(* The command connection of examples/multi_server_port.i, which serves    *)
(* all ports of multi_server but that of HTTP and MQTT.                    *)
(***************************************************************************)
EXTENDS Connection

Kinds == {"quit", "other"}

port_accept == Accept(FALSE, 1)

v_port_con_all_sent == IF state = "CLOSE" THEN Close ELSE UNCHANGED <<conn, objects>>

\* The first end in the chunk.
NextAt(chunk) == Min(Ends(chunk))

\* The command is all the text before the end; what is behind it stays, and waits for
\* more to arrive even if it holds a command.  The state follows the write.
port_con_process_request(text, next) ==
    LET cmd == SubSeq(text, 1, next - 1)
        n == text[next].n
        good == cmd = <<[n |-> n, part |-> "text"]>>
    IN /\ out' \in Written(out, 1)
       /\ answers' = Append(answers, [n |-> n, good |-> good])
       /\ state' = IF good /\ messages[n] = "quit" THEN "CLOSE" ELSE state
       /\ buf' = SubSeq(text, next + 2, Len(text))

v_port_con_recv ==
    LET chunk == Chunk(Size - 1 - Len(buf))
        text == buf \o chunk
    IN /\ Read(Size - 1 - Len(buf))
       /\ torn' = (torn \/ Tears(chunk))
       /\ IF HasEnd(chunk) THEN port_con_process_request(text, Len(buf) + NextAt(chunk))
          ELSE buf' = text /\ UNCHANGED <<state, out, answers>>
       /\ UNCHANGED <<conn, objects>>

PortRecv == v_port_con_recv \/ RecvEnds(Size - 1 - Len(buf))

PortNext ==
    \/ port_accept
    \/ Peer(Kinds)
    \/ PortRecv \/ RecvFails
    \/ SendQueued(v_port_con_all_sent) \/ SendFails
=============================================================================
