------------------------------ MODULE Servers ------------------------------
(***************************************************************************)
(* A connection to one of the example programs: the listening stream that  *)
(* is asked for it decides which of the connections it is.  multi_server   *)
(* listens on seven ports with one callback, which looks at the port;      *)
(* rpxys and sock-echo have one kind of connection each.                   *)
(***************************************************************************)
EXTENDS Connection

VARIABLES
    program,     \* the program that listens
    port,        \* the port the peer has asked for
    params, maps \* of module HttpServer

vars == <<conVars, peerVars, program, port, params, maps>>

Http == INSTANCE HttpServer WITH Gateway <- FALSE
Proxy == INSTANCE HttpServer WITH Gateway <- TRUE
Port == INSTANCE PortServer
Echo == INSTANCE EchoServer

\* "FTP" stands for every port of multi_server but that of HTTP.  MQTT connections
\* are left out: their file does not compile.
Ports == {"HTTP", "FTP"}

\* The connection keeps its kind: the method table it was accepted with.
IsHttp == program = "multi_server" /\ port = "HTTP"
IsPort == program = "multi_server" /\ port # "HTTP"
IsProxy == program = "rpxys"
IsEcho == program = "sock-echo"

ServersInit ==
    /\ Init
    /\ program \in {"multi_server", "rpxys", "sock-echo"}
    /\ port \in IF program = "multi_server" THEN Ports ELSE {"own"}
    /\ Http!HttpInit

tcp_serv_accept ==
    \/ IsHttp /\ Http!HttpNext
    \/ IsPort /\ Port!PortNext /\ UNCHANGED <<params, maps>>

Next ==
    /\ \/ tcp_serv_accept
       \/ IsProxy /\ Proxy!HttpNext
       \/ IsEcho /\ Echo!EchoNext /\ UNCHANGED <<params, maps>>
    /\ UNCHANGED <<program, port>>

Recv ==
    /\ \/ IsHttp /\ Http!HttpRecv
       \/ IsPort /\ Port!PortRecv /\ UNCHANGED <<params, maps>>
       \/ IsProxy /\ Proxy!HttpRecv
       \/ IsEcho /\ Echo!EchoRecv /\ UNCHANGED <<params, maps>>
    /\ UNCHANGED <<program, port>>

Spec == ServersInit /\ [][Next]_vars

\* The main loop polls the connection for input as long as it is open.
FairSpec == Spec /\ WF_vars(Recv)

-----------------------------------------------------------------------------
(* Properties *)

\* The buffer of a connection never overflows, and where its text is searched with
\* strstr there is room for the final zero.
BufferFits == TypeOK /\ (~IsEcho => Len(buf) < Size)

\* No message is answered twice and no answer overtakes another, however reads cut
\* and join the text of the messages.
AnswersInOrder == \A i, j \in DOMAIN answers : i < j => answers[i].n < answers[j].n

\* A peer that waits for each answer gets the one its message deserves: no text of
\* an earlier message is left to be taken for the head of a later one.  sock-echo
\* serves a peer that does not wait as well, unless a command comes in three reads.
AnswersDeserved ==
    (IF IsEcho THEN ~torn ELSE ~piped) =>
        \A i \in DOMAIN answers :
            answers[i].good = (IsHttp \/ IsProxy => Http!Good(answers[i].n))

\* The map a connection is given by its first request serves the later ones and is
\* freed with it, and a connection that is not accepted leaves nothing behind in
\* multi_server; the other programs keep its memory.
NothingLeaks ==
    conn # "undefined" =>
        /\ maps = IF conn = "open" /\ params # "NULL" THEN 1 ELSE 0
        /\ objects = IF conn = "open" \/ (conn = "refused" /\ program # "multi_server") THEN 1 ELSE 0

\* A peer that has sent a whole message and waits is answered, unless the connection
\* ends, is to end with what was answered before, or a read has torn the message.
WaitingPeerIsAnswered ==
    (messages # <<>> /\ part = Len(Parts)) ~>
        (Len(answers) >= Len(messages) \/ piped \/ torn \/ conn # "open" \/ state = "CLOSE")

\* "io_d_free(iod); // end of connection": a connection that is to close and has
\* nothing left to send is closed.
ClosedWhenSent == conn = "open" /\ state = "CLOSE" => out > 0
=============================================================================
