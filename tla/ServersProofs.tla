--------------------------- MODULE ServersProofs ---------------------------
(***************************************************************************)
(* Proofs about module Servers, for both bodies of io_stream_accept, any   *)
(* size of buffer and any number of messages, and about module Headers,    *)
(* for any strings, any sizes of table and heap, and any texts that the    *)
(* heap is as large as.                                                    *)
(*                                                                         *)
(* None of the invariants the runs check is inductive.                     *)
(*                                                                         *)
(* MemoryInv adds to NothingLeaks that a connection has no map before its  *)
(* first request, and that those of plain ports and of sock-echo never     *)
(* have one.                                                               *)
(*                                                                         *)
(* TalkInv says what is in the buffer: buffer and unread input are one     *)
(* piece of what the peer sent, its end, and message n ends 3n parts from  *)
(* its start.  Where that piece begins, Base, is counted from the messages *)
(* sent; answered messages are behind it (AnswersAreBehind).  With a peer  *)
(* that waits it begins where the last answered message ends               *)
(* (AnsweredInStep), and in sock-echo it begins with some message unless a *)
(* read tore one (BeginsWhole), so what is searched and compared is whole. *)
(*                                                                         *)
(* HeadersInv says that what the strings took of the heap, the text has    *)
(* given up (HeapIsAhead).                                                 *)
(***************************************************************************)
EXTENDS Servers, Headers, ListLemmas, FiniteSetTheorems

(***************************************************************************)
(* How a step treats the memory of a connection, for the four kinds.       *)
(***************************************************************************)

\* Nothing leaks, a connection without a request has no map, and only those that
\* speak HTTP ever have one.
MemoryInv ==
    /\ NothingLeaks
    /\ conn \in {"none", "refused", "open", "freed", "undefined"}
    /\ params \in {"NULL", "keeps", "ends"}
    /\ conn \in {"none", "refused"} => params = "NULL"
    /\ IsPort \/ IsEcho => params = "NULL"

\* What a step does to the memory of its connection, whose kind decides if what
\* could not be accepted is kept: accept it, do nothing, use a map for it, free it
\* with its map, or end where anything may happen.
MemoryStep(keeps) ==
    \/ /\ conn = "none" /\ conn' \in {"refused", "open"}
       /\ objects' = IF conn' = "open" \/ keeps THEN 1 ELSE 0
       /\ UNCHANGED <<params, maps>>
    \/ UNCHANGED <<conn, objects, params, maps>>
    \/ /\ conn = "open" /\ UNCHANGED <<conn, objects>>
       /\ ~(IsPort \/ IsEcho)
       /\ params' \in {"keeps", "ends"}
       /\ maps' = IF params = "NULL" THEN maps + 1 ELSE maps
    \/ /\ conn = "open" /\ conn' \in {"freed", "undefined"}
       /\ objects' = 0
       /\ maps' = IF params = "NULL" THEN maps ELSE maps - 1
       /\ UNCHANGED params
    \/ /\ conn = "open" /\ conn' = "undefined"
       /\ UNCHANGED params

\* Each of these keeps the memory in order.
LEMMA MemoryStepKeeps ==
    ASSUME MemoryInv, NEW keeps \in BOOLEAN, MemoryStep(keeps),
           keeps = (program # "multi_server"), UNCHANGED <<program, port>>
    PROVE  MemoryInv'
<1> USE DEF MemoryInv, NothingLeaks, IsPort, IsEcho
<1>1. CASE /\ conn = "none" /\ conn' \in {"refused", "open"}
           /\ objects' = IF conn' = "open" \/ keeps THEN 1 ELSE 0
           /\ UNCHANGED <<params, maps>>
  BY <1>1
<1>2. CASE UNCHANGED <<conn, objects, params, maps>>
  BY <1>2
<1>3. CASE /\ conn = "open" /\ UNCHANGED <<conn, objects>>
           /\ ~(IsPort \/ IsEcho)
           /\ params' \in {"keeps", "ends"}
           /\ maps' = IF params = "NULL" THEN maps + 1 ELSE maps
  BY <1>3
<1>4. CASE /\ conn = "open" /\ conn' \in {"freed", "undefined"}
           /\ objects' = 0
           /\ maps' = IF params = "NULL" THEN maps ELSE maps - 1
           /\ UNCHANGED params
  BY <1>4
<1>5. CASE conn = "open" /\ conn' = "undefined" /\ UNCHANGED params
  BY <1>5
<1> QED
  BY <1>1, <1>2, <1>3, <1>4, <1>5 DEF MemoryStep

\* The callbacks of multi_server_http.i.
LEMMA HttpMemory ==
    ASSUME IsHttp, Http!HttpNext
    PROVE  MemoryStep(FALSE)
<1>0. ~(IsPort \/ IsEcho)
  BY DEF IsHttp, IsPort, IsEcho
<1>1. CASE Http!http_accept
  BY <1>1 DEF Http!http_accept, Http!Accept, Http!httpVars, MemoryStep
<1>2. CASE Http!proxy_accept
  BY <1>2 DEF Http!proxy_accept
<1>3. CASE Http!Peer(Http!Kinds) /\ UNCHANGED Http!httpVars
  BY <1>3 DEF Http!Peer, Http!BeginMessage, Http!ContinueMessage, Http!PeerCloses,
              Http!conVars, Http!httpVars, MemoryStep
<1>4. CASE Http!v_http_con_recv
  <2> DEFINE chunk == Http!Chunk(Http!ToRecv)
             txt == buf \o chunk
  <2>1. conn = "open" /\ objects' = objects
    BY <1>4 DEF Http!v_http_con_recv, Http!Read, Http!Polled
  <2>2. CASE ~Http!HasEnd(chunk)
    BY <1>4, <2>2 DEF Http!v_http_con_recv, Http!httpVars, MemoryStep
  <2>3. CASE Http!HasEnd(chunk)
    <3>1. Http!Parse(txt)
      BY <1>4, <2>3 DEF Http!v_http_con_recv
    <3> HIDE DEF txt
    <3>2. CASE Head(txt).part # "text" \/ messages[Head(txt).n] = "badline"
      <4>1. UNCHANGED <<params, maps>> /\ conn' \in {conn, "undefined"}
        BY <3>1, <3>2 DEF Http!Parse, Http!Respond, Http!http_end, Http!httpVars
      <4> QED
        BY <2>1, <4>1 DEF MemoryStep
    <3>3. CASE ~(Head(txt).part # "text" \/ messages[Head(txt).n] = "badline")
      <4>1. /\ Http!io_hmap_create
            /\ params' \in Http!ConnectionHeader(messages[Head(txt).n])
            /\ \E writes \in IF Http!Good(Head(txt).n) /\ ~FALSE THEN 1..2 ELSE {1} :
                 Http!Respond(writes, params',
                              [n |-> Head(txt).n, good |-> Http!Good(Head(txt).n)], txt)
        BY <3>1, <3>3 DEF Http!Parse
      <4>2. params' \in {"keeps", "ends"}
        BY <4>1 DEF Http!ConnectionHeader
      <4>3. conn' = conn
        BY <4>1, <4>2 DEF Http!Respond
      <4>4. maps' = IF params = "NULL" THEN maps + 1 ELSE maps
        BY <4>1 DEF Http!io_hmap_create
      <4> QED
        BY <1>0, <2>1, <4>2, <4>3, <4>4 DEF MemoryStep
    <3> QED
      BY <3>2, <3>3
  <2> QED
    BY <2>2, <2>3
<1>5. CASE Http!RecvEnds(Http!ToRecv) /\ Http!v_http_con_close
  BY <1>5 DEF Http!RecvEnds, Http!Polled, Http!Close, Http!v_http_con_close, MemoryStep
<1>6. CASE Http!RecvFails /\ Http!v_http_con_close
  BY <1>6 DEF Http!RecvFails, Http!Polled, Http!Close, Http!v_http_con_close, MemoryStep
<1>7. CASE Http!SendQueued(Http!v_http_con_all_sent) /\ (out' > 0 => UNCHANGED Http!httpVars)
  <2>1. conn = "open" /\ out' \in 0..(out - 1)
    BY <1>7 DEF Http!SendQueued
  <2>2. CASE out' = 0 /\ state = "CLOSE"
    BY <1>7, <2>1, <2>2 DEF Http!SendQueued, Http!v_http_con_all_sent, Http!FreeInEvent,
                            Http!v_http_con_close, MemoryStep
  <2>3. CASE out' = 0 /\ state # "CLOSE"
    BY <1>7, <2>1, <2>3 DEF Http!SendQueued, Http!v_http_con_all_sent, Http!httpVars,
                            MemoryStep
  <2>4. CASE out' # 0
    <3>1. out' > 0
      BY <2>1, <2>4
    <3> QED
      BY <1>7, <2>4, <3>1 DEF Http!SendQueued, Http!httpVars, MemoryStep
  <2> QED
    BY <2>2, <2>3, <2>4
<1>8. CASE Http!SendFails /\ Http!v_http_con_close
  BY <1>8 DEF Http!SendFails, Http!Close, Http!v_http_con_close, MemoryStep
<1> QED
  BY <1>1, <1>2, <1>3, <1>4, <1>5, <1>6, <1>7, <1>8 DEF Http!HttpNext, Http!HttpRecv

\* The callbacks of rpxys.c.
LEMMA ProxyMemory ==
    ASSUME IsProxy, Proxy!HttpNext
    PROVE  MemoryStep(TRUE)
<1>0. ~(IsPort \/ IsEcho)
  BY DEF IsProxy, IsPort, IsEcho
<1>1. CASE Proxy!http_accept
  BY <1>1 DEF Proxy!http_accept
<1>2. CASE Proxy!proxy_accept
  BY <1>2 DEF Proxy!proxy_accept, Proxy!Accept, Proxy!httpVars, MemoryStep
<1>3. CASE Proxy!Peer(Proxy!Kinds) /\ UNCHANGED Proxy!httpVars
  BY <1>3 DEF Proxy!Peer, Proxy!BeginMessage, Proxy!ContinueMessage, Proxy!PeerCloses,
              Proxy!conVars, Proxy!httpVars, MemoryStep
<1>4. CASE Proxy!v_http_con_recv
  <2> DEFINE chunk == Proxy!Chunk(Proxy!ToRecv)
             txt == buf \o chunk
  <2>1. conn = "open" /\ objects' = objects
    BY <1>4 DEF Proxy!v_http_con_recv, Proxy!Read, Proxy!Polled
  <2>2. CASE ~Proxy!HasEnd(chunk)
    BY <1>4, <2>2 DEF Proxy!v_http_con_recv, Proxy!httpVars, MemoryStep
  <2>3. CASE Proxy!HasEnd(chunk)
    <3>1. Proxy!Parse(txt)
      BY <1>4, <2>3 DEF Proxy!v_http_con_recv
    <3> HIDE DEF txt
    <3>2. CASE Head(txt).part # "text" \/ messages[Head(txt).n] = "badline"
      <4>1. UNCHANGED <<params, maps>> /\ conn' \in {conn, "undefined"}
        BY <3>1, <3>2 DEF Proxy!Parse, Proxy!Respond, Proxy!proxy_end, Proxy!httpVars
      <4> QED
        BY <2>1, <4>1 DEF MemoryStep
    <3>3. CASE ~(Head(txt).part # "text" \/ messages[Head(txt).n] = "badline")
      <4>1. /\ Proxy!io_hmap_create
            /\ params' \in Proxy!ConnectionHeader(messages[Head(txt).n])
            /\ \E writes \in IF Proxy!Good(Head(txt).n) /\ ~TRUE THEN 1..2 ELSE {1} :
                 Proxy!Respond(writes, params',
                              [n |-> Head(txt).n, good |-> Proxy!Good(Head(txt).n)], txt)
        BY <3>1, <3>3 DEF Proxy!Parse
      <4>2. params' \in {"keeps", "ends"}
        BY <4>1 DEF Proxy!ConnectionHeader
      <4>3. conn' = conn
        BY <4>1 DEF Proxy!Respond, Proxy!proxy_end
      <4>4. maps' = IF params = "NULL" THEN maps + 1 ELSE maps
        BY <4>1 DEF Proxy!io_hmap_create
      <4> QED
        BY <1>0, <2>1, <4>2, <4>3, <4>4 DEF MemoryStep
    <3> QED
      BY <3>2, <3>3
  <2> QED
    BY <2>2, <2>3
<1>5. CASE Proxy!RecvEnds(Proxy!ToRecv) /\ Proxy!v_http_con_close
  BY <1>5 DEF Proxy!RecvEnds, Proxy!Polled, Proxy!Close, Proxy!v_http_con_close, MemoryStep
<1>6. CASE Proxy!RecvFails /\ Proxy!v_http_con_close
  BY <1>6 DEF Proxy!RecvFails, Proxy!Polled, Proxy!Close, Proxy!v_http_con_close, MemoryStep
<1>7. CASE Proxy!SendQueued(Proxy!v_http_con_all_sent) /\ (out' > 0 => UNCHANGED Proxy!httpVars)
  <2>1. conn = "open" /\ out' \in 0..(out - 1)
    BY <1>7 DEF Proxy!SendQueued
  <2>2. CASE out' = 0 /\ state = "CLOSE"
    BY <1>7, <2>1, <2>2 DEF Proxy!SendQueued, Proxy!v_http_con_all_sent, Proxy!FreeInEvent,
                            Proxy!v_http_con_close, MemoryStep
  <2>3. CASE out' = 0 /\ state # "CLOSE"
    BY <1>7, <2>1, <2>3 DEF Proxy!SendQueued, Proxy!v_http_con_all_sent, Proxy!httpVars,
                            MemoryStep
  <2>4. CASE out' # 0
    <3>1. out' > 0
      BY <2>1, <2>4
    <3> QED
      BY <1>7, <2>4, <3>1 DEF Proxy!SendQueued, Proxy!httpVars, MemoryStep
  <2> QED
    BY <2>2, <2>3, <2>4
<1>8. CASE Proxy!SendFails /\ Proxy!v_http_con_close
  BY <1>8 DEF Proxy!SendFails, Proxy!Close, Proxy!v_http_con_close, MemoryStep
<1> QED
  BY <1>1, <1>2, <1>3, <1>4, <1>5, <1>6, <1>7, <1>8 DEF Proxy!HttpNext, Proxy!HttpRecv

\* The callbacks of multi_server_port.i.
LEMMA PortMemory ==
    ASSUME IsPort, params = "NULL", Port!PortNext, UNCHANGED <<params, maps>>
    PROVE  MemoryStep(FALSE)
<1>1. CASE Port!port_accept
  BY <1>1 DEF Port!port_accept, Port!Accept, MemoryStep
<1>2. CASE Port!Peer(Port!Kinds)
  BY <1>2 DEF Port!Peer, Port!BeginMessage, Port!ContinueMessage, Port!PeerCloses,
              Port!conVars, MemoryStep
<1>3. CASE Port!v_port_con_recv
  BY <1>3 DEF Port!v_port_con_recv, MemoryStep
<1>4. CASE Port!RecvEnds(Size - 1 - Len(buf))
  BY <1>4 DEF Port!RecvEnds, Port!Polled, Port!Close, MemoryStep
<1>5. CASE Port!RecvFails
  BY <1>5 DEF Port!RecvFails, Port!Polled, Port!Close, MemoryStep
<1>6. CASE Port!SendQueued(Port!v_port_con_all_sent)
  BY <1>6 DEF Port!SendQueued, Port!v_port_con_all_sent, Port!Close, MemoryStep
<1>7. CASE Port!SendFails
  BY <1>7 DEF Port!SendFails, Port!Close, MemoryStep
<1> QED
  BY <1>1, <1>2, <1>3, <1>4, <1>5, <1>6, <1>7 DEF Port!PortNext, Port!PortRecv

\* The callbacks of sock-echo.c.
LEMMA EchoMemory ==
    ASSUME IsEcho, params = "NULL", Echo!EchoNext, UNCHANGED <<params, maps>>
    PROVE  MemoryStep(TRUE)
<1>1. CASE Echo!port_accept
  BY <1>1 DEF Echo!port_accept, Echo!Accept, MemoryStep
<1>2. CASE Echo!Peer(Echo!Kinds)
  BY <1>2 DEF Echo!Peer, Echo!BeginMessage, Echo!ContinueMessage, Echo!PeerCloses,
              Echo!conVars, MemoryStep
<1>3. CASE Echo!port_stream_recv
  <2>1. conn = "open"
    BY <1>3 DEF Echo!port_stream_recv, Echo!Read, Echo!Polled
  <2>2. UNCHANGED <<conn, objects>> \/ Echo!FreeInEvent
    BY <1>3 DEF Echo!port_stream_recv
  <2> QED
    BY <2>1, <2>2 DEF Echo!FreeInEvent, MemoryStep
<1>4. CASE Echo!RecvEnds(Size - Len(buf))
  BY <1>4 DEF Echo!RecvEnds, Echo!Polled, Echo!Close, MemoryStep
<1>5. CASE Echo!RecvFails
  BY <1>5 DEF Echo!RecvFails, Echo!Polled, Echo!Close, MemoryStep
<1>6. CASE Echo!SendQueued(UNCHANGED <<conn, objects>>)
  BY <1>6 DEF Echo!SendQueued, MemoryStep
<1>7. CASE Echo!SendFails
  BY <1>7 DEF Echo!SendFails, Echo!Close, MemoryStep
<1> QED
  BY <1>1, <1>2, <1>3, <1>4, <1>5, <1>6, <1>7 DEF Echo!EchoNext, Echo!EchoRecv

\* Every step of every program is one of these.
LEMMA NextKeepsMemory ==
    ASSUME MemoryInv, [Next]_vars
    PROVE  MemoryInv'
<1>1. CASE UNCHANGED vars
  BY <1>1 DEF vars, conVars, MemoryInv, NothingLeaks, IsPort, IsEcho
<1>2. CASE Next
  <2>1. UNCHANGED <<program, port>>
    BY <1>2 DEF Next
  <2>2. ASSUME IsHttp, Http!HttpNext PROVE MemoryInv'
    <3>1. program = "multi_server"
      BY <2>2 DEF IsHttp
    <3> QED
      BY <2>1, <2>2, <3>1, HttpMemory, MemoryStepKeeps
  <2>3. ASSUME IsPort, Port!PortNext, UNCHANGED <<params, maps>> PROVE MemoryInv'
    <3>1. program = "multi_server" /\ params = "NULL"
      BY <2>3 DEF IsPort, MemoryInv
    <3> QED
      BY <2>1, <2>3, <3>1, PortMemory, MemoryStepKeeps
  <2>4. ASSUME IsProxy, Proxy!HttpNext PROVE MemoryInv'
    <3>1. program # "multi_server"
      BY <2>4 DEF IsProxy
    <3> QED
      BY <2>1, <2>4, <3>1, ProxyMemory, MemoryStepKeeps
  <2>5. ASSUME IsEcho, Echo!EchoNext, UNCHANGED <<params, maps>> PROVE MemoryInv'
    <3>1. program # "multi_server" /\ params = "NULL"
      BY <2>5 DEF IsEcho, MemoryInv
    <3> QED
      BY <2>1, <2>5, <3>1, EchoMemory, MemoryStepKeeps
  <2> QED
    BY <1>2, <2>2, <2>3, <2>4, <2>5 DEF Next, tcp_serv_accept
<1> QED
  BY <1>1, <1>2

\* The memory invariant holds in every state of every behaviour.
THEOREM MemoryIsKept == Spec => []MemoryInv
<1>1. ServersInit => MemoryInv
  BY DEF ServersInit, Init, Http!HttpInit, MemoryInv, NothingLeaks
<1> QED
  BY <1>1, NextKeepsMemory, PTL DEF Spec

(***************************************************************************)
(* The text between a peer and its connection                              *)
(***************************************************************************)

\* The place of a part of a message in all that the peer sends: message n ends at 3n.
Place(t) ==
    3 * t.n - (IF t.part = "text" THEN 2 ELSE IF t.part = "half" THEN 1 ELSE 0)

\* A sequence of parts is what the peer sent behind its first b parts.
IsRun(s, b) == \A i \in 1..Len(s) : Place(s[i]) = b + i

\* The parts that are sent, of these the ones that are read, and of those the ones
\* that have left the buffer.
Sent == 3 * (Len(messages) - 1) + part
Taken == Sent - Len(input)
Base == Taken - Len(buf)

\* The connection reads what arrives.
Receives == conn = "open" /\ state = "RECV"

TalkTypes ==
    /\ TypeOK
    /\ messages \in Seq(Http!Kinds \cup Port!Kinds)
    /\ part >= 1
    /\ messages = <<>> => part = 3

\* A connection that is not accepted has seen nothing.
StartsEmpty ==
    conn \in {"none", "refused"} =>
        /\ state = "RECV" /\ buf = <<>> /\ input = <<>>
        /\ messages = <<>> /\ answers = <<>>

\* The buffer and what is not read are one piece of what the peer has sent, its end.
TextIsRun == Base >= 0 /\ IsRun(buf, Base) /\ IsRun(input, Taken)

\* Answered messages are begun, and a connection that receives has dropped their text.
AnswersAreBehind ==
    \A i \in DOMAIN answers :
        /\ answers[i].n <= Len(messages)
        /\ Receives => 3 * answers[i].n <= Base

\* With a peer that waits, all messages are answered, or all but the last, and the text
\* is what is behind the answered ones.
AnsweredInStep ==
    Receives /\ ~IsEcho /\ ~piped =>
        /\ Len(messages) \in {Len(answers), Len(answers) + 1}
        /\ Base = 3 * Len(answers)

\* The buffer of sock-echo begins with the head of a message.
BeginsWhole ==
    Receives /\ IsEcho /\ ~torn => \E q \in 0..Len(messages) : Base = 3 * q

TalkInv ==
    /\ TalkTypes
    /\ ~IsEcho => Len(buf) < Size
    /\ StartsEmpty
    /\ TextIsRun
    /\ AnswersInOrder
    /\ AnswersAreBehind
    /\ AnsweredInStep
    /\ BeginsWhole
    /\ AnswersDeserved

-----------------------------------------------------------------------------

\* The place of a part tells the message and the part.
LEMMA PlaceTells ==
    ASSUME NEW t \in Text
    PROVE  /\ t.n \in 1..MaxMessages /\ t.n \in Nat /\ t.n >= 1
           /\ t.part \in {"text", "half", "end"}
           /\ Place(t) \in Int
           /\ t.part = "text" => Place(t) = 3 * t.n - 2
           /\ t.part = "half" => Place(t) = 3 * t.n - 1
           /\ t.part = "end" => Place(t) = 3 * t.n
           /\ t = [n |-> t.n, part |-> t.part]
<1>1. DOMAIN Parts = 1..3 /\ Parts[1] = "text" /\ Parts[2] = "half" /\ Parts[3] = "end"
  BY DEF Parts
<1>2. {Parts[i] : i \in DOMAIN Parts} = {"text", "half", "end"}
  BY <1>1
<1>3. t.n \in 1..MaxMessages /\ t.part \in {"text", "half", "end"}
  BY <1>2 DEF Text
<1>4. t = [n |-> t.n, part |-> t.part]
  BY DEF Text
<1>5. t.n \in Nat /\ t.n >= 1
  BY <1>3, ConnectionAssumption
<1>6. /\ t.part = "text" => Place(t) = 3 * t.n - 2
      /\ t.part = "half" => Place(t) = 3 * t.n - 1
      /\ t.part = "end" => Place(t) = 3 * t.n
  BY <1>5 DEF Place
<1> QED
  BY <1>3, <1>4, <1>5, <1>6

\* Types of the counts.
LEMMA CountTypes ==
    ASSUME TalkTypes
    PROVE  /\ Len(messages) \in Nat /\ Len(messages) <= MaxMessages /\ MaxMessages \in Nat
           /\ part \in 1..3
           /\ Len(input) \in Nat /\ Len(buf) \in Nat /\ Len(answers) \in Nat
           /\ Sent \in Int /\ Taken \in Int /\ Base \in Int
           /\ Sent <= 3 * Len(messages)
           /\ Sent = 3 * (Len(messages) - 1) + part
           /\ Taken = Sent - Len(input) /\ Base = Taken - Len(buf)
<1>1. Len(Parts) = 3
  BY DEF Parts
<1>2. part \in 1..3 /\ Len(messages) \in Nat /\ Len(messages) <= MaxMessages
  BY <1>1 DEF TalkTypes, TypeOK
<1>3. Len(input) \in Nat /\ Len(buf) \in Nat /\ Len(answers) \in Nat
  BY DEF TalkTypes, TypeOK
<1> QED
  BY <1>2, <1>3, ConnectionAssumption DEF Sent, Taken, Base

\* Types of the answers.
LEMMA AnswerTypes ==
    ASSUME TalkTypes, NEW i \in DOMAIN answers
    PROVE  /\ answers[i].n \in 1..MaxMessages /\ answers[i].n \in Nat
           /\ answers[i].good \in BOOLEAN
<1> DEFINE S == [n : 1..MaxMessages, good : BOOLEAN]
<1>1. answers \in Seq(S)
  BY DEF TalkTypes, TypeOK
<1>2. answers[i] \in S
  <2> HIDE DEF S
  <2>1. i \in 1..Len(answers)
    BY <1>1
  <2> QED
    BY <1>1, <2>1, ElementOfSeq
<1> QED
  BY <1>2, ConnectionAssumption

\* What a step that moves no text keeps.
QuietStep ==
    /\ conn' \in {"none", "refused", "open", "freed", "undefined"}
    /\ conn' = "open" => conn \in {"none", "open"}
    /\ conn' \in {"none", "refused"} => conn \in {"none", "refused"}
    /\ out' \in Nat /\ objects' \in Nat
    /\ UNCHANGED <<state, buf, answers, torn, input, messages, part, eof, piped>>

\* A step that touches neither text nor answers keeps what is said of them.
LEMMA QuietStepKeeps ==
    ASSUME TalkInv, QuietStep, UNCHANGED <<program, port>>
    PROVE  TalkInv'
<1>1. TalkTypes'
  BY DEF TalkInv, TalkTypes, TypeOK, QuietStep
<1>2. Sent' = Sent /\ Taken' = Taken /\ Base' = Base
  BY DEF QuietStep, Sent, Taken, Base
<1>3. (IsEcho' <=> IsEcho) /\ (IsHttp' <=> IsHttp) /\ (IsProxy' <=> IsProxy)
  BY DEF IsEcho, IsHttp, IsProxy
<1>4. (~IsEcho => Len(buf) < Size)' /\ StartsEmpty'
  BY <1>3 DEF TalkInv, StartsEmpty, QuietStep
<1>5. TextIsRun'
  BY <1>2 DEF TalkInv, TextIsRun, IsRun, Place, QuietStep
<1>6. AnswersInOrder' /\ AnswersDeserved'
  BY <1>3 DEF TalkInv, AnswersInOrder, AnswersDeserved, QuietStep, Http!Good
<1>7. CASE conn' # "open"
  <2>1. ~Receives'
    BY <1>7 DEF Receives
  <2>2. AnswersAreBehind' /\ AnsweredInStep' /\ BeginsWhole'
    BY <2>1 DEF TalkInv, AnswersAreBehind, AnsweredInStep, BeginsWhole, QuietStep
  <2> QED
    BY <1>1, <1>4, <1>5, <1>6, <2>2 DEF TalkInv
<1>8. CASE conn = "open" /\ conn' = "open"
  <2>1. Receives' <=> Receives
    BY <1>8 DEF Receives, QuietStep
  <2>2. AnswersAreBehind' /\ AnsweredInStep' /\ BeginsWhole'
    BY <1>2, <1>3, <2>1 DEF TalkInv, AnswersAreBehind, AnsweredInStep, BeginsWhole, QuietStep
  <2> QED
    BY <1>1, <1>4, <1>5, <1>6, <2>2 DEF TalkInv
<1>9. CASE conn = "none" /\ conn' = "open"
  <2>1. buf = <<>> /\ input = <<>> /\ messages = <<>> /\ answers = <<>> /\ part = 3
    BY <1>9 DEF TalkInv, StartsEmpty, TalkTypes
  <2>2. Len(messages) = 0 /\ Len(answers) = 0 /\ Len(buf) = 0 /\ Len(input) = 0
    BY <2>1
  <2>3. Base = 0 /\ Sent = 0
    BY <2>1, <2>2 DEF Base, Taken, Sent
  <2>4. DOMAIN answers = {}
    BY <2>1
  <2>5. AnswersAreBehind'
    BY <2>4 DEF AnswersAreBehind, QuietStep
  <2>6. AnsweredInStep'
    BY <1>2, <2>2, <2>3 DEF AnsweredInStep, QuietStep
  <2>7. BeginsWhole'
    BY <1>2, <2>2, <2>3 DEF BeginsWhole, QuietStep
  <2> QED
    BY <1>1, <1>4, <1>5, <1>6, <2>5, <2>6, <2>7 DEF TalkInv
<1> QED
  BY <1>7, <1>8, <1>9 DEF QuietStep

\* One more part of a message behind the text: the counts and the run go on.
LEMMA PeerSends ==
    ASSUME TalkInv, NEW t \in Text, Place(t) = Sent + 1,
           input' = Append(input, t), Sent' = Sent + 1, buf' = buf
    PROVE  Taken' = Taken /\ Base' = Base /\ TextIsRun' /\ input' \in Seq(Text)
<1>1. input \in Seq(Text) /\ Len(input) \in Nat /\ buf \in Seq(Text) /\ Len(buf) \in Nat
  BY DEF TalkInv, TalkTypes, TypeOK
<1>2. /\ input' \in Seq(Text) /\ Len(input') = Len(input) + 1
      /\ \A i \in 1..Len(input) : input'[i] = input[i]
      /\ input'[Len(input) + 1] = t
  BY <1>1
<1>3. Sent \in Int /\ Taken \in Int /\ Base \in Int /\ Taken = Sent - Len(input)
  BY CountTypes DEF TalkInv
<1>4. Taken' = Taken
  BY <1>1, <1>2, <1>3 DEF Taken
<1>5. Base' = Base
  BY <1>4 DEF Base
<1>6. IsRun(buf, Base)'
  BY <1>5 DEF TalkInv, TextIsRun, IsRun, Place
<1>7. IsRun(input, Taken)'
  <2> SUFFICES ASSUME NEW i \in 1..(Len(input) + 1) PROVE Place(input'[i]) = Taken + i
    BY <1>2, <1>4 DEF IsRun, Place
  <2>1. CASE i \in 1..Len(input)
    BY <1>2, <2>1 DEF TalkInv, TextIsRun, IsRun
  <2>2. CASE i = Len(input) + 1
    BY <1>1, <1>2, <1>3, <2>2
  <2> QED
    BY <1>1, <2>1, <2>2
<1> QED
  BY <1>2, <1>4, <1>5, <1>6, <1>7 DEF TalkInv, TextIsRun

\* A peer that goes on or begins a message leaves every answer what it was.
LEMMA PeerKeeps ==
    ASSUME TalkInv, NEW kinds \in SUBSET (Http!Kinds \cup Port!Kinds), Peer(kinds),
           UNCHANGED <<program, port>>
    PROVE  TalkInv'
<1>0. (IsEcho' <=> IsEcho) /\ (IsHttp' <=> IsHttp) /\ (IsProxy' <=> IsProxy)
  BY DEF IsEcho, IsHttp, IsProxy
<1>1. conn = "open" /\ UNCHANGED <<conn, state, buf, out, answers, objects, torn>>
  BY DEF Peer, BeginMessage, ContinueMessage, PeerCloses, conVars
<1>2. TalkTypes /\ TypeOK /\ messages \in Seq(Http!Kinds \cup Port!Kinds)
  BY DEF TalkInv, TalkTypes
<1>3. /\ Len(messages) \in Nat /\ Len(messages) <= MaxMessages /\ MaxMessages \in Nat
      /\ part \in 1..3 /\ Sent = 3 * (Len(messages) - 1) + part /\ Base \in Int
  BY <1>2, CountTypes
<1>4. Len(Parts) = 3 /\ Parts[1] = "text" /\ Parts[2] = "half" /\ Parts[3] = "end"
  BY DEF Parts
<1>5. Receives' <=> Receives
  BY <1>1 DEF Receives
<1>6. (~IsEcho => Len(buf) < Size)' /\ StartsEmpty' /\ AnswersInOrder'
  BY <1>0, <1>1 DEF TalkInv, StartsEmpty, AnswersInOrder
<1>7. Text = [n : 1..MaxMessages, part : {"text", "half", "end"}]
  <2>1. {Parts[i] : i \in DOMAIN Parts} = {"text", "half", "end"}
    BY DEF Parts
  <2> QED
    BY <2>1 DEF Text
<1>8. CASE PeerCloses
  <2>1. UNCHANGED <<input, messages, part, piped>> /\ eof' = TRUE
    BY <1>8 DEF PeerCloses
  <2>3. Sent' = Sent /\ Taken' = Taken /\ Base' = Base
    BY <1>1, <2>1 DEF Sent, Taken, Base
  <2>4. TalkTypes'
    BY <1>1, <1>2, <2>1 DEF TalkInv, TalkTypes, TypeOK
  <2>5. TextIsRun'
    BY <1>1, <2>1, <2>3 DEF TalkInv, TextIsRun, IsRun, Place
  <2>6. AnswersAreBehind' /\ AnsweredInStep' /\ BeginsWhole'
    BY <1>0, <1>1, <1>5, <2>1, <2>3
    DEF TalkInv, AnswersAreBehind, AnsweredInStep, BeginsWhole
  <2>7. AnswersDeserved'
    BY <1>0, <1>1, <2>1 DEF TalkInv, AnswersDeserved, Http!Good
  <2> QED
    BY <1>6, <2>4, <2>5, <2>6, <2>7 DEF TalkInv
<1>9. CASE ContinueMessage
  <2>1. /\ part < 3 /\ part' = part + 1 /\ UNCHANGED <<messages, eof, piped>>
        /\ input' = Append(input, [n |-> Len(messages), part |-> Parts[part + 1]])
    BY <1>4, <1>9 DEF ContinueMessage
  <2> DEFINE t == [n |-> Len(messages), part |-> Parts[part + 1]]
  <2>2. messages # <<>> /\ Len(messages) >= 1
    <3>1. messages # <<>>
      BY <1>2, <1>3, <2>1 DEF TalkTypes
    <3> QED
      BY <1>2, <3>1
  <2>3. part = 1 \/ part = 2
    BY <1>3, <2>1
  <2>4. t \in Text
    BY <1>3, <1>4, <1>7, <2>2, <2>3
  <2>5. Place(t) = Sent + 1
    BY <1>3, <1>4, <2>3 DEF Place
  <2>6. Sent' = Sent + 1
    BY <1>3, <2>1 DEF Sent
  <2>7. input' = Append(input, t)
    BY <2>1
  <2> HIDE DEF t
  <2>8. Taken' = Taken /\ Base' = Base /\ TextIsRun' /\ input' \in Seq(Text)
    BY <1>1, <2>4, <2>5, <2>6, <2>7, PeerSends
  <2>9. TalkTypes'
    BY <1>1, <1>2, <1>3, <1>4, <2>1, <2>2, <2>8 DEF TalkTypes, TypeOK
  <2>10. AnswersAreBehind' /\ BeginsWhole'
    BY <1>0, <1>1, <1>5, <2>1, <2>8 DEF TalkInv, AnswersAreBehind, BeginsWhole
  <2>11. AnsweredInStep'
    BY <1>0, <1>1, <1>5, <2>1, <2>8 DEF TalkInv, AnsweredInStep
  <2>12. AnswersDeserved'
    BY <1>0, <1>1, <2>1 DEF TalkInv, AnswersDeserved, Http!Good
  <2> QED
    BY <1>6, <2>8, <2>9, <2>10, <2>11, <2>12 DEF TalkInv
<1>10. ASSUME NEW kind \in kinds, BeginMessage(kind) PROVE TalkInv'
  <2>1. /\ part = 3 /\ part' = 1 /\ Len(messages) < MaxMessages /\ eof' = eof
        /\ messages' = Append(messages, kind)
        /\ input' = Append(input, [n |-> Len(messages) + 1, part |-> "text"])
        /\ piped' = (piped \/ Len(answers) < Len(messages))
    BY <1>4, <1>10 DEF BeginMessage
  <2> DEFINE t == [n |-> Len(messages) + 1, part |-> "text"]
  <2>2. /\ messages' \in Seq(Http!Kinds \cup Port!Kinds)
        /\ Len(messages') = Len(messages) + 1
        /\ \A i \in 1..Len(messages) : messages'[i] = messages[i]
    BY <1>2, <2>1
  <2>3. t \in Text
    BY <1>3, <1>7, <2>1
  <2>4. Place(t) = Sent + 1
    BY <1>3, <2>1 DEF Place
  <2>5. Sent' = Sent + 1
    BY <1>3, <2>1, <2>2 DEF Sent
  <2>6. input' = Append(input, t)
    BY <2>1
  <2> HIDE DEF t
  <2>7. Taken' = Taken /\ Base' = Base /\ TextIsRun' /\ input' \in Seq(Text)
    BY <1>1, <2>3, <2>4, <2>5, <2>6, PeerSends
  <2>8. piped' \in BOOLEAN
    BY <2>1
  <2>9. TypeOK'
    BY <1>1, <1>2, <1>3, <1>4, <2>1, <2>2, <2>7, <2>8 DEF TypeOK
  <2>10. TalkTypes'
    <3>1. messages' # <<>>
      BY <1>3, <2>2
    <3> QED
      BY <2>1, <2>2, <2>9, <3>1 DEF TalkTypes
  <2>11. AnswersAreBehind'
    <3> SUFFICES ASSUME NEW i \in DOMAIN answers
                 PROVE  /\ answers[i].n <= Len(messages) + 1
                        /\ Receives => 3 * answers[i].n <= Base
      BY <1>1, <1>5, <2>2, <2>7 DEF AnswersAreBehind
    <3>1. answers[i].n \in Nat
      BY <1>2, AnswerTypes
    <3> QED
      BY <1>3, <3>1 DEF TalkInv, AnswersAreBehind
  <2>12. BeginsWhole'
    <3> SUFFICES ASSUME Receives, IsEcho, ~torn
                 PROVE  \E q \in 0..(Len(messages) + 1) : Base = 3 * q
      BY <1>0, <1>1, <1>5, <2>2, <2>7 DEF BeginsWhole
    <3>1. PICK q \in 0..Len(messages) : Base = 3 * q
      BY DEF TalkInv, BeginsWhole
    <3>2. q \in 0..(Len(messages) + 1)
      BY <1>3
    <3> QED
      BY <3>1, <3>2
  <2>13. AnsweredInStep'
    <3> SUFFICES ASSUME Receives, ~IsEcho, ~piped, ~(Len(answers) < Len(messages))
                 PROVE  /\ Len(messages) + 1 \in {Len(answers), Len(answers) + 1}
                        /\ Base = 3 * Len(answers)
      BY <1>0, <1>1, <1>5, <2>1, <2>2, <2>7 DEF AnsweredInStep
    <3>1. Len(answers) \in Nat
      BY <1>2 DEF TypeOK
    <3>2. Len(messages) \in {Len(answers), Len(answers) + 1} /\ Base = 3 * Len(answers)
      BY DEF TalkInv, AnsweredInStep
    <3> QED
      BY <1>3, <2>1, <3>1, <3>2
  <2>14. AnswersDeserved'
    <3>1. \A i \in DOMAIN answers : Http!Good(answers[i].n)' <=> Http!Good(answers[i].n)
      <4> TAKE i \in DOMAIN answers
      <4>1. answers[i].n \in 1..MaxMessages /\ answers[i].n <= Len(messages)
        BY <1>2, AnswerTypes DEF TalkInv, AnswersAreBehind
      <4>2. messages'[answers[i].n] = messages[answers[i].n]
        BY <1>3, <2>2, <4>1
      <4> QED
        BY <1>1, <4>2 DEF Http!Good
    <3> QED
      BY <1>0, <1>1, <2>1, <3>1 DEF TalkInv, AnswersDeserved
  <2> QED
    BY <1>6, <2>7, <2>10, <2>11, <2>12, <2>13, <2>14 DEF TalkInv
<1> QED
  BY <1>8, <1>9, <1>10 DEF Peer

-----------------------------------------------------------------------------
(* What a read brings *)

\* The text in the buffer with what a read into that much space brings.
Arrived(space) == buf \o Chunk(space)

\* A read takes the next part of the run.
LEMMA ReadTakes ==
    ASSUME TalkInv, NEW space \in Nat, Read(space)
    PROVE  /\ Receives
           /\ Chunk(space) \in Seq(Text) /\ Len(Chunk(space)) \in 1..space
           /\ Arrived(space) \in Seq(Text)
           /\ Len(Arrived(space)) = Len(buf) + Len(Chunk(space))
           /\ \A i \in 1..Len(buf) : Arrived(space)[i] = buf[i]
           /\ \A i \in 1..Len(Chunk(space)) :
                  Arrived(space)[Len(buf) + i] = Chunk(space)[i]
           /\ IsRun(Arrived(space), Base)
           /\ input' \in Seq(Text)
           /\ Sent' = Sent
           /\ Taken' = Base + Len(Arrived(space))
           /\ Taken' <= Sent
           /\ IsRun(input, Taken)'
           /\ UNCHANGED <<messages, part, eof, piped>>
<1>1. input \in Seq(Text) /\ Len(input) \in Nat /\ buf \in Seq(Text) /\ Len(buf) \in Nat
  BY DEF TalkInv, TalkTypes, TypeOK
<1>2. Sent \in Int /\ Taken \in Int /\ Base \in Int /\ Taken = Sent - Len(input)
      /\ Base = Taken - Len(buf)
  BY CountTypes DEF TalkInv
<1> DEFINE chunk == Chunk(space)
           k == Len(chunk)
           l == Min({Len(input), space})
<1>3. l \in Nat /\ l <= space /\ l <= Len(input)
  <2>1. \E x \in {Len(input), space} : \A y \in {Len(input), space} : x <= y
    BY <1>1
  <2> QED
    BY <1>1, <2>1 DEF Min
<1>4. chunk = SubSeq(input, 1, l)
  BY DEF Chunk
<1> HIDE DEF l
<1>5. /\ chunk \in Seq(Text) /\ Len(chunk) = l
      /\ \A i \in 1..l : chunk[i] = input[i]
  BY <1>1, <1>3, <1>4
<1>6. chunk # <<>> /\ input' = SubSeq(input, Len(chunk) + 1, Len(input))
      /\ UNCHANGED <<messages, part, eof, piped>> /\ Receives
  BY DEF Read, Polled, Receives
<1> HIDE DEF chunk
<1>7. k \in Nat /\ k >= 1 /\ k <= space /\ k <= Len(input)
  BY <1>3, <1>5, <1>6
<1>8. /\ input' \in Seq(Text) /\ Len(input') = Len(input) - k
      /\ \A i \in 1..(Len(input) - k) : input'[i] = input[k + i]
  BY <1>1, <1>6, <1>7
<1> DEFINE a == buf \o chunk
<1>9. /\ a \in Seq(Text) /\ Len(a) = Len(buf) + k
      /\ \A i \in 1..Len(buf) : a[i] = buf[i]
      /\ \A i \in 1..k : a[Len(buf) + i] = chunk[i]
  BY <1>1, <1>5
<1>10. Arrived(space) = a
  BY DEF Arrived, chunk
<1> HIDE DEF a, k
<1>11. Sent' = Sent
  BY <1>6 DEF Sent
<1>12. Taken' = Sent - (Len(input) - k)
  BY <1>8, <1>11 DEF Taken
<1>13. Taken' = Base + Len(a) /\ Taken' <= Sent /\ Taken' = Taken + k
  BY <1>1, <1>2, <1>7, <1>9, <1>12
<1>14. IsRun(a, Base)
  <2> SUFFICES ASSUME NEW i \in 1..(Len(buf) + k) PROVE Place(a[i]) = Base + i
    BY <1>9 DEF IsRun
  <2>1. CASE i \in 1..Len(buf)
    BY <1>9, <2>1 DEF TalkInv, TextIsRun, IsRun
  <2>2. CASE i \in (Len(buf) + 1)..(Len(buf) + k)
    <3> DEFINE j == i - Len(buf)
    <3>1. j \in 1..k /\ i = Len(buf) + j
      BY <1>1, <1>7, <2>2
    <3> HIDE DEF j
    <3>2. k = l
      BY <1>5 DEF k
    <3>3. a[i] = input[j]
      BY <1>5, <1>9, <3>1, <3>2
    <3>4. j \in 1..Len(input)
      BY <1>1, <1>7, <3>1
    <3>5. Place(input[j]) = Taken + j
      BY <3>4 DEF TalkInv, TextIsRun, IsRun
    <3> QED
      BY <1>1, <1>2, <3>1, <3>3, <3>5
  <2> QED
    BY <1>1, <1>7, <2>1, <2>2
<1>15. IsRun(input, Taken)'
  <2> SUFFICES ASSUME NEW i \in 1..(Len(input) - k) PROVE Place(input'[i]) = Taken + k + i
    BY <1>8, <1>13 DEF IsRun, Place
  <2>1. k + i \in 1..Len(input)
    BY <1>1, <1>7
  <2>2. Place(input[k + i]) = Taken + (k + i)
    BY <2>1 DEF TalkInv, TextIsRun, IsRun
  <2> QED
    BY <1>2, <1>7, <1>8, <2>2
<1>16. k = Len(Chunk(space))
  BY DEF k, chunk
<1>17. Chunk(space) \in Seq(Text) /\ Len(Chunk(space)) \in 1..space
  <2>1. k \in 1..space
    BY <1>7
  <2> QED
    BY <1>5, <1>16, <2>1 DEF chunk
<1>18. /\ Arrived(space) \in Seq(Text) /\ Len(Arrived(space)) = Len(buf) + Len(Chunk(space))
       /\ \A i \in 1..Len(buf) : Arrived(space)[i] = buf[i]
       /\ \A i \in 1..Len(Chunk(space)) : Arrived(space)[Len(buf) + i] = Chunk(space)[i]
  BY <1>9, <1>10, <1>16 DEF chunk
<1> QED
  BY <1>6, <1>8, <1>10, <1>11, <1>13, <1>14, <1>15, <1>17, <1>18

\* The messages a read meets are begun.
LEMMA ArrivedIsBegun ==
    ASSUME TalkInv, NEW space \in Nat, Read(space), NEW i \in 1..Len(Arrived(space))
    PROVE  /\ Arrived(space)[i] \in Text
           /\ Place(Arrived(space)[i]) = Base + i
           /\ Base < 3 * Arrived(space)[i].n
           /\ Arrived(space)[i].n \in 1..Len(messages)
<1> DEFINE t == Arrived(space)[i]
<1>1. /\ Arrived(space) \in Seq(Text) /\ IsRun(Arrived(space), Base)
      /\ Len(Arrived(space)) \in Nat /\ Base + Len(Arrived(space)) <= Sent
  BY ReadTakes
<1>2. Place(t) = Base + i
  BY <1>1 DEF IsRun
<1>3. t \in Text
  BY <1>1, ElementOfSeq
<1> HIDE DEF t
<1>4. Base \in Int /\ Sent <= 3 * Len(messages) /\ Sent \in Int /\ Len(messages) \in Nat
  BY CountTypes DEF TalkInv
<1>5. t.n \in Nat /\ t.n >= 1 /\ Place(t) <= 3 * t.n /\ 3 * t.n - 2 <= Place(t)
  BY <1>3, PlaceTells
<1>6. Base < 3 * t.n
  BY <1>1, <1>2, <1>4, <1>5
<1>7. Base + i <= Sent
  BY <1>1, <1>4
<1>8. t.n <= Len(messages)
  BY <1>2, <1>4, <1>5, <1>7
<1> QED
  BY <1>2, <1>3, <1>4, <1>5, <1>6, <1>8 DEF t

\* What the answers of a read must be: in order, each for a message that was not
\* behind yet and is behind now if the connection goes on, and deserved.
Answers(done, d) ==
    /\ done \in Seq([n : 1..MaxMessages, good : BOOLEAN])
    /\ \A i, j \in DOMAIN done : i < j => done[i].n < done[j].n
    /\ \A i \in DOMAIN done :
          /\ Base < 3 * done[i].n
          /\ done[i].n <= Len(messages)
          /\ Receives' => 3 * done[i].n <= Base + d
    /\ (IF IsEcho THEN ~torn' ELSE ~piped) =>
          \A i \in DOMAIN done : done[i].good = (IsHttp \/ IsProxy => Http!Good(done[i].n))

\* A read that answers like that and drops the first d parts of the text.
LEMMA ReadKeeps ==
    ASSUME TalkInv, NEW space \in Nat, Read(space), UNCHANGED <<program, port>>,
           NEW d \in 0..Len(Arrived(space)),
           buf' = SubSeq(Arrived(space), d + 1, Len(Arrived(space))),
           NEW done, Answers(done, d), answers' = answers \o done,
           conn' \in {"open", "freed", "undefined"}, state' \in {"RECV", "CLOSE"},
           objects' \in Nat, out' \in Nat, torn' \in BOOLEAN, torn => torn',
           Len(buf) + space <= Size, ~IsEcho => Len(buf) + space < Size
    PROVE  /\ TalkTypes' /\ (~IsEcho => Len(buf) < Size)' /\ StartsEmpty' /\ TextIsRun'
           /\ AnswersInOrder' /\ AnswersAreBehind' /\ AnswersDeserved'
           /\ Base' = Base + d
<1> DEFINE S == [n : 1..MaxMessages, good : BOOLEAN]
           a == Arrived(space)
<1>0. (IsEcho' <=> IsEcho) /\ (IsHttp' <=> IsHttp) /\ (IsProxy' <=> IsProxy)
  BY DEF IsEcho, IsHttp, IsProxy
<1>1. /\ Receives /\ a \in Seq(Text) /\ Len(a) \in Nat
      /\ Len(a) <= Len(buf) + space /\ IsRun(a, Base)
      /\ input' \in Seq(Text) /\ Taken' = Base + Len(a)
      /\ IsRun(input, Taken)' /\ UNCHANGED <<messages, part, eof, piped>>
  <2>1. Len(buf) \in Nat
    BY DEF TalkInv, TalkTypes, TypeOK
  <2> QED
    BY <2>1, ReadTakes
<1>2. TalkTypes /\ Base \in Int /\ Base >= 0 /\ Len(messages) \in Nat
      /\ Len(buf) \in Nat
  BY CountTypes DEF TalkInv, TextIsRun
<1> HIDE DEF a
<1>3. /\ buf' \in Seq(Text) /\ Len(buf') = Len(a) - d
      /\ \A i \in 1..(Len(a) - d) : buf'[i] = a[d + i]
  BY <1>1 DEF a
<1>4. Base' = Base + d /\ Base' >= 0
  <2>1. Base' = Taken' - Len(buf')
    BY DEF Base
  <2>2. d \in Nat
    BY <1>1 DEF a
  <2>3. Base' = (Base + Len(a)) - (Len(a) - d) /\ Len(a) \in Nat
    BY <1>1, <1>3, <2>1
  <2>4. \A b, l, e \in Int : (b + l) - (l - e) = b + e
    OBVIOUS
  <2>5. Base' = Base + d
    BY <1>2, <2>2, <2>3, <2>4
  <2>6. Base + d >= 0
    BY <1>2, <2>2
  <2> QED
    BY <2>5, <2>6
<1>5. IsRun(buf, Base)'
  <2> SUFFICES ASSUME NEW i \in 1..(Len(a) - d) PROVE Place(a[d + i]) = Base + d + i
    BY <1>3, <1>4 DEF IsRun, Place
  <2>1. d \in Nat /\ d + i \in 1..Len(a)
    BY <1>1 DEF a
  <2>2. Place(a[d + i]) = Base + (d + i)
    BY <1>1, <2>1 DEF IsRun
  <2> QED
    BY <1>2, <2>1, <2>2
<1>6. TextIsRun'
  BY <1>1, <1>4, <1>5 DEF TextIsRun
<1>7. Len(buf') <= Len(buf) + space
  <2>1. d \in Nat
    BY <1>1 DEF a
  <2> QED
    BY <1>1, <1>2, <1>3, <2>1
<1>8. answers \in Seq(S) /\ done \in Seq(S)
  BY <1>2 DEF TalkTypes, TypeOK, Answers
<1> HIDE DEF S
<1>9. /\ answers' \in Seq(S) /\ Len(answers') = Len(answers) + Len(done)
      /\ DOMAIN answers = 1..Len(answers) /\ DOMAIN done = 1..Len(done)
      /\ DOMAIN answers' = 1..(Len(answers) + Len(done))
      /\ Len(answers) \in Nat /\ Len(done) \in Nat
      /\ \A i \in 1..Len(answers) : answers'[i] = answers[i]
      /\ \A i \in 1..Len(done) : answers'[Len(answers) + i] = done[i]
  BY <1>8
<1>10. \A i \in DOMAIN answers' :
          \/ i \in DOMAIN answers /\ answers'[i] = answers[i]
          \/ \E k \in DOMAIN done : i = Len(answers) + k /\ answers'[i] = done[k]
  <2> TAKE i \in DOMAIN answers'
  <2>1. CASE i \in 1..Len(answers)
    BY <1>9, <2>1
  <2>2. CASE i \in (Len(answers) + 1)..(Len(answers) + Len(done))
    <3>1. i - Len(answers) \in 1..Len(done) /\ i = Len(answers) + (i - Len(answers))
      BY <1>9, <2>2
    <3> QED
      BY <1>9, <3>1
  <2> QED
    BY <1>9, <2>1, <2>2
<1>11. \A i \in DOMAIN done : done[i].n \in Nat
  <2> TAKE i \in DOMAIN done
  <2>1. done[i] \in S
    BY <1>8, <1>9, ElementOfSeq
  <2> QED
    BY <2>1, ConnectionAssumption DEF S
<1>12. \A i \in DOMAIN answers : answers[i].n \in Nat /\ 3 * answers[i].n <= Base
                                 /\ answers[i].n <= Len(messages)
  BY <1>1, <1>2, AnswerTypes DEF TalkInv, AnswersAreBehind
<1>13. AnswersInOrder'
  <2> SUFFICES ASSUME NEW i \in DOMAIN answers', NEW j \in DOMAIN answers', i < j
               PROVE  answers'[i].n < answers'[j].n
    BY DEF AnswersInOrder
  <2>1. CASE i \in DOMAIN answers /\ j \in DOMAIN answers
    BY <1>9, <2>1 DEF TalkInv, AnswersInOrder
  <2>2. CASE i \in DOMAIN answers /\ answers'[i] = answers[i] /\ j \notin DOMAIN answers
    <3>1. PICK k \in DOMAIN done : answers'[j] = done[k]
      BY <1>10, <2>2
    <3> DEFINE m == answers[i].n
               n == done[k].n
    <3>2. Base < 3 * n
      BY DEF Answers
    <3>3. n \in Nat /\ m \in Nat /\ 3 * m <= Base
      BY <1>11, <1>12, <2>2
    <3>4. answers'[i].n = m /\ answers'[j].n = n
      BY <2>2, <3>1
    <3> HIDE DEF m, n
    <3>5. m < n
      BY <1>2, <3>2, <3>3
    <3> QED
      BY <3>4, <3>5
  <2>3. CASE i \notin DOMAIN answers
    <3>1. PICK k \in DOMAIN done : i = Len(answers) + k /\ answers'[i] = done[k]
      BY <1>10, <2>3
    <3>2. j \notin DOMAIN answers
      BY <1>9, <2>3
    <3>3. PICK l \in DOMAIN done : j = Len(answers) + l /\ answers'[j] = done[l]
      BY <1>10, <3>2
    <3>4. k < l
      BY <1>9, <3>1, <3>3
    <3> QED
      BY <3>1, <3>3, <3>4 DEF Answers
  <2> QED
    BY <1>9, <1>10, <2>1, <2>2, <2>3
<1>14. AnswersAreBehind'
  <2> SUFFICES ASSUME NEW i \in DOMAIN answers'
               PROVE  /\ answers'[i].n <= Len(messages)
                      /\ Receives' => 3 * answers'[i].n <= Base + d
    BY <1>1, <1>4 DEF AnswersAreBehind
  <2>1. CASE i \in DOMAIN answers /\ answers'[i] = answers[i]
    <3>1. d \in Nat
      BY <1>1 DEF a
    <3> DEFINE m == answers[i].n
    <3>2. m \in Nat /\ 3 * m <= Base /\ m <= Len(messages)
      BY <1>12, <2>1
    <3>3. answers'[i].n = m
      BY <2>1
    <3> HIDE DEF m
    <3>4. 3 * m <= Base + d
      BY <1>2, <3>1, <3>2
    <3> QED
      BY <3>2, <3>3, <3>4
  <2>2. ASSUME NEW k \in DOMAIN done, answers'[i] = done[k]
        PROVE  /\ answers'[i].n <= Len(messages)
               /\ Receives' => 3 * answers'[i].n <= Base + d
    BY <2>2 DEF Answers
  <2> QED
    BY <1>10, <2>1, <2>2
<1>15. AnswersDeserved'
  <2> SUFFICES ASSUME IF IsEcho THEN ~torn' ELSE ~piped, NEW i \in DOMAIN answers'
               PROVE  answers'[i].good = (IsHttp \/ IsProxy => Http!Good(answers'[i].n))
    BY <1>0, <1>1 DEF AnswersDeserved, Http!Good
  <2>1. IF IsEcho THEN ~torn ELSE ~piped
    OBVIOUS
  <2>2. CASE i \in DOMAIN answers /\ answers'[i] = answers[i]
    BY <2>1, <2>2 DEF TalkInv, AnswersDeserved
  <2>3. ASSUME NEW k \in DOMAIN done, answers'[i] = done[k]
        PROVE  answers'[i].good = (IsHttp \/ IsProxy => Http!Good(answers'[i].n))
    BY <2>3 DEF Answers
  <2> QED
    BY <1>10, <2>2, <2>3
<1>16. StartsEmpty'
  BY DEF StartsEmpty
<1>17. Len(buf') <= Size /\ (~IsEcho => Len(buf) < Size)'
  <2>1. Len(buf') \in Nat
    BY <1>3
  <2> QED
    BY <1>0, <1>2, <1>7, <2>1, ConnectionAssumption
<1>18. TalkTypes'
  BY <1>1, <1>2, <1>3, <1>9, <1>17 DEF TalkTypes, TypeOK, S
<1> QED
  BY <1>4, <1>6, <1>13, <1>14, <1>15, <1>16, <1>17, <1>18

-----------------------------------------------------------------------------
(* The reads that look for CR and LF in what has just arrived *)

\* The end of a message in what a read brings, told in the whole text.
LEMMA EndArrives ==
    ASSUME TalkInv, NEW space \in Nat, Read(space), NEW i \in Ends(Chunk(space)),
           NEW e, e = Len(buf) + i
    PROVE  /\ e \in Nat /\ e >= 1 /\ e + 1 <= Len(Arrived(space))
           /\ Arrived(space)[e].part = "half" /\ Arrived(space)[e + 1].part = "end"
           /\ Arrived(space)[e].n = Arrived(space)[e + 1].n
           /\ 3 * Arrived(space)[e].n = Base + e + 1
<1> DEFINE a == Arrived(space)
           b == Len(buf)
           c == Len(Chunk(space))
           l == Len(a)
<1>0. /\ b \in Nat /\ c \in 1..space /\ l = b + c
      /\ \A j \in 1..c : a[b + j] = Chunk(space)[j]
  <2>1. Len(buf) \in Nat
    BY DEF TalkInv, TalkTypes, TypeOK
  <2> QED
    BY <2>1, ReadTakes
<1>1. c \in Nat /\ l \in Nat
  BY <1>0
<1>2. i \in 1..(c - 1) /\ Chunk(space)[i].part = "half" /\ Chunk(space)[i + 1].part = "end"
  BY DEF Ends
<1>3. /\ i \in 1..c /\ i + 1 \in 1..c /\ e + 1 = b + (i + 1)
      /\ e \in 1..l /\ e + 1 \in 1..l /\ e \in Nat
  <2>1. e = b + i
    BY DEF b
  <2>2. b \in Nat /\ l = b + c /\ i \in 1..(c - 1)
    BY <1>0, <1>2
  <2> HIDE DEF a, b, c, l
  <2>3. i \in Nat /\ i >= 1 /\ i + 1 <= c
    BY <1>1, <2>2
  <2> QED
    BY <1>1, <2>1, <2>2, <2>3
<1>4. a[e].part = "half" /\ a[e + 1].part = "end"
  BY <1>0, <1>2, <1>3
<1>5. /\ a[e] \in Text /\ Place(a[e]) = Base + e
      /\ a[e + 1] \in Text /\ Place(a[e + 1]) = Base + (e + 1)
  BY <1>3, ArrivedIsBegun
<1> HIDE DEF a, l
<1> DEFINE m == a[e].n
           n == a[e + 1].n
<1>6. /\ m \in Nat /\ 3 * m - 1 = Base + e
      /\ n \in Nat /\ 3 * n = Base + (e + 1)
  BY <1>4, <1>5, PlaceTells
<1>7. Base \in Int
  BY CountTypes DEF TalkInv
<1> HIDE DEF m, n
<1>8. m = n /\ 3 * m = Base + e + 1
  BY <1>3, <1>6, <1>7
<1>9. e >= 1 /\ e + 1 <= Len(a)
  BY <1>1, <1>3 DEF l, a
<1> QED
  BY <1>3, <1>4, <1>8, <1>9 DEF a, m, n

\* When a peer that waits has sent the end of a message, the text is that message.
LEMMA WaitingPeerSentOne ==
    ASSUME TalkInv, ~IsEcho, ~piped, NEW space \in Nat, Read(space),
           NEW i \in Ends(Chunk(space))
    PROVE  /\ Len(buf) + i = 2 /\ Len(Arrived(space)) = 3
           /\ Arrived(space)[1] = [n |-> Len(messages), part |-> "text"]
           /\ Arrived(space)[2].n = Len(messages)
           /\ Len(messages) = Len(answers) + 1
           /\ Base = 3 * Len(answers)
<1> DEFINE a == Arrived(space)
           e == Len(buf) + i
<1>1. /\ e \in Nat /\ e >= 1 /\ e + 1 <= Len(a)
      /\ 3 * a[e].n = Base + e + 1
  BY EndArrives
<1>2. /\ Receives /\ Len(a) \in Nat /\ Base + Len(a) <= Sent
  <2>1. a \in Seq(Text) /\ Receives /\ Base + Len(a) <= Sent
    BY ReadTakes
  <2> QED
    BY <2>1
<1>3. /\ Len(messages) \in {Len(answers), Len(answers) + 1}
      /\ Base = 3 * Len(answers)
  BY <1>2 DEF TalkInv, AnsweredInStep
<1>4. Len(answers) \in Nat /\ Sent \in Int /\ Sent <= 3 * Len(messages)
      /\ Len(messages) \in Nat
  BY CountTypes DEF TalkInv
<1>5. 1 \in 1..Len(a) /\ e \in 1..Len(a)
  BY <1>1, <1>2
<1>6. /\ a[1] \in Text /\ Place(a[1]) = Base + 1
      /\ a[1].n \in 1..Len(messages) /\ a[e].n \in 1..Len(messages)
  BY <1>5, ArrivedIsBegun
<1> HIDE DEF a, e
<1> DEFINE l == Len(answers)
           m == Len(messages)
           n == a[e].n
           k == Len(a)
<1>7. /\ n \in 1..m /\ m \in {l, l + 1} /\ Base = 3 * l
      /\ 3 * n = Base + e + 1 /\ Base + k <= Sent /\ Sent <= 3 * m
  BY <1>1, <1>2, <1>3, <1>4, <1>6
<1>8. l \in Nat /\ m \in Nat /\ k \in Nat /\ Sent \in Int /\ e \in Nat /\ e >= 1 /\ e + 1 <= k
  BY <1>1, <1>2, <1>4
<1> HIDE DEF l, m, n, k
<1>9. e = 2 /\ k = 3 /\ m = l + 1 /\ n = m
  BY <1>7, <1>8
<1> DEFINE h == a[1].n
<1>10. /\ h \in Nat
       /\ a[1].part \in {"text", "half", "end"}
       /\ a[1].part = "text" => Place(a[1]) = 3 * h - 2
       /\ a[1].part = "half" => Place(a[1]) = 3 * h - 1
       /\ a[1].part = "end" => Place(a[1]) = 3 * h
       /\ a[1] = [n |-> h, part |-> a[1].part]
  BY <1>6, PlaceTells
<1> HIDE DEF h
<1>11. Place(a[1]) = 3 * l + 1
  BY <1>3, <1>6 DEF l
<1>12. a[1].part = "text" /\ h = l + 1
  BY <1>8, <1>10, <1>11
<1>13. a[1] = [n |-> m, part |-> "text"]
  BY <1>9, <1>10, <1>12
<1> QED
  BY <1>3, <1>9, <1>13 DEF a, e, l, m, n, k

\* A read that finds no end keeps all text.
LEMMA StoreKeeps ==
    ASSUME TalkInv, ~IsEcho, NEW space \in Nat, space = Size - 1 - Len(buf), Read(space),
           UNCHANGED <<program, port>>,
           buf' = Arrived(space), UNCHANGED <<conn, state, out, answers, objects>>,
           torn' \in BOOLEAN, torn => torn'
    PROVE  TalkInv'
<1> DEFINE a == Arrived(space)
           S == [n : 1..MaxMessages, good : BOOLEAN]
<1>1. a \in Seq(Text) /\ Len(a) \in Nat /\ Receives /\ UNCHANGED <<messages, part, eof, piped>>
  BY ReadTakes
<1>2. /\ TalkTypes /\ Size \in Nat /\ Len(buf) \in Nat /\ out \in Nat /\ objects \in Nat
      /\ answers \in Seq(S)
  BY ConnectionAssumption DEF TalkInv, TalkTypes, TypeOK
<1>3. buf' = SubSeq(a, 0 + 1, Len(a))
  <2> HIDE DEF a
  <2>1. SubSeq(a, 0 + 1, Len(a)) = a
    BY <1>1
  <2> QED
    BY <2>1 DEF a
<1>4. Answers(<<>>, 0)
  BY DEF Answers
<1>5. answers' = answers \o <<>>
  <2>1. answers \o <<>> = answers
    BY <1>2
  <2> QED
    BY <2>1
<1>6. conn' = "open" /\ state' = "RECV"
  BY <1>1 DEF Receives
<1>7. Len(buf) + space < Size /\ Len(buf) + space <= Size
  BY <1>2
<1>8. 0 \in 0..Len(a)
  BY <1>1
<1> HIDE DEF a
<1>9. /\ TalkTypes' /\ (~IsEcho => Len(buf) < Size)' /\ StartsEmpty' /\ TextIsRun'
      /\ AnswersInOrder' /\ AnswersAreBehind' /\ AnswersDeserved'
      /\ Base' = Base + 0
  BY <1>2, <1>3, <1>4, <1>5, <1>6, <1>7, <1>8, ReadKeeps DEF a
<1>10. Base' = Base
  BY <1>9, CountTypes DEF TalkInv
<1>11. AnsweredInStep' /\ BeginsWhole'
  BY <1>1, <1>10 DEF TalkInv, AnsweredInStep, BeginsWhole, IsEcho
<1> QED
  BY <1>9, <1>11 DEF TalkInv

\* One answer is a sequence of answers.
LEMMA OneAnswer ==
    ASSUME TalkInv, NEW n \in 1..MaxMessages, NEW good \in BOOLEAN, NEW d \in Nat,
           n <= Len(messages), Base < 3 * n, Receives' => 3 * n <= Base + d,
           (IF IsEcho THEN ~torn' ELSE ~piped) =>
               good = (IsHttp \/ IsProxy => Http!Good(n))
    PROVE  /\ Answers(<<[n |-> n, good |-> good]>>, d)
           /\ Append(answers, [n |-> n, good |-> good])
                = answers \o <<[n |-> n, good |-> good]>>
<1> DEFINE S == [n : 1..MaxMessages, good : BOOLEAN]
           r == [n |-> n, good |-> good]
           done == <<r>>
<1>1. r \in S /\ r.n = n /\ r.good = good
  OBVIOUS
<1>2. done \in Seq(S) /\ DOMAIN done = {1} /\ done[1] = r
  <2> HIDE DEF S, r
  <2> QED
    BY <1>1
<1>3. Answers(done, d)
  <2> HIDE DEF r, done
  <2>1. \A i, j \in DOMAIN done : i < j => done[i].n < done[j].n
    BY <1>2
  <2>2. \A i \in DOMAIN done : done[i].n = n /\ done[i].good = good
    BY <1>1, <1>2
  <2> QED
    BY <1>2, <2>1, <2>2 DEF Answers
<1>4. answers \in Seq(S)
  BY DEF TalkInv, TalkTypes, TypeOK
<1>5. Append(answers, r) = answers \o <<r>>
  <2> HIDE DEF S, r
  <2> QED
    BY <1>1, <1>4
<1> QED
  BY <1>3, <1>5

\* An end that has arrived is answered, as the message at the head of the text, which
\* is dropped as a whole unless the connection does not go on.
LEMMA HttpAnswerKeeps ==
    ASSUME TalkInv, ~IsEcho, NEW space \in Nat, space = Size - 1 - Len(buf), Read(space),
           UNCHANGED <<program, port>>, HasEnd(Chunk(space)),
           NEW good \in BOOLEAN,
           answers' = Append(answers, [n |-> Head(Arrived(space)).n, good |-> good]),
           Head(Arrived(space)).part = "text" =>
               good = (IsHttp \/ IsProxy => Http!Good(Head(Arrived(space)).n)),
           buf' = <<>> \/ (buf' = Arrived(space) /\ ~Receives'),
           conn' \in {"open", "undefined"}, state' \in {"RECV", "CLOSE"},
           out' \in Nat, objects' = objects, torn' \in BOOLEAN, torn => torn'
    PROVE  TalkInv'
<1> DEFINE a == Arrived(space)
           h == Head(a)
           n == h.n
           m == Len(messages)
<1>1. PICK i \in Ends(Chunk(space)) : TRUE
  BY DEF HasEnd
<1> DEFINE e == Len(buf) + i
<1>2. /\ e \in Nat /\ e >= 1 /\ e + 1 <= Len(a)
      /\ a[e].n = a[e + 1].n
      /\ 3 * a[e].n = Base + e + 1
  BY EndArrives
<1>3. a \in Seq(Text) /\ Receives /\ UNCHANGED <<messages, part, eof, piped>>
  BY ReadTakes
<1>4. Len(a) \in Nat
  BY <1>3
<1> HIDE DEF a, e
<1>5. 1 \in 1..Len(a) /\ e \in 1..Len(a)
  BY <1>2, <1>4
<1>6. h = a[1]
  BY <1>3, <1>5
<1>7. /\ h \in Text /\ Place(h) = Base + 1 /\ Base < 3 * n /\ n \in 1..m
      /\ a[e].n \in 1..m
  BY <1>5, <1>6, ArrivedIsBegun DEF a
<1> HIDE DEF h, n, m
<1>8. n \in Nat /\ 3 * n - 2 <= Place(h)
  BY <1>7, PlaceTells DEF n
<1>9. m \in Nat /\ m <= MaxMessages /\ MaxMessages \in Nat /\ Base \in Int
  BY CountTypes DEF TalkInv, m
<1>10. n \in 1..MaxMessages /\ n <= m
  BY <1>7, <1>9
<1>11. 3 * n <= Base + Len(a)
  <2> DEFINE l == a[e].n
  <2>1. l \in Nat /\ 3 * l = Base + e + 1
    BY <1>2, <1>7, <1>9
  <2> HIDE DEF l
  <2>2. n <= l
    BY <1>2, <1>7, <1>8, <1>9, <2>1
  <2> QED
    BY <1>2, <1>4, <1>8, <1>9, <2>1, <2>2
<1>12. ~piped => good = (IsHttp \/ IsProxy => Http!Good(n))
  <2> SUFFICES ASSUME ~piped PROVE good = (IsHttp \/ IsProxy => Http!Good(n))
    OBVIOUS
  <2>1. a[1] = [n |-> Len(messages), part |-> "text"]
    BY WaitingPeerSentOne DEF a
  <2>2. h.part = "text"
    BY <1>6, <2>1
  <2> QED
    BY <2>2 DEF h, n, a
<1> DEFINE done == <<[n |-> n, good |-> good]>>
<1>13. \E d \in 0..Len(a) :
          /\ buf' = SubSeq(a, d + 1, Len(a))
          /\ Receives' => d = Len(a)
  <2>1. CASE buf' = <<>>
    <3>1. SubSeq(a, Len(a) + 1, Len(a)) = <<>>
      BY <1>3
    <3>2. Len(a) \in 0..Len(a)
      BY <1>4
    <3> QED
      BY <2>1, <3>1, <3>2
  <2>2. CASE buf' = a /\ ~Receives'
    <3>1. SubSeq(a, 0 + 1, Len(a)) = a
      BY <1>3
    <3>2. 0 \in 0..Len(a)
      BY <1>4
    <3> QED
      BY <2>2, <3>1, <3>2
  <2> QED
    BY <2>1, <2>2 DEF a
<1>14. PICK d \in 0..Len(a) : buf' = SubSeq(a, d + 1, Len(a)) /\ (Receives' => d = Len(a))
  BY <1>13
<1>15. d \in Nat /\ (Receives' => 3 * n <= Base + d)
  BY <1>4, <1>11, <1>14
<1>16. Answers(done, d) /\ Append(answers, [n |-> n, good |-> good]) = answers \o done
  BY <1>7, <1>10, <1>12, <1>15, OneAnswer DEF m
<1>17. answers' = answers \o done
  BY <1>16 DEF n, h, a
<1>18. Len(buf) + space <= Size /\ Len(buf) + space < Size
  <2>1. Len(buf) \in Nat /\ Size \in Nat
    BY ConnectionAssumption DEF TalkInv, TalkTypes, TypeOK
  <2> QED
    BY <2>1
<1>19. objects' \in Nat
  BY DEF TalkInv, TalkTypes, TypeOK
<1>20. /\ TalkTypes' /\ (~IsEcho => Len(buf) < Size)' /\ StartsEmpty' /\ TextIsRun'
       /\ AnswersInOrder' /\ AnswersAreBehind' /\ AnswersDeserved'
       /\ Base' = Base + d
  <2> HIDE DEF done
  <2> QED
    BY <1>14, <1>16, <1>17, <1>18, <1>19, ReadKeeps DEF a
<1>21. AnsweredInStep'
  <2> SUFFICES ASSUME Receives', ~piped
               PROVE  /\ Len(messages) \in {Len(answers'), Len(answers') + 1}
                      /\ Base' = 3 * Len(answers')
    BY <1>3 DEF AnsweredInStep, IsEcho
  <2>1. Len(a) = 3 /\ Len(messages) = Len(answers) + 1 /\ Base = 3 * Len(answers)
    BY WaitingPeerSentOne DEF a
  <2>2. d = 3
    BY <1>14, <2>1
  <2>3. answers \in Seq([n : 1..MaxMessages, good : BOOLEAN])
    BY DEF TalkInv, TalkTypes, TypeOK
  <2>4. Len(answers) \in Nat
    BY <2>3
  <2>5. Len(Append(answers, [n |-> n, good |-> good])) = Len(answers) + 1
    BY <2>3
  <2>6. Len(answers') = Len(answers) + 1
    BY <2>5 DEF n, h, a
  <2> QED
    BY <1>20, <2>1, <2>2, <2>4, <2>6
<1>22. BeginsWhole'
  BY DEF BeginsWhole, IsEcho
<1> QED
  BY <1>20, <1>21, <1>22 DEF TalkInv

\* The callbacks of multi_server_http.i.
LEMMA HttpTalk ==
    ASSUME TalkInv, IsHttp, Http!HttpNext, UNCHANGED <<program, port>>
    PROVE  TalkInv'
<1>0. ~IsEcho /\ out \in Nat /\ objects \in Nat
  BY DEF IsHttp, IsEcho, TalkInv, TalkTypes, TypeOK
<1>1. CASE Http!http_accept
  <2>1. QuietStep
    BY <1>0, <1>1 DEF Http!http_accept, Http!Accept, Http!Written, Http!peerVars, QuietStep
  <2> QED
    BY <2>1, QuietStepKeeps
<1>2. CASE Http!proxy_accept
  BY <1>2 DEF Http!proxy_accept
<1>3. CASE Http!Peer(Http!Kinds)
  <2>1. Peer(Http!Kinds)
    BY <1>3 DEF Http!Peer, Http!BeginMessage, Http!ContinueMessage, Http!PeerCloses,
                Http!conVars, Http!Parts, Peer, BeginMessage, ContinueMessage, PeerCloses,
                conVars, Parts
  <2> QED
    BY <2>1, PeerKeeps
<1>4. CASE Http!v_http_con_recv
  <2> DEFINE space == Size - 1 - Len(buf)
             a == Arrived(space)
             n == Head(a).n
  <2>1. space \in Nat
    BY <1>0, ConnectionAssumption DEF TalkInv, TalkTypes, TypeOK
  <2>2. Http!ToRecv = space /\ Http!Chunk(Http!ToRecv) = Chunk(space)
    BY DEF Http!ToRecv, Http!Chunk, Chunk, Http!Min, Min
  <2>3. Read(space)
    BY <1>4, <2>2 DEF Http!v_http_con_recv, Http!Read, Http!Polled, Read, Polled
  <2>4. torn' = (torn \/ Http!Tears(Chunk(space))) /\ objects' = objects
    BY <1>4, <2>2 DEF Http!v_http_con_recv
  <2>5. torn' \in BOOLEAN /\ (torn => torn')
    BY <2>4
  <2>6. buf \o Http!Chunk(Http!ToRecv) = a
    BY <2>2 DEF Arrived
  <2>7. Http!HasEnd(Chunk(space)) <=> HasEnd(Chunk(space))
    BY DEF Http!HasEnd, Http!Ends, HasEnd, Ends
  <2>8. conn = "open" /\ state = "RECV"
    BY <2>3 DEF Read, Polled
  <2> HIDE DEF space
  <2>9. space = Size - 1 - Len(buf)
    BY DEF space
  <2>10. CASE ~HasEnd(Chunk(space))
    <3>1. buf' = a /\ UNCHANGED <<conn, state, out, answers>>
      BY <1>4, <2>2, <2>6, <2>7, <2>10 DEF Http!v_http_con_recv, Http!Stored
    <3> QED
      BY <1>0, <2>1, <2>3, <2>4, <2>5, <2>9, <3>1, StoreKeeps
  <2>11. CASE HasEnd(Chunk(space))
    <3>1. Http!Parse(a)
      BY <1>4, <2>2, <2>6, <2>7, <2>11 DEF Http!v_http_con_recv
    <3> HIDE DEF a
    <3>2. \E writes \in 1..2, map \in {"NULL", "keeps", "ends"} \cup {params},
             good \in BOOLEAN :
             /\ Http!Respond(writes, map, [n |-> n, good |-> good], a)
             /\ Head(a).part = "text" => good = Http!Good(n)
      <4>1. CASE Head(a).part # "text" \/ messages[n] = "badline"
        <5>1. Http!Respond(1, params, [n |-> n, good |-> FALSE], a)
          BY <3>1, <4>1 DEF Http!Parse
        <5>2. Head(a).part = "text" => FALSE = Http!Good(n)
          BY <4>1 DEF Http!Good
        <5>3. 1 \in 1..2 /\ params \in {"NULL", "keeps", "ends"} \cup {params}
              /\ FALSE \in BOOLEAN
          OBVIOUS
        <5> QED
          BY <5>1, <5>2, <5>3, Zenon
      <4>2. CASE ~(Head(a).part # "text" \/ messages[n] = "badline")
        <5>1. params' \in Http!ConnectionHeader(messages[n])
          BY <3>1, <4>2 DEF Http!Parse
        <5>2. params' \in {"keeps", "ends"}
          BY <5>1 DEF Http!ConnectionHeader
        <5>3. \E writes \in 1..2 :
                 Http!Respond(writes, params', [n |-> n, good |-> Http!Good(n)], a)
          BY <3>1, <4>2 DEF Http!Parse
        <5>4. Http!Good(n) \in BOOLEAN
          BY DEF Http!Good
        <5> QED
          BY <5>2, <5>3, <5>4
      <4> QED
        BY <4>1, <4>2
    <3>3. PICK writes \in 1..2, map \in {"NULL", "keeps", "ends"} \cup {params},
               good \in BOOLEAN :
             /\ Http!Respond(writes, map, [n |-> n, good |-> good], a)
             /\ Head(a).part = "text" => good = Http!Good(n)
      BY <3>2
    <3>4. out' \in Nat
      <4>1. out' \in Http!Written(out, writes)
        BY <3>3 DEF Http!Respond
      <4>2. writes \in Nat
        BY <3>3
      <4> QED
        BY <1>0, <4>1, <4>2 DEF Http!Written
    <3>5. answers' = Append(answers, [n |-> n, good |-> good])
      BY <3>3 DEF Http!Respond
    <3>6. /\ conn' \in {"open", "undefined"} /\ state' \in {"RECV", "CLOSE"}
          /\ buf' = <<>> \/ (buf' = a /\ ~Receives')
      BY <2>8, <3>3 DEF Http!Respond, Http!http_end, Receives
    <3>7. Head(a).part = "text" => good = (IsHttp \/ IsProxy => Http!Good(n))
      BY <3>3
    <3> HIDE DEF n
    <3>8. answers' = Append(answers, [n |-> Head(Arrived(space)).n, good |-> good])
      BY <3>5 DEF n, a
    <3>9. Head(Arrived(space)).part = "text" =>
              good = (IsHttp \/ IsProxy => Http!Good(Head(Arrived(space)).n))
      BY <3>7 DEF n, a
    <3>10. buf' = <<>> \/ (buf' = Arrived(space) /\ ~Receives')
      BY <3>6 DEF a
    <3> QED
      BY <1>0, <2>1, <2>3, <2>4, <2>5, <2>9, <2>11, <3>3, <3>4, <3>6, <3>8, <3>9, <3>10,
         HttpAnswerKeeps
  <2> QED
    BY <2>10, <2>11
<1>5. CASE Http!RecvEnds(Http!ToRecv) /\ Http!v_http_con_close
  <2>1. QuietStep
    BY <1>0, <1>5 DEF Http!RecvEnds, Http!Close, Http!peerVars, QuietStep
  <2> QED
    BY <2>1, QuietStepKeeps
<1>6. CASE Http!RecvFails
  <2>1. QuietStep
    BY <1>0, <1>6 DEF Http!RecvFails, Http!Close, Http!peerVars, QuietStep
  <2> QED
    BY <2>1, QuietStepKeeps
<1>7. CASE Http!SendQueued(Http!v_http_con_all_sent)
  <2>1. /\ conn = "open" /\ out' \in 0..(out - 1)
        /\ UNCHANGED <<state, buf, answers, torn, input, messages, part, eof, piped>>
    BY <1>7 DEF Http!SendQueued, Http!peerVars
  <2>2. UNCHANGED <<conn, objects>> \/ (conn' \in {"freed", "undefined"} /\ objects' = 0)
    BY <1>7 DEF Http!SendQueued, Http!v_http_con_all_sent, Http!FreeInEvent
  <2>3. QuietStep
    BY <1>0, <2>1, <2>2 DEF QuietStep
  <2> QED
    BY <2>3, QuietStepKeeps
<1>8. CASE Http!SendFails
  <2>1. QuietStep
    BY <1>0, <1>8 DEF Http!SendFails, Http!Close, Http!peerVars, QuietStep
  <2> QED
    BY <2>1, QuietStepKeeps
<1> QED
  BY <1>1, <1>2, <1>3, <1>4, <1>5, <1>6, <1>7, <1>8 DEF Http!HttpNext, Http!HttpRecv

\* The callbacks of rpxys.c.
LEMMA ProxyTalk ==
    ASSUME TalkInv, IsProxy, Proxy!HttpNext, UNCHANGED <<program, port>>
    PROVE  TalkInv'
<1>0. ~IsEcho /\ out \in Nat /\ objects \in Nat
  BY DEF IsProxy, IsEcho, TalkInv, TalkTypes, TypeOK
<1>1. CASE Proxy!http_accept
  BY <1>1 DEF Proxy!http_accept
<1>2. CASE Proxy!proxy_accept
  <2>1. QuietStep
    BY <1>0, <1>2 DEF Proxy!proxy_accept, Proxy!Accept, Proxy!Written, Proxy!peerVars,
                      QuietStep
  <2> QED
    BY <2>1, QuietStepKeeps
<1>3. CASE Proxy!Peer(Proxy!Kinds)
  <2>1. Peer(Http!Kinds)
    BY <1>3 DEF Proxy!Peer, Proxy!BeginMessage, Proxy!ContinueMessage, Proxy!PeerCloses,
                Proxy!conVars, Proxy!Parts, Proxy!Kinds, Http!Kinds, Peer, BeginMessage,
                ContinueMessage, PeerCloses,
                conVars, Parts
  <2> QED
    BY <2>1, PeerKeeps
<1>4. CASE Proxy!v_http_con_recv
  <2> DEFINE space == Size - 1 - Len(buf)
             a == Arrived(space)
             n == Head(a).n
  <2>1. space \in Nat
    BY <1>0, ConnectionAssumption DEF TalkInv, TalkTypes, TypeOK
  <2>2. Proxy!ToRecv = space /\ Proxy!Chunk(Proxy!ToRecv) = Chunk(space)
    BY DEF Proxy!ToRecv, Proxy!Chunk, Chunk, Proxy!Min, Min
  <2>3. Read(space)
    BY <1>4, <2>2 DEF Proxy!v_http_con_recv, Proxy!Read, Proxy!Polled, Read, Polled
  <2>4. torn' = (torn \/ Proxy!Tears(Chunk(space))) /\ objects' = objects
    BY <1>4, <2>2 DEF Proxy!v_http_con_recv
  <2>5. torn' \in BOOLEAN /\ (torn => torn')
    BY <2>4
  <2>6. buf \o Proxy!Chunk(Proxy!ToRecv) = a
    BY <2>2 DEF Arrived
  <2>7. Proxy!HasEnd(Chunk(space)) <=> HasEnd(Chunk(space))
    BY DEF Proxy!HasEnd, Proxy!Ends, HasEnd, Ends
  <2>8. conn = "open" /\ state = "RECV"
    BY <2>3 DEF Read, Polled
  <2> HIDE DEF space
  <2>9. space = Size - 1 - Len(buf)
    BY DEF space
  <2>10. CASE ~HasEnd(Chunk(space))
    <3>1. buf' = a /\ UNCHANGED <<conn, state, out, answers>>
      BY <1>4, <2>2, <2>6, <2>7, <2>10 DEF Proxy!v_http_con_recv, Proxy!Stored
    <3> QED
      BY <1>0, <2>1, <2>3, <2>4, <2>5, <2>9, <3>1, StoreKeeps
  <2>11. CASE HasEnd(Chunk(space))
    <3>1. Proxy!Parse(a)
      BY <1>4, <2>2, <2>6, <2>7, <2>11 DEF Proxy!v_http_con_recv
    <3> HIDE DEF a
    <3>2. \E writes \in 1..2, map \in {"NULL", "keeps", "ends"} \cup {params},
             good \in BOOLEAN :
             /\ Proxy!Respond(writes, map, [n |-> n, good |-> good], a)
             /\ Head(a).part = "text" => good = Proxy!Good(n)
      <4>1. CASE Head(a).part # "text" \/ messages[n] = "badline"
        <5>1. Proxy!Respond(1, params, [n |-> n, good |-> FALSE], a)
          BY <3>1, <4>1 DEF Proxy!Parse
        <5>2. Head(a).part = "text" => FALSE = Proxy!Good(n)
          BY <4>1 DEF Proxy!Good
        <5>3. 1 \in 1..2 /\ params \in {"NULL", "keeps", "ends"} \cup {params}
              /\ FALSE \in BOOLEAN
          OBVIOUS
        <5> QED
          BY <5>1, <5>2, <5>3, Zenon
      <4>2. CASE ~(Head(a).part # "text" \/ messages[n] = "badline")
        <5>1. params' \in Proxy!ConnectionHeader(messages[n])
          BY <3>1, <4>2 DEF Proxy!Parse
        <5>2. params' \in {"keeps", "ends"}
          BY <5>1 DEF Proxy!ConnectionHeader
        <5>3. \E writes \in 1..2 :
                 Proxy!Respond(writes, params', [n |-> n, good |-> Proxy!Good(n)], a)
          BY <3>1, <4>2 DEF Proxy!Parse
        <5>4. Proxy!Good(n) \in BOOLEAN
          BY DEF Proxy!Good
        <5> QED
          BY <5>2, <5>3, <5>4
      <4> QED
        BY <4>1, <4>2
    <3>3. PICK writes \in 1..2, map \in {"NULL", "keeps", "ends"} \cup {params},
               good \in BOOLEAN :
             /\ Proxy!Respond(writes, map, [n |-> n, good |-> good], a)
             /\ Head(a).part = "text" => good = Proxy!Good(n)
      BY <3>2
    <3>4. out' \in Nat
      <4>1. out' \in Proxy!Written(out, writes)
        BY <3>3 DEF Proxy!Respond
      <4>2. writes \in Nat
        BY <3>3
      <4> QED
        BY <1>0, <4>1, <4>2 DEF Proxy!Written
    <3>5. answers' = Append(answers, [n |-> n, good |-> good])
      BY <3>3 DEF Proxy!Respond
    <3>6. /\ conn' \in {"open", "undefined"} /\ state' \in {"RECV", "CLOSE"}
          /\ buf' = <<>> \/ (buf' = a /\ ~Receives')
      BY <2>8, <3>3 DEF Proxy!Respond, Proxy!proxy_end, Receives
    <3>7. Head(a).part = "text" => good = (IsHttp \/ IsProxy => Http!Good(n))
      BY <3>3 DEF Proxy!Good, Http!Good
    <3> HIDE DEF n
    <3>8. answers' = Append(answers, [n |-> Head(Arrived(space)).n, good |-> good])
      BY <3>5 DEF n, a
    <3>9. Head(Arrived(space)).part = "text" =>
              good = (IsHttp \/ IsProxy => Http!Good(Head(Arrived(space)).n))
      BY <3>7 DEF n, a
    <3>10. buf' = <<>> \/ (buf' = Arrived(space) /\ ~Receives')
      BY <3>6 DEF a
    <3> QED
      BY <1>0, <2>1, <2>3, <2>4, <2>5, <2>9, <2>11, <3>3, <3>4, <3>6, <3>8, <3>9, <3>10,
         HttpAnswerKeeps
  <2> QED
    BY <2>10, <2>11
<1>5. CASE Proxy!RecvEnds(Proxy!ToRecv) /\ Proxy!v_http_con_close
  <2>1. QuietStep
    BY <1>0, <1>5 DEF Proxy!RecvEnds, Proxy!Close, Proxy!peerVars, QuietStep
  <2> QED
    BY <2>1, QuietStepKeeps
<1>6. CASE Proxy!RecvFails
  <2>1. QuietStep
    BY <1>0, <1>6 DEF Proxy!RecvFails, Proxy!Close, Proxy!peerVars, QuietStep
  <2> QED
    BY <2>1, QuietStepKeeps
<1>7. CASE Proxy!SendQueued(Proxy!v_http_con_all_sent)
  <2>1. /\ conn = "open" /\ out' \in 0..(out - 1)
        /\ UNCHANGED <<state, buf, answers, torn, input, messages, part, eof, piped>>
    BY <1>7 DEF Proxy!SendQueued, Proxy!peerVars
  <2>2. UNCHANGED <<conn, objects>> \/ (conn' \in {"freed", "undefined"} /\ objects' = 0)
    BY <1>7 DEF Proxy!SendQueued, Proxy!v_http_con_all_sent, Proxy!FreeInEvent
  <2>3. QuietStep
    BY <1>0, <2>1, <2>2 DEF QuietStep
  <2> QED
    BY <2>3, QuietStepKeeps
<1>8. CASE Proxy!SendFails
  <2>1. QuietStep
    BY <1>0, <1>8 DEF Proxy!SendFails, Proxy!Close, Proxy!peerVars, QuietStep
  <2> QED
    BY <2>1, QuietStepKeeps
<1> QED
  BY <1>1, <1>2, <1>3, <1>4, <1>5, <1>6, <1>7, <1>8 DEF Proxy!HttpNext, Proxy!HttpRecv

\* The callbacks of multi_server_port.i.
LEMMA PortTalk ==
    ASSUME TalkInv, IsPort, Port!PortNext, UNCHANGED <<program, port>>
    PROVE  TalkInv'
<1>0. ~IsEcho /\ ~IsHttp /\ ~IsProxy /\ out \in Nat /\ objects \in Nat
  BY DEF IsPort, IsHttp, IsProxy, IsEcho, TalkInv, TalkTypes, TypeOK
<1>1. CASE Port!port_accept
  <2>1. QuietStep
    BY <1>0, <1>1 DEF Port!port_accept, Port!Accept, Port!Written, Port!peerVars, QuietStep
  <2> QED
    BY <2>1, QuietStepKeeps
<1>2. CASE Port!Peer(Port!Kinds)
  <2>1. Peer(Port!Kinds)
    BY <1>2 DEF Port!Peer, Port!BeginMessage, Port!ContinueMessage, Port!PeerCloses,
                Port!conVars, Port!Parts, Peer, BeginMessage, ContinueMessage, PeerCloses,
                conVars, Parts
  <2> QED
    BY <2>1, PeerKeeps
<1>3. CASE Port!v_port_con_recv
  <2> DEFINE space == Size - 1 - Len(buf)
             a == Arrived(space)
  <2>1. space \in Nat
    BY <1>0, ConnectionAssumption DEF TalkInv, TalkTypes, TypeOK
  <2>2. Port!Chunk(space) = Chunk(space)
    BY DEF Port!Chunk, Chunk, Port!Min, Min
  <2>3. Read(space)
    BY <1>3, <2>2 DEF Port!v_port_con_recv, Port!Read, Port!Polled, Read, Polled
  <2>4. torn' = (torn \/ Port!Tears(Chunk(space))) /\ UNCHANGED <<conn, objects>>
    BY <1>3, <2>2 DEF Port!v_port_con_recv
  <2>5. torn' \in BOOLEAN /\ (torn => torn')
    BY <2>4
  <2>6. buf \o Port!Chunk(space) = a
    BY <2>2 DEF Arrived
  <2>7. (Port!HasEnd(Chunk(space)) <=> HasEnd(Chunk(space)))
        /\ Port!Ends(Chunk(space)) = Ends(Chunk(space))
    BY DEF Port!HasEnd, Port!Ends, HasEnd, Ends
  <2>8. conn = "open" /\ state = "RECV" /\ conn' = "open"
    BY <2>3, <2>4 DEF Read, Polled
  <2>9. CASE ~HasEnd(Chunk(space))
    <3>1. buf' = a /\ UNCHANGED <<state, out, answers>>
      BY <1>3, <2>2, <2>6, <2>7, <2>9 DEF Port!v_port_con_recv
    <3> QED
      BY <1>0, <2>1, <2>3, <2>4, <2>5, <3>1, StoreKeeps
  <2>10. CASE HasEnd(Chunk(space))
    <3> DEFINE i == Port!NextAt(Chunk(space))
               e == Len(buf) + i
    <3>1. Port!port_con_process_request(a, e)
      BY <1>3, <2>2, <2>6, <2>7, <2>10 DEF Port!v_port_con_recv
    <3> HIDE DEF space
    <3>2. i \in Ends(Chunk(space))
      <4> DEFINE E == Ends(Chunk(space))
      <4>1. Chunk(space) \in Seq(Text)
        BY <2>1, <2>3, ReadTakes
      <4>2. Len(Chunk(space)) \in Nat
        BY <4>1
      <4>3. E \in SUBSET Nat
        BY <4>2 DEF Ends
      <4>4. E # {}
        BY <2>10 DEF HasEnd
      <4> HIDE DEF E
      <4>5. \E x \in E : \A y \in E : x <= y
        BY <4>3, <4>4, SmallestExists
      <4>6. Min(E) \in E
        BY <4>5 DEF Min
      <4>7. i = Port!Min(E)
        BY <2>7 DEF Port!NextAt, E
      <4> QED
        BY <4>6, <4>7 DEF Port!Min, Min, E
    <3> HIDE DEF a, i
    <3> DEFINE n == a[e].n
               good == SubSeq(a, 1, e - 1) = <<[n |-> n, part |-> "text"]>>
               done == <<[n |-> n, good |-> good]>>
               d == e + 1
    <3>3. /\ e \in Nat /\ e >= 1 /\ e + 1 <= Len(a)
          /\ 3 * n = Base + e + 1
      BY <2>1, <2>3, <3>2, EndArrives DEF a
    <3>4. /\ out' \in Port!Written(out, 1)
          /\ answers' = Append(answers, [n |-> n, good |-> good])
          /\ state' = IF good /\ messages[n] = "quit" THEN "CLOSE" ELSE state
          /\ buf' = SubSeq(a, e + 2, Len(a))
      BY <3>1 DEF Port!port_con_process_request
    <3>5. a \in Seq(Text) /\ UNCHANGED <<messages, part, eof, piped>>
      BY <2>1, <2>3, ReadTakes DEF a
    <3>6. Len(a) \in Nat
      BY <3>5
    <3>7. e \in 1..Len(a)
      <4> HIDE DEF e
      <4> QED
        BY <3>3, <3>6
    <3>8. n \in 1..Len(messages) /\ Base < 3 * n
      BY <2>1, <2>3, <3>7, ArrivedIsBegun DEF a
    <3>9. /\ Len(messages) \in Nat /\ Len(messages) <= MaxMessages /\ MaxMessages \in Nat
          /\ Base \in Int /\ Len(buf) \in Nat
      BY CountTypes DEF TalkInv
    <3>10. n \in 1..MaxMessages /\ n <= Len(messages)
      <4> HIDE DEF n
      <4> QED
        BY <3>8, <3>9
    <3>11. d \in Nat /\ d \in 0..Len(a) /\ 3 * n <= Base + d
      <4> HIDE DEF n, e
      <4> QED
        BY <3>3, <3>6, <3>8, <3>9
    <3>12. ~piped => good
      <4> SUFFICES ASSUME ~piped PROVE good
        OBVIOUS
      <4>1. /\ e = 2 /\ a[1] = [n |-> Len(messages), part |-> "text"]
            /\ a[2].n = Len(messages) /\ Len(a) = 3
        BY <1>0, <2>1, <2>3, <3>2, WaitingPeerSentOne DEF a
      <4>2. SubSeq(a, 1, 1) = <<a[1]>>
        <5>1. 1 \in 1..Len(a)
          BY <4>1
        <5> QED
          BY <3>5, <5>1, SubSeqOfOne
      <4> QED
        BY <4>1, <4>2
    <3>13. good \in BOOLEAN
      OBVIOUS
    <3> HIDE DEF n, e, good, d
    <3>14. /\ Answers(done, d)
           /\ Append(answers, [n |-> n, good |-> good]) = answers \o done
      <4>1. (IF IsEcho THEN ~torn' ELSE ~piped) =>
                good = (IsHttp \/ IsProxy => Http!Good(n))
        BY <1>0, <3>12, <3>13
      <4> QED
        BY <3>8, <3>10, <3>11, <3>13, <4>1, OneAnswer
    <3>15. answers' = answers \o done
      BY <3>4, <3>14
    <3>16. buf' = SubSeq(a, d + 1, Len(a))
      <4>1. e + 2 = d + 1
        BY <3>3 DEF d
      <4> QED
        BY <3>4, <4>1
    <3>17. out' \in Nat /\ state' \in {"RECV", "CLOSE"} /\ objects' \in Nat
      BY <1>0, <2>4, <2>8, <3>4 DEF Port!Written
    <3>18. Len(buf) + space <= Size /\ Len(buf) + space < Size
      <4>1. Size \in Nat
        BY ConnectionAssumption
      <4> QED
        BY <3>9, <4>1 DEF space
    <3> HIDE DEF done
    <3>19. /\ TalkTypes' /\ (~IsEcho => Len(buf) < Size)' /\ StartsEmpty' /\ TextIsRun'
           /\ AnswersInOrder' /\ AnswersAreBehind' /\ AnswersDeserved'
           /\ Base' = Base + d
      BY <2>1, <2>3, <2>5, <2>8, <3>11, <3>14, <3>15, <3>16, <3>17, <3>18, ReadKeeps DEF a
    <3>20. AnsweredInStep'
      <4> SUFFICES ASSUME ~piped
                   PROVE  /\ Len(messages) \in {Len(answers'), Len(answers') + 1}
                          /\ Base' = 3 * Len(answers')
        BY <3>5 DEF AnsweredInStep
      <4>1. e = 2 /\ Len(messages) = Len(answers) + 1 /\ Base = 3 * Len(answers)
        BY <1>0, <2>1, <2>3, <3>2, WaitingPeerSentOne DEF a, e
      <4>2. d = 3
        BY <4>1 DEF d
      <4>3. answers \in Seq([n : 1..MaxMessages, good : BOOLEAN])
        BY DEF TalkInv, TalkTypes, TypeOK
      <4>4. Len(answers) \in Nat
        BY <4>3
      <4>5. Len(answers') = Len(answers) + 1
        BY <3>4, <4>3
      <4> QED
        BY <3>19, <4>1, <4>2, <4>4, <4>5
    <3>21. BeginsWhole'
      BY <1>0 DEF BeginsWhole, IsEcho
    <3> QED
      BY <3>19, <3>20, <3>21 DEF TalkInv
  <2> QED
    BY <2>9, <2>10
<1>4. CASE Port!RecvEnds(Size - 1 - Len(buf))
  <2>1. QuietStep
    BY <1>0, <1>4 DEF Port!RecvEnds, Port!Close, Port!peerVars, QuietStep
  <2> QED
    BY <2>1, QuietStepKeeps
<1>5. CASE Port!RecvFails
  <2>1. QuietStep
    BY <1>0, <1>5 DEF Port!RecvFails, Port!Close, Port!peerVars, QuietStep
  <2> QED
    BY <2>1, QuietStepKeeps
<1>6. CASE Port!SendQueued(Port!v_port_con_all_sent)
  <2>1. /\ conn = "open" /\ out' \in 0..(out - 1)
        /\ UNCHANGED <<state, buf, answers, torn, input, messages, part, eof, piped>>
    BY <1>6 DEF Port!SendQueued, Port!peerVars
  <2>2. UNCHANGED <<conn, objects>> \/ (conn' = "freed" /\ objects' = 0)
    BY <1>6 DEF Port!SendQueued, Port!v_port_con_all_sent, Port!Close
  <2>3. QuietStep
    BY <1>0, <2>1, <2>2 DEF QuietStep
  <2> QED
    BY <2>3, QuietStepKeeps
<1>7. CASE Port!SendFails
  <2>1. QuietStep
    BY <1>0, <1>7 DEF Port!SendFails, Port!Close, Port!peerVars, QuietStep
  <2> QED
    BY <2>1, QuietStepKeeps
<1> QED
  BY <1>1, <1>2, <1>3, <1>4, <1>5, <1>6, <1>7 DEF Port!PortNext, Port!PortRecv

-----------------------------------------------------------------------------
(* The commands of sock-echo *)

\* Every number of parts is so many whole messages and a rest.
LEMMA DivisionByThree ==
    ASSUME NEW b \in Nat
    PROVE  \E q \in Nat : 3 * q <= b /\ b < 3 * q + 3
<1>1. b \div 3 \in Nat /\ 3 * (b \div 3) <= b /\ b < 3 * (b \div 3) + 3
  OBVIOUS
<1> QED
  BY <1>1

\* The number of elements is the same in every module.
LEMMA CardinalityOfEcho ==
    ASSUME NEW S
    PROVE  Echo!Cardinality(S) = Cardinality(S)
  BY DEF Echo!Cardinality, Cardinality

\* The numbers 3 - r, 6 - r, ... are as many as they are told to be.
LEMMA CountByThrees ==
    ASSUME NEW m \in Nat, NEW r \in 0..2
    PROVE  Cardinality({3 * k - r : k \in 1..m}) = m
<1> DEFINE S == {3 * k - r : k \in 1..m}
           f == [k \in 1..m |-> 3 * k - r]
<1>1. f \in [1..m -> S]
  OBVIOUS
<1>2. \A x, y \in 1..m : f[x] = f[y] => x = y
  OBVIOUS
<1>3. \A s \in S : \E k \in 1..m : f[k] = s
  OBVIOUS
<1> HIDE DEF f, S
<1>4. f \in Bijection(1..m, S)
  BY <1>1, <1>2, <1>3 DEF Bijection, Injection, Surjection, IsInjective
<1>5. ExistsBijection(1..m, S)
  BY <1>4 DEF ExistsBijection
<1>6. Cardinality(S) = m
  BY <1>5, FS_CountingElements
<1> QED
  BY <1>6 DEF S

\* A run behind q messages and r parts of the next, which holds c ends of messages.
RunOfEnds(s, b, q, r, c) ==
    /\ s \in Seq(Text) /\ IsRun(s, b)
    /\ b \in Nat /\ q \in Nat /\ r \in 0..2 /\ b = 3 * q + r
    /\ c \in Nat /\ 3 * c <= Len(s) + r /\ Len(s) + r < 3 * c + 3

\* Every run has such numbers.
LEMMA RunHasEnds ==
    ASSUME NEW s \in Seq(Text), NEW b \in Nat, IsRun(s, b)
    PROVE  \E q \in Nat, r \in 0..2, c \in Nat : RunOfEnds(s, b, q, r, c)
<1>1. PICK q \in Nat : 3 * q <= b /\ b < 3 * q + 3
  BY DivisionByThree
<1>2. PICK r \in 0..2 : b = 3 * q + r
  <2>1. b - 3 * q \in 0..2 /\ b = 3 * q + (b - 3 * q)
    BY <1>1
  <2> QED
    BY <2>1
<1>3. Len(s) + r \in Nat
  OBVIOUS
<1>4. PICK c \in Nat : 3 * c <= Len(s) + r /\ Len(s) + r < 3 * c + 3
  BY <1>3, DivisionByThree
<1>5. RunOfEnds(s, b, q, r, c)
  BY <1>2, <1>4 DEF RunOfEnds
<1> QED
  BY <1>5

\* Every third part of a run is an LF: the k-th ends message q + k.
LEMMA LfsOfRun ==
    ASSUME NEW s, NEW b, NEW q, NEW r, NEW c, RunOfEnds(s, b, q, r, c)
    PROVE  /\ Echo!LfAt(s) = {3 * k - r : k \in 1..c}
           /\ \A k \in 1..c : 3 * k - r \in 1..Len(s) /\ s[3 * k - r].n = q + k
           /\ Echo!Cardinality(Echo!LfAt(s)) = c
           /\ \A k \in 1..c : Echo!Lf(s, k) = 3 * k - r
<1> DEFINE L == Len(s)
           at(k) == 3 * k - r
           lfs == Echo!LfAt(s)
<1>0. /\ s \in Seq(Text) /\ IsRun(s, b)
      /\ b \in Nat /\ q \in Nat /\ r \in 0..2 /\ b = 3 * q + r /\ c \in Nat
  BY DEF RunOfEnds
<1>1. L \in Nat /\ DOMAIN s = 1..L /\ \A i \in 1..L : s[i] \in Text
  BY <1>0, ElementOfSeq
<1>2. lfs = {i \in 1..L : s[i].part = "end"}
  BY <1>1 DEF Echo!LfAt
<1> HIDE DEF L, lfs
<1>3. \A i \in 1..L : Place(s[i]) = b + i
  BY <1>0 DEF IsRun, L
<1>4. 3 * c <= L + r /\ L + r < 3 * c + 3
  BY DEF RunOfEnds, L
<1>5. ASSUME NEW k \in 1..c
      PROVE  at(k) \in 1..L /\ s[at(k)].part = "end" /\ s[at(k)].n = q + k
  <2>1. at(k) \in 1..L
    BY <1>0, <1>1, <1>4
  <2> DEFINE t == s[at(k)]
             n == t.n
  <2>2. t \in Text /\ Place(t) = b + at(k)
    BY <1>1, <1>3, <2>1
  <2> HIDE DEF t
  <2>3. Place(t) = 3 * (q + k)
    BY <1>0, <2>2
  <2>4. /\ n \in Nat
        /\ t.part \in {"text", "half", "end"}
        /\ t.part = "text" => Place(t) = 3 * n - 2
        /\ t.part = "half" => Place(t) = 3 * n - 1
        /\ t.part = "end" => Place(t) = 3 * n
    BY <2>2, PlaceTells
  <2> HIDE DEF n
  <2>5. t.part = "end" /\ n = q + k
    BY <1>0, <2>3, <2>4
  <2> QED
    BY <2>1, <2>5 DEF t, n
<1>6. ASSUME NEW i \in lfs PROVE \E k \in 1..c : i = at(k)
  <2>1. i \in 1..L /\ s[i] \in Text /\ s[i].part = "end"
    BY <1>1, <1>2
  <2> DEFINE n == s[i].n
  <2>2. n \in Nat /\ 3 * n = b + i
    BY <1>3, <2>1, PlaceTells
  <2> HIDE DEF n
  <2>3. i \in Nat /\ i >= 1 /\ i <= L
    BY <1>1, <2>1
  <2>4. 3 * (n - q) = r + i /\ n - q \in Int
    BY <1>0, <2>2, <2>3
  <2>5. n - q >= 1 /\ n - q <= c
    BY <1>0, <1>1, <1>4, <2>3, <2>4
  <2>6. n - q \in 1..c /\ i = at(n - q)
    BY <1>0, <2>3, <2>4, <2>5
  <2> QED
    BY <2>6
<1>7. lfs = {at(k) : k \in 1..c}
  <2>1. \A k \in 1..c : at(k) \in lfs
    BY <1>2, <1>5
  <2> QED
    BY <1>6, <2>1
<1>8. Echo!Cardinality(lfs) = c
  <2>1. Cardinality({3 * k - r : k \in 1..c}) = c
    BY <1>0, CountByThrees
  <2> QED
    BY <1>7, <2>1, CardinalityOfEcho
<1>9. ASSUME NEW k \in 1..c PROVE Echo!Lf(s, k) = at(k)
  <2> DEFINE upto(i) == {j \in lfs : j <= i}
  <2>1. ASSUME NEW m \in 1..c PROVE Echo!Cardinality(upto(at(m))) = m
    <3>1. upto(at(m)) = {3 * j - r : j \in 1..m}
      BY <1>0, <1>7
    <3>2. m \in Nat
      BY <1>0
    <3>3. Cardinality({3 * j - r : j \in 1..m}) = m
      BY <1>0, <3>2, CountByThrees
    <3> HIDE DEF upto, at
    <3> QED
      BY <3>1, <3>3, CardinalityOfEcho
  <2>2. Echo!Lf(s, k) = CHOOSE i \in lfs : Echo!Cardinality(upto(i)) = k
    BY DEF Echo!Lf, lfs
  <2>3. at(k) \in lfs
    BY <1>7
  <2>4. \A i \in lfs : Echo!Cardinality(upto(i)) = k => i = at(k)
    <3> TAKE i \in lfs
    <3>1. PICK m \in 1..c : i = at(m)
      BY <1>6
    <3>2. Echo!Cardinality(upto(i)) = m
      BY <2>1, <3>1
    <3> HIDE DEF upto, at
    <3> QED
      BY <3>1, <3>2
  <2>5. Echo!Cardinality(upto(at(k))) = k
    BY <2>1
  <2> HIDE DEF upto, at
  <2> QED
    BY <2>2, <2>3, <2>4, <2>5
<1> QED
  BY <1>5, <1>7, <1>8, <1>9 DEF lfs, L

\* The text of a command that begins and ends whole is the text of its message.
LEMMA CmdOfWhole ==
    ASSUME NEW s \in Seq(Text), Len(s) = 2, s[1].part = "text", s[2].part = "half"
    PROVE  Echo!Cmd(s) = <<s[1]>>
<1>1. DOMAIN s = 1..2
  OBVIOUS
<1> DEFINE first(i) == s[i].part = "half" /\ \A j \in 1..(i - 1) : s[j].part # "half"
<1>2. \A i \in DOMAIN s : first(i) <=> i = 2
  BY <1>1
<1>3. 2 \in DOMAIN s
  BY <1>1
<1>4. (CHOOSE i \in DOMAIN s : first(i)) = 2
  <2> HIDE DEF first
  <2> QED
    BY <1>2, <1>3
<1>5. \E i \in DOMAIN s : s[i].part = "half"
  BY <1>3
<1>6. Echo!Cmd(s) = SubSeq(s, 1, (CHOOSE i \in DOMAIN s : first(i)) - 1)
  BY <1>5 DEF Echo!Cmd
<1>7. Echo!Cmd(s) = SubSeq(s, 1, 1)
  BY <1>4, <1>6
<1>8. 1 \in 1..Len(s)
  OBVIOUS
<1> QED
  BY <1>7, <1>8, SubSeqOfOne

\* The answers to the commands in what has arrived: one for each message that ends
\* there, from message q + 1 on, and the ones that are told whole are good.
LEMMA CommandsOfRun ==
    ASSUME NEW s, NEW b, NEW q, NEW r, NEW c, RunOfEnds(s, b, q, r, c),
           \A i \in 1..Len(s) : s[i].n \in 1..Len(messages),
           Len(messages) \in Nat, Len(messages) <= MaxMessages
    PROVE  /\ Echo!Commands(s) \in Seq([n : 1..MaxMessages, good : BOOLEAN])
           /\ Len(Echo!Commands(s)) = c
           /\ \A k \in 1..c :
                 /\ Echo!Commands(s)[k].n = q + k
                 /\ q + k \in 1..Len(messages)
                 /\ r = 0 => Echo!Commands(s)[k].good
<1> DEFINE all == Echo!Commands(s)
           at(k) == 3 * k - r
           from(k) == IF k = 1 THEN 1 ELSE at(k - 1) + 1
           good(k) == Echo!Cmd(SubSeq(s, from(k), at(k) - 1)) = <<[n |-> q + k, part |-> "text"]>>
           S == [n : 1..MaxMessages, good : BOOLEAN]
<1>0. /\ s \in Seq(Text) /\ IsRun(s, b)
      /\ b \in Nat /\ q \in Nat /\ r \in 0..2 /\ b = 3 * q + r /\ c \in Nat
  BY DEF RunOfEnds
<1>1. /\ \A k \in 1..c : at(k) \in 1..Len(s) /\ s[at(k)].n = q + k
      /\ Echo!Cardinality(Echo!LfAt(s)) = c
      /\ \A k \in 1..c : Echo!Lf(s, k) = at(k)
  BY LfsOfRun
<1>2. \A k \in 1..c : (IF k = 1 THEN 1 ELSE Echo!Lf(s, k - 1) + 1) = from(k)
  <2> TAKE k \in 1..c
  <2>1. CASE k = 1
    BY <2>1
  <2>2. CASE k # 1
    <3>1. k - 1 \in 1..c
      BY <1>0, <2>2
    <3>2. Echo!Lf(s, k - 1) = at(k - 1)
      BY <1>1, <3>1
    <3> QED
      BY <2>2, <3>2
  <2> QED
    BY <2>1, <2>2
<1>3. all = [k \in 1..c |->
                [n |-> s[Echo!Lf(s, k)].n,
                 good |-> Echo!Cmd(SubSeq(s, IF k = 1 THEN 1 ELSE Echo!Lf(s, k - 1) + 1,
                                             Echo!Lf(s, k) - 1))
                            = <<[n |-> s[Echo!Lf(s, k)].n, part |-> "text"]>>]]
  BY <1>1 DEF Echo!Commands
<1>4. DOMAIN all = 1..c
  BY <1>3
<1>5. ASSUME NEW k \in 1..c
      PROVE  all[k] = [n |-> q + k, good |-> good(k)]
  <2>1. all[k] = [n |-> s[Echo!Lf(s, k)].n,
                  good |-> Echo!Cmd(SubSeq(s, IF k = 1 THEN 1 ELSE Echo!Lf(s, k - 1) + 1,
                                              Echo!Lf(s, k) - 1))
                             = <<[n |-> s[Echo!Lf(s, k)].n, part |-> "text"]>>]
    BY <1>3, Zenon
  <2>2. /\ Echo!Lf(s, k) = at(k) /\ s[at(k)].n = q + k
        /\ (IF k = 1 THEN 1 ELSE Echo!Lf(s, k - 1) + 1) = from(k)
    BY <1>1, <1>2
  <2> HIDE DEF all, at, from
  <2> QED
    BY <2>1, <2>2, Zenon
<1>6. \A k \in 1..c : q + k \in 1..Len(messages)
  <2> TAKE k \in 1..c
  <2>1. at(k) \in 1..Len(s) /\ s[at(k)].n = q + k
    BY <1>1
  <2> HIDE DEF at
  <2> QED
    BY <2>1
<1>7. \A k \in 1..c : all[k] \in S
  <2> TAKE k \in 1..c
  <2> HIDE DEF all
  <2>1. q + k \in 1..MaxMessages
    <3> DEFINE M == Len(messages)
    <3>1. q + k \in 1..M /\ M \in Nat /\ M <= MaxMessages /\ MaxMessages \in Nat
      BY <1>6, ConnectionAssumption
    <3> HIDE DEF M
    <3> QED
      BY <3>1
  <2>2. good(k) \in BOOLEAN
    OBVIOUS
  <2>3. all[k] = [n |-> q + k, good |-> good(k)]
    BY <1>5
  <2> HIDE DEF good
  <2>4. [n |-> q + k, good |-> good(k)] \in S
    BY <2>1, <2>2
  <2> HIDE DEF S
  <2> QED
    BY <2>3, <2>4, Zenon
<1>8. all \in Seq(S) /\ Len(all) = c
  <2>1. all = [k \in 1..c |-> all[k]]
    BY <1>3
  <2> HIDE DEF all, S
  <2>2. all \in [1..c -> S]
    BY <1>7, <2>1
  <2>3. all \in Seq(S)
    BY <1>0, <2>2, SeqDef
  <2> QED
    BY <1>0, <1>4, <2>3
<1>9. ASSUME r = 0, NEW k \in 1..c PROVE good(k)
  <2> DEFINE i == 3 * k - 2
  <2>1. at(k) = 3 * k /\ at(k) \in 1..Len(s) /\ Len(s) \in Nat
    BY <1>0, <1>1, <1>9
  <2>2. i \in 1..Len(s) /\ i + 1 \in 1..Len(s) /\ i + 1 <= Len(s) /\ i + 1 = at(k) - 1
    BY <2>1
  <2>3. from(k) = i
    BY <1>0, <1>9
  <2> HIDE DEF i, at, from
  <2>4. /\ s[i] \in Text /\ Place(s[i]) = b + i
        /\ s[i + 1] \in Text /\ Place(s[i + 1]) = b + (i + 1)
    BY <1>0, <2>2, ElementOfSeq DEF IsRun
  <2>5. Place(s[i]) = 3 * (q + k) - 2 /\ Place(s[i + 1]) = 3 * (q + k) - 1
    BY <1>0, <1>9, <2>4 DEF i
  <2> DEFINE x == s[i]
             y == s[i + 1]
             m == x.n
             n == y.n
  <2>6. /\ m \in Nat
        /\ x.part \in {"text", "half", "end"}
        /\ x.part = "text" => Place(x) = 3 * m - 2
        /\ x.part = "half" => Place(x) = 3 * m - 1
        /\ x.part = "end" => Place(x) = 3 * m
        /\ x = [n |-> m, part |-> x.part]
    BY <2>4, PlaceTells
  <2>7. /\ n \in Nat
        /\ y.part \in {"text", "half", "end"}
        /\ y.part = "text" => Place(y) = 3 * n - 2
        /\ y.part = "half" => Place(y) = 3 * n - 1
        /\ y.part = "end" => Place(y) = 3 * n
    BY <2>4, PlaceTells
  <2>8. Place(x) = 3 * (q + k) - 2 /\ Place(y) = 3 * (q + k) - 1
    BY <2>5
  <2> HIDE DEF x, y, m, n
  <2>9. x.part = "text" /\ m = q + k /\ y.part = "half"
    <3> DEFINE p == q + k
               u == Place(x)
               v == Place(y)
    <3>1. p \in Nat /\ u = 3 * p - 2 /\ v = 3 * p - 1
      BY <1>0, <2>8
    <3>2. /\ x.part = "text" => u = 3 * m - 2
          /\ x.part = "half" => u = 3 * m - 1
          /\ x.part = "end" => u = 3 * m
          /\ y.part = "text" => v = 3 * n - 2
          /\ y.part = "half" => v = 3 * n - 1
          /\ y.part = "end" => v = 3 * n
      BY <2>6, <2>7
    <3> HIDE DEF p, u, v
    <3>3. m \in Nat /\ x.part \in {"text", "half", "end"}
      BY <2>6
    <3>4. n \in Nat /\ y.part \in {"text", "half", "end"}
      BY <2>7
    <3>5. x.part = "text" /\ m = p
      BY <3>1, <3>2, <3>3
    <3>6. y.part = "half"
      BY <3>1, <3>2, <3>4
    <3> QED
      BY <3>5, <3>6 DEF p
  <2>10. x = [n |-> q + k, part |-> "text"]
    BY <2>6, <2>9
  <2> DEFINE t == SubSeq(s, i, i + 1)
  <2>11. t \in Seq(Text) /\ Len(t) = 2 /\ t[1] = x /\ t[2] = y
    BY <1>0, <2>2, SubSeqOfTwo DEF x, y
  <2> HIDE DEF t
  <2>12. Echo!Cmd(t) = <<x>>
    BY <2>9, <2>11, CmdOfWhole
  <2>13. SubSeq(s, from(k), at(k) - 1) = t
    BY <2>2, <2>3 DEF t
  <2> QED
    BY <2>10, <2>12, <2>13
<1>10. ASSUME NEW k \in 1..c
       PROVE  all[k].n = q + k /\ (r = 0 => all[k].good)
  <2>1. all[k].n = q + k /\ all[k].good = good(k)
    <3>1. all[k] = [n |-> q + k, good |-> good(k)]
      BY <1>5
    <3>2. /\ [n |-> q + k, good |-> good(k)].n = q + k
          /\ [n |-> q + k, good |-> good(k)].good = good(k)
      OBVIOUS
    <3> HIDE DEF all, good
    <3> QED
      BY <3>1, <3>2, Zenon
  <2>2. r = 0 => good(k)
    BY <1>9
  <2> HIDE DEF good, all
  <2> QED
    BY <2>1, <2>2
<1> QED
  BY <1>6, <1>8, <1>10

\* The first commands of a sequence of answers, up to one that quits, or all.
FirstOf(all, quit) == IF quit = {} THEN all ELSE SubSeq(all, 1, Min(quit))

\* They are answered as they are.
LEMMA FirstAnswers ==
    ASSUME NEW S, NEW all, NEW quit, all \in Seq(S), quit \subseteq DOMAIN all
    PROVE  /\ FirstOf(all, quit) \in Seq(S) /\ Len(FirstOf(all, quit)) <= Len(all)
           /\ \A k \in DOMAIN FirstOf(all, quit) :
                 k \in 1..Len(all) /\ FirstOf(all, quit)[k] = all[k]
<1> DEFINE done == FirstOf(all, quit)
<1>0. done = IF quit = {} THEN all ELSE SubSeq(all, 1, Min(quit))
  BY DEF FirstOf
<1> HIDE DEF done
<1>1. Len(all) \in Nat /\ DOMAIN all = 1..Len(all)
  OBVIOUS
<1>2. CASE quit = {}
  BY <1>0, <1>1, <1>2 DEF done
<1>3. CASE quit # {}
  <2>1. quit \in SUBSET Nat
    BY <1>1
  <2>2. \E x \in quit : \A y \in quit : x <= y
    BY <1>3, <2>1, SmallestExists
  <2> DEFINE m == Min(quit)
  <2>3. m \in quit
    BY <2>2 DEF Min
  <2> HIDE DEF m
  <2>4. m \in Nat /\ m >= 1 /\ m <= Len(all)
    BY <1>1, <2>3
  <2>5. done = SubSeq(all, 1, m)
    BY <1>0, <1>3 DEF m
  <2>6. done \in Seq(S) /\ Len(done) = m /\ \A k \in 1..m : done[k] = all[k]
    BY <2>4, <2>5, FirstPart
  <2>7. DOMAIN done = 1..m
    BY <2>6
  <2>8. \A k \in 1..m : k \in 1..Len(all)
    BY <1>1, <2>4
  <2> QED
    BY <2>4, <2>6, <2>7, <2>8 DEF done
<1> QED
  BY <1>2, <1>3

\* The text of a read without what is dropped, and what ends before the drop.
LEMMA RestIsSuffix ==
    ASSUME TalkInv, NEW space \in Nat, Read(space)
    PROVE  LET a == Arrived(space)
               chunk == Chunk(space)
           IN \E d \in 0..Len(a) :
                 /\ Echo!Rest(a, chunk) = SubSeq(a, d + 1, Len(a))
                 /\ \A i \in 1..Len(a) : a[i].part = "end" /\ i > Len(buf) => i <= d
                 /\ IF Echo!LfAt(chunk) = {} THEN d = Len(buf)
                    ELSE d \in 1..Len(a) /\ d > Len(buf) /\ a[d].part = "end"
<1> DEFINE a == Arrived(space)
           chunk == Chunk(space)
           b == Len(buf)
           l == Len(chunk)
           lfs == Echo!LfAt(chunk)
<1>1. /\ chunk \in Seq(Text) /\ l \in 1..space /\ a \in Seq(Text) /\ Len(a) = b + l
      /\ \A i \in 1..l : a[b + i] = chunk[i]
  BY ReadTakes
<1>2. b \in Nat /\ l \in Nat /\ DOMAIN chunk = 1..l /\ Len(a) \in Nat
  <2>1. b \in Nat
    BY DEF TalkInv, TalkTypes, TypeOK
  <2> QED
    BY <1>1, <2>1
<1>3. lfs = {i \in 1..l : chunk[i].part = "end"}
  BY <1>2 DEF Echo!LfAt
<1>4. a = buf \o chunk /\ buf \in Seq(Text)
  BY DEF Arrived, TalkInv, TalkTypes, TypeOK
<1> HIDE DEF a, chunk, b, l, lfs
<1>5. ASSUME NEW i \in 1..Len(a), a[i].part = "end", i > b
      PROVE  i - b \in lfs
  <2>1. i - b \in 1..l /\ b + (i - b) = i
    BY <1>1, <1>2, <1>5
  <2>2. chunk[i - b] = a[i]
    BY <1>1, <2>1
  <2> QED
    BY <1>3, <1>5, <2>1, <2>2
<1>6. CASE lfs = {}
  <2>1. \A i \in 1..Len(a) : ~(a[i].part = "end" /\ i > b)
    BY <1>5, <1>6
  <2>2. Echo!Rest(a, chunk) = chunk
    BY <1>6 DEF Echo!Rest, lfs
  <2>3. chunk = SubSeq(a, b + 1, Len(a))
    <3> DEFINE t == SubSeq(a, b + 1, Len(a))
    <3>1. b + 1 \in Nat /\ b + 1 >= 1 /\ Len(a) - b = l
      BY <1>1, <1>2
    <3>2. t \in Seq(Text) /\ Len(t) = Len(a) - b /\ \A i \in 1..(Len(a) - b) : t[i] = a[b + i]
      BY <1>1, <1>2
    <3> HIDE DEF t
    <3>3. \A i \in 1..l : t[i] = chunk[i]
      BY <1>1, <3>1, <3>2
    <3>4. Len(chunk) = Len(t)
      BY <3>1, <3>2 DEF l
    <3>5. chunk = t
      BY <1>1, <3>2, <3>3, <3>4, SeqEqual DEF l
    <3> QED
      BY <3>5 DEF t
  <2>4. b \in 0..Len(a)
    BY <1>1, <1>2
  <2> QED
    BY <1>6, <2>1, <2>2, <2>3, <2>4 DEF a, chunk, b, lfs
<1>7. CASE lfs # {}
  <2>1. lfs \in SUBSET Nat /\ \A x \in lfs : x <= l
    BY <1>2, <1>3
  <2>2. \E x \in lfs : \A y \in lfs : x >= y
    BY <1>2, <1>7, <2>1, LargestExists
  <2> DEFINE m == Max(lfs)
  <2>3. m \in lfs /\ \A y \in lfs : m >= y
    BY <2>2 DEF Max
  <2>4. Echo!Rest(a, chunk) = SubSeq(chunk, m + 1, Len(chunk))
    BY <1>7 DEF Echo!Rest, Echo!Max, Max, lfs
  <2> HIDE DEF m
  <2>5. m \in 1..l /\ chunk[m].part = "end"
    BY <1>3, <2>3
  <2> DEFINE d == b + m
  <2>6. d \in 1..Len(a) /\ d \in 0..Len(a) /\ d > b /\ a[d].part = "end"
    BY <1>1, <1>2, <2>5
  <2>7. \A i \in 1..Len(a) : a[i].part = "end" /\ i > b => i <= d
    <3> TAKE i \in 1..Len(a)
    <3> SUFFICES ASSUME a[i].part = "end", i > b PROVE i <= d
      OBVIOUS
    <3>1. i - b \in lfs
      BY <1>5
    <3>2. m >= i - b
      BY <2>3, <3>1
    <3> QED
      BY <1>2, <2>5, <3>2
  <2>8. SubSeq(chunk, m + 1, Len(chunk)) = SubSeq(a, d + 1, Len(a))
    <3> DEFINE s == SubSeq(chunk, m + 1, Len(chunk))
               t == SubSeq(a, d + 1, Len(a))
    <3>1. m \in Nat /\ m >= 1 /\ m <= l /\ l = Len(chunk)
      BY <1>2, <2>5 DEF l
    <3>2. s \in Seq(Text) /\ Len(s) = l - m /\ \A i \in 1..(l - m) : s[i] = chunk[m + i]
      <4>1. m <= Len(chunk) /\ chunk \in Seq(Text)
        BY <1>1, <3>1
      <4>2. /\ s \in Seq(Text) /\ Len(s) = Len(chunk) - m
            /\ \A i \in 1..(Len(chunk) - m) : s[i] = chunk[m + i]
        BY <3>1, <4>1, LastPart
      <4> QED
        BY <3>1, <4>2
    <3>3. d \in Nat /\ d <= Len(a)
      BY <1>2, <2>6
    <3>4. /\ t \in Seq(Text) /\ Len(t) = Len(a) - d
          /\ \A i \in 1..(Len(a) - d) : t[i] = a[d + i]
      <4> HIDE DEF d
      <4> QED
        BY <1>1, <1>2, <3>3
    <3>5. Len(a) - d = l - m
      BY <1>1, <1>2, <3>1
    <3> HIDE DEF s, t
    <3>6. \A i \in 1..(l - m) : s[i] = t[i]
      <4> TAKE i \in 1..(l - m)
      <4>1. m + i \in 1..l /\ d + i = b + (m + i)
        BY <1>2, <3>1
      <4>2. a[b + (m + i)] = chunk[m + i]
        BY <1>1, <4>1
      <4>3. t[i] = a[d + i]
        BY <3>4, <3>5
      <4>4. s[i] = chunk[m + i]
        BY <3>2
      <4> QED
        BY <4>1, <4>2, <4>3, <4>4
    <3>7. s = t
      <4>1. Len(s) = Len(t) /\ Len(s) = l - m
        BY <3>2, <3>4, <3>5
      <4> QED
        BY <3>2, <3>4, <3>6, <4>1, SeqEqual
    <3> QED
      BY <3>7 DEF s, t
  <2> HIDE DEF d
  <2> QED
    BY <1>7, <2>4, <2>6, <2>7, <2>8 DEF a, chunk, b, lfs
<1> QED
  BY <1>6, <1>7

\* The callback of sock-echo.c that reads, by its parts.
EchoText == buf \o Echo!Chunk(Size - Len(buf))
EchoAll == Echo!Commands(EchoText)
EchoQuits == {k \in DOMAIN EchoAll : Echo!Quits(EchoAll[k])}
EchoDone == IF EchoQuits = {} THEN EchoAll ELSE SubSeq(EchoAll, 1, Echo!Min(EchoQuits))

\* What it does to each variable.
LEMMA EchoParts ==
    ASSUME Echo!port_stream_recv
    PROVE  /\ Echo!Read(Size - Len(buf))
           /\ answers' = answers \o EchoDone
           /\ out' \in Echo!Written(out, Len(EchoDone))
           /\ torn' = (torn \/ (buf # <<>> /\ Echo!LfAt(Echo!Chunk(Size - Len(buf))) = {}))
           /\ buf' = Echo!Rest(EchoText, Echo!Chunk(Size - Len(buf)))
           /\ UNCHANGED <<conn, objects>> \/ Echo!FreeInEvent
           /\ state' = state
<1>1. Echo!Read(Size - Len(buf))
  BY Zenon DEF Echo!port_stream_recv
<1>2. answers' = answers \o EchoDone
  BY Zenon DEF Echo!port_stream_recv, EchoDone, EchoQuits, EchoAll, EchoText
<1>3. out' \in Echo!Written(out, Len(EchoDone))
  BY Zenon DEF Echo!port_stream_recv, EchoDone, EchoQuits, EchoAll, EchoText
<1>4. torn' = (torn \/ (buf # <<>> /\ Echo!LfAt(Echo!Chunk(Size - Len(buf))) = {}))
  BY Zenon DEF Echo!port_stream_recv
<1>5. buf' = Echo!Rest(EchoText, Echo!Chunk(Size - Len(buf)))
  BY Zenon DEF Echo!port_stream_recv, EchoText
<1>6. UNCHANGED <<conn, objects>> \/ Echo!FreeInEvent
  BY Zenon DEF Echo!port_stream_recv
<1>7. state' = state
  BY Zenon DEF Echo!port_stream_recv
<1> QED
  BY <1>1, <1>2, <1>3, <1>4, <1>5, <1>6, <1>7

\* The callback of sock-echo.c that reads.
LEMMA EchoReads ==
    ASSUME TalkInv, IsEcho, Echo!port_stream_recv, UNCHANGED <<program, port>>
    PROVE  TalkInv'
<1> DEFINE space == Size - Len(buf)
           a == Arrived(space)
           chunk == Chunk(space)
           all == EchoAll
           done == EchoDone
           S == [n : 1..MaxMessages, good : BOOLEAN]
           M == Len(messages)
<1>0. /\ ~IsHttp /\ ~IsProxy /\ out \in Nat /\ objects \in Nat /\ torn \in BOOLEAN
      /\ state \in {"RECV", "CLOSE"}
  BY DEF IsEcho, IsHttp, IsProxy, TalkInv, TalkTypes, TypeOK
<1>1. space \in Nat /\ Len(buf) + space <= Size /\ Len(buf) \in Nat
  BY ConnectionAssumption DEF TalkInv, TalkTypes, TypeOK
<1>2. Echo!Chunk(space) = chunk
  BY DEF Echo!Chunk, Chunk, Echo!Min, Min
<1>3. EchoText = a
  BY <1>2 DEF EchoText, Arrived
<1>4. Read(space)
  BY <1>2, EchoParts DEF Echo!Read, Echo!Polled, Read, Polled
<1>5. /\ answers' = answers \o done
      /\ out' \in Echo!Written(out, Len(done))
      /\ torn' = (torn \/ (buf # <<>> /\ Echo!LfAt(chunk) = {}))
      /\ buf' = Echo!Rest(a, chunk)
      /\ UNCHANGED <<conn, objects>> \/ Echo!FreeInEvent
      /\ state' = state
  <2> HIDE DEF a, chunk
  <2> QED
    BY <1>2, <1>3, EchoParts
<1>6. PICK d \in 0..Len(a) :
          /\ Echo!Rest(a, chunk) = SubSeq(a, d + 1, Len(a))
          /\ \A i \in 1..Len(a) : a[i].part = "end" /\ i > Len(buf) => i <= d
          /\ IF Echo!LfAt(chunk) = {} THEN d = Len(buf)
             ELSE d \in 1..Len(a) /\ d > Len(buf) /\ a[d].part = "end"
  BY <1>1, <1>4, RestIsSuffix
<1>7. /\ Receives /\ a \in Seq(Text) /\ IsRun(a, Base)
      /\ UNCHANGED <<messages, part, eof, piped>>
  BY <1>1, <1>4, ReadTakes
<1> HIDE DEF space
<1>8. \A i \in 1..Len(a) :
          /\ a[i] \in Text
          /\ Place(a[i]) = Base + i
          /\ Base < 3 * a[i].n
          /\ a[i].n \in 1..M
  BY <1>1, <1>4, ArrivedIsBegun
<1>9. M \in Nat /\ M <= MaxMessages /\ Base \in Int /\ Base >= 0 /\ Len(a) \in Nat
  BY <1>7, CountTypes DEF TalkInv, TextIsRun
<1> HIDE DEF a, chunk
<1>10. Base \in Nat
  BY <1>9
<1>11. PICK q \in Nat, r \in 0..2, c \in Nat : RunOfEnds(a, Base, q, r, c)
  BY <1>7, <1>10, RunHasEnds
<1>12. Base = 3 * q + r
  BY <1>11 DEF RunOfEnds
<1>13. /\ all \in Seq(S) /\ Len(all) = c
       /\ \A k \in 1..c : all[k].n = q + k /\ q + k \in 1..M /\ (r = 0 => all[k].good)
  <2>1. EchoAll = Echo!Commands(a)
    BY <1>3 DEF EchoAll
  <2>2. \A i \in 1..Len(a) : a[i].n \in 1..Len(messages)
    BY <1>8
  <2>3. Len(messages) \in Nat /\ Len(messages) <= MaxMessages
    BY <1>9
  <2> HIDE DEF S, M
  <2>4. /\ Echo!Commands(a) \in Seq([n : 1..MaxMessages, good : BOOLEAN])
        /\ Len(Echo!Commands(a)) = c
        /\ \A k \in 1..c :
              /\ Echo!Commands(a)[k].n = q + k
              /\ q + k \in 1..Len(messages)
              /\ r = 0 => Echo!Commands(a)[k].good
    BY <1>11, <2>2, <2>3, CommandsOfRun
  <2> QED
    BY <2>1, <2>4, Zenon DEF S, M
<1>14. \A k \in 1..c : 3 * k - r \in 1..Len(a) /\ a[3 * k - r].part = "end"
  <2> TAKE k \in 1..c
  <2>1. 3 * k - r \in Echo!LfAt(a)
    BY <1>11, LfsOfRun
  <2>2. DOMAIN a = 1..Len(a)
    BY <1>7
  <2> QED
    BY <2>1, <2>2 DEF Echo!LfAt
<1>15. /\ done \in Seq(S) /\ Len(done) <= c
       /\ \A k \in DOMAIN done : k \in 1..c /\ done[k] = all[k]
  <2>1. EchoQuits \subseteq DOMAIN EchoAll
    BY DEF EchoQuits
  <2>2. EchoDone = FirstOf(EchoAll, EchoQuits)
    BY DEF EchoDone, FirstOf, Echo!Min, Min
  <2> HIDE DEF S
  <2>3. EchoAll \in Seq(S) /\ Len(EchoAll) = c
    BY <1>13
  <2>4. /\ FirstOf(EchoAll, EchoQuits) \in Seq(S)
        /\ Len(FirstOf(EchoAll, EchoQuits)) <= Len(EchoAll)
        /\ \A k \in DOMAIN FirstOf(EchoAll, EchoQuits) :
              k \in 1..Len(EchoAll) /\ FirstOf(EchoAll, EchoQuits)[k] = EchoAll[k]
    BY <2>1, <2>3, FirstAnswers
  <2> QED
    BY <2>2, <2>3, <2>4
<1>16. ASSUME NEW k \in DOMAIN done
       PROVE  /\ k \in Nat /\ k >= 1 /\ k \in 1..c
              /\ done[k].n = q + k /\ q + k <= M
              /\ (r = 0 => done[k].good)
              /\ Base < 3 * (q + k) /\ 3 * (q + k) <= Base + d
  <2>1. k \in 1..c /\ done[k] = all[k]
    BY <1>15
  <2>2. k \in Nat /\ k >= 1
    BY <2>1
  <2>3. all[k].n = q + k /\ q + k \in 1..M /\ (r = 0 => all[k].good)
    BY <1>13, <2>1
  <2>4. q + k <= M
    BY <1>9, <2>3
  <2> DEFINE i == 3 * k - r
  <2>5. i \in 1..Len(a) /\ a[i].part = "end"
    BY <1>14, <2>1
  <2>6. i \in Int /\ Base + i = 3 * (q + k)
    BY <1>12, <2>2
  <2> HIDE DEF i
  <2>7. i >= 1
    BY <1>9, <2>5
  <2>8. d \in Nat
    BY <1>9
  <2>9. i <= d
    <3>1. CASE i > Len(buf)
      BY <1>6, <2>5, <3>1
    <3>2. CASE i <= Len(buf)
      <4>1. Len(buf) <= d
        BY <1>1, <1>6, <2>8
      <4> QED
        BY <1>1, <2>6, <2>8, <3>2, <4>1
    <3> QED
      BY <1>1, <2>6, <3>1, <3>2
  <2>10. Base < 3 * (q + k) /\ 3 * (q + k) <= Base + d
    BY <1>9, <2>6, <2>7, <2>8, <2>9
  <2> QED
    BY <2>1, <2>2, <2>3, <2>4, <2>10
<1>17. BeginsWhole'
  <2> SUFFICES ASSUME ~torn' PROVE \E p \in 0..M : Base + d = 3 * p
    <3>1. Base' = Base + d
      <4>1. Base' = Taken' - Len(buf')
        BY DEF Base
      <4>2. Taken' = Base + Len(a)
        BY <1>1, <1>4, ReadTakes DEF a
      <4>3. d \in Nat /\ d <= Len(a)
        BY <1>9
      <4>4. buf' = SubSeq(a, d + 1, Len(a))
        BY <1>5, <1>6
      <4>5. Len(buf') = Len(a) - d
        BY <1>7, <4>3, <4>4, LastPart
      <4>6. \A b, l, e \in Int : (b + l) - (l - e) = b + e
        OBVIOUS
      <4> QED
        BY <1>9, <4>1, <4>2, <4>3, <4>5, <4>6
    <3> QED
      BY <1>7, <3>1 DEF BeginsWhole
  <2>1. ~torn /\ ~(buf # <<>> /\ Echo!LfAt(chunk) = {})
    BY <1>5
  <2>2. CASE Echo!LfAt(chunk) = {}
    <3>1. buf = <<>> /\ d = Len(buf)
      BY <1>6, <2>1, <2>2
    <3>2. d = 0
      BY <3>1
    <3>3. PICK p \in 0..M : Base = 3 * p
      BY <1>7, <2>1 DEF TalkInv, BeginsWhole
    <3> QED
      BY <1>9, <3>2, <3>3
  <2>3. CASE Echo!LfAt(chunk) # {}
    <3>1. d \in 1..Len(a) /\ a[d].part = "end"
      BY <1>6, <2>3
    <3>2. a[d] \in Text /\ Place(a[d]) = Base + d /\ a[d].n \in 1..M
      BY <1>8, <3>1
    <3>3. Place(a[d]) = 3 * a[d].n
      BY <3>1, <3>2, PlaceTells
    <3>4. a[d].n \in 0..M
      BY <1>9, <3>2
    <3> QED
      BY <3>2, <3>3, <3>4
  <2> QED
    BY <2>2, <2>3
<1>18. ~torn' => r = 0
  <2> SUFFICES ASSUME ~torn' PROVE r = 0
    OBVIOUS
  <2>1. ~torn
    BY <1>5
  <2>2. PICK p \in 0..M : Base = 3 * p
    BY <1>7, <2>1 DEF TalkInv, BeginsWhole
  <2> QED
    BY <1>9, <1>12, <2>2
<1>19. Answers(done, d)
  <2>1. \A i, j \in DOMAIN done : i < j => done[i].n < done[j].n
    <3> SUFFICES ASSUME NEW i \in DOMAIN done, NEW j \in DOMAIN done, i < j
                 PROVE  done[i].n < done[j].n
      OBVIOUS
    <3>1. done[i].n = q + i /\ i \in Nat
      BY <1>16
    <3>2. done[j].n = q + j /\ j \in Nat
      BY <1>16
    <3>3. q + i < q + j
      BY <3>1, <3>2
    <3> QED
      BY <3>1, <3>2, <3>3
  <2>2. ASSUME NEW i \in DOMAIN done
        PROVE  /\ Base < 3 * done[i].n
               /\ done[i].n <= Len(messages)
               /\ 3 * done[i].n <= Base + d
    BY <1>16
  <2>3. ASSUME ~torn', NEW i \in DOMAIN done
        PROVE  done[i].good = (IsHttp \/ IsProxy => Http!Good(done[i].n))
    <3>1. done[i].good
      BY <1>16, <1>18, <2>3
    <3>2. i \in 1..c /\ done[i] = all[i] /\ all[i] \in S
      <4>1. i \in 1..c /\ done[i] = all[i]
        BY <1>15
      <4>2. i \in 1..Len(all)
        BY <1>13, <4>1
      <4> HIDE DEF S
      <4> QED
        BY <1>13, <4>1, <4>2, ElementOfSeq
    <3>3. done[i].good \in BOOLEAN
      BY <3>2
    <3>4. done[i].good = TRUE
      BY <3>1, <3>3
    <3> QED
      BY <1>0, <3>4
  <2> QED
    BY <1>15, <2>1, <2>2, <2>3 DEF Answers
<1>20. /\ conn' \in {"open", "freed", "undefined"} /\ state' \in {"RECV", "CLOSE"}
       /\ objects' \in Nat
  <2>1. conn = "open"
    BY <1>7 DEF Receives
  <2> QED
    BY <1>0, <1>5, <2>1 DEF Echo!FreeInEvent
<1>21. out' \in Nat
  <2>1. Len(done) \in Nat
    BY <1>15
  <2> QED
    BY <1>0, <1>5, <2>1 DEF Echo!Written
<1>22. torn' \in BOOLEAN /\ (torn => torn')
  BY <1>5
<1>23. buf' = SubSeq(a, d + 1, Len(a)) /\ answers' = answers \o done
  BY <1>5, <1>6
<1>24. /\ TalkTypes' /\ (~IsEcho => Len(buf) < Size)' /\ StartsEmpty' /\ TextIsRun'
       /\ AnswersInOrder' /\ AnswersAreBehind' /\ AnswersDeserved'
  BY <1>1, <1>4, <1>19, <1>20, <1>21, <1>22, <1>23, ReadKeeps DEF a
<1>25. AnsweredInStep'
  BY DEF AnsweredInStep, IsEcho
<1> QED
  BY <1>17, <1>24, <1>25 DEF TalkInv

\* The callbacks of sock-echo.c.
LEMMA EchoTalk ==
    ASSUME TalkInv, IsEcho, Echo!EchoNext, UNCHANGED <<program, port>>
    PROVE  TalkInv'
<1>0. out \in Nat /\ objects \in Nat
  BY DEF TalkInv, TalkTypes, TypeOK
<1>1. CASE Echo!port_accept
  <2>1. QuietStep
    BY <1>0, <1>1 DEF Echo!port_accept, Echo!Accept, Echo!Written, Echo!peerVars, QuietStep
  <2> QED
    BY <2>1, QuietStepKeeps
<1>2. CASE Echo!Peer(Echo!Kinds)
  <2>1. Peer(Port!Kinds)
    BY <1>2 DEF Echo!Peer, Echo!BeginMessage, Echo!ContinueMessage, Echo!PeerCloses,
                Echo!conVars, Echo!Parts, Echo!Kinds, Port!Kinds, Peer, BeginMessage,
                ContinueMessage, PeerCloses, conVars, Parts
  <2> QED
    BY <2>1, PeerKeeps
<1>3. CASE Echo!port_stream_recv
  BY <1>3, EchoReads
<1>4. CASE Echo!RecvEnds(Size - Len(buf))
  <2>1. QuietStep
    BY <1>0, <1>4 DEF Echo!RecvEnds, Echo!Close, Echo!peerVars, QuietStep
  <2> QED
    BY <2>1, QuietStepKeeps
<1>5. CASE Echo!RecvFails
  <2>1. QuietStep
    BY <1>0, <1>5 DEF Echo!RecvFails, Echo!Close, Echo!peerVars, QuietStep
  <2> QED
    BY <2>1, QuietStepKeeps
<1>6. CASE Echo!SendQueued(UNCHANGED <<conn, objects>>)
  <2>1. /\ conn = "open" /\ out' \in 0..(out - 1)
        /\ UNCHANGED <<conn, objects>>
        /\ UNCHANGED <<state, buf, answers, torn, input, messages, part, eof, piped>>
    BY <1>6 DEF Echo!SendQueued, Echo!peerVars
  <2>2. QuietStep
    BY <1>0, <2>1 DEF QuietStep
  <2> QED
    BY <2>2, QuietStepKeeps
<1>7. CASE Echo!SendFails
  <2>1. QuietStep
    BY <1>0, <1>7 DEF Echo!SendFails, Echo!Close, Echo!peerVars, QuietStep
  <2> QED
    BY <2>1, QuietStepKeeps
<1> QED
  BY <1>1, <1>2, <1>3, <1>4, <1>5, <1>6, <1>7 DEF Echo!EchoNext, Echo!EchoRecv

\* Every step of every program keeps the talk in order.
LEMMA NextKeepsTalk ==
    ASSUME TalkInv, [Next]_vars
    PROVE  TalkInv'
<1>1. CASE UNCHANGED vars
  <2>1. /\ conn' = conn /\ out' = out /\ objects' = objects
        /\ UNCHANGED <<state, buf, answers, torn, input, messages, part, eof, piped>>
        /\ UNCHANGED <<program, port>>
    BY <1>1 DEF vars, conVars, peerVars
  <2>2. /\ conn \in {"none", "refused", "open", "freed", "undefined"}
        /\ out \in Nat /\ objects \in Nat
    BY DEF TalkInv, TalkTypes, TypeOK
  <2>3. conn' \in {"none", "refused", "open", "freed", "undefined"}
    BY <2>1, <2>2, Zenon
  <2>4. conn' = "open" => conn \in {"none", "open"}
    BY <2>1
  <2>5. conn' \in {"none", "refused"} => conn \in {"none", "refused"}
    BY <2>1
  <2>6. out' \in Nat /\ objects' \in Nat
    BY <2>1, <2>2, Zenon
  <2>7. QuietStep
    BY <2>1, <2>3, <2>4, <2>5, <2>6, Zenon DEF QuietStep
  <2> QED
    BY <2>1, <2>7, QuietStepKeeps
<1>2. CASE Next
  BY <1>2, HttpTalk, PortTalk, ProxyTalk, EchoTalk DEF Next, tcp_serv_accept
<1> QED
  BY <1>1, <1>2

\* The talk invariant holds in every state of every behaviour.
THEOREM TalkIsKept == Spec => []TalkInv
<1>1. ServersInit => TalkInv
  <2> SUFFICES ASSUME ServersInit PROVE TalkInv
    OBVIOUS
  <2>1. /\ conn = "none" /\ state = "RECV" /\ buf = <<>> /\ out = 0 /\ answers = <<>>
        /\ objects = 0 /\ input = <<>> /\ messages = <<>> /\ part = Len(Parts)
        /\ eof = FALSE /\ piped = FALSE /\ torn = FALSE
    BY DEF ServersInit, Init
  <2>2. Len(Parts) = 3
    BY DEF Parts
  <2>3. Len(buf) = 0 /\ Len(input) = 0 /\ Len(messages) = 0 /\ Len(answers) = 0
    BY <2>1
  <2>4. Base = 0 /\ Taken = 0 /\ Sent = 0
    BY <2>1, <2>2, <2>3 DEF Base, Taken, Sent
  <2>5. TalkTypes
    <3>1. buf \in Seq(Text) /\ input \in Seq(Text)
      BY <2>1
    <3>2. answers \in Seq([n : 1..MaxMessages, good : BOOLEAN])
      BY <2>1
    <3>3. Len(buf) <= Size /\ Len(messages) <= MaxMessages /\ part \in 0..Len(Parts) /\ part = 3
      BY <2>1, <2>2, <2>3, ConnectionAssumption
    <3>4. messages \in Seq(Http!Kinds \cup Port!Kinds)
      BY <2>1
    <3>5. TypeOK
      BY <2>1, <3>1, <3>2, <3>3 DEF TypeOK
    <3> QED
      BY <3>3, <3>4, <3>5 DEF TalkTypes
  <2>6. TextIsRun
    BY <2>3, <2>4 DEF TextIsRun, IsRun
  <2>7. DOMAIN answers = {}
    BY <2>1
  <2>8. AnswersInOrder /\ AnswersAreBehind /\ AnswersDeserved
    BY <2>7 DEF AnswersInOrder, AnswersAreBehind, AnswersDeserved
  <2>9. StartsEmpty /\ ~Receives
    BY <2>1 DEF StartsEmpty, Receives
  <2>10. AnsweredInStep /\ BeginsWhole
    BY <2>9 DEF AnsweredInStep, BeginsWhole
  <2>11. Len(buf) < Size
    BY <2>3, ConnectionAssumption
  <2> QED
    BY <2>5, <2>6, <2>8, <2>9, <2>10, <2>11 DEF TalkInv
<1> QED
  BY <1>1, NextKeepsTalk, PTL DEF Spec

-----------------------------------------------------------------------------
(* Theorems of the connections *)

\* No connection of an example program overfills its buffer, and those that search
\* it with strstr keep room for the final zero: for any size of buffer, any number
\* of messages and any way their text arrives.
THEOREM ServersBufferFits == Spec => []BufferFits
<1>1. TalkInv => BufferFits
  BY DEF TalkInv, TalkTypes, BufferFits
<1> QED
  BY <1>1, TalkIsKept, PTL

\* No message is answered twice and no answer overtakes another, in any of the
\* programs, however reads cut and join the text.
THEOREM AnswersKeepTheirOrder == Spec => []AnswersInOrder
<1>1. TalkInv => AnswersInOrder
  BY DEF TalkInv
<1> QED
  BY <1>1, TalkIsKept, PTL

\* A peer that waits for its answers gets the right ones, and so does one of
\* sock-echo that does not wait and whose commands no read has torn.
THEOREM AnswersAreRight == Spec => []AnswersDeserved
<1>1. TalkInv => AnswersDeserved
  BY DEF TalkInv
<1> QED
  BY <1>1, TalkIsKept, PTL

\* However a connection ends, its memory and the map of its requests are freed, as
\* far as its program frees them at all.
THEOREM ConnectionsLeakNothing == Spec => []NothingLeaks
<1>1. MemoryInv => NothingLeaks
  BY DEF MemoryInv
<1> QED
  BY <1>1, MemoryIsKept, PTL

(***************************************************************************)
(* The string map of a request's header                                    *)
(***************************************************************************)

\* The heap is ahead of the text by the room it had more at the start.
HeapIsAhead == HeapSize - room <= TextSize - text

HeadersInv == HeadersTypeOK /\ NoNullString /\ UniqueNames /\ HeapIsAhead

-----------------------------------------------------------------------------

\* io_oheap_strdup copies every string there is room for, final zero included.
LEMMA StrdupCopies ==
    ASSUME NEW s \in Key \cup Value, NEW r \in Nat, r >= length[s] + 1
    PROVE  /\ io_oheap_strdup(s, r).data = s
           /\ io_oheap_strdup(s, r).room = r - (length[s] + 1)
  BY StringsAssumption DEF io_oheap_strdup

\* A line whose key is no name of the map, in a heap with room for it, is added
\* as it is, or leaves a full map as it was, and takes its length of the room,
\* whichever of the two strings is copied first.
LEMMA AddCopies ==
    ASSUME NEW k \in Key, NEW v \in Value, HeadersTypeOK,
           room >= length[k] + length[v] + 2, CopyAndAdd(k, v)
    PROVE  /\ room' = room - (length[k] + length[v] + 2)
           /\ room' \in 0..HeapSize
           /\ kvs' = IF Len(kvs) >= KeysLimit THEN kvs
                     ELSE Append(kvs, [key |-> k, value |-> v])
<1>1. length[k] \in Nat \ {0} /\ length[v] \in Nat \ {0}
  BY StringsAssumption
<1>2. room \in Nat /\ room <= HeapSize /\ HeapSize \in Nat
  BY SizesAssumption DEF HeadersTypeOK
<1>3. CASE LET ck == io_oheap_strdup(k, room)
               cv == io_oheap_strdup(v, ck.room)
           IN room' = cv.room /\ io_map_new_kv(ck.data, cv.data)
  <2>1. io_oheap_strdup(k, room).data = k
        /\ io_oheap_strdup(k, room).room = room - (length[k] + 1)
    BY <1>1, <1>2, StrdupCopies
  <2>2. room - (length[k] + 1) \in Nat /\ room - (length[k] + 1) >= length[v] + 1
    BY <1>1, <1>2
  <2>3. /\ io_oheap_strdup(v, room - (length[k] + 1)).data = v
        /\ io_oheap_strdup(v, room - (length[k] + 1)).room
             = room - (length[k] + 1) - (length[v] + 1)
    BY <2>2, StrdupCopies
  <2>4. room' = room - (length[k] + 1) - (length[v] + 1) /\ io_map_new_kv(k, v)
    BY <1>3, <2>1, <2>3
  <2>5. kvs' = IF Len(kvs) >= KeysLimit THEN kvs
               ELSE Append(kvs, [key |-> k, value |-> v])
    BY <2>4 DEF io_map_new_kv
  <2>6. room' = room - (length[k] + length[v] + 2) /\ room' \in 0..HeapSize
    BY <1>1, <1>2, <2>4
  <2> QED
    BY <2>5, <2>6
<1>4. CASE LET cv == io_oheap_strdup(v, room)
               ck == io_oheap_strdup(k, cv.room)
           IN room' = ck.room /\ io_map_new_kv(ck.data, cv.data)
  <2>1. io_oheap_strdup(v, room).data = v
        /\ io_oheap_strdup(v, room).room = room - (length[v] + 1)
    BY <1>1, <1>2, StrdupCopies
  <2>2. room - (length[v] + 1) \in Nat /\ room - (length[v] + 1) >= length[k] + 1
    BY <1>1, <1>2
  <2>3. /\ io_oheap_strdup(k, room - (length[v] + 1)).data = k
        /\ io_oheap_strdup(k, room - (length[v] + 1)).room
             = room - (length[v] + 1) - (length[k] + 1)
    BY <2>2, StrdupCopies
  <2>4. room' = room - (length[v] + 1) - (length[k] + 1) /\ io_map_new_kv(k, v)
    BY <1>4, <2>1, <2>3
  <2>5. kvs' = IF Len(kvs) >= KeysLimit THEN kvs
               ELSE Append(kvs, [key |-> k, value |-> v])
    BY <2>4 DEF io_map_new_kv
  <2>6. room' = room - (length[k] + length[v] + 2) /\ room' \in 0..HeapSize
    BY <1>1, <1>2, <2>4
  <2> QED
    BY <2>5, <2>6
<1> QED
  BY <1>3, <1>4 DEF CopyAndAdd

\* In a map without NULL the parser reads none.
LEMMA NoNullIsRead ==
    ASSUME NoNullString, NEW k \in Key
    PROVE  ~ReadsNull(k)
  BY DEF NoNullString, ReadsNull

\* A key that is looked up in vain has no name of the map.
LEMMA NotFound ==
    ASSUME NoNullString, UniqueNames, HeadersTypeOK, NEW k \in Key, io_hmap_getcs(k) = NULL
    PROVE  \A i \in DOMAIN kvs : name[kvs[i].key] # name[k]
<1> DEFINE found == {i \in DOMAIN kvs : Matches(k, i)}
<1>1. SUFFICES ASSUME NEW m \in DOMAIN kvs, name[kvs[m].key] = name[k] PROVE FALSE
  OBVIOUS
<1>2. m \in found
  BY <1>1 DEF Matches, NoNullString
<1>3. \A i \in found : i = m
  BY <1>1 DEF Matches, UniqueNames, NoNullString
<1>4. found = {m}
  BY <1>2, <1>3
<1>5. m \in Int
  BY <1>1 DEF HeadersTypeOK
<1>6. Min({m}) = m
  BY <1>5 DEF Min
<1>7. io_hmap_getcs(k) = IF found = {} THEN NULL ELSE kvs[Min(found)].value
  BY DEF io_hmap_getcs
<1>8. io_hmap_getcs(k) = kvs[m].value
  BY <1>4, <1>6, <1>7
<1> QED
  BY <1>8 DEF NoNullString
-----------------------------------------------------------------------------
(* Each action of the map preserves the invariant *)

\* Adding a pair with a new name keeps the table's type, names and strings.
LEMMA AddKeepsTable ==
    ASSUME HeadersTypeOK, NoNullString, UniqueNames, NEW k \in Key, NEW v \in Value,
           \A i \in DOMAIN kvs : name[kvs[i].key] # name[k],
           Len(kvs) < KeysLimit, kvs' = Append(kvs, [key |-> k, value |-> v])
    PROVE  /\ kvs' \in Seq(Pair)
           /\ Len(kvs') <= KeysLimit
           /\ \A i \in DOMAIN kvs' : kvs'[i].key # NULL /\ kvs'[i].value # NULL
           /\ UniqueNames'
<1> DEFINE pair == [key |-> k, value |-> v]
<1>1. pair \in Pair
  BY DEF Pair
<1>2. kvs \in Seq(Pair) /\ Len(kvs) \in Nat /\ DOMAIN kvs = 1..Len(kvs)
  BY DEF HeadersTypeOK
<1>3. /\ kvs' \in Seq(Pair)
      /\ Len(kvs') = Len(kvs) + 1
      /\ DOMAIN kvs' = 1..(Len(kvs) + 1)
      /\ \A i \in 1..Len(kvs) : kvs'[i] = kvs[i]
      /\ kvs'[Len(kvs) + 1] = pair
  BY <1>1, <1>2
<1>4. Len(kvs') <= KeysLimit
  BY <1>2, <1>3, SizesAssumption
<1>5. k # NULL /\ v # NULL
  BY StringsAssumption
<1>6. \A i \in DOMAIN kvs' : kvs'[i].key # NULL /\ kvs'[i].value # NULL
  <2> TAKE i \in DOMAIN kvs'
  <2>1. CASE i \in 1..Len(kvs)
    BY <1>2, <1>3, <2>1 DEF NoNullString
  <2>2. CASE i = Len(kvs) + 1
    BY <1>3, <1>5, <2>2
  <2> QED
    BY <1>2, <1>3, <2>1, <2>2
<1>7. UniqueNames'
  <2> SUFFICES ASSUME NEW i \in DOMAIN kvs', NEW j \in DOMAIN kvs',
                      name[kvs'[i].key] = name[kvs'[j].key]
               PROVE  i = j
    BY <1>6 DEF UniqueNames
  <2>1. CASE i \in 1..Len(kvs) /\ j \in 1..Len(kvs)
    BY <1>2, <1>3, <2>1 DEF UniqueNames, NoNullString
  <2>2. CASE i \in 1..Len(kvs) /\ j = Len(kvs) + 1
    BY <1>2, <1>3, <2>2
  <2>3. CASE i = Len(kvs) + 1 /\ j \in 1..Len(kvs)
    BY <1>2, <1>3, <2>3
  <2> QED
    BY <1>2, <1>3, <2>1, <2>2, <2>3
<1> QED
  BY <1>3, <1>4, <1>6, <1>7

\* A header line finds more room than the text it is in, so both strings are
\* copied; what they take is less than what the line takes of the text.
LEMMA LinePreserves ==
    ASSUME HeadersInv, NEW k \in Key, NEW v \in Value, NEW blanks \in 0..Spaces,
           HeaderLine(k, v, blanks)
    PROVE  HeadersInv'
<1>1. /\ HeadersTypeOK /\ NoNullString /\ UniqueNames /\ HeapIsAhead
      /\ pc = "lines"
  BY DEF HeadersInv, HeaderLine
<1>2. /\ length[k] \in Nat \ {0} /\ length[v] \in Nat \ {0} /\ blanks \in Nat
      /\ HeapSize \in Nat /\ TextSize \in Nat /\ TextSize <= HeapSize
  BY StringsAssumption, SizesAssumption
<1>3. /\ text >= length[k] + length[v] + blanks + 3
      /\ text' = text - (length[k] + length[v] + blanks + 3)
  BY DEF HeaderLine
<1>4. /\ room \in Nat /\ room <= HeapSize /\ text \in Nat /\ text <= TextSize
      /\ HeapSize - room <= TextSize - text
  BY <1>1, <1>2 DEF HeadersTypeOK, HeapIsAhead
<1>5. text' \in 0..TextSize
  BY <1>2, <1>3, <1>4
<1>6. ~ReadsNull(k)
  BY <1>1, NoNullIsRead
<1>7. CASE io_hmap_getcs(k) # NULL
  <2>1. kvs' = kvs /\ room' = room /\ pc' = "idle"
    BY <1>6, <1>7 DEF HeaderLine
  <2>2. HeapIsAhead'
    BY <1>2, <1>3, <1>4, <2>1 DEF HeapIsAhead
  <2> QED
    BY <1>1, <1>5, <2>1, <2>2 DEF HeadersInv, HeadersTypeOK, NoNullString, UniqueNames
<1>8. CASE io_hmap_getcs(k) = NULL
  <2>1. CopyAndAdd(k, v)
    BY <1>6, <1>8 DEF HeaderLine
  <2>2. pc' \in {"idle", "lines"}
    BY <1>6, <1>8 DEF HeaderLine
  <2>3. room >= length[k] + length[v] + 2
    BY <1>2, <1>3, <1>4
  <2>4. /\ room' = room - (length[k] + length[v] + 2)
        /\ room' \in 0..HeapSize
        /\ kvs' = IF Len(kvs) >= KeysLimit THEN kvs
                  ELSE Append(kvs, [key |-> k, value |-> v])
    BY <1>1, <2>1, <2>3, AddCopies
  <2>5. room' = room - (length[k] + length[v] + 2)
    BY <2>4
  <2>6. HeapIsAhead'
    BY <1>2, <1>3, <1>4, <2>5 DEF HeapIsAhead
  <2>7. CASE Len(kvs) >= KeysLimit
    <3>1. kvs' = kvs
      BY <2>4, <2>7
    <3> QED
      BY <1>1, <1>5, <2>2, <2>4, <2>6, <3>1
         DEF HeadersInv, HeadersTypeOK, NoNullString, UniqueNames
  <2>8. CASE Len(kvs) < KeysLimit
    <3>1. kvs' = Append(kvs, [key |-> k, value |-> v])
      BY <1>1, <2>4, <2>8, SizesAssumption DEF HeadersTypeOK
    <3>2. \A i \in DOMAIN kvs : name[kvs[i].key] # name[k]
      BY <1>1, <1>8, NotFound
    <3>3. /\ kvs' \in Seq(Pair)
          /\ Len(kvs') <= KeysLimit
          /\ \A i \in DOMAIN kvs' : kvs'[i].key # NULL /\ kvs'[i].value # NULL
          /\ UniqueNames'
      BY <1>1, <2>8, <3>1, <3>2, AddKeepsTable
    <3> QED
      BY <1>5, <2>2, <2>4, <2>6, <3>3 DEF HeadersInv, HeadersTypeOK, NoNullString
  <2> QED
    BY <1>1, <2>7, <2>8, SizesAssumption DEF HeadersTypeOK
<1> QED
  BY <1>7, <1>8

\* So does every other step.
LEMMA HeadersNextPreserves ==
    ASSUME HeadersInv, [HeadersNext]_headerVars
    PROVE  HeadersInv'
<1>1. ASSUME NEW size \in 0..TextSize, Request(size) PROVE HeadersInv'
  <2>1. kvs' = <<>> /\ room' = HeapSize /\ text' = size /\ pc' = "lines"
    BY <1>1 DEF Request, io_hmap_create
  <2>2. HeapIsAhead'
    BY <2>1, SizesAssumption DEF HeapIsAhead
  <2>3. HeadersTypeOK'
    BY <2>1, SizesAssumption DEF HeadersTypeOK
  <2> QED
    BY <2>1, <2>2, <2>3 DEF HeadersInv, NoNullString, UniqueNames
<1>2. ASSUME NEW k \in Key, NEW v \in Value, NEW blanks \in 0..Spaces,
             HeaderLine(k, v, blanks)
      PROVE  HeadersInv'
  BY <1>2, LinePreserves
<1>3. CASE HeaderEnds
  BY <1>3 DEF HeaderEnds, HeadersInv, HeadersTypeOK, NoNullString, UniqueNames, HeapIsAhead
<1>4. ASSUME NEW k \in Key, io_hmap_getc(k) PROVE HeadersInv'
  <2>1. ~ReadsNull(k)
    BY NoNullIsRead DEF HeadersInv
  <2>2. pc' = "idle" /\ UNCHANGED <<kvs, room, text>>
    BY <1>4, <2>1 DEF io_hmap_getc
  <2> QED
    BY <2>2 DEF HeadersInv, HeadersTypeOK, NoNullString, UniqueNames, HeapIsAhead
<1>5. CASE UNCHANGED headerVars
  BY <1>5 DEF headerVars, HeadersInv, HeadersTypeOK, NoNullString, UniqueNames, HeapIsAhead
<1> QED
  BY <1>1, <1>2, <1>3, <1>4, <1>5 DEF HeadersNext

\* The invariant holds in every state of every behaviour.
THEOREM HeadersInvHolds == HeadersSpec => []HeadersInv
<1>1. HeadersInit => HeadersInv
  BY SizesAssumption DEF HeadersInit, HeadersInv, HeadersTypeOK, NoNullString, UniqueNames,
                         HeapIsAhead
<1>2. HeadersInv /\ [HeadersNext]_headerVars => HeadersInv'
  BY HeadersNextPreserves
<1> QED
  BY <1>1, <1>2, PTL DEF HeadersSpec

-----------------------------------------------------------------------------
(* Theorems of the string map *)

\* The table never holds more pairs than it has places and the heap never more
\* than its bytes, whatever the headers are.
THEOREM HeadersTypeCorrect == HeadersSpec => []HeadersTypeOK
<1>1. HeadersInv => HeadersTypeOK
  BY DEF HeadersInv
<1> QED
  BY <1>1, HeadersInvHolds, PTL

\* io_map.c never stores or reads the NULL of an exhausted heap, for any texts
\* that are no longer than the heap is large, as those of the servers are.
THEOREM NullIsNeverStored == HeadersSpec => []NoNullString
<1>1. HeadersInv => NoNullString
  BY DEF HeadersInv
<1> QED
  BY <1>1, HeadersInvHolds, PTL

\* The case-insensitive search of io_hmap_addl keeps every name unique.
THEOREM NamesAreUnique == HeadersSpec => []UniqueNames
<1>1. HeadersInv => UniqueNames
  BY DEF HeadersInv
<1> QED
  BY <1>1, HeadersInvHolds, PTL

-----------------------------------------------------------------------------
(* The map is a map *)

\* What the names of a table are bound to.
Binding(q) ==
    [n \in {name[q[i].key] : i \in DOMAIN q} |->
        q[CHOOSE i \in DOMAIN q : name[q[i].key] = n].value]

\* A table of pairs with names that are all different.
IsTable(q) ==
    /\ \A i \in DOMAIN q : q[i].key \in Key /\ q[i].value \in Value
    /\ \A i, j \in DOMAIN q : name[q[i].key] = name[q[j].key] => i = j

\* The bindings are a function.
LEMMA BindingIsFunction ==
    ASSUME NEW q
    PROVE  Binding(q) = [m \in DOMAIN Binding(q) |-> Binding(q)[m]]
  BY DEF Binding

\* Each pair of a table says what its name is bound to.
LEMMA PairIsBound ==
    ASSUME NEW q, IsTable(q), NEW i \in DOMAIN q
    PROVE  /\ name[q[i].key] \in DOMAIN Binding(q)
           /\ Binding(q)[name[q[i].key]] = q[i].value
<1> DEFINE n == name[q[i].key]
           j == CHOOSE l \in DOMAIN q : name[q[l].key] = n
<1>1. DOMAIN Binding(q) = {name[q[l].key] : l \in DOMAIN q}
  BY DEF Binding
<1>2. n \in DOMAIN Binding(q)
  BY <1>1
<1>3. Binding(q)[n] = q[j].value
  BY <1>1, <1>2 DEF Binding
<1>4. j \in DOMAIN q /\ name[q[j].key] = n
  OBVIOUS
<1>5. j = i
  BY <1>4 DEF IsTable
<1> QED
  BY <1>2, <1>3, <1>5

\* A pair with a new name binds it and leaves the others as they are.
LEMMA AppendBinds ==
    ASSUME NEW q \in Seq(Pair), IsTable(q), NEW k \in Key, NEW v \in Value,
           \A i \in DOMAIN q : name[q[i].key] # name[k]
    PROVE  LET r == Append(q, [key |-> k, value |-> v])
               n == name[k]
           IN /\ n \notin DOMAIN Binding(q)
              /\ Binding(r) = [m \in DOMAIN Binding(q) \cup {n} |->
                                  IF m = n THEN v ELSE Binding(q)[m]]
<1> DEFINE pair == [key |-> k, value |-> v]
           r == Append(q, pair)
           n == name[k]
           L == Len(q)
           names(s) == {name[s[i].key] : i \in DOMAIN s}
<1>1. /\ L \in Nat /\ DOMAIN q = 1..L
      /\ DOMAIN r = 1..(L + 1)
      /\ \A i \in 1..L : r[i] = q[i]
      /\ r[L + 1] = pair
  OBVIOUS
<1>2. DOMAIN Binding(q) = names(q) /\ DOMAIN Binding(r) = names(r)
  BY DEF Binding
<1>3. n \notin DOMAIN Binding(q)
  BY <1>2
<1>4. IsTable(r)
  <2>1. ASSUME NEW i \in DOMAIN r PROVE r[i].key \in Key /\ r[i].value \in Value
    <3>1. CASE i \in 1..L
      BY <1>1, <3>1 DEF IsTable
    <3>2. CASE i = L + 1
      BY <1>1, <3>2
    <3> QED
      BY <1>1, <3>1, <3>2
  <2>2. ASSUME NEW i \in DOMAIN r, NEW j \in DOMAIN r, name[r[i].key] = name[r[j].key]
        PROVE  i = j
    <3>1. CASE i \in 1..L /\ j \in 1..L
      BY <1>1, <2>2, <3>1 DEF IsTable
    <3>2. CASE i \in 1..L /\ j = L + 1
      BY <1>1, <2>2, <3>2
    <3>3. CASE i = L + 1 /\ j \in 1..L
      BY <1>1, <2>2, <3>3
    <3> QED
      BY <1>1, <3>1, <3>2, <3>3
  <2> QED
    BY <2>1, <2>2 DEF IsTable
<1>5. names(r) = names(q) \cup {n}
  <2>1. ASSUME NEW m \in names(r) PROVE m \in names(q) \cup {n}
    <3>1. PICK i \in 1..(L + 1) : m = name[r[i].key]
      BY <1>1
    <3>2. CASE i \in 1..L
      BY <1>1, <3>1, <3>2
    <3>3. CASE i = L + 1
      BY <1>1, <3>1, <3>3
    <3> QED
      BY <1>1, <3>2, <3>3
  <2>2. ASSUME NEW m \in names(q) PROVE m \in names(r)
    <3>1. PICK i \in 1..L : m = name[q[i].key]
      BY <1>1
    <3>2. r[i] = q[i] /\ i \in DOMAIN r
      BY <1>1
    <3> QED
      BY <3>1, <3>2
  <2>3. n \in names(r)
    BY <1>1
  <2> QED
    BY <2>1, <2>2, <2>3
<1>6. ASSUME NEW m \in names(r)
      PROVE  Binding(r)[m] = IF m = n THEN v ELSE Binding(q)[m]
  <2>1. PICK i \in 1..(L + 1) : m = name[r[i].key]
    BY <1>1
  <2>2. Binding(r)[m] = r[i].value
    BY <1>1, <1>4, <2>1, PairIsBound
  <2>3. CASE i = L + 1
    BY <1>1, <2>1, <2>2, <2>3
  <2>4. CASE i \in 1..L
    <3>1. r[i] = q[i] /\ i \in DOMAIN q
      BY <1>1, <2>4
    <3>2. m # n
      BY <2>1, <3>1
    <3>3. Binding(q)[m] = q[i].value
      BY <2>1, <3>1, PairIsBound
    <3> QED
      BY <2>2, <3>1, <3>2, <3>3
  <2> QED
    BY <1>1, <2>3, <2>4
<1> DEFINE f == [m \in DOMAIN Binding(q) \cup {n} |-> IF m = n THEN v ELSE Binding(q)[m]]
<1>7. Binding(r) = f
  <2>1. DOMAIN Binding(r) = DOMAIN f
    BY <1>2, <1>5
  <2>2. \A m \in DOMAIN f : Binding(r)[m] = f[m]
    BY <1>2, <1>5, <1>6
  <2> HIDE DEF r, n, f
  <2>3. Binding(r) = [m \in DOMAIN Binding(r) |-> Binding(r)[m]]
    BY BindingIsFunction
  <2>4. f = [m \in DOMAIN f |-> f[m]]
    BY DEF f
  <2> QED
    BY <2>1, <2>2, <2>3, <2>4, Zenon
<1> QED
  BY <1>3, <1>7

\* A table without NULL is one of pairs of keys and values.
LEMMA KvsIsTable ==
    ASSUME HeadersInv
    PROVE  IsTable(kvs)
<1>1. ASSUME NEW i \in DOMAIN kvs PROVE kvs[i].key \in Key /\ kvs[i].value \in Value
  <2>1. kvs[i] \in Pair
    BY DEF HeadersInv, HeadersTypeOK
  <2>2. kvs[i].key # NULL /\ kvs[i].value # NULL
    BY DEF HeadersInv, NoNullString
  <2> QED
    BY <2>1, <2>2 DEF Pair
<1>2. ASSUME NEW i \in DOMAIN kvs, NEW j \in DOMAIN kvs, name[kvs[i].key] = name[kvs[j].key]
      PROVE  i = j
  BY <1>2 DEF HeadersInv, NoNullString, UniqueNames
<1> QED
  BY <1>1, <1>2 DEF IsTable

\* A line of a header binds its name, or leaves the map as it is.
LEMMA LineIsMapStep ==
    ASSUME HeadersInv, NEW k \in Key, NEW v \in Value, NEW blanks \in 0..Spaces,
           HeaderLine(k, v, blanks)
    PROVE  \/ kvs' = kvs
           \/ /\ \A i \in DOMAIN kvs : name[kvs[i].key] # name[k]
              /\ kvs' = Append(kvs, [key |-> k, value |-> v])
<1>1. HeadersTypeOK /\ NoNullString /\ UniqueNames /\ HeapIsAhead
  BY DEF HeadersInv
<1>2. ~ReadsNull(k)
  BY <1>1, NoNullIsRead
<1>3. CASE io_hmap_getcs(k) # NULL
  BY <1>2, <1>3 DEF HeaderLine
<1>4. CASE io_hmap_getcs(k) = NULL
  <2>1. CopyAndAdd(k, v)
    BY <1>2, <1>4 DEF HeaderLine
  <2>2. text >= length[k] + length[v] + blanks + 3
    BY DEF HeaderLine
  <2>3. /\ length[k] \in Nat /\ length[v] \in Nat /\ blanks \in Nat
        /\ HeapSize \in Nat /\ TextSize \in Nat /\ TextSize <= HeapSize
    BY StringsAssumption, SizesAssumption
  <2>4. room \in Nat /\ text \in Nat /\ HeapSize - room <= TextSize - text
    BY <1>1, <2>3 DEF HeadersTypeOK, HeapIsAhead
  <2>5. room >= length[k] + length[v] + 2
    BY <2>2, <2>3, <2>4
  <2>6. kvs' = IF Len(kvs) >= KeysLimit THEN kvs
               ELSE Append(kvs, [key |-> k, value |-> v])
    BY <1>1, <2>1, <2>5, AddCopies
  <2>7. \A i \in DOMAIN kvs : name[kvs[i].key] # name[k]
    BY <1>1, <1>4, NotFound
  <2> QED
    BY <2>6, <2>7
<1> QED
  BY <1>3, <1>4

\* A step of the map binds a new name, unbinds all, or changes no binding.
LEMMA HeadersStepIsMapStep ==
    ASSUME HeadersInv, [HeadersNext]_headerVars
    PROVE  \/ Binding(kvs') = Binding(kvs)
           \/ Binding(kvs') = <<>>
           \/ \E n \in Name \ DOMAIN Binding(kvs), v \in Value :
                 Binding(kvs') = [m \in DOMAIN Binding(kvs) \cup {n} |->
                                     IF m = n THEN v ELSE Binding(kvs)[m]]
<1>1. ASSUME NEW size \in 0..TextSize, Request(size) PROVE Binding(kvs') = <<>>
  <2>1. kvs' = <<>>
    BY <1>1 DEF Request, io_hmap_create
  <2> QED
    BY <2>1 DEF Binding
<1>2. ASSUME NEW k \in Key, NEW v \in Value, NEW blanks \in 0..Spaces,
             HeaderLine(k, v, blanks), kvs' # kvs
      PROVE  \E n \in Name \ DOMAIN Binding(kvs), u \in Value :
                 Binding(kvs') = [m \in DOMAIN Binding(kvs) \cup {n} |->
                                     IF m = n THEN u ELSE Binding(kvs)[m]]
  <2> DEFINE B == Binding(kvs)
  <2>1. /\ \A i \in DOMAIN kvs : name[kvs[i].key] # name[k]
        /\ kvs' = Append(kvs, [key |-> k, value |-> v])
    BY <1>2, LineIsMapStep
  <2>2. kvs \in Seq(Pair) /\ IsTable(kvs)
    BY KvsIsTable DEF HeadersInv, HeadersTypeOK
  <2>3. /\ name[k] \notin DOMAIN B
        /\ Binding(Append(kvs, [key |-> k, value |-> v]))
             = [m \in DOMAIN B \cup {name[k]} |-> IF m = name[k] THEN v ELSE B[m]]
    BY <2>1, <2>2, AppendBinds
  <2>4. name[k] \in Name
    BY StringsAssumption
  <2> HIDE DEF B
  <2> QED
    BY <2>1, <2>3, <2>4 DEF B
<1>3. ASSUME HeaderEnds \/ (\E k \in Key : io_hmap_getc(k)) \/ UNCHANGED headerVars
      PROVE  kvs' = kvs
  BY <1>3 DEF HeaderEnds, io_hmap_getc, headerVars
<1> QED
  BY <1>1, <1>2, <1>3 DEF HeadersNext

\* io_map.c keeps what its header says of it: a name is bound once, keeps its value
\* until the map is made anew, and no line of a request changes what another bound.
THEOREM HeadersAreAMap == HeadersSpec => IsStringMap
<1>1. HeadersInit => AbstractMap!Init
  <2> SUFFICES ASSUME HeadersInit PROVE AbstractMap!Init
    OBVIOUS
  <2>1. kvs = <<>>
    BY DEF HeadersInit
  <2> QED
    BY <2>1 DEF AbstractMap!Init, Bindings
<1>2. HeadersInv /\ [HeadersNext]_headerVars => [AbstractMap!Next]_Bindings
  <2> SUFFICES ASSUME HeadersInv, [HeadersNext]_headerVars
               PROVE  [AbstractMap!Next]_Bindings
    OBVIOUS
  <2>1. Bindings = Binding(kvs) /\ Bindings' = Binding(kvs')
    BY DEF Bindings, Binding
  <2>2. CASE Binding(kvs') = Binding(kvs)
    BY <2>1, <2>2, Zenon
  <2>3. CASE Binding(kvs') = <<>>
    BY <2>1, <2>3, Zenon DEF AbstractMap!Next, AbstractMap!Clear
  <2>4. CASE \E n \in Name \ DOMAIN Binding(kvs), v \in Value :
                Binding(kvs') = [m \in DOMAIN Binding(kvs) \cup {n} |->
                                    IF m = n THEN v ELSE Binding(kvs)[m]]
    <3>1. PICK n \in Name \ DOMAIN Binding(kvs), v \in Value :
                Binding(kvs') = [m \in DOMAIN Binding(kvs) \cup {n} |->
                                    IF m = n THEN v ELSE Binding(kvs)[m]]
      BY <2>4
    <3>2. Bindings' = [m \in DOMAIN Bindings \cup {n} |-> IF m = n THEN v ELSE Bindings[m]]
      BY <2>1, <3>1, Zenon
    <3>3. n \in Name \ DOMAIN Bindings
      BY <2>1, <3>1, Zenon
    <3>4. AbstractMap!Add
      BY <3>2, <3>3 DEF AbstractMap!Add
    <3> QED
      BY <3>4 DEF AbstractMap!Next
  <2> QED
    BY <2>2, <2>3, <2>4, HeadersStepIsMapStep
<1> QED
  BY <1>1, <1>2, HeadersInvHolds, PTL DEF HeadersSpec, IsStringMap, AbstractMap!Spec
=============================================================================
