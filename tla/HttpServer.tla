----------------------------- MODULE HttpServer -----------------------------
(***************************************************************************)
(* The HTTP connection of examples/multi_server_http.i and of the gateway  *)
(* examples/rpxys.c, which was made from it: the gateway answers 204 or    *)
(* 400 to the first request and is to close then.                          *)
(***************************************************************************)
EXTENDS Connection

CONSTANT Gateway   \* the connection is one of rpxys.c

VARIABLES
    params,      \* "NULL", or the map: does its Connection header keep the connection
    maps         \* maps allocated and not freed

httpVars == <<params, maps>>

(***************************************************************************)
(* "keep" and "end" are good: the server keeps the connection when there   *)
(* is a Connection header that does not say keep-alive.  "badline" has no  *)
(* request line the parser takes, "badhead" no header it takes, an absent  *)
(* one included.                                                           *)
(***************************************************************************)
Kinds == {"keep", "end", "badline", "badhead"}

Good(n) == messages[n] \in {"keep", "end"}

HttpInit == params = "NULL" /\ maps = 0

http_accept == ~Gateway /\ Accept(FALSE, 0) /\ UNCHANGED httpVars

\* The gateway keeps the memory of a connection it could not accept.
proxy_accept == Gateway /\ Accept(TRUE, 0) /\ UNCHANGED httpVars

\* v_http_con_close, called by io_d_free through io_stream_free.
v_http_con_close ==
    /\ maps' = IF params = "NULL" THEN maps ELSE maps - 1
    /\ UNCHANGED params

\* Freed in the event method, and named in the log behind that by the gateway.
v_http_con_all_sent ==
    IF state = "CLOSE" THEN FreeInEvent /\ v_http_con_close
    ELSE UNCHANGED <<conn, objects, httpVars>>

-----------------------------------------------------------------------------
(* Answers *)

\* Mutant: the text of a request that was answered stays.
http_end_KeepsText(map, text) ==
    /\ state' = IF map = "keeps" THEN "RECV" ELSE "CLOSE"
    /\ buf' = text

\* A connection that is kept drops the text, all that is behind the request included.
http_end(map, text) ==
    /\ state' = IF map = "keeps" THEN "RECV" ELSE "CLOSE"
    /\ buf' = IF map = "keeps" THEN <<>> ELSE text

\* http_empty_response of the gateway, behind its one write.
proxy_end(text) == state' = "CLOSE" /\ buf' = text /\ UNCHANGED conn

\* n writes, which call all_sent() in a state that is not CLOSE yet, and then
\* http_end, which looks Connection up in a map that need not be there.
Respond(n, map, answer, text) ==
    /\ out' \in Written(out, n)
    /\ answers' = Append(answers, answer)
    /\ IF Gateway
       THEN proxy_end(text)
       ELSE IF map = "NULL"
       THEN conn' = "undefined" /\ buf' = text /\ UNCHANGED state
       ELSE UNCHANGED conn /\ http_end(map, text)

\* Mutant: every request gets a map of its own.
io_hmap_create_Anew == maps' = maps + 1

\* The map of the connection is used again.
io_hmap_create == maps' = IF params = "NULL" THEN maps + 1 ELSE maps

\* The Connection header a request of a kind leaves in the map; a header that is
\* refused may have been read so far or not.
ConnectionHeader(kind) ==
    CASE kind = "keep" -> {"keeps"} [] kind = "end" -> {"ends"} [] OTHER -> {"keeps", "ends"}

\* text holds the end of some request, and is parsed from its head.  No line, or a
\* line that is refused, is answered with the map of the request before.
Parse(text) ==
    LET n == Head(text).n
        kind == messages[n]
    IN IF Head(text).part # "text" \/ kind = "badline"
       THEN /\ Respond(1, params, [n |-> n, good |-> FALSE], text)
            /\ UNCHANGED httpVars
       ELSE /\ io_hmap_create
            /\ params' \in ConnectionHeader(kind)
            /\ \E writes \in IF Good(n) /\ ~Gateway THEN 1..2 ELSE {1} :
                   Respond(writes, params', [n |-> n, good |-> Good(n)], text)

Stored(text) == buf' = text

\* Mutant: no place for the final zero.
ToRecv_OffByOne == Size - Len(buf)

ToRecv == Size - 1 - Len(buf)

v_http_con_recv ==
    LET chunk == Chunk(ToRecv)
        text == buf \o chunk
    IN /\ Read(ToRecv)
       /\ torn' = (torn \/ Tears(chunk))
       /\ UNCHANGED objects
       /\ IF HasEnd(chunk) THEN Parse(text)
          ELSE Stored(text) /\ UNCHANGED <<conn, state, httpVars, out, answers>>

HttpRecv == v_http_con_recv \/ (RecvEnds(ToRecv) /\ v_http_con_close)

HttpNext ==
    \/ http_accept \/ proxy_accept
    \/ Peer(Kinds) /\ UNCHANGED httpVars
    \/ HttpRecv
    \/ RecvFails /\ v_http_con_close
    \/ SendQueued(v_http_con_all_sent) /\ (out' > 0 => UNCHANGED httpVars)
    \/ SendFails /\ v_http_con_close
=============================================================================
