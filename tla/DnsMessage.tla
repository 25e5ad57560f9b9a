----------------------------- MODULE DnsMessage -----------------------------
(***************************************************************************)
(* The messages of library/oi_dns.c: the query that is made of a domain    *)
(* name and the parser of an answer.  A message is the sequence of its     *)
(* bytes; offsets count from 0 as in the code, so that the byte at offset  *)
(* o is msg[o + 1].                                                        *)
(*                                                                         *)
(* Reading a name or a record gives "ok", "fail" (-1, -2 or NULL),         *)
(* "garbage" when it uses a byte behind the message, which is whatever the *)
(* receive buffer holds there, and "loops" when pointers lead around in a  *)
(* circle and the recursion has no end.                                    *)
(***************************************************************************)
EXTENDS Integers, Sequences, SequencesExt

CONSTANTS
    Dot,       \* the byte '.'
    NameSize   \* RR_NAMESIZE: room for a name, its final zero included

ASSUME NameAssumption == Dot \in 1..255 /\ NameSize \in Nat /\ NameSize > 8

Byte == 0..255

HeaderSize == 12

At(msg, o) == msg[o + 1]

Word(msg, o) == 256 * At(msg, o) + At(msg, o + 1)

Bytes(msg, o, n) == SubSeq(msg, o + 1, o + n)

-----------------------------------------------------------------------------
(* Names *)

Failed(why) == [status |-> why, name |-> <<>>, end |-> 0]

(***************************************************************************)
(* read is at offset o with k bytes in the name, hops pointers behind the  *)
(* last label: more of them than the message has bytes are a circle.  Only *)
(* a pointer to itself is refused.  A label may end where the message      *)
(* does, and the byte behind it is read all the same.  The cursor of the   *)
(* caller stands behind the first pointer.                                 *)
(***************************************************************************)
read_on(msg, read, o, k, hops) ==
    LET limit == Len(msg)
        len == At(msg, o)
        target == 256 * (len % 64) + At(msg, o + 1)
        jump == read[<<target, k, hops + 1>>]
        rest == read[<<o + 1 + len, k + len + 1, 0>>]
    IN CASE o >= limit -> Failed("garbage")
         [] o < limit /\ len = 0 -> [status |-> "ok", name |-> <<>>, end |-> o + 1]
         [] o < limit /\ len # 0 /\ o + 1 >= limit -> Failed("fail")
         [] o + 1 < limit /\ len >= 64 ->
                IF target >= limit \/ target = o \/ k >= NameSize THEN Failed("fail")
                ELSE IF hops > limit THEN Failed("loops")
                ELSE IF jump.status = "ok" THEN [jump EXCEPT !.end = o + 2] ELSE jump
         [] o + 1 < limit /\ len \in 1..63 ->
                IF o + 1 + len > limit \/ len + k + 2 > NameSize THEN Failed("fail")
                ELSE IF rest.status = "ok"
                     THEN [rest EXCEPT !.name = Bytes(msg, o + 1, len) \o <<Dot>> \o @]
                     ELSE rest

reader(msg) ==
    LET read[p \in Nat \X Nat \X Nat] == read_on(msg, read, p[1], p[2], p[3]) IN read

get_objectname(msg, start) ==
    IF start < Len(msg) THEN reader(msg)[<<start, 0, 0>>] ELSE Failed("fail")

-----------------------------------------------------------------------------
(* Records *)

NoRecord(why) == [status |-> why, type |-> 0, class |-> 0, data |-> <<>>, end |-> 0]

\* The cursor passes all of the data, of which NameSize - 4 bytes are kept.
read_record(msg, here, question) ==
    LET limit == Len(msg)
        name == get_objectname(msg, here)
        h == name.end
        len == Word(msg, h + 8)
        record == [status |-> "ok", type |-> Word(msg, h), class |-> Word(msg, h + 2),
                   data |-> <<>>, end |-> h + 4]
    IN CASE name.status # "ok" -> NoRecord(name.status)
         [] name.status = "ok" /\ h + 4 > limit -> NoRecord("fail")
         [] name.status = "ok" /\ h + 4 <= limit /\ question -> record
         [] name.status = "ok" /\ h + 4 <= limit /\ ~question ->
                IF h + 10 > limit \/ h + 10 + len > limit THEN NoRecord("fail")
                ELSE [record EXCEPT
                        !.data = Bytes(msg, h + 10, IF len > NameSize - 4 THEN NameSize - 4 ELSE len),
                        !.end = h + 10 + len]

IsAddress(record) == record.type = 1 /\ record.class = 1 /\ Len(record.data) = 4

\* The number of answers is read into a signed short.
ancount(msg) ==
    LET n == Word(msg, 6) IN IF n >= 32768 THEN n - 65536 ELSE n

Parsed(ret, addrs) == [status |-> "ok", ret |-> ret, addrs |-> addrs]

\* The function does not return, or returns what nobody can tell.
Lost(why) == [status |-> why, ret |-> 0, addrs |-> <<>>]

\* The answers from the j-th on, which is at here, behind those that were found.  A
\* record that cannot be read ends them, and is an error only if no address was found.
parse_on(msg, limit, answers, j, here, found) ==
    LET y == read_record(msg, here, FALSE)
        more == IF IsAddress(y) /\ Len(found) < limit THEN Append(found, y.data) ELSE found
    IN IF j >= ancount(msg) THEN Parsed(Len(found), found)
       ELSE IF y.status = "ok" THEN answers[<<j + 1, y.end, more>>]
       ELSE IF y.status # "fail" THEN Lost(y.status)
       ELSE Parsed(IF found = <<>> THEN -1 ELSE Len(found), found)

parser(msg, limit) ==
    LET answers[p \in Nat \X Nat \X Seq(Seq(Byte))] ==
            parse_on(msg, limit, answers, p[1], p[2], p[3])
    IN answers

\* Nothing compares the length with what is read of the header.
parse_dns_response(msg, limit) ==
    LET question == read_record(msg, HeaderSize, TRUE)
    IN IF Len(msg) < 8 THEN Lost("garbage")
       ELSE IF ancount(msg) = 0 \/ question.status = "fail" THEN Parsed(-1, <<>>)
       ELSE IF question.status = "ok" THEN parser(msg, limit)[<<0, question.end, <<>>>>]
       ELSE Lost(question.status)

-----------------------------------------------------------------------------
(* The query *)

\* Bytes of domain from its i-th on that are no dot.
RunFrom(domain, i) ==
    CHOOSE n \in 0..(Len(domain) - i + 1) :
        /\ \A j \in i..(i + n - 1) : domain[j] # Dot
        /\ i + n > Len(domain) \/ domain[i + n] = Dot

\* Mutant: the length of the last label is not written.
mk_dns_query_NoLast(domain) ==
    LET labels == [i \in 1..(Len(domain) + 1) |->
                       IF i > 1 /\ domain[i - 1] # Dot THEN domain[i - 1]
                       ELSE IF i + RunFrom(domain, i) > Len(domain) THEN 0
                       ELSE RunFrom(domain, i)]
    IN <<1, 0, 1, 0, 0, 1, 0, 0, 0, 0, 0, 0>> \o labels \o <<0, 0, 1, 0, 1>>

\* The id is 1 in the order of bytes of the host; every dot, and the byte before the
\* domain, gives way to the length of the label behind it.
mk_dns_query(domain) ==
    LET labels == [i \in 1..(Len(domain) + 1) |->
                       IF i > 1 /\ domain[i - 1] # Dot THEN domain[i - 1]
                       ELSE RunFrom(domain, i) % 256]
    IN <<1, 0, 1, 0, 0, 1, 0, 0, 0, 0, 0, 0>> \o labels \o <<0, 0, 1, 0, 1>>
=============================================================================
