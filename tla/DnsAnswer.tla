----------------------------- MODULE DnsAnswer -----------------------------
(***************************************************************************)
(* What the lookup of library/oi_dns.c relies on, stated of the bytes and  *)
(* without the code's way of writing and reading them: which names can be  *)
(* asked for, when a message asks for one, and when it answers with some   *)
(* records, each of which points back to the name that was asked for.      *)
(***************************************************************************)
EXTENDS DnsMessage

\* A name of labels of 1 to 63 bytes, with a dot between two of them, that fits into the
\* room for a name with a dot behind it and the final zero.
IsDomain(d) ==
    /\ d \in Seq(Byte) /\ Len(d) \in 1..(NameSize - 2)
    /\ d[1] # Dot /\ d[Len(d)] # Dot
    /\ \A j \in 1..(Len(d) - 1) : d[j] = Dot => d[j + 1] # Dot
    /\ \A j \in 1..(Len(d) - 63) : \E l \in j..(j + 63) : d[l] = Dot

\* A label begins at j, and it has n bytes.
Begin(d, j) == j \in 1..Len(d) /\ (j = 1 \/ d[j - 1] = Dot)

IsLabel(d, j, n) ==
    /\ n >= 1 /\ j + n <= Len(d) + 1
    /\ \A l \in j..(j + n - 1) : d[l] # Dot
    /\ j + n = Len(d) + 1 \/ d[j + n] = Dot

\* Behind its header msg names d: the length before each label, and zero at the end.
Names(msg, d) ==
    /\ Len(d) + 14 <= Len(msg)
    /\ \A j \in 1..Len(d) : Begin(d, j) => IsLabel(d, j, At(msg, 11 + j))
    /\ \A j \in 1..Len(d) : d[j] # Dot => At(msg, 12 + j) = d[j]
    /\ At(msg, 13 + Len(d)) = 0

\* The record is at o, its name a pointer to the name behind the header, and ends at end.
RecordAt(msg, o, record, end) ==
    /\ end = o + 12 + Len(record.data) /\ end <= Len(msg)
    /\ At(msg, o) = 192 /\ At(msg, o + 1) = 12
    /\ Word(msg, o + 2) = record.type /\ Word(msg, o + 4) = record.class
    /\ Word(msg, o + 10) = Len(record.data)
    /\ Bytes(msg, o + 12, Len(record.data)) = record.data

\* A record begins at o, but the message ends before it does.
CutAt(msg, o) ==
    /\ o < Len(msg) => At(msg, o) = 192
    /\ o + 1 < Len(msg) => At(msg, o + 1) = 12
    /\ o + 12 > Len(msg) \/ o + 12 + Word(msg, o + 10) > Len(msg)

DnsRecord == [type : Nat, class : Nat, data : Seq(Byte)]

\* msg answers the question for d with the records, the j-th of them at at[j]; of the
\* answers it declares, those behind them may be cut off.
IsAnswer(msg, d, records, at) ==
    LET n == Len(records)
    IN /\ IsDomain(d) /\ Names(msg, d)
       /\ records \in Seq(DnsRecord) /\ At(msg, 6) < 128 /\ Word(msg, 6) > 0 /\ n <= Word(msg, 6)
       /\ at \in [1..(n + 1) -> Nat] /\ at[1] = Len(d) + 18 /\ at[1] <= Len(msg)
       /\ \A j \in 1..n : RecordAt(msg, at[j], records[j], at[j + 1])
       /\ n < Word(msg, 6) => CutAt(msg, at[n + 1])

\* The addresses the records give, in their order.
Addresses(records) ==
    FlattenSeq([j \in DOMAIN records |->
                    IF IsAddress(records[j]) THEN <<records[j].data>> ELSE <<>>])

\* The message of the answer gives records with the addresses it means, or it is refused
\* whatever room there is, or it cannot be relied on.
IsMade(answer) ==
    \/ \E d, records, at : IsAnswer(answer.msg, d, records, at) /\ answer.addrs = Addresses(records)
    \/ \A room \in 0..2 : LET parsed == parse_dns_response(answer.msg, room)
                          IN parsed.status = "ok" => parsed.ret < 0
=============================================================================
