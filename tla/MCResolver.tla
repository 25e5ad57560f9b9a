----------------------------- MODULE MCResolver -----------------------------
(* Instances of Resolver for TLC: names, files and answers. *)
EXTENDS Resolver, DnsAnswer

A == 97

MCHosts == {<<A>>, <<A, A, Dot, A>>}

Line(s) == [nameserver |-> s > 0, addr |-> IF s > 0 THEN s ELSE 0]

\* No server, one, three between other lines, and what the code wrote itself.
MCFiles == {<<Line(0)>>, <<Line(1)>>, <<Line(0), Line(1), Line(0), Line(2), Line(3)>>,
            dns_writeResolvConf(<<1, 0, 2>>)}

\* A message with n answers declared, about the name "a", which is at offset 12.
Message(n, body) ==
    <<0, 1, 129, 128, 0, 1, 0, n, 0, 0, 0, 0, 1, A, 0, 0, 1, 0, 1>> \o body

Record(type, data) == <<192, 12, 0, type, 0, 1, 0, 0, 0, 9, 0, Len(data)>> \o data

Ip(n) == <<10, 0, 0, n>>

\* The length of each label and name is right unless the comment says otherwise.
MCAnswers == {
    \* one address
    [msg |-> Message(1, Record(1, Ip(1))), addrs |-> <<Ip(1)>>],
    \* an alias, then three addresses
    [msg |-> Message(4, Record(5, <<1, A, 192, 12>>) \o Record(1, Ip(2)) \o Record(1, Ip(3)) \o Record(1, Ip(4))),
     addrs |-> <<Ip(2), Ip(3), Ip(4)>>],
    \* an alias only
    [msg |-> Message(1, Record(5, <<192, 12>>)), addrs |-> <<>>],
    \* no such name
    [msg |-> Message(0, <<>>), addrs |-> <<>>],
    \* cut in its second record
    [msg |-> Message(2, Record(1, Ip(5)) \o SubSeq(Record(1, Ip(6)), 1, 14)), addrs |-> <<Ip(5)>>],
    \* cut in its first record
    [msg |-> Message(1, SubSeq(Record(1, Ip(6)), 1, 8)), addrs |-> <<>>],
    \* cut behind a label
    [msg |-> Message(1, <<1, A>>), addrs |-> <<>>],
    \* a pointer to itself
    [msg |-> Message(1, <<192, 19, 0, 1, 0, 1>>), addrs |-> <<>>],
    \* two pointers to each other
    [msg |-> Message(1, <<192, 21, 192, 19, 0, 1>>), addrs |-> <<>>]}

Meant(type, data) == [type |-> type, class |-> 1, data |-> data]

\* The records of the answers that are read, and where they begin.
MCRecords == {
    [records |-> <<Meant(1, Ip(1))>>, at |-> <<19, 35>>],
    [records |-> <<Meant(5, <<1, A, 192, 12>>), Meant(1, Ip(2)), Meant(1, Ip(3)), Meant(1, Ip(4))>>,
     at |-> <<19, 35, 51, 67, 83>>],
    [records |-> <<Meant(5, <<192, 12>>)>>, at |-> <<19, 33>>],
    [records |-> <<Meant(1, Ip(5))>>, at |-> <<19, 35>>],
    [records |-> <<>>, at |-> <<19>>]}

\* The hypotheses of the theorems QueryNamesEveryHost and ResultIsWhatWasMeant: the names are
\* domains, and five of the answers are made of these records.  The others are refused or
\* cannot be relied on.
ASSUME \A h \in Hosts : IsDomain(h)

ASSUME LET made(a) == \E r \in MCRecords : /\ IsAnswer(a.msg, <<A>>, r.records, r.at)
                                           /\ a.addrs = Addresses(r.records)
           unread(a) == \A room \in 0..2 : LET parsed == parse_dns_response(a.msg, room)
                                           IN parsed.status = "ok" => parsed.ret < 0
       IN /\ Cardinality({a \in Answers : made(a)}) = 5
          /\ \A a \in Answers : made(a) \/ unread(a)

ASSUME AnswersAreRead
=============================================================================
