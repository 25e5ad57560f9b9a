----------------------------- MODULE MCStartup -----------------------------
(* Instances of Startup for TLC: command lines and what they mean. *)
EXTENDS Arguments, TLC

Ip1 == <<10, 99, 100, 255>>
Ip2 == <<0, 105, 9, 200>>

\* "::1" and "fe80::2"
V6One == <<58, 58, 49>>
V6Two == <<102, 101, 56, 48, 58, 58, 50>>

MCInetPton == (V6One :> [b \in 1..16 |-> IF b = 16 THEN 1 ELSE 0])
           @@ (V6Two :> [b \in 1..16 |-> CASE b = 1 -> 254 [] b = 2 -> 128 [] b = 16 -> 2 [] OTHER -> 0])

MCGarbage == {[family |-> "none", addr |-> <<0, 0, 0, 0>>, port |-> 0],
              [family |-> "inet6", addr |-> [w \in 1..8 |-> 7], port |-> 9]}

Arg(text, means) == [text |-> text, means |-> means]

\* Nobody's argument: "x", and a port of six digits.
Wrong == {Arg(<<120>>, {}), Arg(Host4(Ip1).text \o <<Colon, 49, 50, 51, 52, 53, 54>>, {})}

\* No host: a port alone, behind a backslash, or behind "1.2".
Nowhere == {NoHost(<<>>), NoHost(<<92>>), NoHost(<<49, Dot, 50>>)}

\* Fifty digits and a port, and "[/]:7".
Astray == {Arg([k \in 1..50 |-> 49] \o Single(7), {}), Arg(Brackets(<<Slash>>) \o Single(7), {})}

EchoArgs == Wrong \cup {
    Arg(Host4(Ip1).text \o Single(80), Endpoints(Host4(Ip1), {80})),
    Arg(Host4(Ip2).text \o Through(65534, 65535), Endpoints(Host4(Ip2), 65534..65535)),
    Arg(Host4(Ip1).text \o Through(79, 81), Endpoints(Host4(Ip1), 79..81)),
    Arg(Host4(Ip2).text \o Through(81, 80), {}),
    Arg(Brackets(V6One) \o Single(80), Endpoints(Host6(V6One), {80})),
    Arg(Brackets(V6Two) \o Through(7, 7), Endpoints(Host6(V6Two), {7}))}

MoreEchoArgs == Astray
    \cup {Arg(host.text \o Single(80), Endpoints(host, {80})) : host \in Nowhere}
    \cup {Arg(NoHost(<<>>).text \o Through(79, 81), Endpoints(NoHost(<<>>), 79..81))}

ProxyArgs == {
    Arg(<<120>>, {}),
    Arg(ipv4_stoa(Ip1, 80), Endpoints(Host4(Ip1), {80})),
    Arg(ipv4_stoa(Ip2, 10000), Endpoints(Host4(Ip2), {10000})),
    \* "[::1]80"
    Arg(Brackets(V6One) \o Decimal(80), {}),
    \* "/s"
    Arg(<<Slash, 115>>, {[at |-> [family |-> "unix", addr |-> <<Slash, 115>>, port |-> 0], told |-> All]})}

LongPath == [k \in 1..108 |-> IF k = 1 THEN Slash ELSE 115]

MoreProxyArgs == {
    Arg(ipv4_itostr(Ip1), {[at |-> [family |-> "inet", addr |-> Ip1, port |-> 0], told |-> {"family", "addr"}]}),
    Arg(Brackets(V6One) \o Single(80),
        {[at |-> [family |-> "inet6", addr |-> MCInetPton[V6One], port |-> 80], told |-> {"family", "port"}]}),
    Arg(Brackets(V6Two), {}),
    Arg(LongPath, {[at |-> [family |-> "unix", addr |-> LongPath, port |-> 0], told |-> All]}),
    \* In brackets, forty-six letters.
    Arg(Brackets([k \in 1..46 |-> 97]) \o Single(80), {})}

Lists(program, args) ==
    [program : {program}, args : {<<>>} \cup {<<a, b>> : a \in args, b \in args}]

MCArgLists ==
    Lists("sock-echo", EchoArgs) \cup Lists("rpxys", ProxyArgs)
    \cup Lists("sock-echo", MoreEchoArgs) \cup Lists("rpxys", MoreProxyArgs)
    \cup [program : {"sock-echo"}, args : {[k \in 1..4 |-> CHOOSE a \in EchoArgs : a.means # {}]}]

\* What the arguments may leave where the memory holds one of confs.
Left(confs) ==
    confs \cup UNION {{r.serv.conf : r \in Readings(read[1], read[2].text, conf)} :
                         read \in {read \in ({"sock-echo"} \X (EchoArgs \cup MoreEchoArgs))
                                              \cup ({"rpxys"} \X (ProxyArgs \cup MoreProxyArgs)) :
                                       ~Invalid(read[1], read[2].text) /\ ~Strays(read[1], read[2].text)},
                         conf \in confs}

\* The hypothesis of the theorem ListensAtWhatIsRead: an address holds garbage, or what an
\* argument left there over garbage or over what another left.
ASSUME ArgumentsAreRead(Left(Left(MCGarbage)))

\* The hypotheses of the theorem ListensWhereWritten.
ASSUME
    /\ MCGarbage \subseteq Host
    /\ \A text \in DOMAIN MCInetPton : IsIpv6Text(text)
    /\ \A host \in Nowhere : IsNoHost(host.text)
    /\ AreArguments({Host4(ip) : ip \in {Ip1, Ip2}} \cup {Host6(text) : text \in DOMAIN MCInetPton} \cup Nowhere,
                    {Ip1, Ip2}, DOMAIN MCInetPton, {7, 79, 80, 81, 10000, 65534, 65535})
    /\ PortSize <= 10 * Tens[5] /\ PortSize < CountSize
=============================================================================
