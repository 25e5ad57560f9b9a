----------------------------- MODULE Arguments -----------------------------
(***************************************************************************)
(* The arguments of examples/rpxys.c and examples/sock-echo.c as one       *)
(* writes them, and where the program is to listen, stated of the          *)
(* addresses and without the code's way of reading them.  An argument is a *)
(* text and what it means.                                                 *)
(***************************************************************************)
EXTENDS Startup

\* The text of an IPv6 address: inet_pton takes it, and it begins neither as a path nor
\* as an IPv4 address, which the code looks for first.
IsIpv6Text(text) ==
    /\ text \in DOMAIN inet_pton
    /\ text \in Seq(1..255) /\ text # <<>> /\ text[1] # Slash
    /\ Closing \notin ToSet(text)
    /\ ~ipv4_isip(text)

Brackets(text) == <<Opening>> \o text \o <<Closing>>

All == {"family", "addr", "port"}

\* Hosts with their text in front of a port, and what of an endpoint they tell with it.
Host4(ip) == [text |-> ipv4_itostr(ip), family |-> "inet", addr |-> ip, told |-> All]
Host6(text) == [text |-> Brackets(text), family |-> "inet6", addr |-> inet_pton[text], told |-> All]

\* What stands for no host tells a port only: nothing, or what sock-echo takes for an
\* address and is none.
NoHost(text) == [text |-> text, family |-> "none", addr |-> <<>>, told |-> {"port"}]

IsNoAddress(text) == At(text, 1) # Slash /\ ~ipv4_isip(text) /\ ~ipv6_isip(text)

IsNoHost(host) ==
    \/ host \in Seq(HostBytes) /\ IsNoAddress(host)
    \/ LET text == SubSeq(host, 2, Len(host) - 1)
       IN /\ host \in Seq(1..255) /\ Len(host) > 2 /\ host = Brackets(text)
          /\ Closing \notin ToSet(text) /\ IsNoAddress(text)

\* Where ports of a host are, as the system has it.
Endpoints(host, ports) ==
    {[at |-> [family |-> host.family, addr |-> host.addr, port |-> port], told |-> host.told] :
        port \in ports}

Single(port) == <<Colon>> \o Decimal(port)
Through(port, last) == Single(port) \o <<Minus>> \o Decimal(last)

\* An address with a port or a range of ports, which is empty if it ends one before it begins.
IsEchoArgument(arg, hosts, ports) ==
    \E host \in hosts, port \in ports, last \in ports :
        /\ last >= port - 1
        /\ \/ arg.text = host.text \o Through(port, last)
           \/ arg.text = host.text \o Single(port) /\ last = port
        /\ arg.means = Endpoints(host, port..last)

Means(arg, family, addr, port, told) ==
    arg.means = {[at |-> [family |-> family, addr |-> addr, port |-> port], told |-> told]}

\* An IPv4 address with a port, or the path of a local socket.  Of an address alone rpxys
\* takes the address, and serves the port that the memory holds; of an IPv6 address with
\* a port it takes the port, and serves the address that the stack holds.  One in
\* brackets without a colon behind them is refused.
IsProxyArgument(arg, ips, texts, ports) ==
    \/ \E ip \in ips, port \in ports :
           arg.text = ipv4_stoa(ip, port) /\ arg.means = Endpoints(Host4(ip), {port})
    \/ \E ip \in ips :
           arg.text = ipv4_itostr(ip) /\ Means(arg, "inet", ip, 0, {"family", "addr"})
    \/ /\ arg.text \in Seq(1..255) /\ arg.text # <<>> /\ arg.text[1] = Slash
       /\ Means(arg, "unix", arg.text, 0, All)
    \/ \E text \in texts, port \in ports :
           /\ arg.text = Brackets(text) \o Single(port)
           /\ Means(arg, "inet6", inet_pton[text], port, {"family", "port"})
    \/ /\ \E text \in texts :
              IsPrefix(Brackets(text), arg.text) /\ At(arg.text, Len(text) + 3) # Colon
       /\ arg.text \in Seq(1..255) /\ arg.means = {}

\* What is no argument of the program means nothing, and one that leads astray anything.
IsArgument(program, arg, hosts, ips, texts, ports) ==
    \/ Invalid(program, arg.text) /\ arg.means = {}
    \/ ~Invalid(program, arg.text) /\ Strays(program, arg.text)
    \/ program = "sock-echo" /\ IsEchoArgument(arg, hosts, ports)
    \/ program # "sock-echo" /\ IsProxyArgument(arg, ips, texts, ports)

AreArguments(hosts, ips, texts, ports) ==
    \A l \in ArgLists : \A k \in DOMAIN l.args :
        IsArgument(l.program, l.args[k], hosts, ips, texts, ports)

\* An address, as the garbage in memory or as something that was read.
Host == [family : {"none", "inet", "inet6", "unix"}, addr : Seq(Nat), port : Nat]
=============================================================================
