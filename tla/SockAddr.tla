------------------------------ MODULE SockAddr ------------------------------
(***************************************************************************)
(* Socket addresses, library/io_sock_addr.c, and the two directions of     *)
(* io_ipv6.c.  io_sock_addr_t is a record of family, addr and port; addr   *)
(* is the four bytes of an IPv4 address, the eight words of an IPv6 one or *)
(* the path of a local socket.  unisa_t, the form the system takes, has    *)
(* the sixteen bytes of an IPv6 address, and no port with a path.          *)
(*                                                                         *)
(* The readers fill in a record of the caller's, and leave of it what they *)
(* do not set.                                                             *)
(***************************************************************************)
EXTENDS Ipv4

CONSTANTS
    inet_pton,  \* of the C library: a function from the texts of IPv6 addresses to their bytes
    PortSize    \* 2^16: ports are unsigned short

\* inet_pton takes no text with a bracket in it.
ASSUME SockAddrAssumption ==
    /\ PortSize \in Nat \ {0}
    /\ \A text \in DOMAIN inet_pton :
           /\ Closing \notin ToSet(text)
           /\ inet_pton[text] \in Seq(Byte) /\ Len(inet_pton[text]) = 16

ipv6_ntoh(n) == [w \in 1..8 |-> 256 * n[2 * w - 1] + n[2 * w]]

ipv6_hton(h) == [b \in 1..16 |-> IF b % 2 = 1 THEN h[(b + 1) \div 2] \div 256 ELSE h[b \div 2] % 256]

ipv6_isip(text) == text \in DOMAIN inet_pton

\* Without an address in the text the words are what the stack held, junk.
ipv6_atoh(text, junk) ==
    IF ipv6_isip(text) THEN [ret |-> 0, addr |-> ipv6_ntoh(inet_pton[text])]
    ELSE [ret |-> -1, addr |-> junk]

\* An address without a port.
io_sock_atohost(host, a) ==
    IF At(a, 1) = Slash THEN [host EXCEPT !.family = "unix", !.addr = a]
    ELSE IF ipv4_isip(a) THEN [host EXCEPT !.family = "inet", !.addr = ipv4_atoi(a)]
    ELSE IF ipv6_isip(a) THEN [host EXCEPT !.family = "inet6", !.addr = ipv6_atoh(a, <<>>).addr]
    ELSE host

Read(host) == [ok |-> TRUE, host |-> host]
Refused(host) == [ok |-> FALSE, host |-> host]

\* What is copied of a text that begins with a bracket: all up to the first "]" and the
\* colon behind it, or nothing if there is none.  The buffer, of 48 bytes, is not checked.
Copied(a) ==
    LET b == Behind(a, 2, 1..255 \ {Closing}) + 2
    IN IF At(a, b - 2) = Closing /\ At(a, b - 1) = Colon THEN SubSeq(a, 2, b - 1) ELSE <<>>

\* The text that is handed on as an IPv6 address ends with "]:", which none does, and
\* the one that was read is refused.
AtosIpv6(host, a, junk) ==
    LET read == ipv6_atoh(Copied(a), junk)
        filled == [host EXCEPT !.addr = read.addr]
    IN IF Copied(a) = <<>> THEN Refused(host)
       ELSE IF read.ret = 0 THEN Refused(filled)
       ELSE Read([filled EXCEPT !.family = "inet6", !.port = atoi(a, Len(Copied(a)) + 2) % PortSize])

\* Without a colon the port stays.
AtosIpv4(host, a) ==
    LET colon == Behind(a, 1, 1..255 \ {Colon})
        inet == [host EXCEPT !.family = "inet", !.addr = ipv4_atoi(a)]
    IN IF ~ipv4_isip(a) THEN Refused(host)
       ELSE IF At(a, colon) = Colon THEN Read([inet EXCEPT !.port = atoi(a, colon + 1) % PortSize])
       ELSE Read(inet)

\* An address with a port.
io_sock_atos(host, a, junk) ==
    IF At(a, 1) = Slash THEN Read([host EXCEPT !.family = "unix", !.addr = a])
    ELSE IF At(a, 1) = Opening THEN AtosIpv6(host, a, junk)
    ELSE AtosIpv4(host, a)

\* A path that does not fit into sun_path with its end is copied over what lies behind it.
Overflows(sa) == sa.family = "unix" /\ Len(sa.addr) >= 108

\* An address of another family has no form the system takes.
io_sock_set_addr(sa) ==
    CASE sa.family = "inet" -> [family |-> "inet", addr |-> sa.addr, port |-> sa.port]
      [] sa.family = "inet6" -> [family |-> "inet6", addr |-> ipv6_hton(sa.addr), port |-> sa.port]
      [] sa.family = "unix" -> [family |-> "unix", addr |-> sa.addr, port |-> 0]
      [] sa.family \notin {"inet", "inet6", "unix"} -> [family |-> "none", addr |-> <<>>, port |-> 0]
=============================================================================
