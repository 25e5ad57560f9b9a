--------------------------- MODULE ResolverProofs ---------------------------
(***************************************************************************)
(* Theorems about Resolver, for any names, files, answers and servers.     *)
(* The first two use nothing of what a message says.  The others are about *)
(* the messages: the code's reader of names and its parser are recursive   *)
(* functions, of which it is first proved that there is one that satisfies *)
(* the equation; what they give then follows by induction.                 *)
(***************************************************************************)
EXTENDS Resolver, DnsAnswer, ListLemmas, FiniteSetTheorems, TLAPS

\* The one socket of a call is open until it is over.
SocketInv ==
    /\ sd \in {-1, 0, 3}
    /\ open \subseteq {sd} \ {-1}
    /\ pc = "start" => open = {}
    /\ SocketClosed

\* What was passed over in the rounds before this one.
Passed == (round - 1) * Len(servers)

\* RetriesAreEarned, where it says something.
Earned ==
    IF call = "gethosts" THEN refused + unsent = Passed + i - 1
    ELSE refused = IF pc = "send" THEN Passed ELSE Passed + i - 1

\* RetriesAreEarned made inductive: the loop variable stays within the servers, and
\* nothing has been refused before the loops.
LoopInv ==
    /\ call \in {"gethosts", "resolve"}
    /\ file \in Files
    /\ round \in Nat /\ i \in Nat /\ refused \in Nat /\ unsent \in Nat
    /\ pc \in {"start", "configure", "send", "receive", "done", "undefined"}
    /\ pc \in {"start", "configure"} => i = 1 /\ refused = 0 /\ unsent = 0
    /\ pc \in {"send", "receive"} =>
           Len(servers) \in Nat /\ i \in 1..Len(servers) /\ round >= 1 /\ Earned

-----------------------------------------------------------------------------
(* The socket *)

LEMMA ExitCloses ==
    ASSUME SocketInv, NEW ret, _exit(ret), sd' = sd
    PROVE  SocketInv'
<1>1. pc' = "done" /\ open' = IF sd > 0 THEN open \ {sd} ELSE open
  BY DEF _exit, Finish
<1>2. CASE sd = 3
  BY <1>1, <1>2 DEF SocketInv, SocketClosed
<1>3. CASE sd # 3
  BY <1>1, <1>3 DEF SocketInv, SocketClosed
<1> QED
  BY <1>2, <1>3

LEMMA StillOpen ==
    ASSUME SocketInv, sd' = sd, open' = open, pc' \notin {"start", "done"}
    PROVE  SocketInv'
BY DEF SocketInv, SocketClosed

LEMMA AdvanceKeepsSocket ==
    ASSUME SocketInv, NEW first, first \in {"send", "receive"}, pc \in {"send", "receive"},
           Advance(first), sd' = sd
    PROVE  SocketInv'
<1>1. CASE _exit(retval)
  BY <1>1, ExitCloses
<1>2. CASE ~_exit(retval)
  BY <1>2, StillOpen DEF Advance
<1> QED
  BY <1>1, <1>2

LEMMA TakeKeepsSocket ==
    ASSUME SocketInv, NEW answer, Take(answer)
    PROVE  SocketInv'
<1> DEFINE parsed == Parse(answer)
<1>1. sd' = sd /\ pc = "receive"
  BY DEF Take
<1>2. CASE _exit(-1) \/ _exit(parsed.ret)
  BY <1>1, <1>2, ExitCloses
<1>3. CASE ~(_exit(-1) \/ _exit(parsed.ret))
  <2>1. (pc' = "undefined" /\ open' = open) \/ Refuse
    BY <1>3 DEF Take
  <2>2. CASE Refuse
    <3>1. open' = open /\ pc' \in {"send", "receive"}
      BY <1>3, <2>2 DEF Refuse
    <3> QED
      BY <1>1, <3>1, StillOpen
  <2> QED
    BY <1>1, <2>1, <2>2, StillOpen
<1> QED
  BY <1>2, <1>3

LEMMA SocketStep ==
    ASSUME SocketInv, [Next]_vars
    PROVE  SocketInv'
<1>1. CASE HostIsAddress
  BY <1>1 DEF HostIsAddress, Finish, SocketInv, SocketClosed
<1>2. CASE \E fd \in {-1, 0, 3} : Socket(fd)
  <2>1. PICK fd \in {-1, 0, 3} : Socket(fd)
    BY <1>2
  <2>2. CASE fd = -1
    <3>1. fd < 0
      BY <2>2
    <3>2. pc = "start" /\ sd' = fd /\ Finish(-1) /\ open' = open
      BY <2>1, <3>1 DEF Socket
    <3>3. open' = {} /\ pc' = "done"
      BY <3>2 DEF Finish, SocketInv
    <3> QED
      BY <2>2, <3>2, <3>3 DEF SocketInv, SocketClosed
  <2>3. CASE fd # -1
    BY <2>1, <2>3 DEF Socket, SocketInv, SocketClosed
  <2> QED
    BY <2>2, <2>3
<1>3. CASE \E bound \in BOOLEAN : Configure(bound)
  <2>1. CASE _exit(-1)
    BY <1>3, <2>1, ExitCloses DEF Configure
  <2>2. CASE ~_exit(-1)
    BY <1>3, <2>2, StillOpen DEF Configure
  <2> QED
    BY <2>1, <2>2
<1>4. CASE SendOk
  BY <1>4, StillOpen DEF SendOk
<1>5. CASE SendFails
  <2>1. CASE _exit(retval)
    BY <1>5, <2>1, ExitCloses DEF SendFails
  <2>2. CASE ~_exit(retval)
    BY <1>5, <2>2, AdvanceKeepsSocket DEF SendFails
  <2> QED
    BY <2>1, <2>2
<1>6. CASE Receive
  BY <1>6, TakeKeepsSocket DEF Receive
<1>7. CASE ReceiveFails \/ Timeout
  BY <1>7, ExitCloses DEF ReceiveFails, Timeout
<1>8. CASE Arrive \/ Expire \/ UNCHANGED vars
  BY <1>8 DEF Arrive, Expire, vars, SocketInv, SocketClosed
<1> QED
  BY <1>1, <1>2, <1>3, <1>4, <1>5, <1>6, <1>7, <1>8 DEF Next, Lookup

\* A call that is over has closed its socket, on every way out, unless that is
\* descriptor 0, which the code takes for none.
THEOREM NoSocketStaysOpen == Spec => []SocketClosed
<1>1. Init => SocketInv
  BY DEF Init, SocketInv, SocketClosed
<1>2. SocketInv /\ [Next]_vars => SocketInv'
  BY SocketStep
<1>3. SocketInv => SocketClosed
  BY DEF SocketInv
<1> QED
  BY <1>1, <1>2, <1>3, PTL DEF Spec
-----------------------------------------------------------------------------
(* The loops *)

LEMMA RoundIsWhole ==
    ASSUME NEW r \in Nat, NEW l \in Nat
    PROVE  (r + 1 - 1) * l = (r - 1) * l + l
OBVIOUS

\* A file with a server gives a list of at least one.
LEMMA ServersAreCounted ==
    ASSUME NEW lines \in Files, dns_readResolvConf(lines) # <<>>
    PROVE  /\ Len(dns_readResolvConf(lines)) \in Nat
           /\ Len(dns_readResolvConf(lines)) >= 1
<1> DEFINE named == {k \in DOMAIN lines : lines[k].nameserver}
           n == IF Cardinality(named) < MaxServers THEN Cardinality(named) ELSE MaxServers
           nth(s) == CHOOSE k \in named : Cardinality({l \in named : l <= k}) = s
           ips == [s \in 1..n |-> lines[nth(s)].addr]
<1>1. dns_readResolvConf(lines) = ips
  BY DEF dns_readResolvConf
<1>2. n \in Nat
  <2>1. DOMAIN lines = 1..Len(lines) /\ Len(lines) \in Nat
    BY ResolverAssumption
  <2>2. IsFiniteSet(1..Len(lines))
    BY <2>1, FS_Interval
  <2>3. named \subseteq 1..Len(lines)
    BY <2>1
  <2>4. IsFiniteSet(named)
    BY <2>2, <2>3, FS_Subset
  <2> QED
    BY <2>4, FS_CardinalityType, ResolverAssumption
<1> HIDE DEF n, nth
<1>3. Len(ips) = n
  BY <1>2
<1>4. n = 0 => ips = <<>>
  BY <1>2
<1> QED
  BY <1>1, <1>2, <1>3, <1>4

LEMMA ConfigureEarns ==
    ASSUME LoopInv, NEW bound \in BOOLEAN, Configure(bound)
    PROVE  LoopInv'
<1>1. /\ pc = "configure" /\ i = 1 /\ refused = 0 /\ unsent = 0
      /\ UNCHANGED <<call, file, i, refused, unsent>>
      /\ servers' = dns_readResolvConf(file)
  BY DEF Configure, LoopInv, argVars
<1>2. CASE pc' = "done" /\ round' = round
  BY <1>1, <1>2 DEF LoopInv
<1>3. CASE ~(pc' = "done" /\ round' = round)
  <2>1. servers' # <<>> /\ pc' = "send" /\ round' = 1
    BY <1>3 DEF Configure, _exit, Finish
  <2>2. Len(servers') \in Nat /\ Len(servers') >= 1
    BY <1>1, <2>1, ServersAreCounted DEF LoopInv
  <2>3. Passed' = 0
    BY <2>1, <2>2 DEF Passed
  <2> QED
    BY <1>1, <2>1, <2>2, <2>3 DEF LoopInv, Earned
<1> QED
  BY <1>2, <1>3
\* What the loops leave alone as they go on.
LEMMA NextServerEarns ==
    ASSUME LoopInv, pc \in {"send", "receive"}, i < Len(servers),
           UNCHANGED <<call, file, servers, round>>, i' = i + 1,
           pc' = IF call = "gethosts" THEN "send" ELSE pc,
           refused' \in Nat, unsent' \in Nat,
           IF call = "gethosts" THEN refused' + unsent' = refused + unsent + 1
           ELSE refused' = IF pc = "send" THEN refused ELSE refused + 1
    PROVE  LoopInv'
<1>1. /\ Len(servers') \in Nat /\ i' \in 1..Len(servers') /\ round' >= 1
      /\ Passed' = Passed
  BY DEF LoopInv, Passed
<1>2. Passed \in Int
  <2>1. round - 1 \in Int /\ Len(servers) \in Int
    BY DEF LoopInv
  <2> QED
    BY <2>1 DEF Passed
<1>3. /\ Earned /\ i \in Nat /\ refused \in Nat /\ unsent \in Nat
      /\ i' = i + 1 /\ call' = call /\ Passed' = Passed
  BY <1>1 DEF LoopInv
<1>4. ASSUME call = "gethosts" PROVE Earned'
  <2>1. refused' + unsent' = refused + unsent + 1
    BY <1>4
  <2>2. refused + unsent = Passed + i - 1
    BY <1>3, <1>4 DEF Earned
  <2>3. refused' + unsent' = Passed' + i' - 1
    <3>1. Passed' = Passed /\ i' = i + 1 /\ i \in Int /\ Passed \in Int
      BY <1>2, <1>3
    <3>2. refused + unsent + 1 = Passed + (i + 1) - 1
      BY <2>2, <3>1, <1>3
    <3> QED
      BY <2>1, <3>1, <3>2
  <2> QED
    BY <1>3, <1>4, <2>3 DEF Earned
<1>5. ASSUME call # "gethosts" /\ pc = "send" PROVE Earned'
  BY <1>2, <1>3, <1>5 DEF Earned
<1>6. ASSUME call # "gethosts" /\ pc = "receive" PROVE Earned'
  BY <1>2, <1>3, <1>6 DEF Earned
<1>7. Earned'
  BY <1>4, <1>5, <1>6
<1> QED
  BY <1>1, <1>7 DEF LoopInv

LEMMA NextRoundEarns ==
    ASSUME LoopInv, pc \in {"send", "receive"}, i >= Len(servers),
           call = "gethosts" \/ pc = "receive",
           UNCHANGED <<call, file, servers>>, round' = round + 1, i' = 1, pc' = "send",
           refused' \in Nat, unsent' \in Nat,
           IF call = "gethosts" THEN refused' + unsent' = refused + unsent + 1
           ELSE refused' = refused + 1
    PROVE  LoopInv'
<1>1. /\ Len(servers) \in Nat /\ Len(servers) >= 1 /\ i = Len(servers)
      /\ round \in Nat /\ round >= 1
  BY DEF LoopInv
<1>2. Passed' = Passed + Len(servers)
  BY <1>1, RoundIsWhole DEF Passed
<1>3. Passed \in Int
  <2>1. round - 1 \in Int /\ Len(servers) \in Int
    BY <1>1
  <2> QED
    BY <2>1 DEF Passed
<1>4. /\ Earned /\ refused \in Nat /\ unsent \in Nat
      /\ Len(servers) \in Nat /\ i = Len(servers)
      /\ i' = 1 /\ call' = call /\ pc' = "send"
  BY <1>1 DEF LoopInv
<1>5. ASSUME call = "gethosts" PROVE Earned'
  <2>1. refused' + unsent' = refused + unsent + 1
    BY <1>5
  <2>2. refused + unsent = Passed + i - 1
    BY <1>4, <1>5 DEF Earned
  <2>3. refused' + unsent' = Passed' + i' - 1
    <3>1. Passed' = Passed + i /\ i' = 1 /\ i \in Int /\ Passed \in Int
      BY <1>2, <1>3, <1>4
    <3>2. refused + unsent + 1 = Passed + i + 1 - 1
      BY <2>2, <3>1, <1>4
    <3> QED
      BY <2>1, <3>1, <3>2
  <2> QED
    BY <1>4, <1>5, <2>3 DEF Earned
<1>6. ASSUME call # "gethosts" /\ pc = "receive" PROVE Earned'
  BY <1>2, <1>3, <1>4, <1>6 DEF Earned
<1>7. Earned'
  BY <1>5, <1>6
<1> QED
  BY <1>1, <1>7 DEF LoopInv

LEMMA EndEarns ==
    ASSUME LoopInv, UNCHANGED <<call, file>>, pc' \in {"done", "undefined"},
           round' \in Nat, i' \in Nat, refused' \in Nat, unsent' \in Nat
    PROVE  LoopInv'
BY DEF LoopInv

LEMMA SendEarns ==
    ASSUME LoopInv, SendOk
    PROVE  LoopInv'
<1>1. /\ pc = "send"
      /\ UNCHANGED <<call, file, servers, round, refused, unsent>>
  BY DEF SendOk, argVars
<1>2. /\ Len(servers) \in Nat /\ i \in 1..Len(servers)
      /\ Passed' = Passed
  BY <1>1 DEF LoopInv, Passed
<1>3. CASE call = "gethosts"
  BY <1>1, <1>2, <1>3 DEF SendOk, LoopInv, Earned
<1>4. CASE call # "gethosts" /\ i < Len(servers)
  BY <1>1, <1>2, <1>4 DEF SendOk, LoopInv, Earned
<1>5. CASE call # "gethosts" /\ ~(i < Len(servers))
  <2>1. i' = 1 /\ pc' = "receive"
    BY <1>1, <1>5 DEF SendOk
  <2>2. Passed \in Int
    <3>1. round - 1 \in Int /\ Len(servers) \in Int
      BY <1>1 DEF LoopInv
    <3> QED
      BY <3>1 DEF Passed
  <2>3. Earned'
    BY <1>1, <1>2, <1>5, <2>1, <2>2 DEF LoopInv, Earned
  <2> QED
    BY <1>1, <1>2, <2>1, <2>3 DEF LoopInv
<1> QED
  BY <1>3, <1>4, <1>5

LEMMA SendFailsEarns ==
    ASSUME LoopInv, SendFails
    PROVE  LoopInv'
<1>1. /\ pc = "send"
      /\ UNCHANGED <<call, file, servers, refused>>
  BY DEF SendFails, argVars
<1>2. CASE call = "gethosts"
  <2>1. unsent' = unsent + 1 /\ Advance("send")
    BY <1>2 DEF SendFails
  <2>2. refused \in Nat /\ unsent \in Nat /\ round \in Nat /\ i \in Nat
    BY DEF LoopInv
  <2>3. CASE i < Len(servers)
    BY <1>1, <1>2, <2>1, <2>2, <2>3, NextServerEarns DEF Advance
  <2>4. CASE ~(i < Len(servers)) /\ round < Rounds
    <3>1. i >= Len(servers)
      BY <1>1, <2>4 DEF LoopInv
    <3> QED
      BY <1>1, <1>2, <2>1, <2>2, <2>4, <3>1, NextRoundEarns DEF Advance
  <2>5. CASE ~(i < Len(servers)) /\ ~(round < Rounds)
    BY <1>1, <2>1, <2>2, <2>5, EndEarns DEF Advance, _exit, Finish
  <2> QED
    BY <2>3, <2>4, <2>5
<1>3. CASE call # "gethosts"
  BY <1>1, <1>3, EndEarns DEF SendFails, _exit, Finish, LoopInv
<1> QED
  BY <1>2, <1>3

LEMMA RefuseEarns ==
    ASSUME LoopInv, pc = "receive", Refuse, UNCHANGED <<call, file, servers, unsent>>
    PROVE  LoopInv'
<1>1. /\ refused \in Nat /\ unsent \in Nat /\ round \in Nat /\ i \in Nat
      /\ refused' = refused + 1
  BY DEF LoopInv, Refuse
<1>2. CASE i < Len(servers)
  BY <1>1, <1>2, NextServerEarns DEF Refuse
<1>3. CASE ~(i < Len(servers)) /\ round < Rounds
  <2>1. i >= Len(servers)
    BY <1>3 DEF LoopInv
  <2> QED
    BY <1>1, <1>3, <2>1, NextRoundEarns DEF Refuse
<1>4. CASE ~(i < Len(servers)) /\ ~(round < Rounds)
  BY <1>1, <1>4, EndEarns DEF Refuse, _exit, Finish
<1> QED
  BY <1>2, <1>3, <1>4

LEMMA TakeEarns ==
    ASSUME LoopInv, NEW answer, Take(answer)
    PROVE  LoopInv'
<1> DEFINE parsed == Parse(answer)
<1>1. pc = "receive" /\ UNCHANGED <<call, file, servers, unsent>>
  BY DEF Take, argVars
<1>2. CASE Refuse
  BY <1>1, <1>2, RefuseEarns
<1>3. CASE ~Refuse
  <2>1. /\ pc' \in {"done", "undefined"}
        /\ UNCHANGED <<round, i, refused>>
    BY <1>3 DEF Take, _exit, Finish
  <2> QED
    BY <1>1, <2>1, EndEarns DEF LoopInv
<1> QED
  BY <1>2, <1>3

LEMMA LoopStep ==
    ASSUME LoopInv, [Next]_vars
    PROVE  LoopInv'
<1>1. CASE HostIsAddress
  BY <1>1, EndEarns DEF HostIsAddress, Finish, argVars, LoopInv
<1>2. CASE \E fd \in {-1, 0, 3} : Socket(fd)
  <2>1. PICK fd \in {-1, 0, 3} : Socket(fd)
    BY <1>2
  <2>2. /\ pc = "start" /\ pc' \in {"done", "configure"}
        /\ UNCHANGED <<call, file, round, i, refused, unsent>>
    BY <2>1 DEF Socket, Finish, argVars
  <2> QED
    BY <2>2 DEF LoopInv
<1>3. CASE \E bound \in BOOLEAN : Configure(bound)
  BY <1>3, ConfigureEarns
<1>4. CASE SendOk
  BY <1>4, SendEarns
<1>5. CASE SendFails
  BY <1>5, SendFailsEarns
<1>6. CASE Receive
  BY <1>6, TakeEarns DEF Receive
<1>7. CASE ReceiveFails \/ Timeout
  BY <1>7, EndEarns DEF ReceiveFails, Timeout, _exit, Finish, argVars, LoopInv
<1>8. CASE Arrive \/ Expire \/ UNCHANGED vars
  <2>1. UNCHANGED <<pc, call, file, servers, round, i, refused, unsent>>
    BY <1>8 DEF Arrive, Expire, vars, argVars
  <2> QED
    BY <2>1 DEF LoopInv, Earned, Passed
<1> QED
  BY <1>1, <1>2, <1>3, <1>4, <1>5, <1>6, <1>7, <1>8 DEF Next, Lookup

\* A server is passed over only because it has refused or could not be asked, for any
\* number of servers, rounds and answers: what was lost is never asked for again.
THEOREM LossIsNotRetried == Spec => []RetriesAreEarned
<1>1. Init => LoopInv
  BY DEF Init, LoopInv
<1>2. LoopInv /\ [Next]_vars => LoopInv'
  BY LoopStep
<1>3. LoopInv => RetriesAreEarned
  BY DEF LoopInv, Earned, Passed, RetriesAreEarned
<1> QED
  BY <1>1, <1>2, <1>3, PTL DEF Spec

-----------------------------------------------------------------------------
(* The reader of names: there is one *)

Places == Nat \X Nat \X Nat

\* f is a reader of the names of msg: it satisfies the equation of the code's recursion.
Reads(msg, f) == f = [p \in Places |-> read_on(msg, f, p[1], p[2], p[3])]

LEMMA ByteAt ==
    ASSUME NEW msg \in Seq(Byte), NEW o \in Nat, o < Len(msg)
    PROVE  At(msg, o) \in 0..255
<1>1. o + 1 \in 1..Len(msg)
  OBVIOUS
<1> QED
  BY <1>1, ElementOfSeq DEF At, Byte

\* The branches of read_on.
LEMMA ReadBehind ==
    ASSUME NEW msg \in Seq(Byte), NEW f, NEW o \in Nat, NEW k \in Nat, NEW hops \in Nat,
           o >= Len(msg)
    PROVE  read_on(msg, f, o, k, hops) = Failed("garbage")
<1>1. Len(msg) \in Nat /\ ~(o < Len(msg)) /\ ~(o + 1 < Len(msg))
  OBVIOUS
<1> QED
  BY <1>1 DEF read_on

LEMMA ReadEnd ==
    ASSUME NEW msg \in Seq(Byte), NEW f, NEW o \in Nat, NEW k \in Nat, NEW hops \in Nat,
           o < Len(msg), At(msg, o) = 0
    PROVE  read_on(msg, f, o, k, hops) = [status |-> "ok", name |-> <<>>, end |-> o + 1]
<1>1. Len(msg) \in Nat /\ ~(o >= Len(msg))
  OBVIOUS
<1> QED
  BY <1>1 DEF read_on

LEMMA ReadCut ==
    ASSUME NEW msg \in Seq(Byte), NEW f, NEW o \in Nat, NEW k \in Nat, NEW hops \in Nat,
           o < Len(msg), At(msg, o) # 0, o + 1 >= Len(msg)
    PROVE  read_on(msg, f, o, k, hops) = Failed("fail")
<1>1. Len(msg) \in Nat /\ ~(o >= Len(msg)) /\ ~(o + 1 < Len(msg))
  OBVIOUS
<1> QED
  BY <1>1 DEF read_on

\* Where the pointer at o leads.
Target(msg, o) == 256 * (At(msg, o) % 64) + At(msg, o + 1)

\* What is read through the pointer at o, and of the label at o.
Pointed(msg, jump, o, k, hops) ==
    IF Target(msg, o) >= Len(msg) \/ Target(msg, o) = o \/ k >= NameSize THEN Failed("fail")
    ELSE IF hops > Len(msg) THEN Failed("loops")
    ELSE IF jump.status = "ok" THEN [jump EXCEPT !.end = o + 2] ELSE jump

Labelled(msg, rest, o, k) ==
    LET len == At(msg, o)
    IN IF o + 1 + len > Len(msg) \/ len + k + 2 > NameSize THEN Failed("fail")
       ELSE IF rest.status = "ok"
            THEN [rest EXCEPT !.name = Bytes(msg, o + 1, len) \o <<Dot>> \o @]
            ELSE rest

LEMMA TargetIsNat ==
    ASSUME NEW msg \in Seq(Byte), NEW o \in Nat, o + 1 < Len(msg)
    PROVE  Target(msg, o) \in Nat
<1> DEFINE x == At(msg, o)
           y == At(msg, o + 1)
<1>1. o + 1 \in Nat /\ o < Len(msg)
  OBVIOUS
<1>2. x \in 0..255
  BY <1>1, ByteAt
<1>3. y \in 0..255
  BY <1>1, ByteAt
<1>4. Target(msg, o) = 256 * (x % 64) + y
  BY Zenon DEF Target
<1> HIDE DEF x, y
<1>5. x % 64 \in Nat
  BY <1>2
<1>6. \A r \in Nat, z \in 0..255 : 256 * r + z \in Nat
  OBVIOUS
<1> QED
  BY <1>3, <1>4, <1>5, <1>6, Zenon

LEMMA ReadPointer ==
    ASSUME NEW msg \in Seq(Byte), NEW f, NEW o \in Nat, NEW k \in Nat, NEW hops \in Nat,
           o + 1 < Len(msg), At(msg, o) >= 64
    PROVE  read_on(msg, f, o, k, hops) =
               Pointed(msg, f[<<Target(msg, o), k, hops + 1>>], o, k, hops)
<1> DEFINE len == At(msg, o)
<1>1. Len(msg) \in Nat /\ ~(o >= Len(msg)) /\ ~(o + 1 >= Len(msg)) /\ o < Len(msg)
  OBVIOUS
<1>2. len \in 0..255
  BY <1>1, ByteAt
<1> HIDE DEF len
<1>3. len >= 64 => len # 0 /\ ~(len \in 1..63)
  BY <1>2
<1> QED
  BY <1>1, <1>3 DEF read_on, len, Target, Pointed

LEMMA ReadLabel ==
    ASSUME NEW msg \in Seq(Byte), NEW f, NEW o \in Nat, NEW k \in Nat, NEW hops \in Nat,
           o + 1 < Len(msg), At(msg, o) \in 1..63
    PROVE  read_on(msg, f, o, k, hops) =
               Labelled(msg, f[<<o + 1 + At(msg, o), k + At(msg, o) + 1, 0>>], o, k)
<1> DEFINE len == At(msg, o)
<1>1. Len(msg) \in Nat /\ ~(o >= Len(msg)) /\ ~(o + 1 >= Len(msg)) /\ o < Len(msg)
  OBVIOUS
<1> HIDE DEF len
<1>3. len \in 1..63 => len # 0 /\ ~(len >= 64)
  OBVIOUS
<1> QED
  BY <1>1, <1>3 DEF read_on, len, Labelled

-----------------------------------------------------------------------------
\* What a reader at p may still do: labels as long as there is room, and between two of
\* them pointers as long as they are no circle.
Left(n) == IF n > 0 THEN n ELSE 0
Work(msg, k, hops) == (Len(msg) + 2) * Left(NameSize - k) + Left(Len(msg) + 1 - hops)

LEMMA WorkIsNat ==
    ASSUME NEW msg \in Seq(Byte), NEW k \in Nat, NEW hops \in Nat
    PROVE  Work(msg, k, hops) \in Nat
<1>1. Left(NameSize - k) \in Nat /\ Left(Len(msg) + 1 - hops) \in Nat /\ Len(msg) + 2 \in Nat
  BY NameAssumption DEF Left
<1> QED
  BY <1>1 DEF Work

LEMMA LessRoom ==
    ASSUME NEW c \in Nat, NEW m \in Nat, NEW n \in Nat, m < n
    PROVE  c * m + c <= c * n
<1>1. PICK d \in Nat : n = m + 1 + d
  <2>1. n - m - 1 \in Nat /\ n = m + 1 + (n - m - 1)
    OBVIOUS
  <2> QED
    BY <2>1
<1>2. c * (m + 1 + d) = c * m + c + c * d /\ c * d \in Nat /\ c * m \in Nat
  OBVIOUS
<1> QED
  BY <1>1, <1>2

LEMMA PointerWorks ==
    ASSUME NEW msg \in Seq(Byte), NEW k \in Nat, NEW hops \in Nat, hops <= Len(msg)
    PROVE  Work(msg, k, hops + 1) < Work(msg, k, hops)
<1> DEFINE a == (Len(msg) + 2) * Left(NameSize - k)
<1>1. Left(Len(msg) + 1 - (hops + 1)) + 1 = Left(Len(msg) + 1 - hops) /\ Left(Len(msg) + 1 - hops) \in Nat
      /\ Left(Len(msg) + 1 - (hops + 1)) \in Nat
  BY DEF Left
<1>2. a \in Nat
  BY NameAssumption DEF Left
<1> HIDE DEF a
<1>3. a + Left(Len(msg) + 1 - (hops + 1)) < a + Left(Len(msg) + 1 - hops)
  BY <1>1, <1>2
<1> QED
  BY <1>3, Zenon DEF Work, a

LEMMA LabelWorks ==
    ASSUME NEW msg \in Seq(Byte), NEW k \in Nat, NEW hops \in Nat, NEW len \in Nat,
           len + k + 2 <= NameSize
    PROVE  Work(msg, k + len + 1, 0) < Work(msg, k, hops)
<1> DEFINE c == Len(msg) + 2
           m == Left(NameSize - (k + len + 1))
           n == Left(NameSize - k)
           p == Left(Len(msg) + 1 - 0)
           q == Left(Len(msg) + 1 - hops)
<1>1. m \in Nat /\ n \in Nat /\ m < n
  BY NameAssumption DEF Left
<1>2. c \in Nat /\ p < c /\ p \in Nat /\ q \in Nat
  BY DEF Left
<1>3. Work(msg, k + len + 1, 0) = c * m + p /\ Work(msg, k, hops) = c * n + q
  BY Zenon DEF Work
<1> HIDE DEF c, m, n, p, q
<1>4. c * m + c <= c * n /\ c * m \in Nat /\ c * n \in Nat
  BY <1>1, <1>2, LessRoom
<1>5. c * m + p < c * n + q
  <2> DEFINE x == c * m
             y == c * n
  <2> HIDE DEF x, y
  <2>1. x + c <= y /\ x \in Nat /\ y \in Nat
    BY <1>4 DEF x, y
  <2>2. x + p < y + q
    BY <1>2, <2>1
  <2> QED
    BY <2>2 DEF x, y
<1> QED
  BY <1>3, <1>5

\* f and g give the same wherever there is less work to do.
Agree(msg, f, g, n) == \A p \in Places : Work(msg, p[2], p[3]) < n => f[p] = g[p]

LEMMA ReadOnLess ==
    ASSUME NEW msg \in Seq(Byte), NEW f, NEW g, NEW o \in Nat, NEW k \in Nat, NEW hops \in Nat,
           Agree(msg, f, g, Work(msg, k, hops))
    PROVE  read_on(msg, f, o, k, hops) = read_on(msg, g, o, k, hops)
<1> DEFINE len == At(msg, o)
           target == Target(msg, o)
<1>1. Len(msg) \in Nat
  OBVIOUS
<1>2. CASE o >= Len(msg)
  BY <1>2, ReadBehind, Zenon
<1>3. ASSUME o < Len(msg)
      PROVE  read_on(msg, f, o, k, hops) = read_on(msg, g, o, k, hops)
  <2>1. len \in 0..255
    BY <1>3, ByteAt
  <2>2. CASE len = 0
    BY <1>3, <2>2, ReadEnd
  <2>3. CASE len # 0 /\ o + 1 >= Len(msg)
    <3>1. At(msg, o) # 0 /\ o + 1 >= Len(msg)
      BY <2>3
    <3>2. read_on(msg, f, o, k, hops) = Failed("fail")
      BY <1>3, <3>1, ReadCut
    <3>3. read_on(msg, g, o, k, hops) = Failed("fail")
      BY <1>3, <3>1, ReadCut
    <3> QED
      BY <3>2, <3>3
  <2>4. ASSUME o + 1 < Len(msg), len >= 64
        PROVE  read_on(msg, f, o, k, hops) = read_on(msg, g, o, k, hops)
    <3>1. target \in Nat
      BY <2>4, TargetIsNat
    <3> HIDE DEF target
    <3> DEFINE fj == f[<<target, k, hops + 1>>]
               gj == g[<<target, k, hops + 1>>]
    <3>2. /\ read_on(msg, f, o, k, hops) = Pointed(msg, fj, o, k, hops)
          /\ read_on(msg, g, o, k, hops) = Pointed(msg, gj, o, k, hops)
      BY <2>4, ReadPointer DEF target
    <3> HIDE DEF fj, gj
    <3>3. Pointed(msg, fj, o, k, hops) = Pointed(msg, gj, o, k, hops)
      <4>1. CASE hops > Len(msg)
        BY <4>1 DEF Pointed
      <4>2. CASE ~(hops > Len(msg))
        <5>1. <<target, k, hops + 1>> \in Places
          BY <3>1 DEF Places
        <5>2. Work(msg, k, hops + 1) < Work(msg, k, hops)
          BY <4>2, PointerWorks
        <5>3. fj = gj
          BY <5>1, <5>2 DEF Agree, fj, gj
        <5> QED
          BY <5>3
      <4> QED
        BY <4>1, <4>2
    <3> QED
      BY <3>2, <3>3
  <2>5. ASSUME o + 1 < Len(msg), len \in 1..63
        PROVE  read_on(msg, f, o, k, hops) = read_on(msg, g, o, k, hops)
    <3> DEFINE fr == f[<<o + 1 + len, k + len + 1, 0>>]
               gr == g[<<o + 1 + len, k + len + 1, 0>>]
    <3>1. /\ read_on(msg, f, o, k, hops) = Labelled(msg, fr, o, k)
          /\ read_on(msg, g, o, k, hops) = Labelled(msg, gr, o, k)
      BY <2>5, ReadLabel
    <3> HIDE DEF fr, gr, len
    <3>2. Labelled(msg, fr, o, k) = Labelled(msg, gr, o, k)
      <4>1. CASE len + k + 2 > NameSize
        BY <4>1 DEF Labelled, len
      <4>2. CASE ~(len + k + 2 > NameSize)
        <5>1. len + k + 2 <= NameSize /\ len \in Nat
          BY <2>5, <4>2, NameAssumption
        <5>2. <<o + 1 + len, k + len + 1, 0>> \in Places
          BY <5>1 DEF Places
        <5>3. Work(msg, k + len + 1, 0) < Work(msg, k, hops)
          BY <5>1, LabelWorks
        <5>4. fr = gr
          BY <5>2, <5>3 DEF Agree, fr, gr
        <5> QED
          BY <5>4
      <4> QED
        BY <4>1, <4>2
    <3> QED
      BY <3>1, <3>2
  <2> HIDE DEF len
  <2>6. len = 0 \/ (len # 0 /\ o + 1 >= Len(msg)) \/ (o + 1 < Len(msg) /\ len >= 64) \/ (o + 1 < Len(msg) /\ len \in 1..63)
    BY <2>1
  <2> QED
    BY <2>2, <2>3, <2>4, <2>5, <2>6
<1> QED
  BY <1>1, <1>2, <1>3

\* The equation of the recursion holds wherever there is less than n work to do.
Begins(msg, f, n) ==
    \A p \in Places : Work(msg, p[2], p[3]) < n => f[p] = read_on(msg, f, p[1], p[2], p[3])

LEMMA ReadMore ==
    ASSUME NEW msg \in Seq(Byte), NEW n \in Nat, NEW f, Begins(msg, f, n)
    PROVE  LET g == [p \in Places |-> read_on(msg, f, p[1], p[2], p[3])]
           IN Begins(msg, g, n + 1) /\ Agree(msg, f, g, n)
<1> DEFINE g == [p \in Places |-> read_on(msg, f, p[1], p[2], p[3])]
<1>1. \A p \in Places : g[p] = read_on(msg, f, p[1], p[2], p[3])
  BY Zenon
<1> HIDE DEF g
<1>2. Agree(msg, f, g, n)
  BY <1>1, Zenon DEF Begins, Agree
<1>3. ASSUME NEW p \in Places, Work(msg, p[2], p[3]) < n + 1
      PROVE  g[p] = read_on(msg, g, p[1], p[2], p[3])
  <2>1. p[1] \in Nat /\ p[2] \in Nat /\ p[3] \in Nat
    BY DEF Places
  <2> DEFINE w == Work(msg, p[2], p[3])
  <2>2. w \in Nat
    BY <2>1, WorkIsNat
  <2>3. ASSUME NEW q \in Places, Work(msg, q[2], q[3]) < w
        PROVE  f[q] = g[q]
    <3>1. q[2] \in Nat /\ q[3] \in Nat
      BY DEF Places
    <3>2. Work(msg, q[2], q[3]) \in Nat
      BY <3>1, WorkIsNat
    <3> HIDE DEF w
    <3>3. w < n + 1
      BY <1>3 DEF w
    <3>4. Work(msg, q[2], q[3]) < n
      BY <2>2, <2>3, <3>2, <3>3
    <3> QED
      BY <1>2, <3>4 DEF Agree
  <2>4. Agree(msg, f, g, w)
    BY <2>3, Zenon DEF Agree
  <2>5. read_on(msg, f, p[1], p[2], p[3]) = read_on(msg, g, p[1], p[2], p[3])
    BY <2>1, <2>4, ReadOnLess
  <2> QED
    BY <1>1, <2>5, Zenon
<1>4. Begins(msg, g, n + 1)
  BY <1>3, Zenon DEF Begins
<1> QED
  BY <1>2, <1>4, Zenon DEF g

LEMMA ReaderExists ==
    ASSUME NEW msg \in Seq(Byte)
    PROVE  \E f : Reads(msg, f)
<1> DEFINE S == {n \in Nat : \E f : Begins(msg, f, n)}
<1>1. 0 \in S
  <2>1. \A p \in Places : ~(Work(msg, p[2], p[3]) < 0)
    <3> SUFFICES ASSUME NEW p \in Places PROVE ~(Work(msg, p[2], p[3]) < 0)
      OBVIOUS
    <3>1. p[2] \in Nat /\ p[3] \in Nat
      BY DEF Places
    <3>2. Work(msg, p[2], p[3]) \in Nat
      BY <3>1, WorkIsNat
    <3> QED
      BY <3>2
  <2>2. Begins(msg, <<>>, 0)
    BY <2>1, Zenon DEF Begins
  <2> QED
    BY <2>2
<1>2. \A n \in Nat : n \in S => n + 1 \in S
  <2> SUFFICES ASSUME NEW n \in Nat, n \in S PROVE n + 1 \in S
    OBVIOUS
  <2>1. PICK f : Begins(msg, f, n)
    OBVIOUS
  <2>2. \E g : Begins(msg, g, n + 1)
    BY <2>1, ReadMore, Zenon
  <2> QED
    BY <2>2
<1>3. Nat \subseteq S
  <2> HIDE DEF S
  <2> QED
    BY <1>1, <1>2, SetInduction
<1> DEFINE all == Work(msg, 0, 0) + 1
<1>4. all \in Nat
  <2>1. Work(msg, 0, 0) \in Nat
    BY WorkIsNat
  <2> QED
    BY <2>1
<1>5. PICK f : Begins(msg, f, all)
  BY <1>3, <1>4
<1> DEFINE g == [p \in Places |-> read_on(msg, f, p[1], p[2], p[3])]
<1>6. Agree(msg, f, g, all)
  BY <1>4, <1>5, ReadMore, Zenon
<1>7. ASSUME NEW p \in Places
      PROVE  Work(msg, p[2], p[3]) < all
  <2>1. p[2] \in Nat /\ p[3] \in Nat
    BY DEF Places
  <2> DEFINE c == Len(msg) + 2
             m == Left(NameSize - p[2])
             n == Left(NameSize - 0)
             x == Left(Len(msg) + 1 - p[3])
             y == Left(Len(msg) + 1 - 0)
  <2>2. c \in Nat /\ m \in Nat /\ n \in Nat /\ x \in Nat /\ y \in Nat /\ m <= n /\ x <= y
    BY <2>1, NameAssumption DEF Left
  <2>3. Work(msg, p[2], p[3]) = c * m + x /\ all = c * n + y + 1
    BY Zenon DEF Work
  <2> HIDE DEF c, m, n, x, y
  <2>4. c * m <= c * n /\ c * m \in Nat /\ c * n \in Nat
    <3>1. CASE m = n
      BY <2>2, <3>1
    <3>2. CASE m < n
      <4>1. c * m + c <= c * n /\ c * m \in Nat /\ c * n \in Nat
        BY <2>2, <3>2, LessRoom
      <4> QED
        BY <2>2, <4>1
    <3> QED
      BY <2>2, <3>1, <3>2
  <2> DEFINE u == c * m
             v == c * n
  <2> HIDE DEF u, v
  <2>5. u <= v /\ u \in Nat /\ v \in Nat
    BY <2>4 DEF u, v
  <2>6. u + x < v + y + 1
    BY <2>2, <2>5
  <2> QED
    BY <2>3, <2>6 DEF u, v
<1> HIDE DEF all
<1>8. ASSUME NEW p \in Places
      PROVE  g[p] = read_on(msg, g, p[1], p[2], p[3])
  <2> HIDE DEF g
  <2>1. p[1] \in Nat /\ p[2] \in Nat /\ p[3] \in Nat
    BY DEF Places
  <2>2. \A q \in Places : f[q] = g[q]
    BY <1>6, <1>7, Zenon DEF Agree
  <2>3. Agree(msg, f, g, Work(msg, p[2], p[3]))
    BY <2>2, Zenon DEF Agree
  <2>4. read_on(msg, f, p[1], p[2], p[3]) = read_on(msg, g, p[1], p[2], p[3])
    BY <2>1, <2>3, ReadOnLess
  <2>5. g[p] = read_on(msg, f, p[1], p[2], p[3])
    BY Zenon DEF g
  <2> QED
    BY <2>4, <2>5, Zenon
<1>9. g = [p \in Places |-> read_on(msg, g, p[1], p[2], p[3])]
  <2> DEFINE h == [p \in Places |-> read_on(msg, g, p[1], p[2], p[3])]
  <2>1. \A p \in Places : g[p] = h[p]
    <3> HIDE DEF g
    <3> QED
      BY <1>8, Zenon
  <2> QED
    BY <2>1, Zenon
<1> QED
  BY <1>9, Zenon DEF Reads

LEMMA ReaderReads ==
    ASSUME NEW msg \in Seq(Byte)
    PROVE  Reads(msg, reader(msg))
<1>1. reader(msg) = CHOOSE f : Reads(msg, f)
  BY DEF reader, Reads, Places
<1> QED
  BY <1>1, ReaderExists, Zenon

LEMMA ReaderAt ==
    ASSUME NEW msg \in Seq(Byte), NEW o \in Nat, NEW k \in Nat, NEW hops \in Nat
    PROVE  reader(msg)[<<o, k, hops>>] = read_on(msg, reader(msg), o, k, hops)
<1> DEFINE p == <<o, k, hops>>
<1>1. p \in Places /\ p[1] = o /\ p[2] = k /\ p[3] = hops
  BY DEF Places
<1> HIDE DEF p
<1>2. reader(msg)[p] = read_on(msg, reader(msg), p[1], p[2], p[3])
  BY <1>1, ReaderReads, Zenon DEF Reads
<1> QED
  BY <1>1, <1>2, Zenon DEF p

-----------------------------------------------------------------------------
(* The labels of a query *)

\* A label has no more than 63 bytes, and another one begins behind its dot.
LEMMA NextLabel ==
    ASSUME NEW d, IsDomain(d), NEW j, Begin(d, j), NEW n \in Nat, IsLabel(d, j, n)
    PROVE  n \in 1..63 /\ (j + n <= Len(d) => d[j + n] = Dot /\ Begin(d, j + n + 1))
<1>1. /\ Len(d) \in Nat /\ Len(d) >= 1 /\ j \in Nat /\ j >= 1 /\ j <= Len(d)
  BY DEF IsDomain, Begin
<1>2. /\ n >= 1 /\ j + n <= Len(d) + 1
      /\ \A l \in j..(j + n - 1) : d[l] # Dot
      /\ j + n = Len(d) + 1 \/ d[j + n] = Dot
  BY DEF IsLabel
<1>3. n <= 63
  <2> SUFFICES ASSUME n >= 64 PROVE FALSE
    BY <1>1, <1>2
  <2>1. j \in 1..(Len(d) - 63)
    BY <1>1, <1>2
  <2>2. PICK l \in j..(j + 63) : d[l] = Dot
    BY <2>1 DEF IsDomain
  <2> QED
    BY <1>1, <1>2, <2>2
<1>4. ASSUME j + n <= Len(d)
      PROVE  d[j + n] = Dot /\ Begin(d, j + n + 1)
  <2>1. d[j + n] = Dot
    BY <1>1, <1>2, <1>4
  <2>2. j + n # Len(d)
    BY <2>1 DEF IsDomain
  <2> QED
    BY <1>1, <1>2, <1>4, <2>1, <2>2 DEF Begin
<1> QED
  BY <1>2, <1>3, <1>4

\* The run of bytes at the beginning of a label is the label.
LEMMA RunIsLabel ==
    ASSUME NEW d, IsDomain(d), NEW j, Begin(d, j)
    PROVE  RunFrom(d, j) \in 1..63 /\ IsLabel(d, j, RunFrom(d, j))
<1> DEFINE E == {l \in Nat : l >= j /\ (l = Len(d) + 1 \/ (l <= Len(d) /\ d[l] = Dot))}
           IsRun(n) == /\ \A l \in j..(j + n - 1) : d[l] # Dot
                       /\ j + n > Len(d) \/ d[j + n] = Dot
           n == RunFrom(d, j)
<1>1. /\ Len(d) \in Nat /\ Len(d) >= 1 /\ j \in Nat /\ j >= 1 /\ j <= Len(d)
      /\ j = 1 \/ d[j - 1] = Dot
  BY DEF IsDomain, Begin
<1>2. \E m \in 0..(Len(d) - j + 1) : IsRun(m)
  <2>1. Len(d) + 1 \in E
    BY <1>1
  <2>2. PICK x \in E : \A y \in E : x <= y
    <3>1. E \in SUBSET Nat /\ E # {}
      BY <2>1
    <3> HIDE DEF E
    <3> QED
      BY <3>1, SmallestExists
  <2>3. x \in Nat /\ x >= j /\ x <= Len(d) + 1
    BY <2>1, <2>2
  <2>4. x > Len(d) \/ d[x] = Dot
    BY <2>2, <1>1
  <2>5. \A l \in j..(x - 1) : d[l] # Dot
    <3> SUFFICES ASSUME NEW l \in j..(x - 1), d[l] = Dot PROVE FALSE
      OBVIOUS
    <3>1. l \in E
      BY <1>1, <2>3
    <3> QED
      BY <2>2, <2>3, <3>1
  <2>6. x - j \in 0..(Len(d) - j + 1) /\ j + (x - j) = x
    BY <1>1, <2>3
  <2>7. IsRun(x - j)
    <3>1. j + (x - j) - 1 = x - 1
      BY <1>1, <2>3
    <3>2. \A l \in j..(j + (x - j) - 1) : d[l] # Dot
      BY <2>5, <3>1
    <3>3. j + (x - j) > Len(d) \/ d[j + (x - j)] = Dot
      BY <2>4, <2>6
    <3> QED
      BY <3>2, <3>3, Zenon
  <2> HIDE DEF IsRun
  <2> QED
    BY <2>6, <2>7
<1>3. n \in 0..(Len(d) - j + 1) /\ IsRun(n)
  <2>1. RunFrom(d, j) = CHOOSE m \in 0..(Len(d) - j + 1) : IsRun(m)
    BY DEF RunFrom
  <2> HIDE DEF IsRun
  <2> QED
    BY <1>2, <2>1
<1> HIDE DEF n
<1>4. n # 0
  <2> SUFFICES ASSUME n = 0 PROVE FALSE
    OBVIOUS
  <2>1. d[j] = Dot
    BY <1>1, <1>3
  <2>2. CASE j = 1
    BY <2>1, <2>2 DEF IsDomain
  <2>3. CASE j # 1
    <3>1. j - 1 \in 1..(Len(d) - 1) /\ (j - 1) + 1 = j
      BY <1>1, <2>3
    <3> QED
      BY <1>1, <2>1, <2>3, <3>1 DEF IsDomain
  <2> QED
    BY <2>2, <2>3
<1>5. n \in Nat /\ IsLabel(d, j, n)
  BY <1>1, <1>3, <1>4 DEF IsLabel
<1> QED
  BY <1>5, NextLabel DEF n

Labels(d) == [j \in 1..(Len(d) + 1) |->
                       IF j > 1 /\ d[j - 1] # Dot THEN d[j - 1]
                       ELSE RunFrom(d, j) % 256]

LEMMA LabelsAre ==
    ASSUME NEW d, IsDomain(d)
    PROVE  /\ Labels(d) \in Seq(Byte) /\ Len(Labels(d)) = Len(d) + 1
           /\ \A j \in 1..Len(d) : Begin(d, j) => Labels(d)[j] = RunFrom(d, j)
           /\ \A j \in 1..Len(d) : d[j] # Dot => Labels(d)[j + 1] = d[j]
<1>1. /\ Len(d) \in Nat /\ Len(d) >= 1 /\ d \in Seq(Byte)
  BY DEF IsDomain
<1>2. \A j \in 1..Len(d) : d[j] \in Byte
  BY <1>1, ElementOfSeq
<1>3. ASSUME NEW j \in 1..(Len(d) + 1)
      PROVE  Labels(d)[j] = IF j > 1 /\ d[j - 1] # Dot THEN d[j - 1] ELSE RunFrom(d, j) % 256
  BY DEF Labels
<1>4. ASSUME NEW j \in 1..Len(d), Begin(d, j)
      PROVE  Labels(d)[j] = RunFrom(d, j) /\ RunFrom(d, j) \in 1..63
  <2>1. RunFrom(d, j) \in 1..63
    BY <1>4, RunIsLabel, Zenon
  <2>2. ~(j > 1 /\ d[j - 1] # Dot)
    BY <1>1, <1>4 DEF Begin
  <2>3. Labels(d)[j] = RunFrom(d, j) % 256
    BY <1>3, <2>2
  <2>4. \A r \in 1..63 : r % 256 = r
    OBVIOUS
  <2> QED
    BY <2>1, <2>3, <2>4, Zenon
<1>5. ASSUME NEW j \in 1..Len(d), d[j] # Dot
      PROVE  Labels(d)[j + 1] = d[j]
  <2>1. j + 1 \in 1..(Len(d) + 1) /\ j + 1 > 1 /\ (j + 1) - 1 = j
    OBVIOUS
  <2> QED
    BY <1>3, <1>5, <2>1
<1>6. ASSUME NEW j \in 1..(Len(d) + 1)
      PROVE  Labels(d)[j] \in Byte
  <2>1. CASE j > 1 /\ d[j - 1] # Dot
    <3>1. j - 1 \in 1..Len(d)
      BY <1>1, <2>1
    <3> QED
      BY <1>2, <1>3, <2>1, <3>1
  <2>2. CASE ~(j > 1 /\ d[j - 1] # Dot)
    <3>1. Begin(d, j)
      <4>1. j # Len(d) + 1
        BY <1>1, <2>2 DEF IsDomain
      <4> QED
        BY <1>1, <2>2, <4>1 DEF Begin
    <3>2. j \in 1..Len(d)
      BY <3>1 DEF Begin
    <3>3. Labels(d)[j] \in 1..63
      BY <1>4, <3>1, <3>2
    <3> QED
      BY <3>3 DEF Byte
  <2> QED
    BY <2>1, <2>2
<1>7. Labels(d) \in [1..(Len(d) + 1) -> Byte]
  BY <1>6 DEF Labels
<1>8. Labels(d) \in Seq(Byte) /\ Len(Labels(d)) = Len(d) + 1
  BY <1>1, <1>7
<1> QED
  BY <1>4, <1>5, <1>8

-----------------------------------------------------------------------------
(* The name that is read is the name that was written *)

\* q is a, b and c one behind the other.
Joins(q, S, a, b, c) ==
    /\ q \in Seq(S) /\ Len(q) = Len(a) + Len(b) + Len(c)
    /\ \A j \in 1..Len(a) : q[j] = a[j]
    /\ \A j \in 1..Len(b) : q[Len(a) + j] = b[j]
    /\ \A j \in 1..Len(c) : q[Len(a) + Len(b) + j] = c[j]

LEMMA JoinThree ==
    ASSUME NEW S, NEW a \in Seq(S), NEW b \in Seq(S), NEW c \in Seq(S)
    PROVE  Joins(a \o b \o c, S, a, b, c)
BY DEF Joins

LEMMA SubSeqIs ==
    ASSUME NEW S, NEW s \in Seq(S), NEW m \in Nat, m >= 1, NEW n \in Nat, m + n <= Len(s) + 1
    PROVE  /\ SubSeq(s, m, m + n - 1) \in Seq(S) /\ Len(SubSeq(s, m, m + n - 1)) = n
           /\ \A l \in 1..n : SubSeq(s, m, m + n - 1)[l] = s[m + l - 1]
OBVIOUS

LEMMA QueryIs ==
    ASSUME NEW d, IsDomain(d)
    PROVE  LET q == mk_dns_query(d)
           IN q \in Seq(Byte) /\ Len(q) = Len(d) + 18 /\ Names(q, d)
<1> DEFINE a == <<1, 0, 1, 0, 0, 1, 0, 0, 0, 0, 0, 0>>
           b == Labels(d)
           c == <<0, 0, 1, 0, 1>>
           q == a \o b \o c
<1>1. a \in Seq(Byte) /\ Len(a) = 12
  BY DEF Byte
<1>2. c \in Seq(Byte) /\ Len(c) = 5 /\ c[1] = 0
  BY DEF Byte
<1>3. /\ b \in Seq(Byte) /\ Len(b) = Len(d) + 1 /\ Len(d) \in Nat
      /\ \A j \in 1..Len(d) : Begin(d, j) => b[j] = RunFrom(d, j)
      /\ \A j \in 1..Len(d) : d[j] # Dot => b[j + 1] = d[j]
  BY LabelsAre DEF IsDomain
<1>4. mk_dns_query(d) = q
  BY DEF mk_dns_query, Labels
<1> HIDE DEF a, b, c
<1>5. /\ q \in Seq(Byte) /\ Len(q) = Len(a) + Len(b) + Len(c)
      /\ \A j \in 1..Len(b) : q[Len(a) + j] = b[j]
      /\ \A j \in 1..Len(c) : q[Len(a) + Len(b) + j] = c[j]
  <2>1. Joins(q, Byte, a, b, c)
    BY <1>1, <1>2, <1>3, JoinThree
  <2> HIDE DEF q
  <2> QED
    BY <2>1, Zenon DEF Joins
<1> HIDE DEF q
<1>6. ASSUME NEW j \in 1..Len(d)
      PROVE  At(q, 11 + j) = b[j] /\ At(q, 12 + j) = b[j + 1]
  <2>1. j \in 1..Len(b) /\ j + 1 \in 1..Len(b) /\ 11 + j + 1 = 12 + j /\ 12 + j + 1 = 12 + (j + 1)
    BY <1>3
  <2> QED
    BY <1>1, <1>5, <2>1 DEF At
<1>7. At(q, 13 + Len(d)) = 0
  <2>1. q[Len(a) + Len(b) + 1] = c[1]
    BY <1>2, <1>5
  <2>2. 13 + Len(d) + 1 = Len(a) + Len(b) + 1
    BY <1>1, <1>3
  <2> QED
    BY <1>2, <2>1, <2>2 DEF At
<1>8. Len(q) = Len(d) + 18
  BY <1>1, <1>2, <1>3, <1>5
<1>9. ASSUME NEW j \in 1..Len(d), Begin(d, j)
      PROVE  IsLabel(d, j, At(q, 11 + j))
  <2>1. At(q, 11 + j) = RunFrom(d, j)
    BY <1>3, <1>6, <1>9
  <2> QED
    BY <1>9, <2>1, RunIsLabel, Zenon
<1>10. Names(q, d)
  <2>1. Len(d) + 14 <= Len(q)
    BY <1>3, <1>8
  <2>2. \A j \in 1..Len(d) : d[j] # Dot => At(q, 12 + j) = d[j]
    BY <1>3, <1>6
  <2> QED
    BY <1>7, <1>9, <2>1, <2>2, Zenon DEF Names
<1> QED
  BY <1>4, <1>5, <1>8, <1>10

LEMMA LengthIsLabel ==
    ASSUME NEW d, IsDomain(d), NEW msg \in Seq(Byte), Names(msg, d), NEW j, Begin(d, j)
    PROVE  At(msg, 11 + j) \in 1..63 /\ IsLabel(d, j, At(msg, 11 + j))
<1>1. j \in 1..Len(d) /\ Len(d) \in Nat /\ Len(d) + 14 <= Len(msg)
  BY DEF Begin, IsDomain, Names
<1>2. IsLabel(d, j, At(msg, 11 + j))
  BY <1>1 DEF Names
<1>3. At(msg, 11 + j) \in Nat
  <2>1. 11 + j \in Nat /\ 11 + j < Len(msg)
    BY <1>1
  <2> DEFINE n == At(msg, 11 + j)
  <2>2. n \in 0..255
    BY <2>1, ByteAt
  <2> HIDE DEF n
  <2>3. n \in Nat
    BY <2>2
  <2> QED
    BY <2>3 DEF n
<1> QED
  BY <1>2, <1>3, NextLabel

\* What the reader gives for the label at j, from what it gives for the rest.
LabelRead(msg, d, j, hops) ==
    LET f == reader(msg)
        n == At(msg, 11 + j)
        rest == f[<<12 + j + n, j + n, 0>>]
    IN rest.status = "ok"
           => f[<<11 + j, j - 1, hops>>]
                  = [rest EXCEPT !.name = SubSeq(d, j, j + n - 1) \o <<Dot>> \o @]

LEMMA ReadsLabel ==
    ASSUME NEW d, IsDomain(d), NEW msg \in Seq(Byte), Names(msg, d), NEW j, Begin(d, j),
           NEW hops \in Nat
    PROVE  LabelRead(msg, d, j, hops)
<1> DEFINE f == reader(msg)
           n == At(msg, 11 + j)
           rest == f[<<12 + j + n, j + n, 0>>]
<1>1. /\ Len(d) \in Nat /\ Len(d) >= 1 /\ Len(d) + 2 <= NameSize /\ d \in Seq(Byte)
      /\ j \in 1..Len(d) /\ NameSize \in Nat
  BY NameAssumption DEF IsDomain, Begin
<1>2. n \in 1..63 /\ IsLabel(d, j, n)
  BY <1>1, LengthIsLabel, Zenon
<1>3. /\ j + n <= Len(d) + 1
      /\ \A l \in j..(j + n - 1) : d[l] # Dot
  BY <1>2 DEF IsLabel
<1>4. /\ Len(msg) \in Nat /\ Len(d) + 14 <= Len(msg)
      /\ \A l \in 1..Len(d) : d[l] # Dot => At(msg, 12 + l) = d[l]
  BY DEF Names
<1> HIDE DEF n
<1>5. f[<<11 + j, j - 1, hops>>] = Labelled(msg, rest, 11 + j, j - 1)
  <2>1. 11 + j \in Nat /\ j - 1 \in Nat /\ 11 + j + 1 < Len(msg)
    BY <1>1, <1>4
  <2>2. f[<<11 + j, j - 1, hops>>] = read_on(msg, f, 11 + j, j - 1, hops)
    BY <2>1, ReaderAt
  <2>3. At(msg, 11 + j) \in 1..63
    BY <1>2 DEF n
  <2>4. read_on(msg, f, 11 + j, j - 1, hops)
            = Labelled(msg, f[<<11 + j + 1 + n, j - 1 + n + 1, 0>>], 11 + j, j - 1)
    BY <2>1, <2>3, ReadLabel DEF n
  <2>5. 11 + j + 1 + n = 12 + j + n /\ j - 1 + n + 1 = j + n
    BY <1>1, <1>2
  <2> QED
    BY <2>2, <2>4, <2>5, Zenon
<1>6. Bytes(msg, 12 + j, n) = SubSeq(d, j, j + n - 1)
  <2> DEFINE u == SubSeq(msg, 13 + j, 13 + j + n - 1)
             v == SubSeq(d, j, j + n - 1)
  <2>1. Bytes(msg, 12 + j, n) = u
    <3>1. 12 + j + 1 = 13 + j /\ 12 + j + n = 13 + j + n - 1
      BY <1>1, <1>2
    <3> QED
      BY <3>1, Zenon DEF Bytes
  <2>2. u \in Seq(Byte) /\ Len(u) = n /\ \A l \in 1..n : u[l] = msg[13 + j + l - 1]
    <3>1. 13 + j \in Nat /\ 13 + j >= 1 /\ n \in Nat /\ 13 + j + n <= Len(msg) + 1
      BY <1>1, <1>2, <1>3, <1>4
    <3> QED
      BY <3>1, SubSeqIs
  <2>3. v \in Seq(Byte) /\ Len(v) = n /\ \A l \in 1..n : v[l] = d[j + l - 1]
    <3>1. j \in Nat /\ j >= 1 /\ n \in Nat
      BY <1>1, <1>2
    <3> QED
      BY <1>1, <1>3, <3>1, SubSeqIs
  <2>4. ASSUME NEW l \in 1..n
        PROVE  msg[13 + j + l - 1] = d[j + l - 1]
    <3>1. j + l - 1 \in 1..Len(d) /\ j + l - 1 \in j..(j + n - 1)
      BY <1>1, <1>2, <1>3
    <3>2. At(msg, 12 + (j + l - 1)) = d[j + l - 1]
      BY <1>3, <1>4, <3>1
    <3>3. 12 + (j + l - 1) + 1 = 13 + j + l - 1
      BY <1>1, <1>2
    <3> QED
      BY <3>2, <3>3 DEF At
  <2> HIDE DEF u, v
  <2>5. Len(u) = Len(v) /\ \A l \in 1..Len(u) : u[l] = v[l]
    BY <2>2, <2>3, <2>4
  <2>6. u = v
    BY <2>2, <2>3, <2>5, SeqEqual, Zenon
  <2> QED
    BY <2>1, <2>6 DEF u, v
<1>7. Labelled(msg, rest, 11 + j, j - 1)
          = IF rest.status = "ok"
            THEN [rest EXCEPT !.name = Bytes(msg, 12 + j, n) \o <<Dot>> \o @]
            ELSE rest
  <2> HIDE DEF rest
  <2>1. 11 + j + 1 = 12 + j /\ ~(12 + j + n > Len(msg)) /\ ~(n + (j - 1) + 2 > NameSize)
    BY <1>1, <1>2, <1>3, <1>4
  <2> QED
    BY <2>1, Zenon DEF Labelled, n
<1> QED
  BY <1>5, <1>6, <1>7, Zenon DEF n, LabelRead

\* The name is put together again.
LEMMA LabelsJoin ==
    ASSUME NEW d \in Seq(Byte), NEW j \in 1..Len(d), NEW n \in Nat, j + n < Len(d), d[j + n] = Dot
    PROVE  SubSeq(d, j, j + n - 1) \o <<Dot>> \o (SubSeq(d, j + n + 1, Len(d)) \o <<Dot>>)
               = SubSeq(d, j, Len(d)) \o <<Dot>>
<1> DEFINE a == SubSeq(d, j, j + n - 1)
           b == SubSeq(d, j + n + 1, Len(d))
           c == SubSeq(d, j, Len(d))
<1>1. Dot \in Byte /\ Len(d) \in Nat
  BY NameAssumption DEF Byte
<1>2. a \in Seq(Byte) /\ Len(a) = n /\ \A l \in 1..n : a[l] = d[j + l - 1]
  OBVIOUS
<1>3. b \in Seq(Byte) /\ Len(b) = Len(d) - j - n /\ \A l \in 1..(Len(d) - j - n) : b[l] = d[j + n + l]
  OBVIOUS
<1>4. c \in Seq(Byte) /\ Len(c) = Len(d) - j + 1 /\ \A l \in 1..(Len(d) - j + 1) : c[l] = d[j + l - 1]
  OBVIOUS
<1> HIDE DEF a, b, c
<1>5. a \o <<Dot>> \o b = c
  <2> DEFINE e == a \o <<Dot>> \o b
  <2>1. <<Dot>> \in Seq(Byte) /\ Len(<<Dot>>) = 1 /\ <<Dot>>[1] = Dot
    BY <1>1
  <2>2. /\ e \in Seq(Byte) /\ Len(e) = Len(a) + 1 + Len(b)
        /\ \A l \in 1..Len(a) : e[l] = a[l]
        /\ e[Len(a) + 1] = Dot
        /\ \A l \in 1..Len(b) : e[Len(a) + 1 + l] = b[l]
    <3> DEFINE m == <<Dot>>
    <3> HIDE DEF m, e
    <3>1. e = a \o m \o b
      BY DEF e, m
    <3>2. m \in Seq(Byte) /\ Len(m) = 1 /\ m[1] = Dot
      BY <2>1 DEF m
    <3>3. /\ e \in Seq(Byte) /\ Len(e) = Len(a) + Len(m) + Len(b)
          /\ \A l \in 1..Len(a) : e[l] = a[l]
          /\ \A l \in 1..Len(m) : e[Len(a) + l] = m[l]
          /\ \A l \in 1..Len(b) : e[Len(a) + Len(m) + l] = b[l]
      <4>1. Joins(e, Byte, a, m, b)
        BY <1>2, <1>3, <3>1, <3>2, JoinThree
      <4> QED
        BY <4>1, Zenon DEF Joins
    <3>4. 1 \in 1..Len(m)
      BY <3>2
    <3> QED
      BY <3>2, <3>3, <3>4
  <2> HIDE DEF e
  <2>3. Len(e) = Len(c)
    BY <1>1, <1>2, <1>3, <1>4, <2>2
  <2>4. ASSUME NEW l \in 1..Len(c)
        PROVE  e[l] = c[l]
    <3>1. l \in Nat /\ l >= 1 /\ l <= Len(d) - j + 1 /\ c[l] = d[j + l - 1]
      BY <1>4
    <3>2. CASE l <= n
      BY <1>2, <2>2, <3>1, <3>2
    <3>3. CASE l = n + 1
      <4>1. e[l] = Dot
        BY <1>2, <2>2, <3>3
      <4>2. j + l - 1 = j + n
        BY <3>3
      <4> QED
        BY <3>1, <4>1, <4>2
    <3>4. CASE l > n + 1
      <4>1. l - n - 1 \in 1..(Len(d) - j - n) /\ l = n + 1 + (l - n - 1)
        BY <3>1, <3>4, <1>1
      <4>2. e[l] = b[l - n - 1]
        BY <1>2, <1>3, <2>2, <4>1
      <4>3. b[l - n - 1] = d[j + n + (l - n - 1)]
        BY <1>3, <4>1
      <4>4. j + n + (l - n - 1) = j + l - 1
        BY <3>1
      <4> QED
        BY <3>1, <4>2, <4>3, <4>4
    <3> QED
      BY <3>1, <3>2, <3>3, <3>4
  <2>5. e \in Seq(Byte) /\ c \in Seq(Byte)
    BY <1>4, <2>2
  <2>6. \A l \in 1..Len(e) : e[l] = c[l]
    BY <2>3, <2>4
  <2>7. e = c
    BY <2>3, <2>5, <2>6, SeqEqual, Zenon
  <2> QED
    BY <2>7 DEF e
<1>6. a \o <<Dot>> \o (b \o <<Dot>>) = (a \o <<Dot>> \o b) \o <<Dot>>
  BY <1>1, <1>2, <1>3
<1> QED
  BY <1>5, <1>6, Zenon DEF a, b, c

\* The name d from its j-th byte on.
NameFrom(d, j) == [status |-> "ok", name |-> SubSeq(d, j, Len(d)) \o <<Dot>>, end |-> Len(d) + 14]

LEMMA ReadsName ==
    ASSUME NEW d, IsDomain(d), NEW msg \in Seq(Byte), Names(msg, d)
    PROVE  \A j : \A hops \in Nat :
               Begin(d, j) => reader(msg)[<<11 + j, j - 1, hops>>] = NameFrom(d, j)
<1> DEFINE f == reader(msg)
           S == {m \in Nat : \A j : \A hops \in Nat :
                    Begin(d, j) /\ Len(d) - j < m => f[<<11 + j, j - 1, hops>>] = NameFrom(d, j)}
<1>1. Len(d) \in Nat /\ d \in Seq(Byte)
  BY DEF IsDomain
<1>2. 0 \in S
  <2>1. \A j : Begin(d, j) => ~(Len(d) - j < 0)
    BY <1>1 DEF Begin
  <2> QED
    BY <2>1
<1>3. \A m \in Nat : m \in S => m + 1 \in S
  <2> SUFFICES ASSUME NEW m \in Nat, m \in S PROVE m + 1 \in S
    OBVIOUS
  <2> SUFFICES ASSUME NEW j, NEW hops \in Nat,
                      Begin(d, j), Len(d) - j < m + 1
               PROVE  f[<<11 + j, j - 1, hops>>] = NameFrom(d, j)
    OBVIOUS
  <2> DEFINE n == At(msg, 11 + j)
             rest == f[<<12 + j + n, j + n, 0>>]
             a == SubSeq(d, j, j + n - 1)
  <2>1. j \in 1..Len(d)
    BY DEF Begin
  <2>2. /\ n \in 1..63 /\ j + n <= Len(d) + 1
        /\ j + n <= Len(d) => d[j + n] = Dot /\ Begin(d, j + n + 1)
    <3>1. n \in 1..63 /\ IsLabel(d, j, n)
      BY LengthIsLabel
    <3> HIDE DEF n
    <3>2. n \in Nat
      BY <3>1
    <3>3. j + n <= Len(d) => d[j + n] = Dot /\ Begin(d, j + n + 1)
      BY <3>1, <3>2, NextLabel, Zenon
    <3> QED
      BY <3>1, <3>3 DEF IsLabel
  <2>3. rest.status = "ok" => f[<<11 + j, j - 1, hops>>] = [rest EXCEPT !.name = a \o <<Dot>> \o @]
    <3>1. LabelRead(msg, d, j, hops)
      BY ReadsLabel
    <3> QED
      BY <3>1, Zenon DEF LabelRead
  <2> HIDE DEF n, f
  <2>4. \A l : Begin(d, l) /\ Len(d) - l < m => f[<<11 + l, l - 1, 0>>] = NameFrom(d, l)
    <3>1. \A l : \A h \in Nat : Begin(d, l) /\ Len(d) - l < m => f[<<11 + l, l - 1, h>>] = NameFrom(d, l)
      OBVIOUS
    <3>2. 0 \in Nat
      OBVIOUS
    <3> QED
      BY <3>1, <3>2, Zenon
  <2> DEFINE x == rest.name
  <2>5. /\ rest = [status |-> "ok", name |-> x, end |-> Len(d) + 14]
        /\ a \o <<Dot>> \o x = SubSeq(d, j, Len(d)) \o <<Dot>>
    <3>1. CASE j + n = Len(d) + 1
      <4>1. rest = [status |-> "ok", name |-> <<>>, end |-> Len(d) + 14]
        <5>1. Len(msg) \in Nat /\ Len(d) + 14 <= Len(msg) /\ At(msg, 13 + Len(d)) = 0
          BY DEF Names
        <5>2. 13 + Len(d) \in Nat /\ Len(d) + 1 \in Nat /\ 13 + Len(d) < Len(msg) /\ 0 \in Nat
          BY <1>1, <5>1
        <5>3. 12 + j + n = 13 + Len(d) /\ 13 + Len(d) + 1 = Len(d) + 14
          BY <1>1, <2>1, <2>2, <3>1
        <5>4. f[<<13 + Len(d), Len(d) + 1, 0>>] = read_on(msg, f, 13 + Len(d), Len(d) + 1, 0)
          BY <5>1, <5>2, ReaderAt DEF f
        <5>5. @ = [status |-> "ok", name |-> <<>>, end |-> 13 + Len(d) + 1]
          BY <5>1, <5>2, ReadEnd
        <5> QED
          BY <3>1, <5>3, <5>4, <5>5, Zenon
      <4>2. j + n - 1 = Len(d)
        BY <1>1, <2>1, <2>2, <3>1
      <4>3. SubSeq(d, j, Len(d)) \o <<Dot>> \o <<>> = SubSeq(d, j, Len(d)) \o <<Dot>>
        <5>1. SubSeq(d, j, Len(d)) \o <<Dot>> \in Seq(Byte)
          <6> DEFINE c == SubSeq(d, j, Len(d))
          <6>1. c \in Seq(Byte)
            BY <1>1, <2>1
          <6>2. Dot \in Byte
            BY NameAssumption DEF Byte
          <6> HIDE DEF c
          <6>3. c \o <<Dot>> \in Seq(Byte)
            BY <6>1, <6>2
          <6> QED
            BY <6>3 DEF c
        <5> QED
          BY <5>1
      <4>4. x = <<>> /\ a = SubSeq(d, j, Len(d))
        <5> HIDE DEF rest
        <5> QED
          BY <4>1, <4>2
      <4> HIDE DEF rest, a, x
      <4> QED
        BY <4>1, <4>3, <4>4
    <3>2. CASE j + n # Len(d) + 1
      <4> DEFINE l == Len(d)
      <4>0. l \in Nat /\ j \in Nat /\ n \in Nat /\ j + n <= l + 1 /\ j + n # l + 1 /\ l - j < m + 1
        BY <1>1, <2>1, <2>2, <3>2
      <4> HIDE DEF l
      <4>a. j + n <= l /\ l - (j + n + 1) < m
        BY <4>0
      <4>1. j + n <= Len(d)
        BY <4>a DEF l
      <4>2. d[j + n] = Dot /\ Begin(d, j + n + 1)
        BY <2>2, <4>1
      <4>3. rest = NameFrom(d, j + n + 1)
        <5>1. Len(d) - (j + n + 1) < m
          BY <4>a DEF l
        <5>2. 11 + (j + n + 1) = 12 + j + n /\ (j + n + 1) - 1 = j + n
          BY <2>1, <2>2
        <5> QED
          BY <2>4, <4>2, <5>1, <5>2, Zenon
      <4>4. j + n < Len(d)
        BY <1>1, <2>1, <2>2, <4>2 DEF Begin
      <4>5. a \o <<Dot>> \o (SubSeq(d, j + n + 1, Len(d)) \o <<Dot>>) = SubSeq(d, j, Len(d)) \o <<Dot>>
        <5>1. n \in Nat
          BY <2>2
        <5> QED
          BY <1>1, <2>1, <4>2, <4>4, <5>1, LabelsJoin, Zenon
      <4>6. x = SubSeq(d, j + n + 1, Len(d)) \o <<Dot>>
        <5> HIDE DEF rest
        <5> QED
          BY <4>3 DEF NameFrom
      <4> HIDE DEF rest, a, x
      <4>7. rest = [status |-> "ok", name |-> x, end |-> Len(d) + 14]
        BY <4>3, <4>6, Zenon DEF NameFrom
      <4> QED
        BY <4>5, <4>6, <4>7, Zenon
    <3> QED
      BY <3>1, <3>2
  <2> HIDE DEF rest, a, x
  <2>6. [rest EXCEPT !.name = a \o <<Dot>> \o @]
            = [status |-> "ok", name |-> a \o <<Dot>> \o x, end |-> Len(d) + 14]
    <3>1. rest.name = x
      BY DEF x
    <3> DEFINE y == a \o <<Dot>> \o x
    <3> HIDE DEF y
    <3>2. [rest EXCEPT !.name = y] = [status |-> "ok", name |-> y, end |-> Len(d) + 14]
      BY <2>5
    <3> QED
      BY <3>1, <3>2, Zenon DEF y
  <2>7. rest.status = "ok"
    BY <2>5
  <2> QED
    BY <2>3, <2>5, <2>6, <2>7 DEF NameFrom
<1>4. Nat \subseteq S
  <2> HIDE DEF S
  <2> QED
    BY <1>2, <1>3, SetInduction
<1>5. ASSUME NEW j, NEW hops \in Nat, Begin(d, j)
      PROVE  f[<<11 + j, j - 1, hops>>] = NameFrom(d, j)
  <2>1. Len(d) - j + 1 \in Nat /\ Len(d) - j < Len(d) - j + 1
    BY <1>1, <1>5 DEF Begin
  <2>2. Len(d) - j + 1 \in S
    BY <1>4, <2>1
  <2> QED
    BY <1>5, <2>1, <2>2
<1> QED
  BY <1>5, Zenon

LEMMA WholeName ==
    ASSUME NEW d \in Seq(Byte)
    PROVE  SubSeq(d, 1, Len(d)) \o <<Dot>> = Append(d, Dot)
<1>1. SubSeq(d, 1, Len(d)) = d
  OBVIOUS
<1>2. d \o <<Dot>> = Append(d, Dot)
  <2>1. Dot \in Byte
    BY NameAssumption DEF Byte
  <2> QED
    BY <2>1
<1> QED
  BY <1>1, <1>2, Zenon

\* The name behind the header, read from there or through pointers to it.
LEMMA ReadsWholeName ==
    ASSUME NEW d, IsDomain(d), NEW msg \in Seq(Byte), Names(msg, d), NEW hops \in Nat
    PROVE  reader(msg)[<<12, 0, hops>>] = [status |-> "ok", name |-> Append(d, Dot), end |-> Len(d) + 14]
<1>1. Begin(d, 1)
  BY DEF IsDomain, Begin
<1>2. reader(msg)[<<11 + 1, 1 - 1, hops>>] = NameFrom(d, 1)
  BY <1>1, ReadsName
<1>3. 11 + 1 = 12 /\ 1 - 1 = 0
  OBVIOUS
<1>4. NameFrom(d, 1) = [status |-> "ok", name |-> Append(d, Dot), end |-> Len(d) + 14]
  <2>1. d \in Seq(Byte)
    BY DEF IsDomain
  <2> QED
    BY <2>1, WholeName, Zenon DEF NameFrom
<1> QED
  BY <1>2, <1>3, <1>4, Zenon

\* The name that is asked for is read out of the query again.
THEOREM QueryNamesDomain ==
    ASSUME NEW d, IsDomain(d)
    PROVE  LET query == mk_dns_query(d)
               name == get_objectname(query, HeaderSize)
           IN /\ name.status = "ok"
              /\ name.name = Append(d, Dot)
              /\ name.end + 4 = Len(query)
<1> DEFINE query == mk_dns_query(d)
           name == get_objectname(query, HeaderSize)
<1>1. query \in Seq(Byte) /\ Len(query) = Len(d) + 18 /\ Names(query, d)
  BY QueryIs
<1> HIDE DEF query
<1>2. Len(d) \in Nat
  BY DEF IsDomain
<1>3. reader(query)[<<12, 0, 0>>] = [status |-> "ok", name |-> Append(d, Dot), end |-> Len(d) + 14]
  <2>1. 0 \in Nat
    OBVIOUS
  <2> QED
    BY <1>1, <2>1, ReadsWholeName, Zenon
<1>4. name = reader(query)[<<12, 0, 0>>]
  <2>1. 12 < Len(query)
    BY <1>1, <1>2
  <2> QED
    BY <2>1 DEF get_objectname, HeaderSize
<1> HIDE DEF name
<1>5. name.status = "ok" /\ name.name = Append(d, Dot) /\ name.end = Len(d) + 14
  BY <1>3, <1>4
<1> QED
  BY <1>1, <1>2, <1>5 DEF query, name

-----------------------------------------------------------------------------
(* Every query *)

\* The name asked for is one of those there are, from the first to the last step.
HostInv == host \in Hosts \cup {IpHost}

\* Whatever name of well formed labels is asked for, however many and long they are, the
\* code's own reader takes it out of the query again.
THEOREM QueryNamesEveryHost ==
    ASSUME \A h \in Hosts : IsDomain(h)
    PROVE  Spec => []QueryNamesHost
<1>1. Init => HostInv
  BY DEF Init, HostInv
<1>2. HostInv /\ [Next]_vars => HostInv'
  <2>1. ASSUME HostInv, [Next]_vars
        PROVE  host' = host
    <3>1. CASE HostIsAddress
      BY <3>1 DEF HostIsAddress, argVars
    <3>2. CASE \E fd \in {-1, 0, 3} : Socket(fd)
      BY <3>2 DEF Socket, argVars
    <3>3. CASE \E bound \in BOOLEAN : Configure(bound)
      BY <3>3 DEF Configure, argVars
    <3>4. CASE SendOk \/ SendFails \/ ReceiveFails \/ Timeout
      BY <3>4 DEF SendOk, SendFails, ReceiveFails, Timeout, argVars
    <3>5. CASE Receive
      BY <3>5 DEF Receive, Take, argVars
    <3>6. CASE Arrive \/ Expire \/ UNCHANGED vars
      BY <3>6 DEF Arrive, Expire, vars, argVars
    <3> QED
      BY <2>1, <3>1, <3>2, <3>3, <3>4, <3>5, <3>6 DEF Next, Lookup
  <2> QED
    BY <2>1 DEF HostInv
<1>3. HostInv => QueryNamesHost
  <2> SUFFICES ASSUME HostInv, host # IpHost
               PROVE  QueryNamesHost
    BY DEF QueryNamesHost
  <2>1. IsDomain(host)
    BY DEF HostInv
  <2> QED
    BY <2>1, QueryNamesDomain, Zenon DEF QueryNamesHost
<1> QED
  BY <1>1, <1>2, <1>3, PTL DEF Spec

-----------------------------------------------------------------------------
(* Names, records and answers fit, whatever the message says *)

NameResult == [status : {"ok", "fail", "garbage", "loops"}, name : Seq(Byte), end : Nat]

\* What was read of a name at an offset, behind k bytes, ends within the message and fits
\* into what is left of the buffer, with the final zero.
Fits(msg, r, o, k) ==
    /\ r \in NameResult
    /\ r.status = "ok" => k + Len(r.name) < NameSize /\ o < r.end /\ r.end <= Len(msg)

LEMMA FailedFits ==
    ASSUME NEW msg, NEW o, NEW k, NEW why \in {"fail", "garbage", "loops"}
    PROVE  Fits(msg, Failed(why), o, k)
BY DEF Fits, Failed, NameResult

LEMMA PointedFits ==
    ASSUME NEW msg \in Seq(Byte), NEW o \in Nat, NEW k \in Nat, NEW hops \in Nat, NEW jump,
           o + 1 < Len(msg), Fits(msg, jump, Target(msg, o), k)
    PROVE  Fits(msg, Pointed(msg, jump, o, k, hops), o, k)
<1> DEFINE r == Pointed(msg, jump, o, k, hops)
<1>1. CASE r = Failed("fail") \/ r = Failed("loops")
  BY <1>1, FailedFits
<1>2. CASE ~(r = Failed("fail") \/ r = Failed("loops"))
  <2>1. r = IF jump.status = "ok" THEN [jump EXCEPT !.end = o + 2] ELSE jump
    BY <1>2 DEF Pointed
  <2> HIDE DEF r
  <2>2. CASE jump.status = "ok"
    <3>1. r = [jump EXCEPT !.end = o + 2] /\ o + 2 \in Nat
      BY <2>1, <2>2
    <3>2. r \in NameResult /\ r.name = jump.name /\ r.end = o + 2
      BY <3>1 DEF Fits, NameResult
    <3>3. o + 2 <= Len(msg) /\ o < o + 2
      OBVIOUS
    <3>4. Fits(msg, r, o, k)
      BY <2>2, <3>2, <3>3 DEF Fits
    <3> QED
      BY <3>4 DEF r
  <2>3. CASE jump.status # "ok"
    <3>1. Fits(msg, r, o, k)
      BY <2>1, <2>3 DEF Fits
    <3> QED
      BY <3>1 DEF r
  <2> QED
    BY <2>2, <2>3
<1> QED
  BY <1>1, <1>2

LEMMA LabelledFits ==
    ASSUME NEW msg \in Seq(Byte), NEW o \in Nat, NEW k \in Nat, NEW rest,
           o + 1 < Len(msg), At(msg, o) \in 1..63,
           Fits(msg, rest, o + 1 + At(msg, o), k + At(msg, o) + 1)
    PROVE  Fits(msg, Labelled(msg, rest, o, k), o, k)
<1> DEFINE r == Labelled(msg, rest, o, k)
           n == At(msg, o)
           a == Bytes(msg, o + 1, n)
           x == rest.name
           y == a \o <<Dot>> \o x
<1> HIDE DEF n
<1>1. n \in 1..63 /\ Fits(msg, rest, o + 1 + n, k + n + 1)
  BY DEF n
<1>2. CASE o + 1 + n > Len(msg) \/ n + k + 2 > NameSize
  <2>1. r = Failed("fail")
    BY <1>2 DEF Labelled, n
  <2> QED
    BY <2>1, FailedFits
<1>3. CASE ~(o + 1 + n > Len(msg) \/ n + k + 2 > NameSize)
  <2>1. r = IF rest.status = "ok" THEN [rest EXCEPT !.name = y] ELSE rest
    BY <1>3, Zenon DEF Labelled, n
  <2>2. a \in Seq(Byte) /\ Len(a) = n
    <3>1. n \in Nat /\ o + 2 \in Nat /\ o + 2 >= 1 /\ o + 2 + n <= Len(msg) + 1
      BY <1>1, <1>3
    <3>2. o + 1 + 1 = o + 2 /\ o + 1 + n = o + 2 + n - 1
      BY <1>1
    <3>3. a = SubSeq(msg, o + 2, o + 2 + n - 1)
      BY <3>2, Zenon DEF Bytes
    <3> HIDE DEF a
    <3> QED
      BY <3>1, <3>3, SubSeqIs
  <2>3. rest \in NameResult
    BY <1>1 DEF Fits
  <2>4. x \in Seq(Byte) /\ Dot \in Byte /\ Len(x) \in Nat
    BY <2>3, NameAssumption DEF NameResult, Byte
  <2> HIDE DEF a, x
  <2>5. y \in Seq(Byte) /\ Len(y) = n + 1 + Len(x)
    <3>1. <<Dot>> \in Seq(Byte) /\ Len(<<Dot>>) = 1
      BY <2>4
    <3> DEFINE m == <<Dot>>
    <3> HIDE DEF m
    <3>2. m \in Seq(Byte) /\ Len(m) = 1
      BY <3>1 DEF m
    <3>3. a \o m \o x \in Seq(Byte) /\ Len(a \o m \o x) = n + 1 + Len(x)
      <4>1. Joins(a \o m \o x, Byte, a, m, x)
        BY <2>2, <2>4, <3>2, JoinThree
      <4> DEFINE z == a \o m \o x
      <4> HIDE DEF z
      <4>2. z \in Seq(Byte) /\ Len(z) = Len(a) + Len(m) + Len(x)
        BY <4>1, Zenon DEF Joins, z
      <4>3. Len(z) = n + 1 + Len(x)
        BY <2>2, <3>2, <4>2
      <4> QED
        BY <4>2, <4>3 DEF z
    <3> QED
      BY <3>3, Zenon DEF m
  <2> HIDE DEF r, y
  <2>6. CASE rest.status = "ok"
    <3>1. r = [rest EXCEPT !.name = y]
      BY <2>1, <2>6
    <3> DEFINE e == rest.end
               l == Len(x)
    <3>2. r \in NameResult /\ r.name = y /\ r.end = e
      BY <2>3, <2>5, <3>1 DEF NameResult
    <3>3. k + n + 1 + l < NameSize /\ o + 1 + n < e /\ e <= Len(msg) /\ e \in Nat /\ l \in Nat
      BY <1>1, <2>3, <2>4, <2>6 DEF Fits, NameResult, x
    <3>4. Len(y) = n + 1 + l
      BY <2>5
    <3> HIDE DEF e, l
    <3>5. k + Len(y) < NameSize /\ o < e
      BY <1>1, <3>3, <3>4, NameAssumption
    <3>6. Fits(msg, r, o, k)
      BY <3>2, <3>3, <3>5, Zenon DEF Fits
    <3> QED
      BY <3>6 DEF r
  <2>7. CASE rest.status # "ok"
    <3>1. Fits(msg, r, o, k)
      BY <2>1, <2>3, <2>7 DEF Fits
    <3> QED
      BY <3>1 DEF r
  <2> QED
    BY <2>6, <2>7
<1> QED
  BY <1>2, <1>3

LEMMA ReaderFits ==
    ASSUME NEW msg \in Seq(Byte)
    PROVE  \A o, k, hops \in Nat : k < NameSize => Fits(msg, reader(msg)[<<o, k, hops>>], o, k)
<1> DEFINE f == reader(msg)
           S == {m \in Nat : \A o, k, hops \in Nat :
                    k < NameSize /\ Work(msg, k, hops) < m => Fits(msg, f[<<o, k, hops>>], o, k)}
<1> HIDE DEF f
<1>1. 0 \in S
  <2>1. \A k, hops \in Nat : Work(msg, k, hops) \in Nat
    BY WorkIsNat
  <2>2. \A k, hops \in Nat : ~(Work(msg, k, hops) < 0)
    BY <2>1
  <2> QED
    BY <2>2
<1>2. \A m \in Nat : m \in S => m + 1 \in S
  <2> SUFFICES ASSUME NEW m \in Nat, m \in S
               PROVE  m + 1 \in S
    OBVIOUS
  <2> SUFFICES ASSUME NEW o \in Nat, NEW k \in Nat, NEW hops \in Nat,
                      k < NameSize, Work(msg, k, hops) < m + 1
               PROVE  Fits(msg, f[<<o, k, hops>>], o, k)
    OBVIOUS
  <2> DEFINE r == read_on(msg, f, o, k, hops)
  <2>1. f[<<o, k, hops>>] = r
    BY ReaderAt DEF f
  <2>2. \A o2, k2, hops2 \in Nat :
            k2 < NameSize /\ Work(msg, k2, hops2) < m => Fits(msg, f[<<o2, k2, hops2>>], o2, k2)
    OBVIOUS
  <2> HIDE DEF S
  <2>3. CASE o >= Len(msg)
    <3>1. r = Failed("garbage")
      BY <2>3, ReadBehind
    <3> QED
      BY <2>1, <3>1, FailedFits
  <2>4. ASSUME o < Len(msg)
        PROVE  Fits(msg, r, o, k)
    <3>1. At(msg, o) \in 0..255
      BY <2>4, ByteAt
    <3>2. CASE At(msg, o) = 0
      <4>1. r = [status |-> "ok", name |-> <<>>, end |-> o + 1]
        BY <2>4, <3>2, ReadEnd
      <4> HIDE DEF r
      <4>2. r \in NameResult /\ r.name = <<>> /\ r.end = o + 1
        BY <4>1 DEF NameResult
      <4> QED
        BY <2>4, <4>2 DEF Fits
    <3>3. CASE At(msg, o) # 0 /\ o + 1 >= Len(msg)
      <4>1. r = Failed("fail")
        BY <2>4, <3>3, ReadCut
      <4> QED
        BY <4>1, FailedFits
    <3>4. ASSUME o + 1 < Len(msg), At(msg, o) >= 64
          PROVE  Fits(msg, r, o, k)
      <4> DEFINE jump == f[<<Target(msg, o), k, hops + 1>>]
      <4>1. r = Pointed(msg, jump, o, k, hops)
        BY <3>4, ReadPointer
      <4>2. CASE hops <= Len(msg)
        <5>1. Target(msg, o) \in Nat
          BY <3>4, TargetIsNat
        <5>2. Work(msg, k, hops + 1) < m
          <6>1. Work(msg, k, hops + 1) < Work(msg, k, hops)
            BY <4>2, PointerWorks
          <6>2. Work(msg, k, hops + 1) \in Nat /\ Work(msg, k, hops) \in Nat
            <7>1. hops + 1 \in Nat
              OBVIOUS
            <7> QED
              BY <7>1, WorkIsNat
          <6> DEFINE u == Work(msg, k, hops + 1)
                     v == Work(msg, k, hops)
          <6>3. v < m + 1
            OBVIOUS
          <6> HIDE DEF u, v
          <6>4. u < v /\ u \in Nat /\ v \in Nat
            BY <6>1, <6>2 DEF u, v
          <6>5. u < m
            BY <6>3, <6>4
          <6> QED
            BY <6>5 DEF u
        <5>3. hops + 1 \in Nat
          OBVIOUS
        <5>4. Fits(msg, jump, Target(msg, o), k)
          BY <2>2, <5>1, <5>2, <5>3
        <5> HIDE DEF jump, r
        <5> QED
          BY <3>4, <4>1, <5>4, PointedFits
      <4>3. CASE ~(hops <= Len(msg))
        <5>1. r = Failed("fail") \/ r = Failed("loops")
          <6> HIDE DEF r, jump
          <6>1. hops > Len(msg)
            BY <4>3
          <6> QED
            BY <4>1, <6>1 DEF Pointed
        <5> QED
          BY <5>1, FailedFits
      <4> QED
        BY <4>2, <4>3
    <3>5. ASSUME o + 1 < Len(msg), At(msg, o) \in 1..63
          PROVE  Fits(msg, r, o, k)
      <4> DEFINE n == At(msg, o)
                 rest == f[<<o + 1 + n, k + n + 1, 0>>]
      <4>1. r = Labelled(msg, rest, o, k)
        BY <3>5, ReadLabel
      <4>2. CASE n + k + 2 > NameSize
        <5>1. r = Failed("fail")
          BY <4>1, <4>2 DEF Labelled
        <5> QED
          BY <5>1, FailedFits
      <4>3. CASE ~(n + k + 2 > NameSize)
        <5>1. n + k + 2 <= NameSize /\ n \in Nat /\ o + 1 + n \in Nat /\ k + n + 1 \in Nat
              /\ k + n + 1 < NameSize
          <6>1. n \in 1..63
            BY <3>5
          <6> HIDE DEF n
          <6> QED
            BY <4>3, <6>1, NameAssumption
        <5>2. Work(msg, k + n + 1, 0) < m
          <6>1. Work(msg, k + n + 1, 0) < Work(msg, k, hops)
            BY <5>1, LabelWorks
          <6>2. Work(msg, k + n + 1, 0) \in Nat /\ Work(msg, k, hops) \in Nat
            BY <5>1, WorkIsNat
          <6> DEFINE u == Work(msg, k + n + 1, 0)
                     v == Work(msg, k, hops)
          <6>3. v < m + 1
            OBVIOUS
          <6> HIDE DEF u, v
          <6>4. u < v /\ u \in Nat /\ v \in Nat
            BY <6>1, <6>2 DEF u, v
          <6>5. u < m
            BY <6>3, <6>4
          <6> QED
            BY <6>5 DEF u
        <5>3. Fits(msg, rest, o + 1 + n, k + n + 1)
          BY <2>2, <5>1, <5>2
        <5> HIDE DEF rest, r
        <5> QED
          BY <3>5, <4>1, <5>3, LabelledFits
      <4> QED
        BY <4>2, <4>3
    <3>6. \A len \in 0..255 : len = 0 \/ (len # 0 /\ o + 1 >= Len(msg))
              \/ (o + 1 < Len(msg) /\ len >= 64) \/ (o + 1 < Len(msg) /\ len \in 1..63)
      OBVIOUS
    <3> HIDE DEF r
    <3> QED
      BY <3>1, <3>2, <3>3, <3>4, <3>5, <3>6
  <2> QED
    BY <2>1, <2>3, <2>4
<1>3. Nat \subseteq S
  <2> HIDE DEF S
  <2> QED
    BY <1>1, <1>2, SetInduction
<1>4. ASSUME NEW o \in Nat, NEW k \in Nat, NEW hops \in Nat, k < NameSize
      PROVE  Fits(msg, f[<<o, k, hops>>], o, k)
  <2> DEFINE m == Work(msg, k, hops) + 1
  <2>1. m \in Nat /\ Work(msg, k, hops) < m
    <3>1. Work(msg, k, hops) \in Nat
      BY WorkIsNat
    <3> QED
      BY <3>1
  <2>2. m \in S
    BY <1>3, <2>1
  <2> QED
    BY <1>4, <2>1, <2>2
<1> QED
  BY <1>4 DEF f

\* A name that is read of any message, through whatever pointers, fits into its buffer
\* with the final zero, and leaves the cursor within the message.
THEOREM NamesFit ==
    ASSUME NEW msg \in Seq(Byte), NEW start \in Nat
    PROVE  Fits(msg, get_objectname(msg, start), start, 0)
<1>1. CASE start < Len(msg)
  <2>1. get_objectname(msg, start) = reader(msg)[<<start, 0, 0>>]
    BY <1>1 DEF get_objectname
  <2> QED
    BY <2>1, ReaderFits, NameAssumption
<1>2. CASE ~(start < Len(msg))
  <2>1. get_objectname(msg, start) = Failed("fail")
    BY <1>2 DEF get_objectname
  <2> QED
    BY <2>1, FailedFits
<1> QED
  BY <1>1, <1>2

RecordResult == [status : {"ok", "fail", "garbage", "loops"}, type : Nat, class : Nat,
                 data : Seq(Byte), end : Nat]

\* A record that was read at here ends within the message, and what is kept of its data
\* fits into the buffer with the zero behind it.
RecordFits(msg, y, here) ==
    /\ y \in RecordResult
    /\ y.status = "ok" => Len(y.data) + 4 <= NameSize /\ here < y.end /\ y.end <= Len(msg)

LEMMA WordAt ==
    ASSUME NEW msg \in Seq(Byte), NEW o \in Nat, o + 1 < Len(msg)
    PROVE  Word(msg, o) \in Nat
<1>1. o + 1 \in Nat /\ o < Len(msg)
  OBVIOUS
<1>2. At(msg, o) \in 0..255
  BY <1>1, ByteAt
<1>3. At(msg, o + 1) \in 0..255
  BY <1>1, ByteAt
<1>4. \A x, y \in 0..255 : 256 * x + y \in Nat
  OBVIOUS
<1> QED
  BY <1>2, <1>3, <1>4, Zenon DEF Word

LEMMA NoRecordFits ==
    ASSUME NEW msg, NEW here, NEW why \in {"fail", "garbage", "loops"}
    PROVE  RecordFits(msg, NoRecord(why), here)
BY DEF RecordFits, NoRecord, RecordResult

\* What is kept of the data of a record fits into its buffer with the final zero, and the
\* cursor goes on within the message.
THEOREM RecordsFit ==
    ASSUME NEW msg \in Seq(Byte), NEW here \in Nat, NEW question \in BOOLEAN
    PROVE  RecordFits(msg, read_record(msg, here, question), here)
<1> DEFINE name == get_objectname(msg, here)
           h == name.end
           y == read_record(msg, here, question)
           len == Word(msg, h + 8)
           kept == IF len > NameSize - 4 THEN NameSize - 4 ELSE len
           data == Bytes(msg, h + 10, kept)
<1>1. name \in NameResult /\ (name.status = "ok" => here < h /\ h <= Len(msg))
  BY NamesFit DEF Fits
<1> HIDE DEF name
<1>2. h \in Nat /\ name.status \in {"ok", "fail", "garbage", "loops"} /\ Len(msg) \in Nat
  BY <1>1 DEF NameResult
<1>3. CASE name.status # "ok"
  <2>1. y = NoRecord(name.status)
    BY <1>3 DEF read_record, name
  <2> QED
    BY <1>2, <1>3, <2>1, NoRecordFits
<1>4. CASE name.status = "ok" /\ h + 4 > Len(msg)
  <2>1. y = NoRecord("fail")
    BY <1>2, <1>4 DEF read_record, name
  <2> QED
    BY <2>1, NoRecordFits
<1>5. ASSUME name.status = "ok", h + 4 <= Len(msg)
      PROVE  RecordFits(msg, y, here)
  <2> DEFINE t == Word(msg, h)
             c == Word(msg, h + 2)
  <2>1. t \in Nat
    BY <1>2, <1>5, WordAt
  <2>2. c \in Nat
    <3>1. h + 2 \in Nat /\ h + 2 + 1 < Len(msg)
      BY <1>2, <1>5
    <3> QED
      BY <3>1, WordAt
  <2> HIDE DEF h, t, c
  <2>3. here < h
    BY <1>1, <1>5 DEF h
  <2>4. CASE question
    <3>1. y = [status |-> "ok", type |-> t, class |-> c, data |-> <<>>, end |-> h + 4]
      BY <1>5, <2>4 DEF read_record, name, h, t, c
    <3> HIDE DEF y
    <3>2. y \in RecordResult /\ y.data = <<>> /\ y.end = h + 4
      BY <1>2, <2>1, <2>2, <3>1 DEF RecordResult
    <3>3. Len(y.data) + 4 <= NameSize /\ here < y.end /\ y.end <= Len(msg)
      BY <1>2, <1>5, <2>3, <3>2, NameAssumption
    <3>4. RecordFits(msg, y, here)
      BY <3>2, <3>3 DEF RecordFits
    <3> QED
      BY <3>4 DEF y
  <2>5. CASE ~question /\ (h + 10 > Len(msg) \/ h + 10 + len > Len(msg))
    <3>1. y = NoRecord("fail")
      BY <1>5, <2>5 DEF read_record, name, h
    <3> QED
      BY <3>1, NoRecordFits
  <2>6. ASSUME ~question, ~(h + 10 > Len(msg)), ~(h + 10 + len > Len(msg))
        PROVE  RecordFits(msg, y, here)
    <3>1. y = [status |-> "ok", type |-> t, class |-> c, data |-> data, end |-> h + 10 + len]
      <4> DEFINE record == [status |-> "ok", type |-> t, class |-> c, data |-> <<>>, end |-> h + 4]
      <4> HIDE DEF data, len
      <4>1. y = [record EXCEPT !.data = data, !.end = h + 10 + len]
        BY <1>5, <2>6 DEF read_record, name, h, t, c, data, len
      <4> QED
        BY <4>1
    <3>2. len \in Nat
      <4>1. h + 8 \in Nat /\ h + 8 + 1 < Len(msg)
        BY <1>2, <2>6
      <4> QED
        BY <4>1, WordAt
    <3> HIDE DEF y, len
    <3>3. kept \in Nat /\ kept <= len /\ kept <= NameSize - 4
      BY <3>2, NameAssumption
    <3> HIDE DEF kept
    <3>4. data \in Seq(Byte) /\ Len(data) = kept
      <4>1. h + 11 \in Nat /\ h + 11 >= 1 /\ h + 11 + kept <= Len(msg) + 1
        BY <1>2, <2>6, <3>2, <3>3
      <4>2. h + 10 + 1 = h + 11 /\ h + 10 + kept = h + 11 + kept - 1
        BY <1>2, <3>3
      <4>3. data = SubSeq(msg, h + 11, h + 11 + kept - 1)
        BY <4>2, Zenon DEF Bytes
      <4> HIDE DEF data
      <4> QED
        BY <3>3, <4>1, <4>3, SubSeqIs
    <3> HIDE DEF data
    <3>5. y \in RecordResult /\ y.data = data /\ y.end = h + 10 + len
      BY <1>2, <2>1, <2>2, <3>1, <3>2, <3>4 DEF RecordResult
    <3>6. Len(data) + 4 <= NameSize /\ here < h + 10 + len /\ h + 10 + len <= Len(msg)
      BY <1>2, <2>3, <2>6, <3>2, <3>3, <3>4, NameAssumption
    <3>7. RecordFits(msg, y, here)
      BY <3>5, <3>6, Zenon DEF RecordFits
    <3> QED
      BY <3>7 DEF y
  <2> QED
    BY <2>4, <2>5, <2>6
<1>6. name.status = "ok" => h + 4 > Len(msg) \/ h + 4 <= Len(msg)
  BY <1>2
<1> QED
  BY <1>3, <1>4, <1>5, <1>6

LEMMA CountIsInt ==
    ASSUME NEW msg \in Seq(Byte), Len(msg) >= 8
    PROVE  ancount(msg) \in Int /\ ancount(msg) <= 32767
<1>1. At(msg, 6) \in 0..255 /\ At(msg, 7) \in 0..255
  <2>1. 6 \in Nat /\ 7 \in Nat /\ 6 < Len(msg) /\ 7 < Len(msg)
    OBVIOUS
  <2> QED
    BY <2>1, ByteAt
<1> DEFINE n == Word(msg, 6)
<1>2. \A x, y \in 0..255 : 256 * x + y \in Nat /\ 256 * x + y <= 65535
  OBVIOUS
<1>3. 6 + 1 = 7
  OBVIOUS
<1>4. n \in Nat /\ n <= 65535
  <2> DEFINE x == At(msg, 6)
             y == At(msg, 7)
  <2>1. n = 256 * x + y
    BY <1>3 DEF Word
  <2> HIDE DEF x, y, n
  <2>2. x \in 0..255 /\ y \in 0..255
    BY <1>1 DEF x, y
  <2> QED
    BY <1>2, <2>1, <2>2
<1>5. ancount(msg) = IF n >= 32768 THEN n - 65536 ELSE n
  BY DEF ancount
<1> HIDE DEF n
<1> QED
  BY <1>4, <1>5

PPlaces == Nat \X Nat \X Seq(Seq(Byte))

\* f is a parser of the answers of msg: it satisfies the equation of the code's loop.
Parses(msg, room, f) == f = [p \in PPlaces |-> parse_on(msg, room, f, p[1], p[2], p[3])]

\* The answers from the j-th on.
Remaining(msg, j) == Left(ancount(msg) - j)

\* The addresses found, when the record y is one more answer.
More(y, room, found) ==
    IF IsAddress(y) /\ Len(found) < room THEN Append(found, y.data) ELSE found

LEMMA MoreIsFound ==
    ASSUME NEW msg, NEW here, NEW y, RecordFits(msg, y, here), NEW found \in Seq(Seq(Byte)), NEW room \in Nat
    PROVE  More(y, room, found) \in Seq(Seq(Byte))
<1>1. y.data \in Seq(Byte)
  BY DEF RecordFits, RecordResult
<1> QED
  BY <1>1 DEF More

\* f and g give the same where less than n answers are left.
Same(msg, f, g, n) == \A p \in PPlaces : Remaining(msg, p[1]) < n => f[p] = g[p]

LEMMA ParseOnLess ==
    ASSUME NEW msg \in Seq(Byte), Len(msg) >= 8, NEW room \in Nat, NEW f, NEW g,
           NEW j \in Nat, NEW here \in Nat, NEW found \in Seq(Seq(Byte)),
           Same(msg, f, g, Remaining(msg, j))
    PROVE  parse_on(msg, room, f, j, here, found) = parse_on(msg, room, g, j, here, found)
<1> DEFINE y == read_record(msg, here, FALSE)
           q == <<j + 1, y.end, More(y, room, found)>>
<1>1. RecordFits(msg, y, here)
  BY RecordsFit
<1> HIDE DEF y
<1>2. q \in PPlaces /\ q[1] = j + 1
  <2>1. y.end \in Nat
    BY <1>1 DEF RecordFits, RecordResult
  <2>2. More(y, room, found) \in Seq(Seq(Byte))
    BY <1>1, MoreIsFound
  <2> QED
    BY <2>1, <2>2 DEF PPlaces
<1>3. CASE j >= ancount(msg)
  BY <1>3 DEF parse_on
<1>4. CASE ~(j >= ancount(msg))
  <2>1. Remaining(msg, j + 1) < Remaining(msg, j)
    BY <1>4, CountIsInt DEF Remaining, Left
  <2>2. f[q] = g[q]
    <3> HIDE DEF q
    <3> QED
      BY <1>2, <2>1 DEF Same
  <2> QED
    BY <1>4, <2>2, Zenon DEF parse_on, y, More
<1> QED
  BY <1>3, <1>4

\* The equation holds for the last answers, of which there are less than n.
Ends(msg, room, f, n) ==
    \A p \in PPlaces : Remaining(msg, p[1]) < n => f[p] = parse_on(msg, room, f, p[1], p[2], p[3])

LEMMA ParseMore ==
    ASSUME NEW msg \in Seq(Byte), Len(msg) >= 8, NEW room \in Nat, NEW n \in Nat, NEW f, Ends(msg, room, f, n)
    PROVE  LET g == [p \in PPlaces |-> parse_on(msg, room, f, p[1], p[2], p[3])]
           IN /\ Ends(msg, room, g, n + 1)
              /\ Same(msg, f, g, n)
<1> DEFINE g == [p \in PPlaces |-> parse_on(msg, room, f, p[1], p[2], p[3])]
<1>1. \A p \in PPlaces : g[p] = parse_on(msg, room, f, p[1], p[2], p[3])
  BY Zenon
<1> HIDE DEF g
<1>2. Same(msg, f, g, n)
  BY <1>1, Zenon DEF Ends, Same
<1>3. ASSUME NEW p \in PPlaces, Remaining(msg, p[1]) < n + 1
      PROVE  g[p] = parse_on(msg, room, g, p[1], p[2], p[3])
  <2>1. p[1] \in Nat /\ p[2] \in Nat /\ p[3] \in Seq(Seq(Byte))
    BY DEF PPlaces
  <2>2. ASSUME NEW q \in PPlaces, Remaining(msg, q[1]) < Remaining(msg, p[1])
        PROVE  f[q] = g[q]
    <3>1. q[1] \in Nat
      BY DEF PPlaces
    <3>2. Remaining(msg, q[1]) \in Nat /\ Remaining(msg, p[1]) \in Nat
      BY <2>1, <3>1, CountIsInt DEF Remaining, Left
    <3>3. Remaining(msg, q[1]) < n
      BY <1>3, <2>2, <3>2
    <3> QED
      BY <1>2, <3>3 DEF Same
  <2>3. parse_on(msg, room, f, p[1], p[2], p[3]) = parse_on(msg, room, g, p[1], p[2], p[3])
    <3> DEFINE j == p[1]
               here == p[2]
               found == p[3]
    <3>1. Same(msg, f, g, Remaining(msg, j))
      BY <2>2, Zenon DEF Same
    <3>2. j \in Nat /\ here \in Nat /\ found \in Seq(Seq(Byte))
      BY <2>1
    <3> HIDE DEF j, here, found
    <3>3. parse_on(msg, room, f, j, here, found) = parse_on(msg, room, g, j, here, found)
      BY <3>1, <3>2, ParseOnLess
    <3> QED
      BY <3>3 DEF j, here, found
  <2> QED
    BY <1>1, <2>3, Zenon
<1>4. Ends(msg, room, g, n + 1)
  BY <1>3, Zenon DEF Ends
<1> QED
  BY <1>2, <1>4, Zenon DEF g

LEMMA ParserExists ==
    ASSUME NEW msg \in Seq(Byte), Len(msg) >= 8, NEW room \in Nat
    PROVE  \E f : Parses(msg, room, f)
<1> DEFINE S == {n \in Nat : \E f : Ends(msg, room, f, n)}
<1>0. \A p \in PPlaces : Remaining(msg, p[1]) \in Nat /\ Remaining(msg, p[1]) < 32768
  <2> SUFFICES ASSUME NEW p \in PPlaces
               PROVE  Remaining(msg, p[1]) \in Nat /\ Remaining(msg, p[1]) < 32768
    OBVIOUS
  <2>1. p[1] \in Nat
    BY DEF PPlaces
  <2> QED
    BY <2>1, CountIsInt DEF Remaining, Left
<1>1. 0 \in S
  <2>1. \A p \in PPlaces : ~(Remaining(msg, p[1]) < 0)
    BY <1>0
  <2>2. Ends(msg, room, <<>>, 0)
    BY <2>1, Zenon DEF Ends
  <2> QED
    BY <2>2
<1>2. \A n \in Nat : n \in S => n + 1 \in S
  <2> SUFFICES ASSUME NEW n \in Nat, n \in S PROVE n + 1 \in S
    OBVIOUS
  <2>1. PICK f : Ends(msg, room, f, n)
    OBVIOUS
  <2>2. \E g : Ends(msg, room, g, n + 1)
    BY <2>1, ParseMore, Zenon
  <2> QED
    BY <2>2
<1>3. Nat \subseteq S
  <2> HIDE DEF S
  <2> QED
    BY <1>1, <1>2, SetInduction
<1>4. PICK f : Ends(msg, room, f, 32768)
  BY <1>3
<1> DEFINE g == [p \in PPlaces |-> parse_on(msg, room, f, p[1], p[2], p[3])]
<1>5. \A p \in PPlaces : f[p] = g[p]
  <2>1. 32768 \in Nat
    OBVIOUS
  <2>2. Same(msg, f, g, 32768)
    BY <1>4, <2>1, ParseMore
  <2> HIDE DEF g
  <2> QED
    BY <1>0, <2>2 DEF Same
<1>6. ASSUME NEW p \in PPlaces
      PROVE  g[p] = parse_on(msg, room, g, p[1], p[2], p[3])
  <2>1. g[p] = parse_on(msg, room, f, p[1], p[2], p[3])
    BY Zenon
  <2> HIDE DEF g
  <2>2. p[1] \in Nat /\ p[2] \in Nat /\ p[3] \in Seq(Seq(Byte))
    BY DEF PPlaces
  <2>3. parse_on(msg, room, f, p[1], p[2], p[3]) = parse_on(msg, room, g, p[1], p[2], p[3])
    <3>1. Same(msg, f, g, Remaining(msg, p[1]))
      BY <1>5, Zenon DEF Same
    <3> QED
      BY <2>2, <3>1, ParseOnLess
  <2> QED
    BY <2>1, <2>3, Zenon
<1>7. g = [p \in PPlaces |-> parse_on(msg, room, g, p[1], p[2], p[3])]
  <2> DEFINE h == [p \in PPlaces |-> parse_on(msg, room, g, p[1], p[2], p[3])]
  <2>1. \A p \in PPlaces : g[p] = h[p]
    <3> HIDE DEF g
    <3> QED
      BY <1>6, Zenon
  <2> QED
    BY <2>1, Zenon
<1> QED
  BY <1>7, Zenon DEF Parses

LEMMA ParserAt ==
    ASSUME NEW msg \in Seq(Byte), Len(msg) >= 8, NEW room \in Nat,
           NEW j \in Nat, NEW here \in Nat, NEW found \in Seq(Seq(Byte))
    PROVE  parser(msg, room)[<<j, here, found>>] = parse_on(msg, room, parser(msg, room), j, here, found)
<1> DEFINE p == <<j, here, found>>
<1>1. parser(msg, room) = CHOOSE f : Parses(msg, room, f)
  BY DEF parser, Parses, PPlaces
<1>2. Parses(msg, room, parser(msg, room))
  BY <1>1, ParserExists, Zenon
<1>3. p \in PPlaces /\ p[1] = j /\ p[2] = here /\ p[3] = found
  BY DEF PPlaces
<1> HIDE DEF p
<1>4. parser(msg, room)[p] = parse_on(msg, room, parser(msg, room), p[1], p[2], p[3])
  BY <1>2, <1>3, Zenon DEF Parses
<1> QED
  BY <1>3, <1>4, Zenon DEF p

\* Addresses of four bytes, no more than there is room for.
Found(found, room) ==
    /\ found \in Seq(Seq(Byte)) /\ Len(found) <= room
    /\ \A j \in 1..Len(found) : Len(found[j]) = 4

\* What the parser returns: an error without an address, or as many as it found.
ParseFits(r, room) ==
    r.status = "ok" =>
        \/ r.ret = -1 /\ r.addrs = <<>>
        \/ r.ret = Len(r.addrs) /\ Found(r.addrs, room)

LEMMA MoreFits ==
    ASSUME NEW msg, NEW here, NEW y, RecordFits(msg, y, here), NEW room \in Nat, NEW found, Found(found, room)
    PROVE  Found(More(y, room, found), room)
<1> DEFINE x == y.data
           m == Append(found, x)
<1>1. x \in Seq(Byte)
  BY DEF RecordFits, RecordResult
<1> HIDE DEF x
<1>2. found \in Seq(Seq(Byte)) /\ Len(found) <= room /\ \A j \in 1..Len(found) : Len(found[j]) = 4
  BY DEF Found
<1>3. CASE IsAddress(y) /\ Len(found) < room
  <2>1. Len(x) = 4
    BY <1>3 DEF IsAddress, x
  <2>2. m \in Seq(Seq(Byte)) /\ Len(m) = Len(found) + 1
    BY <1>1, <1>2
  <2>3. ASSUME NEW j \in 1..Len(m)
        PROVE  Len(m[j]) = 4
    <3>1. CASE j \in 1..Len(found)
      <4>1. m[j] = found[j]
        BY <1>1, <1>2, <3>1
      <4> QED
        BY <1>2, <3>1, <4>1
    <3>2. CASE j = Len(found) + 1
      <4>1. m[j] = x
        BY <1>1, <1>2, <3>2
      <4> QED
        BY <2>1, <4>1
    <3> QED
      BY <1>2, <2>2, <3>1, <3>2
  <2>4. More(y, room, found) = m
    BY <1>3, Zenon DEF More, x
  <2> HIDE DEF m
  <2>5. Len(m) <= room
    BY <1>2, <1>3, <2>2
  <2> QED
    BY <2>2, <2>3, <2>4, <2>5 DEF Found
<1>4. CASE ~(IsAddress(y) /\ Len(found) < room)
  BY <1>4 DEF More
<1> QED
  BY <1>3, <1>4

LEMMA ParserFits ==
    ASSUME NEW msg \in Seq(Byte), Len(msg) >= 8, NEW room \in Nat
    PROVE  \A j, here \in Nat : \A found :
               Found(found, room) => ParseFits(parser(msg, room)[<<j, here, found>>], room)
<1> DEFINE f == parser(msg, room)
           S == {m \in Nat : \A j, here \in Nat : \A found :
                    Found(found, room) /\ Remaining(msg, j) < m => ParseFits(f[<<j, here, found>>], room)}
<1> HIDE DEF f
<1>0. \A j \in Nat : Remaining(msg, j) \in Nat
  BY CountIsInt DEF Remaining, Left
<1>1. 0 \in S
  <2>1. \A j \in Nat : ~(Remaining(msg, j) < 0)
    BY <1>0
  <2> QED
    BY <2>1
<1>2. \A m \in Nat : m \in S => m + 1 \in S
  <2> SUFFICES ASSUME NEW m \in Nat, m \in S
               PROVE  m + 1 \in S
    OBVIOUS
  <2> SUFFICES ASSUME NEW j \in Nat, NEW here \in Nat, NEW found, Found(found, room),
                      Remaining(msg, j) < m + 1
               PROVE  ParseFits(f[<<j, here, found>>], room)
    OBVIOUS
  <2>1. \A j2, here2 \in Nat : \A found2 :
            Found(found2, room) /\ Remaining(msg, j2) < m => ParseFits(f[<<j2, here2, found2>>], room)
    OBVIOUS
  <2> HIDE DEF S
  <2> DEFINE y == read_record(msg, here, FALSE)
             r == parse_on(msg, room, f, j, here, found)
  <2>2. f[<<j, here, found>>] = r
    <3>1. found \in Seq(Seq(Byte))
      BY DEF Found
    <3> QED
      BY <3>1, ParserAt DEF f
  <2>3. RecordFits(msg, y, here)
    BY RecordsFit
  <2>4. CASE j >= ancount(msg)
    <3>1. r = Parsed(Len(found), found)
      BY <2>4 DEF parse_on
    <3> QED
      BY <2>2, <3>1 DEF Parsed, ParseFits
  <2>5. ASSUME ~(j >= ancount(msg)), y.status = "ok"
        PROVE  ParseFits(f[<<j, here, found>>], room)
    <3>1. r = f[<<j + 1, y.end, More(y, room, found)>>]
      BY <2>5, Zenon DEF parse_on, More
    <3> HIDE DEF r, y
    <3>2. y.end \in Nat /\ j + 1 \in Nat
      BY <2>3 DEF RecordFits, RecordResult
    <3>3. Found(More(y, room, found), room)
      BY <2>3, MoreFits
    <3>4. Remaining(msg, j + 1) < m
      <4>1. Remaining(msg, j + 1) + 1 = Remaining(msg, j) /\ Remaining(msg, j + 1) \in Nat
        BY <2>5, CountIsInt DEF Remaining, Left
      <4> QED
        BY <4>1
    <3> QED
      BY <2>1, <2>2, <3>1, <3>2, <3>3, <3>4
  <2>6. CASE ~(j >= ancount(msg)) /\ y.status \in {"garbage", "loops"}
    <3>1. r = Lost(y.status)
      BY <2>6 DEF parse_on
    <3> HIDE DEF r, y
    <3> QED
      BY <2>2, <2>6, <3>1 DEF Lost, ParseFits
  <2>7. CASE ~(j >= ancount(msg)) /\ y.status = "fail"
    <3>1. r = Parsed(IF found = <<>> THEN -1 ELSE Len(found), found)
      BY <2>7 DEF parse_on
    <3> HIDE DEF r, y
    <3> QED
      BY <2>2, <3>1 DEF Parsed, ParseFits
  <2>8. y.status \in {"ok", "fail", "garbage", "loops"}
    <3> HIDE DEF y
    <3> QED
      BY <2>3 DEF RecordFits, RecordResult
  <2> HIDE DEF y, r
  <2> QED
    BY <2>4, <2>5, <2>6, <2>7, <2>8
<1>3. Nat \subseteq S
  <2> HIDE DEF S
  <2> QED
    BY <1>1, <1>2, SetInduction
<1>4. ASSUME NEW j \in Nat, NEW here \in Nat, NEW found, Found(found, room)
      PROVE  ParseFits(f[<<j, here, found>>], room)
  <2> DEFINE m == Remaining(msg, j) + 1
  <2>1. m \in Nat /\ Remaining(msg, j) < m
    <3>1. Remaining(msg, j) \in Nat
      BY <1>0
    <3> QED
      BY <3>1
  <2>2. m \in S
    BY <1>3, <2>1
  <2> QED
    BY <1>4, <2>1, <2>2
<1> QED
  BY <1>4 DEF f

\* Whatever the message says, the parser gives no more addresses than there is room for,
\* each of four bytes, and none with an error.
THEOREM AnswersFit ==
    ASSUME NEW msg \in Seq(Byte), NEW room \in Nat
    PROVE  ParseFits(parse_dns_response(msg, room), room)
<1> DEFINE question == read_record(msg, HeaderSize, TRUE)
           r == parse_dns_response(msg, room)
<1>1. RecordFits(msg, question, HeaderSize)
  <2>1. HeaderSize \in Nat
    BY DEF HeaderSize
  <2> QED
    BY <2>1, RecordsFit
<1>2. question.status \in {"ok", "fail", "garbage", "loops"} /\ question.end \in Nat
  <2> HIDE DEF question
  <2> QED
    BY <1>1 DEF RecordFits, RecordResult
<1>3. CASE Len(msg) < 8
  <2>1. r = Lost("garbage")
    BY <1>3 DEF parse_dns_response
  <2> QED
    BY <2>1 DEF Lost, ParseFits
<1>4. CASE ~(Len(msg) < 8) /\ (ancount(msg) = 0 \/ question.status = "fail")
  <2>1. r = Parsed(-1, <<>>)
    BY <1>4, Zenon DEF parse_dns_response
  <2> QED
    BY <2>1 DEF Parsed, ParseFits
<1>5. CASE ~(Len(msg) < 8) /\ ancount(msg) # 0 /\ question.status = "ok"
  <2>1. r = parser(msg, room)[<<0, question.end, <<>>>>]
    BY <1>5 DEF parse_dns_response
  <2>2. Found(<<>>, room)
    BY DEF Found
  <2> HIDE DEF question, r
  <2>3. Len(msg) >= 8 /\ 0 \in Nat
    BY <1>5
  <2>4. ParseFits(r, room)
    BY <1>2, <2>1, <2>2, <2>3, ParserFits
  <2> QED
    BY <2>4 DEF r
<1>6. CASE ~(Len(msg) < 8) /\ ancount(msg) # 0 /\ question.status \in {"garbage", "loops"}
  <2>1. r = Lost(question.status)
    BY <1>6 DEF parse_dns_response
  <2> HIDE DEF question, r
  <2>2. ParseFits(r, room)
    BY <1>6, <2>1 DEF Lost, ParseFits
  <2> QED
    BY <2>2 DEF r
<1> HIDE DEF question
<1> QED
  BY <1>2, <1>3, <1>4, <1>5, <1>6

-----------------------------------------------------------------------------
(* The parser reads the records of an answer *)

\* A pointer to the name behind the header gives that name.
LEMMA ReadsPointedName ==
    ASSUME NEW d, IsDomain(d), NEW msg \in Seq(Byte), Names(msg, d), NEW o \in Nat, o # 12,
           o + 1 < Len(msg), At(msg, o) = 192, At(msg, o + 1) = 12
    PROVE  get_objectname(msg, o) = [status |-> "ok", name |-> Append(d, Dot), end |-> o + 2]
<1> DEFINE f == reader(msg)
           jump == f[<<12, 0, 1>>]
           target == 12
<1>1. Len(msg) \in Nat /\ target < Len(msg) /\ o < Len(msg) /\ NameSize \in Nat /\ 0 < NameSize
  <2>1. Len(d) \in Nat /\ Len(d) + 14 <= Len(msg)
    BY DEF Names, IsDomain
  <2> QED
    BY <2>1, NameAssumption
<1>2. jump = [status |-> "ok", name |-> Append(d, Dot), end |-> Len(d) + 14]
  <2> DEFINE hops == 1
  <2>1. hops \in Nat
    OBVIOUS
  <2> HIDE DEF hops
  <2>2. f[<<12, 0, hops>>] = [status |-> "ok", name |-> Append(d, Dot), end |-> Len(d) + 14]
    BY <2>1, ReadsWholeName
  <2> QED
    BY <2>2 DEF hops
<1>3. get_objectname(msg, o) = f[<<o, 0, 0>>]
  BY <1>1 DEF get_objectname
<1>4. f[<<o, 0, 0>>] = read_on(msg, f, o, 0, 0)
  BY ReaderAt
<1>5. Target(msg, o) = 12
  <2>1. 256 * (192 % 64) + 12 = 12
    OBVIOUS
  <2> QED
    BY <2>1, Zenon DEF Target
<1>6. read_on(msg, f, o, 0, 0) = Pointed(msg, jump, o, 0, 0)
  <2>1. At(msg, o) >= 64 /\ 0 + 1 = 1 /\ 0 \in Nat
    OBVIOUS
  <2>2. read_on(msg, f, o, 0, 0) = Pointed(msg, f[<<Target(msg, o), 0, 0 + 1>>], o, 0, 0)
    BY <2>1, ReadPointer
  <2> QED
    BY <1>5, <2>1, <2>2, Zenon
<1> HIDE DEF f, jump
<1>7. Pointed(msg, jump, o, 0, 0) = [jump EXCEPT !.end = o + 2]
  <2>1. ~(target >= Len(msg)) /\ ~(target = o) /\ ~(0 >= NameSize) /\ ~(0 > Len(msg))
    BY <1>1
  <2>2. jump.status = "ok"
    BY <1>2
  <2>3. Target(msg, o) = target
    BY <1>5
  <2> HIDE DEF target
  <2> QED
    BY <2>1, <2>2, <2>3, Zenon DEF Pointed
<1>8. [jump EXCEPT !.end = o + 2] = [status |-> "ok", name |-> Append(d, Dot), end |-> o + 2]
  <2> DEFINE name == Append(d, Dot)
             end == Len(d) + 14
  <2>1. jump = [status |-> "ok", name |-> name, end |-> end]
    BY <1>2
  <2> HIDE DEF name, end
  <2>2. [jump EXCEPT !.end = o + 2] = [status |-> "ok", name |-> name, end |-> o + 2]
    BY <2>1
  <2> QED
    BY <2>2 DEF name
<1> QED
  BY <1>3, <1>4, <1>6, <1>7, <1>8

\* What the parser makes of a record is what the record says: where the next one begins,
\* and the address, if it is one.
Says(y, record, end) ==
    /\ y.status = "ok" /\ y.end = end
    /\ IsAddress(y) <=> IsAddress(record)
    /\ IsAddress(y) => y.data = record.data

LEMMA DataIsBytes ==
    ASSUME NEW record \in DnsRecord
    PROVE  record.data \in Seq(Byte)
BY DEF DnsRecord

LEMMA ReadsRecord ==
    ASSUME NEW d, IsDomain(d), NEW msg \in Seq(Byte), Names(msg, d), NEW o \in Nat, o > 12,
           NEW record \in DnsRecord, NEW end, RecordAt(msg, o, record, end)
    PROVE  Says(read_record(msg, o, FALSE), record, end)
<1>p. record.data \in Seq(Byte)
  BY DataIsBytes, Zenon
<1> DEFINE name == get_objectname(msg, o)
           y == read_record(msg, o, FALSE)
           n == Len(record.data)
           kept == IF n > NameSize - 4 THEN NameSize - 4 ELSE n
           data == Bytes(msg, o + 12, kept)
<1>0. n \in Nat /\ Len(msg) \in Nat /\ record.data \in Seq(Byte)
  BY <1>p
<1> HIDE DEF n
<1>1. /\ end = o + 12 + n /\ end <= Len(msg)
      /\ At(msg, o) = 192 /\ At(msg, o + 1) = 12
      /\ Word(msg, o + 2) = record.type /\ Word(msg, o + 4) = record.class
      /\ Word(msg, o + 10) = n /\ Bytes(msg, o + 12, n) = record.data
  BY Zenon DEF RecordAt, n
<1>2. name.status = "ok" /\ name.end = o + 2
  <2>1. o # 12 /\ o + 1 < Len(msg)
    BY <1>0, <1>1
  <2>2. name = [status |-> "ok", name |-> Append(d, Dot), end |-> o + 2]
    BY <1>0, <1>1, <2>1, ReadsPointedName
  <2> HIDE DEF name
  <2> QED
    BY <2>2
<1>3. /\ o + 2 + 2 = o + 4 /\ o + 2 + 4 <= Len(msg) /\ o + 2 + 8 = o + 10 /\ o + 2 + 10 = o + 12
      /\ ~(o + 12 > Len(msg)) /\ ~(o + 12 + n > Len(msg)) /\ ~(o + 2 + 4 > Len(msg))
  BY <1>0, <1>1
<1>4. y = [status |-> "ok", type |-> record.type, class |-> record.class, data |-> data, end |-> end]
  <2> DEFINE r == [status |-> "ok", type |-> record.type, class |-> record.class,
                   data |-> <<>>, end |-> o + 2 + 4]
             h == name.end
             len == Word(msg, h + 8)
             raw == Bytes(msg, h + 10, IF len > NameSize - 4 THEN NameSize - 4 ELSE len)
             t == Word(msg, h)
             c == Word(msg, h + 2)
  <2>1. h = o + 2 /\ len = n /\ raw = data /\ t = record.type /\ c = record.class
    BY <1>1, <1>2, <1>3, Zenon
  <2> HIDE DEF name, data, h, len, raw, t, c
  <2>2. h + 4 <= Len(msg) /\ ~(h + 4 > Len(msg)) /\ ~(h + 10 > Len(msg)) /\ ~(h + 10 + len > Len(msg))
    BY <1>0, <1>1, <2>1
  <2>3. y = [[status |-> "ok", type |-> t, class |-> c, data |-> <<>>, end |-> h + 4]
                EXCEPT !.data = raw, !.end = h + 10 + len]
    BY <1>2, <2>2 DEF read_record, name, h, len, raw, t, c
  <2>4. y = [status |-> "ok", type |-> t, class |-> c, data |-> raw, end |-> h + 10 + len]
    BY <2>3
  <2>5. h + 10 + len = end
    BY <1>0, <1>1, <2>1
  <2> QED
    BY <2>1, <2>4, <2>5
<1> HIDE DEF y, data
<1>5. y.status = "ok" /\ y.type = record.type /\ y.class = record.class /\ y.data = data /\ y.end = end
  BY <1>4
<1>6. data \in Seq(Byte) /\ Len(data) = kept
  <2>1. kept \in Nat /\ o + 13 \in Nat /\ o + 13 >= 1 /\ o + 13 + kept <= Len(msg) + 1
    BY <1>0, <1>1, NameAssumption
  <2> HIDE DEF kept
  <2>2. o + 12 + 1 = o + 13 /\ o + 12 + kept = o + 13 + kept - 1
    BY <2>1
  <2>3. data = SubSeq(msg, o + 13, o + 13 + kept - 1)
    BY <2>2, Zenon DEF data, Bytes
  <2> QED
    BY <2>1, <2>3, SubSeqIs
<1>7. kept = 4 <=> n = 4
  BY <1>0, <1>1, NameAssumption
<1>8. n = 4 => data = record.data
  <2>1. n = 4 => kept = n
    BY <1>7
  <2> QED
    BY <1>0, <1>1, <2>1, Zenon DEF data
<1> HIDE DEF kept
<1>9. IsAddress(y) <=> record.type = 1 /\ record.class = 1 /\ kept = 4
  BY <1>5, <1>6 DEF IsAddress
<1>10. IsAddress(record) <=> record.type = 1 /\ record.class = 1 /\ n = 4
  BY DEF IsAddress, n
<1> QED
  BY <1>5, <1>7, <1>8, <1>9, <1>10 DEF Says, y

LEMMA ReadsNoRecord ==
    ASSUME NEW d, IsDomain(d), NEW msg \in Seq(Byte), Names(msg, d), NEW o \in Nat, o > 12,
           CutAt(msg, o)
    PROVE  read_record(msg, o, FALSE).status = "fail"
<1> DEFINE name == get_objectname(msg, o)
           y == read_record(msg, o, FALSE)
           len == Word(msg, o + 10)
<1>1. /\ Len(msg) \in Nat
      /\ o < Len(msg) => At(msg, o) = 192
      /\ o + 1 < Len(msg) => At(msg, o + 1) = 12
      /\ o + 12 > Len(msg) \/ o + 12 + len > Len(msg)
  BY DEF CutAt
<1>2. CASE o + 1 >= Len(msg)
  <2>1. name = Failed("fail")
    <3>1. CASE o >= Len(msg)
      <4>1. ~(o < Len(msg))
        BY <3>1
      <4> QED
        BY <4>1, Zenon DEF get_objectname
    <3>2. CASE o < Len(msg)
      <4>1. name = reader(msg)[<<o, 0, 0>>]
        BY <3>2, Zenon DEF get_objectname
      <4>2. 0 \in Nat /\ At(msg, o) # 0
        BY <1>1, <3>2
      <4>3. reader(msg)[<<o, 0, 0>>] = read_on(msg, reader(msg), o, 0, 0)
        BY <4>2, ReaderAt
      <4>4. read_on(msg, reader(msg), o, 0, 0) = Failed("fail")
        BY <1>2, <3>2, <4>2, ReadCut
      <4> QED
        BY <4>1, <4>3, <4>4, Zenon
    <3> QED
      BY <1>1, <3>1, <3>2
  <2> HIDE DEF name
  <2>2. name.status = "fail"
    BY <2>1 DEF Failed
  <2>3. y = NoRecord("fail")
    BY <2>2 DEF read_record, name
  <2> HIDE DEF y
  <2>4. y.status = "fail"
    BY <2>3 DEF NoRecord
  <2> QED
    BY <2>4 DEF y
<1>3. CASE o + 1 < Len(msg)
  <2>1. name.status = "ok" /\ name.end = o + 2
    <3>1. o # 12 /\ o < Len(msg)
      BY <1>1, <1>3
    <3>2. name = [status |-> "ok", name |-> Append(d, Dot), end |-> o + 2]
      BY <1>1, <1>3, <3>1, ReadsPointedName
    <3> HIDE DEF name
    <3> QED
      BY <3>2
  <2>2. o + 2 + 8 = o + 10 /\ o + 2 + 10 = o + 12
    OBVIOUS
  <2>3. y = NoRecord("fail")
    <3> HIDE DEF name, len
    <3>1. CASE o + 2 + 4 > Len(msg)
      BY <2>1, <3>1 DEF read_record, name
    <3>2. CASE ~(o + 2 + 4 > Len(msg))
      <4>1. o + 2 + 4 <= Len(msg)
        BY <1>1, <3>2
      <4> QED
        BY <1>1, <2>1, <2>2, <4>1 DEF read_record, name, len
    <3> QED
      BY <3>1, <3>2
  <2> HIDE DEF y
  <2>4. y.status = "fail"
    BY <2>3 DEF NoRecord
  <2> QED
    BY <2>4 DEF y
<1>4. o + 1 >= Len(msg) \/ o + 1 < Len(msg)
  <2>1. Len(msg) \in Nat
    OBVIOUS
  <2> QED
    BY <2>1
<1> QED
  BY <1>2, <1>3, <1>4, Zenon

\* The address a record gives, the addresses of the first m records, and the first of them.
One(record) == IF IsAddress(record) THEN <<record.data>> ELSE <<>>
Known(records, m) == FlattenSeq([k \in 1..m |-> One(records[k])])
FirstOf(addrs, room) == SubSeq(addrs, 1, IF Len(addrs) < room THEN Len(addrs) ELSE room)

LEMMA OneType ==
    ASSUME NEW record \in DnsRecord
    PROVE  One(record) \in Seq(Seq(Byte))
<1>1. record.data \in Seq(Byte)
  BY DataIsBytes
<1> QED
  BY <1>1 DEF One

LEMMA KnownMore ==
    ASSUME NEW records \in Seq(DnsRecord), NEW m \in Nat, m < Len(records)
    PROVE  /\ Known(records, m) \in Seq(Seq(Byte))
           /\ Known(records, m + 1) = Known(records, m) \o One(records[m + 1])
<1> DEFINE p == [k \in 1..m |-> One(records[k])]
           x == One(records[m + 1])
           r == [k \in 1..(m + 1) |-> One(records[k])]
<1>1. \A k \in 1..(m + 1) : One(records[k]) \in Seq(Seq(Byte))
  <2> SUFFICES ASSUME NEW k \in 1..(m + 1)
               PROVE  One(records[k]) \in Seq(Seq(Byte))
    OBVIOUS
  <2>1. k \in 1..Len(records)
    OBVIOUS
  <2>2. records[k] \in DnsRecord
    BY <2>1, ElementOfSeq
  <2> QED
    BY <2>2, OneType
<1>2. p \in Seq(Seq(Seq(Byte))) /\ x \in Seq(Seq(Byte)) /\ Len(p) = m
  <2> DEFINE S == Seq(Seq(Byte))
  <2> HIDE DEF S
  <2>1. \A k \in 1..m : p[k] \in S
    BY <1>1 DEF S
  <2>2. p \in Seq(S) /\ Len(p) = m
    <3>1. p \in [1..m -> S]
      BY <2>1
    <3> HIDE DEF p
    <3> QED
      BY <3>1
  <2>3. x \in S
    BY <1>1 DEF S
  <2> QED
    BY <2>2, <2>3 DEF S
<1>3. r = Append(p, x)
  <2> DEFINE S == Seq(Seq(Byte))
             e == Append(p, x)
  <2>1. e \in Seq(S) /\ Len(e) = m + 1
    BY <1>2
  <2>2. ASSUME NEW k \in 1..(m + 1)
        PROVE  e[k] = r[k]
    <3>1. CASE k \in 1..m
      <4>1. p[k] = r[k]
        BY <3>1
      <4> HIDE DEF p, r, x
      <4>2. e[k] = p[k]
        BY <1>2, <3>1
      <4> QED
        BY <4>1, <4>2
    <3>2. CASE k = m + 1
      <4>1. x = r[k]
        BY <3>2
      <4> HIDE DEF p, r, x
      <4>2. e[k] = x
        BY <1>2, <3>2
      <4> QED
        BY <4>1, <4>2
    <3> QED
      BY <3>1, <3>2
  <2>3. r \in Seq(S) /\ Len(r) = m + 1
    <3>1. \A k \in 1..(m + 1) : r[k] \in S
      BY <1>1
    <3> HIDE DEF S
    <3>2. r \in [1..(m + 1) -> S]
      BY <3>1
    <3> HIDE DEF r
    <3> QED
      BY <3>2
  <2> HIDE DEF e, r, S
  <2>4. \A k \in 1..Len(r) : r[k] = e[k]
    BY <2>2, <2>3
  <2>5. Len(r) = Len(e)
    BY <2>1, <2>3
  <2>6. r = e
    BY <2>1, <2>3, <2>4, <2>5, SeqEqual, Zenon
  <2> QED
    BY <2>6 DEF e
<1>4. Known(records, m) = FlattenSeq(p) /\ Known(records, m + 1) = FlattenSeq(r)
  BY Zenon DEF Known
<1> DEFINE T == Seq(Byte)
<1> HIDE DEF p, x, r, T
<1>5. p \in Seq(Seq(T)) /\ x \in Seq(T)
  BY <1>2 DEF T
<1>6. FlattenSeq(p) \in Seq(T)
  BY <1>5, FlattenType, Zenon
<1>7. FlattenSeq(r) = FlattenSeq(p) \o x
  BY <1>3, <1>5, FlattenAppend, Zenon
<1> QED
  BY <1>4, <1>6, <1>7 DEF T, x

LEMMA KnownType ==
    ASSUME NEW records \in Seq(DnsRecord)
    PROVE  Addresses(records) \in Seq(Seq(Byte)) /\ Addresses(records) = Known(records, Len(records))
<1> DEFINE p == [k \in 1..Len(records) |-> One(records[k])]
           S == Seq(Seq(Byte))
<1>1. Addresses(records) = FlattenSeq(p) /\ Known(records, Len(records)) = FlattenSeq(p)
  <2>1. DOMAIN records = 1..Len(records)
    OBVIOUS
  <2> QED
    BY <2>1, Zenon DEF Addresses, Known, One
<1>2. \A k \in 1..Len(records) : One(records[k]) \in S
  <2> SUFFICES ASSUME NEW k \in 1..Len(records)
               PROVE  One(records[k]) \in S
    OBVIOUS
  <2>1. records[k] \in DnsRecord
    BY ElementOfSeq
  <2> QED
    BY <2>1, OneType
<1>3. p \in Seq(S)
  <2> HIDE DEF S
  <2>1. p \in [1..Len(records) -> S] /\ Len(records) \in Nat
    BY <1>2
  <2> HIDE DEF p
  <2> QED
    BY <2>1
<1> DEFINE T == Seq(Byte)
<1> HIDE DEF p, T
<1>4. p \in Seq(Seq(T))
  BY <1>3 DEF T
<1>5. FlattenSeq(p) \in Seq(T)
  BY <1>4, FlattenType, Zenon
<1> QED
  BY <1>1, <1>5 DEF T

\* The first addresses, as long as there is room, are as many, and nothing else.
LEMMA FirstOfIs ==
    ASSUME NEW S, NEW a \in Seq(S), NEW room \in Nat
    PROVE  /\ FirstOf(a, room) \in Seq(S)
           /\ Len(a) < room => FirstOf(a, room) = a
           /\ Len(a) >= room => Len(FirstOf(a, room)) = room /\ FirstOf(a, room) = SubSeq(a, 1, room)
<1>1. CASE Len(a) < room
  <2>1. FirstOf(a, room) = SubSeq(a, 1, Len(a))
    BY <1>1 DEF FirstOf
  <2>2. SubSeq(a, 1, Len(a)) = a
    OBVIOUS
  <2> DEFINE v == FirstOf(a, room)
  <2>3. v = a /\ ~(Len(a) >= room)
    BY <1>1, <2>1, <2>2
  <2> HIDE DEF v
  <2>4. /\ v \in Seq(S)
        /\ Len(a) < room => v = a
        /\ Len(a) >= room => Len(v) = room /\ v = SubSeq(a, 1, room)
    BY <2>3, Zenon
  <2> QED
    BY <2>4, Zenon DEF v
<1>2. CASE ~(Len(a) < room)
  <2>1. FirstOf(a, room) = SubSeq(a, 1, room)
    BY <1>2, Zenon DEF FirstOf
  <2> DEFINE u == SubSeq(a, 1, room)
  <2>2. u \in Seq(S) /\ Len(u) = room
    BY <1>2
  <2>3. FirstOf(a, room) = u
    BY <2>1
  <2> HIDE DEF u
  <2> DEFINE v == FirstOf(a, room)
  <2>4. v \in Seq(S) /\ Len(v) = room /\ v = SubSeq(a, 1, room)
    BY <2>1, <2>2, <2>3
  <2> HIDE DEF v
  <2>5. /\ v \in Seq(S)
        /\ Len(a) < room => v = a
        /\ Len(a) >= room => Len(v) = room /\ v = SubSeq(a, 1, room)
    BY <1>2, <2>4, Zenon
  <2> QED
    BY <2>5, Zenon DEF v
<1> QED
  BY <1>1, <1>2

LEMMA FoundMore ==
    ASSUME NEW a \in Seq(Seq(Byte)), NEW record \in DnsRecord, NEW y, NEW end, Says(y, record, end),
           NEW room \in Nat
    PROVE  More(y, room, FirstOf(a, room)) = FirstOf(a \o One(record), room)
<1> DEFINE S == Seq(Byte)
           x == record.data
<1>1. x \in S
  BY DataIsBytes
<1> HIDE DEF x, S
<1>2. a \in Seq(S)
  BY DEF S
<1>3. CASE ~IsAddress(record)
  <2>1. One(record) = <<>> /\ ~IsAddress(y)
    BY <1>3 DEF One, Says
  <2>2. a \o <<>> = a
    BY <1>2
  <2> QED
    BY <2>1, <2>2, Zenon DEF More
<1>4. CASE IsAddress(record) /\ Len(a) < room
  <2>1. One(record) = <<x>> /\ IsAddress(y) /\ y.data = x
    BY <1>4 DEF One, Says, x
  <2>2. FirstOf(a, room) = a
    BY <1>2, <1>4, FirstOfIs
  <2>3. More(y, room, a) = Append(a, x)
    BY <1>4, <2>1 DEF More
  <2> DEFINE e == Append(a, x)
  <2>4. e \in Seq(S) /\ Len(e) = Len(a) + 1 /\ a \o <<x>> = e
    BY <1>1, <1>2
  <2> HIDE DEF e
  <2>5. FirstOf(e, room) = e
    <3>1. CASE Len(e) < room
      BY <2>4, <3>1, FirstOfIs
    <3>2. CASE ~(Len(e) < room)
      <4>1. Len(e) = room
        BY <1>2, <1>4, <2>4, <3>2
      <4>0. Len(e) >= room
        BY <4>1
      <4>2. FirstOf(e, room) = SubSeq(e, 1, room)
        BY <2>4, <4>0, FirstOfIs
      <4>3. SubSeq(e, 1, Len(e)) = e
        BY <2>4
      <4> QED
        BY <4>1, <4>2, <4>3, Zenon
    <3> QED
      BY <3>1, <3>2
  <2> QED
    BY <2>1, <2>2, <2>3, <2>4, <2>5 DEF e
<1>5. CASE IsAddress(record) /\ ~(Len(a) < room)
  <2>1. One(record) = <<x>>
    BY <1>5 DEF One, x
  <2> DEFINE e == a \o <<x>>
             u == FirstOf(a, room)
             v == FirstOf(e, room)
  <2>2. e \in Seq(S) /\ Len(e) = Len(a) + 1 /\ \A k \in 1..Len(a) : e[k] = a[k]
    BY <1>1, <1>2
  <2> HIDE DEF e
  <2>3. Len(a) >= room /\ Len(e) >= room
    BY <1>2, <1>5, <2>2
  <2>4. u \in Seq(S) /\ Len(u) = room /\ u = SubSeq(a, 1, room)
    BY <1>2, <2>3, FirstOfIs
  <2>5. v \in Seq(S) /\ Len(v) = room /\ v = SubSeq(e, 1, room)
    BY <2>2, <2>3, FirstOfIs
  <2>6. ASSUME NEW k \in 1..room
        PROVE  u[k] = v[k]
    <3>1. k \in 1..Len(a)
      BY <1>2, <2>3
    <3>2. SubSeq(a, 1, room)[k] = a[k]
      BY <1>2, <2>3
    <3>3. SubSeq(e, 1, room)[k] = e[k]
      BY <2>2, <2>3
    <3>4. u[k] = a[k] /\ v[k] = e[k]
      <4> HIDE DEF u, v
      <4> QED
        BY <2>4, <2>5, <3>2, <3>3, Zenon
    <3> HIDE DEF u, v
    <3> QED
      BY <2>2, <3>1, <3>4
  <2> HIDE DEF u, v
  <2>7. Len(u) = Len(v) /\ \A k \in 1..Len(u) : u[k] = v[k]
    BY <2>4, <2>5, <2>6
  <2>8. u = v
    BY <2>4, <2>5, <2>7, SeqEqual, Zenon
  <2>9. More(y, room, u) = u
    <3>1. ~(Len(u) < room)
      BY <2>4
    <3> QED
      BY <3>1, Zenon DEF More
  <2> QED
    BY <2>1, <2>8, <2>9, Zenon DEF u, v, e
<1> QED
  BY <1>3, <1>4, <1>5

\* The answers are counted rightly, and the question in front of them is read.
LEMMA AnswerIsCounted ==
    ASSUME NEW msg \in Seq(Byte), Len(msg) >= 8, At(msg, 6) < 128
    PROVE  ancount(msg) = Word(msg, 6) /\ Word(msg, 6) \in Nat
<1> DEFINE n == Word(msg, 6)
           x == At(msg, 6)
           y == At(msg, 7)
<1>1. ancount(msg) = IF n >= 32768 THEN n - 65536 ELSE n
  BY DEF ancount
<1>2. x \in 0..255 /\ y \in 0..255 /\ x < 128
  <2>1. 6 \in Nat /\ 7 \in Nat /\ 6 < Len(msg) /\ 7 < Len(msg)
    OBVIOUS
  <2> QED
    BY <2>1, ByteAt
<1>3. n = 256 * x + y
  <2>1. 6 + 1 = 7
    OBVIOUS
  <2> QED
    BY <2>1, Zenon DEF Word
<1> HIDE DEF n, x, y
<1>4. n \in Nat /\ ~(n >= 32768)
  BY <1>2, <1>3
<1>5. ancount(msg) = n
  BY <1>1, <1>4
<1> QED
  BY <1>4, <1>5 DEF n

LEMMA ReadsQuestion ==
    ASSUME NEW d, IsDomain(d), NEW msg \in Seq(Byte), Names(msg, d), Len(d) + 18 <= Len(msg)
    PROVE  LET question == read_record(msg, HeaderSize, TRUE)
           IN question.status = "ok" /\ question.end = Len(d) + 18
<1> DEFINE name == get_objectname(msg, HeaderSize)
           question == read_record(msg, HeaderSize, TRUE)
           h == name.end
<1>1. Len(d) \in Nat /\ Len(msg) \in Nat
  BY DEF IsDomain
<1>2. name.status = "ok" /\ h = Len(d) + 14
  <2>1. reader(msg)[<<12, 0, 0>>] = [status |-> "ok", name |-> Append(d, Dot), end |-> Len(d) + 14]
    <3>1. 0 \in Nat
      OBVIOUS
    <3> QED
      BY <3>1, ReadsWholeName
  <2>2. name = reader(msg)[<<12, 0, 0>>]
    <3>1. 12 < Len(msg)
      BY <1>1
    <3> QED
      BY <3>1 DEF get_objectname, HeaderSize
  <2> HIDE DEF name
  <2> QED
    BY <2>1, <2>2
<1> HIDE DEF name
<1>3. h + 4 <= Len(msg) /\ ~(h + 4 > Len(msg)) /\ h + 4 = Len(d) + 18
  BY <1>1, <1>2
<1>4. question = [status |-> "ok", type |-> Word(msg, h), class |-> Word(msg, h + 2),
                  data |-> <<>>, end |-> h + 4]
  BY <1>2, <1>3 DEF read_record, name
<1> HIDE DEF question, h
<1>5. question.status = "ok" /\ question.end = h + 4
  BY <1>4
<1> QED
  BY <1>3, <1>5 DEF question

LEMMA RecordBefore ==
    ASSUME NEW msg, NEW o \in Nat, NEW record \in DnsRecord, NEW end, RecordAt(msg, o, record, end)
    PROVE  end > o
<1>1. record.data \in Seq(Byte)
  BY DataIsBytes
<1> DEFINE n == Len(record.data)
<1>2. n \in Nat
  BY <1>1
<1>3. end = o + 12 + n
  BY Zenon DEF RecordAt
<1> HIDE DEF n
<1> QED
  BY <1>2, <1>3

\* What an answer is made of.
LEMMA AnswerParts ==
    ASSUME NEW msg, NEW d, NEW records, NEW at, IsAnswer(msg, d, records, at), NEW n, n = Len(records)
    PROVE  /\ IsDomain(d) /\ Names(msg, d) /\ Len(d) \in Nat
           /\ records \in Seq(DnsRecord) /\ n \in Nat
           /\ At(msg, 6) < 128 /\ Word(msg, 6) > 0 /\ n <= Word(msg, 6)
           /\ at \in [1..(n + 1) -> Nat] /\ at[1] = Len(d) + 18 /\ at[1] <= Len(msg)
           /\ \A j \in 1..n : RecordAt(msg, at[j], records[j], at[j + 1])
           /\ n < Word(msg, 6) => CutAt(msg, at[n + 1])
<1>1. IsDomain(d) /\ records \in Seq(DnsRecord)
  BY Zenon DEF IsAnswer
<1>2. Len(d) \in Nat
  BY <1>1 DEF IsDomain
<1>3. n \in Nat
  BY <1>1
<1> QED
  BY <1>1, <1>2, <1>3, Zenon DEF IsAnswer

\* Where the records begin.
LEMMA RecordsBegin ==
    ASSUME NEW msg, NEW d, NEW records, NEW at, IsAnswer(msg, d, records, at)
    PROVE  \A m \in Nat : m <= Len(records) => at[m + 1] \in Nat /\ at[m + 1] > 12
<1> DEFINE n == Len(records)
           S == {m \in Nat : m <= n => at[m + 1] > 12}
<1>1. /\ records \in Seq(DnsRecord) /\ n \in Nat
      /\ at \in [1..(n + 1) -> Nat] /\ at[1] = Len(d) + 18 /\ Len(d) \in Nat
      /\ \A j \in 1..n : RecordAt(msg, at[j], records[j], at[j + 1])
  BY AnswerParts, Zenon
<1> HIDE DEF n
<1>2. 0 \in S
  <2>1. at[1] > 12 /\ 0 + 1 = 1
    BY <1>1
  <2> QED
    BY <2>1
<1>3. \A m \in Nat : m \in S => m + 1 \in S
  <2> SUFFICES ASSUME NEW m \in Nat, m \in S, m + 1 <= n
               PROVE  at[m + 1 + 1] > 12
    OBVIOUS
  <2>1. m + 1 \in 1..n /\ m + 1 \in 1..(n + 1) /\ m + 1 + 1 \in 1..(n + 1) /\ m <= n
    BY <1>1
  <2>2. RecordAt(msg, at[m + 1], records[m + 1], at[m + 1 + 1]) /\ records[m + 1] \in DnsRecord
    BY <1>1, <2>1, ElementOfSeq DEF n
  <2>3. at[m + 1] \in Nat /\ at[m + 1 + 1] \in Nat /\ at[m + 1] > 12
    BY <1>1, <2>1
  <2>4. at[m + 1 + 1] > at[m + 1]
    BY <2>2, <2>3, RecordBefore
  <2> QED
    BY <2>3, <2>4
<1>4. Nat \subseteq S
  <2> HIDE DEF S
  <2> QED
    BY <1>2, <1>3, SetInduction
<1>5. \A m \in Nat : m <= n => at[m + 1] \in Nat
  BY <1>1
<1> QED
  BY <1>4, <1>5 DEF n

\* The parser at the first answer is where it is behind the first m of them, with the
\* addresses they gave.
LEMMA ParserGoesOn ==
    ASSUME NEW msg \in Seq(Byte), Len(msg) >= 8, NEW d, NEW records, NEW at, IsAnswer(msg, d, records, at), NEW room \in Nat
    PROVE  \A m \in Nat : m <= Len(records) =>
               parser(msg, room)[<<0, at[1], <<>>>>]
                   = parser(msg, room)[<<m, at[m + 1], FirstOf(Known(records, m), room)>>]
<1> DEFINE n == Len(records)
           f == parser(msg, room)
           known(m) == FirstOf(Known(records, m), room)
           S == {m \in Nat : m <= n => f[<<0, at[1], <<>>>>] = f[<<m, at[m + 1], known(m)>>]}
<1>1. /\ IsDomain(d) /\ Names(msg, d)
      /\ records \in Seq(DnsRecord) /\ n \in Nat
      /\ At(msg, 6) < 128 /\ Word(msg, 6) > 0 /\ n <= Word(msg, 6)
      /\ \A j \in 1..n : RecordAt(msg, at[j], records[j], at[j + 1])
  BY AnswerParts, Zenon
<1>2. \A m \in Nat : m <= n => at[m + 1] \in Nat /\ at[m + 1] > 12
  BY RecordsBegin
<1> HIDE DEF n, f, known
<1>3. 0 \in S
  <2>1. Known(records, 0) = <<>>
    <3>1. [k \in 1..0 |-> One(records[k])] = <<>>
      OBVIOUS
    <3>2. FlattenSeq(<<>>) = <<>>
      BY DEF FlattenSeq
    <3> QED
      BY <3>1, <3>2, Zenon DEF Known
  <2>2. known(0) = <<>>
    <3>1. FirstOf(<<>>, room) = <<>>
      BY DEF FirstOf
    <3> QED
      BY <2>1, <3>1, Zenon DEF known
  <2>3. 0 + 1 = 1
    OBVIOUS
  <2> QED
    BY <2>2, <2>3
<1>4. \A m \in Nat : m \in S => m + 1 \in S
  <2> SUFFICES ASSUME NEW m \in Nat, m \in S PROVE m + 1 \in S
    OBVIOUS
  <2> SUFFICES ASSUME m + 1 <= n
               PROVE  f[<<0, at[1], <<>>>>] = f[<<m + 1, at[m + 1 + 1], known(m + 1)>>]
    OBVIOUS
  <2> DEFINE o == at[m + 1]
             y == read_record(msg, o, FALSE)
             record == records[m + 1]
  <2>1. m + 1 \in 1..n /\ m <= n /\ m < n
    BY <1>1
  <2>2. f[<<0, at[1], <<>>>>] = f[<<m, o, known(m)>>]
    BY <2>1
  <2> HIDE DEF S
  <2>3. o \in Nat /\ o > 12
    BY <1>2, <2>1
  <2>4. record \in DnsRecord /\ RecordAt(msg, o, record, at[m + 1 + 1])
    BY <1>1, <2>1, ElementOfSeq DEF n
  <2> HIDE DEF o, record
  <2>5. Says(y, record, at[m + 1 + 1])
    BY <1>1, <2>3, <2>4, ReadsRecord
  <2>6. Known(records, m) \in Seq(Seq(Byte)) /\ Known(records, m + 1) = Known(records, m) \o One(record)
    BY <1>1, <2>1, KnownMore DEF n, record
  <2>7. More(y, room, known(m)) = known(m + 1)
    <3> DEFINE a == Known(records, m)
    <3>1. a \in Seq(Seq(Byte)) /\ Known(records, m + 1) = a \o One(record)
      BY <2>6
    <3> HIDE DEF a, y
    <3>2. More(y, room, FirstOf(a, room)) = FirstOf(a \o One(record), room)
      BY <2>4, <2>5, <3>1, FoundMore
    <3> QED
      BY <3>1, <3>2, Zenon DEF known, a
  <2>8. known(m) \in Seq(Seq(Byte))
    BY <2>6, FirstOfIs DEF known
  <2>9. f[<<m, o, known(m)>>] = parse_on(msg, room, f, m, o, known(m))
    <3> DEFINE a == known(m)
    <3> HIDE DEF a
    <3>1. a \in Seq(Seq(Byte))
      BY <2>8 DEF a
    <3>2. f[<<m, o, a>>] = parse_on(msg, room, f, m, o, a)
      BY <2>3, <3>1, ParserAt DEF f
    <3> QED
      BY <3>2 DEF a
  <2>10. parse_on(msg, room, f, m, o, known(m)) = f[<<m + 1, y.end, More(y, room, known(m))>>]
    <3>1. ~(m >= ancount(msg))
      <4> DEFINE w == Word(msg, 6)
      <4>1. ancount(msg) = w /\ w \in Nat /\ n <= w /\ m < n /\ n \in Nat
        BY <1>1, <2>1, AnswerIsCounted
      <4> HIDE DEF w
      <4> QED
        BY <4>1
    <3>2. y.status = "ok"
      BY <2>5, Zenon DEF Says
    <3> QED
      BY <3>1, <3>2, Zenon DEF parse_on, More
  <2>11. y.end = at[m + 1 + 1]
    BY <2>5, Zenon DEF Says
  <2> HIDE DEF y
  <2> QED
    BY <2>2, <2>7, <2>9, <2>10, <2>11, Zenon
<1>5. Nat \subseteq S
  <2> HIDE DEF S
  <2> QED
    BY <1>3, <1>4, SetInduction
<1> QED
  BY <1>5 DEF n, f, known

\* What the parser gives for an answer: its addresses, as many as there is room for, or an
\* error if there is none and the answer is cut.
LEMMA ParserGives ==
    ASSUME NEW msg \in Seq(Byte), NEW d, NEW records, NEW at, IsAnswer(msg, d, records, at), NEW room \in Nat
    PROVE  LET found == FirstOf(Addresses(records), room)
           IN parse_dns_response(msg, room) \in {Parsed(Len(found), found), Parsed(-1, <<>>)}
<1> DEFINE n == Len(records)
           f == parser(msg, room)
           found == FirstOf(Known(records, n), room)
           o == at[n + 1]
           y == read_record(msg, o, FALSE)
           question == read_record(msg, HeaderSize, TRUE)
           r == parse_dns_response(msg, room)
<1>0. n = Len(records)
  OBVIOUS
<1> HIDE DEF n
<1>1. /\ IsDomain(d) /\ Names(msg, d) /\ Len(d) \in Nat
      /\ records \in Seq(DnsRecord) /\ n \in Nat
      /\ at[1] = Len(d) + 18 /\ at[1] <= Len(msg)
      /\ n < Word(msg, 6) => CutAt(msg, at[n + 1])
      /\ n <= Word(msg, 6) /\ At(msg, 6) < 128 /\ Word(msg, 6) > 0
  <2>1. /\ IsDomain(d) /\ Names(msg, d) /\ Len(d) \in Nat
        /\ records \in Seq(DnsRecord) /\ n \in Nat
        /\ at[1] = Len(d) + 18 /\ at[1] <= Len(msg)
        /\ n < Word(msg, 6) => CutAt(msg, at[n + 1])
    BY <1>0, AnswerParts, Zenon
  <2>2. n <= Word(msg, 6) /\ At(msg, 6) < 128 /\ Word(msg, 6) > 0
    BY <1>0, AnswerParts, Zenon
  <2> QED
    BY <2>1, <2>2
<1>2. Len(msg) >= 8 /\ ~(Len(msg) < 8) /\ Len(msg) \in Nat
  BY <1>1
<1>3. ancount(msg) = Word(msg, 6) /\ Word(msg, 6) \in Nat
  BY <1>1, <1>2, AnswerIsCounted
<1>4. question.status = "ok" /\ question.end = at[1]
  <2>1. Len(d) + 18 <= Len(msg)
    BY <1>1
  <2>2. question.status = "ok" /\ question.end = Len(d) + 18
    BY <1>1, <2>1, ReadsQuestion
  <2> HIDE DEF question
  <2> QED
    BY <1>1, <2>2
<1>5. r = f[<<0, at[1], <<>>>>]
  <2>1. ~(ancount(msg) = 0 \/ question.status = "fail")
    <3>1. ~(ancount(msg) = 0)
      BY <1>1, <1>3
    <3>2. ~(question.status = "fail")
      <4> HIDE DEF question
      <4> QED
        BY <1>4
    <3> QED
      BY <3>1, <3>2, Zenon
  <2> QED
    BY <1>2, <1>4, <2>1, Zenon DEF parse_dns_response
<1>6. f[<<0, at[1], <<>>>>] = f[<<n, o, found>>]
  <2>1. n <= Len(records)
    BY <1>0, <1>1
  <2>2. \A m \in Nat : m <= Len(records) =>
            f[<<0, at[1], <<>>>>] = f[<<m, at[m + 1], FirstOf(Known(records, m), room)>>]
    BY <1>2, ParserGoesOn
  <2> HIDE DEF f
  <2> QED
    BY <1>1, <2>1, <2>2, Zenon
<1>7. found \in Seq(Seq(Byte)) /\ found = FirstOf(Addresses(records), room)
  <2>1. Known(records, n) \in Seq(Seq(Byte)) /\ Addresses(records) = Known(records, n)
    BY <1>0, <1>1, KnownType, Zenon
  <2> QED
    BY <2>1, FirstOfIs
<1>8. o \in Nat /\ o > 12
  <2>1. n <= n
    BY <1>1
  <2>2. \A m \in Nat : m <= n => at[m + 1] \in Nat /\ at[m + 1] > 12
    BY <1>0, RecordsBegin, Zenon
  <2> QED
    BY <1>1, <2>1, <2>2, Zenon
<1>9. f[<<n, o, found>>] = parse_on(msg, room, f, n, o, found)
  <2> HIDE DEF o, found
  <2> QED
    BY <1>1, <1>2, <1>7, <1>8, ParserAt
<1> HIDE DEF f, found, o, question
<1>10. CASE n < Word(msg, 6)
  <2>1. y.status = "fail"
    BY <1>1, <1>8, <1>10, ReadsNoRecord DEF o
  <2>2. ~(n >= ancount(msg))
    BY <1>1, <1>3, <1>10
  <2> HIDE DEF y
  <2>3. ~(y.status = "ok") /\ ~(y.status # "fail")
    BY <2>1
  <2>4. parse_on(msg, room, f, n, o, found) = Parsed(IF found = <<>> THEN -1 ELSE Len(found), found)
    BY <2>2, <2>3, Zenon DEF parse_on, y
  <2> HIDE DEF r
  <2>5. r = Parsed(IF found = <<>> THEN -1 ELSE Len(found), found)
    BY <1>5, <1>6, <1>9, <2>4, Zenon
  <2>6. r \in {Parsed(Len(found), found), Parsed(-1, <<>>)}
    <3>1. CASE found = <<>>
      BY <2>5, <3>1, Zenon
    <3>2. CASE found # <<>>
      BY <2>5, <3>2, Zenon
    <3> QED
      BY <3>1, <3>2
  <2> QED
    BY <1>7, <2>6, Zenon DEF r
<1>11. CASE ~(n < Word(msg, 6))
  <2>1. n >= ancount(msg)
    BY <1>1, <1>3, <1>11
  <2>2. parse_on(msg, room, f, n, o, found) = Parsed(Len(found), found)
    BY <2>1, Zenon DEF parse_on
  <2> HIDE DEF r
  <2>3. r \in {Parsed(Len(found), found), Parsed(-1, <<>>)}
    BY <1>5, <1>6, <1>9, <2>2, Zenon
  <2> QED
    BY <1>7, <2>3, Zenon DEF r
<1> QED
  BY <1>10, <1>11

\* The first elements of a sequence, cut to the room there is.
LEMMA FirstIsRead ==
    ASSUME NEW S, NEW a \in Seq(S), NEW room \in Nat, NEW found, found = FirstOf(a, room)
    PROVE  /\ found = SubSeq(a, 1, Len(found))
           /\ Len(found) = room \/ Len(found) = Len(a)
<1>1. CASE Len(a) < room
  <2>1. found = a
    BY <1>1, FirstOfIs
  <2>2. SubSeq(a, 1, Len(a)) = a
    OBVIOUS
  <2> QED
    BY <2>1, <2>2, Zenon
<1>2. CASE ~(Len(a) < room)
  <2>1. Len(a) >= room
    BY <1>2
  <2>2. Len(found) = room /\ found = SubSeq(a, 1, room)
    BY <2>1, FirstOfIs
  <2> QED
    BY <2>2, Zenon
<1> QED
  BY <1>1, <1>2

\* The parser reads every message that was made as one: AnswersAreRead.
THEOREM MadeIsRead ==
    ASSUME \A answer \in Answers : IsMade(answer)
    PROVE  AnswersAreRead
<1> SUFFICES ASSUME NEW answer \in Answers, NEW room \in 0..2,
                    parse_dns_response(answer.msg, room).status = "ok",
                    ~(parse_dns_response(answer.msg, room).ret < 0)
             PROVE  LET parsed == parse_dns_response(answer.msg, room)
                    IN /\ parsed.ret = Len(parsed.addrs)
                       /\ parsed.addrs = SubSeq(answer.addrs, 1, parsed.ret)
                       /\ parsed.ret = room \/ parsed.ret = Len(answer.addrs)
  BY Zenon DEF AnswersAreRead
<1> DEFINE parsed == parse_dns_response(answer.msg, room)
           a == answer.addrs
           found == FirstOf(a, room)
<1>1. answer.msg \in Seq(Byte) /\ a \in Seq(Seq(Byte)) /\ room \in Nat
  BY ResolverAssumption
<1>2. PICK d, records, at : IsAnswer(answer.msg, d, records, at) /\ a = Addresses(records)
  BY Zenon DEF IsMade
<1>3. parsed \in {Parsed(Len(found), found), Parsed(-1, <<>>)}
  BY <1>1, <1>2, ParserGives
<1>4. parsed.status = "ok" /\ ~(parsed.ret < 0)
  OBVIOUS
<1>5. found = SubSeq(a, 1, Len(found)) /\ (Len(found) = room \/ Len(found) = Len(a))
  BY <1>1, FirstIsRead, Zenon
<1> HIDE DEF parsed, found, a
<1>6. parsed = Parsed(Len(found), found)
  <2>1. parsed # Parsed(-1, <<>>)
    BY <1>4 DEF Parsed
  <2> QED
    BY <1>3, <2>1
<1>7. parsed.ret = Len(found) /\ parsed.addrs = found
  BY <1>6 DEF Parsed
<1>8. /\ parsed.ret = Len(parsed.addrs)
      /\ parsed.addrs = SubSeq(a, 1, parsed.ret)
      /\ parsed.ret = room \/ parsed.ret = Len(a)
  BY <1>5, <1>7, Zenon
<1> QED
  BY <1>8, Zenon DEF parsed, a

-----------------------------------------------------------------------------
(* The result *)

\* What the caller is given for an answer.
Meaning(answer) ==
    /\ retval = Len(resolved)
    /\ resolved = SubSeq(answer.addrs, 1, retval)
    /\ retval = limit \/ retval = Len(answer.addrs)

\* ResolvedIsMeant made inductive: a refused answer leaves the result an error, so that
\* whatever ends the loops later returns one, and an answer that is taken ends them.
ResultInv ==
    /\ limit \in 0..2
    /\ host # IpHost /\ taken = {} => retval = -1
    /\ taken # {} => pc = "done"
    /\ \A answer \in taken : Meaning(answer)
    /\ host = IpHost => pc \in {"start", "done"}

LEMMA ResultStays ==
    ASSUME ResultInv, taken = {}, taken' = {}, UNCHANGED <<host, limit>>, host # IpHost,
           retval' \in {-1, retval}
    PROVE  ResultInv'
BY DEF ResultInv

LEMMA TakeMeans ==
    ASSUME AnswersAreRead, ResultInv, NEW answer \in Answers, Take(answer)
    PROVE  ResultInv'
<1> DEFINE parsed == Parse(answer)
<1>1. /\ pc = "receive" /\ UNCHANGED <<host, limit>>
  BY DEF Take, argVars
<1>2. taken = {} /\ host # IpHost
  BY <1>1 DEF ResultInv
<1>3. CASE parsed.status # "ok"
  BY <1>1, <1>2, <1>3, ResultStays DEF Take
<1>4. CASE parsed.status = "ok" /\ parsed.ret < 0
  BY <1>1, <1>2, <1>4, ResultStays DEF Take, Refuse
<1>5. CASE parsed.status = "ok" /\ ~(parsed.ret < 0)
  <2>1. /\ pc' = "done" /\ retval' = parsed.ret
        /\ resolved' = parsed.addrs
        /\ taken' = {answer}
    BY <1>5 DEF Take, _exit, Finish
  <2>2. /\ parsed.ret = Len(parsed.addrs)
        /\ parsed.addrs = SubSeq(answer.addrs, 1, parsed.ret)
        /\ parsed.ret = limit \/ parsed.ret = Len(answer.addrs)
    BY <1>5 DEF AnswersAreRead, ResultInv, Parse
  <2> HIDE DEF parsed
  <2>3. Meaning(answer)'
    BY <1>1, <2>1, <2>2 DEF Meaning
  <2> QED
    BY <1>1, <1>2, <2>1, <2>3 DEF ResultInv, Meaning
<1> QED
  BY <1>3, <1>4, <1>5

LEMMA ResultStep ==
    ASSUME AnswersAreRead, ResultInv, [Next]_vars
    PROVE  ResultInv'
<1> DEFINE NothingTaken ==
               /\ pc \in {"start", "configure", "send", "receive"} /\ host # IpHost
               /\ UNCHANGED <<host, limit, taken>>
               /\ retval' \in {-1, retval}
<1>1. CASE HostIsAddress
  <2>1. /\ pc = "start" /\ pc' = "done" /\ host' = host /\ host = IpHost
        /\ limit' = limit /\ taken' = taken
    BY <1>1 DEF HostIsAddress, Finish, argVars
  <2> QED
    BY <2>1 DEF ResultInv
<1>2. CASE Receive
  BY <1>2, TakeMeans DEF Receive
<1>3. CASE UNCHANGED <<host, limit, taken, resolved, retval>> /\ pc' = pc
  BY <1>3 DEF ResultInv, Meaning
<1>4. CASE NothingTaken
  BY <1>4, ResultStays DEF ResultInv
<1>5. ASSUME \E fd \in {-1, 0, 3} : Socket(fd)
      PROVE  NothingTaken
  BY <1>5 DEF Socket, Finish, argVars
<1>6. ASSUME (\E bound \in BOOLEAN : Configure(bound)) \/ SendOk \/ SendFails
             \/ ReceiveFails \/ Timeout
      PROVE  NothingTaken
  BY <1>6 DEF ResultInv, Configure, SendOk, SendFails, Advance, ReceiveFails, Timeout, _exit,
              Finish, argVars
<1>7. CASE Arrive \/ Expire \/ UNCHANGED vars
  BY <1>3, <1>7 DEF Arrive, Expire, vars, argVars
<1> QED
  BY <1>1, <1>2, <1>4, <1>5, <1>6, <1>7 DEF Next, Lookup

LEMMA ReadIsMeant ==
    ASSUME AnswersAreRead
    PROVE  Spec => []ResolvedIsMeant
<1>1. Init => ResultInv
  BY DEF Init, ResultInv
<1>2. ResultInv /\ [Next]_vars => ResultInv'
  BY ResultStep
<1>3. ResultInv => ResolvedIsMeant
  BY DEF ResultInv, Meaning, ResolvedIsMeant
<1> QED
  BY <1>1, <1>2, <1>3, PTL DEF Spec

\* Where each answer is a message of records that gives what the answer means, or one that
\* is refused, a call gives its caller just that, as much as there is room for, and an error
\* if it took none: whatever was refused, lost or late before, for any number of servers,
\* rounds and records.
THEOREM ResultIsWhatWasMeant ==
    ASSUME \A answer \in Answers : IsMade(answer)
    PROVE  Spec => []ResolvedIsMeant
BY MadeIsRead, ReadIsMeant

\* No more addresses than the caller has room for, and each of four bytes.
ResolvedFits ==
    /\ limit \in Nat /\ retval \in Int /\ retval <= limit
    /\ Found(resolved, limit)

LEMMA ResolvedStays ==
    ASSUME ResolvedFits, UNCHANGED <<limit, resolved>>, retval' \in {-1, retval}
    PROVE  ResolvedFits'
BY DEF ResolvedFits, Found

LEMMA TakeFits ==
    ASSUME ResolvedFits, NEW answer \in Answers, Take(answer)
    PROVE  ResolvedFits'
<1> DEFINE parsed == Parse(answer)
<1>1. limit' = limit /\ limit \in Nat
  BY DEF Take, argVars, ResolvedFits
<1>2. CASE parsed.status # "ok"
  BY <1>1, <1>2, ResolvedStays DEF Take
<1>3. CASE parsed.status = "ok" /\ parsed.ret < 0
  BY <1>1, <1>3, ResolvedStays DEF Take, Refuse, _exit, Finish
<1>4. CASE parsed.status = "ok" /\ ~(parsed.ret < 0)
  <2>1. retval' = parsed.ret /\ resolved' = parsed.addrs
    BY <1>4 DEF Take, _exit, Finish
  <2>2. ParseFits(parsed, limit)
    <3>1. answer.msg \in Seq(Byte)
      BY ResolverAssumption
    <3> QED
      BY <1>1, <3>1, AnswersFit DEF Parse
  <2> HIDE DEF parsed
  <2>3. parsed.ret = Len(parsed.addrs) /\ Found(parsed.addrs, limit)
    <3>1. parsed.ret # -1
      BY <1>4
    <3> QED
      BY <1>4, <2>2, <3>1, Zenon DEF ParseFits
  <2> DEFINE a == parsed.addrs
  <2>4. Len(a) \in Nat /\ Len(a) <= limit
    BY <2>3 DEF Found
  <2> HIDE DEF a
  <2>5. retval' = Len(a) /\ Found(a, limit) /\ resolved' = a
    BY <2>1, <2>3, Zenon DEF a
  <2>6. retval' \in Int /\ retval' <= limit'
    BY <1>1, <2>4, <2>5
  <2>7. Found(resolved', limit')
    BY <1>1, <2>5, Zenon
  <2> QED
    BY <1>1, <2>6, <2>7 DEF ResolvedFits, Found
<1> QED
  BY <1>2, <1>3, <1>4

LEMMA FitsStep ==
    ASSUME ResolvedFits, [Next]_vars
    PROVE  ResolvedFits'
<1>1. CASE HostIsAddress
  BY <1>1 DEF HostIsAddress, Finish, argVars, ResolvedFits, Found
<1>2. CASE Receive
  BY <1>2, TakeFits DEF Receive
<1>3. ASSUME \E fd \in {-1, 0, 3} : Socket(fd)
      PROVE  ResolvedFits'
  BY <1>3, ResolvedStays DEF Socket, Finish, argVars
<1>4. CASE (\E bound \in BOOLEAN : Configure(bound)) \/ SendOk \/ SendFails
             \/ ReceiveFails \/ Timeout
  BY <1>4, ResolvedStays DEF Configure, SendOk, SendFails, Advance, ReceiveFails, Timeout, _exit,
              Finish, argVars
<1>5. CASE Arrive \/ Expire \/ UNCHANGED vars
  BY <1>5, ResolvedStays DEF Arrive, Expire, vars, argVars
<1> QED
  BY <1>1, <1>2, <1>3, <1>4, <1>5 DEF Next, Lookup

\* Whatever the servers answer, well formed or not, the caller is given no more addresses
\* than it has room for and each of them is of four bytes.
THEOREM CallerHasRoom == Spec => []ResolvedFits
<1>1. Init => ResolvedFits
  BY DEF Init, ResolvedFits, Found
<1>2. ResolvedFits /\ [Next]_vars => ResolvedFits'
  BY FitsStep
<1> QED
  BY <1>1, <1>2, PTL DEF Spec
=============================================================================
