------------------------------ MODULE Resolver ------------------------------
(***************************************************************************)
(* One call of the name lookup in library/oi_dns.c, which is not in the    *)
(* build yet: dns_gethostsbyname, which asks one server after another, or  *)
(* dns_resolve_domain, which asks all of them and then takes as many       *)
(* answers.  Between the system calls of the lookup the servers answer,    *)
(* late, twice or never, and time passes.  Each call has a socket of its   *)
(* own; what is not an answer to it does not arrive there.                 *)
(*                                                                         *)
(* poll_sock_recv is not part of the repository.  It waits for a datagram  *)
(* until the time it is given and returns 0 then, or fails.                *)
(***************************************************************************)
EXTENDS DnsMessage, FiniteSets

CONSTANTS
    Hosts,       \* the names asked for, as bytes
    Files,       \* contents of resolv.conf: sequences of lines
    Answers,     \* what a server may answer: records with the message and its meaning
    MaxServers,  \* MAX_DNS_NUM
    Rounds,      \* SEND_DNS_REQ_NUM
    MaxAnswers   \* bound: datagrams that arrive

ASSUME ResolverAssumption ==
    /\ MaxServers \in Nat /\ Rounds \in Nat /\ MaxAnswers \in Nat
    /\ \A f \in Files : f \in Seq([nameserver : BOOLEAN, addr : Nat])
    /\ \A a \in Answers : a.msg \in Seq(Byte) /\ a.addrs \in Seq(Seq(Byte))

VARIABLES
    pc,          \* where the call is
    call,        \* which of the two functions it is
    host,        \* its argument
    limit,       \* res_limit
    file,        \* resolv.conf
    sd,          \* the socket: -1, or a descriptor, of which 0 is one
    open,        \* descriptors the call has opened and not closed
    servers,     \* dns_ips
    round,       \* rounds that have begun
    i,           \* the loop variable, from 1
    asked,       \* queries on their way, to be answered or lost
    inbox,       \* datagrams that wait at the socket
    arrived,     \* history: how many ever did
    expired,     \* finish has passed
    unsent,      \* history: calls of sendto that failed and were passed over
    refused,     \* history: answers the parser refused
    taken,       \* history: the answer the result is from, a set
    retval,
    resolved     \* the addresses the caller is given

\* Stands for every name that is an address in digits.
IpHost == <<>>

netVars == <<asked, inbox, arrived, expired>>
argVars == <<call, host, limit, file>>
vars == <<pc, argVars, sd, open, servers, round, i, netVars,
          unsent, refused, taken, retval, resolved>>

Init ==
    /\ pc = "start"
    /\ call \in {"gethosts", "resolve"}
    /\ host \in Hosts \cup {IpHost}
    /\ limit \in 0..2
    /\ file \in Files
    /\ sd = -1
    /\ open = {}
    /\ servers = <<>>
    /\ round = 0
    /\ i = 1
    /\ asked = 0
    /\ inbox = 0
    /\ arrived = 0
    /\ expired = FALSE
    /\ unsent = 0
    /\ refused = 0
    /\ taken = {}
    /\ retval = -1
    /\ resolved = <<>>

-----------------------------------------------------------------------------
(* The network and the clock *)

\* A query is answered; it may reach its server once more.  What the answer says is
\* chosen as it is read: the lookup looks neither at its sender nor at its id.
Arrive ==
    /\ asked > 0 /\ arrived < MaxAnswers /\ pc \notin {"done", "undefined"}
    /\ arrived' = arrived + 1
    /\ inbox' = inbox + 1
    /\ asked' \in {asked - 1, asked}
    /\ UNCHANGED <<pc, argVars, sd, open, servers, round, i, expired,
                   unsent, refused, taken, retval, resolved>>

Expire ==
    /\ round > 0 /\ ~expired /\ pc # "done"
    /\ expired' = TRUE
    /\ UNCHANGED <<pc, argVars, sd, open, servers, round, i, asked, inbox, arrived,
                   unsent, refused, taken, retval, resolved>>

-----------------------------------------------------------------------------
(* The beginning of a call *)

Finish(ret) == pc' = "done" /\ retval' = ret

\* Mutant: a call that fails leaves the socket open.
_exit_Leaks(ret) == Finish(ret) /\ UNCHANGED open

\* _exit: descriptor 0 is taken for none.
_exit(ret) ==
    /\ Finish(ret)
    /\ open' = IF sd > 0 THEN open \ {sd} ELSE open

\* An address in digits is its own answer, if there is room for it.
HostIsAddress ==
    /\ pc = "start" /\ host = IpHost
    /\ Finish(IF limit = 0 THEN 0 ELSE 1)
    /\ UNCHANGED <<argVars, sd, open, servers, round, i, netVars,
                   unsent, refused, taken, resolved>>

\* 0 is the descriptor of a program that has closed its standard input.
Socket(fd) ==
    /\ pc = "start" /\ host # IpHost
    /\ sd' = fd
    /\ IF fd < 0 THEN Finish(-1) /\ UNCHANGED open
       ELSE pc' = "configure" /\ open' = {fd} /\ UNCHANGED retval
    /\ UNCHANGED <<argVars, servers, round, i, netVars,
                   unsent, refused, taken, resolved>>

\* The first MaxServers lines that name a server; 0 stands for an address in error.
dns_readResolvConf(lines) ==
    LET named == {k \in DOMAIN lines : lines[k].nameserver}
        n == IF Cardinality(named) < MaxServers THEN Cardinality(named) ELSE MaxServers
        nth(s) == CHOOSE k \in named : Cardinality({l \in named : l <= k}) = s
    IN [s \in 1..n |-> lines[nth(s)].addr]

\* Addresses of zero are left out.
dns_writeResolvConf(ips) ==
    LET set == SelectSeq(ips, LAMBDA ip : ip # 0)
    IN [s \in 1..Len(set) |-> [nameserver |-> TRUE, addr |-> set[s]]]

\* No server, or no binding to the device, ends the call.
Configure(bound) ==
    /\ pc = "configure"
    /\ servers' = dns_readResolvConf(file)
    /\ IF servers' = <<>> \/ ~bound
       THEN _exit(-1) /\ UNCHANGED round
       ELSE pc' = "send" /\ round' = 1 /\ UNCHANGED <<open, retval>>
    /\ UNCHANGED <<argVars, sd, i, netVars, unsent, refused, taken, resolved>>

-----------------------------------------------------------------------------
(* The loops *)

\* The next server, or the first one of the next round; behind the last round the
\* call returns what the last answer left, which is an error.
Advance(first) ==
    IF i < Len(servers) THEN i' = i + 1 /\ UNCHANGED <<pc, round, open, retval>>
    ELSE IF round < Rounds THEN i' = 1 /\ round' = round + 1 /\ pc' = first /\ UNCHANGED <<open, retval>>
    ELSE _exit(retval) /\ UNCHANGED <<i, round>>

SendOk ==
    /\ pc = "send"
    /\ asked' = asked + 1
    /\ IF call = "gethosts" THEN pc' = "receive" /\ UNCHANGED i
       ELSE IF i < Len(servers) THEN i' = i + 1 /\ UNCHANGED pc
       ELSE i' = 1 /\ pc' = "receive"
    /\ UNCHANGED <<argVars, sd, open, servers, round, inbox, arrived, expired,
                   unsent, refused, taken, retval, resolved>>

\* dns_gethostsbyname goes on to the next server, dns_resolve_domain gives up.
SendFails ==
    /\ pc = "send"
    /\ IF call = "gethosts" THEN unsent' = unsent + 1 /\ Advance("send")
       ELSE _exit(retval) /\ UNCHANGED <<unsent, i, round>>
    /\ UNCHANGED <<argVars, sd, servers, netVars, refused, taken, resolved>>

\* Mutant: the finish is looked at only when a datagram is there.
Timeout_WaitsOn ==
    /\ pc = "receive" /\ expired /\ inbox > 0
    /\ _exit(retval)
    /\ UNCHANGED <<argVars, sd, servers, round, i, netVars,
                   unsent, refused, taken, resolved>>

\* Mutant: a wait that times out counts as an answer.
Timeout_Retries ==
    /\ pc = "receive" /\ expired
    /\ IF call = "gethosts" THEN UNCHANGED i /\ pc' = "send" /\ UNCHANGED <<round, open, retval>>
       ELSE Advance("send")
    /\ UNCHANGED <<argVars, sd, servers, netVars, unsent, refused, taken, resolved>>

\* The wait is over and no datagram came: the call ends, whatever rounds are left.
Timeout ==
    /\ pc = "receive" /\ expired
    /\ _exit(retval)
    /\ UNCHANGED <<argVars, sd, servers, round, i, netVars,
                   unsent, refused, taken, resolved>>

\* poll or recvfrom fails.
ReceiveFails ==
    /\ pc = "receive"
    /\ _exit(retval)
    /\ UNCHANGED <<argVars, sd, servers, round, i, netVars,
                   unsent, refused, taken, resolved>>

\* The answer is refused: the call goes on.
Refuse ==
    /\ refused' = refused + 1
    /\ retval' = -1
    /\ IF i < Len(servers)
       THEN /\ i' = i + 1
            /\ pc' = IF call = "gethosts" THEN "send" ELSE "receive"
            /\ UNCHANGED <<round, open>>
       ELSE IF round < Rounds
       THEN i' = 1 /\ round' = round + 1 /\ pc' = "send" /\ UNCHANGED open
       ELSE _exit(-1) /\ UNCHANGED <<i, round>>
    /\ UNCHANGED <<taken, resolved>>

\* Mutant: room for one address too many.
Parse_OffByOne(answer) == parse_dns_response(answer.msg, limit + 1)

\* The parser is told how many addresses the caller has room for.
Parse(answer) == parse_dns_response(answer.msg, limit)

Take(answer) ==
    LET parsed == Parse(answer)
    IN /\ pc = "receive" /\ inbox > 0
       /\ inbox' = inbox - 1
       /\ IF parsed.status # "ok"
          THEN pc' = "undefined" /\ UNCHANGED <<open, round, i, refused, taken, retval, resolved>>
          ELSE IF parsed.ret < 0 THEN Refuse
          ELSE /\ _exit(parsed.ret)
               /\ resolved' = parsed.addrs
               /\ taken' = {answer}
               /\ UNCHANGED <<round, i, refused>>
       /\ UNCHANGED <<argVars, sd, servers, asked, arrived, expired, unsent>>

Receive == \E answer \in Answers : Take(answer)

Lookup ==
    \/ HostIsAddress
    \/ \E fd \in {-1, 0, 3} : Socket(fd)
    \/ \E bound \in BOOLEAN : Configure(bound)
    \/ SendOk \/ SendFails
    \/ Receive \/ ReceiveFails \/ Timeout

Next == Lookup \/ Arrive \/ Expire

Spec == Init /\ [][Next]_vars

\* The call goes on when it can and the clock does; sendto need not fail, nor poll.
FairSpec ==
    /\ Spec
    /\ WF_vars(HostIsAddress) /\ WF_vars(\E fd \in {-1, 0, 3} : Socket(fd))
    /\ WF_vars(\E bound \in BOOLEAN : Configure(bound))
    /\ WF_vars(SendOk) /\ WF_vars(Receive) /\ WF_vars(Timeout) /\ WF_vars(Expire)

-----------------------------------------------------------------------------
(* Properties *)

\* What was asked is what the caller meant: the parser's own reader of names takes
\* the name out of the query that mk_dns_query made, and the type and the class of
\* the question are all that is behind it.
QueryNamesHost ==
    host # IpHost =>
        LET query == mk_dns_query(host)
            name == get_objectname(query, HeaderSize)
        IN /\ name.status = "ok"
           /\ name.name = Append(host, Dot)
           /\ name.end + 4 = Len(query)

\* The addresses the caller is given are those the answer means, as many as there
\* is room for, and without an answer there are none.
ResolvedIsMeant ==
    pc = "done" /\ host # IpHost =>
        /\ taken = {} => retval = -1
        /\ \A answer \in taken :
               /\ retval = Len(resolved)
               /\ resolved = SubSeq(answer.addrs, 1, retval)
               /\ retval = limit \/ retval = Len(answer.addrs)

\* The parser by itself takes out of each answer what it means, as much as there is room
\* for, unless it refuses it or cannot be relied on.
AnswersAreRead ==
    \A answer \in Answers, room \in 0..2 :
        LET parsed == parse_dns_response(answer.msg, room)
        IN parsed.status = "ok" /\ ~(parsed.ret < 0) =>
               /\ parsed.ret = Len(parsed.addrs)
               /\ parsed.addrs = SubSeq(answer.addrs, 1, parsed.ret)
               /\ parsed.ret = room \/ parsed.ret = Len(answer.addrs)

\* Every server the call has gone on from has refused or could not be asked: no
\* datagram is sent again because one was lost.
RetriesAreEarned ==
    LET passed == (round - 1) * Len(servers)
    IN /\ pc = "send" /\ call = "gethosts" => refused + unsent = passed + i - 1
       /\ pc = "receive" /\ call = "gethosts" => refused + unsent = passed + i - 1
       /\ pc = "send" /\ call = "resolve" => refused = passed
       /\ pc = "receive" /\ call = "resolve" => refused = passed + i - 1

\* A call that is over has closed its socket, unless that is descriptor 0.
SocketClosed == pc = "done" => open \subseteq {0}

\* Every call returns, or runs into a message it must not be given.
Returns == <>(pc \in {"done", "undefined"})

=============================================================================
