------------------------------- MODULE Startup -------------------------------
(***************************************************************************)
(* What the servers of examples/rpxys.c and examples/sock-echo.c do from   *)
(* main() to the main loop: options, the addresses of the command line,    *)
(* daemon(), the pid file, io_atexit and a listening socket for each       *)
(* address and port.  The program then serves (module Servers) until a     *)
(* signal ends it; it may be killed at any time, and is started again.     *)
(*                                                                         *)
(* No program of the tree names an interface: io_socket binds to none.     *)
(***************************************************************************)
EXTENDS SockAddr, FiniteSets

CONSTANTS
    ArgLists,    \* command lines: program and arguments, each a text and what it means
    MaxServers,  \* the addresses there is room for, 30
    CountSize,   \* 2^32: ports_num is an unsigned number
    Garbage,     \* what the memory of an address may hold before it is written
    MaxLives     \* bound: how often the program is started

ASSUME StartupAssumption ==
    /\ MaxServers \in Nat /\ CountSize \in Nat \ {0} /\ MaxLives \in Nat /\ Garbage # {}
    /\ \A l \in ArgLists : Len(l.args) \in Nat /\ DOMAIN l.args = 1..Len(l.args)

VARIABLES
    line,        \* the command line
    pc,
    pid,         \* of the process; how often it was started or has forked, and 0 before
    life,        \* how often it was started
    daemon_mode,
    pid_file,    \* the option is given
    optind,      \* the argument to read
    servs,       \* the array of addresses and numbers of ports
    servs_num,
    i, n,        \* the server and the port under way
    sd,          \* the socket under way, or -1
    open,        \* open sockets
    listening,   \* sockets that listen: a set of descriptors with their addresses
    at_exits,    \* whether free_all is to be called
    file,        \* the pid in the pid file, or 0 if there is none
    ended,       \* history: the phase in which the last process ended, or "killed"
    unwritten,   \* history: the pid file could not be written in this life
    refused      \* history: addresses nothing listens at because the system refused

argVars == <<line, daemon_mode, pid_file>>
procVars == <<pid, life>>
servVars == <<servs, servs_num>>
sockVars == <<i, n, sd, open, listening, refused>>
fileVars == <<at_exits, file, ended, unwritten>>
vars == <<argVars, procVars, pc, optind, servVars, sockVars, fileVars>>

\* A process begins: its memory holds anything, its sockets are none.
Process ==
    /\ pc' = "options"
    /\ optind' = 1
    /\ servs' \in {[s \in 1..MaxServers |-> [conf |-> g, ports_num |-> 0]] : g \in Garbage}
    /\ servs_num' = 0
    /\ i' = 1 /\ n' = 0 /\ sd' = -1
    /\ open' = {} /\ listening' = {} /\ refused' = {}
    /\ at_exits' = FALSE /\ unwritten' = FALSE

Init ==
    /\ line \in ArgLists
    /\ pc = "done"
    /\ pid = 0
    /\ life = 0
    /\ daemon_mode = FALSE /\ pid_file = FALSE
    /\ optind = 1
    /\ servs = <<>>
    /\ servs_num = 0
    /\ i = 1 /\ n = 0 /\ sd = -1
    /\ open = {} /\ listening = {} /\ refused = {}
    /\ at_exits = FALSE /\ file = 0 /\ ended = "" /\ unwritten = FALSE

\* The program is started, by hand or by what watches it, with the same command line.
Main ==
    /\ pc = "done" /\ life < MaxLives
    /\ life' = life + 1
    /\ pid' = pid + 1
    /\ Process
    /\ UNCHANGED <<argVars, file, ended>>

-----------------------------------------------------------------------------
(* The command line *)

\* -h returns from start(): nothing was registered and nothing listens.
Options ==
    /\ pc = "options"
    /\ daemon_mode' \in BOOLEAN /\ pid_file' \in BOOLEAN
    /\ pc' \in {"arguments", "idle"}
    /\ UNCHANGED <<line, procVars, optind, servVars, sockVars, fileVars>>

IsNumber(text) == Len(text) \in 1..5 /\ ToSet(text) \subseteq Digits

\* Within its brackets a backslash stands for itself.
HostBytes == Digits \cup {Dot, 92}

\* "^(\\[[^]]+]|[0-9\\.]+)?:([0-9]{1,5})(-[0-9]{1,5})?$": where the colon and the dash
\* are, the dash behind the end if there is none.
Matches(a) ==
    {m \in [colon : DOMAIN a, dash : 2..(Len(a) + 1)] :
        LET host == SubSeq(a, 1, m.colon - 1)
        IN /\ a[m.colon] = Colon
           /\ \/ ToSet(host) \subseteq HostBytes
              \/ /\ Len(host) > 2 /\ host[1] = Opening /\ host[Len(host)] = Closing
                 /\ Closing \notin ToSet(SubSeq(host, 2, Len(host) - 1))
           /\ IsNumber(SubSeq(a, m.colon + 1, m.dash - 1))
           /\ m.dash <= Len(a) => a[m.dash] = Minus /\ IsNumber(From(a, m.dash + 1))}

\* The address without the brackets, if there is one.
HostOf(a, m) ==
    IF a[1] = Opening THEN SubSeq(a, 2, m.colon - 2) ELSE SubSeq(a, 1, m.colon - 1)

\* Both ends of a range belong to it.
PortsOf(a, m) ==
    LET port == atoi(a, m.colon + 1) % PortSize
    IN IF m.dash > Len(a) THEN 1 ELSE (atoi(a, m.dash + 1) - port + 1) % CountSize

\* sock-echo: no address, or one that is none, leaves what the memory holds, and is no error.
Addressed(conf, a, m) == IF m.colon > 1 THEN io_sock_atohost(conf, HostOf(a, m)) ELSE conf

EchoServ(conf, a, m) ==
    [conf |-> [Addressed(conf, a, m) EXCEPT !.port = atoi(a, m.colon + 1) % PortSize],
     ports_num |-> PortsOf(a, m)]

Place == servs_num + 1

\* One with no ports gives its place back, as it was written.
Store(s) ==
    /\ servs' = [servs EXCEPT ![Place] = s]
    /\ servs_num' = IF s.ports_num < 1 THEN servs_num ELSE servs_num + 1

ReadEchoArgument(a) == \E m \in Matches(a) : Store(EchoServ(servs[Place].conf, a, m))

\* What the stack holds where an IPv6 address is to be.
Junk == {g.addr : g \in {g \in Garbage : g.family = "inet6"}}

ReadProxyArgument(a) ==
    \E junk \in Junk :
        \E read \in {io_sock_atos(servs[Place].conf, a, junk)} :
            /\ servs' = [servs EXCEPT ![Place] = [conf |-> read.host, ports_num |-> 1]]
            /\ servs_num' = IF read.ok THEN servs_num + 1 ELSE servs_num

Invalid(program, a) ==
    IF program = "sock-echo" THEN Matches(a) = {}
    ELSE At(a, 1) \notin {Slash, Opening} /\ ~ipv4_isip(a)

\* What C leaves undefined: the address is copied to a buffer it does not fit into with its
\* end, or a path is kept where it was copied to, which is gone when it is used.
Strays(program, a) ==
    IF program = "sock-echo"
    THEN \E m \in Matches(a) : Len(HostOf(a, m)) >= 50 \/ At(HostOf(a, m), 1) = Slash
    ELSE At(a, 1) = Opening /\ Len(Copied(a)) >= 48

\* More addresses than there is room for are written behind the array.
ReadArgument ==
    /\ pc = "arguments" /\ optind <= Len(line.args)
    /\ LET a == line.args[optind].text
           astray == /\ ~Invalid(line.program, a)
                     /\ servs_num = MaxServers \/ Strays(line.program, a)
       IN /\ pc' = IF astray THEN "undefined" ELSE pc
          /\ optind' = optind + 1
          /\ IF Invalid(line.program, a) \/ astray THEN UNCHANGED servVars
             ELSE IF line.program = "sock-echo" THEN ReadEchoArgument(a)
             ELSE ReadProxyArgument(a)
    /\ UNCHANGED <<argVars, procVars, sockVars, fileVars>>

EndOfArguments ==
    /\ pc = "arguments" /\ optind > Len(line.args)
    /\ pc' = "daemon"
    /\ UNCHANGED <<argVars, procVars, optind, servVars, sockVars, fileVars>>

-----------------------------------------------------------------------------
(* The process *)

Gone == open' = {} /\ listening' = {} /\ sd' = -1 /\ pc' = "done"

\* exit() runs what io_atexit was given; free_all removes the file, whoever wrote it.
Exit ==
    /\ Gone
    /\ file' = IF at_exits /\ pid_file THEN 0 ELSE file
    /\ ended' = pc
    /\ UNCHANGED <<argVars, procVars, optind, servVars, i, n, refused, at_exits, unwritten>>

\* daemon() goes on in a child, with another pid; if it fails, exit(1).
Daemon ==
    /\ pc = "daemon"
    /\ \/ /\ pc' = "pidfile"
          /\ pid' = IF daemon_mode THEN pid + 1 ELSE pid
          /\ UNCHANGED <<argVars, life, optind, servVars, sockVars, fileVars>>
       \/ daemon_mode /\ Exit

\* A file that cannot be written is no reason not to serve.
create_pid_file ==
    /\ pc = "pidfile"
    /\ pc' = "atexit"
    /\ \/ pid_file /\ file' = pid /\ UNCHANGED unwritten
       \/ pid_file /\ unwritten' = TRUE /\ UNCHANGED file
       \/ ~pid_file /\ UNCHANGED <<file, unwritten>>
    /\ UNCHANGED <<argVars, procVars, optind, servVars, sockVars, at_exits, ended>>

\* Mutant: the handler is not registered.
io_atexit_Full ==
    /\ pc = "atexit"
    /\ pc' = "listen"
    /\ UNCHANGED <<argVars, procVars, optind, servVars, sockVars, fileVars>>

\* The table has room for ten; no program of the tree registers more than one.
io_atexit ==
    /\ pc = "atexit"
    /\ pc' = "listen"
    /\ at_exits' = TRUE
    /\ UNCHANGED <<argVars, procVars, optind, servVars, sockVars, file, ended, unwritten>>

\* SIGTERM or SIGINT, for which the handler of io_signals.c calls exit().
Terminated == pc \notin {"done", "undefined"} /\ Exit

\* SIGKILL, or the power goes.
Killed ==
    /\ pc \notin {"done", "undefined"}
    /\ Gone
    /\ ended' = "killed"
    /\ UNCHANGED <<argVars, procVars, optind, servVars, i, n, refused, at_exits, file, unwritten>>

-----------------------------------------------------------------------------
(* Listening: for each server each port *)

\* The address of the k-th port of a server.
AddressOf(conf, k) == io_sock_set_addr([conf EXCEPT !.port = (conf.port + k) % PortSize])

\* The one that is tried.
Target == AddressOf(servs[i].conf, n)

\* Mutant: the ports of the next server are counted on.
NextPort_CountsOn ==
    /\ sd' = -1
    /\ IF n + 1 < servs[i].ports_num THEN n' = n + 1 /\ UNCHANGED i ELSE n' = n /\ i' = i + 1

NextPort ==
    /\ sd' = -1
    /\ IF n + 1 < servs[i].ports_num THEN n' = n + 1 /\ UNCHANGED i ELSE n' = 0 /\ i' = i + 1

Refuse == refused' = refused \cup {Target} /\ NextPort /\ UNCHANGED listening

Frame == UNCHANGED <<argVars, procVars, pc, optind, servVars, fileVars>>

\* The system gives the lowest that is free.
Descriptors == 3..(3 + Cardinality(open))

\* io_socket: a family that is none has no sockets.
io_socket ==
    /\ pc = "listen" /\ i <= servs_num /\ sd = -1
    /\ \/ /\ Target.family # "none"
          /\ \E d \in Descriptors \ open :
                 /\ \A e \in Descriptors \ open : d <= e
                 /\ sd' = d
                 /\ open' = open \cup {d}
          /\ UNCHANGED <<i, n, listening, refused>>
       \/ Refuse /\ UNCHANGED open
    /\ Frame

\* Mutant: the socket that cannot be bound stays open.
BindFails_Leaks ==
    /\ pc = "listen" /\ sd # -1
    /\ Refuse
    /\ UNCHANGED open
    /\ Frame

\* io_binded_socket and io_stream_listen_create: the option is refused, before the address
\* is looked at, or the address is, or it is not listened at.
BindFails ==
    /\ pc = "listen" /\ sd # -1
    /\ Refuse
    /\ open' = open \ {sd}
    /\ Frame

\* The path is copied past the end of the address that is to be bound.
PathOverflows ==
    /\ pc = "listen" /\ sd # -1
    /\ Overflows(servs[i].conf)
    /\ pc' = "undefined"
    /\ UNCHANGED <<argVars, procVars, optind, servVars, sockVars, fileVars>>

\* Two sockets of a process do not listen at one address.
io_stream_listen_create ==
    /\ pc = "listen" /\ sd # -1
    /\ ~Overflows(servs[i].conf)
    /\ \A l \in listening : l.at # Target
    /\ listening' = listening \cup {[sd |-> sd, at |-> Target]}
    /\ NextPort
    /\ UNCHANGED <<open, refused>>
    /\ Frame

StartReturns ==
    /\ pc = "listen" /\ i > servs_num
    /\ pc' = "loop"
    /\ UNCHANGED <<argVars, procVars, optind, servVars, sockVars, fileVars>>

\* With nothing to wait for the main loop ends, and main() returns.
MainReturns == pc \in {"idle", "loop"} /\ listening = {} /\ Exit

Next == \/ Main \/ Options \/ ReadArgument \/ EndOfArguments
        \/ Daemon \/ create_pid_file \/ io_atexit
        \/ io_socket \/ BindFails \/ PathOverflows \/ io_stream_listen_create
        \/ StartReturns \/ MainReturns \/ Terminated \/ Killed

Spec == Init /\ [][Next]_vars

-----------------------------------------------------------------------------
(* Properties *)

\* What the command line means: endpoints, and of each the fields the program is told.
Meant == UNION {line.args[k].means : k \in DOMAIN line.args}

\* An address is as told.  One that is neither IPv4 nor IPv6 has no port.
IsAsTold(at, m) ==
    \A f \in m.told : at[f] = m.at[f] \/ (f = "port" /\ at.family \notin {"inet", "inet6"})

\* Each of the addresses is one that is meant, and each that is meant is among them.
Agree(addresses, meant) ==
    /\ \A at \in addresses : \E m \in meant : IsAsTold(at, m)
    /\ \A m \in meant : \E at \in addresses : IsAsTold(at, m)

\* A program that has started listens at the addresses and ports its arguments mean, at
\* all of them that the system did not refuse and at no other, in all that it takes from
\* the text of the arguments.
ListensWhereMeant ==
    pc = "loop" => Agree({l.at : l \in listening} \cup refused, Meant)

\* The addresses of the ports of a server.
AddressesOf(serv) == {AddressOf(serv.conf, k) : k \in 0..(serv.ports_num - 1)}

\* What an argument may be read as where the memory holds conf, and if it is kept.
Readings(program, a, conf) ==
    IF program = "sock-echo"
    THEN {[serv |-> s, kept |-> s.ports_num >= 1] : s \in {EchoServ(conf, a, m) : m \in Matches(a)}}
    ELSE {[serv |-> [conf |-> r.host, ports_num |-> 1], kept |-> r.ok] :
             r \in {io_sock_atos(conf, a, junk) : junk \in Junk}}

\* Each argument by itself is read as what it means, whatever the memory holds.
ArgumentsAreRead(Memory) ==
    /\ Garbage \subseteq Memory
    /\ \A l \in ArgLists : \A k \in DOMAIN l.args :
           LET a == l.args[k]
           IN /\ Invalid(l.program, a.text) => a.means = {}
              /\ ~Invalid(l.program, a.text) /\ ~Strays(l.program, a.text) =>
                     \A conf \in Memory : \A r \in Readings(l.program, a.text, conf) :
                         /\ r.serv.conf \in Memory
                         /\ r.serv.ports_num \in Nat
                         /\ Agree(IF r.kept THEN AddressesOf(r.serv) ELSE {}, a.means)

\* Every open socket is one that listens, or the one under way: whatever fails on the
\* way to it closes it.
NoSocketLost == open = {l.sd : l \in listening} \cup ({sd} \ {-1})

\* The pid file of a program that serves tells its pid, and not that of the process that
\* forked it or of one that was killed, if it could be written; and one that ends
\* otherwise leaves no pid file, though one that was killed before it had left one.
PidFileIsTrue ==
    /\ pc \in {"listen", "loop"} /\ pid_file /\ ~unwritten => file = pid
    /\ pc = "done" /\ ended \in {"listen", "loop"} /\ pid_file => file = 0
=============================================================================
