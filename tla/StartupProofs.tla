---------------------------- MODULE StartupProofs ----------------------------
(***************************************************************************)
(* Theorems about Startup, for any command lines, any room for addresses   *)
(* and any number of lives.                                                *)
(***************************************************************************)
EXTENDS Arguments, ListLemmas, TLAPS

Listeners == {l.sd : l \in listening}

\* NoSocketLost made inductive: the socket under way listens at nothing yet, so that
\* closing it leaves those that listen open.
SocketInv ==
    /\ NoSocketLost
    /\ sd # -1 => sd \notin Listeners
    /\ -1 \notin Listeners

\* PidFileIsTrue made inductive: it holds from create_pid_file on, and the handler is
\* registered before anything listens.
PidInv ==
    /\ pc \in {"atexit", "listen", "loop"} /\ pid_file /\ ~unwritten => file = pid
    /\ pc \in {"listen", "loop"} => at_exits
    /\ pc = "done" /\ ended \in {"listen", "loop"} /\ pid_file => file = 0

-----------------------------------------------------------------------------
(* Sockets *)

LEMMA GoneKeepsSockets ==
    ASSUME Gone
    PROVE  SocketInv'
BY DEF Gone, SocketInv, NoSocketLost, Listeners

LEMMA SocketIsNew ==
    ASSUME SocketInv, io_socket
    PROVE  SocketInv'
<1>1. CASE Refuse /\ UNCHANGED open
  BY <1>1 DEF io_socket, Refuse, NextPort, SocketInv, NoSocketLost, Listeners
<1>2. CASE ~(Refuse /\ UNCHANGED open)
  <2>1. PICK d \in Descriptors \ open : sd' = d /\ open' = open \cup {d}
    BY <1>2 DEF io_socket
  <2>2. sd = -1 /\ listening' = listening
    BY <1>2 DEF io_socket
  <2>3. d # -1
    BY <2>1 DEF Descriptors
  <2>4. d \notin Listeners
    BY <2>1, <2>2 DEF SocketInv, NoSocketLost, Listeners
  <2> QED
    BY <2>1, <2>2, <2>3, <2>4 DEF SocketInv, NoSocketLost, Listeners
<1> QED
  BY <1>1, <1>2

LEMMA FailureCloses ==
    ASSUME SocketInv, BindFails
    PROVE  SocketInv'
<1>1. /\ sd # -1 /\ sd' = -1
      /\ open' = open \ {sd}
      /\ listening' = listening
  BY DEF BindFails, Refuse, NextPort
<1> QED
  BY <1>1 DEF SocketInv, NoSocketLost, Listeners

LEMMA ListenerIsKept ==
    ASSUME SocketInv, io_stream_listen_create
    PROVE  SocketInv'
<1>1. /\ sd # -1 /\ sd' = -1
      /\ open' = open
      /\ listening' = listening \cup {[sd |-> sd, at |-> Target]}
  BY DEF io_stream_listen_create, NextPort
<1>2. PICK l : l.sd = sd /\ listening' = listening \cup {l}
  BY <1>1
<1>3. Listeners' = Listeners \cup {sd}
  BY <1>2 DEF Listeners
<1>4. open' = Listeners' \cup ({sd'} \ {-1})
  BY <1>1, <1>3 DEF SocketInv, NoSocketLost, Listeners
<1> QED
  BY <1>1, <1>3, <1>4 DEF SocketInv, NoSocketLost, Listeners

LEMMA SocketStep ==
    ASSUME SocketInv, [Next]_vars
    PROVE  SocketInv'
<1>1. CASE Main
  BY <1>1 DEF Main, Process, SocketInv, NoSocketLost, Listeners
<1>2. CASE io_socket
  BY <1>2, SocketIsNew
<1>3. CASE BindFails
  BY <1>3, FailureCloses
<1>4. CASE io_stream_listen_create
  BY <1>4, ListenerIsKept
<1>5. CASE Terminated \/ Killed \/ MainReturns
  BY <1>5, GoneKeepsSockets DEF Terminated, Killed, MainReturns, Exit
<1>6. CASE Daemon
  <2>1. CASE Exit
    BY <2>1, GoneKeepsSockets DEF Exit
  <2>2. CASE ~Exit
    BY <1>6, <2>2 DEF Daemon, sockVars, SocketInv, NoSocketLost, Listeners
  <2> QED
    BY <2>1, <2>2
<1>7. CASE UNCHANGED sockVars
  BY <1>7 DEF sockVars, SocketInv, NoSocketLost, Listeners
<1>8. Options \/ ReadArgument \/ EndOfArguments \/ create_pid_file \/ io_atexit
      \/ PathOverflows \/ StartReturns \/ UNCHANGED vars => UNCHANGED sockVars
  BY DEF Options, ReadArgument, EndOfArguments, create_pid_file, io_atexit,
         PathOverflows, StartReturns, vars
<1> QED
  BY <1>1, <1>2, <1>3, <1>4, <1>5, <1>6, <1>7, <1>8 DEF Next

\* Whatever fails between socket() and listen(), and whenever the program ends, no
\* descriptor is left open that nobody listens at.
THEOREM SocketsAreAccountedFor == Spec => []NoSocketLost
<1>1. Init => SocketInv
  BY DEF Init, SocketInv, NoSocketLost, Listeners
<1>2. SocketInv /\ [Next]_vars => SocketInv'
  BY SocketStep
<1>3. SocketInv => NoSocketLost
  BY DEF SocketInv
<1> QED
  BY <1>1, <1>2, <1>3, PTL DEF Spec

-----------------------------------------------------------------------------
(* The pid file *)

LEMMA ExitKeepsPid ==
    ASSUME PidInv, Exit, pc # "done"
    PROVE  PidInv'
<1>1. /\ pc' = "done" /\ ended' = pc
      /\ file' = IF at_exits /\ pid_file THEN 0 ELSE file
      /\ pid_file' = pid_file
  BY DEF Exit, Gone, argVars
<1> QED
  BY <1>1 DEF PidInv

LEMMA ListeningKeepsPid ==
    ASSUME PidInv, io_socket \/ BindFails \/ io_stream_listen_create
    PROVE  PidInv'
<1>1. Frame
  BY DEF io_socket, BindFails, io_stream_listen_create
<1> QED
  BY <1>1 DEF Frame, argVars, procVars, fileVars, PidInv

LEMMA PidStep ==
    ASSUME PidInv, [Next]_vars
    PROVE  PidInv'
<1>1. CASE Main
  BY <1>1 DEF Main, Process, argVars, PidInv
<1>2. CASE Options
  BY <1>2 DEF Options, procVars, fileVars, PidInv
<1>3. CASE ReadArgument
  <2>1. pc' \in {"undefined", "arguments"}
    BY <1>3 DEF ReadArgument
  <2> QED
    BY <2>1 DEF PidInv
<1>4. CASE EndOfArguments
  BY <1>4 DEF EndOfArguments, PidInv
<1>5. CASE Daemon
  <2>1. CASE Exit
    BY <1>5, <2>1, ExitKeepsPid DEF Daemon
  <2>2. CASE ~Exit
    BY <1>5, <2>2 DEF Daemon, PidInv
  <2> QED
    BY <2>1, <2>2
<1>6. CASE create_pid_file
  BY <1>6 DEF create_pid_file, argVars, procVars, PidInv
<1>7. CASE io_atexit
  BY <1>7 DEF io_atexit, argVars, procVars, PidInv
<1>8. CASE io_socket \/ BindFails \/ io_stream_listen_create
  BY <1>8, ListeningKeepsPid
<1>9. CASE StartReturns
  BY <1>9 DEF StartReturns, argVars, procVars, fileVars, PidInv
<1>10. CASE MainReturns \/ Terminated
  BY <1>10, ExitKeepsPid DEF MainReturns, Terminated
<1>11. CASE Killed
  BY <1>11 DEF Killed, Gone, PidInv
<1>12. CASE UNCHANGED vars
  BY <1>12 DEF vars, argVars, procVars, fileVars, PidInv
<1>13. CASE PathOverflows
  BY <1>13 DEF PathOverflows, PidInv
<1> QED
  BY <1>1, <1>2, <1>3, <1>4, <1>5, <1>6, <1>7, <1>8, <1>9, <1>10, <1>11, <1>12, <1>13 DEF Next

\* The pid file of a program that serves tells its pid, and one that ends otherwise than
\* by a kill leaves no file behind, over any number of lives.
THEOREM PidFileTellsThePid == Spec => []PidFileIsTrue
<1>1. Init => PidInv
  BY DEF Init, PidInv
<1>2. PidInv /\ [Next]_vars => PidInv'
  BY PidStep
<1>3. PidInv => PidFileIsTrue
  BY DEF PidInv, PidFileIsTrue
<1> QED
  BY <1>1, <1>2, <1>3, PTL DEF Spec

-----------------------------------------------------------------------------
(* The addresses *)

\* Where the servers kept so far are to listen, and what the arguments read so far mean.
Served == UNION {AddressesOf(servs[s]) : s \in 1..servs_num}
ReadSoFar == UNION {line.args[k].means : k \in 1..(optind - 1)}

\* The addresses that were tried, by what came of it and by the two loops of start().
Tried == {l.at : l \in listening} \cup refused
Passed == (UNION {AddressesOf(servs[s]) : s \in 1..(i - 1)})
          \cup {AddressOf(servs[i].conf, k) : k \in 0..(n - 1)}

ServsInv(Memory) ==
    /\ servs_num \in 0..MaxServers
    /\ DOMAIN servs = 1..MaxServers
    /\ \A s \in 1..MaxServers : servs[s].conf \in Memory
    /\ \A s \in 1..servs_num : servs[s].ports_num \in Nat /\ servs[s].ports_num >= 1

\* The loops stand at a port of a server, or behind the last server.
LoopsInv ==
    /\ i \in Nat \ {0} /\ n \in Nat
    /\ i <= servs_num => n < servs[i].ports_num
    /\ i > servs_num => i = servs_num + 1 /\ n = 0
    /\ sd # -1 => i <= servs_num

Fresh == i = 1 /\ n = 0 /\ sd = -1 /\ listening = {} /\ refused = {}

Before == {"options", "arguments", "daemon", "pidfile", "atexit"}
After == {"daemon", "pidfile", "atexit", "listen", "loop"}

\* ListensWhereMeant made inductive: while arguments are read, the servers that are kept
\* agree with what the arguments behind meant; while sockets are made, the addresses tried are
\* those the loops have passed.
ListenInv(Memory) ==
    /\ line \in ArgLists
    /\ pc \in Before \cup After => ServsInv(Memory)
    /\ pc = "options" => servs_num = 0 /\ optind = 1
    /\ pc = "arguments" => optind \in 1..(Len(line.args) + 1) /\ Agree(Served, ReadSoFar)
    /\ pc \in After => Agree(Served, Meant)
    /\ pc \in Before => Fresh
    /\ pc \in {"listen", "loop"} => LoopsInv /\ Tried = Passed
    /\ pc = "loop" => i > servs_num

LEMMA AgreeTogether ==
    ASSUME NEW A, NEW M, Agree(A, M), NEW B, NEW N, Agree(B, N)
    PROVE  Agree(A \cup B, M \cup N)
BY DEF Agree

LEMMA NoneAgree == Agree({}, {})
BY DEF Agree

\* What no step after the arguments changes.
LEMMA ServersStay ==
    ASSUME NEW Memory, line' = line, servs' = servs, servs_num' = servs_num
    PROVE  /\ ServsInv(Memory) => ServsInv(Memory)'
           /\ Served' = Served
           /\ Meant' = Meant
           /\ Agree(Served, Meant) => Agree(Served, Meant)'
<1>1. ServsInv(Memory) => ServsInv(Memory)'
  BY DEF ServsInv
<1>2. Served' = Served
  BY DEF Served, AddressesOf, AddressOf
<1>3. Meant' = Meant
  BY DEF Meant
<1>4. Agree(Served, Meant) => Agree(Served, Meant)'
  BY <1>2, <1>3
<1> QED
  BY <1>1, <1>2, <1>3, <1>4

LEMMA LoopsStay ==
    ASSUME servs' = servs, servs_num' = servs_num, i' = i, n' = n
    PROVE  /\ Passed' = Passed
           /\ LoopsInv /\ sd' = sd => LoopsInv'
<1>1. Passed' = Passed
  BY DEF Passed, AddressesOf, AddressOf
<1>2. LoopsInv /\ sd' = sd => LoopsInv'
  BY DEF LoopsInv
<1> QED
  BY <1>1, <1>2

\* A server stored in the next place serves its own addresses beside those before.
LEMMA StoredIsServed ==
    ASSUME NEW Memory, ServsInv(Memory), servs_num < MaxServers,
           NEW serv, serv.conf \in Memory, serv.ports_num \in Nat, NEW kept \in BOOLEAN,
           servs' = [servs EXCEPT ![Place] = serv],
           servs_num' = IF kept THEN servs_num + 1 ELSE servs_num,
           kept => serv.ports_num >= 1,
           StartupAssumption
    PROVE  /\ ServsInv(Memory)'
           /\ Served' = Served \cup IF kept THEN AddressesOf(serv) ELSE {}
<1> USE DEF StartupAssumption
<1>1. /\ servs_num \in Nat /\ MaxServers \in Nat /\ servs_num + 1 \in 1..MaxServers
      /\ Place = servs_num + 1
  BY DEF ServsInv, Place
<1>2. /\ DOMAIN servs' = 1..MaxServers
      /\ servs'[servs_num + 1] = serv
      /\ \A s \in 1..MaxServers : s # servs_num + 1 => servs'[s] = servs[s]
  BY <1>1 DEF ServsInv
<1>3. \A s \in 1..servs_num : s \in 1..MaxServers /\ s # servs_num + 1
  BY <1>1
<1>4. \A s \in 1..servs_num : servs'[s] = servs[s]
  BY <1>2, <1>3
<1>5. \A s \in 1..MaxServers : servs'[s].conf \in Memory
  BY <1>1, <1>2 DEF ServsInv
<1>6. CASE kept
  <2>1. servs_num' = servs_num + 1 /\ 1..(servs_num + 1) = (1..servs_num) \cup {servs_num + 1}
    BY <1>1, <1>6
  <2>2. \A s \in 1..servs_num' : servs'[s].ports_num \in Nat /\ servs'[s].ports_num >= 1
    BY <1>2, <1>4, <1>6, <2>1 DEF ServsInv
  <2>3. ServsInv(Memory)'
    BY <1>1, <1>2, <1>5, <2>1, <2>2 DEF ServsInv
  <2>4. Served' = UNION {AddressesOf(servs'[s]) : s \in (1..servs_num) \cup {servs_num + 1}}
    BY <2>1 DEF Served, AddressesOf
  <2>5. UNION {AddressesOf(servs'[s]) : s \in 1..servs_num} = Served
    BY <1>4 DEF Served
  <2>6. Served' = Served \cup AddressesOf(serv)
    BY <1>2, <2>4, <2>5
  <2> QED
    BY <1>6, <2>3, <2>6
<1>7. CASE ~kept
  <2>1. servs_num' = servs_num
    BY <1>7
  <2>2. ServsInv(Memory)'
    BY <1>1, <1>2, <1>4, <1>5, <2>1 DEF ServsInv
  <2>3. Served' = Served
    BY <1>4, <2>1 DEF Served, AddressesOf
  <2> QED
    BY <1>7, <2>2, <2>3
<1> QED
  BY <1>6, <1>7

-----------------------------------------------------------------------------
(* Reading the arguments *)

LEMMA ReadSoFarGrows ==
    ASSUME optind \in 1..Len(line.args), Len(line.args) \in Nat,
           line' = line, optind' = optind + 1
    PROVE  /\ ReadSoFar' = ReadSoFar \cup line.args[optind].means
           /\ optind' \in 1..(Len(line.args') + 1)
<1>1. optind \in Nat /\ 1..(optind' - 1) = (1..(optind - 1)) \cup {optind}
  OBVIOUS
<1> QED
  BY <1>1 DEF ReadSoFar

\* What either program makes of a valid argument for which there is room.
LEMMA ArgumentIsStored ==
    ASSUME NEW Memory, ArgumentsAreRead(Memory), StartupAssumption,
           line \in ArgLists, NEW k \in DOMAIN line.args,
           ServsInv(Memory), servs_num < MaxServers,
           ~Invalid(line.program, line.args[k].text), ~Strays(line.program, line.args[k].text),
           IF line.program = "sock-echo" THEN ReadEchoArgument(line.args[k].text)
           ELSE ReadProxyArgument(line.args[k].text)
    PROVE  /\ ServsInv(Memory)'
           /\ \A M : Agree(Served, M) => Agree(Served', M \cup line.args[k].means)
<1> DEFINE a == line.args[k].text
           conf == servs[Place].conf
<1>1. conf \in Memory
  BY DEF ServsInv, StartupAssumption, Place
<1>2. PICK r \in Readings(line.program, a, conf) :
          /\ servs' = [servs EXCEPT ![Place] = r.serv]
          /\ servs_num' = IF r.kept THEN servs_num + 1 ELSE servs_num
          /\ r.kept \in BOOLEAN
          /\ r.kept => r.serv.ports_num >= 1
  <2>1. CASE line.program = "sock-echo"
    <3>1. PICK m \in Matches(a) : Store(EchoServ(conf, a, m))
      BY <2>1 DEF ReadEchoArgument
    <3> DEFINE s == EchoServ(conf, a, m)
               r == [serv |-> s, kept |-> s.ports_num >= 1]
    <3>2. s \in {EchoServ(conf, a, x) : x \in Matches(a)}
      OBVIOUS
    <3>3. r \in Readings(line.program, a, conf)
      BY <2>1, <3>2 DEF Readings
    <3>4. s.ports_num \in Nat
      BY <1>1, <3>3 DEF ArgumentsAreRead
    <3> HIDE DEF s
    <3>5. s.ports_num < 1 <=> ~(s.ports_num >= 1)
      BY <3>4
    <3>6. servs' = [servs EXCEPT ![Place] = s]
          /\ servs_num' = IF s.ports_num < 1 THEN servs_num ELSE servs_num + 1
      BY <3>1 DEF Store, s
    <3>7. r.serv = s /\ r.kept = (s.ports_num >= 1)
      OBVIOUS
    <3>8. r.kept \in BOOLEAN
      BY <3>7
    <3>9. servs_num' = IF r.kept THEN servs_num + 1 ELSE servs_num
      BY <3>5, <3>6, <3>7
    <3>10. r.kept => r.serv.ports_num >= 1
      BY <3>7
    <3> HIDE DEF r
    <3> QED
      BY <3>3, <3>6, <3>7, <3>8, <3>9, <3>10
  <2>2. CASE line.program # "sock-echo"
    <3>1. PICK junk \in Junk : \E read \in {io_sock_atos(conf, a, junk)} :
              /\ servs' = [servs EXCEPT ![Place] = [conf |-> read.host, ports_num |-> 1]]
              /\ servs_num' = IF read.ok THEN servs_num + 1 ELSE servs_num
      BY <2>2 DEF ReadProxyArgument
    <3> DEFINE read == io_sock_atos(conf, a, junk)
               r == [serv |-> [conf |-> read.host, ports_num |-> 1], kept |-> read.ok]
    <3>2. r \in Readings(line.program, a, conf)
      BY <2>2 DEF Readings
    <3>3. read.ok \in BOOLEAN
      BY DEF io_sock_atos, Read, Refused, AtosIpv4, AtosIpv6
    <3> HIDE DEF read
    <3>4. /\ r.serv = [conf |-> read.host, ports_num |-> 1]
          /\ r.kept = read.ok
          /\ r.serv.ports_num = 1
      OBVIOUS
    <3>5. /\ servs' = [servs EXCEPT ![Place] = r.serv]
          /\ servs_num' = IF r.kept THEN servs_num + 1 ELSE servs_num
      BY <3>1, <3>4 DEF read
    <3>6. 1 >= 1
      OBVIOUS
    <3>7. r.kept \in BOOLEAN /\ (r.kept => r.serv.ports_num >= 1)
      BY <3>3, <3>4, <3>6, Zenon
    <3> HIDE DEF r
    <3> QED
      BY <3>2, <3>5, <3>7, Zenon
  <2> QED
    BY <2>1, <2>2
<1>3. /\ r.serv.conf \in Memory
      /\ r.serv.ports_num \in Nat
      /\ Agree(IF r.kept THEN AddressesOf(r.serv) ELSE {}, line.args[k].means)
  BY <1>1, <1>2 DEF ArgumentsAreRead
<1>4. ServsInv(Memory)' /\ Served' = Served \cup IF r.kept THEN AddressesOf(r.serv) ELSE {}
  BY <1>2, <1>3, StoredIsServed
<1>5. \A M : Agree(Served, M) => Agree(Served', M \cup line.args[k].means)
  BY <1>3, <1>4, AgreeTogether
<1> QED
  BY <1>4, <1>5

LEMMA ReadingStep ==
    ASSUME NEW Memory, ArgumentsAreRead(Memory), StartupAssumption,
           ListenInv(Memory), ReadArgument
    PROVE  ListenInv(Memory)'
<1>1. /\ pc = "arguments" /\ optind <= Len(line.args)
      /\ line \in ArgLists /\ ServsInv(Memory) /\ Agree(Served, ReadSoFar) /\ Fresh
      /\ optind \in 1..(Len(line.args) + 1)
  BY DEF ReadArgument, ListenInv, Before, After
<1>2. Len(line.args) \in Nat /\ DOMAIN line.args = 1..Len(line.args)
  BY <1>1 DEF StartupAssumption
<1>3. line' = line /\ optind' = optind + 1 /\ Fresh'
  BY <1>1 DEF ReadArgument, argVars, sockVars, Fresh
<1>4. ReadSoFar' = ReadSoFar \cup line.args[optind].means /\ optind' \in 1..(Len(line.args') + 1)
  BY <1>1, <1>2, <1>3, ReadSoFarGrows
<1> DEFINE a == line.args[optind]
           astray == /\ ~Invalid(line.program, a.text)
                     /\ servs_num = MaxServers \/ Strays(line.program, a.text)
<1>5. CASE astray
  BY <1>1, <1>3, <1>5 DEF ReadArgument, ListenInv, Before, After
<1>6. CASE Invalid(line.program, a.text)
  <2>1. UNCHANGED servVars /\ pc' = pc
    BY <1>6 DEF ReadArgument
  <2>2. a.means = {}
    BY <1>1, <1>2, <1>6 DEF ArgumentsAreRead
  <2>3. ServsInv(Memory)' /\ Served' = Served
    BY <1>1, <2>1 DEF servVars, ServsInv, Served, AddressesOf
  <2>4. Agree(Served, ReadSoFar)'
    BY <1>1, <1>4, <2>2, <2>3
  <2> QED
    BY <1>1, <1>3, <1>4, <2>1, <2>3, <2>4 DEF ListenInv, Before, After
<1>7. CASE ~astray /\ ~Invalid(line.program, a.text)
  <2>1. /\ pc' = pc
        /\ IF line.program = "sock-echo" THEN ReadEchoArgument(a.text)
           ELSE ReadProxyArgument(a.text)
    BY <1>7 DEF ReadArgument
  <2>2. servs_num < MaxServers
    BY <1>1, <1>7 DEF ServsInv, StartupAssumption
  <2>3. optind \in DOMAIN line.args
    BY <1>1, <1>2
  <2>4. ServsInv(Memory)' /\ Agree(Served', ReadSoFar \cup a.means)
    BY <1>1, <1>7, <2>1, <2>2, <2>3, ArgumentIsStored
  <2>5. Agree(Served, ReadSoFar)'
    BY <1>4, <2>4
  <2> QED
    BY <1>1, <1>3, <1>4, <2>1, <2>4, <2>5 DEF ListenInv, Before, After
<1> QED
  BY <1>5, <1>6, <1>7

-----------------------------------------------------------------------------
(* Listening *)

\* A port that is done with, whether it is listened at or refused, has been passed.
LEMMA PortIsPassed ==
    ASSUME NEW Memory, ListenInv(Memory), pc = "listen", i <= servs_num,
           NextPort, UNCHANGED <<servs, servs_num>>, StartupAssumption
    PROVE  LoopsInv' /\ Passed' = Passed \cup {Target}
<1>1. /\ i \in Nat \ {0} /\ n \in Nat /\ n < servs[i].ports_num
      /\ servs_num \in Nat /\ i \in 1..servs_num
      /\ \A s \in 1..servs_num : servs[s].ports_num \in Nat /\ servs[s].ports_num >= 1
  BY DEF ListenInv, LoopsInv, ServsInv, After, StartupAssumption
<1>2. servs[i].ports_num \in Nat
  BY <1>1
<1>3. 0..n = (0..(n - 1)) \cup {n}
  BY <1>1
<1>4. {AddressOf(servs[i].conf, k) : k \in 0..n}
        = {AddressOf(servs[i].conf, k) : k \in 0..(n - 1)} \cup {Target}
  BY <1>3 DEF Target
<1>5. CASE n + 1 < servs[i].ports_num
  <2>1. n' = n + 1 /\ i' = i /\ sd' = -1
    BY <1>5 DEF NextPort
  <2>2. n' - 1 = n
    BY <1>1, <2>1
  <2>3. Passed' = (UNION {AddressesOf(servs[s]) : s \in 1..(i - 1)})
                  \cup {AddressOf(servs[i].conf, k) : k \in 0..n}
    BY <2>1, <2>2 DEF Passed, AddressesOf
  <2>4. Passed' = (UNION {AddressesOf(servs[s]) : s \in 1..(i - 1)})
                  \cup ({AddressOf(servs[i].conf, k) : k \in 0..(n - 1)} \cup {Target})
    BY <1>4, <2>3, Zenon
  <2>5. Passed' = Passed \cup {Target}
    BY <2>4, Zenon DEF Passed
  <2>6. LoopsInv'
    BY <1>1, <1>5, <2>1 DEF LoopsInv
  <2> QED
    BY <2>5, <2>6
<1>6. CASE ~(n + 1 < servs[i].ports_num)
  <2>1. n' = 0 /\ i' = i + 1 /\ sd' = -1
    BY <1>6 DEF NextPort
  <2>2. servs[i].ports_num - 1 = n
    BY <1>1, <1>2, <1>6
  <2>3. AddressesOf(servs[i]) = {AddressOf(servs[i].conf, k) : k \in 0..n}
    BY <2>2 DEF AddressesOf
  <2>4. 1..(i' - 1) = (1..(i - 1)) \cup {i} /\ 0..(n' - 1) = {}
    BY <1>1, <2>1
  <2> DEFINE earlier == {AddressesOf(servs[s]) : s \in 1..(i - 1)}
  <2>5. Passed' = UNION (earlier \cup {AddressesOf(servs[i])})
    <3>1. 0..(n' - 1) = {} /\ 1..(i' - 1) = (1..(i - 1)) \cup {i} /\ servs' = servs
      BY <2>4
    <3>2. {AddressOf(servs'[i'].conf, k) : k \in 0..(n' - 1)} = {}
      BY <3>1
    <3>3. {AddressesOf(servs'[s]) : s \in 1..(i' - 1)} = earlier \cup {AddressesOf(servs[i])}
      BY <3>1
    <3>4. Passed' = (UNION {AddressesOf(servs'[s]) : s \in 1..(i' - 1)})
                    \cup {AddressOf(servs'[i'].conf, k) : k \in 0..(n' - 1)}
      BY Zenon DEF Passed, AddressesOf, AddressOf
    <3> QED
      BY <3>2, <3>3, <3>4
  <2>6. Passed' = Passed \cup {Target}
    <3>1. Passed' = (UNION earlier) \cup ({AddressOf(servs[i].conf, k) : k \in 0..(n - 1)} \cup {Target})
      BY <1>4, <2>3, <2>5
    <3> QED
      BY <3>1, Zenon DEF Passed
  <2>7. i' <= servs_num => 0 < servs[i'].ports_num
    <3> SUFFICES ASSUME i' <= servs_num PROVE 0 < servs[i'].ports_num
      OBVIOUS
    <3>1. i' \in 1..servs_num
      BY <1>1, <2>1
    <3>2. servs[i'].ports_num \in Nat /\ servs[i'].ports_num >= 1
      BY <1>1, <3>1
    <3> QED
      BY <3>2
  <2>8. LoopsInv'
    BY <1>1, <2>1, <2>7 DEF LoopsInv
  <2> QED
    BY <2>6, <2>8
<1> QED
  BY <1>5, <1>6

LEMMA ListeningStep ==
    ASSUME NEW Memory, ListenInv(Memory), StartupAssumption,
           io_socket \/ BindFails \/ io_stream_listen_create
    PROVE  ListenInv(Memory)'
<1>1. Frame /\ pc = "listen"
  BY DEF io_socket, BindFails, io_stream_listen_create
<1>2. /\ line' = line /\ pc' = "listen" /\ optind' = optind
      /\ servs' = servs /\ servs_num' = servs_num
  BY <1>1 DEF Frame, argVars, servVars
<1>3. ServsInv(Memory) /\ Agree(Served, Meant) /\ line \in ArgLists /\ LoopsInv /\ Tried = Passed
  BY <1>1 DEF ListenInv, After
<1>4. i <= servs_num
  BY <1>3 DEF io_socket, BindFails, io_stream_listen_create, LoopsInv
<1>5. ServsInv(Memory)' /\ Agree(Served, Meant)'
  BY <1>2, <1>3, ServersStay
<1>6. LoopsInv' /\ Tried' = Passed'
  <2>1. CASE sd' # -1
    <3>1. i' = i /\ n' = n /\ listening' = listening /\ refused' = refused
      BY <2>1 DEF io_socket, BindFails, io_stream_listen_create, Refuse, NextPort
    <3> QED
      BY <1>2, <1>3, <1>4, <3>1, LoopsStay DEF LoopsInv, Tried
  <2>2. CASE Refuse
    <3>1. NextPort /\ Tried' = Tried \cup {Target}
      BY <2>2 DEF Refuse, Tried
    <3> QED
      BY <1>1, <1>2, <1>3, <1>4, <3>1, PortIsPassed
  <2>3. CASE io_stream_listen_create
    <3>1. /\ NextPort
          /\ listening' = listening \cup {[sd |-> sd, at |-> Target]}
          /\ refused' = refused
      BY <2>3 DEF io_stream_listen_create
    <3>2. PICK l : l.at = Target /\ listening' = listening \cup {l}
      BY <3>1
    <3>3. Tried' = Tried \cup {Target}
      BY <3>1, <3>2 DEF Tried
    <3> QED
      BY <1>1, <1>2, <1>3, <1>4, <3>1, <3>3, PortIsPassed
  <2>4. CASE io_socket /\ ~Refuse
    <3>1. PICK d \in Descriptors \ open : sd' = d
      BY <2>4 DEF io_socket
    <3>2. d # -1
      BY <3>1 DEF Descriptors
    <3> QED
      BY <2>1, <3>1, <3>2
  <2> QED
    BY <2>2, <2>3, <2>4 DEF BindFails
<1> QED
  BY <1>2, <1>3, <1>5, <1>6 DEF ListenInv, Before, After

LEMMA ListenStep ==
    ASSUME NEW Memory, ArgumentsAreRead(Memory), StartupAssumption,
           ListenInv(Memory), [Next]_vars
    PROVE  ListenInv(Memory)'
<1>1. CASE Main
  <2>1. /\ pc' = "options" /\ optind' = 1 /\ servs_num' = 0 /\ Fresh' /\ line' = line
    BY <1>1 DEF Main, Process, Fresh, argVars
  <2>2. PICK g \in Garbage : servs' = [s \in 1..MaxServers |-> [conf |-> g, ports_num |-> 0]]
    BY <1>1 DEF Main, Process
  <2>3. ServsInv(Memory)'
    BY <2>1, <2>2 DEF ServsInv, ArgumentsAreRead, StartupAssumption
  <2> QED
    BY <2>1, <2>3 DEF ListenInv, Before, After
<1>2. CASE Options
  <2>1. /\ pc = "options" /\ pc' \in {"arguments", "idle"}
        /\ line' = line /\ optind' = optind /\ servs' = servs /\ servs_num' = servs_num
        /\ UNCHANGED sockVars
    BY <1>2 DEF Options, servVars
  <2>2. ServsInv(Memory) /\ servs_num = 0 /\ optind = 1 /\ Fresh /\ line \in ArgLists
    BY <2>1 DEF ListenInv, Before, After
  <2>3. ServsInv(Memory)' /\ Fresh'
    BY <2>1, <2>2 DEF ServsInv, Fresh, sockVars
  <2>4. Len(line.args) \in Nat
    BY <2>2 DEF StartupAssumption
  <2>5. optind' \in 1..(Len(line.args') + 1)
    BY <2>1, <2>2, <2>4
  <2>6. Served' = {} /\ ReadSoFar' = {}
    BY <2>1, <2>2 DEF Served, ReadSoFar, AddressesOf
  <2>7. Agree(Served, ReadSoFar)'
    BY <2>6, NoneAgree
  <2> QED
    BY <2>1, <2>2, <2>3, <2>5, <2>7 DEF ListenInv, Before, After
<1>3. CASE ReadArgument
  BY <1>3, ReadingStep
<1>4. CASE EndOfArguments
  <2>1. /\ pc = "arguments" /\ optind > Len(line.args) /\ pc' = "daemon"
        /\ line' = line /\ optind' = optind /\ servs' = servs /\ servs_num' = servs_num
        /\ UNCHANGED sockVars
    BY <1>4 DEF EndOfArguments, argVars, servVars
  <2>2. /\ ServsInv(Memory) /\ Fresh /\ line \in ArgLists
        /\ optind \in 1..(Len(line.args) + 1) /\ Agree(Served, ReadSoFar)
    BY <2>1 DEF ListenInv, Before, After
  <2>3. ServsInv(Memory)' /\ Fresh'
    BY <2>1, <2>2 DEF ServsInv, Fresh, sockVars
  <2>4. Len(line.args) \in Nat /\ DOMAIN line.args = 1..Len(line.args)
    BY <2>2 DEF StartupAssumption
  <2>5. 1..(optind - 1) = DOMAIN line.args
    BY <2>1, <2>2, <2>4
  <2>6. ReadSoFar = Meant
    BY <2>5 DEF ReadSoFar, Meant
  <2>7. Agree(Served, Meant)'
    BY <2>1, <2>2, <2>6, ServersStay
  <2> QED
    BY <2>1, <2>2, <2>3, <2>7 DEF ListenInv, Before, After
<1>5. CASE pc' = "done" /\ line' = line
  BY <1>5 DEF ListenInv, Before, After
<1>6. CASE (Daemon /\ ~Exit) \/ create_pid_file \/ io_atexit
  <2>1. /\ pc \in Before \cap After /\ pc' \in After \ {"loop"}
        /\ pc' = "listen" => pc = "atexit"
        /\ line' = line /\ optind' = optind /\ servs' = servs /\ servs_num' = servs_num
        /\ UNCHANGED sockVars
    BY <1>6 DEF Daemon, create_pid_file, io_atexit, argVars, servVars, Before, After
  <2>2. ServsInv(Memory) /\ Fresh /\ line \in ArgLists /\ Agree(Served, Meant)
    BY <2>1 DEF ListenInv
  <2>3. ServsInv(Memory)' /\ Fresh' /\ Agree(Served, Meant)'
    BY <2>1, <2>2, ServersStay DEF Fresh, sockVars
  <2>4. Tried' = {} /\ Passed' = {}
    BY <2>3 DEF Fresh, Tried, Passed
  <2>5. LoopsInv'
    <3>1. servs_num \in Nat
      BY <2>2 DEF ServsInv, StartupAssumption
    <3>2. servs_num >= 1 => 0 < servs[1].ports_num
      <4> SUFFICES ASSUME servs_num >= 1 PROVE 0 < servs[1].ports_num
        OBVIOUS
      <4>1. servs[1].ports_num \in Nat /\ servs[1].ports_num >= 1
        BY <2>2, <3>1 DEF ServsInv
      <4> QED
        BY <4>1
    <3>3. i' = 1 /\ n' = 0 /\ sd' = -1
      BY <2>3 DEF Fresh
    <3> QED
      BY <2>1, <3>1, <3>2, <3>3 DEF LoopsInv
  <2> QED
    BY <2>1, <2>2, <2>3, <2>4, <2>5 DEF ListenInv, Before, After
<1>7. CASE io_socket \/ BindFails \/ io_stream_listen_create
  BY <1>7, ListeningStep
<1>8. CASE StartReturns
  <2>1. /\ pc = "listen" /\ i > servs_num /\ pc' = "loop"
        /\ line' = line /\ optind' = optind /\ servs' = servs /\ servs_num' = servs_num
        /\ UNCHANGED sockVars
    BY <1>8 DEF StartReturns, argVars, servVars
  <2>2. ServsInv(Memory) /\ LoopsInv /\ Tried = Passed /\ line \in ArgLists /\ Agree(Served, Meant)
    BY <2>1 DEF ListenInv, After
  <2>3. /\ ServsInv(Memory)' /\ LoopsInv' /\ Tried' = Passed' /\ Agree(Served, Meant)'
        /\ i' > servs_num'
    BY <2>1, <2>2, ServersStay, LoopsStay DEF Tried, sockVars
  <2> QED
    BY <2>1, <2>2, <2>3 DEF ListenInv, Before, After
<1>9. CASE UNCHANGED vars
  <2>1. /\ line' = line /\ servs' = servs /\ servs_num' = servs_num /\ UNCHANGED sockVars
        /\ pc' = pc /\ optind' = optind
    BY <1>9 DEF vars, argVars, servVars
  <2>2. /\ ServsInv(Memory) => ServsInv(Memory)'
        /\ Served' = Served
        /\ Agree(Served, Meant) => Agree(Served, Meant)'
    BY <2>1, ServersStay
  <2>3. Passed' = Passed /\ (LoopsInv => LoopsInv')
    BY <2>1, LoopsStay DEF sockVars
  <2>4. ReadSoFar' = ReadSoFar /\ Tried' = Tried /\ (Fresh => Fresh')
    BY <2>1 DEF ReadSoFar, Tried, Fresh, sockVars
  <2>5. Agree(Served, ReadSoFar) => Agree(Served, ReadSoFar)'
    BY <2>2, <2>4
  <2> QED
    BY <2>1, <2>2, <2>3, <2>4, <2>5 DEF ListenInv, sockVars
<1>10. Exit \/ Terminated \/ Killed \/ MainReturns => pc' = "done" /\ line' = line
  BY DEF Exit, Terminated, Killed, MainReturns, Gone, argVars
<1>11. CASE PathOverflows
  <2>1. pc' = "undefined" /\ line' = line /\ line \in ArgLists
    BY <1>11 DEF PathOverflows, argVars, ListenInv
  <2> QED
    BY <2>1 DEF ListenInv, Before, After
<1> QED
  BY <1>1, <1>2, <1>3, <1>4, <1>5, <1>6, <1>7, <1>8, <1>9, <1>10, <1>11 DEF Next

\* Where each argument by itself is read as what it means, whatever the memory of the
\* address holds, a program that has started listens at just what the whole command line
\* tells it and the system did not refuse: for any number of arguments that fit, of ports
\* and of failures, in any life.
THEOREM ListensAtWhatIsRead ==
    ASSUME NEW Memory, ArgumentsAreRead(Memory)
    PROVE  Spec => []ListensWhereMeant
<1>1. Init => ListenInv(Memory)
  BY DEF Init, ListenInv, Before, After
<1>2. ListenInv(Memory) /\ [Next]_vars => ListenInv(Memory)'
  BY ListenStep, StartupAssumption
<1>3. ListenInv(Memory) => ListensWhereMeant
  <2> SUFFICES ASSUME ListenInv(Memory), pc = "loop"
               PROVE  Agree(Tried, Meant)
    BY DEF ListensWhereMeant, Tried
  <2>1. i = servs_num + 1 /\ n = 0 /\ Tried = Passed /\ Agree(Served, Meant) /\ servs_num \in Nat
    BY DEF ListenInv, LoopsInv, ServsInv, After, StartupAssumption
  <2>2. i - 1 = servs_num /\ 0..(n - 1) = {}
    BY <2>1
  <2>3. Passed = Served
    BY <2>2 DEF Passed, Served
  <2> QED
    BY <2>1, <2>3
<1> HIDE DEF ListenInv
<1> QED
  BY <1>1, <1>2, <1>3, PTL DEF Spec

-----------------------------------------------------------------------------
(* Numbers in a text *)

\* d stands in text at p.
Stands(text, p, d) ==
    /\ p \in Nat /\ p >= 1 /\ p + Len(d) <= Len(text) + 1
    /\ \A j \in 1..Len(d) : text[p + j - 1] = d[j]

LEMMA BehindIs ==
    ASSUME NEW T, NEW text \in Seq(T), NEW S, NEW p \in Nat, p >= 1,
           NEW e \in p..(Len(text) + 1),
           \A j \in p..(e - 1) : text[j] \in S, At(text, e) \notin S
    PROVE  Behind(text, p, S) = e
<1> DEFINE Is(x) == (\A j \in p..(x - 1) : text[j] \in S) /\ At(text, x) \notin S
<1>1. Is(e)
  OBVIOUS
<1>2. ASSUME NEW x \in p..(Len(text) + 1), NEW y \in p..(Len(text) + 1), x < y, Is(y), Is(x)
      PROVE  FALSE
  <2>1. x \in p..(y - 1) /\ x \in DOMAIN text
    BY <1>2
  <2>2. text[x] \in S
    BY <1>2, <2>1
  <2> QED
    BY <1>2, <2>1, <2>2 DEF At
<1>3. \A x \in p..(Len(text) + 1) : Is(x) => x = e
  <2> SUFFICES ASSUME NEW x \in p..(Len(text) + 1), Is(x), x # e PROVE FALSE
    OBVIOUS
  <2>1. x < e \/ e < x
    OBVIOUS
  <2> HIDE DEF Is
  <2> QED
    BY <1>1, <1>2, <2>1
<1>4. Behind(text, p, S) = CHOOSE x \in p..(Len(text) + 1) : Is(x)
  BY DEF Behind
<1> HIDE DEF Is
<1> QED
  BY <1>1, <1>3, <1>4

\* text begins with a.
Begins(text, a) == Len(a) <= Len(text) /\ \A j \in 1..Len(a) : text[j] = a[j]

LEMMA BeginsItself ==
    ASSUME NEW T, NEW text \in Seq(T)
    PROVE  Begins(text, text)
BY DEF Begins

LEMMA StandsFirst ==
    ASSUME NEW T, NEW text \in Seq(T), NEW a \in Seq(T), Begins(text, a)
    PROVE  Stands(text, 1, a)
<1>1. Len(text) \in Nat /\ Len(a) \in Nat /\ \A j \in 1..Len(a) : 1 + j - 1 = j
  OBVIOUS
<1> QED
  BY <1>1 DEF Begins, Stands

LEMMA BeginsWithBoth ==
    ASSUME NEW T, NEW text \in Seq(T), NEW a \in Seq(T), NEW d \in Seq(T), Begins(text, a \o d)
    PROVE  Begins(text, a) /\ Stands(text, Len(a) + 1, d) /\ Len(a \o d) = Len(a) + Len(d)
<1>1. Len(a \o d) = Len(a) + Len(d) /\ Len(a) \in Nat /\ Len(d) \in Nat /\ Len(text) \in Nat
  OBVIOUS
<1>2. ASSUME NEW j \in 1..Len(d) PROVE text[Len(a) + 1 + j - 1] = d[j]
  <2>1. Len(a) + 1 + j - 1 = Len(a) + j /\ Len(a) + j \in 1..Len(a \o d)
    BY <1>1
  <2>2. text[Len(a) + j] = (a \o d)[Len(a) + j]
    BY <2>1 DEF Begins
  <2>3. (a \o d)[Len(a) + j] = d[j]
    BY <1>1
  <2> QED
    BY <2>1, <2>2, <2>3
<1>3. ASSUME NEW j \in 1..Len(a) PROVE text[j] = a[j]
  <2>1. j \in 1..Len(a \o d) /\ (a \o d)[j] = a[j]
    BY <1>1
  <2> QED
    BY <2>1 DEF Begins
<1> QED
  BY <1>1, <1>2, <1>3 DEF Begins, Stands

LEMMA StandsBehind ==
    ASSUME NEW T, NEW a \in Seq(T), NEW b \in Seq(T), NEW p, NEW d, Len(d) \in Nat, Stands(b, p, d)
    PROVE  Stands(a \o b, Len(a) + p, d)
<1>1. Len(a \o b) = Len(a) + Len(b) /\ Len(a) \in Nat /\ Len(b) \in Nat /\ p \in Nat /\ p >= 1
      /\ p + Len(d) <= Len(b) + 1
  BY DEF Stands
<1>2. ASSUME NEW j \in 1..Len(d) PROVE (a \o b)[Len(a) + p + j - 1] = d[j]
  <2>1. p + j - 1 \in 1..Len(b) /\ Len(a) + p + j - 1 = Len(a) + (p + j - 1)
    BY <1>1
  <2>2. (a \o b)[Len(a) + (p + j - 1)] = b[p + j - 1]
    BY <1>1, <2>1
  <2> QED
    BY <2>1, <2>2 DEF Stands
<1> QED
  BY <1>1, <1>2 DEF Stands

LEMMA AtStands ==
    ASSUME NEW T, NEW text \in Seq(T), NEW p, NEW c, Stands(text, p, <<c>>)
    PROVE  At(text, p) = c /\ p \in DOMAIN text /\ text[p] = c
<1>1. p \in Nat /\ p >= 1 /\ p + 1 <= Len(text) + 1 /\ text[p + 1 - 1] = c
  BY DEF Stands
<1>2. p \in DOMAIN text /\ text[p] = c
  BY <1>1
<1> QED
  BY <1>2 DEF At

LEMMA ConcatBegins ==
    ASSUME NEW T, NEW a \in Seq(T), NEW d \in Seq(T)
    PROVE  /\ a \o d \in Seq(T) /\ Len(a \o d) = Len(a) + Len(d)
           /\ Begins(a \o d, a) /\ Stands(a \o d, Len(a) + 1, d)
<1> DEFINE text == a \o d
<1>1. text \in Seq(T) /\ Len(text) = Len(a) + Len(d)
  OBVIOUS
<1>2. Begins(text, a \o d)
  BY <1>1, BeginsItself
<1> HIDE DEF text
<1>3. Begins(text, a) /\ Stands(text, Len(a) + 1, d)
  BY <1>1, <1>2, BeginsWithBoth
<1> QED
  BY <1>1, <1>3 DEF text

LEMMA BeginsWithByte ==
    ASSUME NEW T, NEW text \in Seq(T), NEW a \in Seq(T), NEW c \in T, Begins(text, a \o <<c>>)
    PROVE  Begins(text, a) /\ At(text, Len(a) + 1) = c /\ Len(a \o <<c>>) = Len(a) + 1
<1> DEFINE d == <<c>>
<1>1. d \in Seq(T) /\ Len(d) = 1
  OBVIOUS
<1>2. Begins(text, a) /\ Stands(text, Len(a) + 1, d) /\ Len(a \o d) = Len(a) + Len(d)
  <2> HIDE DEF d
  <2>1. Begins(text, a \o d)
    BY DEF d
  <2> QED
    BY <1>1, <2>1, BeginsWithBoth
<1>3. At(text, Len(a) + 1) = c
  BY <1>2, AtStands
<1> QED
  BY <1>1, <1>2, <1>3

LEMMA AtBehind ==
    ASSUME NEW T, NEW a \in Seq(T), NEW b \in Seq(T)
    PROVE  At(a \o b, Len(a) + 1) = At(b, 1)
<1>1. Len(a \o b) = Len(a) + Len(b) /\ Len(a) \in Nat /\ Len(b) \in Nat
      /\ DOMAIN (a \o b) = 1..Len(a \o b) /\ DOMAIN b = 1..Len(b)
  OBVIOUS
<1>2. CASE Len(b) = 0
  BY <1>1, <1>2 DEF At
<1>3. CASE Len(b) # 0
  <2>1. (a \o b)[Len(a) + 1] = b[1]
    BY <1>1, <1>3
  <2> QED
    BY <1>1, <1>3, <2>1 DEF At
<1> QED
  BY <1>2, <1>3

LEMMA SubSeqStands ==
    ASSUME NEW T, NEW text \in Seq(T), NEW d \in Seq(T), NEW p, Stands(text, p, d)
    PROVE  SubSeq(text, p, p + Len(d) - 1) = d
<1> DEFINE s == SubSeq(text, p, p + Len(d) - 1)
<1>1. p \in Nat /\ p >= 1 /\ Len(d) \in Nat /\ Len(text) \in Nat /\ p + Len(d) - 1 <= Len(text)
  BY DEF Stands
<1>2. s \in Seq(T) /\ Len(s) = Len(d) /\ \A j \in 1..Len(d) : s[j] = text[p + j - 1]
  BY <1>1
<1> HIDE DEF s
<1>3. \A j \in 1..Len(s) : s[j] = d[j]
  BY <1>2 DEF Stands
<1>4. s = d
  BY <1>2, <1>3, SeqEqual, Zenon
<1> QED
  BY <1>4 DEF s

LEMMA DigitsEnd ==
    ASSUME NEW text \in Seq(Nat), NEW d \in Seq(Digits), NEW p, Stands(text, p, d),
           At(text, p + Len(d)) \notin Digits
    PROVE  Behind(text, p, Digits) = p + Len(d)
<1>1. p \in Nat /\ p >= 1 /\ Len(d) \in Nat /\ p + Len(d) <= Len(text) + 1
  BY DEF Stands
<1>2. ASSUME NEW j \in p..(p + Len(d) - 1) PROVE text[j] \in Digits
  <2>1. j - p + 1 \in 1..Len(d) /\ p + (j - p + 1) - 1 = j
    BY <1>1
  <2>2. text[j] = d[j - p + 1]
    BY <2>1 DEF Stands
  <2>3. d[j - p + 1] \in Digits
    BY <2>1
  <2> QED
    BY <2>2, <2>3
<1>3. p + Len(d) \in p..(Len(text) + 1)
  BY <1>1
<1> HIDE DEF Digits
<1> QED
  BY <1>1, <1>2, <1>3, BehindIs

LEMMA NoSign ==
    ASSUME NEW text \in Seq(Nat), NEW p \in Nat, p >= 1, At(text, p) \in Digits
    PROVE  FirstDigit(text, p) = p /\ ~IsNegative(text, p)
<1>1. p \in DOMAIN text
  BY DEF At, Digits
<1>2. At(text, p) \notin Spaces /\ At(text, p) \notin {Plus, Minus} /\ At(text, p) # Minus
  <2>1. \A c \in Digits : c \notin Spaces /\ c \notin {Plus, Minus} /\ c # Minus
    BY DEF Digits, Spaces, Plus, Minus
  <2> QED
    BY <2>1
<1>3. Behind(text, p, Spaces) = p
  <2>1. p \in p..(Len(text) + 1) /\ p..(p - 1) = {}
    BY <1>1
  <2> HIDE DEF Spaces
  <2> QED
    BY <1>2, <2>1, BehindIs
<1> QED
  BY <1>2, <1>3 DEF FirstDigit, BehindSign, IsNegative

LEMMA ReadsNumber ==
    ASSUME NEW text \in Seq(Nat), NEW d \in Seq(Digits), Len(d) >= 1, NEW p, Stands(text, p, d),
           At(text, p + Len(d)) \notin Digits
    PROVE  /\ strtoul(text, p) = [next |-> p + Len(d), n |-> Value(d, NoByte)]
           /\ atoi(text, p) = Value(d, AtoiLimit)
<1>1. p \in Nat /\ p >= 1 /\ Len(d) \in Nat /\ p + Len(d) <= Len(text) + 1
  BY DEF Stands
<1>2. At(text, p) \in Digits
  <2>1. 1 \in 1..Len(d) /\ p + 1 - 1 = p /\ p \in DOMAIN text
    BY <1>1
  <2>2. text[p] = d[1] /\ d[1] \in Digits
    BY <2>1 DEF Stands
  <2> QED
    BY <2>1, <2>2 DEF At
<1>3. FirstDigit(text, p) = p /\ ~IsNegative(text, p)
  BY <1>1, <1>2, NoSign
<1>4. Behind(text, p, Digits) = p + Len(d)
  BY DigitsEnd
<1>5. SubSeq(text, p, p + Len(d) - 1) = d
  <2>1. d \in Seq(Nat)
    BY DEF Digits
  <2> QED
    BY <2>1, SubSeqStands
<1> DEFINE f == FirstDigit(text, p)
           e == Behind(text, f, Digits)
           run == SubSeq(text, f, e - 1)
           v == Value(run, NoByte)
           w == Value(run, AtoiLimit)
<1>6. strtoul(text, p) = [next |-> IF e = f THEN p ELSE e,
                          n |-> IF IsNegative(text, p) /\ v # 0 THEN NoByte ELSE v]
  BY DEF strtoul
<1>7. atoi(text, p) = IF IsNegative(text, p) THEN -w ELSE w
  BY DEF atoi
<1>8. f = p
  BY <1>3
<1> HIDE DEF f
<1>9. e = p + Len(d)
  BY <1>4, <1>8
<1> HIDE DEF e
<1>10. run = d
  <2> DEFINE l == e - 1
             m == p + Len(d) - 1
  <2>1. l = m
    BY <1>1, <1>9
  <2>2. run = SubSeq(text, f, l) /\ SubSeq(text, p, m) = d
    BY <1>5
  <2> HIDE DEF l, m, run
  <2> QED
    BY <1>8, <2>1, <2>2, Zenon
<1> HIDE DEF run
<1>11. v = Value(d, NoByte) /\ w = Value(d, AtoiLimit)
  BY <1>10
<1> HIDE DEF v, w
<1>12. e # f
  BY <1>1, <1>8, <1>9
<1> QED
  BY <1>3, <1>6, <1>7, <1>9, <1>11, <1>12

\* The equation of the function by which Value is computed.
IsUpto(u, digits, limit) ==
    \A k \in 0..Len(digits) :
        u[k] = IF k = 0 THEN 0 ELSE AtMost(10 * u[k - 1] + digits[k] - 48, limit)

\* v[k] is the number of the first k digits, for all k.
Adds(v, digits, limit) ==
    /\ v[0] = 0
    /\ \A k \in 1..Len(digits) :
           v[k] = 10 * v[k - 1] + (digits[k] - 48) /\ v[k] <= limit /\ v[k] \in Nat

LEMMA UptoUnique ==
    ASSUME NEW digits \in Seq(Digits), NEW limit \in Nat,
           NEW u, IsUpto(u, digits, limit),
           NEW v, Adds(v, digits, limit)
    PROVE  u[Len(digits)] = v[Len(digits)]
<1> DEFINE S == {k \in Nat : k <= Len(digits) => u[k] = v[k]}
<1>1. Len(digits) \in Nat
  OBVIOUS
<1>2. 0 \in S
  BY <1>1 DEF IsUpto, Adds
<1>3. \A k \in Nat : k \in S => k + 1 \in S
  <2> SUFFICES ASSUME NEW k \in Nat, k \in S, k + 1 <= Len(digits) PROVE u[k + 1] = v[k + 1]
    OBVIOUS
  <2>1. u[k] = v[k] /\ k + 1 \in 1..Len(digits) /\ k + 1 \in 0..Len(digits) /\ (k + 1) - 1 = k /\ k + 1 # 0
    BY <1>1
  <2>2. digits[k + 1] \in Nat
    <3>1. digits[k + 1] \in Digits
      BY <2>1
    <3> QED
      BY <3>1 DEF Digits
  <2>3. v[k] \in Nat
    <3>1. CASE k = 0
      BY <3>1 DEF Adds
    <3>2. CASE k # 0
      <4>1. k \in 1..Len(digits)
        BY <2>1, <3>2
      <4> QED
        BY <4>1 DEF Adds
    <3> QED
      BY <3>1, <3>2
  <2>4. u[k + 1] = AtMost(10 * u[k] + digits[k + 1] - 48, limit)
    BY <2>1 DEF IsUpto
  <2>5. v[k + 1] = 10 * v[k] + (digits[k + 1] - 48) /\ v[k + 1] <= limit
    BY <2>1 DEF Adds
  <2>6. 10 * u[k] + digits[k + 1] - 48 = v[k + 1]
    BY <2>1, <2>2, <2>3, <2>5
  <2>7. u[k + 1] = AtMost(v[k + 1], limit)
    BY <2>4, <2>6
  <2>8. v[k + 1] \in Nat
    BY <2>1 DEF Adds
  <2> QED
    BY <2>5, <2>7, <2>8 DEF AtMost
<1> HIDE DEF S
<1>4. Nat \subseteq S
  BY <1>2, <1>3, SetInduction
<1> QED
  BY <1>1, <1>4 DEF S

LEMMA UptoExists ==
    ASSUME NEW digits, NEW limit, NEW l \in Nat
    PROVE  \E u : u = [k \in 0..l |->
                         IF k = 0 THEN 0 ELSE AtMost(10 * u[k - 1] + digits[k] - 48, limit)]
<1> DEFINE Next1(u, k) == AtMost(10 * u[k - 1] + digits[k] - 48, limit)
           Is(u, m) == u = [k \in 0..m |-> IF k = 0 THEN 0 ELSE Next1(u, k)]
           S == {m \in Nat : \E u : Is(u, m)}
<1>1. 0 \in S
  <2> DEFINE u == [k \in 0..0 |-> 0]
  <2>1. Is(u, 0)
    OBVIOUS
  <2> HIDE DEF u, Is
  <2> QED
    BY <2>1
<1>2. ASSUME NEW m \in Nat, m \in S
      PROVE  m + 1 \in S
  <2>1. PICK u : Is(u, m)
    BY <1>2
  <2> DEFINE g == [k \in 0..(m + 1) |-> IF k = m + 1 THEN Next1(u, k) ELSE u[k]]
  <2>2. ASSUME NEW k \in 0..(m + 1)
        PROVE  g[k] = IF k = 0 THEN 0 ELSE Next1(g, k)
    <3>1. k # 0 => k - 1 \in 0..m /\ g[k - 1] = u[k - 1]
      OBVIOUS
    <3>2. k # 0 => Next1(g, k) = Next1(u, k)
      BY <3>1
    <3>3. k # m + 1 => k \in 0..m
      OBVIOUS
    <3> HIDE DEF Next1
    <3>4. k # m + 1 => u[k] = IF k = 0 THEN 0 ELSE Next1(u, k)
      BY <2>1, <3>3
    <3>5. g[k] = IF k = m + 1 THEN Next1(u, k) ELSE u[k]
      OBVIOUS
    <3>6. k = 0 => k # m + 1
      OBVIOUS
    <3> HIDE DEF g
    <3> QED
      BY <3>2, <3>4, <3>5, <3>6
  <2>3. g = [k \in 0..(m + 1) |-> g[k]]
    OBVIOUS
  <2> HIDE DEF g, Next1
  <2>4. Is(g, m + 1)
    BY <2>2, <2>3
  <2>5. \E h : Is(h, m + 1)
    <3> HIDE DEF Is
    <3> QED
      BY <2>4
  <2> HIDE DEF Is
  <2> QED
    BY <2>5
<1> HIDE DEF S
<1>3. Nat \subseteq S
  BY <1>1, <1>2, SetInduction
<1> QED
  BY <1>3 DEF S

LEMMA ValueIs ==
    ASSUME NEW digits \in Seq(Digits), NEW limit \in Nat,
           NEW v, Adds(v, digits, limit)
    PROVE  Value(digits, limit) = v[Len(digits)]
<1> DEFINE u == CHOOSE u : u = [k \in 0..Len(digits) |->
                         IF k = 0 THEN 0 ELSE AtMost(10 * u[k - 1] + digits[k] - 48, limit)]
<1>1. Value(digits, limit) = u[Len(digits)]
  BY DEF Value
<1>2. u = [k \in 0..Len(digits) |->
                         IF k = 0 THEN 0 ELSE AtMost(10 * u[k - 1] + digits[k] - 48, limit)]
  <2>1. Len(digits) \in Nat
    OBVIOUS
  <2> QED
    BY <2>1, UptoExists
<1> HIDE DEF u
<1>3. IsUpto(u, digits, limit)
  BY <1>2 DEF IsUpto
<1>4. u[Len(digits)] = v[Len(digits)]
  BY <1>3, UptoUnique, Zenon
<1> QED
  BY <1>1, <1>4

-----------------------------------------------------------------------------
(* Printed numbers *)

LEMMA DecimalIs ==
    ASSUME NEW m \in Nat, m < 10 * Tens[5]
    PROVE  \E w \in 1..5 : /\ m < 10 * Tens[w] /\ (w = 1 \/ m >= Tens[w])
                           /\ Decimal(m) = [j \in 1..w |-> 48 + (Shifted(m, w - j) % 10)]
<1> DEFINE Is(w) == m < 10 * Tens[w] /\ (w = 1 \/ m >= Tens[w])
           w == CHOOSE x \in 1..5 : Is(x)
<1>1. \E x \in 1..5 : Is(x)
  BY DEF Tens
<1>2. Decimal(m) = [j \in 1..w |-> 48 + (Shifted(m, w - j) % 10)]
  BY DEF Decimal
<1> HIDE DEF Is
<1>3. w \in 1..5 /\ Is(w)
  BY <1>1
<1> HIDE DEF w
<1> QED
  BY <1>2, <1>3 DEF Is

LEMMA ShiftedIs ==
    ASSUME NEW m \in Nat, NEW k \in 0..4
    PROVE  /\ Shifted(m, k) \in Nat /\ Shifted(m, k) <= m
           /\ Shifted(m, 0) = m
           /\ m < 10 * Tens[k + 1] => Shifted(m, k) < 10
           /\ k < 4 => Shifted(m, k) = 10 * Shifted(m, k + 1) + (Shifted(m, k) % 10)
<1>1. k = 0 \/ k = 1 \/ k = 2 \/ k = 3 \/ k = 4
  OBVIOUS
<1> QED
  BY <1>1 DEF Shifted, Tens

LEMMA DecimalReads ==
    ASSUME NEW m \in Nat, m < 10 * Tens[5]
    PROVE  /\ Decimal(m) \in Seq(Digits) /\ Len(Decimal(m)) \in 1..5
           /\ \A limit \in Nat : m <= limit => Value(Decimal(m), limit) = m
<1> DEFINE d == Decimal(m)
<1>1. PICK w \in 1..5 : /\ m < 10 * Tens[w]
                        /\ d = [j \in 1..w |-> 48 + (Shifted(m, w - j) % 10)]
  BY DecimalIs
<1>2. ASSUME NEW j \in 1..w
      PROVE  /\ Shifted(m, w - j) \in Nat /\ Shifted(m, w - j) <= m
             /\ d[j] = 48 + (Shifted(m, w - j) % 10) /\ d[j] \in Digits
  <2>1. w - j \in 0..4
    OBVIOUS
  <2>2. Shifted(m, w - j) \in Nat /\ Shifted(m, w - j) <= m
    BY <2>1, ShiftedIs
  <2>3. d[j] = 48 + (Shifted(m, w - j) % 10)
    BY <1>1
  <2> QED
    BY <2>2, <2>3 DEF Digits
<1>3. d \in Seq(Digits) /\ Len(d) = w
  BY <1>1, <1>2
<1> DEFINE v == [k \in 0..w |-> IF k = 0 THEN 0 ELSE Shifted(m, w - k)]
<1>4. ASSUME NEW k \in 1..w
      PROVE  v[k] = 10 * v[k - 1] + (d[k] - 48) /\ v[k] <= m /\ v[k] \in Nat
  <2>1. v[k] = Shifted(m, w - k) /\ v[k] <= m /\ v[k] \in Nat /\ d[k] - 48 = v[k] % 10
    BY <1>2
  <2>2. CASE k = 1
    <3>1. w - k \in 0..4 /\ (w - k) + 1 = w
      BY <2>2
    <3>2. v[k] < 10
      BY <1>1, <2>1, <3>1, ShiftedIs
    <3>3. v[k - 1] = 0
      BY <2>2
    <3> HIDE DEF v
    <3> QED
      BY <2>1, <3>2, <3>3
  <2>3. CASE k # 1
    <3>1. w - k \in 0..4 /\ w - k < 4 /\ (w - k) + 1 = w - (k - 1) /\ k - 1 \in 1..w
      BY <2>3
    <3>2. v[k - 1] = Shifted(m, (w - k) + 1)
      BY <3>1
    <3> DEFINE y == w - k
    <3>3. y \in 0..4 /\ y < 4
      BY <3>1
    <3> HIDE DEF y
    <3>4. Shifted(m, y) = 10 * Shifted(m, y + 1) + (Shifted(m, y) % 10)
      BY <3>3, ShiftedIs
    <3>5. v[k] = 10 * v[k - 1] + (v[k] % 10)
      BY <2>1, <3>2, <3>4 DEF y
    <3> HIDE DEF v
    <3> QED
      BY <2>1, <3>5
  <2> QED
    BY <2>2, <2>3
<1>5. v[0] = 0 /\ v[w] = m
  <2>1. w # 0 /\ w - w = 0 /\ w \in 0..w /\ 0 \in 0..w
    OBVIOUS
  <2>2. v[w] = Shifted(m, 0) /\ v[0] = 0
    BY <2>1
  <2>3. Shifted(m, 0) = m
    BY ShiftedIs
  <2> QED
    BY <2>2, <2>3
<1> HIDE DEF v
<1>6. ASSUME NEW limit \in Nat, m <= limit
      PROVE  Value(d, limit) = m
  <2>1. Adds(v, d, limit)
    BY <1>3, <1>4, <1>5, <1>6 DEF Adds
  <2> HIDE DEF d
  <2>2. Value(d, limit) = v[Len(d)]
    BY <1>3, <2>1, ValueIs, Zenon
  <2> QED
    BY <1>3, <1>5, <2>2
<1> QED
  BY <1>3, <1>6, AppendProperties

\* The two ways of the code to print a number agree on bytes.
LEMMA BputIsDecimal ==
    ASSUME NEW b \in Byte
    PROVE  bput(b) = Decimal(b)
<1> DEFINE p == bput(b)
           d == Decimal(b)
<1>1. b \in Nat /\ b <= 255
  BY DEF Byte
<1>2. PICK w \in 1..5 : /\ b < 10 * Tens[w] /\ (w = 1 \/ b >= Tens[w])
                        /\ d = [j \in 1..w |-> 48 + (Shifted(b, w - j) % 10)]
  BY <1>1, DecimalIs DEF Tens
<1>3. w = 1 \/ w = 2 \/ w = 3
  BY <1>1, <1>2 DEF Tens
<1>4. CASE w = 1
  <2>1. b < 10
    BY <1>2, <1>4 DEF Tens
  <2>2. p = <<48 + b>>
    BY <1>1, <2>1 DEF bput
  <2>3. d[1] = 48 + b /\ DOMAIN d = 1..1
    BY <1>1, <1>2, <1>4, <2>1 DEF Shifted, Tens
  <2> QED
    BY <1>2, <1>4, <2>2, <2>3
<1>5. CASE w = 2
  <2>1. b >= 10 /\ b < 100
    BY <1>2, <1>5 DEF Tens
  <2>2. p = <<48 + (b \div 10), 48 + (b % 10)>>
    BY <1>1, <2>1 DEF bput
  <2>3. d[1] = 48 + (b \div 10) /\ d[2] = 48 + (b % 10)
    BY <1>1, <1>2, <1>5, <2>1 DEF Shifted, Tens
  <2> QED
    BY <1>2, <1>5, <2>2, <2>3
<1>6. CASE w = 3
  <2>1. b >= 100
    BY <1>2, <1>6 DEF Tens
  <2>2. p = <<48 + (b \div 100), 48 + ((b % 100) \div 10), 48 + (b % 10)>>
    BY <1>1, <2>1 DEF bput
  <2>3. d[1] = 48 + (b \div 100) /\ d[2] = 48 + ((b % 100) \div 10) /\ d[3] = 48 + (b % 10)
    BY <1>1, <1>2, <1>6, <2>1 DEF Shifted, Tens
  <2> QED
    BY <1>2, <1>6, <2>2, <2>3
<1> QED
  BY <1>3, <1>4, <1>5, <1>6

-----------------------------------------------------------------------------
(* IPv4 addresses *)

LEMMA BputReads ==
    ASSUME NEW b \in Byte
    PROVE  /\ bput(b) \in Seq(Digits) /\ bput(b) \in Seq(Nat) /\ Len(bput(b)) >= 1
           /\ Value(bput(b), NoByte) = b
<1>1. b \in Nat /\ b < 10 * Tens[5] /\ b <= NoByte /\ NoByte \in Nat
  BY DEF Byte, Tens, NoByte
<1>2. bput(b) \in Seq(Digits) /\ Len(bput(b)) \in 1..5 /\ Value(bput(b), NoByte) = b
  BY <1>1, BputIsDecimal, DecimalReads
<1> DEFINE d == bput(b)
<1>3. d \in Seq(Nat) /\ Len(d) >= 1
  <2> HIDE DEF d
  <2>1. d \in Seq(Digits) /\ Len(d) \in 1..5
    BY <1>2 DEF d
  <2> QED
    BY <2>1 DEF Digits
<1> QED
  BY <1>2, <1>3

LEMMA OctetReads ==
    ASSUME NEW text \in Seq(Nat), NEW nums, NEW p, NEW b \in Byte,
           Stands(text, p, bput(b)), At(text, p + Len(bput(b))) \notin Digits
    PROVE  LET e == p + Len(bput(b))
               dot == At(text, e) = Dot
           IN Octet(text, [nums |-> nums, next |-> p, more |-> TRUE])
                  = [nums |-> Append(nums, b), next |-> IF dot THEN e + 1 ELSE e, more |-> dot]
<1> DEFINE e == p + Len(bput(b))
           r == [nums |-> nums, next |-> p, more |-> TRUE]
           u == strtoul(text, r.next)
           dot == At(text, u.next) = Dot
<1>1. u = [next |-> e, n |-> b]
  BY BputReads, ReadsNumber
<1>2. u.next = e /\ u.n = b
  BY <1>1
<1>3. e # p /\ ~(b >= NoByte)
  <2>1. Len(bput(b)) \in Nat /\ Len(bput(b)) >= 1
    BY BputReads
  <2>2. p \in Nat
    BY DEF Stands
  <2>3. ~(b >= NoByte)
    BY DEF Byte, NoByte
  <2> QED
    BY <2>1, <2>2, <2>3
<1>4. r.next = p /\ r.nums = nums /\ r.more
  OBVIOUS
<1>5. Octet(text, r) =
          IF ~r.more THEN r
          ELSE IF u.next = r.next \/ u.n >= NoByte
               THEN [nums |-> <<>>, next |-> r.next, more |-> FALSE]
          ELSE [nums |-> Append(r.nums, u.n), next |-> IF dot THEN u.next + 1 ELSE u.next,
                more |-> dot]
  BY DEF Octet
<1> HIDE DEF u, e, r
<1>6. Octet(text, r) = [nums |-> Append(nums, b), next |-> IF dot THEN e + 1 ELSE e, more |-> dot]
  BY <1>2, <1>3, <1>4, <1>5
<1>7. dot <=> At(text, e) = Dot
  BY <1>2
<1> QED
  BY <1>6, <1>7 DEF r, e

\* What is read when b was, and a dot behind it.
GoesOn(read, nums, b, next) ==
    read = [nums |-> Append(nums, b), next |-> next, more |-> TRUE]

LEMMA OctetGoesOn ==
    ASSUME NEW text \in Seq(Nat), NEW nums, NEW p, NEW b \in Byte,
           NEW read, read = [nums |-> nums, next |-> p, more |-> TRUE],
           Stands(text, p, bput(b)), At(text, p + Len(bput(b))) = Dot,
           NEW next, next = p + Len(bput(b)) + 1
    PROVE  GoesOn(Octet(text, read), nums, b, next)
<1>1. Dot \notin Digits
  BY DEF Dot, Digits
<1> DEFINE dot == At(text, p + Len(bput(b))) = Dot
           e == p + Len(bput(b))
           o == Octet(text, [nums |-> nums, next |-> p, more |-> TRUE])
<1>2. At(text, e) \notin Digits
  BY <1>1
<1>3. o = [nums |-> Append(nums, b), next |-> IF dot THEN e + 1 ELSE e, more |-> dot]
  BY <1>2, OctetReads
<1>4. dot = TRUE
  OBVIOUS
<1> HIDE DEF dot, o, e
<1>5. o = [nums |-> Append(nums, b), next |-> e + 1, more |-> TRUE]
  BY <1>3, <1>4
<1>6. o = Octet(text, read)
  BY DEF o
<1>7. next = e + 1
  BY DEF e
<1> QED
  BY <1>5, <1>6, <1>7 DEF GoesOn

LEMMA OctetEnds ==
    ASSUME NEW text \in Seq(Nat), NEW nums, NEW p, NEW b \in Byte,
           NEW read, read = [nums |-> nums, next |-> p, more |-> TRUE],
           Stands(text, p, bput(b)), At(text, p + Len(bput(b))) \notin Digits
    PROVE  Octet(text, read).nums = Append(nums, b)
<1> DEFINE dot == At(text, p + Len(bput(b))) = Dot
           e == p + Len(bput(b))
           o == Octet(text, [nums |-> nums, next |-> p, more |-> TRUE])
<1>1. o = [nums |-> Append(nums, b), next |-> IF dot THEN e + 1 ELSE e, more |-> dot]
  BY OctetReads
<1> HIDE DEF dot, o, e
<1>2. o.nums = Append(nums, b)
  BY <1>1
<1> QED
  BY <1>2 DEF o

\* The equation of the function by which Octets are read.
AreRead(u, text, start, l) ==
    u = [k \in 0..l |-> IF k = 0 THEN [nums |-> <<>>, next |-> start, more |-> TRUE]
                       ELSE Octet(text, u[k - 1])]

LEMMA ReadExists ==
    ASSUME NEW text, NEW start, NEW l \in Nat
    PROVE  \E u : AreRead(u, text, start, l)
<1> DEFINE first == [nums |-> <<>>, next |-> start, more |-> TRUE]
           Is(u, m) == u = [k \in 0..m |-> IF k = 0 THEN first ELSE Octet(text, u[k - 1])]
           S == {m \in Nat : \E u : Is(u, m)}
<1> HIDE DEF first
<1>1. 0 \in S
  <2> DEFINE u == [k \in 0..0 |-> first]
  <2>1. Is(u, 0)
    OBVIOUS
  <2> HIDE DEF u, Is
  <2> QED
    BY <2>1
<1>2. ASSUME NEW m \in Nat, m \in S
      PROVE  m + 1 \in S
  <2>1. PICK u : Is(u, m)
    BY <1>2
  <2> DEFINE g == [k \in 0..(m + 1) |-> IF k = m + 1 THEN Octet(text, u[k - 1]) ELSE u[k]]
  <2>2. ASSUME NEW k \in 0..(m + 1)
        PROVE  g[k] = IF k = 0 THEN first ELSE Octet(text, g[k - 1])
    <3>1. k # 0 => k - 1 \in 0..m /\ g[k - 1] = u[k - 1]
      OBVIOUS
    <3>2. k # m + 1 => k \in 0..m
      OBVIOUS
    <3>3. k # m + 1 => u[k] = IF k = 0 THEN first ELSE Octet(text, u[k - 1])
      BY <2>1, <3>2
    <3>4. g[k] = IF k = m + 1 THEN Octet(text, u[k - 1]) ELSE u[k]
      OBVIOUS
    <3>5. k = 0 => k # m + 1
      OBVIOUS
    <3> HIDE DEF g
    <3> QED
      BY <3>1, <3>3, <3>4, <3>5
  <2>3. g = [k \in 0..(m + 1) |-> g[k]]
    OBVIOUS
  <2> HIDE DEF g
  <2>4. Is(g, m + 1)
    BY <2>2, <2>3
  <2>5. \E h : Is(h, m + 1)
    <3> HIDE DEF Is
    <3> QED
      BY <2>4
  <2> HIDE DEF Is
  <2> QED
    BY <2>5
<1> HIDE DEF S
<1>3. Nat \subseteq S
  BY <1>1, <1>2, SetInduction
<1> QED
  BY <1>3 DEF S, first, AreRead

LEMMA OctetsAre ==
    ASSUME NEW text, NEW start
    PROVE  \E u : /\ u[0] = [nums |-> <<>>, next |-> start, more |-> TRUE]
                  /\ u[1] = Octet(text, u[0]) /\ u[2] = Octet(text, u[1])
                  /\ u[3] = Octet(text, u[2]) /\ u[4] = Octet(text, u[3])
                  /\ Octets(text, start, 4) = u[4].nums
<1> DEFINE l == 4
           first == [nums |-> <<>>, next |-> start, more |-> TRUE]
           u == CHOOSE x : AreRead(x, text, start, l)
<1>1. Octets(text, start, 4) = u[4].nums
  BY DEF Octets, AreRead
<1>2. l \in Nat
  OBVIOUS
<1> HIDE DEF l
<1>3. u = [k \in 0..l |-> IF k = 0 THEN first ELSE Octet(text, u[k - 1])]
  <2>1. AreRead(u, text, start, l)
    BY <1>2, ReadExists, Zenon
  <2> QED
    BY <2>1 DEF AreRead
<1> HIDE DEF u, first
<1>4. u[0] = first
  BY <1>2, <1>3
<1>5. ASSUME NEW k \in 1..4 PROVE u[k] = Octet(text, u[k - 1])
  <2>1. k \in 0..l /\ k # 0
    BY DEF l
  <2> QED
    BY <1>3, <2>1
<1>6. u[1] = Octet(text, u[0]) /\ u[2] = Octet(text, u[1]) /\ u[3] = Octet(text, u[2])
      /\ u[4] = Octet(text, u[3])
  <2>1. 1 - 1 = 0 /\ 2 - 1 = 1 /\ 3 - 1 = 2 /\ 4 - 1 = 3
    OBVIOUS
  <2> QED
    BY <1>5, <2>1
<1> QED
  BY <1>1, <1>4, <1>6 DEF first

\* ip stands at the beginning of the text, with end behind it.
Stands4(text, ip, end) ==
    \E p, q, r \in Nat :
        /\ Stands(text, 1, bput(ip[1])) /\ At(text, 1 + Len(bput(ip[1]))) = Dot
        /\ p = 1 + Len(bput(ip[1])) + 1
        /\ Stands(text, p, bput(ip[2])) /\ At(text, p + Len(bput(ip[2]))) = Dot
        /\ q = p + Len(bput(ip[2])) + 1
        /\ Stands(text, q, bput(ip[3])) /\ At(text, q + Len(bput(ip[3]))) = Dot
        /\ r = q + Len(bput(ip[3])) + 1
        /\ Stands(text, r, bput(ip[4]))
        /\ end = r + Len(bput(ip[4]))

LEMMA PrintedStands ==
    ASSUME NEW ip \in [1..4 -> Byte], NEW tail \in Seq(Nat)
    PROVE  /\ ipv4_itostr(ip) \in Seq(Nat)
           /\ Stands4(ipv4_itostr(ip) \o tail, ip, Len(ipv4_itostr(ip)) + 1)
<1> DEFINE a1 == bput(ip[1])
           a2 == a1 \o <<Dot>>
           a3 == a2 \o bput(ip[2])
           a4 == a3 \o <<Dot>>
           a5 == a4 \o bput(ip[3])
           a6 == a5 \o <<Dot>>
           a7 == a6 \o bput(ip[4])
           text == a7 \o tail
<1>1. ASSUME NEW k \in 1..4 PROVE bput(ip[k]) \in Seq(Nat)
  BY BputReads
<1>2. Dot \in Nat
  BY DEF Dot
<1> HIDE DEF Dot
<1>3. /\ a1 \in Seq(Nat) /\ a2 \in Seq(Nat) /\ a3 \in Seq(Nat) /\ a4 \in Seq(Nat)
      /\ a5 \in Seq(Nat) /\ a6 \in Seq(Nat) /\ a7 \in Seq(Nat) /\ text \in Seq(Nat)
  <2>1. a1 \in Seq(Nat) /\ a2 \in Seq(Nat)
    BY <1>1, <1>2
  <2>2. a3 \in Seq(Nat) /\ a4 \in Seq(Nat)
    <3> HIDE DEF a2
    <3> QED
      BY <1>1, <1>2, <2>1
  <2>3. a5 \in Seq(Nat) /\ a6 \in Seq(Nat)
    <3> HIDE DEF a4
    <3> QED
      BY <1>1, <1>2, <2>2
  <2>4. a7 \in Seq(Nat) /\ text \in Seq(Nat)
    <3> HIDE DEF a6
    <3> QED
      BY <1>1, <2>3
  <2> QED
    BY <2>1, <2>2, <2>3, <2>4
<1>4. ipv4_itostr(ip) = a7
  BY DEF ipv4_itostr
<1> HIDE DEF text
<1>5. Begins(text, a7)
  <2> HIDE DEF a7
  <2>1. Begins(text, a7 \o tail)
    BY <1>3, BeginsItself DEF text
  <2> QED
    BY <1>3, <2>1, BeginsWithBoth
<1> HIDE DEF a6
<1>6. Begins(text, a6) /\ Stands(text, Len(a6) + 1, bput(ip[4])) /\ Len(a7) = Len(a6) + Len(bput(ip[4]))
  BY <1>1, <1>3, <1>5, BeginsWithBoth
<1> HIDE DEF a5
<1>7. Begins(text, a5) /\ At(text, Len(a5) + 1) = Dot /\ Len(a6) = Len(a5) + 1
  <2>1. a6 = a5 \o <<Dot>>
    BY DEF a6
  <2>2. Begins(text, a5 \o <<Dot>>)
    BY <1>6, <2>1
  <2>3. text \in Seq(Nat) /\ a5 \in Seq(Nat) /\ Dot \in Nat
    BY <1>2, <1>3
  <2>4. Begins(text, a5) /\ At(text, Len(a5) + 1) = Dot /\ Len(a5 \o <<Dot>>) = Len(a5) + 1
    BY <2>2, <2>3, BeginsWithByte
  <2> QED
    BY <2>1, <2>4, Zenon
<1> HIDE DEF a4
<1>8. Begins(text, a4) /\ Stands(text, Len(a4) + 1, bput(ip[3])) /\ Len(a5) = Len(a4) + Len(bput(ip[3]))
  BY <1>1, <1>3, <1>7, BeginsWithBoth DEF a5
<1> HIDE DEF a3
<1>9. Begins(text, a3) /\ At(text, Len(a3) + 1) = Dot /\ Len(a4) = Len(a3) + 1
  <2>1. a4 = a3 \o <<Dot>>
    BY DEF a4
  <2>2. Begins(text, a3 \o <<Dot>>)
    BY <1>8, <2>1
  <2>3. text \in Seq(Nat) /\ a3 \in Seq(Nat) /\ Dot \in Nat
    BY <1>2, <1>3
  <2>4. Begins(text, a3) /\ At(text, Len(a3) + 1) = Dot /\ Len(a3 \o <<Dot>>) = Len(a3) + 1
    BY <2>2, <2>3, BeginsWithByte
  <2> QED
    BY <2>1, <2>4, Zenon
<1> HIDE DEF a2
<1>10. Begins(text, a2) /\ Stands(text, Len(a2) + 1, bput(ip[2])) /\ Len(a3) = Len(a2) + Len(bput(ip[2]))
  BY <1>1, <1>3, <1>9, BeginsWithBoth DEF a3
<1> HIDE DEF a1
<1>11. Begins(text, a1) /\ At(text, Len(a1) + 1) = Dot /\ Len(a2) = Len(a1) + 1
  <2>1. a2 = a1 \o <<Dot>>
    BY DEF a2
  <2>2. Begins(text, a1 \o <<Dot>>)
    BY <1>10, <2>1
  <2>3. text \in Seq(Nat) /\ a1 \in Seq(Nat) /\ Dot \in Nat
    BY <1>2, <1>3
  <2>4. Begins(text, a1) /\ At(text, Len(a1) + 1) = Dot /\ Len(a1 \o <<Dot>>) = Len(a1) + 1
    BY <2>2, <2>3, BeginsWithByte
  <2> QED
    BY <2>1, <2>4, Zenon
<1>12. Stands(text, 1, bput(ip[1])) /\ Len(a1) = Len(bput(ip[1]))
  BY <1>3, <1>11, StandsFirst DEF a1
<1> DEFINE p == Len(a2) + 1
           q == Len(a4) + 1
           r == Len(a6) + 1
<1>13. /\ Len(a1) \in Nat /\ Len(a2) \in Nat /\ Len(a3) \in Nat /\ Len(a4) \in Nat
       /\ Len(a5) \in Nat /\ Len(a6) \in Nat /\ Len(a7) \in Nat
       /\ Len(bput(ip[1])) \in Nat /\ Len(bput(ip[2])) \in Nat
       /\ Len(bput(ip[3])) \in Nat /\ Len(bput(ip[4])) \in Nat
  BY <1>1, <1>3
<1>14. /\ p \in Nat /\ q \in Nat /\ r \in Nat
       /\ p = 1 + Len(bput(ip[1])) + 1 /\ q = p + Len(bput(ip[2])) + 1
       /\ r = q + Len(bput(ip[3])) + 1 /\ Len(a7) + 1 = r + Len(bput(ip[4]))
       /\ 1 + Len(bput(ip[1])) = Len(a1) + 1 /\ p + Len(bput(ip[2])) = Len(a3) + 1
       /\ q + Len(bput(ip[3])) = Len(a5) + 1
  BY <1>6, <1>7, <1>8, <1>9, <1>10, <1>11, <1>12, <1>13
<1>15. /\ Stands(text, p, bput(ip[2])) /\ Stands(text, q, bput(ip[3])) /\ Stands(text, r, bput(ip[4]))
  BY <1>6, <1>8, <1>10
<1> HIDE DEF p, q, r, a7
<1>16. Stands4(text, ip, Len(a7) + 1)
  BY <1>7, <1>9, <1>11, <1>12, <1>14, <1>15 DEF Stands4
<1> QED
  BY <1>3, <1>4, <1>16 DEF text

\* s is q with x behind it, at m.
IsAppended(s, q, x, m) ==
    Len(s) = m /\ s[m] = x /\ \A j \in 1..(m - 1) : s[j] = q[j]

LEMMA AppendTo ==
    ASSUME NEW T, NEW q \in Seq(T), NEW x \in T, NEW m, m = Len(q) + 1
    PROVE  Append(q, x) \in Seq(T) /\ IsAppended(Append(q, x), q, x, m)
<1> DEFINE l == Len(q) + 1
<1>1. /\ Append(q, x) \in Seq(T) /\ Len(Append(q, x)) = l
      /\ Append(q, x)[l] = x
      /\ \A j \in 1..Len(q) : Append(q, x)[j] = q[j]
  OBVIOUS
<1>2. l = m /\ Len(q) = m - 1
  OBVIOUS
<1> HIDE DEF l
<1> QED
  BY <1>1, <1>2 DEF IsAppended

LEMMA FourAppended ==
    ASSUME NEW T, NEW a \in T, NEW b \in T, NEW c \in T, NEW d \in T
    PROVE  LET s == Append(Append(Append(Append(<<>>, a), b), c), d)
           IN Len(s) = 4 /\ s[1] = a /\ s[2] = b /\ s[3] = c /\ s[4] = d
<1> DEFINE q0 == <<>>
           q1 == Append(q0, a)
           q2 == Append(q1, b)
           q3 == Append(q2, c)
           q4 == Append(q3, d)
<1>1. q1 \in Seq(T) /\ Len(q1) = 1 /\ q1[1] = a
  OBVIOUS
<1> HIDE DEF q1
<1>2. q2 \in Seq(T) /\ IsAppended(q2, q1, b, 2)
  <2>1. 2 = Len(q1) + 1
    BY <1>1
  <2> QED
    BY <1>1, <2>1, AppendTo, Zenon
<1> HIDE DEF q2
<1>3. q3 \in Seq(T) /\ IsAppended(q3, q2, c, 3)
  <2>1. 3 = Len(q2) + 1
    BY <1>2 DEF IsAppended
  <2> QED
    BY <1>2, <2>1, AppendTo, Zenon
<1> HIDE DEF q3
<1>4. q4 \in Seq(T) /\ IsAppended(q4, q3, d, 4)
  <2>1. 4 = Len(q3) + 1
    BY <1>3 DEF IsAppended
  <2> QED
    BY <1>3, <2>1, AppendTo, Zenon
<1> HIDE DEF q4
<1>5. Len(q4) = 4 /\ q4[1] = a /\ q4[2] = b /\ q4[3] = c /\ q4[4] = d
  BY <1>1, <1>2, <1>3, <1>4 DEF IsAppended
<1> QED
  BY <1>5 DEF q1, q2, q3, q4

LEMMA OctetsRead ==
    ASSUME NEW text \in Seq(Nat), NEW ip \in [1..4 -> Byte], NEW end,
           Stands4(text, ip, end), At(text, end) \notin Digits
    PROVE  LET nums == Octets(text, 1, 4)
           IN Len(nums) = 4 /\ nums[1] = ip[1] /\ nums[2] = ip[2] /\ nums[3] = ip[3] /\ nums[4] = ip[4]
<1> DEFINE a == ip[1]
           b == ip[2]
           c == ip[3]
           d == ip[4]
<1>1. a \in Byte /\ b \in Byte /\ c \in Byte /\ d \in Byte
  OBVIOUS
<1> HIDE DEF a, b, c, d
<1>2. PICK p \in Nat, q \in Nat, r \in Nat :
        /\ Stands(text, 1, bput(a)) /\ At(text, 1 + Len(bput(a))) = Dot
        /\ p = 1 + Len(bput(a)) + 1
        /\ Stands(text, p, bput(b)) /\ At(text, p + Len(bput(b))) = Dot
        /\ q = p + Len(bput(b)) + 1
        /\ Stands(text, q, bput(c)) /\ At(text, q + Len(bput(c))) = Dot
        /\ r = q + Len(bput(c)) + 1
        /\ Stands(text, r, bput(d))
        /\ At(text, r + Len(bput(d))) \notin Digits
  BY DEF Stands4, a, b, c, d
<1>3. PICK u : /\ u[0] = [nums |-> <<>>, next |-> 1, more |-> TRUE]
              /\ u[1] = Octet(text, u[0]) /\ u[2] = Octet(text, u[1])
              /\ u[3] = Octet(text, u[2]) /\ u[4] = Octet(text, u[3])
              /\ Octets(text, 1, 4) = u[4].nums
  BY OctetsAre
<1> DEFINE q0 == <<>>
           q1 == Append(q0, a)
           q2 == Append(q1, b)
           q3 == Append(q2, c)
           q4 == Append(q3, d)
<1>4. Octet(text, u[0]) = [nums |-> q1, next |-> p, more |-> TRUE]
  <2>1. u[0] = [nums |-> q0, next |-> 1, more |-> TRUE]
    BY <1>3
  <2>2. Stands(text, 1, bput(a)) /\ At(text, 1 + Len(bput(a))) = Dot
    BY <1>2
  <2> HIDE DEF q0
  <2>3. p = 1 + Len(bput(a)) + 1
    BY <1>2
  <2>4. GoesOn(Octet(text, u[0]), q0, a, p)
    BY <1>1, <2>1, <2>2, <2>3, OctetGoesOn, Zenon
  <2> QED
    BY <2>4 DEF GoesOn
<1>5. Octet(text, u[1]) = [nums |-> q2, next |-> q, more |-> TRUE]
  <2> HIDE DEF q1
  <2>1. u[1] = [nums |-> q1, next |-> p, more |-> TRUE]
    BY <1>3, <1>4
  <2>2. Stands(text, p, bput(b)) /\ At(text, p + Len(bput(b))) = Dot
    BY <1>2
  <2>3. q = p + Len(bput(b)) + 1
    BY <1>2
  <2>4. GoesOn(Octet(text, u[1]), q1, b, q)
    BY <1>1, <2>1, <2>2, <2>3, OctetGoesOn, Zenon
  <2> QED
    BY <2>4 DEF GoesOn
<1>6. Octet(text, u[2]) = [nums |-> q3, next |-> r, more |-> TRUE]
  <2> HIDE DEF q2
  <2>1. u[2] = [nums |-> q2, next |-> q, more |-> TRUE]
    BY <1>3, <1>5
  <2>2. Stands(text, q, bput(c)) /\ At(text, q + Len(bput(c))) = Dot
    BY <1>2
  <2>3. r = q + Len(bput(c)) + 1
    BY <1>2
  <2>4. GoesOn(Octet(text, u[2]), q2, c, r)
    BY <1>1, <2>1, <2>2, <2>3, OctetGoesOn, Zenon
  <2> QED
    BY <2>4 DEF GoesOn
<1>7. Octet(text, u[3]).nums = q4
  <2> HIDE DEF q3
  <2>1. u[3] = [nums |-> q3, next |-> r, more |-> TRUE]
    BY <1>3, <1>6
  <2>2. Stands(text, r, bput(d)) /\ At(text, r + Len(bput(d))) \notin Digits
    BY <1>2
  <2> QED
    BY <1>1, <2>1, <2>2, OctetEnds
<1>8. Len(q4) = 4 /\ q4[1] = a /\ q4[2] = b /\ q4[3] = c /\ q4[4] = d
  BY <1>1, FourAppended
<1> HIDE DEF q4
<1> QED
  BY <1>3, <1>7, <1>8 DEF a, b, c, d

LEMMA AddressRead ==
    ASSUME NEW text \in Seq(Nat), NEW ip \in [1..4 -> Byte], NEW end,
           Stands4(text, ip, end), At(text, end) \notin Digits
    PROVE  ipv4_isip(text) /\ ipv4_atoi(text) = ip
<1> DEFINE nums == Octets(text, 1, 4)
<1>2. Len(nums) = 4 /\ nums[1] = ip[1] /\ nums[2] = ip[2] /\ nums[3] = ip[3] /\ nums[4] = ip[4]
  BY OctetsRead
<1>3. At(text, 1) # Dot
  <2> DEFINE b == bput(ip[1])
  <2>1. Stands(text, 1, b) /\ b \in Seq(Digits) /\ Len(b) >= 1
    BY BputReads DEF Stands4
  <2> HIDE DEF b
  <2>2. 1 \in DOMAIN text /\ text[1] = b[1] /\ b[1] \in Digits
    BY <2>1 DEF Stands
  <2> QED
    BY <2>2 DEF At, Dot, Digits
<1>4. ipv4_isip(text)
  BY <1>2 DEF ipv4_isip
<1>5. ipv4_atoi(text) = [b \in 1..4 |-> IF b > 4 - Len(nums) THEN nums[b - 4 + Len(nums)] ELSE 0]
  BY <1>2, <1>3 DEF ipv4_atoi
<1> HIDE DEF nums
<1>6. ASSUME NEW b \in 1..4 PROVE ipv4_atoi(text)[b] = ip[b]
  <2>1. b > 4 - Len(nums) /\ b - 4 + Len(nums) = b
    BY <1>2
  <2>2. ipv4_atoi(text)[b] = nums[b]
    BY <1>5, <2>1
  <2>3. b = 1 \/ b = 2 \/ b = 3 \/ b = 4
    OBVIOUS
  <2> QED
    BY <1>2, <2>2, <2>3
<1>7. ipv4_atoi(text) = [b \in 1..4 |-> ipv4_atoi(text)[b]]
  BY <1>5
<1>8. ip = [b \in 1..4 |-> ip[b]]
  OBVIOUS
<1> QED
  BY <1>4, <1>6, <1>7, <1>8

\* Every IPv4 address that is printed is read back, whatever stands behind it but a digit.
THEOREM Ipv4IsReadBack ==
    \A ip \in [1..4 -> Byte] : \A tail \in Seq(Nat) : At(tail, 1) \notin Digits =>
        /\ ipv4_isip(ipv4_itostr(ip) \o tail)
        /\ ipv4_atoi(ipv4_itostr(ip) \o tail) = ip
<1> SUFFICES ASSUME NEW ip \in [1..4 -> Byte], NEW tail \in Seq(Nat), At(tail, 1) \notin Digits
             PROVE  LET text == ipv4_itostr(ip) \o tail
                    IN ipv4_isip(text) /\ ipv4_atoi(text) = ip
  OBVIOUS
<1> DEFINE a == ipv4_itostr(ip)
           text == a \o tail
<1>1. a \in Seq(Nat) /\ Stands4(text, ip, Len(a) + 1)
  BY PrintedStands
<1> HIDE DEF a
<1>2. text \in Seq(Nat) /\ At(text, Len(a) + 1) \notin Digits
  BY <1>1, AtBehind
<1> HIDE DEF text
<1>3. ipv4_isip(text) /\ ipv4_atoi(text) = ip
  BY <1>1, <1>2, AddressRead
<1> QED
  BY <1>3 DEF text, a

-----------------------------------------------------------------------------
(* Ports *)

LEMMA ReadsPort ==
    ASSUME NEW text \in Seq(Nat), NEW p, NEW port \in Nat, port < 10 * Tens[5],
           Stands(text, p, Decimal(port)), At(text, p + Len(Decimal(port))) \notin Digits
    PROVE  atoi(text, p) = port
<1>1. port <= AtoiLimit /\ AtoiLimit \in Nat
  BY DEF Tens, AtoiLimit
<1>2. Decimal(port) \in Seq(Digits) /\ Len(Decimal(port)) >= 1 /\ Value(Decimal(port), AtoiLimit) = port
  <2>1. Decimal(port) \in Seq(Digits) /\ Len(Decimal(port)) \in 1..5
    BY DecimalReads
  <2>2. Value(Decimal(port), AtoiLimit) = port
    BY <1>1, DecimalReads
  <2>3. \A l \in 1..5 : l >= 1
    OBVIOUS
  <2> QED
    BY <2>1, <2>2, <2>3, Zenon
<1> QED
  BY <1>2, ReadsNumber, Zenon

\* t is a colon and port, and behind that, at dash, its end or a dash and last.
IsTail(t, port, last, dash) ==
    /\ t \in Seq(Nat) /\ At(t, 1) = Colon /\ 1 \in DOMAIN t
    /\ Stands(t, 2, Decimal(port)) /\ dash = 2 + Len(Decimal(port))
    /\ \/ dash = Len(t) + 1 /\ last = port
       \/ /\ dash \in DOMAIN t /\ At(t, dash) = Minus
          /\ Stands(t, dash + 1, Decimal(last)) /\ Len(t) = dash + Len(Decimal(last))

LEMMA SingleIsTail ==
    ASSUME NEW port \in Nat, port < 10 * Tens[5]
    PROVE  /\ IsTail(Single(port), port, port, 2 + Len(Decimal(port)))
           /\ 2 + Len(Decimal(port)) = Len(Single(port)) + 1
<1> DEFINE d == Decimal(port)
           t == Single(port)
           c == <<Colon>>
<1>1. d \in Seq(Nat) /\ c \in Seq(Nat) /\ Len(c) = 1 /\ c[1] = Colon /\ Len(d) \in Nat
  <2> HIDE DEF d
  <2>1. d \in Seq(Digits)
    BY DecimalReads DEF d
  <2> QED
    BY <2>1 DEF Digits, Colon
<1>2. t = c \o d
  BY DEF Single
<1> HIDE DEF c, d, t
<1>3. t \in Seq(Nat) /\ Len(t) = 1 + Len(d)
  <2>1. c \o d \in Seq(Nat) /\ Len(c \o d) = Len(c) + Len(d)
    BY <1>1, ConcatProperties
  <2> QED
    BY <1>1, <1>2, <2>1
<1>4. Begins(t, c) /\ Stands(t, Len(c) + 1, d)
  BY <1>1, <1>2, <1>3, BeginsItself, BeginsWithBoth
<1>5. 1 \in DOMAIN t /\ At(t, 1) = Colon
  <2>1. 1 \in 1..Len(t) /\ t[1] = c[1]
    BY <1>1, <1>3, <1>4 DEF Begins
  <2> QED
    BY <1>1, <1>3, <2>1 DEF At
<1>6. Stands(t, 2, d) /\ 2 + Len(d) = Len(t) + 1
  BY <1>1, <1>3, <1>4
<1> QED
  BY <1>3, <1>5, <1>6 DEF IsTail, d, t

LEMMA ThroughIsTail ==
    ASSUME NEW port \in Nat, port < 10 * Tens[5], NEW last \in Nat, last < 10 * Tens[5]
    PROVE  IsTail(Through(port, last), port, last, 2 + Len(Decimal(port)))
<1> DEFINE s == Single(port)
           d == Decimal(port)
           e == Decimal(last)
           b == s \o <<Minus>>
           t == b \o e
           dash == 2 + Len(d)
<1>1. e \in Seq(Nat)
  <2> HIDE DEF e
  <2>1. e \in Seq(Digits)
    BY DecimalReads DEF e
  <2> QED
    BY <2>1 DEF Digits
<1>2. IsTail(s, port, port, dash) /\ dash = Len(s) + 1
  BY SingleIsTail
<1>3. Through(port, last) = t
  BY DEF Through
<1>4. Minus \in Nat /\ Minus # Colon
  BY DEF Minus, Colon
<1> HIDE DEF s, e
<1>5. s \in Seq(Nat) /\ b \in Seq(Nat) /\ t \in Seq(Nat)
  BY <1>1, <1>2, <1>4 DEF IsTail
<1>6. Begins(t, b) /\ Stands(t, Len(b) + 1, e) /\ Len(t) = Len(b) + Len(e)
  <2> HIDE DEF b
  <2> QED
    BY <1>1, <1>5, ConcatBegins
<1> HIDE DEF t
<1>7. Begins(t, s) /\ At(t, Len(s) + 1) = Minus /\ Len(b) = Len(s) + 1
  BY <1>4, <1>5, <1>6, BeginsWithByte
<1> HIDE DEF b, d, dash
<1>8. Stands(t, 2, d) /\ At(t, 1) = Colon /\ 1 \in DOMAIN t
  <2>1. Len(d) \in Nat /\ Stands(s, 2, d) /\ At(s, 1) = Colon /\ 1 \in DOMAIN s
    BY <1>1, <1>2, DecimalReads DEF IsTail, d, dash
  <2>2. Len(s) \in Nat /\ Len(t) \in Nat /\ Len(s) <= Len(t) /\ \A j \in 1..Len(s) : t[j] = s[j]
    BY <1>5, <1>7 DEF Begins
  <2>3. 2 + Len(d) <= Len(s) + 1 /\ \A j \in 1..Len(d) : s[2 + j - 1] = d[j]
    BY <2>1 DEF Stands
  <2>4. ASSUME NEW j \in 1..Len(d) PROVE t[2 + j - 1] = d[j]
    <3>1. 2 + j - 1 \in 1..Len(s)
      BY <2>1, <2>2, <2>3
    <3> QED
      BY <2>2, <2>3, <3>1
  <2>5. 1 \in DOMAIN t /\ t[1] = s[1]
    <3>1. DOMAIN s = 1..Len(s) /\ DOMAIN t = 1..Len(t)
      BY <1>5
    <3>2. 1 \in 1..Len(s) /\ 1 \in 1..Len(t)
      BY <2>1, <2>2, <3>1
    <3> QED
      BY <2>2, <3>1, <3>2
  <2> QED
    BY <2>1, <2>2, <2>3, <2>4, <2>5 DEF Stands, At
<1>9. /\ dash \in DOMAIN t /\ At(t, dash) = Minus
      /\ Stands(t, dash + 1, e) /\ Len(t) = dash + Len(e)
  <2>1. dash = Len(b) /\ dash \in Nat /\ dash >= 1 /\ Len(e) \in Nat /\ Len(t) \in Nat
    BY <1>1, <1>2, <1>5, <1>7
  <2>2. dash \in DOMAIN t
    BY <1>5, <1>6, <2>1
  <2> QED
    BY <1>2, <1>6, <1>7, <2>1, <2>2
<1> QED
  BY <1>3, <1>5, <1>8, <1>9 DEF IsTail, e, d, dash

-----------------------------------------------------------------------------
(* What the expression of sock-echo matches *)

\* A number of up to five digits is in text from x to y.
NumberAt(text, x, y) == y - x + 1 \in 1..5 /\ \A j \in x..y : text[j] \in Digits

LEMMA PartOf ==
    ASSUME NEW T, NEW text \in Seq(T), NEW x \in Nat, x >= 1, NEW y \in Int, y <= Len(text)
    PROVE  LET s == SubSeq(text, x, y)
           IN /\ s \in Seq(T) /\ Len(s) = IF x <= y THEN y - x + 1 ELSE 0
              /\ \A j \in 1..(y - x + 1) : s[j] = text[x + j - 1]
              /\ ToSet(s) = {text[j] : j \in x..y}
<1> DEFINE s == SubSeq(text, x, y)
<1>1. \A j \in x..y : text[j] \in T
  OBVIOUS
<1>2. /\ s \in Seq(T) /\ Len(s) = IF x <= y THEN y - x + 1 ELSE 0
      /\ \A j \in 1..(y - x + 1) : s[j] = text[x + j - 1]
  BY <1>1, SubSeqProperties
<1> HIDE DEF s
<1>3. ToSet(s) = {s[j] : j \in 1..Len(s)}
  BY <1>2 DEF ToSet
<1>4. ASSUME NEW j \in 1..Len(s) PROVE s[j] \in {text[k] : k \in x..y}
  <2>1. j \in 1..(y - x + 1) /\ x + j - 1 \in x..y
    BY <1>2
  <2> QED
    BY <1>2, <2>1
<1>5. ASSUME NEW k \in x..y PROVE text[k] \in {s[j] : j \in 1..Len(s)}
  <2>1. k - x + 1 \in 1..(y - x + 1) /\ k - x + 1 \in 1..Len(s) /\ x + (k - x + 1) - 1 = k
    BY <1>2
  <2> QED
    BY <1>2, <2>1
<1> QED
  BY <1>2, <1>3, <1>4, <1>5 DEF s

LEMMA IsNumberAt ==
    ASSUME NEW text \in Seq(Nat), NEW x \in Nat, x >= 1, NEW y \in Int, y <= Len(text)
    PROVE  IsNumber(SubSeq(text, x, y)) <=> NumberAt(text, x, y)
<1> DEFINE s == SubSeq(text, x, y)
<1>1. Len(s) = (IF x <= y THEN y - x + 1 ELSE 0) /\ ToSet(s) = {text[j] : j \in x..y}
  BY PartOf
<1> HIDE DEF s
<1>2. Len(s) \in 1..5 <=> y - x + 1 \in 1..5
  BY <1>1
<1>3. ToSet(s) \subseteq Digits <=> \A j \in x..y : text[j] \in Digits
  BY <1>1
<1> QED
  BY <1>2, <1>3 DEF IsNumber, NumberAt, s

\* Matches, told of places: a host in front of the colon at c, and the port behind it up
\* to the dash at e or the end.
MatchAt(a, c, e) ==
    /\ c \in 1..Len(a) /\ e \in 2..(Len(a) + 1) /\ a[c] = Colon
    /\ \/ \A j \in 1..(c - 1) : a[j] \in HostBytes
       \/ /\ c > 3 /\ a[1] = Opening /\ a[c - 1] = Closing
          /\ \A j \in 2..(c - 2) : a[j] # Closing
    /\ NumberAt(a, c + 1, e - 1)
    /\ e <= Len(a) => a[e] = Minus /\ NumberAt(a, e + 1, Len(a))

LEMMA MatchesAre ==
    ASSUME NEW a \in Seq(Nat), NEW c, NEW e
    PROVE  [colon |-> c, dash |-> e] \in Matches(a) <=> MatchAt(a, c, e)
<1> DEFINE m == [colon |-> c, dash |-> e]
           host == SubSeq(a, 1, m.colon - 1)
           InFront(h) == \/ ToSet(h) \subseteq HostBytes
                   \/ /\ Len(h) > 2 /\ h[1] = Opening /\ h[Len(h)] = Closing
                      /\ Closing \notin ToSet(SubSeq(h, 2, Len(h) - 1))
           Rest == /\ IsNumber(SubSeq(a, m.colon + 1, m.dash - 1))
                   /\ m.dash <= Len(a) => a[m.dash] = Minus /\ IsNumber(From(a, m.dash + 1))
<1>1. m.colon = c /\ m.dash = e /\ DOMAIN a = 1..Len(a) /\ Len(a) \in Nat
  OBVIOUS
<1>2. m \in Matches(a) <=> /\ m \in [colon : DOMAIN a, dash : 2..(Len(a) + 1)]
                          /\ a[m.colon] = Colon /\ InFront(host) /\ Rest
  <2> DEFINE R == [colon : DOMAIN a, dash : 2..(Len(a) + 1)]
             P(x) ==
                LET host_1 == SubSeq(a, 1, x.colon - 1)
                IN /\ a[x.colon] = Colon
                   /\ \/ ToSet(host_1) \subseteq HostBytes
                      \/ /\ Len(host_1) > 2 /\ host_1[1] = Opening /\ host_1[Len(host_1)] = Closing
                         /\ Closing \notin ToSet(SubSeq(host_1, 2, Len(host_1) - 1))
                   /\ IsNumber(SubSeq(a, x.colon + 1, x.dash - 1))
                   /\ x.dash <= Len(a) => a[x.dash] = Minus /\ IsNumber(From(a, x.dash + 1))
  <2>1. Matches(a) = {x \in R : P(x)}
    BY DEF Matches
  <2>2. P(m) <=> a[m.colon] = Colon /\ InFront(host) /\ Rest
    OBVIOUS
  <2> HIDE DEF P, R, m, InFront, host, Rest
  <2>3. m \in Matches(a) <=> m \in R /\ P(m)
    BY <2>1
  <2> QED
    BY <2>2, <2>3 DEF R
<1>3. m \in [colon : DOMAIN a, dash : 2..(Len(a) + 1)] <=> c \in 1..Len(a) /\ e \in 2..(Len(a) + 1)
  BY <1>1
<1> HIDE DEF m, InFront, Rest
<1>4. ASSUME c \in 1..Len(a), e \in 2..(Len(a) + 1)
      PROVE  /\ InFront(host) <=>
                   \/ \A j \in 1..(c - 1) : a[j] \in HostBytes
                   \/ /\ c > 3 /\ a[1] = Opening /\ a[c - 1] = Closing
                      /\ \A j \in 2..(c - 2) : a[j] # Closing
             /\ Rest <=>
                   /\ NumberAt(a, c + 1, e - 1)
                   /\ e <= Len(a) => a[e] = Minus /\ NumberAt(a, e + 1, Len(a))
  <2>1. /\ host \in Seq(Nat) /\ Len(host) = c - 1
        /\ \A j \in 1..(c - 1) : host[j] = a[j]
        /\ ToSet(host) = {a[j] : j \in 1..(c - 1)}
    <3>1. c - 1 \in Int /\ c - 1 <= Len(a) /\ 1 \in Nat /\ 1 >= 1
      BY <1>1, <1>4
    <3> DEFINE y == c - 1
               s == SubSeq(a, 1, y)
    <3>2. /\ s \in Seq(Nat) /\ Len(s) = (IF 1 <= y THEN y - 1 + 1 ELSE 0)
          /\ \A j \in 1..(y - 1 + 1) : s[j] = a[1 + j - 1]
          /\ ToSet(s) = {a[j] : j \in 1..y}
      <4> HIDE DEF y
      <4> QED
        BY <3>1, PartOf DEF y
    <3>3. host = s
      BY <1>1
    <3> HIDE DEF s, host
    <3> QED
      BY <1>4, <3>2, <3>3
  <2>2. Len(host) > 2 <=> c > 3
    BY <1>4, <2>1
  <2>3. ASSUME c > 3
        PROVE  /\ host[1] = a[1] /\ host[Len(host)] = a[c - 1]
               /\ Closing \notin ToSet(SubSeq(host, 2, Len(host) - 1)) <=> \A j \in 2..(c - 2) : a[j] # Closing
    <3>1. 1 \in 1..(c - 1) /\ c - 1 \in 1..(c - 1) /\ Len(host) - 1 = c - 2 /\ Len(host) - 1 \in Int /\ Len(host) - 1 <= Len(host)
      BY <1>4, <2>1, <2>3
    <3> HIDE DEF host
    <3>2. ToSet(SubSeq(host, 2, Len(host) - 1)) = {host[j] : j \in 2..(Len(host) - 1)}
      <4> DEFINE y == Len(host) - 1
      <4>1. y \in Int /\ y <= Len(host) /\ 2 \in Nat /\ 2 >= 1
        BY <3>1
      <4> HIDE DEF y
      <4>2. ToSet(SubSeq(host, 2, y)) = {host[j] : j \in 2..y}
        BY <2>1, <4>1, PartOf
      <4> QED
        BY <4>2 DEF y
    <3>3. \A j \in 2..(c - 2) : host[j] = a[j]
      BY <1>4, <2>1
    <3> QED
      BY <2>1, <3>1, <3>2, <3>3
  <2>4. ToSet(host) \subseteq HostBytes <=> \A j \in 1..(c - 1) : a[j] \in HostBytes
    BY <2>1
  <2>5. IsNumber(SubSeq(a, c + 1, e - 1)) <=> NumberAt(a, c + 1, e - 1)
    <3>1. c + 1 \in Nat /\ c + 1 >= 1 /\ e - 1 \in Int /\ e - 1 <= Len(a)
      BY <1>1, <1>4
    <3> QED
      BY <3>1, IsNumberAt
  <2>6. e <= Len(a) => (IsNumber(From(a, e + 1)) <=> NumberAt(a, e + 1, Len(a)))
    <3>1. e + 1 \in Nat /\ e + 1 >= 1 /\ Len(a) \in Int /\ Len(a) <= Len(a)
      BY <1>1, <1>4
    <3> QED
      BY <3>1, IsNumberAt DEF From
  <2> HIDE DEF host
  <2> QED
    BY <1>1, <2>2, <2>3, <2>4, <2>5, <2>6 DEF InFront, Rest
<1> HIDE DEF host
<1> QED
  BY <1>1, <1>2, <1>3, <1>4 DEF MatchAt, m

\* The argument a has l bytes for a host, a colon and a port, and a dash and a number or
\* its end at e.
Parts(a, l, e) ==
    /\ l \in Nat /\ l + 1 \in 1..Len(a) /\ a[l + 1] = Colon
    /\ e \in 2..(Len(a) + 1)
    /\ NumberAt(a, l + 2, e - 1)
    /\ e <= Len(a) => a[e] = Minus /\ NumberAt(a, e + 1, Len(a))

HostAt(a, l) ==
    \/ \A j \in 1..l : a[j] \in HostBytes
    \/ /\ l > 2 /\ a[1] = Opening /\ a[l] = Closing
       /\ \A j \in 2..(l - 1) : a[j] # Closing

LEMMA OneMatch ==
    ASSUME NEW a \in Seq(Nat), NEW l, NEW e, Parts(a, l, e), HostAt(a, l)
    PROVE  Matches(a) = {[colon |-> l + 1, dash |-> e]}
<1>1. /\ l \in Nat /\ l + 1 <= Len(a) /\ Len(a) \in Nat
      /\ e \in Nat /\ e >= l + 3 /\ e <= Len(a) + 1
  BY DEF Parts, NumberAt
<1>2. /\ Colon \notin HostBytes /\ Colon \notin Digits /\ Colon # Minus /\ Minus \notin Digits
      /\ Opening # Colon /\ Opening \notin HostBytes
  BY DEF Colon, Digits, Dot, Minus, Opening, HostBytes
<1>3. MatchAt(a, l + 1, e)
  <2>1. l + 1 > 3 <=> l > 2
    BY <1>1
  <2>2. (l + 1) - 1 = l /\ (l + 1) - 2 = l - 1 /\ (l + 1) + 1 = l + 2
    BY <1>1
  <2> QED
    BY <2>1, <2>2 DEF MatchAt, Parts, HostAt
<1>4. ASSUME NEW c, NEW x, MatchAt(a, c, x)
      PROVE  c = l + 1 /\ x = e
  <2>1. /\ c \in Nat /\ c >= 1 /\ c <= Len(a) /\ a[c] = Colon
        /\ x \in Nat /\ x >= c + 2 /\ x <= Len(a) + 1
        /\ \A j \in (c + 1)..(x - 1) : a[j] \in Digits
        /\ x <= Len(a) => a[x] = Minus
    BY <1>1, <1>4 DEF MatchAt, NumberAt
  <2>2. ASSUME NEW j \in (l + 2)..Len(a) PROVE a[j] # Colon
    <3>1. CASE j < e
      BY <1>1, <1>2, <3>1 DEF Parts, NumberAt
    <3>2. CASE j = e
      BY <1>1, <1>2, <3>2 DEF Parts
    <3>3. CASE j > e
      <4>1. e <= Len(a) /\ j \in (e + 1)..Len(a)
        BY <1>1, <3>3
      <4> QED
        BY <1>2, <4>1 DEF Parts, NumberAt
    <3> QED
      BY <1>1, <3>1, <3>2, <3>3
  <2>3. c <= l + 1
    BY <1>1, <2>1, <2>2
  <2>4. ASSUME c <= l PROVE FALSE
    <3>1. CASE \A j \in 1..l : a[j] \in HostBytes
      BY <1>1, <1>2, <2>1, <2>4, <3>1
    <3>2. CASE l > 2 /\ a[1] = Opening /\ a[l] = Closing /\ \A j \in 2..(l - 1) : a[j] # Closing
      <4>1. c # 1 /\ 1 \in 1..(c - 1)
        BY <1>2, <2>1, <3>2
      <4>2. c > 3 /\ a[c - 1] = Closing
        BY <1>2, <1>4, <3>2, <4>1 DEF MatchAt
      <4>3. c - 1 \in 2..(l - 1)
        BY <1>1, <2>1, <2>4, <4>2
      <4> QED
        BY <3>2, <4>2, <4>3
    <3> QED
      BY <3>1, <3>2 DEF HostAt
  <2>5. c = l + 1
    BY <1>1, <2>1, <2>3, <2>4
  <2>6. ASSUME x < e PROVE FALSE
    <3>1. x <= Len(a) /\ x \in (l + 2)..(e - 1)
      BY <1>1, <2>1, <2>5, <2>6
    <3>2. a[x] \in Digits
      BY <3>1 DEF Parts, NumberAt
    <3> QED
      BY <1>2, <2>1, <3>1, <3>2
  <2>7. ASSUME x > e PROVE FALSE
    <3>1. e <= Len(a) /\ e \in (c + 1)..(x - 1)
      BY <1>1, <2>1, <2>5, <2>7
    <3>2. a[e] = Minus
      BY <3>1 DEF Parts
    <3> QED
      BY <1>2, <2>1, <3>1, <3>2
  <2> QED
    BY <1>1, <2>1, <2>5, <2>6, <2>7
<1>5. ASSUME NEW m \in Matches(a) PROVE m = [colon |-> l + 1, dash |-> e]
  <2>1. m \in [colon : DOMAIN a, dash : 2..(Len(a) + 1)]
    BY DEF Matches
  <2>2. m = [colon |-> m.colon, dash |-> m.dash]
    BY <2>1
  <2>3. [colon |-> m.colon, dash |-> m.dash] \in Matches(a)
    BY <2>2
  <2>4. MatchAt(a, m.colon, m.dash)
    BY <2>3, MatchesAre
  <2>5. m.colon = l + 1 /\ m.dash = e
    BY <1>4, <2>4
  <2> QED
    BY <2>2, <2>5
<1>6. [colon |-> l + 1, dash |-> e] \in Matches(a)
  BY <1>3, MatchesAre
<1> QED
  BY <1>5, <1>6

LEMMA DigitsStand ==
    ASSUME NEW T, NEW a \in Seq(T), NEW x, NEW port \in Nat, port < 10 * Tens[5],
           Stands(a, x, Decimal(port))
    PROVE  NumberAt(a, x, x + Len(Decimal(port)) - 1)
<1> DEFINE d == Decimal(port)
<1>1. d \in Seq(Digits) /\ Len(d) \in 1..5
  BY DecimalReads
<1>2. x \in Nat /\ \A j \in 1..Len(d) : a[x + j - 1] = d[j]
  BY DEF Stands
<1> HIDE DEF d
<1>3. ASSUME NEW j \in x..(x + Len(d) - 1) PROVE a[j] \in Digits
  <2>1. j - x + 1 \in 1..Len(d) /\ x + (j - x + 1) - 1 = j
    BY <1>1, <1>2
  <2>2. a[j] = d[j - x + 1] /\ d[j - x + 1] \in Digits
    BY <1>1, <1>2, <2>1
  <2> QED
    BY <2>2
<1>4. (x + Len(d) - 1) - x + 1 = Len(d)
  BY <1>1, <1>2
<1> QED
  BY <1>1, <1>3, <1>4 DEF NumberAt, d

LEMMA DecimalIsText ==
    ASSUME NEW m \in Nat, m < 10 * Tens[5]
    PROVE  Decimal(m) \in Seq(Nat)
<1> DEFINE d == Decimal(m)
<1>1. d \in Seq(Digits)
  BY DecimalReads
<1> HIDE DEF d
<1> QED
  BY <1>1 DEF Digits, d

\* a is the host h with a colon, port and if there is one last behind it; what is read at
\* the places of the numbers.
HasPorts(a, h, port, last, e) ==
    /\ a \in Seq(Nat) /\ \A j \in 1..Len(h) : a[j] = h[j]
    /\ Parts(a, Len(h), e)
    /\ atoi(a, Len(h) + 2) = port
    /\ IF e > Len(a) THEN last = port ELSE atoi(a, e + 1) = last

LEMMA TailBehindHost ==
    ASSUME NEW h \in Seq(Nat), NEW t, NEW dash,
           NEW port \in Nat, port < 10 * Tens[5], NEW last \in Nat, last < 10 * Tens[5],
           IsTail(t, port, last, dash)
    PROVE  HasPorts(h \o t, h, port, last, Len(h) + dash)
<1> DEFINE a == h \o t
           l == Len(h)
           e == l + dash
           w == Len(Decimal(port))
           v == Len(Decimal(last))
<1>1. t \in Seq(Nat) /\ l \in Nat /\ Len(t) \in Nat
  BY DEF IsTail
<1>2. a \in Seq(Nat) /\ Len(a) = l + Len(t) /\ \A j \in 1..l : a[j] = h[j]
  BY <1>1, ConcatProperties
<1>3. w \in 1..5 /\ v \in 1..5 /\ dash = 2 + w /\ dash <= Len(t) + 1
      /\ Decimal(port) \in Seq(Nat) /\ Decimal(last) \in Seq(Nat)
      /\ Decimal(port) \in Seq(Digits) /\ Decimal(last) \in Seq(Digits)
  <2>1. w \in 1..5 /\ v \in 1..5 /\ Decimal(port) \in Seq(Digits) /\ Decimal(last) \in Seq(Digits)
    BY DecimalReads
  <2>3. Decimal(port) \in Seq(Nat) /\ Decimal(last) \in Seq(Nat)
    BY DecimalIsText
  <2>4. dash = 2 + w /\ dash <= Len(t) + 1
    BY <1>1 DEF IsTail
  <2> QED
    BY <2>1, <2>3, <2>4
<1>4. Stands(a, l + 2, Decimal(port))
  <2>1. Stands(t, 2, Decimal(port)) /\ w \in Nat
    BY <1>3 DEF IsTail
  <2> QED
    BY <1>1, <2>1, StandsBehind
<1>5. a[l + 1] = Colon /\ l + 1 \in 1..Len(a)
  <2>1. At(a, l + 1) = At(t, 1)
    BY <1>1, AtBehind
  <2>2. At(t, 1) = Colon /\ Len(t) >= 1
    BY <1>1 DEF IsTail
  <2>3. l + 1 \in 1..Len(a) /\ DOMAIN a = 1..Len(a)
    BY <1>1, <1>2, <2>2
  <2> QED
    BY <2>1, <2>2, <2>3 DEF At
<1>6. ASSUME dash \in DOMAIN t, At(t, dash) = Minus,
             Stands(t, dash + 1, Decimal(last)), Len(t) = dash + v
      PROVE  a[e] = Minus /\ Stands(a, e + 1, Decimal(last)) /\ e <= Len(a) /\ e + v = Len(a)
  <2>1. dash \in 1..Len(t) /\ t[dash] = Minus
    BY <1>1, <1>6 DEF At
  <2>2. a[l + dash] = t[dash]
    BY <1>1, <2>1, ConcatProperties
  <2>3. Stands(a, l + (dash + 1), Decimal(last))
    <3>1. Len(Decimal(last)) \in Nat
      BY <1>3
    <3> QED
      BY <1>1, <1>6, <3>1, StandsBehind, Zenon
  <2>4. l + (dash + 1) = e + 1
    BY <1>1, <1>3
  <2> QED
    BY <1>1, <1>2, <1>3, <1>6, <2>1, <2>2, <2>3, <2>4
<1>7. \/ e = Len(a) + 1 /\ last = port
      \/ a[e] = Minus /\ Stands(a, e + 1, Decimal(last)) /\ e <= Len(a) /\ e + v = Len(a)
  <2>1. CASE dash = Len(t) + 1 /\ last = port
    BY <1>1, <1>2, <2>1
  <2>2. CASE dash \in DOMAIN t /\ At(t, dash) = Minus
             /\ Stands(t, dash + 1, Decimal(last)) /\ Len(t) = dash + Len(Decimal(last))
    BY <1>6, <2>2
  <2> QED
    BY <2>1, <2>2 DEF IsTail
<1>15. e \in Nat /\ e = l + 2 + w /\ e <= Len(a) + 1 /\ w \in Nat /\ v \in Nat
  BY <1>1, <1>2, <1>3
<1> HIDE DEF a, e, w, v
<1>8. NumberAt(a, l + 2, e - 1)
  <2>1. NumberAt(a, l + 2, l + 2 + w - 1)
    BY <1>2, <1>4, DigitsStand DEF w
  <2>2. l + 2 + w - 1 = e - 1
    BY <1>1, <1>15
  <2> QED
    BY <2>1, <2>2
<1>9. e <= Len(a) => a[e] = Minus /\ NumberAt(a, e + 1, Len(a))
  <2> SUFFICES ASSUME e <= Len(a) PROVE a[e] = Minus /\ NumberAt(a, e + 1, Len(a))
    OBVIOUS
  <2>1. a[e] = Minus /\ Stands(a, e + 1, Decimal(last)) /\ e + v = Len(a)
    BY <1>1, <1>2, <1>15, <1>7
  <2>2. NumberAt(a, e + 1, e + 1 + v - 1)
    BY <1>2, <2>1, DigitsStand DEF v
  <2>3. e + 1 + v - 1 = Len(a)
    BY <1>15, <2>1
  <2> QED
    BY <2>1, <2>2, <2>3
<1>10. Parts(a, l, e)
  <2>1. e \in 2..(Len(a) + 1)
    BY <1>1, <1>2, <1>15
  <2> QED
    BY <1>1, <1>5, <1>8, <1>9, <2>1 DEF Parts
<1>11. Minus \notin Digits /\ 0 \notin Digits
  BY DEF Minus, Digits
<1>12. DOMAIN a = 1..Len(a) /\ Len(a) \in Nat /\ e \in Nat /\ e >= 1
  BY <1>1, <1>2, <1>3, <1>15
<1>13. atoi(a, l + 2) = port
  <2>1. At(a, e) \notin Digits
    <3>1. CASE e = Len(a) + 1
      BY <1>11, <1>12, <3>1 DEF At
    <3>2. CASE e <= Len(a) /\ a[e] = Minus
      BY <1>11, <1>12, <3>2 DEF At
    <3> QED
      BY <1>7, <3>1, <3>2
  <2>2. l + 2 + Len(Decimal(port)) = e
    BY <1>15 DEF w
  <2> QED
    BY <1>2, <1>4, <2>1, <2>2, ReadsPort
<1>14. IF e > Len(a) THEN last = port ELSE atoi(a, e + 1) = last
  <2>1. CASE e > Len(a)
    BY <1>7, <1>12, <2>1
  <2>2. CASE e <= Len(a)
    <3>1. Stands(a, e + 1, Decimal(last)) /\ e + v = Len(a)
      BY <1>7, <1>12, <2>2
    <3>2. e + 1 + v \notin DOMAIN a
      BY <1>12, <1>15, <3>1
    <3>3. At(a, e + 1 + v) \notin Digits
      BY <1>11, <3>2 DEF At
    <3>4. atoi(a, e + 1) = last
      BY <1>2, <3>1, <3>3, ReadsPort DEF v
    <3> QED
      BY <1>12, <2>2, <3>4
  <2> QED
    BY <1>12, <2>1, <2>2
<1> QED
  BY <1>2, <1>10, <1>13, <1>14 DEF a, e, HasPorts

-----------------------------------------------------------------------------
(* Hosts *)

\* bytes is the text of an IPv4 address: digits and dots, a digit first.
IsIpv4Text(bytes) ==
    /\ bytes \in Seq(Nat) /\ Len(bytes) >= 1 /\ bytes[1] \in Digits
    /\ \A j \in 1..Len(bytes) : bytes[j] \in Digits \cup {Dot}

LEMMA ConcatIsIpv4Text ==
    ASSUME NEW a, IsIpv4Text(a), NEW b \in Seq(Nat), \A j \in 1..Len(b) : b[j] \in Digits \cup {Dot}
    PROVE  IsIpv4Text(a \o b)
<1>1. /\ a \in Seq(Nat) /\ Len(a) >= 1 /\ a[1] \in Digits /\ Len(a) \in Nat /\ Len(b) \in Nat
      /\ \A j \in 1..Len(a) : a[j] \in Digits \cup {Dot}
  BY DEF IsIpv4Text
<1> DEFINE t == a \o b
<1>2. /\ t \in Seq(Nat) /\ Len(t) = Len(a) + Len(b)
      /\ \A j \in 1..(Len(a) + Len(b)) : t[j] = IF j <= Len(a) THEN a[j] ELSE b[j - Len(a)]
  BY <1>1, ConcatProperties
<1> HIDE DEF t
<1>3. ASSUME NEW j \in 1..Len(t) PROVE t[j] \in Digits \cup {Dot}
  <2>1. CASE j <= Len(a)
    <3>1. j \in 1..Len(a) /\ j \in 1..(Len(a) + Len(b))
      BY <1>1, <1>2, <2>1
    <3>2. t[j] = a[j]
      BY <1>2, <2>1, <3>1
    <3> QED
      BY <1>1, <3>1, <3>2
  <2>2. CASE j > Len(a)
    <3>1. j - Len(a) \in 1..Len(b) /\ ~(j <= Len(a)) /\ j \in 1..(Len(a) + Len(b))
      BY <1>1, <1>2, <2>2
    <3>2. t[j] = b[j - Len(a)]
      BY <1>2, <3>1
    <3> QED
      BY <3>1, <3>2
  <2> QED
    BY <1>1, <1>2, <2>1, <2>2
<1>4. 1 \in 1..(Len(a) + Len(b))
  BY <1>1
<1> QED
  BY <1>1, <1>2, <1>3, <1>4 DEF IsIpv4Text, t

LEMMA BputIsIpv4Text ==
    ASSUME NEW b \in Byte
    PROVE  IsIpv4Text(bput(b))
<1> DEFINE d == bput(b)
<1>1. d \in Seq(Digits) /\ d \in Seq(Nat) /\ Len(d) >= 1
  BY BputReads
<1> HIDE DEF d
<1>2. \A j \in 1..Len(d) : d[j] \in Digits
  BY <1>1
<1>3. 1 \in 1..Len(d)
  BY <1>1
<1> QED
  BY <1>1, <1>2, <1>3 DEF IsIpv4Text, d

LEMMA PrintedIsIpv4Text ==
    ASSUME NEW ip \in [1..4 -> Byte]
    PROVE  IsIpv4Text(ipv4_itostr(ip))
<1> DEFINE dot == <<Dot>>
           a1 == bput(ip[1])
           a2 == bput(ip[2])
           a3 == bput(ip[3])
           a4 == bput(ip[4])
<1>1. dot \in Seq(Nat) /\ \A j \in 1..Len(dot) : dot[j] \in Digits \cup {Dot}
  BY DEF Dot
<1>2. ip[1] \in Byte /\ ip[2] \in Byte /\ ip[3] \in Byte /\ ip[4] \in Byte
  OBVIOUS
<1>3. IsIpv4Text(a1) /\ IsIpv4Text(a2) /\ IsIpv4Text(a3) /\ IsIpv4Text(a4)
  BY <1>2, BputIsIpv4Text
<1>4. ipv4_itostr(ip) = a1 \o dot \o a2 \o dot \o a3 \o dot \o a4
  BY DEF ipv4_itostr
<1> HIDE DEF dot, a1, a2, a3, a4
<1>5. \A a : IsIpv4Text(a) => a \in Seq(Nat) /\ \A j \in 1..Len(a) : a[j] \in Digits \cup {Dot}
  BY DEF IsIpv4Text
<1>6. IsIpv4Text(a1 \o dot)
  BY <1>1, <1>3, ConcatIsIpv4Text
<1>7. IsIpv4Text(a1 \o dot \o a2)
  BY <1>3, <1>5, <1>6, ConcatIsIpv4Text
<1>8. IsIpv4Text(a1 \o dot \o a2 \o dot)
  BY <1>1, <1>7, ConcatIsIpv4Text
<1>9. IsIpv4Text(a1 \o dot \o a2 \o dot \o a3)
  BY <1>3, <1>5, <1>8, ConcatIsIpv4Text
<1>10. IsIpv4Text(a1 \o dot \o a2 \o dot \o a3 \o dot)
  BY <1>1, <1>9, ConcatIsIpv4Text
<1>11. IsIpv4Text(a1 \o dot \o a2 \o dot \o a3 \o dot \o a4)
  BY <1>3, <1>5, <1>10, ConcatIsIpv4Text
<1> QED
  BY <1>4, <1>11

LEMMA BracketsAre ==
    ASSUME NEW text \in Seq(1..255)
    PROVE  LET h == Brackets(text)
           IN /\ h \in Seq(1..255) /\ h \in Seq(Nat) /\ Len(h) = Len(text) + 2
              /\ h[1] = Opening /\ h[Len(h)] = Closing
              /\ \A j \in 1..Len(text) : h[j + 1] = text[j]
<1> DEFINE o == <<Opening>>
           c == <<Closing>>
           b == o \o text
           h == b \o c
<1>1. /\ o \in Seq(1..255) /\ Len(o) = 1 /\ o[1] = Opening
      /\ c \in Seq(1..255) /\ Len(c) = 1 /\ c[1] = Closing
  BY DEF Opening, Closing
<1>2. Brackets(text) = h
  BY DEF Brackets
<1> HIDE DEF o, c
<1>3. /\ b \in Seq(1..255) /\ Len(b) = Len(text) + 1 /\ b[1] = Opening
      /\ \A j \in 1..Len(text) : b[j + 1] = text[j]
  <2>1. /\ b \in Seq(1..255) /\ Len(b) = 1 + Len(text) /\ Len(text) \in Nat
        /\ \A j \in 1..(1 + Len(text)) : b[j] = IF j <= 1 THEN o[j] ELSE text[j - 1]
    <3>1. /\ b \in Seq(1..255) /\ Len(b) = Len(o) + Len(text) /\ Len(text) \in Nat
          /\ \A j \in 1..(Len(o) + Len(text)) : b[j] = IF j <= Len(o) THEN o[j] ELSE text[j - Len(o)]
      <4>1. Len(text) \in Nat
        OBVIOUS
      <4> QED
        BY <1>1, <4>1, ConcatProperties, Zenon
    <3> HIDE DEF b
    <3> QED
      BY <1>1, <3>1
  <2> HIDE DEF b
  <2>2. 1 \in 1..(1 + Len(text))
    BY <2>1
  <2>3. ASSUME NEW j \in 1..Len(text) PROVE b[j + 1] = text[j]
    <3>1. j + 1 \in 1..(1 + Len(text)) /\ ~(j + 1 <= 1) /\ (j + 1) - 1 = j
      BY <2>1
    <3> QED
      BY <2>1, <3>1
  <2> QED
    BY <1>1, <2>1, <2>2, <2>3
<1> HIDE DEF b
<1>4. /\ h \in Seq(1..255) /\ Len(h) = Len(text) + 2 /\ Len(text) \in Nat
      /\ \A j \in 1..Len(b) : h[j] = b[j]
      /\ h[Len(b) + 1] = Closing
  BY <1>1, <1>3, ConcatProperties
<1> HIDE DEF h
<1>5. h \in Seq(Nat)
  <2>1. 1..255 \subseteq Nat
    OBVIOUS
  <2> QED
    BY <1>4, <2>1, SeqMonotonic
<1>6. 1 \in 1..Len(b) /\ \A j \in 1..Len(text) : j + 1 \in 1..Len(b)
  BY <1>3, <1>4
<1>7. h[1] = Opening /\ h[Len(h)] = Closing /\ \A j \in 1..Len(text) : h[j + 1] = text[j]
  BY <1>3, <1>4, <1>6
<1> QED
  BY <1>2, <1>4, <1>5, <1>7

\* The bytes of an IPv6 address come through its words.
LEMMA WordsAndBytes ==
    ASSUME NEW b \in Seq(Byte), Len(b) = 16
    PROVE  ipv6_ntoh(b) \in Seq(Nat) /\ ipv6_hton(ipv6_ntoh(b)) = b
<1> DEFINE w == ipv6_ntoh(b)
           r == ipv6_hton(w)
<1>9. \A x \in Nat : x <= 255 <=> x \in Byte
  BY DEF Byte
<1>10. \A x \in Byte : x \in Nat
  BY DEF Byte
<1>1. ASSUME NEW k \in 1..16 PROVE b[k] \in Nat /\ b[k] <= 255
  <2>1. k \in 1..Len(b)
    OBVIOUS
  <2>2. b[k] \in Byte
    BY <2>1, ElementOfSeq
  <2> QED
    BY <1>9, <1>10, <2>2
<1>2. w = [k \in 1..8 |-> 256 * b[2 * k - 1] + b[2 * k]]
  BY DEF ipv6_ntoh
<1>3. r = [x \in 1..16 |-> IF x % 2 = 1 THEN w[(x + 1) \div 2] \div 256 ELSE w[x \div 2] % 256]
  BY DEF ipv6_hton
<1> HIDE DEF w, r
<1>4. \A k \in 1..8 : 2 * k - 1 \in 1..16 /\ 2 * k \in 1..16
  OBVIOUS
<1>5. w \in [1..8 -> Nat]
  <2>1. ASSUME NEW k \in 1..8 PROVE 256 * b[2 * k - 1] + b[2 * k] \in Nat
    <3>1. b[2 * k - 1] \in Nat /\ b[2 * k] \in Nat
      BY <1>1, <1>4
    <3> QED
      BY <3>1
  <2> QED
    BY <1>2, <2>1
<1>6. w \in Seq(Nat)
  <2> DEFINE m == 8
  <2>1. m \in Nat /\ w \in [1..m -> Nat]
    BY <1>5
  <2> HIDE DEF m
  <2> QED
    BY <2>1
<1>7. ASSUME NEW k \in 1..16 PROVE r[k] = b[k]
  <2>1. \A x \in Nat, y \in Nat : y <= 255 => (256 * x + y) \div 256 = x /\ (256 * x + y) % 256 = y
    OBVIOUS
  <2>2. CASE k % 2 = 1
    <3>1. (k + 1) \div 2 \in 1..8 /\ 2 * ((k + 1) \div 2) - 1 = k
      BY <2>2
    <3>2. w[(k + 1) \div 2] = 256 * b[k] + b[2 * ((k + 1) \div 2)]
      BY <1>2, <3>1
    <3>3. b[2 * ((k + 1) \div 2)] \in Nat /\ b[2 * ((k + 1) \div 2)] <= 255
      BY <1>1, <1>4, <3>1
    <3> QED
      <4>1. b[k] \in Nat
        BY <1>1
      <4>2. r[k] = w[(k + 1) \div 2] \div 256
        BY <1>3, <2>2
      <4> QED
        BY <2>1, <3>2, <3>3, <4>1, <4>2
  <2>3. CASE k % 2 # 1
    <3>1. k \div 2 \in 1..8 /\ 2 * (k \div 2) = k
      BY <2>3
    <3>2. w[k \div 2] = 256 * b[2 * (k \div 2) - 1] + b[k]
      BY <1>2, <3>1
    <3>3. b[2 * (k \div 2) - 1] \in Nat
      BY <1>1, <1>4, <3>1
    <3> QED
      <4>1. b[k] \in Nat /\ b[k] <= 255
        BY <1>1
      <4>2. r[k] = w[k \div 2] % 256
        BY <1>3, <2>3
      <4> DEFINE x == b[2 * (k \div 2) - 1]
                 y == b[k]
      <4>3. r[k] = (256 * x + y) % 256 /\ x \in Nat /\ y \in Nat /\ y <= 255
        BY <3>2, <3>3, <4>1, <4>2
      <4> HIDE DEF x, y
      <4>6. x \in Nat /\ y \in Nat /\ y <= 255
        BY <4>3
      <4>5. (256 * x + y) % 256 = y
        BY <4>6
      <4>4. r[k] = y
        BY <4>3, <4>5
      <4> QED
        BY <4>4 DEF y
  <2> QED
    BY <2>2, <2>3
<1>8. r = b
  <2>1. r \in [1..16 -> Byte]
    <3>1. DOMAIN r = 1..16 /\ r = [x \in 1..16 |-> r[x]]
      BY <1>3
    <3>2. \A k \in 1..16 : r[k] \in Byte
      <4> SUFFICES ASSUME NEW k \in 1..16 PROVE r[k] \in Byte
        OBVIOUS
      <4>1. b[k] \in Nat /\ b[k] <= 255
        BY <1>1
      <4>2. b[k] \in Byte
        BY <1>9, <4>1
      <4> QED
        BY <1>7, <4>2
    <3> QED
      BY <3>1, <3>2
  <2>2. b \in [1..16 -> Byte]
    OBVIOUS
  <2> QED
    BY <1>7, <2>1, <2>2
<1> QED
  BY <1>6, <1>8 DEF r, w

-----------------------------------------------------------------------------
(* The arguments of sock-echo *)

\* Where an address is replaced in what memory holds.
Replaced(conf, f, w, port) == [[conf EXCEPT !.family = f, !.addr = w] EXCEPT !.port = port]

LEMMA FieldsReplaced ==
    ASSUME NEW conf \in Host, NEW f, NEW w, NEW port
    PROVE  Replaced(conf, f, w, port) = [family |-> f, addr |-> w, port |-> port]
<1> DEFINE q == conf.family
           r == conf.addr
           t == conf.port
           d == [family |-> q, addr |-> r, port |-> t]
           x == [family |-> f, addr |-> r, port |-> t]
           y == [family |-> f, addr |-> w, port |-> t]
<1>1. conf = d
  BY DEF Host
<1> HIDE DEF q, r, t
<1>2. [d EXCEPT !.family = f] = x
  OBVIOUS
<1>3. [x EXCEPT !.addr = w] = y
  OBVIOUS
<1>4. [y EXCEPT !.port = port] = [family |-> f, addr |-> w, port |-> port]
  OBVIOUS
<1> HIDE DEF d, x, y
<1>5. [d EXCEPT !.family = f, !.addr = w] = [[d EXCEPT !.family = f] EXCEPT !.addr = w]
  OBVIOUS
<1>6. [conf EXCEPT !.family = f, !.addr = w] = y
  BY <1>1, <1>2, <1>3, <1>5
<1> QED
  BY <1>4, <1>6 DEF Replaced

\* The address of the host as it stands in memory is w, and text is read as it.
HostIsRead(conf, text, host, w) ==
    /\ w \in Seq(Nat) /\ host.family \in {"inet", "inet6"}
    /\ io_sock_atohost(conf, text) = [conf EXCEPT !.family = host.family, !.addr = w]
    /\ \A port : io_sock_set_addr([family |-> host.family, addr |-> w, port |-> port])
                     = [family |-> host.family, addr |-> host.addr, port |-> port]

LEMMA AddressWithoutTail ==
    ASSUME NEW ip \in [1..4 -> Byte]
    PROVE  ipv4_isip(ipv4_itostr(ip)) /\ ipv4_atoi(ipv4_itostr(ip)) = ip
<1> DEFINE t == ipv4_itostr(ip)
           none == <<>>
<1>1. t \in Seq(Nat)
  BY PrintedIsIpv4Text DEF IsIpv4Text
<1>2. none \in Seq(Nat) /\ At(none, 1) \notin Digits
  BY DEF At, Digits
<1>3. t \o none = t
  <2> HIDE DEF t
  <2> QED
    BY <1>1, ConcatEmptySeq
<1>4. ipv4_isip(t \o none) /\ ipv4_atoi(t \o none) = ip
  <2> HIDE DEF none
  <2> QED
    BY <1>2, Ipv4IsReadBack
<1> HIDE DEF t, none
<1> QED
  BY <1>3, <1>4 DEF t

LEMMA Host4IsRead ==
    ASSUME NEW ip \in [1..4 -> Byte], NEW conf
    PROVE  HostIsRead(conf, ipv4_itostr(ip), Host4(ip), ip)
<1> DEFINE t == ipv4_itostr(ip)
<1>1. t \in Seq(Nat) /\ Len(t) >= 1 /\ t[1] \in Digits
  BY PrintedIsIpv4Text DEF IsIpv4Text
<1>2. ipv4_isip(t) /\ ipv4_atoi(t) = ip
  BY AddressWithoutTail
<1>3. Host4(ip).family = "inet" /\ Host4(ip).addr = ip
  BY DEF Host4
<1> HIDE DEF t
<1>4. At(t, 1) # Slash
  <2>1. \A c \in Digits : c # Slash
    BY DEF Digits, Slash
  <2>2. At(t, 1) = t[1]
    BY <1>1 DEF At
  <2> QED
    BY <1>1, <2>1, <2>2
<1>5. io_sock_atohost(conf, t) = [conf EXCEPT !.family = "inet", !.addr = ip]
  BY <1>2, <1>4 DEF io_sock_atohost
<1>6. \A port : io_sock_set_addr([family |-> "inet", addr |-> ip, port |-> port])
                    = [family |-> "inet", addr |-> ip, port |-> port]
  BY DEF io_sock_set_addr
<1>7. ip \in Seq(Nat)
  <2> DEFINE m == 4
  <2>1. m \in Nat /\ ip \in [1..m -> Byte]
    OBVIOUS
  <2>2. Byte \subseteq Nat
    BY DEF Byte
  <2> HIDE DEF m
  <2>3. ip \in Seq(Byte)
    BY <2>1
  <2> QED
    BY <2>2, <2>3, SeqMonotonic
<1> QED
  BY <1>3, <1>5, <1>6, <1>7 DEF HostIsRead, t

LEMMA Host6IsRead ==
    ASSUME NEW text, IsIpv6Text(text), NEW conf
    PROVE  HostIsRead(conf, text, Host6(text), ipv6_ntoh(inet_pton[text]))
<1> DEFINE b == inet_pton[text]
           w == ipv6_ntoh(b)
<1>1. /\ text \in DOMAIN inet_pton /\ text \in Seq(1..255) /\ text # <<>> /\ text[1] # Slash
      /\ ~ipv4_isip(text)
  BY DEF IsIpv6Text
<1>2. b \in Seq(Byte) /\ Len(b) = 16
  BY <1>1, SockAddrAssumption
<1>3. w \in Seq(Nat) /\ ipv6_hton(w) = b
  <2> HIDE DEF b
  <2> QED
    BY <1>2, WordsAndBytes
<1>4. Host6(text).family = "inet6" /\ Host6(text).addr = b
  BY DEF Host6
<1>5. At(text, 1) # Slash
  <2>1. 1 \in DOMAIN text
    BY <1>1
  <2> QED
    BY <1>1, <2>1 DEF At
<1>6. ipv6_isip(text)
  BY <1>1 DEF ipv6_isip
<1>7. ipv6_atoh(text, <<>>).addr = w
  BY <1>6 DEF ipv6_atoh
<1> HIDE DEF w, b
<1>8. io_sock_atohost(conf, text) = [conf EXCEPT !.family = "inet6", !.addr = w]
  BY <1>1, <1>5, <1>6, <1>7 DEF io_sock_atohost
<1>9. \A port : io_sock_set_addr([family |-> "inet6", addr |-> w, port |-> port])
                    = [family |-> "inet6", addr |-> b, port |-> port]
  BY <1>3 DEF io_sock_set_addr
<1>10. HostIsRead(conf, text, Host6(text), w)
  BY <1>3, <1>4, <1>8, <1>9 DEF HostIsRead
<1> QED
  BY <1>10 DEF w, b

LEMMA PortReplaced ==
    ASSUME NEW c \in Host, NEW p, NEW q
    PROVE  /\ [[c EXCEPT !.port = p] EXCEPT !.port = q] = [c EXCEPT !.port = q]
           /\ [c EXCEPT !.port = q] = [family |-> c.family, addr |-> c.addr, port |-> q]
<1> DEFINE f == c.family
           g == c.addr
           t == c.port
           d == [family |-> f, addr |-> g, port |-> t]
           x == [family |-> f, addr |-> g, port |-> p]
           y == [family |-> f, addr |-> g, port |-> q]
<1>1. c = d
  BY DEF Host
<1> HIDE DEF f, g, t
<1>2. [d EXCEPT !.port = p] = x
  OBVIOUS
<1>3. [d EXCEPT !.port = q] = y
  OBVIOUS
<1>4. [x EXCEPT !.port = q] = y
  OBVIOUS
<1> HIDE DEF d, x, y
<1>5. [[c EXCEPT !.port = p] EXCEPT !.port = q] = [c EXCEPT !.port = q] /\ [c EXCEPT !.port = q] = y
  BY <1>1, <1>2, <1>3, <1>4
<1> QED
  BY <1>5 DEF y, f, g

\* The endpoint of a host with a port, and what of it is told.
EndpointOf(host, port) ==
    [at |-> [family |-> host.family, addr |-> host.addr, port |-> port], told |-> host.told]

\* The address c has of the host what is told of it: with any port behind it.
IsTaken(c, host) ==
    /\ c \in Host
    /\ \A port : IsAsTold(io_sock_set_addr([c EXCEPT !.port = port]), EndpointOf(host, port))

LEMMA AddressIsTaken ==
    ASSUME NEW conf \in Host, NEW text, NEW host, NEW w, HostIsRead(conf, text, host, w)
    PROVE  IsTaken(io_sock_atohost(conf, text), host)
<1> DEFINE f == host.family
           c == io_sock_atohost(conf, text)
           d == [family |-> f, addr |-> w, port |-> conf.port]
<1>1. /\ w \in Seq(Nat) /\ f \in {"inet", "inet6"}
      /\ c = [conf EXCEPT !.family = f, !.addr = w]
      /\ \A p : io_sock_set_addr([family |-> f, addr |-> w, port |-> p])
                    = [family |-> f, addr |-> host.addr, port |-> p]
  BY DEF HostIsRead
<1> HIDE DEF c, f
<1>2. d \in Host /\ d.family = f /\ d.addr = w
  BY <1>1 DEF Host
<1>3. c = d
  <2> DEFINE q == conf.port
  <2>1. Replaced(conf, f, w, q) = [family |-> f, addr |-> w, port |-> q]
    BY FieldsReplaced
  <2>2. [c EXCEPT !.port = q] = d
    BY <1>1, <2>1 DEF Replaced
  <2>3. c.port = q /\ c = [family |-> c.family, addr |-> c.addr, port |-> c.port]
    BY <1>1 DEF Host
  <2>4. c \in Host
    BY <1>1 DEF Host
  <2>5. [c EXCEPT !.port = q] = [family |-> c.family, addr |-> c.addr, port |-> q]
    BY <2>4, PortReplaced
  <2> HIDE DEF d, q
  <2> QED
    BY <2>2, <2>3, <2>5
<1>4. ASSUME NEW port
      PROVE  IsAsTold(io_sock_set_addr([c EXCEPT !.port = port]), EndpointOf(host, port))
  <2>1. [d EXCEPT !.port = port] = [family |-> d.family, addr |-> d.addr, port |-> port]
    <3> HIDE DEF d
    <3> QED
      BY <1>2, PortReplaced
  <2> HIDE DEF d
  <2>2. io_sock_set_addr([c EXCEPT !.port = port]) = [family |-> f, addr |-> host.addr, port |-> port]
    BY <1>1, <1>2, <1>3, <2>1
  <2>3. EndpointOf(host, port).at = [family |-> f, addr |-> host.addr, port |-> port]
    BY DEF EndpointOf, f
  <2> QED
    BY <2>2, <2>3 DEF IsAsTold
<1> HIDE DEF d
<1> QED
  BY <1>2, <1>3, <1>4 DEF IsTaken, c

\* What is no address leaves what memory holds, and of that the port is told at most.
LEMMA NoHostIsTaken ==
    ASSUME NEW conf \in Host, NEW text
    PROVE  /\ IsTaken(conf, NoHost(text))
           /\ \A x : IsNoAddress(x) => io_sock_atohost(conf, x) = conf
<1>1. ASSUME NEW port
      PROVE  IsAsTold(io_sock_set_addr([conf EXCEPT !.port = port]), EndpointOf(NoHost(text), port))
  <2> DEFINE c == [conf EXCEPT !.port = port]
             m == EndpointOf(NoHost(text), port)
             r == io_sock_set_addr(c)
  <2>1. m.told = {"port"} /\ m.at.port = port
    BY DEF EndpointOf, NoHost
  <2>2. c.family = conf.family /\ c.port = port /\ conf.family \in {"none", "inet", "inet6", "unix"}
    BY DEF Host
  <2> HIDE DEF c, m
  <2>3. r.port = port \/ r.family \notin {"inet", "inet6"}
    BY <2>2 DEF io_sock_set_addr
  <2> HIDE DEF r
  <2>4. IsAsTold(r, m)
    BY <2>1, <2>3 DEF IsAsTold
  <2> QED
    BY <2>4 DEF r, c, m
<1>2. \A x : IsNoAddress(x) => io_sock_atohost(conf, x) = conf
  BY DEF IsNoAddress, io_sock_atohost
<1> QED
  BY <1>1, <1>2 DEF IsTaken

LEMMA ServIsMeant ==
    ASSUME NEW a, NEW host, NEW l, NEW e, NEW conf,
           IsTaken(Addressed(conf, a, [colon |-> l + 1, dash |-> e]), host),
           PortSize \in Nat, CountSize \in Nat, PortSize < CountSize,
           NEW port \in 0..(PortSize - 1), NEW last \in 0..(PortSize - 1), last >= port - 1,
           l \in Nat, atoi(a, l + 2) = port,
           IF e > Len(a) THEN last = port ELSE atoi(a, e + 1) = last
    PROVE  LET s == EchoServ(conf, a, [colon |-> l + 1, dash |-> e])
           IN /\ s.conf \in Host /\ s.ports_num \in Nat
              /\ Agree(IF s.ports_num >= 1 THEN AddressesOf(s) ELSE {}, Endpoints(host, port..last))
<1> DEFINE m == [colon |-> l + 1, dash |-> e]
           s == EchoServ(conf, a, m)
           c == Addressed(conf, a, m)
<1>1. port \in Nat /\ last \in Nat /\ port < PortSize /\ last < PortSize
  OBVIOUS
<1>2. m.colon = l + 1 /\ m.dash = e /\ m.colon + 1 = l + 2
  OBVIOUS
<1>3. port % PortSize = port
  BY <1>1
<1>4. PortsOf(a, m) = last - port + 1
  <2>1. CASE e > Len(a)
    BY <1>1, <1>2, <2>1 DEF PortsOf
  <2>2. CASE ~(e > Len(a))
    <3>1. last - port + 1 \in Nat /\ last - port + 1 < CountSize
      BY <1>1
    <3>2. (last - port + 1) % CountSize = last - port + 1
      BY <3>1
    <3>3. PortsOf(a, m) = (last - port + 1) % CountSize
      BY <1>2, <1>3, <2>2 DEF PortsOf
    <3> QED
      BY <3>2, <3>3
  <2> QED
    BY <2>1, <2>2
<1>5. c \in Host /\ \A p : IsAsTold(io_sock_set_addr([c EXCEPT !.port = p]), EndpointOf(host, p))
  BY DEF IsTaken
<1> HIDE DEF c, m
<1>6. s = [conf |-> [c EXCEPT !.port = port], ports_num |-> last - port + 1]
  BY <1>2, <1>3, <1>4 DEF EchoServ, c
<1> HIDE DEF s
<1> DEFINE d == [c EXCEPT !.port = port]
<1>7. s.conf = d /\ s.ports_num = last - port + 1 /\ s.ports_num \in Nat
  <2> HIDE DEF d
  <2>1. s = [conf |-> d, ports_num |-> last - port + 1]
    BY <1>6 DEF d
  <2>2. last - port + 1 \in Nat
    BY <1>1
  <2> QED
    BY <2>1, <2>2
<1>8. d \in Host /\ d.port = port
  BY <1>1, <1>5 DEF Host
<1>9. ASSUME NEW k \in 0..(last - port)
      PROVE  AddressOf(s.conf, k) = io_sock_set_addr([c EXCEPT !.port = port + k])
  <2>1. (port + k) % PortSize = port + k
    BY <1>1
  <2> DEFINE q == port + k
  <2> HIDE DEF q
  <2>2. [d EXCEPT !.port = q] = [c EXCEPT !.port = q]
    BY <1>5, PortReplaced
  <2> HIDE DEF d
  <2>3. AddressOf(s.conf, k) = io_sock_set_addr([d EXCEPT !.port = q])
    BY <1>7, <1>8, <2>1 DEF AddressOf, q
  <2> QED
    BY <2>2, <2>3 DEF q
<1> HIDE DEF d
<1> DEFINE Entry(p) == io_sock_set_addr([c EXCEPT !.port = p])
<1>10. AddressesOf(s) = {Entry(port + k) : k \in 0..(last - port)}
  <2>1. s.ports_num - 1 = last - port
    BY <1>1, <1>7
  <2> QED
    BY <1>9, <2>1 DEF AddressesOf
<1>11. \A p : IsAsTold(Entry(p), EndpointOf(host, p))
  BY <1>5
<1>12. Endpoints(host, port..last) = {EndpointOf(host, p) : p \in port..last}
  BY DEF Endpoints, EndpointOf
<1> HIDE DEF Entry
<1>13. \A k \in 0..(last - port) : port + k \in port..last
  BY <1>1
<1>14. \A p \in port..last : p - port \in 0..(last - port) /\ port + (p - port) = p
  BY <1>1
<1>15. Agree(AddressesOf(s), Endpoints(host, port..last))
  <2>1. ASSUME NEW x \in AddressesOf(s)
        PROVE  \E y \in Endpoints(host, port..last) : IsAsTold(x, y)
    <3>1. PICK k \in 0..(last - port) : x = Entry(port + k)
      BY <1>10
    <3> QED
      BY <1>11, <1>12, <1>13, <3>1
  <2>2. ASSUME NEW y \in Endpoints(host, port..last)
        PROVE  \E x \in AddressesOf(s) : IsAsTold(x, y)
    <3>1. PICK p \in port..last : y = EndpointOf(host, p)
      BY <1>12
    <3>2. Entry(p) \in AddressesOf(s)
      BY <1>10, <1>14
    <3> QED
      BY <1>11, <3>1, <3>2
  <2> QED
    BY <2>1, <2>2 DEF Agree
<1>16. ~(s.ports_num >= 1) => Endpoints(host, port..last) = {}
  <2>1. ~(s.ports_num >= 1) => port..last = {}
    BY <1>1, <1>7
  <2> QED
    BY <1>12, <2>1
<1>17. Agree(IF s.ports_num >= 1 THEN AddressesOf(s) ELSE {}, Endpoints(host, port..last))
  BY <1>15, <1>16, NoneAgree
<1> QED
  BY <1>7, <1>8, <1>17 DEF s, m

AllIps == [1..4 -> Byte]
AllTexts == {text \in DOMAIN inet_pton : IsIpv6Text(text)}
AllPorts == 0..(PortSize - 1)

\* Any IPv4 address, any IPv6 address, and what stands for none.
AllHosts == {Host4(ip) : ip \in AllIps} \cup {Host6(text) : text \in AllTexts}
            \cup {NoHost(text) : text \in {text \in Seq(1..255) : IsNoHost(text)}}

\* a has a host of l bytes in front, with text in it.
HostStands(a, l, text) ==
    HostAt(a, l) /\ \A e : HostOf(a, [colon |-> l + 1, dash |-> e]) = text

LEMMA BareStands ==
    ASSUME NEW h \in Seq(Nat), Len(h) >= 1, \A j \in 1..Len(h) : h[j] \in HostBytes,
           NEW a \in Seq(Nat), Begins(a, h)
    PROVE  HostStands(a, Len(h), h)
<1> DEFINE l == Len(h)
<1>1. l \in Nat /\ \A j \in 1..l : a[j] = h[j]
  BY DEF Begins
<1>2. HostAt(a, l)
  BY <1>1 DEF HostAt
<1>3. a[1] # Opening
  <2>1. \A c \in HostBytes : c # Opening
    BY DEF HostBytes, Digits, Dot, Opening
  <2>2. 1 \in 1..l
    BY <1>1
  <2>3. a[1] = h[1] /\ h[1] \in HostBytes
    BY <1>1, <2>2
  <2> QED
    BY <2>1, <2>3
<1>4. SubSeq(a, 1, l) = h
  <2>1. Stands(a, 1, h)
    BY StandsFirst
  <2>2. SubSeq(a, 1, 1 + l - 1) = h
    BY <2>1, SubSeqStands
  <2>3. 1 + l - 1 = l
    BY <1>1
  <2> QED
    BY <2>2, <2>3
<1>5. ASSUME NEW e PROVE HostOf(a, [colon |-> l + 1, dash |-> e]) = h
  <2> DEFINE m == [colon |-> l + 1, dash |-> e]
  <2>1. m.colon - 1 = l
    BY <1>1
  <2> HIDE DEF m
  <2>2. HostOf(a, m) = h
    BY <1>3, <1>4, <2>1 DEF HostOf
  <2> QED
    BY <2>2 DEF m
<1> QED
  BY <1>2, <1>5 DEF HostStands

LEMMA BracketsStand ==
    ASSUME NEW text \in Seq(1..255), text # <<>>, Closing \notin ToSet(text),
           NEW a \in Seq(Nat), Begins(a, Brackets(text))
    PROVE  HostStands(a, Len(Brackets(text)), text)
<1> DEFINE h == Brackets(text)
           l == Len(h)
<1>1. Len(text) \in Nat
  OBVIOUS
<1>3. /\ h \in Seq(Nat) /\ l = Len(text) + 2
      /\ h[1] = Opening /\ h[l] = Closing
      /\ \A j \in 1..Len(text) : h[j + 1] = text[j]
  BY BracketsAre
<1> HIDE DEF h
<1>4. l > 2 /\ l \in Nat
  <2>1. Len(text) >= 1
    OBVIOUS
  <2> QED
    BY <1>1, <1>3, <2>1
<1>5. l <= Len(a) /\ Len(a) \in Nat /\ \A j \in 1..l : a[j] = h[j]
  BY DEF Begins, h
<1>6. a[1] = Opening /\ a[l] = Closing
  <2>1. 1 \in 1..l /\ l \in 1..l
    BY <1>4
  <2> QED
    BY <1>3, <1>5, <2>1
<1>7. \A j \in 1..Len(text) : a[j + 1] = text[j]
  <2>1. \A j \in 1..Len(text) : j + 1 \in 1..l
    BY <1>1, <1>3
  <2> QED
    BY <1>3, <1>5, <2>1
<1>8. ASSUME NEW j \in 2..(l - 1) PROVE a[j] # Closing
  <2>1. j - 1 \in 1..Len(text) /\ (j - 1) + 1 = j
    BY <1>1, <1>3
  <2>2. a[j] = text[j - 1]
    BY <1>7, <2>1
  <2>3. text[j - 1] \in ToSet(text)
    BY <1>1, <2>1 DEF ToSet
  <2> QED
    BY <2>2, <2>3
<1>9. HostAt(a, l)
  BY <1>4, <1>6, <1>8 DEF HostAt
<1>10. SubSeq(a, 2, l - 1) = text
  <2>1. Stands(a, 2, text)
    <3>1. \A j \in 1..Len(text) : 2 + j - 1 = j + 1
      OBVIOUS
    <3>2. 2 + Len(text) <= Len(a) + 1
      BY <1>1, <1>3, <1>5
    <3> QED
      BY <1>7, <3>1, <3>2 DEF Stands
  <2>2. text \in Seq(Nat)
    <3>1. 1..255 \subseteq Nat
      OBVIOUS
    <3> QED
      BY <3>1, SeqMonotonic
  <2>3. SubSeq(a, 2, 2 + Len(text) - 1) = text
    BY <2>1, <2>2, SubSeqStands
  <2>4. 2 + Len(text) - 1 = l - 1
    BY <1>1, <1>3
  <2> QED
    BY <2>3, <2>4
<1>11. ASSUME NEW e PROVE HostOf(a, [colon |-> l + 1, dash |-> e]) = text
  <2> DEFINE m == [colon |-> l + 1, dash |-> e]
  <2>1. m.colon - 2 = l - 1
    BY <1>4
  <2> HIDE DEF m
  <2>2. HostOf(a, m) = text
    BY <1>6, <1>10, <2>1 DEF HostOf
  <2> QED
    BY <2>2 DEF m
<1> QED
  BY <1>9, <1>11 DEF HostStands, h

\* What stands behind a host of at least one byte is read over what memory holds.
LEMMA StandingIsAddressed ==
    ASSUME NEW a, NEW l \in Nat, l >= 1, NEW text, HostStands(a, l, text), NEW conf, NEW e
    PROVE  Addressed(conf, a, [colon |-> l + 1, dash |-> e]) = io_sock_atohost(conf, text)
<1> DEFINE m == [colon |-> l + 1, dash |-> e]
<1>1. m.colon > 1 /\ HostOf(a, m) = text
  BY DEF HostStands
<1> HIDE DEF m
<1>2. Addressed(conf, a, m) = io_sock_atohost(conf, text)
  BY <1>1 DEF Addressed
<1> QED
  BY <1>2 DEF m

\* a begins with the host, and whatever memory holds, it is taken as what is told of it.
HostIsTold(a, host) ==
    /\ HostAt(a, Len(host.text))
    /\ \A conf \in Host : \A e : IsTaken(Addressed(conf, a, [colon |-> Len(host.text) + 1, dash |-> e]), host)

LEMMA Host4IsTold ==
    ASSUME NEW ip \in AllIps, NEW a \in Seq(Nat), Begins(a, Host4(ip).text)
    PROVE  HostIsTold(a, Host4(ip))
<1> DEFINE h == ipv4_itostr(ip)
           l == Len(h)
<1>1. /\ h \in Seq(Nat) /\ l >= 1 /\ l \in Nat
      /\ \A j \in 1..l : h[j] \in Digits \cup {Dot}
  BY PrintedIsIpv4Text DEF IsIpv4Text, AllIps
<1>2. Host4(ip).text = h
  BY DEF Host4
<1>3. \A conf : HostIsRead(conf, h, Host4(ip), ip)
  BY Host4IsRead DEF AllIps
<1> HIDE DEF h
<1>4. HostStands(a, l, h)
  <2>1. \A j \in 1..l : h[j] \in HostBytes
    BY <1>1 DEF HostBytes
  <2> QED
    BY <1>1, <1>2, <2>1, BareStands
<1> HIDE DEF l
<1>5. ASSUME NEW conf \in Host, NEW e
      PROVE  IsTaken(Addressed(conf, a, [colon |-> l + 1, dash |-> e]), Host4(ip))
  <2>1. Addressed(conf, a, [colon |-> l + 1, dash |-> e]) = io_sock_atohost(conf, h)
    BY <1>1, <1>4, StandingIsAddressed
  <2> QED
    BY <1>3, <2>1, AddressIsTaken
<1> QED
  BY <1>2, <1>4, <1>5 DEF HostIsTold, HostStands, l

LEMMA Host6IsTold ==
    ASSUME NEW text \in AllTexts, NEW a \in Seq(Nat), Begins(a, Host6(text).text)
    PROVE  HostIsTold(a, Host6(text))
<1> DEFINE h == Brackets(text)
           l == Len(h)
           w == ipv6_ntoh(inet_pton[text])
<1>1. /\ IsIpv6Text(text) /\ text \in Seq(1..255) /\ text # <<>> /\ Closing \notin ToSet(text)
      /\ Len(text) \in Nat
  BY DEF AllTexts, IsIpv6Text
<1>2. Host6(text).text = h
  BY DEF Host6
<1>3. \A conf : HostIsRead(conf, text, Host6(text), w)
  BY <1>1, Host6IsRead
<1>4. HostStands(a, l, text) /\ l \in Nat /\ l >= 1
  <2>1. Begins(a, h)
    BY <1>2
  <2>2. HostStands(a, l, text)
    BY <1>1, <2>1, BracketsStand
  <2>3. l = Len(text) + 2
    BY <1>1, BracketsAre
  <2> HIDE DEF l
  <2> QED
    BY <1>1, <2>2, <2>3
<1> HIDE DEF h, l, w
<1>5. ASSUME NEW conf \in Host, NEW e
      PROVE  IsTaken(Addressed(conf, a, [colon |-> l + 1, dash |-> e]), Host6(text))
  <2>1. Addressed(conf, a, [colon |-> l + 1, dash |-> e]) = io_sock_atohost(conf, text)
    BY <1>1, <1>4, StandingIsAddressed
  <2> QED
    BY <1>3, <2>1, AddressIsTaken
<1> QED
  BY <1>2, <1>4, <1>5 DEF HostIsTold, HostStands, l

LEMMA NoHostIsTold ==
    ASSUME NEW h \in Seq(1..255), IsNoHost(h), NEW a \in Seq(Nat), Begins(a, NoHost(h).text)
    PROVE  HostIsTold(a, NoHost(h))
<1> DEFINE l == Len(h)
<1>1. NoHost(h).text = h /\ Begins(a, h)
  BY DEF NoHost
<1>2. h \in Seq(Nat) /\ l \in Nat
  <2>1. 1..255 \subseteq Nat
    OBVIOUS
  <2>2. h \in Seq(Nat)
    BY <2>1, SeqMonotonic
  <2> QED
    BY <2>2
<1>3. ASSUME l >= 1, NEW text, IsNoAddress(text), HostStands(a, l, text)
      PROVE  HostIsTold(a, NoHost(h))
  <2> HIDE DEF l
  <2>1. \A conf \in Host : \A e : IsTaken(Addressed(conf, a, [colon |-> l + 1, dash |-> e]), NoHost(h))
    BY <1>2, <1>3, StandingIsAddressed, NoHostIsTaken
  <2> QED
    BY <1>1, <1>3, <2>1 DEF HostIsTold, HostStands, l
<1>4. CASE h \in Seq(HostBytes) /\ IsNoAddress(h) /\ l >= 1
  <2>1. \A j \in 1..l : h[j] \in HostBytes
    BY <1>4
  <2>2. HostStands(a, l, h)
    BY <1>1, <1>2, <1>4, <2>1, BareStands
  <2> QED
    BY <1>3, <1>4, <2>2
<1>5. CASE l = 0
  <2>1. HostAt(a, l)
    BY <1>5 DEF HostAt
  <2>2. ASSUME NEW conf \in Host, NEW e
        PROVE  IsTaken(Addressed(conf, a, [colon |-> l + 1, dash |-> e]), NoHost(h))
    <3> DEFINE m == [colon |-> l + 1, dash |-> e]
    <3>1. ~(m.colon > 1)
      BY <1>5
    <3> HIDE DEF m
    <3>2. Addressed(conf, a, m) = conf
      BY <3>1 DEF Addressed
    <3>3. IsTaken(conf, NoHost(h))
      BY NoHostIsTaken
    <3> QED
      BY <3>2, <3>3 DEF m
  <2> HIDE DEF l
  <2> QED
    BY <1>1, <2>1, <2>2 DEF HostIsTold, l
<1>6. ASSUME Len(h) > 2, h = Brackets(SubSeq(h, 2, Len(h) - 1)),
             Closing \notin ToSet(SubSeq(h, 2, Len(h) - 1)), IsNoAddress(SubSeq(h, 2, Len(h) - 1))
      PROVE  HostIsTold(a, NoHost(h))
  <2> DEFINE y == Len(h) - 1
             text == SubSeq(h, 2, y)
             two == 2
  <2>1. y \in Int /\ y <= Len(h) /\ two \in Nat /\ two >= 1 /\ two <= y
    BY <1>2, <1>6
  <2> HIDE DEF y
  <2>2. text \in Seq(1..255) /\ Len(text) = y - two + 1
    <3> HIDE DEF two
    <3>1. SubSeq(h, two, y) \in Seq(1..255) /\ Len(SubSeq(h, two, y)) = IF two <= y THEN y - two + 1 ELSE 0
      <4> DEFINE T == 1..255
      <4>1. h \in Seq(T)
        OBVIOUS
      <4> HIDE DEF T
      <4>2. SubSeq(h, two, y) \in Seq(T) /\ Len(SubSeq(h, two, y)) = IF two <= y THEN y - two + 1 ELSE 0
        BY <2>1, <4>1, PartOf
      <4> QED
        BY <4>2 DEF T
    <3> QED
      BY <2>1, <3>1 DEF two
  <2> HIDE DEF text
  <2>3. text # <<>>
    BY <2>1, <2>2
  <2>4. h = Brackets(text) /\ Closing \notin ToSet(text) /\ IsNoAddress(text)
    BY <1>6 DEF text, y
  <2>5. HostStands(a, Len(Brackets(text)), text)
    BY <1>1, <2>2, <2>3, <2>4, BracketsStand
  <2>6. HostStands(a, l, text) /\ l >= 1
    BY <1>2, <1>6, <2>4, <2>5
  <2> QED
    BY <1>3, <2>4, <2>6
<1>7. l = 0 \/ l >= 1
  BY <1>2
<1> QED
  BY <1>4, <1>5, <1>6, <1>7 DEF IsNoHost

LEMMA HostIsText ==
    ASSUME NEW host \in AllHosts
    PROVE  host.text \in Seq(Nat)
<1>1. ASSUME NEW ip \in AllIps, host = Host4(ip) PROVE host.text \in Seq(Nat)
  <2>1. host.text = ipv4_itostr(ip)
    BY <1>1 DEF Host4
  <2> QED
    BY <2>1, PrintedIsIpv4Text DEF IsIpv4Text, AllIps
<1>2. ASSUME NEW text \in AllTexts, host = Host6(text) PROVE host.text \in Seq(Nat)
  <2> DEFINE h == Brackets(text)
  <2>1. host.text = h
    BY <1>2 DEF Host6
  <2>2. text \in Seq(1..255)
    BY DEF AllTexts, IsIpv6Text
  <2>3. h \in Seq(Nat)
    BY <2>2, BracketsAre
  <2> HIDE DEF h
  <2> QED
    BY <2>1, <2>3
<1>3. ASSUME NEW text \in Seq(1..255), host = NoHost(text) PROVE host.text \in Seq(Nat)
  <2>1. host.text = text
    BY <1>3 DEF NoHost
  <2>2. 1..255 \subseteq Nat
    OBVIOUS
  <2> QED
    BY <2>1, <2>2, SeqMonotonic
<1> QED
  BY <1>1, <1>2, <1>3 DEF AllHosts

\* What an argument of the program is to be read as, over whatever an address may hold.
IsReadAs(program, text, means) ==
    \A conf \in Host : \A r \in Readings(program, text, conf) :
        /\ r.serv.conf \in Host
        /\ r.serv.ports_num \in Nat
        /\ Agree(IF r.kept THEN AddressesOf(r.serv) ELSE {}, means)

LEMMA HostWithTailIsRead ==
    ASSUME PortSize \in Nat, CountSize \in Nat, PortSize < CountSize, PortSize <= 10 * Tens[5],
           NEW host \in AllHosts,
           NEW port \in AllPorts, NEW last \in AllPorts, last >= port - 1,
           NEW t, NEW dash, IsTail(t, port, last, dash)
    PROVE  /\ ~Invalid("sock-echo", host.text \o t)
           /\ IsReadAs("sock-echo", host.text \o t, Endpoints(host, port..last))
<1> DEFINE h == host.text
           l == Len(h)
           a == h \o t
           e == l + dash
           m == [colon |-> l + 1, dash |-> e]
           E == Endpoints(host, port..last)
<1>1. /\ port \in Nat /\ last \in Nat /\ port < 10 * Tens[5] /\ last < 10 * Tens[5]
      /\ port \in 0..(PortSize - 1) /\ last \in 0..(PortSize - 1)
  BY DEF AllPorts, Tens
<1>2. h \in Seq(Nat) /\ l \in Nat
  BY HostIsText
<1>3. /\ a \in Seq(Nat) /\ \A j \in 1..l : a[j] = h[j]
      /\ Parts(a, l, e)
      /\ atoi(a, l + 2) = port
      /\ IF e > Len(a) THEN last = port ELSE atoi(a, e + 1) = last
  <2> HIDE DEF h
  <2> QED
    <3>1. HasPorts(h \o t, h, port, last, Len(h) + dash)
      BY <1>1, <1>2, TailBehindHost, Zenon
    <3> HIDE DEF a, e
    <3>2. HasPorts(a, h, port, last, e)
      BY <3>1 DEF a, e
    <3> QED
      BY <3>2 DEF HasPorts
<1> HIDE DEF a, e
<1>4. Begins(a, h)
  <2>1. l <= Len(a)
    BY <1>2, <1>3 DEF Parts
  <2> QED
    BY <1>3, <2>1 DEF Begins
<1>5. HostIsTold(a, host)
  <2>1. ASSUME NEW ip \in AllIps, host = Host4(ip) PROVE HostIsTold(a, host)
    BY <1>3, <1>4, <2>1, Host4IsTold
  <2>2. ASSUME NEW text \in AllTexts, host = Host6(text) PROVE HostIsTold(a, host)
    BY <1>3, <1>4, <2>2, Host6IsTold
  <2>3. ASSUME NEW text \in Seq(1..255), IsNoHost(text), host = NoHost(text) PROVE HostIsTold(a, host)
    BY <1>3, <1>4, <2>3, NoHostIsTold
  <2> QED
    BY <2>1, <2>2, <2>3 DEF AllHosts
<1>6. HostAt(a, l) /\ \A conf \in Host : IsTaken(Addressed(conf, a, m), host)
  BY <1>5 DEF HostIsTold
<1> HIDE DEF h, l, E
<1>7. Matches(a) = {m}
  BY <1>3, <1>6, OneMatch
<1>8. ~Invalid("sock-echo", a)
  BY <1>7 DEF Invalid
<1>9. ASSUME NEW conf \in Host, NEW r \in Readings("sock-echo", a, conf)
      PROVE  /\ r.serv.conf \in Host
             /\ r.serv.ports_num \in Nat
             /\ Agree(IF r.kept THEN AddressesOf(r.serv) ELSE {}, E)
  <2> DEFINE s == EchoServ(conf, a, m)
  <2>1. IsTaken(Addressed(conf, a, m), host)
    BY <1>6
  <2>2. /\ s.conf \in Host /\ s.ports_num \in Nat
        /\ Agree(IF s.ports_num >= 1 THEN AddressesOf(s) ELSE {}, E)
    BY <1>1, <1>2, <1>3, <2>1, ServIsMeant DEF E
  <2> HIDE DEF m
  <2>3. r = [serv |-> s, kept |-> s.ports_num >= 1]
    <3>1. Readings("sock-echo", a, conf)
              = {[serv |-> x, kept |-> x.ports_num >= 1] : x \in {EchoServ(conf, a, y) : y \in {m}}}
      BY <1>7 DEF Readings
    <3>2. {EchoServ(conf, a, y) : y \in {m}} = {s}
      OBVIOUS
    <3> HIDE DEF s
    <3> QED
      BY <3>1, <3>2
  <2> HIDE DEF s
  <2>4. r.serv = s /\ r.kept = (s.ports_num >= 1)
    BY <2>3
  <2> QED
    BY <2>2, <2>4
<1>10. IsReadAs("sock-echo", a, E)
  BY <1>9 DEF IsReadAs
<1> QED
  BY <1>8, <1>10 DEF a, h, E

LEMMA EchoArgumentIsRead ==
    ASSUME PortSize \in Nat, CountSize \in Nat, PortSize < CountSize, PortSize <= 10 * Tens[5],
           NEW arg, IsEchoArgument(arg, AllHosts, AllPorts)
    PROVE  ~Invalid("sock-echo", arg.text) /\ IsReadAs("sock-echo", arg.text, arg.means)
<1>1. PICK host \in AllHosts, port \in AllPorts, last \in AllPorts :
               /\ last >= port - 1
               /\ \/ arg.text = host.text \o Through(port, last)
                  \/ arg.text = host.text \o Single(port) /\ last = port
               /\ arg.means = Endpoints(host, port..last)
  BY DEF IsEchoArgument
<1>2. port \in Nat /\ last \in Nat /\ port < 10 * Tens[5] /\ last < 10 * Tens[5]
  BY DEF AllPorts, Tens
<1>3. CASE arg.text = host.text \o Through(port, last)
  <2>1. \E dash : IsTail(Through(port, last), port, last, dash)
    BY <1>2, ThroughIsTail, Zenon
  <2>2. PICK dash : IsTail(Through(port, last), port, last, dash)
    BY <2>1
  <2> QED
    BY <1>1, <1>3, <2>2, HostWithTailIsRead
<1>4. CASE arg.text = host.text \o Single(port) /\ last = port
  <2>1. \E dash : IsTail(Single(port), port, port, dash)
    BY <1>2, SingleIsTail, Zenon
  <2>2. PICK dash : IsTail(Single(port), port, last, dash)
    BY <1>4, <2>1
  <2> QED
    BY <1>1, <1>4, <2>2, HostWithTailIsRead
<1> QED
  BY <1>1, <1>3, <1>4

-----------------------------------------------------------------------------
(* The arguments of rpxys *)

\* ipv4_stoa writes the address and then a port as an argument has one.
LEMMA StoaIs ==
    ASSUME NEW ip \in AllIps, NEW port \in Nat, port < 10 * Tens[5]
    PROVE  ipv4_stoa(ip, port) = ipv4_itostr(ip) \o Single(port)
<1> DEFINE h == ipv4_itostr(ip)
           c == <<Colon>>
           d == Decimal(port)
<1>1. h \in Seq(Nat)
  BY PrintedIsIpv4Text DEF IsIpv4Text, AllIps
<1>2. c \in Seq(Nat)
  BY DEF Colon
<1>3. d \in Seq(Nat)
  BY DecimalIsText
<1>4. ipv4_stoa(ip, port) = (h \o c) \o d
  BY DEF ipv4_stoa
<1>5. Single(port) = c \o d
  BY DEF Single
<1> HIDE DEF h, c, d
<1>6. (h \o c) \o d = h \o (c \o d)
  <2> DEFINE N == Nat
  <2>1. h \in Seq(N) /\ c \in Seq(N) /\ d \in Seq(N)
    BY <1>1, <1>2, <1>3
  <2> HIDE DEF N
  <2> QED
    BY <2>1, ConcatAssociative
<1> QED
  BY <1>4, <1>5, <1>6 DEF h

LEMMA PortFits ==
    ASSUME PortSize <= 10 * Tens[5], NEW port \in AllPorts
    PROVE  PortSize \in Nat /\ port \in Nat /\ port < 10 * Tens[5] /\ port % PortSize = port
<1>1. PortSize \in Nat /\ PortSize > 0
  BY SockAddrAssumption
<1>2. port \in Nat /\ port < PortSize
  BY <1>1 DEF AllPorts
<1>3. port < 10 * Tens[5]
  BY <1>1, <1>2 DEF Tens
<1>4. port % PortSize = port
  BY <1>1, <1>2
<1> QED
  BY <1>1, <1>2, <1>3, <1>4

\* An IPv4 address with a port that ipv4_stoa writes is the one that io_sock_atos reads
\* back, whatever stood in memory.
THEOREM EndpointIsReadBack ==
    ASSUME PortSize <= 10 * Tens[5]
    PROVE  \A host \in Host, ip \in AllIps, port \in AllPorts : \A junk :
               io_sock_atos(host, ipv4_stoa(ip, port), junk)
                   = Read([family |-> "inet", addr |-> ip, port |-> port])
<1> SUFFICES ASSUME NEW host \in Host, NEW junk, NEW ip \in AllIps, NEW port \in AllPorts
             PROVE  io_sock_atos(host, ipv4_stoa(ip, port), junk)
                        = Read([family |-> "inet", addr |-> ip, port |-> port])
  OBVIOUS
<1> DEFINE h == ipv4_itostr(ip)
           s == Single(port)
           a == h \o s
           l == Len(h)
           e == l + (2 + Len(Decimal(port)))
<1>1. PortSize \in Nat /\ port \in Nat /\ port < 10 * Tens[5] /\ port % PortSize = port
  BY PortFits
<1>2. /\ h \in Seq(Nat) /\ l >= 1 /\ l \in Nat /\ h[1] \in Digits
      /\ \A j \in 1..l : h[j] \in Digits \cup {Dot}
  BY PrintedIsIpv4Text DEF IsIpv4Text, AllIps
<1>3. IsTail(s, port, port, 2 + Len(Decimal(port)))
  BY <1>1, SingleIsTail
<1>4. s \in Seq(Nat) /\ At(s, 1) = Colon
  BY <1>3 DEF IsTail
<1>5. ipv4_isip(a) /\ ipv4_atoi(a) = ip
  <2>1. At(s, 1) \notin Digits
    BY <1>4 DEF Colon, Digits
  <2> HIDE DEF s
  <2> QED
    BY <1>4, <2>1, Ipv4IsReadBack DEF AllIps
<1>6. HasPorts(a, h, port, port, e)
  <2> HIDE DEF h, s
  <2> QED
    BY <1>1, <1>2, <1>3, TailBehindHost
<1>7. ipv4_stoa(ip, port) = a
  BY <1>1, StoaIs
<1> HIDE DEF a, h, l, s, e
<1>8. /\ a \in Seq(Nat) /\ \A j \in 1..l : a[j] = h[j]
      /\ l + 1 \in 1..Len(a) /\ a[l + 1] = Colon
      /\ atoi(a, l + 2) = port
  BY <1>6 DEF HasPorts, Parts, l
<1>9. DOMAIN a = 1..Len(a) /\ Len(a) \in Nat /\ 1 \in 1..l /\ 1 \in DOMAIN a
  BY <1>2, <1>8
<1>10. At(a, 1) # Slash /\ At(a, 1) # Opening
  <2>1. \A c \in Digits : c # Slash /\ c # Opening
    BY DEF Digits, Slash, Opening
  <2>2. At(a, 1) = h[1]
    BY <1>8, <1>9 DEF At
  <2> QED
    BY <1>2, <2>1, <2>2
<1>11. At(a, l + 1) = Colon
  BY <1>8, <1>9 DEF At
<1>12. Behind(a, 1, 1..255 \ {Colon}) = l + 1
  <2> DEFINE S == 1..255 \ {Colon}
  <2>1. \A c \in Digits \cup {Dot} : c \in S
    BY DEF Digits, Dot, Colon
  <2>2. Colon \notin S
    OBVIOUS
  <2> HIDE DEF S
  <2>3. \A j \in 1..((l + 1) - 1) : a[j] \in S
    <3>1. (l + 1) - 1 = l
      BY <1>2
    <3>2. \A j \in 1..l : a[j] = h[j] /\ h[j] \in Digits \cup {Dot}
      BY <1>2, <1>8
    <3>3. \A j \in 1..l : a[j] \in S
      BY <2>1, <3>2, Zenon
    <3> QED
      BY <3>1, <3>3
  <2>4. l + 1 \in 1..(Len(a) + 1)
    BY <1>2, <1>8, <1>9
  <2> QED
    BY <1>8, <1>11, <2>2, <2>3, <2>4, BehindIs DEF S
<1>13. (l + 1) + 1 = l + 2
  BY <1>2
<1>14. io_sock_atos(host, a, junk)
           = Read([[host EXCEPT !.family = "inet", !.addr = ip] EXCEPT !.port = port])
  <2>1. io_sock_atos(host, a, junk) = AtosIpv4(host, a)
    BY <1>10 DEF io_sock_atos
  <2> DEFINE colon == Behind(a, 1, 1..255 \ {Colon})
  <2>2. colon = l + 1 /\ atoi(a, colon + 1) % PortSize = port
    BY <1>1, <1>8, <1>12, <1>13
  <2>3. At(a, colon) = Colon
    BY <1>11, <1>12
  <2> QED
    BY <1>5, <2>1, <2>2, <2>3 DEF AtosIpv4
<1>15. [[host EXCEPT !.family = "inet", !.addr = ip] EXCEPT !.port = port]
           = [family |-> "inet", addr |-> ip, port |-> port]
  <2> DEFINE f == "inet"
  <2> HIDE DEF f
  <2>1. Replaced(host, f, ip, port) = [family |-> f, addr |-> ip, port |-> port]
    BY FieldsReplaced
  <2> QED
    BY <2>1 DEF f, Replaced
<1> QED
  BY <1>7, <1>14, <1>15

\* A server with one port serves the address it holds.
LEMMA OnePort ==
    ASSUME NEW c
    PROVE  AddressesOf([conf |-> c, ports_num |-> 1]) = {AddressOf(c, 0)}
<1>1. 0..(1 - 1) = {0}
  OBVIOUS
<1> QED
  BY <1>1 DEF AddressesOf

LEMMA ReadIsProxied ==
    ASSUME NEW program, program # "sock-echo", NEW a, NEW means,
           \A conf \in Host : \A junk \in Junk :
               LET r == io_sock_atos(conf, a, junk)
               IN r.host \in Host /\ Agree(IF r.ok THEN {AddressOf(r.host, 0)} ELSE {}, means)
    PROVE  IsReadAs(program, a, means)
<1> SUFFICES ASSUME NEW conf \in Host, NEW r \in Readings(program, a, conf)
             PROVE  /\ r.serv.conf \in Host /\ r.serv.ports_num \in Nat
                    /\ Agree(IF r.kept THEN AddressesOf(r.serv) ELSE {}, means)
  BY DEF IsReadAs
<1>1. Readings(program, a, conf)
          = {[serv |-> [conf |-> x.host, ports_num |-> 1], kept |-> x.ok] :
                x \in {io_sock_atos(conf, a, junk) : junk \in Junk}}
  BY DEF Readings
<1>2. PICK junk \in Junk :
          LET x == io_sock_atos(conf, a, junk)
          IN r = [serv |-> [conf |-> x.host, ports_num |-> 1], kept |-> x.ok]
  BY <1>1
<1> DEFINE x == io_sock_atos(conf, a, junk)
           s == [conf |-> x.host, ports_num |-> 1]
<1>3. r.serv = s /\ r.kept = x.ok
  BY <1>2
<1>4. s.conf = x.host /\ s.ports_num = 1
  OBVIOUS
<1>5. x.host \in Host /\ Agree(IF x.ok THEN {AddressOf(x.host, 0)} ELSE {}, means)
  OBVIOUS
<1> HIDE DEF x
<1>6. AddressesOf(s) = {AddressOf(x.host, 0)}
  BY OnePort
<1> HIDE DEF s
<1> QED
  BY <1>3, <1>4, <1>5, <1>6

LEMMA PathIsRead ==
    ASSUME NEW a \in Seq(1..255), a # <<>>, a[1] = Slash, NEW conf \in Host, NEW junk
    PROVE  LET r == io_sock_atos(conf, a, junk)
           IN r.host \in Host /\ r.ok
              /\ AddressOf(r.host, 0) = [family |-> "unix", addr |-> a, port |-> 0]
<1> DEFINE c == [conf EXCEPT !.family = "unix", !.addr = a]
           r == io_sock_atos(conf, a, junk)
<1>1. At(a, 1) = Slash
  <2>1. 1 \in DOMAIN a
    OBVIOUS
  <2> QED
    BY <2>1 DEF At
<1>2. r = Read(c)
  BY <1>1 DEF io_sock_atos
<1>3. r.host = c /\ r.ok
  BY <1>2 DEF Read
<1>4. a \in Seq(Nat)
  <2>1. 1..255 \subseteq Nat
    OBVIOUS
  <2> QED
    BY <2>1, SeqMonotonic
<1>5. c \in Host
  BY <1>4 DEF Host
<1>6. c.family = "unix" /\ c.addr = a
  BY DEF Host
<1> HIDE DEF c, r
<1>7. AddressOf(c, 0) = [family |-> "unix", addr |-> a, port |-> 0]
  <2> DEFINE q == (c.port + 0) % PortSize
             d == [c EXCEPT !.port = q]
  <2> HIDE DEF q
  <2>1. d.family = "unix" /\ d.addr = a
    BY <1>5, <1>6 DEF Host
  <2> HIDE DEF d
  <2>2. io_sock_set_addr(d) = [family |-> "unix", addr |-> a, port |-> 0]
    BY <2>1 DEF io_sock_set_addr
  <2> QED
    BY <2>2 DEF AddressOf, d, q
<1> QED
  BY <1>3, <1>5, <1>7 DEF r

\* Of an address alone the port is not told.
LEMMA BareAddressIsRead ==
    ASSUME NEW ip \in AllIps, NEW conf \in Host, NEW junk
    PROVE  LET r == io_sock_atos(conf, ipv4_itostr(ip), junk)
           IN r.host \in Host /\ r.ok
              /\ AddressOf(r.host, 0).family = "inet" /\ AddressOf(r.host, 0).addr = ip
<1> DEFINE a == ipv4_itostr(ip)
           l == Len(a)
           c == [conf EXCEPT !.family = "inet", !.addr = ip]
           r == io_sock_atos(conf, a, junk)
<1>1. /\ a \in Seq(Nat) /\ l >= 1 /\ l \in Nat /\ a[1] \in Digits
      /\ \A j \in 1..l : a[j] \in Digits \cup {Dot}
  BY PrintedIsIpv4Text DEF IsIpv4Text, AllIps
<1>2. ipv4_isip(a) /\ ipv4_atoi(a) = ip
  BY AddressWithoutTail DEF AllIps
<1>3. ip \in Seq(Nat)
  BY Host4IsRead DEF AllIps, HostIsRead
<1> HIDE DEF a
<1>4. At(a, 1) # Slash /\ At(a, 1) # Opening
  <2>1. \A x \in Digits : x # Slash /\ x # Opening
    BY DEF Digits, Slash, Opening
  <2>2. At(a, 1) = a[1]
    BY <1>1 DEF At
  <2> QED
    BY <1>1, <2>1, <2>2
<1>5. At(a, l + 1) = 0
  <2>1. l + 1 \notin DOMAIN a
    BY <1>1
  <2> QED
    BY <2>1 DEF At
<1>6. Behind(a, 1, 1..255 \ {Colon}) = l + 1
  <2> DEFINE S == 1..255 \ {Colon}
  <2>1. \A x \in Digits \cup {Dot} : x \in S
    BY DEF Digits, Dot, Colon
  <2>2. 0 \notin S
    OBVIOUS
  <2> HIDE DEF S
  <2>3. \A j \in 1..((l + 1) - 1) : a[j] \in S
    <3>1. (l + 1) - 1 = l
      BY <1>1
    <3> QED
      BY <1>1, <2>1, <3>1
  <2>4. l + 1 \in 1..(Len(a) + 1)
    BY <1>1
  <2>5. At(a, l + 1) \notin S
    BY <1>5, <2>2
  <2>6. Behind(a, 1, S) = l + 1
    BY <1>1, <2>3, <2>4, <2>5, BehindIs
  <2> QED
    BY <2>6 DEF S
<1>7. r = Read(c)
  <2>1. r = AtosIpv4(conf, a)
    BY <1>4 DEF io_sock_atos
  <2>2. At(a, Behind(a, 1, 1..255 \ {Colon})) # Colon
    BY <1>5, <1>6 DEF Colon
  <2> QED
    BY <1>2, <2>1, <2>2 DEF AtosIpv4
<1>8. r.host = c /\ r.ok
  BY <1>7 DEF Read
<1>9. c \in Host /\ c.family = "inet" /\ c.addr = ip
  BY <1>3 DEF Host
<1> HIDE DEF c, r
<1>10. AddressOf(c, 0).family = "inet" /\ AddressOf(c, 0).addr = ip
  <2> DEFINE q == (c.port + 0) % PortSize
             d == [c EXCEPT !.port = q]
  <2> HIDE DEF q
  <2>1. d.family = "inet" /\ d.addr = ip
    BY <1>9 DEF Host
  <2> HIDE DEF d
  <2>2. io_sock_set_addr(d) = [family |-> "inet", addr |-> ip, port |-> d.port]
    BY <2>1 DEF io_sock_set_addr
  <2> QED
    BY <2>2 DEF AddressOf, d, q
<1> QED
  BY <1>8, <1>9, <1>10 DEF r, a

\* Where the brackets around an address are found again.
LEMMA BracketsAreFound ==
    ASSUME NEW text \in AllTexts, NEW a \in Seq(Nat), Begins(a, Brackets(text))
    PROVE  LET l == Len(text) + 2
           IN /\ Len(text) \in Nat /\ Len(text) >= 1 /\ l <= Len(a)
              /\ At(a, 1) = Opening /\ At(a, l) = Closing /\ a[l] = Closing
              /\ Behind(a, 2, 1..255 \ {Closing}) = l
<1> DEFINE h == Brackets(text)
           l == Len(text) + 2
<1>1. text \in Seq(1..255) /\ text # <<>> /\ Closing \notin ToSet(text) /\ Len(text) \in Nat
  BY DEF AllTexts, IsIpv6Text
<1>2. /\ h \in Seq(Nat) /\ Len(h) = l
      /\ h[1] = Opening /\ h[l] = Closing
      /\ \A j \in 1..Len(text) : h[j + 1] = text[j]
  BY <1>1, BracketsAre
<1>3. Begins(a, h)
  OBVIOUS
<1> HIDE DEF h
<1>4. l <= Len(a) /\ \A j \in 1..l : a[j] = h[j]
  BY <1>2, <1>3 DEF Begins
<1>5. Len(text) >= 1 /\ l \in Nat /\ l >= 3 /\ l = Len(text) + 2
  BY <1>1
<1> HIDE DEF l
<1>6. DOMAIN a = 1..Len(a) /\ Len(a) \in Nat
  OBVIOUS
<1>7. At(a, 1) = Opening /\ At(a, l) = Closing /\ a[l] = Closing
  <2>1. 1 \in 1..l /\ l \in 1..l /\ 1 \in DOMAIN a /\ l \in DOMAIN a
    BY <1>4, <1>5, <1>6
  <2> QED
    BY <1>2, <1>4, <2>1 DEF At
<1>8. Behind(a, 2, 1..255 \ {Closing}) = l
  <2> DEFINE S == 1..255 \ {Closing}
  <2>1. ASSUME NEW j \in 2..(l - 1) PROVE a[j] \in S
    <3>1. j - 1 \in 1..Len(text) /\ (j - 1) + 1 = j /\ j \in 1..l
      BY <1>1, <1>5
    <3>2. a[j] = text[j - 1]
      BY <1>2, <1>4, <3>1
    <3>3. text[j - 1] \in 1..255
      BY <1>1, <3>1, ElementOfSeq
    <3>4. text[j - 1] \in ToSet(text)
      BY <1>1, <3>1 DEF ToSet
    <3> QED
      BY <1>1, <3>2, <3>3, <3>4
  <2>2. Closing \notin S
    OBVIOUS
  <2> HIDE DEF S
  <2>3. l \in 2..(Len(a) + 1)
    BY <1>4, <1>5, <1>6
  <2> QED
    <3> DEFINE p == 2
    <3>1. p \in Nat /\ p >= 1 /\ At(a, l) \notin S
      BY <1>7, <2>2
    <3>2. \A j \in p..(l - 1) : a[j] \in S
      BY <2>1
    <3>3. l \in p..(Len(a) + 1) /\ a \in Seq(Nat)
      BY <2>3
    <3> HIDE DEF p
    <3>4. Behind(a, p, S) = l
      BY <3>1, <3>2, <3>3, BehindIs
    <3> QED
      BY <3>4 DEF S, p
<1> QED
  BY <1>1, <1>4, <1>5, <1>7, <1>8 DEF l

\* Without a colon behind them brackets are refused.
LEMMA BracketsWithoutColon ==
    ASSUME NEW text \in AllTexts, NEW a \in Seq(Nat), Begins(a, Brackets(text)),
           At(a, Len(text) + 3) # Colon, NEW conf, NEW junk
    PROVE  io_sock_atos(conf, a, junk) = Refused(conf) /\ At(a, 1) = Opening
<1> DEFINE b == Behind(a, 2, 1..255 \ {Closing}) + 2
<1>1. Len(text) \in Nat /\ At(a, 1) = Opening /\ b = (Len(text) + 2) + 2
  BY BracketsAreFound
<1>2. b - 1 = Len(text) + 3
  BY <1>1
<1>3. At(a, b - 1) # Colon
  BY <1>2
<1>4. Copied(a) = <<>>
  BY <1>3 DEF Copied
<1>5. Opening # Slash
  BY DEF Opening, Slash
<1>6. io_sock_atos(conf, a, junk) = Refused(conf)
  BY <1>1, <1>4, <1>5 DEF io_sock_atos, AtosIpv6
<1> QED
  BY <1>1, <1>6

\* With a colon and a port behind them the port is read, and the address is what the
\* stack held.
LEMMA BracketsWithPort ==
    ASSUME PortSize <= 10 * Tens[5],
           NEW text \in AllTexts, NEW port \in AllPorts, NEW conf \in Host, NEW junk \in Seq(Nat)
    PROVE  LET a == Brackets(text) \o Single(port)
               r == io_sock_atos(conf, a, junk)
           IN /\ At(a, 1) = Opening
              /\ r.host \in Host /\ r.ok
              /\ AddressOf(r.host, 0).family = "inet6" /\ AddressOf(r.host, 0).port = port
<1> DEFINE h == Brackets(text)
           s == Single(port)
           a == h \o s
           l == Len(h)
           e == l + (2 + Len(Decimal(port)))
           filled == [conf EXCEPT !.addr = junk]
           c == [filled EXCEPT !.family = "inet6", !.port = port]
           r == io_sock_atos(conf, a, junk)
<1>1. PortSize \in Nat /\ port \in Nat /\ port < 10 * Tens[5] /\ port % PortSize = port
  BY PortFits
<1>2. h \in Seq(Nat) /\ l = Len(text) + 2
  <2>1. text \in Seq(1..255)
    BY DEF AllTexts, IsIpv6Text
  <2> QED
    BY <2>1, BracketsAre
<1>3. IsTail(s, port, port, 2 + Len(Decimal(port)))
  BY <1>1, SingleIsTail
<1>4. HasPorts(a, h, port, port, e)
  <2> HIDE DEF h, s
  <2> QED
    BY <1>1, <1>2, <1>3, TailBehindHost
<1> HIDE DEF a, e, s
<1>5. /\ a \in Seq(Nat) /\ \A j \in 1..l : a[j] = h[j]
      /\ l \in Nat /\ l + 1 \in 1..Len(a) /\ a[l + 1] = Colon
      /\ atoi(a, l + 2) = port
  BY <1>4 DEF HasPorts, Parts
<1>6. Begins(a, h) /\ DOMAIN a = 1..Len(a) /\ Len(a) \in Nat
  BY <1>5 DEF Begins
<1>7. /\ Len(text) \in Nat /\ l >= 3
      /\ At(a, 1) = Opening /\ At(a, l) = Closing /\ a[l] = Closing
      /\ Behind(a, 2, 1..255 \ {Closing}) = l
  <2>1. /\ Len(text) \in Nat /\ Len(text) >= 1
        /\ At(a, 1) = Opening /\ At(a, Len(text) + 2) = Closing /\ a[Len(text) + 2] = Closing
        /\ Behind(a, 2, 1..255 \ {Closing}) = Len(text) + 2
    BY <1>5, <1>6, BracketsAreFound
  <2> HIDE DEF l
  <2> QED
    BY <1>2, <2>1
<1> HIDE DEF h, l
<1>8. At(a, l + 1) = Colon
  BY <1>5, <1>6 DEF At
<1>9. Copied(a) = SubSeq(a, 2, l + 1)
  <2>1. (l + 2) - 2 = l /\ (l + 2) - 1 = l + 1
    BY <1>5
  <2> QED
    BY <1>7, <1>8, <2>1 DEF Copied
<1>10. Len(Copied(a)) = l /\ Closing \in ToSet(Copied(a))
  <2> DEFINE y == l + 1
             two == 2
             t == SubSeq(a, two, y)
  <2>1. y \in Int /\ y <= Len(a) /\ two \in Nat /\ two >= 1 /\ two <= y /\ y - two + 1 = l /\ l \in two..y
    BY <1>5, <1>6, <1>7
  <2> HIDE DEF y, two
  <2>2. Len(t) = (IF two <= y THEN y - two + 1 ELSE 0) /\ ToSet(t) = {a[j] : j \in two..y}
    BY <1>5, <2>1, PartOf
  <2>3. Len(t) = l /\ Closing \in ToSet(t)
    BY <1>7, <2>1, <2>2
  <2> QED
    BY <1>9, <2>3 DEF y, two
<1>11. Copied(a) # <<>> /\ ~ipv6_isip(Copied(a))
  <2>1. Copied(a) # <<>>
    BY <1>7, <1>10
  <2>2. Copied(a) \notin DOMAIN inet_pton
    BY <1>10, SockAddrAssumption
  <2> QED
    BY <2>1, <2>2 DEF ipv6_isip
<1>12. r = Read(c)
  <2>1. Opening # Slash
    BY DEF Opening, Slash
  <2>2. r = AtosIpv6(conf, a, junk)
    BY <1>7, <2>1 DEF io_sock_atos
  <2>3. ipv6_atoh(Copied(a), junk) = [ret |-> -1, addr |-> junk]
    BY <1>11 DEF ipv6_atoh
  <2>4. atoi(a, Len(Copied(a)) + 2) % PortSize = port
    BY <1>1, <1>5, <1>10
  <2> DEFINE t == Copied(a)
             x == ipv6_atoh(t, junk)
             k == atoi(a, Len(t) + 2) % PortSize
  <2>5. x.ret # 0 /\ x.addr = junk /\ t # <<>> /\ k = port
    BY <1>11, <2>3, <2>4
  <2> HIDE DEF r, t, x, k
  <2>6. AtosIpv6(conf, a, junk) = Read([[conf EXCEPT !.addr = x.addr] EXCEPT !.family = "inet6", !.port = k])
    BY <2>5 DEF AtosIpv6, t, x, k
  <2> QED
    BY <2>2, <2>5, <2>6
<1>13. r.host = c /\ r.ok
  BY <1>12 DEF Read
<1>14. c \in Host /\ c.family = "inet6" /\ c.port = port
  <2>1. filled \in Host
    BY DEF Host
  <2> HIDE DEF filled
  <2> QED
    BY <1>1, <2>1 DEF Host
<1> HIDE DEF c, r
<1>15. AddressOf(c, 0).family = "inet6" /\ AddressOf(c, 0).port = port
  <2> DEFINE q == (c.port + 0) % PortSize
             d == [c EXCEPT !.port = q]
  <2>1. q = port
    BY <1>1, <1>14
  <2> HIDE DEF q
  <2>2. d.family = "inet6" /\ d.port = port
    BY <1>14, <2>1 DEF Host
  <2> HIDE DEF d
  <2>3. io_sock_set_addr(d) = [family |-> "inet6", addr |-> ipv6_hton(d.addr), port |-> d.port]
    BY <2>2 DEF io_sock_set_addr
  <2>4. io_sock_set_addr(d).family = "inet6" /\ io_sock_set_addr(d).port = port
    BY <2>2, <2>3
  <2> QED
    BY <2>4 DEF AddressOf, d, q
<1> QED
  BY <1>7, <1>13, <1>14, <1>15 DEF r, a, h, s

LEMMA PrefixBegins ==
    ASSUME NEW a \in Seq(Nat), NEW h \in Seq(Nat), IsPrefix(h, a)
    PROVE  Begins(a, h)
<1>1. /\ Len(h) \in Nat /\ Len(a) \in Nat /\ Len(h) <= Len(a)
      /\ SubSeq(h, 1, Len(h)) = SubSeq(a, 1, Len(h))
  BY DEF IsPrefix
<1> DEFINE y == Len(h)
<1>2. y \in Int /\ y <= Len(h) /\ y <= Len(a) /\ 1 \in Nat /\ 1 >= 1
  BY <1>1
<1>3. \A j \in 1..y : j \in 1..(y - 1 + 1) /\ 1 + j - 1 = j
  BY <1>1
<1> HIDE DEF y
<1>4. \A j \in 1..(y - 1 + 1) : SubSeq(h, 1, y)[j] = h[1 + j - 1]
  BY <1>2, PartOf
<1>5. \A j \in 1..(y - 1 + 1) : SubSeq(a, 1, y)[j] = a[1 + j - 1]
  BY <1>2, PartOf
<1>6. \A j \in 1..y : a[j] = h[j]
  BY <1>1, <1>3, <1>4, <1>5 DEF y
<1> QED
  BY <1>1, <1>6 DEF Begins, y

LEMMA OneAgrees ==
    ASSUME NEW at, NEW m, IsAsTold(at, m)
    PROVE  Agree({at}, {m})
BY DEF Agree

LEMMA ProxyArgumentIsRead ==
    ASSUME PortSize <= 10 * Tens[5], Garbage \subseteq Host,
           NEW program, program # "sock-echo", NEW arg,
           IsProxyArgument(arg, AllIps, AllTexts, AllPorts)
    PROVE  ~Invalid(program, arg.text) /\ IsReadAs(program, arg.text, arg.means)
<1>1. ASSUME NEW ip \in AllIps, NEW port \in AllPorts, arg.text = ipv4_stoa(ip, port),
             arg.means = Endpoints(Host4(ip), {port})
      PROVE  ~Invalid(program, arg.text) /\ IsReadAs(program, arg.text, arg.means)
  <2> DEFINE c == [family |-> "inet", addr |-> ip, port |-> port]
             a == ipv4_stoa(ip, port)
             m == EndpointOf(Host4(ip), port)
  <2>1. PortSize \in Nat /\ port \in Nat /\ port < PortSize /\ port < 10 * Tens[5]
    BY SockAddrAssumption DEF AllPorts, Tens
  <2>2. c \in Host
    <3>1. HostIsRead({}, ipv4_itostr(ip), Host4(ip), ip)
      BY Host4IsRead DEF AllIps
    <3>2. ip \in Seq(Nat)
      BY <3>1 DEF HostIsRead
    <3> QED
      BY <2>1, <3>2 DEF Host
  <2>3. AddressOf(c, 0) = c
    <3>1. (port + 0) % PortSize = port
      BY <2>1
    <3>2. [c EXCEPT !.port = (c.port + 0) % PortSize] = c
      BY <3>1
    <3>3. io_sock_set_addr(c) = c
      BY DEF io_sock_set_addr
    <3> HIDE DEF c
    <3> QED
      BY <3>2, <3>3 DEF AddressOf
  <2>4. arg.means = {m}
    BY <1>1 DEF Endpoints, EndpointOf
  <2>5. \A conf \in Host : \A junk : io_sock_atos(conf, a, junk) = Read(c)
    BY EndpointIsReadBack
  <2>6. ~Invalid(program, a)
    <3> DEFINE s == Single(port)
    <3>1. s \in Seq(Nat) /\ At(s, 1) = Colon
      BY <2>1, SingleIsTail DEF IsTail
    <3>2. At(s, 1) \notin Digits
      BY <3>1 DEF Colon, Digits
    <3> HIDE DEF s
    <3>3. ipv4_isip(ipv4_itostr(ip) \o s)
      BY <3>1, <3>2, Ipv4IsReadBack DEF AllIps
    <3>4. a = ipv4_itostr(ip) \o s
      BY <2>1, StoaIs DEF s
    <3> QED
      BY <3>3, <3>4 DEF Invalid
  <2>7. Agree({c}, {m})
    <3>1. m.at = c
      BY DEF EndpointOf, Host4
    <3> HIDE DEF c, m
    <3>2. IsAsTold(c, m)
      BY <3>1 DEF IsAsTold
    <3> QED
      BY <3>2, OneAgrees
  <2> HIDE DEF c, a, m
  <2>8. Read(c).host = c /\ Read(c).ok
    BY DEF Read
  <2>9. IsReadAs(program, a, {m})
    BY <2>2, <2>3, <2>5, <2>7, <2>8, ReadIsProxied
  <2> QED
    BY <1>1, <2>4, <2>6, <2>9 DEF a
<1>2. ASSUME arg.text \in Seq(1..255), arg.text # <<>>, arg.text[1] = Slash,
             Means(arg, "unix", arg.text, 0, All)
      PROVE  ~Invalid(program, arg.text) /\ IsReadAs(program, arg.text, arg.means)
  <2> DEFINE a == arg.text
             m == [at |-> [family |-> "unix", addr |-> a, port |-> 0], told |-> All]
  <2>1. At(a, 1) = Slash
    <3>1. 1 \in DOMAIN a
      BY <1>2
    <3> QED
      BY <1>2, <3>1 DEF At
  <2>2. ~Invalid(program, a)
    BY <2>1 DEF Invalid
  <2>3. \A conf \in Host : \A junk :
            LET r == io_sock_atos(conf, a, junk)
            IN r.host \in Host /\ r.ok /\ AddressOf(r.host, 0) = m.at
    BY <1>2, PathIsRead
  <2>4. Agree({m.at}, {m})
    BY OneAgrees DEF IsAsTold
  <2>5. arg.means = {m}
    BY <1>2 DEF Means
  <2> HIDE DEF a, m
  <2>6. IsReadAs(program, a, {m})
    BY <2>3, <2>4, ReadIsProxied
  <2> QED
    BY <2>2, <2>5, <2>6 DEF a
<1>3. ASSUME NEW text \in AllTexts, IsPrefix(Brackets(text), arg.text),
             At(arg.text, Len(text) + 3) # Colon, arg.text \in Seq(1..255), arg.means = {}
      PROVE  ~Invalid(program, arg.text) /\ IsReadAs(program, arg.text, arg.means)
  <2> DEFINE a == arg.text
  <2>1. a \in Seq(Nat)
    <3>1. 1..255 \subseteq Nat
      OBVIOUS
    <3> QED
      BY <1>3, <3>1, SeqMonotonic
  <2>2. Begins(a, Brackets(text))
    <3> DEFINE h == Brackets(text)
    <3>1. text \in Seq(1..255)
      BY DEF AllTexts, IsIpv6Text
    <3>2. h \in Seq(Nat)
      BY <3>1, BracketsAre
    <3> HIDE DEF h
    <3> QED
      BY <1>3, <2>1, <3>2, PrefixBegins DEF h
  <2>3. At(a, 1) = Opening /\ \A conf, junk : io_sock_atos(conf, a, junk) = Refused(conf)
    BY <1>3, <2>1, <2>2, BracketsWithoutColon
  <2>4. ~Invalid(program, a)
    BY <2>3 DEF Invalid
  <2>5. \A conf : Refused(conf).host = conf /\ ~Refused(conf).ok
    BY DEF Refused
  <2>6. IsReadAs(program, a, {})
    <3> HIDE DEF a
    <3> QED
      BY <2>3, <2>5, NoneAgree, ReadIsProxied
  <2> QED
    BY <1>3, <2>4, <2>6
<1>4. ASSUME NEW ip \in AllIps, arg.text = ipv4_itostr(ip),
             Means(arg, "inet", ip, 0, {"family", "addr"})
      PROVE  ~Invalid(program, arg.text) /\ IsReadAs(program, arg.text, arg.means)
  <2> DEFINE a == arg.text
             m == [at |-> [family |-> "inet", addr |-> ip, port |-> 0], told |-> {"family", "addr"}]
  <2>1. ~Invalid(program, a)
    BY <1>4, AddressWithoutTail DEF Invalid, AllIps
  <2>2. \A conf \in Host : \A junk :
            LET r == io_sock_atos(conf, a, junk)
            IN r.host \in Host /\ r.ok
               /\ AddressOf(r.host, 0).family = "inet" /\ AddressOf(r.host, 0).addr = ip
    BY <1>4, BareAddressIsRead
  <2>3. arg.means = {m}
    BY <1>4 DEF Means
  <2>4. ASSUME NEW at, at.family = "inet", at.addr = ip PROVE Agree({at}, {m})
    <3>1. at["family"] = m.at["family"] /\ at["addr"] = m.at["addr"]
      BY <2>4
    <3>2. m.told = {"family", "addr"}
      OBVIOUS
    <3> HIDE DEF m
    <3>3. IsAsTold(at, m)
      BY <3>1, <3>2 DEF IsAsTold
    <3> QED
      BY <3>3, OneAgrees
  <2> HIDE DEF a, m
  <2>5. IsReadAs(program, a, {m})
    BY <2>2, <2>4, ReadIsProxied
  <2> QED
    BY <2>1, <2>3, <2>5 DEF a
<1>5. ASSUME NEW text \in AllTexts, NEW port \in AllPorts, arg.text = Brackets(text) \o Single(port),
             Means(arg, "inet6", inet_pton[text], port, {"family", "port"})
      PROVE  ~Invalid(program, arg.text) /\ IsReadAs(program, arg.text, arg.means)
  <2> DEFINE a == arg.text
             m == [at |-> [family |-> "inet6", addr |-> inet_pton[text], port |-> port],
                   told |-> {"family", "port"}]
  <2>1. \A junk \in Junk : junk \in Seq(Nat)
    BY DEF Junk, Host
  <2>2. \A conf \in Host : \A junk \in Seq(Nat) :
            LET r == io_sock_atos(conf, a, junk)
            IN /\ At(a, 1) = Opening
               /\ r.host \in Host /\ r.ok
               /\ AddressOf(r.host, 0).family = "inet6" /\ AddressOf(r.host, 0).port = port
    BY <1>5, BracketsWithPort
  <2>3. arg.means = {m}
    BY <1>5 DEF Means
  <2>4. ASSUME NEW at, at.family = "inet6", at.port = port PROVE Agree({at}, {m})
    <3>1. at["family"] = m.at["family"] /\ at["port"] = m.at["port"]
      BY <2>4
    <3>2. m.told = {"family", "port"}
      OBVIOUS
    <3> HIDE DEF m
    <3>3. IsAsTold(at, m)
      BY <3>1, <3>2 DEF IsAsTold
    <3> QED
      BY <3>3, OneAgrees
  <2>5. ~Invalid(program, a)
    <3>1. [family |-> "none", addr |-> <<>>, port |-> 0] \in Host /\ <<>> \in Seq(Nat)
      BY DEF Host
    <3>2. At(a, 1) = Opening
      BY <2>2, <3>1
    <3> QED
      BY <3>2 DEF Invalid
  <2> HIDE DEF a, m
  <2>6. IsReadAs(program, a, {m})
    BY <2>1, <2>2, <2>4, ReadIsProxied
  <2> QED
    BY <2>3, <2>5, <2>6 DEF a
<1> QED
  BY <1>1, <1>2, <1>3, <1>4, <1>5 DEF IsProxyArgument

\* The hypotheses: what memory holds are addresses, ports fit into five digits, and the
\* arguments of the command lines are such as the programs take.
LEMMA ArgumentsMeanWhatIsRead ==
    ASSUME StartupAssumption, Garbage \subseteq Host,
           PortSize <= 10 * Tens[5], PortSize < CountSize,
           AreArguments(AllHosts, AllIps, AllTexts, AllPorts)
    PROVE  ArgumentsAreRead(Host)
<1>1. PortSize \in Nat /\ CountSize \in Nat
  BY SockAddrAssumption DEF StartupAssumption
<1>2. ASSUME NEW l \in ArgLists, NEW k \in DOMAIN l.args
      PROVE  LET a == l.args[k]
             IN \/ Invalid(l.program, a.text) /\ a.means = {}
                \/ ~Invalid(l.program, a.text)
                   /\ (Strays(l.program, a.text) \/ IsReadAs(l.program, a.text, a.means))
  <2> DEFINE a == l.args[k]
  <2>1. IsArgument(l.program, a, AllHosts, AllIps, AllTexts, AllPorts)
    BY DEF AreArguments
  <2> HIDE DEF a
  <2>2. CASE Invalid(l.program, a.text) /\ a.means = {}
    BY <2>2 DEF a
  <2>3. CASE l.program = "sock-echo" /\ IsEchoArgument(a, AllHosts, AllPorts)
    <3>1. ~Invalid("sock-echo", a.text) /\ IsReadAs("sock-echo", a.text, a.means)
      BY <1>1, <2>3, EchoArgumentIsRead
    <3> QED
      BY <2>3, <3>1 DEF a
  <2>4. CASE l.program # "sock-echo" /\ IsProxyArgument(a, AllIps, AllTexts, AllPorts)
    <3>1. ~Invalid(l.program, a.text) /\ IsReadAs(l.program, a.text, a.means)
      BY <2>4, ProxyArgumentIsRead
    <3> QED
      BY <3>1 DEF a
  <2>5. CASE ~Invalid(l.program, a.text) /\ Strays(l.program, a.text)
    BY <2>5 DEF a
  <2> QED
    BY <2>1, <2>2, <2>3, <2>4, <2>5 DEF IsArgument
<1>3. ASSUME NEW l \in ArgLists, NEW k \in DOMAIN l.args
      PROVE  LET a == l.args[k]
             IN /\ Invalid(l.program, a.text) => a.means = {}
                /\ ~Invalid(l.program, a.text) /\ ~Strays(l.program, a.text) =>
                       \A conf \in Host : \A r \in Readings(l.program, a.text, conf) :
                           /\ r.serv.conf \in Host
                           /\ r.serv.ports_num \in Nat
                           /\ Agree(IF r.kept THEN AddressesOf(r.serv) ELSE {}, a.means)
  <2> DEFINE a == l.args[k]
  <2>1. \/ Invalid(l.program, a.text) /\ a.means = {}
        \/ ~Invalid(l.program, a.text)
           /\ (Strays(l.program, a.text) \/ IsReadAs(l.program, a.text, a.means))
    BY <1>2
  <2> HIDE DEF a
  <2>2. /\ Invalid(l.program, a.text) => a.means = {}
        /\ ~Invalid(l.program, a.text) /\ ~Strays(l.program, a.text) =>
               IsReadAs(l.program, a.text, a.means)
    BY <2>1
  <2> QED
    BY <2>2 DEF IsReadAs, a
<1> QED
  BY <1>3 DEF ArgumentsAreRead

\* A program that has started listens at just the addresses and ports its arguments tell
\* it and the system did not refuse, in each field they tell: sock-echo's hosts and ports
\* and ranges with any IPv4 address, any IPv6 one inet_pton knows, no host or one that is
\* none; rpxys's IPv4 addresses with and without a port, its IPv6 addresses with one, of
\* which the address is not taken, and its paths; for any number of arguments that fit,
\* whatever the memory held before they were read into it.  One that overruns a buffer,
\* as a path of 108 bytes does, ends the program in "undefined" and does not start it.
THEOREM ListensWhereWritten ==
    ASSUME Garbage \subseteq Host,
           PortSize <= 10 * Tens[5], PortSize < CountSize,
           AreArguments(AllHosts, AllIps, AllTexts, AllPorts)
    PROVE  Spec => []ListensWhereMeant
<1>1. ArgumentsAreRead(Host)
  BY ArgumentsMeanWhatIsRead, StartupAssumption
<1> QED
  BY <1>1, ListensAtWhatIsRead
=============================================================================
