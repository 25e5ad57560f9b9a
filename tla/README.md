# Verification of nanio

nanio is a small single-threaded I/O library in C: one `poll` loop, a list of descriptors with
virtual methods, a pool of timers, byte buffers and block queues for output that cannot be sent at
once, stream and datagram endpoints over them, parsers and printers for addresses and HTTP, and example servers over them.
This directory holds TLA+ models of it, the TLC configurations that check them on small instances,
and theorems checked by TLAPS for every value of the constants. The code is the reference: where a
comment says one thing and the code does another, the model does what the code does.

## 1. Inventory

Everything runs in one thread. What interleaves is callbacks: timer handlers, event methods and the
`sent`/`all_sent`/`recv` callbacks of the application run in the middle of library functions and call
the library again. Signals (`SIGTERM`, `SIGINT`) call `exit()` at any time. Nothing is persisted but the pid file of a server.

| component | state | operations | used by | what is hard | what makes it correct |
|---|---|---|---|---|---|
| timer pool, `io_timers.c` | array of 10 slots on two linked lists; deadline, period, handler of each | alloc, free, set_timeout, set_period, stop, on_timeout, on_period; the pass `io_get_timeout` | `main` loop, applications | handlers change the lists during the pass; one time sample per pass; handles that outlive their one-shot | each slot on one list once; deadlines served in order, never early; exact sleep; no armed timer starved |
| descriptor list and loop, `io_ds.c`, `io.c`, `io_signals.c` | list `io_ds`, `io_ds_length`; `fd` and `events` of each | init, close, free, poll turn, `main` | every endpoint | the poll turn works on a snapshot of the list while handlers change it; deferred freeing | no freed descriptor is read; length equals list; each reported descriptor is served; closed descriptors are freed; the loop ends only when idle |
| byte buffer, `io_buf.c` | chain of segments with begin and end | write, read, recv, send, add, free, length, is_empty | streams | partial sends and receives, failure half way, full segments, last segment released | it is a queue of bytes; empty pointer means no bytes; `last` never dangles |
| stream, `io_stream.c` | descriptor, output buffer, `connecting` | listen, accept, connect, write, writef, close, event handler | servers | re-entrant writes from callbacks; direct and queued path; POLLOUT | byte order; queued bytes are polled for, drained and reported by `all_sent` |
| block queue, `io_queue.c` | chain of segments of 32 blocks (type, size, tag, data) | put, get, drop, free | datagram client | ownership of block data; the last segment is kept | FIFO; each owned block released once |
| datagram client, `io_dgram_client.c` | descriptor, queue | send (static, dynamic, local), event handler, create, free | applications | direct and queued path; POLLOUT; who owns data | order, each once, nothing stranded |
| strings and maps, `io_heap.c`, `io_map.c` | bump allocator, array or list of pairs | create, add, get, case-insensitive get | HTTP | allocator exhausted | latest/first pair found |
| HTTP, `io_http.c` | none | parse request, response, headers; URL escapes; status text | servers | text at the boundary of a read | inverse conversions, table lookups |
| addresses: `io_ipv4.c`, `io_ipv6.c`, `io_hexmac.c`, `io_sock_addr.c` | none | text to binary and back, creation of bound sockets | streams, start of servers | malformed text, fields a reader leaves alone, failures between `socket` and `listen` | the address meant; no socket lost |
| `io_tmp.c`, `io_debug.c`, logging | ring of eight static strings | | everywhere | the ninth string overwrites the first | output only |
| connections of `rpxys.c`, `sock-echo.c`, `multi_server*` | one record per connection: receive buffer, state, map | accept, recv, all_sent, close | | a message split over reads or joined with the next; `all_sent` inside the write that sends the answer; freeing inside a callback | each message is answered once, in order, as it deserves; nothing leaks; nobody waits for ever |
| start of `rpxys.c`, `sock-echo.c` | array of addresses, pid file, listening sockets | options, arguments, `daemon`, pid file, `io_atexit`, listen | | failures half way, kills and restarts, ranges of ports | listens where the arguments mean; pid file true |
| DNS client, `oi_dns.c` (not built yet) | one socket per call, servers of `resolv.conf`, round and index | `dns_gethostsbyname`, `dns_resolve_domain` | | lost, late, repeated and malformed answers; three rounds and one deadline | asks for the name, returns what is meant, closes its socket, returns |
| not built: `mqtt.c`, `oi_http_auth.c`, `oi_tag.c`, `oi_dgram.c`, `io_key.c` | | | | | |

How they interact: `main` calls `io_get_timeout`, which calls timer handlers, then `io_ds_poll`, which
calls the event method of every ready descriptor; `io_stream_event_handler` and
`io_dgram_client_event_handler` are such methods and call the application through `io_vmt`. The
application calls any function of the interface from `start()` and from every callback. The pointer
tests `io_buf_is_empty` and `io_queue_is_empty` decide whether output goes to the socket at once.

## 2. Modules

| module | models | notes |
|---|---|---|
| `Timers` | `io_timers.c` | lists are sequences of slots, head first; the pass is cut where handlers run |
| `EventLoop` | `io_ds.c`, the loop of `io.c`, `io_signals.c` | timers reduced to off, stopped, armed |
| `ByteQueue`, `Buf` | what a buffer promises; `io_buf.c` | `Buf` refines `ByteQueue` |
| `Stream` | one connection of `io_stream.c` | the C stack of callbacks is a variable; the buffer is the byte queue `Buf` implements |
| `BlockFifo`, `Queue` | what a block queue promises; `io_queue.c` | `Queue` has no specification of its own: it is driven, and shown to refine `BlockFifo`, in `DgramClient` |
| `DgramClient` | `io_dgram_client.c` | extends `Queue` |
| `StringMap`, `Headers` | what a string map promises; `io_heap.c`, `io_map.c` and `io_http_header_parse` | `Headers` refines `StringMap` |
| `Connection` | the stream, the peer and the text between them, as every server connection has them | over what `Stream` says of writes and `all_sent` |
| `HttpServer`, `PortServer`, `EchoServer` | the callbacks of `multi_server_http.i` and `rpxys.c`; of `multi_server_port.i`; of `sock-echo.c` | each extends `Connection` |
| `Servers` | the programs, their ports and the connection each accepts | composes the four, and carries the properties |
| `Ipv4`, `SockAddr` | readers and printers of addresses, `io_sock_set_addr` | pure operators; numbers keep their width |
| `Startup` | `rpxys.c` and `sock-echo.c` from `main()` to the loop, and their restarts | extends `SockAddr` |
| `Arguments` | nothing: it says what arguments one writes, and where the program is to listen for them | the specification `Startup` is proved against |
| `DnsMessage`, `Resolver` | messages of `oi_dns.c`; both lookups with the network | `Resolver` extends `DnsMessage` |
| `DnsAnswer` | nothing: it says of the bytes what a name, a question and an answer are | the specification `DnsMessage` is proved against |
| `ListLemmas` | lemmas on lists and sets of numbers | for the proofs |
| `TimersProofs`, `EventLoopProofs`, `StreamProofs`, `StartupProofs`, `ResolverProofs` | theorems | each about the module it is named after |
| `ChainProofs` | theorems about `Buf`, `Queue`, `DgramClient` | both are chains of segments |
| `ServersProofs` | theorems about `Servers`, the kinds of connection and `Headers` | the map belongs to a connection |
| `MC*` | instances for TLC | symmetry sets, values of constants |

**Timers.** `free` and `active` are the lists `io_free_timers` and `io_active_timers`; `next_time`,
`period`, `handler` the fields of a slot; `handle[c]` the pointer client `c` keeps. `Take` is
`io_timer_alloc` together with the `set_timeout` or `set_period` that `io_on_timeout` and
`io_on_period` add to it. `pc` says where the main thread is. The pass is `EnterPass` (the sample of
the clock), then `FirePeriodic` or `FireOneShot` and `HandlerReturns` for every due timer, then `Sleep`
or `NoTimers`. In phase `handler` every function of the interface is enabled, and the clock moves on.
`io_get_nearest_timer` takes deadlines greater than 0 only, as the code does.

**EventLoop.** `io_ds`, `io_ds_length` are the code's; `live` is the set of allocated descriptors,
`open` those with `fd >= 0`, `watched` those with `events # 0`. `ds`, `polled`, `fired`, `cur` are the
locals of `io_ds_poll`. `io_d_init` may reuse an address that was freed. `stale` remembers where the turn has
read a descriptor that was freed: before a call, which then is of nothing (phase `undefined`), or after it,
where the program may find -1 and free it again (`undefined`), or anything else and go on. An event method may
always free its own descriptor, as those of the servers do, and a timer handler and `start()` any. The
constants say what else handlers do: `FreeOthers` (event methods free descriptors other than their own),
`CloseOthers` (handlers close descriptors other than their own), `StopTimers` (keep timers that are not armed).
`sig_any` ends the program between any two steps.

**Buf.** A segment is the bytes stored and the position read up to. Each turn of the loops of
`io_buf_write`, `io_buf_recv`, `io_buf_read` and `io_buf_send` is a step; `send()` and `recv()` give any
result, failure after partial success included. `used` is a history variable: which of `io_buf_recv`
and `io_buf_add` the buffer has seen.

**Stream.** `stack` holds the callbacks under way, innermost first, with what the library still has to
do when they return (`rest` of a write, `more` for a POLLIN reported with the POLLOUT being served).
`out` is the output buffer as a byte queue, which is sound by `Buf!IsByteQueue` and
`Buf!EmptyMeansNoBytes`; `wire` is what the kernel took. A failed `send()` in `io_stream_write` changes
nothing and is no step.

**Queue, DgramClient.** A segment is the blocks stored and the position read up to. `heap` is the data
the queue answers for. `SendLater` covers both reasons to queue: something is queued, or `EAGAIN`.
`alive` ends with `io_dgram_client_free`.

**Headers.** A string is told by its spelling and length, a name is what spellings that differ in case
share. `kvs` is the table, `room` what the bump allocator has left, `text` what the request still holds;
a header line takes its two strings, the colon, CR, LF and blanks out of the text, and two strings with
their zeros out of the heap. `Request` is the server of `multi_server_http.i`, which makes the map of a
connection anew in the same memory; `HeaderEnds` is the empty line, or any text that is no header line.
Reading a NULL key leads to `pc = "undefined"`.

**Connection.** A message is three parts: its text, and the two halves of what ends it (CR and LF of a
command; the ends of the last line and of the empty line of a request). Reads cut and join them in any
way. `input` is what the peer has sent, `buf` what the server holds. `Written` is what `io_stream_write`
may leave queued: over an empty buffer a write is taken as a whole, in part or not at all. `all_sent`
inside such a write finds the state the connection had before the answer, so only the one of `SendQueued`
counts. `FreeInEvent` is followed by the read of freed memory that `loop_free` shows. `BSD` selects the
body of `io_stream_accept`. `piped` and `torn` remember what a property has to except: a peer that did
not wait, and a read that cut a message where the server does not mend it.

**HttpServer, PortServer, EchoServer, Servers.** A whole event method is one action: `v_http_con_recv`
reads, looks for the end of a header in what has just arrived, parses from the head of the buffer and
answers; `v_port_con_recv` takes the first command and keeps what is behind it; `port_stream_recv` takes
all commands. `params` is the map of the last request whose line was accepted, told by what its Connection
header says: `http_end` keeps the connection when there is such a header and it is not "keep-alive", so a
request without one, or with "keep-alive", ends it. A refused first line reads a map that is not there
(`conn = "undefined"`). `rpxys.c` is `HttpServer` with `Gateway`: one write, and the connection is to end.
`multi_server` serves seven ports with one callback that looks at the port; `Servers` has one for HTTP and
one for all the others but MQTT.

**Ipv4, SockAddr.** A text is the sequence of its bytes. `strtoul`, `atoi` and `inet_pton` are external;
the first two are given by what they do, the last by its values. A reader returns the record it was given
with the fields it sets. The loop over the numbers of an address is a recursive function of one number, how
many were read, so that it can be proved about; `Octet` is its body.

**Arguments.** An argument is a text and what it means, a set of addresses, each with the fields of it that the
program takes of the text (`told`). For `sock-echo` (`IsEchoArgument`): an IPv4 address, an IPv6 one in
brackets, nothing, or what is no address (`NoHost`, which tells the port only), a colon, and a port or a range.
For `rpxys` (`IsProxyArgument`): an IPv4 address with a port; one without, which tells no port; a path; an IPv6
address with a port, of which the program takes the port (section 4); an address in brackets without a colon,
which is refused. Or what the program calls invalid, which means nothing, and what leads it astray
(`Strays`), of which nothing is said. The texts are built of what `ipv4_itostr` and `sprintf` print; nothing in
the module reads one.

**Startup.** Each call of the system is a step that may fail, a signal or a kill comes between any two.
`pid` counts processes, so a child of `daemon()` has another one than its parent. `servs` begins with
whatever the memory held (`Garbage`), which is what an address stays that a reader did not set.
What C leaves undefined ends in phase `undefined`: an argument more than the array holds; a text that does not fit
into the 50 bytes of `sock-echo.c:249` or the 48 of `io_sock_addr.c:143`, and the path `sock-echo` keeps in the
former when it is gone (`Strays`); a path that does not fit into `sun_path` (`PathOverflows`, when a socket
is there to be bound to it).

**DnsMessage, Resolver.** Names are read by a recursive function over offsets, with what a circle of
pointers and a read behind the end come to. A query is on its way (`asked`), answered (`inbox`) or lost;
which answer it is, is chosen as it is read, because the lookup looks at neither sender nor id.
`poll_sock_recv` is not in the tree and is external. `read_on` and `parse_on` are one turn of the code's
recursion and of its loop, and `reader` and `parser` the functions that satisfy them. `DnsAnswer` says without
them when a message names a domain (`Names`) and answers a question with records (`IsAnswer`), the last of which
may be cut off.

## 3. Runs

| run | question | bounds | result |
|---|---|---|---|
| `timers` | partition, ownership, order, exact sleep, period grid, no starvation | 2 clients, 2 slots, delays 0 and 2, clock to 2 and the horizon at 4 | pass |
| `loop` | list and length, the batch stays alive and each report is served, no descriptor left closed, exit only when idle | 3 descriptors, 1 timer that may be stopped | pass |
| `loop_free` | an event method that frees its own descriptor | 2 descriptors | violation |
| `buf` | refinement of the byte queue, `last`, packing, emptiness | segments of 2 bytes, 5 bytes held, 2 byte values | pass |
| `stream` | byte order, POLLOUT, `all_sent` true and owed | 4 bytes in all, 3 nested callbacks | pass |
| `dgram` | the queue refines the block FIFO and is packed; datagrams in order, each once, POLLOUT, delivery | 3 data, segments of 2 blocks, 5 datagrams | pass |
| `dgram_idle` | POLLOUT after the queue drained | 1 datagram | violation |
| `headers` | the map refines an abstract one and holds no NULL | 2 places, 4 spellings of 3 names, strings of 1 and 2 bytes, heap and text of 20 | pass |
| `servers` | answers in order, once, as deserved; buffer, leaks, no peer waits, for every kind of connection | 3 messages of three parts, a buffer of seven parts | pass |
| `server_close` | an answer that is sent at once | 1 message | violation |
| `resolver` | the query names the host, the result is meant, retries earned, socket closed, the call returns | 2 of up to 3 servers, 3 rounds, 6 answers of nine kinds | pass |
| `startup` | listens where told, no socket lost, pid file true | room for 3 addresses, up to 2 arguments or 4 for the full array, 2 lives, ports of 16 bits | pass |

Why the bounds are enough. Timers: two slots give a list with a head and a node behind it, free and
active, and the clock reaches four, so a period of two is missed twice in one pass, deadlines coincide
and differ, and a slot is reused while an old handle is still known; more slots, clients and delays
are covered by the theorems. EventLoop: a batch of three has an entry served, one being served and
one to be served, with an address that may be reused after its own method freed it; Buf and Queue: chains of three segments have a
first, a middle and a last one, with a read position in the first and room in the last. Stream: a
write of four bytes splits in three parts, with two further writes between them on the stack.
DgramClient: five datagrams make three segments. Headers: a text of 20 bytes has three lines, one more
than the table has places, and `HeapSize = TextSize` is the tightest case of `TextSize <= HeapSize`, the
ratio the server has (a buffer of 7999 bytes of text, a heap of 8192). Servers: a buffer of seven parts
holds two messages and the beginning of a third, and is filled by three; one message is served, one is
behind it and one is cut. Resolver: two servers over three rounds take six refusals to the end, and the
third server is one too many. Startup: two arguments are served after each other and one may fail, four
overflow an array of three, the second life finds the file of the first; the texts of 50 and 46 bytes and
the path of 108 are the shortest that overflow their buffers. `CountSize` is 10^9 and not 2^32, which TLC's
integers do not hold; the arguments of the instance tell no difference between the two.

Every property has mutants: definitions named `<Operator>_<Bug>` put a plausible bug in the place of
`<Operator>` and make TLC refute the property under the configuration of its run.

### Fairness

- `Timers!FairSpec`: the clock ticks, the pass goes on (handlers return, the loop is a loop), `poll`
  honours its timeout. Events and exit are not owed.
- `EventLoop!FairSpec`: the program keeps running and `poll` honours its timeout; neither events nor
  failures of `poll` are owed, nor calls by handlers.
- `Stream!FairSpec`: callbacks return (weak); a connection attempt is decided, and a socket polled for
  POLLOUT takes some bytes, again and again (strong, because callbacks and other events run between).
  It says the peer reads; without it nothing drains.
- `DgramClient!FairSpec`: a socket polled for POLLOUT takes a datagram again and again (strong).
- `Servers!FairSpec`: the loop calls the event method of a connection that has something to read (weak).
  Nothing is owed by the peer.
- `Resolver!FairSpec`: the call goes on where it can and the clock runs to its finish (weak); no answer and
  no failure of `sendto` or `poll` is owed.

### Deadlock

`CHECK_DEADLOCK FALSE` stands where the system stops: after `exit` (Timers, EventLoop), a closed
connection (Stream), the bound on datagrams (DgramClient), a connection that was refused or freed
(Servers), a call that returned (Resolver), the last life (Startup). `Buf` and `Headers` never stop.

## 4. What the runs show of the code

Holds: everything the passing runs list. Does not hold, each with a run that refutes it:

1. `loop_free`: `io_ds_poll` reads `ds[i]->fd` after the event method (`io_ds.c:156`). `rpxys.c:97` and
   `multi_server_http.i:113` call `io_d_free` inside it. Event methods must close and leave freeing to the loop.
2. `dgram_idle`: `io_queue_block_drop` keeps the last segment, so `io_queue_is_empty` is false for ever
   after the first queued datagram, POLLOUT is never cleared (`io_dgram_client.c:105`) and the loop wakes
   at every turn; later datagrams all take the queue.
3. `server_close`: an answer that the socket takes at once calls `all_sent` before `http_end` has set
   `ST_CLOSE` (`multi_server_http.i:58-66`, and `rpxys.c:57-63` in the same order), so nobody closes the
   connection; its receive callback returns at once in `ST_CLOSE`, so unread input and the end of file wake
   the loop at every turn.

Read off the models and refuted by no run of its own:

- A write of zero bytes behind queued ones clears POLLOUT (`io_stream.c:73`); the bytes are stranded until
  the next write or are lost. `io_stream_writef` with an empty result is such a write. `Stream` with
  `ZeroWrites = TRUE` has it; its run takes `FALSE`.
- `io_stream_accept` outside BSD asks `s->d.fd`, not the listening descriptor, for a connection
  (`io_stream.c:259` and `264`); the servers of `examples/` pass a stream of zeros, so they ask descriptor 0.
  `Servers` with `BSD = FALSE` accepts nothing; its runs take `BSD = TRUE`.
- The end of a header or a command that is cut by a read is not found (`multi_server_http.i:136`,
  `multi_server_port.i:83`): the message is answered when the next one ends, if there is one. What arrives
  behind a request in the same read is dropped when the connection is kept.
- `main` goes on while any timer is allocated (`io.c:83`): with one that is kept stopped and nothing to poll, the
  turn returns at once and the loop spins. No property excludes it; `loop` has such timers.
- A command of `sock-echo.c` that comes in three reads loses its head: what arrives without a line feed
  takes the place of what was kept.
- A first request whose line is refused makes `http_end` read a map that does not exist.
- `sock-echo.c:112` and `rpxys.c:180` keep the memory of a connection that could not be accepted.
- `io_dgram_client_send_dynamic` that sends at once returns without releasing the data
  (`io_dgram_client.c:36-39`), and nothing keeps a trace of it.
- An answer of a DNS server that is lost is waited for until the finish of the whole call: the rounds repeat
  what was refused and never what was lost. `LossIsNotRetried` proves it.
- Pointers in a DNS name that lead around in a circle have no end, and a label that ends where the message
  does is followed by a read behind it (`oi_dns.c:114`); `Resolver` ends in phase `undefined` there.
- Descriptor 0 is taken for no socket and stays open (`oi_dns.c:386`).
- An IPv6 address in brackets is never read: `io_sock_atos` hands "...]:" on (`io_sock_addr.c:147`), takes
  the failure of `ipv6_atoh` for its success, and stores what was on the stack. `io_sock_addr.h:78` lists the
  form among those it reads. `ListensWhereMeant` asks for the port only of such an argument.
- `sock-echo.c:257` looks at no result, so that an address that is none stays what the memory held, and without
  one nothing writes it; its expression takes a backslash for a byte of an address. `rpxys.c:295` leaves the
  port unwritten when the argument has none, a form its usage names (`rpxys.c:277`). `ListensWhereMeant` asks
  for the fields that are written, and the others are what the memory held.
- More arguments than the array has places are written behind it, and texts longer than their buffers over what
  follows (section 2, `Startup`). The instances have each of these cases, in phase `undefined`.
- A range of ports that ends two or more below its beginning counts almost 2^32 ports (`sock-echo.c:259`). It is
  in no instance, and no argument of the theorem: no address is meant, and the program would listen at all.
- `io_sock_addr.c:256` passes an `int` nobody wrote as the value of `SO_REUSEADDR`; `Startup` lets the
  binding fail or not.
- A signal between the writing of the pid file and `io_atexit`, and any kill, leave the pid file behind.
  `PidFileIsTrue` begins behind `io_atexit`, and the next life writes over a file that was left.

Preconditions under which the passing runs hold, each needed:

- `NoZombie` needs handlers that close only their own descriptor: one closed elsewhere has `fd` -1,
  `poll` ignores it and it is never freed.
- `PendingIsPolled` and `AllSentIsTrue` of `Stream` need writes of at least one byte.
- `WireIsOrdered` needs a `sent()` callback that does not write when it is called by `io_stream_write`:
  it runs before the rest of that write is queued, and its bytes go out first.
- `BatchIsLive` and `EachReportIsServed` need event methods that free no descriptor but their own, as those
  of the tree do: the array of the turn keeps the address of one that was freed by another's method.
- `HandlesOwned` needs clients that forget the handle of a one-shot when it has fired (`Forgets`); the
  partition of the pool does not.
- A timer set to fire at once while `io_now()` is 0 has deadline 0, which `io_get_nearest_timer` takes
  for none (`io_timers.c:144`): it stays allocated and never fires. `ArmedEventuallyFires` is about
  deadlines from 1 on.

## 5. Proofs

Checked by `tlapm`; no lemma is left without proof.

**`TimersProofs`**, for any number of slots and clients, any delays and any `Forgets`: `TypeCorrect`,
`PoolIsPartitioned`, `HandlesAreOwned`, `ServedNeverEarly`, `ServedInOrder`, `SleepIsExact`, `PeriodIsKept`. The
assumptions are those named in `Timers`. `PoolPartition` is inductive with the types; `HandlesOwned`
needs it (a slot taken from `free` is nobody's). `NeverEarly` is not inductive alone: that no armed
deadline lies before the one served last needs, within a pass, that `lastFired <= now`, and between
passes that whatever is armed anew is armed at `clock` or later and that `now <= clock`. `SleepIsExact`
needs in addition that nothing but the pass runs between the choice and the sleep. The invariant is the
conjunction of these parts, with one step per action; `InvHolds` is the theorem the others follow from.
`PeriodIsKept` is about a step: the new deadline is `CHOOSE`n among the multiples of the period, and the
proof shows that division gives one and that the first is the one the code's loop stops at.

**`EventLoopProofs`**, for any number of descriptors and timers: `DescriptorsAreListedOnce` for every
behaviour of handlers; `BatchStaysLive` under `~FreeOthers`, with event methods that free, close and open again
their own descriptor at any time; `NoneIsLeftClosed` under `~CloseOthers`; `LoopEndsWhenIdle` under
none. `BatchStaysLive` says that the method of an entry is called of the very descriptor `poll` reported; that
the loop reads nothing freed before the call follows, and after it is refuted by `loop_free`, for methods that
free their own. The invariant adds that the array of the poll turn repeats no descriptor and that the entries
still to be served were in the list when it was copied and are not `fresh`: a method frees its own
descriptor and the loop the one just served, and neither is one of them, even when the loop has read freed
memory and the address is in use again. `ZombieInv` adds to `NoZombie` that the closed descriptor of the
list is the one under the running event method. `IdleInv` keeps that a batch has a position that `poll`
reported, so that a turn returns 0 only when nothing is watched.

**`StreamProofs`**, for any bytes, depth of callbacks and amount written: `TypeCorrect`,
`WritesKeepTheirOrder` if `sent()` called by a write does not write; `QueuedBytesArePolled` and
`AllSentTellsTheTruth` if moreover every write has at least one byte. The key is that a write waiting for
`sent()` is on top of the stack and nowhere else (`OnTop`), and has found the buffer empty, so that its
rest comes right behind the wire (`Order`). POLLOUT is asked for whenever the buffer holds a byte, on
whichever level of the stack (`Queued`).

**`ChainProofs`**, the two chains of segments, for segments of any length.

- The block queue and the datagram client: `TypeCorrect`, `QueueStaysPacked`, `QueuedDatagramsArePolled`,
  `DatagramsKeepTheirOrder` and `QueueIsBlockFifo`. `ChainIsPacked` says nothing of a segment that is alone;
  `Packed` adds that it has blocks waiting or was reset, without which a full one that was used up would end
  up in front of others. `QueuedDatagramsArePolled` needs that a drop never leaves the chain empty, the very
  reason of `dgram_idle`. `QueueInv` adds to the packed chain that no two waiting blocks carry the same
  data and that what the queue answers for is exactly theirs, and with it every step of `DgramClient` is one of
  `BlockFifo` or none.
- The byte buffer: `BufTypeCorrect`, `LastStaysValid`, `BufStaysPacked`, `EmptyBufHoldsNothing` and
  `BufIsByteQueue`. `BufInv` holds in the middle of an operation too: one that appends has a last
  segment and bytes to store, all segments but the last are full where `io_buf_add` was not called, and none
  is empty unless it was made for the bytes that follow. The steps of `ByteQueue` are then shown one loop
  turn at a time: a write adds the bytes stored, a read or send takes those that went out, a failure none.

Both rest on what flattening a list does when a list is added at its end, or its first is cut
(`ListLemmas`).

**`ServersProofs`**, for every kind of connection, both bodies of `io_stream_accept`, any size of buffer and
any number of messages.

- `ConnectionsLeakNothing`. `MemoryInv` adds to `NothingLeaks` that a connection has no map before its first
  request and that those of plain ports and of `sock-echo` never have one.
- `ServersBufferFits`, `AnswersKeepTheirOrder`, `AnswersAreRight`. `TalkInv` says what the buffer holds: with the
  unread input it is the end of all the peer has sent, so that the place of each part in the buffer is
  known from how much is left. What is answered lies before it (`AnswersAreBehind`), hence the order. With a
  peer that waits it begins where the last answered message ends (`AnsweredInStep`), and in `sock-echo` with
  the beginning of a message unless a read tore one (`BeginsWhole`), hence that answers are right. No part of
  this is inductive without the others.
- About `Headers`, for any strings and names, any table, and any heap as large as the text:
  `HeadersTypeCorrect`, `NullIsNeverStored`, `NamesAreUnique`, `HeadersAreAMap`. That no NULL is stored is not
  inductive: the invariant adds `HeapIsAhead`, that what the strings took of the heap the text has given up,
  since a line takes at least one byte more of the text than its strings take of the heap. It needs no
  order of the two copies. Unique names and no NULL need each other: a NULL key would end the search, and a
  pair without a value would not be found. The refinement of `StringMap` follows from both: a new pair binds
  a name that was not bound, and one that was keeps its value.

**`StartupProofs`**, for any command line, failures, number of lives: `SocketsAreAccountedFor` (the socket
under way is new, none of those that listen), `PidFileTellsThePid` (it holds from `create_pid_file` on,
and the handler is registered before anything listens), `ListensAtWhatIsRead` and `ListensWhereWritten`.

- `ListensAtWhatIsRead` is about the program. Its hypothesis `ArgumentsAreRead(Memory)` says of each argument
  by itself that it is read as what it means, over whatever an address may hold (`Memory`). `ListenInv` follows
  the servers kept, one by one, to the union of what the arguments behind mean, and the two loops of
  `start()`, port by port, to the addresses that listen or were refused, through any failure, and through the
  places given back for arguments that mean nothing.
- The text: `Ipv4IsReadBack`, for every address and whatever is behind it but a digit, and
  `EndpointIsReadBack`, with a port. A number is read back digit by digit (`DecimalReads`, an induction over
  the digits, for which it is proved that the recursion has a solution, and only one); what stands where in a
  text that was put together of parts is said by `Stands` and `Begins`.
- The expression of `sock-echo.c` matches such an argument in one way only (`OneMatch`): the model takes any
  match, and a second one would be another host or range. The words an IPv6 address is kept in give its bytes
  back (`WordsAndBytes`).
- `ListensWhereWritten` joins them: for the arguments that `Arguments` describes, with any IPv4 address, any
  text of an IPv6 one, no host or one that is none, any ports, ranges and paths, the program listens
  where they tell it, in each field they tell, whatever the memory held. It says nothing of a program that
  does not start: one that a text or a path longer than its buffer has led to `undefined`. Reversed
  ranges (section 4) are left out, for what is said of them would be false.
  What is left as hypotheses is that memory holds an address of some family (`Garbage \subseteq Host`), that
  ports have no more than five digits and that the count of a range is wider than a port, as 2^16 and 2^32
  are.

**`ResolverProofs`**, for any names, servers, rounds and answers.

- The calls: `NoSocketStaysOpen`; and `LossIsNotRetried`, whose invariant `LoopInv` keeps the loop variable
  within the servers and counts, round by round, that every place passed was paid by a refusal or a failed
  `sendto` (`Earned`).
- The reader of names, for every message whatever: that there is a function which satisfies the code's
  recursion is itself proved (`ReaderExists`). The measure is `Work`: each label takes room of the buffer, and
  between two labels there are no more pointers than the message has bytes, since more are a circle. With it
  `NamesFit`: a name never overruns its buffer and never leaves the cursor behind the message.
- The parser, for every message whatever: it exists (`ParserExists`, by the answers that are left), and
  `RecordsFit` and `AnswersFit`. `CallerHasRoom` carries the last to the caller's array.
- What was written is read: `QueryNamesEveryHost` for every name of labels of 1 to 63 bytes that fits
  (`IsDomain`). The query puts the length of a label where the dot in front of it was, and the reader puts
  the dot back; `ReadsName` is the induction over the labels, backwards, and holds for any message that `Names`
  the domain, so that it serves the pointers of an answer as well.
- `MadeIsRead`: the parser takes out of a message with any records (`IsAnswer`), of any type and number, whole
  or cut in one of them, just the addresses of those records, as many as there is room for (`ParserGoesOn` is
  the induction). From it `ResultIsWhatWasMeant`, under the hypothesis that each answer is made of records or
  is refused; `MCResolver` names the records of five of its nine answers, and shows that the other four are
  refused or cannot be relied on. `ResultInv` adds to `ResolvedIsMeant` that a refused answer leaves an error
  as the result, whatever ends the call later, and that an answer that is taken ends it.

**`ListLemmas`**: pushing, popping, unlinking and draining keep two lists without repetition a partition of
their nodes; the first and the last of a list and what is left of it; flattening; and a bounded set of
numbers has a smallest and a largest member, from which induction over a number follows for a set
(`SetInduction`), which the library states for an operator only.

Model-checked only, and why:

- Liveness (`ArmedEventuallyFires`, `EachReportIsServed`, `AllSentFollows`, `QueuedIsSent`,
  `WaitingPeerIsAnswered`, `Returns`): the prover knows nothing of fairness, which is about `ENABLED`.
- `NoUseAfterFree`, `IdleIsNotPolled` and `ClosedWhenSent` are refuted by runs. What is left of the first, that
  nothing freed is read before a call, is part of `BatchIsLive`, and proved.

The types are proved and not run where a module has proofs, `NamesAreUnique` likewise.

## 6. Not modelled

The `idle` method (no `io_vmt` of the tree has one; it would run between `io_get_timeout` and `poll`),
`io_vmt_finish` (vmts are complete in the models), logging. `exit()` in a signal handler
comes between two steps and not in the middle of a list operation. `malloc` does not fail. Sizes of
datagrams are not told apart; reception of datagrams has no user in the tree, and the address a queued
block keeps by pointer belongs to it. `io_stream_writef` of more than 1024 bytes. `io_hmap_add` and the
maps without a heap, the status texts and URL escapes of HTTP, netmasks, prefixes, lists of addresses, MAC
and hex text: pure functions nobody in the tree calls.

MQTT (`mqtt.c`, `multi_server_mqtt.i`), `httpd.c` and `nslookup.c` do not compile: they use names or headers
the tree does not have. `oi_dgram.c`, `oi_http_auth.c`, `oi_tag.c` and `io_key.c` are not part of the build, and `oi_dgram.c`
calls functions the tree does not have.

## 7. Plan

Done: every module of section 2, with proofs for all of them. What is left, in this order:

1. A composition of `Timers` and `EventLoop` in which the loop's view of timers is shown to be
   implemented by the pool.
2. `Servers` as a client of `Stream`: that `Written` and the places of `all_sent` are what `Stream`
   allows; several connections of one listening socket.
3. `DgramClient`: reception, when the tree has a user of it.
