---------------------------- MODULE DgramClient ----------------------------
(***************************************************************************)
(* The datagram client of library/io_dgram_client.c over its queue         *)
(* (module Queue): a datagram goes to the socket at once when the queue    *)
(* says it is empty, and behind the queued ones otherwise.                 *)
(***************************************************************************)
EXTENDS Queue

CONSTANT MaxSends    \* bound: datagrams accepted in all

ASSUME MaxSendsAssumption == MaxSends \in Nat

VARIABLES
    alive,       \* the client has not been freed
    pollout,     \* events & POLLOUT
    wire,        \* the datagrams the kernel has taken, in order
    accepted     \* history: those io_dgram_client_send did not refuse

vars == <<segs, heap, alive, pollout, wire, accepted>>

TypeOK ==
    /\ QueueTypeOK
    /\ alive \in BOOLEAN
    /\ pollout \in BOOLEAN
    /\ wire \in Seq(Data)
    /\ accepted \in Seq(Data)

Init ==
    /\ QueueInit
    /\ alive = TRUE
    /\ pollout = FALSE
    /\ wire = <<>>
    /\ accepted = <<>>

-----------------------------------------------------------------------------
(* io_dgram_client_send with data d that is in no other datagram under way *)

Sending(d) ==
    /\ alive
    /\ d \notin InUse
    /\ Len(accepted) < MaxSends
    /\ accepted' = Append(accepted, d)

\* Mutant: a datagram goes at once although others wait.
SendNow_Overtakes(d) ==
    /\ Sending(d)
    /\ wire' = Append(wire, d)
    /\ UNCHANGED <<segs, heap, alive, pollout>>

\* Dynamic data has been handed over to the client, which neither frees it now
\* nor keeps a trace of it.
SendNow(d) ==
    /\ Sending(d)
    /\ io_queue_is_empty
    /\ wire' = Append(wire, d)
    /\ UNCHANGED <<segs, heap, alive, pollout>>

\* Mutant: POLLOUT is not asked for.
SendLater_NotPolled(d, type) ==
    /\ Sending(d)
    /\ io_queue_put_block(d, type)
    /\ UNCHANGED <<alive, pollout, wire>>

\* The queue is not empty, or it is and sendto() answers EAGAIN.  Any other
\* error refuses the datagram and changes nothing.
SendLater(d, type) ==
    /\ Sending(d)
    /\ pollout' = TRUE
    /\ io_queue_put_block(d, type)
    /\ UNCHANGED <<alive, wire>>

-----------------------------------------------------------------------------
(* io_dgram_client_event_handler on POLLOUT *)

\* Mutant: POLLOUT is cleared after every attempt.
StopPolling_Always == pollout' = FALSE

\* After an attempt that did not fail for good.
StopPolling == pollout' = (pollout /\ segs' # <<>>)

\* The socket takes the oldest datagram.
EventSends ==
    /\ alive
    /\ pollout
    /\ HasBlock
    /\ wire' = Append(wire, io_queue_get_block.data)
    /\ io_queue_block_drop
    /\ StopPolling
    /\ UNCHANGED <<alive, accepted>>

\* EAGAIN, or no block to send.
EventSendsNothing ==
    /\ alive
    /\ pollout
    /\ UNCHANGED <<segs, heap, alive, wire, accepted>>
    /\ StopPolling

\* io_d_free on the client: its free method releases the queue.
io_dgram_client_free ==
    /\ alive
    /\ alive' = FALSE
    /\ io_queue_free
    /\ UNCHANGED <<pollout, wire, accepted>>

Next ==
    \/ \E d \in Data : SendNow(d) \/ \E type \in Types : SendLater(d, type)
    \/ EventSends
    \/ EventSendsNothing
    \/ io_dgram_client_free

Spec == Init /\ [][Next]_vars

\* A socket polled for POLLOUT takes a datagram again and again.
FairSpec == Spec /\ SF_vars(EventSends)

-----------------------------------------------------------------------------
(* Properties *)

Pending == [i \in DOMAIN Contents |-> Contents[i].data]

\* Datagrams reach the kernel in the order they were accepted, whether they went
\* at once or through the queue, and each goes once.
SentInOrder == alive => wire \o Pending = accepted

\* A queued datagram is waiting for POLLOUT.
PendingIsPolled == HasBlock => alive /\ pollout

\* A socket that keeps taking datagrams empties the queue.
QueuedIsSent == \A d \in Data : d \in ToSet(Pending) ~> d \notin ToSet(Pending)

\* POLLOUT is asked for only while a datagram waits, as the handler intends by
\* clearing it when the queue is empty; a socket ready to take data would
\* otherwise wake the loop at every turn.
IdleIsNotPolled == alive /\ pollout => HasBlock

=============================================================================
