------------------------------ MODULE EventLoop ------------------------------
(***************************************************************************)
(* The descriptor list and poll turn of library/io_ds.c, driven by the     *)
(* loop in main() of library/io.c.                                         *)
(*                                                                         *)
(* One turn: io_get_timeout runs due timer handlers, io_ds_poll copies the *)
(* list into the array ds[], polls, and calls the event method of every    *)
(* descriptor that is ready.  Handlers run between any two of these steps  *)
(* and may change the list the array was copied from.  Timers are reduced  *)
(* to what the loop asks of them (module Timers has the pool itself).      *)
(***************************************************************************)
EXTENDS Integers, Sequences, SequencesExt, FiniteSets

CONSTANTS
    Ds,           \* addresses a descriptor may be allocated at
    Timers,       \* timer slots
    FreeOthers,   \* event methods free descriptors other than their own
    CloseOthers,  \* handlers close descriptors other than their own
    StopTimers    \* clients keep timers allocated that are not armed

ASSUME SwitchesAssumption == {FreeOthers, CloseOthers, StopTimers} \subseteq BOOLEAN

VARIABLES
    io_ds,        \* the list, head first
    io_ds_length,
    live,         \* descriptors whose memory is allocated
    open,         \* descriptors with fd >= 0
    watched,      \* descriptors with events # 0
    timers,       \* "off", "stopped" (allocated, not armed) or "armed"
    pc,
    timeout,      \* what io_get_timeout returned: -1, or 1 for any wait
    ds,           \* the array io_ds_poll fills from the list
    polled,       \* the positions of ds that are given to poll
    fired,        \* the positions poll returned events for, not yet served
    cur,          \* the position being served
    ret,          \* the value of io_ds_poll; Interrupted or Failed below zero
    fresh,        \* history: descriptors initialised since the last poll
    stale         \* history: phases that have read a freed descriptor since then

vars == <<io_ds, io_ds_length, live, open, watched, timers, pc, timeout, ds,
          polled, fired, cur, ret, fresh, stale>>
listVars == <<io_ds, io_ds_length, live, open, watched>>
batchVars == <<ds, polled, fired, cur, fresh, stale>>

Interrupted == -1
Failed == -2

(***************************************************************************)
(* "start" is start(), "timeout" the loop of io_get_timeout, "tick" a      *)
(* timer handler, "collect" the head of io_ds_poll, "dispatch" its second  *)
(* loop, "event" inside an event method, "after" behind that call, "cond"  *)
(* the condition of the loop in main, "exit" behind that loop, "done" the  *)
(* end of the process.  "undefined": the program has called, or freed once *)
(* more, what it had freed, and may do anything.                           *)
(***************************************************************************)
Phases == {"start", "timeout", "tick", "collect", "dispatch", "event", "after",
           "cond", "exit", "done", "undefined"}

TypeOK ==
    /\ io_ds \in Seq(Ds)
    /\ io_ds_length \in Int
    /\ live \subseteq Ds
    /\ open \subseteq Ds
    /\ watched \subseteq Ds
    /\ timers \in [Timers -> {"off", "stopped", "armed"}]
    /\ pc \in Phases
    /\ timeout \in {-1, 1}
    /\ ds \in Seq(Ds)
    /\ polled \subseteq DOMAIN ds
    /\ fired \subseteq polled
    /\ cur \in Nat
    /\ ret \in Int
    /\ fresh \subseteq Ds
    /\ stale \subseteq {"dispatch", "after"}

Init ==
    /\ io_ds = <<>>
    /\ io_ds_length = 0
    /\ live = {}
    /\ open = {}
    /\ watched = {}
    /\ timers = [t \in Timers |-> "off"]
    /\ pc = "start"
    /\ timeout = -1
    /\ ds = <<>>
    /\ polled = {}
    /\ fired = {}
    /\ cur = 0
    /\ ret = 0
    /\ fresh = {}
    /\ stale = {}

-----------------------------------------------------------------------------
(* What start(), timer handlers and event methods may do. *)

Running == pc \in {"start", "tick", "event"}

\* Memory that was freed may be handed out again at the same address.
io_d_init(d) ==
    /\ Running
    /\ d \notin live
    /\ io_ds' = <<d>> \o io_ds
    /\ io_ds_length' = io_ds_length + 1
    /\ live' = live \cup {d}
    /\ open' = open \cup {d}
    /\ watched' = watched \cup {d}
    /\ fresh' = IF pc = "event" THEN fresh \cup {d} ELSE fresh
    /\ UNCHANGED <<timers, pc, timeout, ds, polled, fired, cur, ret, stale>>

io_d_close(d) ==
    /\ Running
    /\ d \in live
    /\ CloseOthers \/ (pc = "event" /\ d = ds[cur])
    /\ open' = open \ {d}
    /\ UNCHANGED <<io_ds, io_ds_length, live, watched, timers, pc, timeout, batchVars, ret>>

SetEvents(d) ==
    /\ Running
    /\ d \in live
    /\ watched' \in {watched \cup {d}, watched \ {d}}
    /\ UNCHANGED <<io_ds, io_ds_length, live, open, timers, pc, timeout, batchVars, ret>>

\* Mutant: the head of the list is unlinked, whichever descriptor it is.
FreeListed_Head(d) ==
    /\ io_ds' = Tail(io_ds)
    /\ io_ds_length' = io_ds_length - 1
    /\ live' = live \ {d}
    /\ open' = open \ {d}
    /\ watched' = watched \ {d}

\* io_d_free on a listed descriptor: unlink, close, release.
FreeListed(d) ==
    /\ \E i \in DOMAIN io_ds : io_ds[i] = d /\ io_ds' = RemoveAt(io_ds, i)
    /\ io_ds_length' = io_ds_length - 1
    /\ live' = live \ {d}
    /\ open' = open \ {d}
    /\ watched' = watched \ {d}

\* Timer handlers free any descriptor, event methods their own.
io_d_free(d) ==
    /\ Running
    /\ pc = "event" => FreeOthers \/ d = ds[cur]
    /\ d \in live
    /\ FreeListed(d)
    /\ UNCHANGED <<timers, pc, timeout, batchVars, ret>>

\* alloc, set_timeout, stop, free: the state a call leaves one timer in.
TimerCall(t) ==
    /\ Running
    /\ timers' \in {[timers EXCEPT ![t] = v] :
                        v \in {"off", "armed"} \cup IF StopTimers THEN {"stopped"} ELSE {}}
    /\ UNCHANGED <<listVars, pc, timeout, batchVars, ret>>

Call == \/ \E d \in Ds : io_d_init(d) \/ io_d_close(d) \/ io_d_free(d) \/ SetEvents(d)
        \/ \E t \in Timers : TimerCall(t)

-----------------------------------------------------------------------------
(* The turn of the main loop. *)

Armed == {t \in Timers : timers[t] = "armed"}

io_has_active_timers == \E t \in Timers : timers[t] # "off"

StartReturns ==
    /\ pc = "start"
    /\ pc' = "timeout"
    /\ UNCHANGED <<listVars, timers, timeout, batchVars, ret>>

\* A one-shot goes back to the free list, a periodic timer stays armed.
FireTimer ==
    /\ pc = "timeout"
    /\ \E t \in Armed : timers' \in {timers, [timers EXCEPT ![t] = "off"]}
    /\ pc' = "tick"
    /\ UNCHANGED <<listVars, timeout, batchVars, ret>>

TickReturns ==
    /\ pc = "tick"
    /\ pc' = "timeout"
    /\ UNCHANGED <<listVars, timers, timeout, batchVars, ret>>

TimeoutReturns ==
    /\ pc = "timeout"
    /\ timeout' = IF Armed = {} THEN -1 ELSE 1
    /\ pc' = "collect"
    /\ UNCHANGED <<listVars, timers, batchVars, ret>>

\* The positions of the list that io_ds_poll copies: all with events # 0.
Watchable == {i \in DOMAIN io_ds : io_ds[i] \in watched}

NothingToDo ==
    /\ pc = "collect"
    /\ timeout < 0 /\ Watchable = {}
    /\ ret' = 0
    /\ pc' = "cond"
    /\ UNCHANGED <<listVars, timers, timeout, batchVars>>

\* poll() ignores an entry whose fd is -1.
PollReady ==
    /\ pc = "collect"
    /\ \E F \in SUBSET {i \in Watchable : io_ds[i] \in open} :
           F # {} /\ fired' = F
    /\ ds' = io_ds
    /\ polled' = Watchable
    /\ cur' = 0
    /\ pc' = "dispatch"
    /\ UNCHANGED <<listVars, timers, timeout, ret, fresh, stale>>

PollTimesOut ==
    /\ pc = "collect"
    /\ timeout >= 0
    /\ ret' = Cardinality(Watchable)
    /\ pc' = "cond"
    /\ UNCHANGED <<listVars, timers, timeout, batchVars>>

PollFails ==
    /\ pc = "collect"
    /\ timeout >= 0 \/ Watchable # {}
    /\ ret' \in {Interrupted, Failed}
    /\ pc' = "cond"
    /\ UNCHANGED <<listVars, timers, timeout, batchVars>>

\* A descriptor that has been freed is read, and not another at its address.
Reads(d) == stale' = IF d \in live THEN stale ELSE stale \cup {pc}

\* Mutant: the position stays among those to be served.
CallEvent_Again ==
    /\ pc = "dispatch"
    /\ \E i \in fired :
           /\ \A j \in fired : i <= j
           /\ cur' = i
           /\ Reads(ds[i])
           /\ pc' = IF ds[i] \in live THEN "event" ELSE "undefined"
    /\ UNCHANGED <<listVars, timers, timeout, ds, polled, fired, ret, fresh>>

\* Mutant: the position behind the one that is served is passed over.
CallEvent_Skips ==
    /\ pc = "dispatch"
    /\ \E i \in fired :
           /\ \A j \in fired : i <= j
           /\ cur' = i
           /\ fired' = fired \ {i, i + 1}
           /\ Reads(ds[i])
           /\ pc' = IF ds[i] \in live THEN "event" ELSE "undefined"
    /\ UNCHANGED <<listVars, timers, timeout, ds, polled, ret, fresh>>

\* The event method of the next position, in list order, that has events.
CallEvent ==
    /\ pc = "dispatch"
    /\ \E i \in fired :
           /\ \A j \in fired : i <= j
           /\ cur' = i
           /\ fired' = fired \ {i}
           /\ Reads(ds[i])
           /\ pc' = IF ds[i] \in live THEN "event" ELSE "undefined"
    /\ UNCHANGED <<listVars, timers, timeout, ds, polled, ret, fresh>>

EventReturns ==
    /\ pc = "event"
    /\ pc' = "after"
    /\ UNCHANGED <<listVars, timers, timeout, batchVars, ret>>

\* Mutant: a closed descriptor is left to a later turn.
FreeIfClosed_Never ==
    /\ pc = "after"
    /\ pc' = "dispatch"
    /\ UNCHANGED <<listVars, timers, timeout, batchVars, ret>>

\* The loop reads the fd of the descriptor it has just served.  In one that was freed
\* it may find anything: with -1 it frees it again, with any other value it goes on.
FreeIfClosed ==
    /\ pc = "after"
    /\ Reads(ds[cur])
    /\ IF ds[cur] \in live \ open THEN FreeListed(ds[cur]) ELSE UNCHANGED listVars
    /\ pc' \in {"dispatch"} \cup IF ds[cur] \in live THEN {} ELSE {"undefined"}
    /\ UNCHANGED <<timers, timeout, ds, polled, fired, cur, fresh, ret>>

\* The frame of io_ds_poll, with its arrays, is gone.
DropBatch ==
    /\ ds' = <<>>
    /\ polled' = {}
    /\ fired' = {}
    /\ cur' = 0
    /\ fresh' = {}
    /\ stale' = {}

PollReturns ==
    /\ pc = "dispatch"
    /\ fired = {}
    /\ ret' = Cardinality(polled)
    /\ pc' = "cond"
    /\ DropBatch
    /\ UNCHANGED <<listVars, timers, timeout>>

\* The loop goes on, for which what poll returned is forgotten, or it ends.
GoOnIf(condition) ==
    /\ pc' = IF condition THEN "timeout" ELSE "exit"
    /\ ret' = IF condition THEN 0 ELSE ret

\* Mutant: the loop ends with timers running.
MainCondition_NoTimers ==
    /\ pc = "cond"
    /\ GoOnIf(ret > 0 \/ ret = Interrupted)
    /\ UNCHANGED <<listVars, timers, timeout, batchVars>>

MainCondition ==
    /\ pc = "cond"
    /\ GoOnIf(ret > 0 \/ ret = Interrupted \/ io_has_active_timers)
    /\ UNCHANGED <<listVars, timers, timeout, batchVars>>

\* io_free: io_timers_free, then io_ds_free frees the head until there is none.
FreeAll ==
    /\ timers' = [t \in Timers |-> "off"]
    /\ io_ds' = <<>>
    /\ io_ds_length' = io_ds_length - Len(io_ds)
    /\ live' = live \ ToSet(io_ds)
    /\ open' = open \ ToSet(io_ds)
    /\ watched' = watched \ ToSet(io_ds)
    /\ pc' = "done"
    /\ DropBatch
    /\ UNCHANGED <<timeout, ret>>

io_free == pc = "exit" /\ FreeAll

\* SIGTERM or SIGINT: the handler calls exit().
sig_any == pc \notin {"exit", "done", "undefined"} /\ FreeAll

Program == \/ StartReturns \/ FireTimer \/ TickReturns \/ TimeoutReturns
           \/ NothingToDo \/ PollTimesOut
           \/ CallEvent \/ EventReturns \/ FreeIfClosed \/ PollReturns
           \/ MainCondition \/ io_free

Next == Call \/ Program \/ PollReady \/ PollFails \/ sig_any

Spec == Init /\ [][Next]_vars

\* The process keeps running, handlers return and poll honours its timeout.
\* Neither events nor failures of poll are owed.
FairSpec == Spec /\ WF_vars(Program)

-----------------------------------------------------------------------------
(* Properties *)

\* The list holds each allocated descriptor once, and io_ds_length, which
\* sizes the two arrays on the stack of io_ds_poll, is its length.
ListedOnce ==
    /\ IsInjective(io_ds)
    /\ ToSet(io_ds) = live
    /\ io_ds_length = Len(io_ds)

\* While a batch is being served, every entry still to be served is the very
\* descriptor poll reported, still allocated, though event methods free their own
\* descriptor and open new ones, perhaps at an address freed earlier in the batch;
\* so no event method is called of a descriptor that is not there.
BatchIsLive ==
    /\ \A i \in fired : ds[i] \in live \ fresh
    /\ "dispatch" \notin stale

\* io_ds_poll never reads a descriptor that has been freed.
NoUseAfterFree == stale = {}

\* A descriptor closed by its own handler is freed within the turn: none is
\* left in the list with fd -1, where poll would never report it.
NoZombie == pc \in {"timeout", "collect", "cond"} => open = live

\* main() leaves its loop only if poll failed or there is nothing left that
\* could ever call a handler.
ExitsOnlyWhenIdle ==
    pc = "exit" => \/ ret = Failed
                   \/ ~io_has_active_timers /\ live \cap watched = {}

\* The event method of each descriptor that poll reported is called in its turn, though
\* the methods before it close and free descriptors and open others, and the loop
\* may read freed memory in between; unless the program ends on the way.
EachReportIsServed ==
    \A d \in Ds : (\E i \in fired : ds[i] = d)
                      ~> (pc = "event" /\ ds[cur] = d) \/ pc \in {"done", "undefined"}

=============================================================================
