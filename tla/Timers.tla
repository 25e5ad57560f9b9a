------------------------------- MODULE Timers -------------------------------
(***************************************************************************)
(* The timer pool of library/io_timers.c and the pass io_get_timeout makes *)
(* over it at the head of every turn of the main loop.                     *)
(*                                                                         *)
(* The two singly linked lists io_free_timers and io_active_timers are     *)
(* sequences of slots, head first.  The pass is split at every point where *)
(* foreign code runs: a timer handler may call any function of the         *)
(* interface while the pass is under way, and the clock moves meanwhile.   *)
(***************************************************************************)
EXTENDS Integers, Sequences, SequencesExt

CONSTANTS
    Clients,     \* the owners of timers: each passes itself as handler/custom
    NoClient,    \* the NULL handler of a slot never allocated
    Limit,       \* IO_TIMERS_LIMIT
    Delays,      \* the timeouts and periods clients ask for, in milliseconds
    Forgets,     \* TRUE: a client drops its handle once its one-shot has fired
    MaxTime,     \* bound: nobody arms a timer from this time on
    Horizon      \* bound: the clock stops here

ASSUME LimitAssumption == Limit \in Nat \ {0}
ASSUME DelaysAssumption == Delays \subseteq Nat
ASSUME ClientsAssumption == NoClient \notin Clients
ASSUME BoundsAssumption == MaxTime \in Nat /\ Horizon \in Nat /\ Forgets \in BOOLEAN

Slots == 1..Limit
NoSlot == 0

VARIABLES
    free,        \* io_free_timers
    active,      \* io_active_timers
    next_time,   \* io_timer.next_time, -1 when not armed
    period,      \* io_timer.period, 0 for a one-shot
    handler,     \* io_timer.handler with its custom argument
    clock,       \* what io_now() returns
    zeroed,      \* the first call of io_now has fixed _zero_time
    now,         \* the local of io_get_timeout
    timeout,     \* what io_get_timeout last returned
    wake,        \* the time at which the poll that follows gives up
    pc,          \* where the main thread is
    handle,      \* the io_timer_t * each client keeps
    lastFired    \* history: the deadline of the timer that fired last

vars == <<free, active, next_time, period, handler, clock, zeroed, now,
          timeout, wake, pc, handle, lastFired>>

slotVars == <<next_time, period, handler>>
passVars == <<now, timeout, wake, pc, lastFired>>

(***************************************************************************)
(* Where the main thread is: "events" is start() and the event callbacks   *)
(* of descriptors, "scan" the head of the loop in io_get_timeout,          *)
(* "handler" inside a timer handler, "poll" asleep, "done" after exit.     *)
(***************************************************************************)
Phases == {"events", "scan", "handler", "poll", "done"}

TypeOK ==
    /\ free \in Seq(Slots)
    /\ active \in Seq(Slots)
    /\ next_time \in [Slots -> Int]
    /\ period \in [Slots -> Nat]
    /\ handler \in [Slots -> Clients \cup {NoClient}]
    /\ clock \in Nat
    /\ zeroed \in BOOLEAN
    /\ now \in Nat
    /\ timeout \in Int
    /\ wake \in Int
    /\ pc \in Phases
    /\ handle \in [Clients -> Slots \cup {NoSlot}]
    /\ lastFired \in Nat

io_timers_init ==
    /\ free = [i \in 1..Limit |-> i]
    /\ active = <<>>
    /\ next_time = [s \in Slots |-> -1]
    /\ period = [s \in Slots |-> 0]
    /\ handler = [s \in Slots |-> NoClient]

Init ==
    /\ io_timers_init
    /\ clock = 0
    /\ zeroed = FALSE
    /\ now = 0
    /\ timeout = -1
    /\ wake = -1
    /\ pc = "events"
    /\ handle = [c \in Clients |-> NoSlot]
    /\ lastFired = 0

-----------------------------------------------------------------------------
(* The interface, called from start(), event callbacks and timer handlers. *)

Running == pc \in {"events", "handler"}

\* Time does not pass before the first io_now().
Tick ==
    /\ zeroed
    /\ clock < Horizon
    /\ clock' = clock + 1
    /\ UNCHANGED <<free, active, slotVars, zeroed, passVars, handle>>

\* The slot io_timer_alloc pops and resets, armed as the caller goes on to ask.
Take(c, nt, p) ==
    /\ Running
    /\ handle[c] = NoSlot
    /\ free # <<>>
    /\ free' = Tail(free)
    /\ active' = <<Head(free)>> \o active
    /\ next_time' = [next_time EXCEPT ![Head(free)] = nt]
    /\ period' = [period EXCEPT ![Head(free)] = p]
    /\ handler' = [handler EXCEPT ![Head(free)] = c]
    /\ handle' = [handle EXCEPT ![c] = Head(free)]
    /\ UNCHANGED <<clock, passVars>>

io_timer_alloc(c) == Take(c, -1, 0) /\ UNCHANGED zeroed

io_on_timeout(c, d) ==
    clock < MaxTime /\ Take(c, clock + d, 0) /\ zeroed' = TRUE

io_on_period(c, d) ==
    clock < MaxTime /\ Take(c, clock + d, d) /\ zeroed' = TRUE

\* Mutant: the node stays linked in the active list.
Unlink_StaysLinked(s) ==
    \/ s \in ToSet(active) /\ free' = <<s>> \o free /\ UNCHANGED active
    \/ s \notin ToSet(active) /\ UNCHANGED <<active, free>>

\* Mutant: the head of the list is unlinked in place of the node that was found.
Unlink_Head(s) ==
    \/ /\ s \in ToSet(active)
       /\ active' = Tail(active)
       /\ free' = <<Head(active)>> \o free
    \/ s \notin ToSet(active) /\ UNCHANGED <<active, free>>

\* Unlinks the slot from the active list; a slot that is not there stays put.
Unlink(s) ==
    \/ \E i \in DOMAIN active :
           /\ active[i] = s
           /\ active' = RemoveAt(active, i)
           /\ free' = <<s>> \o free
    \/ s \notin ToSet(active) /\ UNCHANGED <<active, free>>

io_timer_free(c) ==
    /\ Running
    /\ handle[c] # NoSlot
    /\ Unlink(handle[c])
    /\ handle' = [handle EXCEPT ![c] = NoSlot]
    /\ UNCHANGED <<slotVars, clock, zeroed, passVars>>

\* A one-shot call on a periodic timer moves its deadline and keeps its period.
io_timer_set_timeout(c, d) ==
    /\ Running
    /\ clock < MaxTime
    /\ handle[c] # NoSlot
    /\ next_time' = [next_time EXCEPT ![handle[c]] = clock + d]
    /\ zeroed' = TRUE
    /\ UNCHANGED <<free, active, period, handler, clock, passVars, handle>>

io_timer_set_period(c, d) ==
    /\ Running
    /\ clock < MaxTime
    /\ handle[c] # NoSlot
    /\ next_time' = [next_time EXCEPT ![handle[c]] = clock + d]
    /\ period' = [period EXCEPT ![handle[c]] = d]
    /\ zeroed' = TRUE
    /\ UNCHANGED <<free, active, handler, clock, passVars, handle>>

io_timer_stop(c) ==
    /\ Running
    /\ handle[c] # NoSlot
    /\ next_time' = [next_time EXCEPT ![handle[c]] = -1]
    /\ UNCHANGED <<free, active, period, handler, clock, zeroed, passVars, handle>>

Call ==
    \E c \in Clients :
        \/ io_timer_alloc(c)
        \/ io_timer_free(c)
        \/ io_timer_stop(c)
        \/ \E d \in Delays : \/ io_on_timeout(c, d)
                             \/ io_on_period(c, d)
                             \/ io_timer_set_timeout(c, d)
                             \/ io_timer_set_period(c, d)

-----------------------------------------------------------------------------
(* io_get_timeout *)

\* Zero is not a deadline for this code: only next_time > 0 counts.
Armed == {s \in ToSet(active) : next_time[s] > 0}

\* Mutant: the first armed timer of the list, whatever its deadline.
io_get_nearest_timer_First(i) ==
    /\ i \in DOMAIN active
    /\ active[i] \in Armed
    /\ \A j \in DOMAIN active : active[j] \in Armed => i <= j

\* The position in the active list of the timer io_get_nearest_timer returns:
\* of those with the least deadline, the one closest to the head.
io_get_nearest_timer(i) ==
    /\ i \in DOMAIN active
    /\ active[i] \in Armed
    /\ \A j \in DOMAIN active :
           active[j] \in Armed =>
               \/ next_time[active[i]] < next_time[active[j]]
               \/ next_time[active[i]] = next_time[active[j]] /\ i <= j

EnterPass ==
    /\ pc = "events"
    /\ now' = clock
    /\ zeroed' = TRUE
    /\ pc' = "scan"
    /\ UNCHANGED <<free, active, slotVars, clock, timeout, wake, handle, lastFired>>

NoTimers ==
    /\ pc = "scan"
    /\ Armed = {}
    /\ timeout' = -1
    /\ wake' = -1
    /\ pc' = "poll"
    /\ UNCHANGED <<free, active, slotVars, clock, zeroed, now, handle, lastFired>>

Sleep ==
    /\ pc = "scan"
    /\ \E i \in DOMAIN active :
           /\ io_get_nearest_timer(i)
           /\ next_time[active[i]] > now
           /\ timeout' = next_time[active[i]] - now
           /\ wake' = clock + timeout'
    /\ pc' = "poll"
    /\ UNCHANGED <<free, active, slotVars, clock, zeroed, now, handle, lastFired>>

\* Mutant: the period counts from the time of the pass.
NextDeadline_FromNow(t, p) == now + p

\* Mutant: the deadline of a periodic timer is not moved on.
NextDeadline_Same(t, p) == t

\* The deadline of a periodic timer after it fired: the loop adds the period
\* until the deadline is in the future, so missed periods are skipped.
NextDeadline(t, p) == t + p * ((now - t) \div p + 1)

FirePeriodic ==
    /\ pc = "scan"
    /\ \E i \in DOMAIN active :
           LET s == active[i] IN
           /\ io_get_nearest_timer(i)
           /\ next_time[s] <= now
           /\ period[s] > 0
           /\ lastFired' = next_time[s]
           /\ next_time' = [next_time EXCEPT ![s] = NextDeadline(next_time[s], period[s])]
    /\ pc' = "handler"
    /\ UNCHANGED <<free, active, period, handler, clock, zeroed, now, timeout,
                   wake, handle>>

\* A one-shot is back in the free list before its handler runs.
FireOneShot ==
    /\ pc = "scan"
    /\ \E i \in DOMAIN active :
           LET s == active[i] IN
           /\ io_get_nearest_timer(i)
           /\ next_time[s] <= now
           /\ period[s] = 0
           /\ lastFired' = next_time[s]
           /\ Unlink(s)
           /\ handle' = [c \in Clients |->
                             IF Forgets /\ c = handler[s] THEN NoSlot ELSE handle[c]]
    /\ pc' = "handler"
    /\ UNCHANGED <<slotVars, clock, zeroed, now, timeout, wake>>

HandlerReturns ==
    /\ pc = "handler"
    /\ pc' = "scan"
    /\ UNCHANGED <<free, active, slotVars, clock, zeroed, now, timeout, wake,
                   handle, lastFired>>

Pass == EnterPass \/ NoTimers \/ Sleep \/ FirePeriodic \/ FireOneShot \/ HandlerReturns

-----------------------------------------------------------------------------
(* The caller: the poll that follows, and the end of the process. *)

\* poll(2) is over and the value passed to it is spent.
PollReturns ==
    /\ pc = "poll"
    /\ pc' = "events"
    /\ timeout' = -1
    /\ wake' = -1
    /\ UNCHANGED <<free, active, slotVars, clock, zeroed, now, handle, lastFired>>

\* poll(2) gives up at wake; at the horizon a pending timeout counts as over.
PollTimeout ==
    /\ timeout >= 0
    /\ clock >= wake \/ clock = Horizon
    /\ PollReturns

\* A descriptor is ready, or there is none and io_ds_poll returns at once.
PollEvent == PollReturns

\* exit(): io_timers_free moves the active list, head by head, to the free one.
io_timers_free ==
    /\ pc # "done"
    /\ free' = Reverse(active) \o free
    /\ active' = <<>>
    /\ pc' = "done"
    /\ UNCHANGED <<slotVars, clock, zeroed, now, timeout, wake, handle, lastFired>>

Next == Tick \/ Call \/ Pass \/ PollTimeout \/ PollEvent \/ io_timers_free

Spec == Init /\ [][Next]_vars

\* Handlers and event callbacks return, the pass is a loop that keeps running,
\* the clock advances and poll honours its timeout.  Events and exit are not owed.
Fairness == WF_vars(Tick) /\ WF_vars(Pass) /\ WF_vars(PollTimeout)

FairSpec == Spec /\ Fairness

-----------------------------------------------------------------------------
(* Properties *)

\* No slot is lost, linked twice or in both lists, whatever handlers do during
\* the pass and even when they use a handle whose one-shot has already fired.
PoolPartition ==
    /\ IsInjective(free)
    /\ IsInjective(active)
    /\ ToSet(free) \cap ToSet(active) = {}
    /\ ToSet(free) \cup ToSet(active) = Slots

\* A client that forgets a fired one-shot owns its slot alone: the slot its
\* handle names is active and will call that client and nobody else.
HandlesOwned ==
    Forgets /\ pc # "done" =>
        \A c \in Clients :
            handle[c] # NoSlot => /\ handle[c] \in ToSet(active)
                                  /\ handler[handle[c]] = c

\* The loop never goes to sleep over a timer that is due, and asks poll for
\* exactly the distance from the time it sampled to the nearest deadline.
SleepsUntilNearest ==
    pc = "poll" =>
        IF Armed = {} THEN timeout = -1
        ELSE /\ timeout > 0
             /\ \A s \in Armed : next_time[s] >= now + timeout
             /\ \E s \in Armed : next_time[s] = now + timeout

\* A handler never runs before its deadline, and no timer left behind has a
\* deadline earlier than one already served.
NeverEarly ==
    /\ lastFired <= clock
    /\ \A s \in Armed : lastFired <= next_time[s]

\* Deadlines are served in order, across passes too, though handlers arm, move
\* and free timers between any two of them.
FiredInDeadlineOrder == [][lastFired' >= lastFired]_vars

\* A periodic timer that fires stays on the grid of its period, is due again
\* after the sampled time and skips the periods it missed.
PeriodKept ==
    [][pc = "scan" /\ pc' = "handler" =>
          \A s \in ToSet(active) :
              next_time'[s] # next_time[s] =>
                  /\ (next_time'[s] - next_time[s]) % period[s] = 0
                  /\ now < next_time'[s]
                  /\ next_time'[s] - period[s] <= now]_vars

\* An armed timer fires, unless it is moved, stopped, freed or the process ends:
\* no handler that keeps re-arming itself starves it.
ArmedEventuallyFires ==
    \A s \in Slots : \A t \in 1..MaxTime :
        (s \in Armed /\ next_time[s] = t) ~>
            (s \notin Armed \/ next_time[s] # t \/ pc = "done")

=============================================================================
