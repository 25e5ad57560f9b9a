---------------------------- MODULE TimersProofs ----------------------------
(***************************************************************************)
(* Theorems about Timers, for any number of slots and clients, any delays  *)
(* and any bounds on the clock.                                            *)
(***************************************************************************)
EXTENDS Timers, ListLemmas

\* The strengthening that makes the four safety invariants inductive together:
\* the time the pass has sampled is not in the future.
TimersInv ==
    /\ TypeOK
    /\ PoolPartition
    /\ HandlesOwned
    /\ NeverEarly
    /\ now <= clock

-----------------------------------------------------------------------------
(* What the two list operations do to the pool. *)

LEMMA TakeMovesOneSlot ==
    ASSUME TypeOK, PoolPartition, NEW c \in Clients, NEW nt, NEW p, Take(c, nt, p)
    PROVE  /\ Head(free) \in Slots
           /\ Head(free) \notin ToSet(active)
           /\ free' \in Seq(Slots)
           /\ active' \in Seq(Slots)
           /\ PoolPartition'
           /\ ToSet(active') = ToSet(active) \cup {Head(free)}
<1>1. /\ free \in Seq(Slots) /\ active \in Seq(Slots)
      /\ IsInjective(free) /\ IsInjective(active)
      /\ ToSet(free) \cap ToSet(active) = {}
      /\ ToSet(free) \cup ToSet(active) = Slots
  BY DEF TypeOK, PoolPartition
<1>2. free # <<>> /\ free' = Tail(free) /\ active' = <<Head(free)>> \o active
  BY DEF Take
<1>3. /\ Head(free) \in ToSet(free)
      /\ Head(free) \in Slots
      /\ Tail(free) \in Seq(Slots)
      /\ IsInjective(Tail(free))
      /\ ToSet(Tail(free)) = ToSet(free) \ {Head(free)}
  BY <1>1, <1>2, PopNode
<1>4. Head(free) \notin ToSet(active)
  BY <1>1, <1>3
<1>5. /\ <<Head(free)>> \o active \in Seq(Slots)
      /\ IsInjective(<<Head(free)>> \o active)
      /\ ToSet(<<Head(free)>> \o active) = ToSet(active) \cup {Head(free)}
  BY <1>1, <1>3, <1>4, PushNode
<1> QED
  BY <1>1, <1>2, <1>3, <1>4, <1>5 DEF PoolPartition

LEMMA UnlinkMovesOneSlot ==
    ASSUME TypeOK, PoolPartition, NEW s \in Slots, Unlink(s)
    PROVE  /\ free' \in Seq(Slots)
           /\ active' \in Seq(Slots)
           /\ PoolPartition'
           /\ ToSet(active') = ToSet(active) \ {s}
<1>1. /\ free \in Seq(Slots) /\ active \in Seq(Slots)
      /\ IsInjective(free) /\ IsInjective(active)
      /\ ToSet(free) \cap ToSet(active) = {}
      /\ ToSet(free) \cup ToSet(active) = Slots
  BY DEF TypeOK, PoolPartition
<1>2. CASE s \notin ToSet(active) /\ UNCHANGED <<active, free>>
  BY <1>1, <1>2 DEF PoolPartition
<1>3. CASE \E i \in DOMAIN active : /\ active[i] = s
                                    /\ active' = RemoveAt(active, i)
                                    /\ free' = <<s>> \o free
  <2>1. PICK i \in 1..Len(active) : /\ active[i] = s
                                    /\ active' = RemoveAt(active, i)
                                    /\ free' = <<s>> \o free
    BY <1>1, <1>3
  <2>2. s \in ToSet(active)
    BY <1>1, <2>1 DEF ToSet
  <2>3. s \notin ToSet(free)
    BY <1>1, <2>2
  <2>4. /\ active' \in Seq(Slots)
        /\ IsInjective(active')
        /\ ToSet(active') = ToSet(active) \ {s}
    BY <1>1, <2>1, UnlinkNode
  <2>5. /\ free' \in Seq(Slots)
        /\ IsInjective(free')
        /\ ToSet(free') = ToSet(free) \cup {s}
    BY <1>1, <2>1, <2>3, PushNode
  <2> QED
    BY <1>1, <2>2, <2>4, <2>5 DEF PoolPartition
<1> QED
  BY <1>2, <1>3 DEF Unlink

LEMMA DrainMovesEverySlot ==
    ASSUME TypeOK, PoolPartition, io_timers_free
    PROVE  /\ free' \in Seq(Slots)
           /\ active' \in Seq(Slots)
           /\ PoolPartition'
           /\ ToSet(active') = {}
<1>1. /\ free \in Seq(Slots) /\ active \in Seq(Slots)
      /\ IsInjective(free) /\ IsInjective(active)
      /\ ToSet(free) \cap ToSet(active) = {}
      /\ ToSet(free) \cup ToSet(active) = Slots
  BY DEF TypeOK, PoolPartition
<1>2. free' = Reverse(active) \o free /\ active' = <<>>
  BY DEF io_timers_free
<1>3. /\ free' \in Seq(Slots)
      /\ IsInjective(free')
      /\ ToSet(free') = ToSet(active) \cup ToSet(free)
  BY <1>1, <1>2, DrainNodes
<1>4. active' \in Seq(Slots) /\ IsInjective(active') /\ ToSet(active') = {}
  BY <1>2 DEF IsInjective, ToSet
<1> QED
  BY <1>1, <1>3, <1>4 DEF PoolPartition

\* The least deadline is a lower bound of every armed one.
LEMMA NearestIsLeast ==
    ASSUME TypeOK, NEW i, io_get_nearest_timer(i)
    PROVE  /\ i \in DOMAIN active
           /\ active[i] \in Slots
           /\ active[i] \in Armed
           /\ next_time[active[i]] > 0
           /\ \A s \in Armed : next_time[active[i]] <= next_time[s]
<1>1. /\ i \in DOMAIN active
      /\ active[i] \in Armed
      /\ \A j \in DOMAIN active :
             active[j] \in Armed => \/ next_time[active[i]] < next_time[active[j]]
                                    \/ next_time[active[i]] = next_time[active[j]]
  BY DEF io_get_nearest_timer
<1>2. active \in Seq(Slots) /\ next_time \in [Slots -> Int]
  BY DEF TypeOK
<1>3. \A j \in DOMAIN active : active[j] \in Slots
  BY <1>2
<1>4. \A j \in DOMAIN active : next_time[active[j]] \in Int
  BY <1>2, <1>3
<1>5. ASSUME NEW s \in Armed PROVE next_time[active[i]] <= next_time[s]
  <2>1. PICK j \in DOMAIN active : active[j] = s
    BY DEF Armed, ToSet
  <2> QED
    BY <1>1, <1>4, <2>1
<1>6. next_time[active[i]] > 0
  BY <1>1 DEF Armed
<1> QED
  BY <1>1, <1>3, <1>5, <1>6

LEMMA NextDeadlineIsLater ==
    ASSUME NEW t \in Int, NEW p \in Nat, p > 0, now \in Nat, t <= now
    PROVE  NextDeadline(t, p) \in Int /\ NextDeadline(t, p) >= t
<1> DEFINE k == (now - t) \div p
<1>1. k \in Nat
  OBVIOUS
<1> HIDE DEF k
<1>2. p * (k + 1) \in Nat
  BY <1>1
<1> QED
  BY <1>2 DEF NextDeadline, k

\* The division of io_get_timeout, told by its products.
LEMMA DivisionTells ==
    ASSUME NEW a \in Nat, NEW p \in Nat, p > 0
    PROVE  a \div p \in Nat /\ p * (a \div p) <= a /\ a < p * (a \div p) + p
  OBVIOUS

\* A multiple leaves no rest.
LEMMA Multiple ==
    ASSUME NEW p \in Nat, p > 0, NEW k \in Nat
    PROVE  (p * k) % p = 0
<1> DEFINE a == p * k
           q == a \div p
           m == a % p
<1>1. a \in Nat
  OBVIOUS
<1>2. q \in Nat /\ m \in Nat /\ m < p
  BY <1>1
<1>3. a = p * q + m
  BY <1>1
<1> HIDE DEF q, m
<1>4. p * (k - q) = m
  <2>1. p * (k - q) = p * k - p * q
    BY <1>2
  <2> QED
    BY <1>2, <1>3, <2>1
<1>5. k = q
  <2>1. ASSUME k - q >= 1 PROVE FALSE
    <3>1. p * (k - q) >= p
      BY <1>2, <2>1
    <3> QED
      BY <1>2, <1>4, <3>1
  <2>2. ASSUME k - q <= -1 PROVE FALSE
    <3>1. p * (k - q) < 0
      BY <1>2, <2>2
    <3> QED
      BY <1>2, <1>4, <3>1
  <2> QED
    BY <1>2, <2>1, <2>2
<1>6. m = 0
  BY <1>2, <1>4, <1>5
<1> QED
  BY <1>6 DEF m

\* The deadline that io_get_timeout gives a periodic timer is the first of its grid
\* behind the time of the pass.
LEMMA NextDeadlineOnGrid ==
    ASSUME NEW t \in Int, NEW p \in Nat, p > 0, now \in Nat, t <= now
    PROVE  /\ NextDeadline(t, p) \in Int
           /\ (NextDeadline(t, p) - t) % p = 0
           /\ now < NextDeadline(t, p)
           /\ NextDeadline(t, p) - p <= now
<1> DEFINE k == (now - t) \div p
<1>1. now - t \in Nat
  OBVIOUS
<1>2. k \in Nat /\ p * k <= now - t /\ now - t < p * k + p
  BY <1>1, DivisionTells
<1> HIDE DEF k
<1>3. NextDeadline(t, p) = t + p * (k + 1)
  BY DEF NextDeadline, k
<1>4. PICK m \in Nat : m = p * (k + 1)
  BY <1>2
<1>5. m = p * k + p
  BY <1>2, <1>4
<1>6. m % p = 0
  BY <1>2, <1>4, Multiple
<1>7. NextDeadline(t, p) - t = m
  BY <1>3, <1>4
<1>8. PICK n \in Nat : n = p * k
  BY <1>2
<1> QED
  BY <1>2, <1>3, <1>4, <1>5, <1>6, <1>7, <1>8

-----------------------------------------------------------------------------
(* The invariant. *)

LEMMA InitEstablishesInv == Init => TimersInv
<1> SUFFICES ASSUME Init PROVE TimersInv
  OBVIOUS
<1> USE DEF Init, io_timers_init
<1>1. Limit \in Nat /\ free = [i \in 1..Limit |-> i] /\ active = <<>>
  BY LimitAssumption
<1>2. free \in Seq(Slots) /\ active \in Seq(Slots)
  BY <1>1 DEF Slots
<1>3. IsInjective(free) /\ IsInjective(active)
  BY <1>1 DEF IsInjective
<1>4. ToSet(free) = Slots /\ ToSet(active) = {}
  BY <1>1 DEF ToSet, Slots
<1>5. TypeOK
  <2>1. next_time \in [Slots -> Int] /\ period \in [Slots -> Nat]
    OBVIOUS
  <2>2. handler \in [Slots -> Clients \cup {NoClient}]
    OBVIOUS
  <2>3. handle \in [Clients -> Slots \cup {NoSlot}]
    OBVIOUS
  <2>4. clock \in Nat /\ now \in Nat /\ lastFired \in Nat /\ timeout \in Int /\ wake \in Int
    OBVIOUS
  <2>5. zeroed \in BOOLEAN /\ pc \in Phases
    BY DEF Phases
  <2> HIDE DEF Init, io_timers_init
  <2> QED
    BY <1>2, <2>1, <2>2, <2>3, <2>4, <2>5 DEF TypeOK
<1>6. PoolPartition
  BY <1>3, <1>4 DEF PoolPartition
<1>7. HandlesOwned
  BY DEF HandlesOwned
<1>8. NeverEarly
  BY <1>4 DEF NeverEarly, Armed
<1> QED
  BY <1>5, <1>6, <1>7, <1>8 DEF TimersInv

\* Allocation, armed with nothing (-1) or with a deadline that is not in the past.
LEMMA TakeKeepsInv ==
    ASSUME TimersInv, NEW c \in Clients, NEW nt \in Int, NEW p \in Nat,
           Take(c, nt, p), zeroed' \in BOOLEAN, nt > 0 => clock <= nt
    PROVE  TimersInv'
<1> DEFINE h == Head(free)
<1>1. /\ h \in Slots
      /\ h \notin ToSet(active)
      /\ free' \in Seq(Slots)
      /\ active' \in Seq(Slots)
      /\ PoolPartition'
      /\ ToSet(active') = ToSet(active) \cup {h}
  BY TakeMovesOneSlot DEF TimersInv
<1>2. /\ next_time' = [next_time EXCEPT ![h] = nt]
      /\ period' = [period EXCEPT ![h] = p]
      /\ handler' = [handler EXCEPT ![h] = c]
      /\ handle' = [handle EXCEPT ![c] = h]
      /\ UNCHANGED <<clock, now, timeout, wake, pc, lastFired>>
  BY DEF Take, passVars
<1> HIDE DEF h
<1>3. TypeOK'
  BY <1>1, <1>2 DEF TimersInv, TypeOK
<1>4. HandlesOwned'
  <2> SUFFICES ASSUME Forgets, pc # "done", NEW d \in Clients, handle'[d] # NoSlot
               PROVE  handle'[d] \in ToSet(active') /\ handler'[handle'[d]] = d
    BY <1>2 DEF HandlesOwned
  <2>1. CASE d = c
    BY <1>1, <1>2, <2>1 DEF TimersInv, TypeOK
  <2>2. CASE d # c
    <3>1. handle'[d] = handle[d] /\ handle[d] \in Slots
      BY <1>2, <2>2 DEF TimersInv, TypeOK
    <3>2. handle[d] \in ToSet(active) /\ handler[handle[d]] = d
      BY <3>1 DEF TimersInv, HandlesOwned
    <3>3. handle[d] # h
      BY <1>1, <3>2
    <3> QED
      BY <1>1, <1>2, <3>1, <3>2, <3>3 DEF TimersInv, TypeOK
  <2> QED
    BY <2>1, <2>2
<1>5. NeverEarly'
  <2> SUFFICES ASSUME NEW s \in Armed' PROVE lastFired <= next_time'[s]
    BY <1>2 DEF NeverEarly, TimersInv
  <2>1. s \in ToSet(active) \cup {h} /\ next_time'[s] > 0
    BY <1>1 DEF Armed
  <2>2. CASE s = h
    <3>1. next_time'[s] = nt
      BY <1>1, <1>2, <2>2 DEF TimersInv, TypeOK
    <3> QED
      BY <2>1, <3>1 DEF TimersInv, TypeOK, NeverEarly
  <2>3. CASE s # h
    <3>1. next_time'[s] = next_time[s] /\ s \in Armed
      BY <1>2, <2>1, <2>3 DEF TimersInv, TypeOK, PoolPartition, Armed
    <3> QED
      BY <3>1 DEF TimersInv, NeverEarly
  <2> QED
    BY <2>2, <2>3
<1>6. now' <= clock'
  BY <1>2 DEF TimersInv
<1> QED
  BY <1>1, <1>3, <1>4, <1>5, <1>6 DEF TimersInv

\* Moving or clearing the deadline of one slot.
LEMMA SetDeadlineKeepsInv ==
    ASSUME TimersInv, NEW s \in Slots, NEW nt \in Int, nt > 0 => clock <= nt,
           next_time' = [next_time EXCEPT ![s] = nt],
           period' \in [Slots -> Nat], zeroed' \in BOOLEAN,
           UNCHANGED <<free, active, handler, clock, passVars, handle>>
    PROVE  TimersInv'
<1>1. TypeOK'
  BY DEF TimersInv, TypeOK, passVars
<1>2. PoolPartition' /\ HandlesOwned' /\ now' <= clock'
  BY DEF TimersInv, PoolPartition, HandlesOwned, passVars
<1>3. NeverEarly'
  <2> SUFFICES ASSUME NEW u \in Armed' PROVE lastFired <= next_time'[u]
    BY DEF NeverEarly, TimersInv, passVars
  <2>1. u \in ToSet(active) /\ u \in Slots /\ next_time'[u] > 0
    BY DEF Armed, TimersInv, PoolPartition
  <2>2. CASE u = s
    BY <2>1, <2>2 DEF TimersInv, TypeOK, NeverEarly
  <2>3. CASE u # s
    <3>1. next_time'[u] = next_time[u] /\ u \in Armed
      BY <2>1, <2>3 DEF TimersInv, TypeOK, Armed
    <3> QED
      BY <3>1 DEF TimersInv, NeverEarly
  <2> QED
    BY <2>2, <2>3
<1> QED
  BY <1>1, <1>2, <1>3 DEF TimersInv

LEMMA CallKeepsInv == TimersInv /\ Call => TimersInv'
<1> SUFFICES ASSUME TimersInv, Call PROVE TimersInv'
  OBVIOUS
<1>1. clock \in Nat /\ zeroed \in BOOLEAN /\ period \in [Slots -> Nat]
  BY DEF TimersInv, TypeOK
<1>2. PICK c \in Clients :
          \/ io_timer_alloc(c)
          \/ io_timer_free(c)
          \/ io_timer_stop(c)
          \/ \E d \in Delays : \/ io_on_timeout(c, d)
                               \/ io_on_period(c, d)
                               \/ io_timer_set_timeout(c, d)
                               \/ io_timer_set_period(c, d)
  BY DEF Call
<1>3. handle[c] # NoSlot => handle[c] \in Slots
  BY DEF TimersInv, TypeOK
<1>4. CASE io_timer_alloc(c)
  BY <1>1, <1>4, TakeKeepsInv DEF io_timer_alloc
<1>5. CASE io_timer_stop(c)
  <2>1. -1 \in Int /\ ~(-1 > 0) /\ handle[c] \in Slots
    BY <1>3, <1>5 DEF io_timer_stop
  <2>2. /\ next_time' = [next_time EXCEPT ![handle[c]] = -1]
        /\ period' \in [Slots -> Nat] /\ zeroed' \in BOOLEAN
        /\ UNCHANGED <<free, active, handler, clock, passVars, handle>>
    BY <1>1, <1>5 DEF io_timer_stop
  <2> QED
    BY <2>1, <2>2, SetDeadlineKeepsInv
<1>6. ASSUME NEW d \in Delays, io_on_timeout(c, d) PROVE TimersInv'
  <2>1. clock + d \in Int /\ clock <= clock + d
    BY <1>1, DelaysAssumption
  <2> QED
    BY <1>1, <1>6, <2>1, TakeKeepsInv DEF io_on_timeout
<1>7. ASSUME NEW d \in Delays, io_on_period(c, d) PROVE TimersInv'
  <2>1. clock + d \in Int /\ clock <= clock + d /\ d \in Nat
    BY <1>1, DelaysAssumption
  <2> QED
    BY <1>1, <1>7, <2>1, TakeKeepsInv DEF io_on_period
<1>8. ASSUME NEW d \in Delays, io_timer_set_timeout(c, d) PROVE TimersInv'
  <2>1. clock + d \in Int /\ clock <= clock + d
    BY <1>1, DelaysAssumption
  <2> QED
    BY <1>1, <1>3, <1>8, <2>1, SetDeadlineKeepsInv DEF io_timer_set_timeout
<1>9. ASSUME NEW d \in Delays, io_timer_set_period(c, d) PROVE TimersInv'
  <2>1. clock + d \in Int /\ clock <= clock + d /\ d \in Nat
    BY <1>1, DelaysAssumption
  <2>2. period' \in [Slots -> Nat]
    BY <1>1, <1>9, <2>1 DEF io_timer_set_period
  <2> QED
    BY <1>1, <1>3, <1>9, <2>1, <2>2, SetDeadlineKeepsInv DEF io_timer_set_period
<1>10. CASE io_timer_free(c)
  <2>1. /\ handle[c] \in Slots
        /\ Unlink(handle[c])
        /\ handle' = [handle EXCEPT ![c] = NoSlot]
        /\ UNCHANGED <<next_time, period, handler, clock, zeroed, now, timeout,
                       wake, pc, lastFired>>
    BY <1>3, <1>10 DEF io_timer_free, slotVars, passVars
  <2>2. /\ free' \in Seq(Slots)
        /\ active' \in Seq(Slots)
        /\ PoolPartition'
        /\ ToSet(active') = ToSet(active) \ {handle[c]}
    BY <2>1, UnlinkMovesOneSlot DEF TimersInv
  <2>3. TypeOK'
    BY <2>1, <2>2 DEF TimersInv, TypeOK
  <2>4. HandlesOwned'
    <3> SUFFICES ASSUME Forgets, pc # "done", NEW d \in Clients, handle'[d] # NoSlot
                 PROVE  handle'[d] \in ToSet(active') /\ handler[handle'[d]] = d
      BY <2>1 DEF HandlesOwned
    <3>1. d # c /\ handle'[d] = handle[d]
      BY <2>1 DEF TimersInv, TypeOK
    <3>2. handle[d] \in ToSet(active) /\ handler[handle[d]] = d /\ handler[handle[c]] = c
      BY <2>1, <3>1, <1>10 DEF TimersInv, HandlesOwned, io_timer_free
    <3> QED
      BY <2>2, <3>1, <3>2
  <2>5. Armed' \subseteq Armed
    BY <2>1, <2>2 DEF Armed
  <2>6. NeverEarly' /\ now' <= clock'
    BY <2>1, <2>5 DEF TimersInv, NeverEarly
  <2> QED
    BY <2>2, <2>3, <2>4, <2>6 DEF TimersInv
<1> QED
  BY <1>2, <1>4, <1>5, <1>6, <1>7, <1>8, <1>9, <1>10

LEMMA PassKeepsInv == TimersInv /\ Pass => TimersInv'
<1> SUFFICES ASSUME TimersInv, Pass PROVE TimersInv'
  OBVIOUS
<1>1. TypeOK /\ PoolPartition /\ HandlesOwned /\ NeverEarly /\ now <= clock
  BY DEF TimersInv
<1>2. CASE EnterPass
  <2>1. TypeOK'
    BY <1>1, <1>2 DEF EnterPass, TypeOK, Phases, slotVars
  <2> QED
    BY <1>1, <1>2, <2>1 DEF TimersInv, EnterPass, PoolPartition, HandlesOwned, NeverEarly,
                            Armed, slotVars, TypeOK
<1>3. CASE NoTimers
  <2>1. TypeOK'
    BY <1>1, <1>3 DEF NoTimers, TypeOK, Phases, slotVars
  <2> QED
    BY <1>1, <1>3, <2>1 DEF TimersInv, NoTimers, PoolPartition, HandlesOwned, NeverEarly,
                            Armed, slotVars
<1>4. CASE Sleep
  <2>1. timeout' \in Int /\ wake' \in Int
    <3>1. PICK i \in DOMAIN active : /\ io_get_nearest_timer(i)
                                     /\ timeout' = next_time[active[i]] - now
                                     /\ wake' = clock + timeout'
      BY <1>4 DEF Sleep
    <3>2. next_time[active[i]] \in Int
      BY <1>1, <3>1, NearestIsLeast DEF TypeOK
    <3> QED
      BY <1>1, <3>1, <3>2 DEF TypeOK
  <2>2. TypeOK'
    BY <1>1, <1>4, <2>1 DEF Sleep, TypeOK, Phases, slotVars
  <2> QED
    BY <1>1, <1>4, <2>2 DEF TimersInv, Sleep, PoolPartition, HandlesOwned, NeverEarly,
                            Armed, slotVars
<1>5. CASE HandlerReturns
  <2>1. TypeOK'
    BY <1>1, <1>5 DEF HandlerReturns, TypeOK, Phases, slotVars
  <2> QED
    BY <1>1, <1>5, <2>1 DEF TimersInv, HandlerReturns, PoolPartition, HandlesOwned, NeverEarly,
                            Armed, slotVars
<1>6. CASE FirePeriodic
  <2>1. PICK i \in DOMAIN active :
            /\ io_get_nearest_timer(i)
            /\ next_time[active[i]] <= now
            /\ period[active[i]] > 0
            /\ lastFired' = next_time[active[i]]
            /\ next_time' = [next_time EXCEPT ![active[i]] =
                                 NextDeadline(next_time[active[i]], period[active[i]])]
    BY <1>6 DEF FirePeriodic
  <2> DEFINE s == active[i]
             nt == NextDeadline(next_time[s], period[s])
  <2>2. /\ s \in Slots /\ s \in Armed /\ next_time[s] > 0
        /\ \A u \in Armed : next_time[s] <= next_time[u]
    BY <1>1, <2>1, NearestIsLeast
  <2>3. nt \in Int /\ nt >= next_time[s]
    BY <1>1, <2>1, <2>2, NextDeadlineIsLater DEF TypeOK
  <2>4. /\ UNCHANGED <<free, active, period, handler, clock, zeroed, now, timeout, wake, handle>>
        /\ pc = "scan" /\ pc' = "handler"
    BY <1>6 DEF FirePeriodic
  <2>5. next_time' = [next_time EXCEPT ![s] = nt] /\ lastFired' = next_time[s]
    BY <2>1
  <2> HIDE DEF s, nt
  <2>6. TypeOK'
    <3>1. next_time' \in [Slots -> Int] /\ lastFired' \in Nat
      BY <1>1, <2>2, <2>3, <2>5 DEF TypeOK
    <3> QED
      BY <1>1, <2>4, <3>1 DEF TypeOK, Phases
  <2>7. NeverEarly'
    <3>1. lastFired' <= clock'
      BY <1>1, <2>1, <2>4, <2>2, <2>5 DEF TypeOK, s
    <3>2. ASSUME NEW u \in Armed' PROVE lastFired' <= next_time'[u]
      <4>1. u \in ToSet(active) /\ u \in Slots /\ next_time'[u] > 0
        BY <1>1, <2>4 DEF Armed, PoolPartition
      <4>2. CASE u = s
        BY <1>1, <2>2, <2>3, <2>5, <4>2 DEF TypeOK
      <4>3. CASE u # s
        <5>1. next_time'[u] = next_time[u] /\ u \in Armed
          BY <1>1, <2>5, <4>1, <4>3 DEF TypeOK, Armed
        <5> QED
          BY <2>2, <2>5, <5>1
      <4> QED
        BY <4>2, <4>3
    <3> QED
      BY <3>1, <3>2 DEF NeverEarly
  <2>8. PoolPartition' /\ HandlesOwned' /\ now' <= clock'
    BY <1>1, <2>4 DEF PoolPartition, HandlesOwned
  <2> QED
    BY <2>6, <2>7, <2>8 DEF TimersInv
<1>7. CASE FireOneShot
  <2>1. PICK i \in DOMAIN active :
            /\ io_get_nearest_timer(i)
            /\ next_time[active[i]] <= now
            /\ lastFired' = next_time[active[i]]
            /\ Unlink(active[i])
            /\ handle' = [c \in Clients |->
                   IF Forgets /\ c = handler[active[i]] THEN NoSlot ELSE handle[c]]
    BY <1>7 DEF FireOneShot
  <2> DEFINE s == active[i]
  <2>2. /\ s \in Slots /\ s \in Armed /\ next_time[s] > 0
        /\ \A u \in Armed : next_time[s] <= next_time[u]
    BY <1>1, <2>1, NearestIsLeast
  <2>3. /\ UNCHANGED <<next_time, period, handler, clock, zeroed, now, timeout, wake>>
        /\ pc = "scan" /\ pc' = "handler"
    BY <1>7 DEF FireOneShot, slotVars
  <2>4. /\ free' \in Seq(Slots)
        /\ active' \in Seq(Slots)
        /\ PoolPartition'
        /\ ToSet(active') = ToSet(active) \ {s}
    BY <1>1, <2>1, <2>2, UnlinkMovesOneSlot
  <2>5. /\ handle' = [c \in Clients |-> IF Forgets /\ c = handler[s] THEN NoSlot ELSE handle[c]]
        /\ lastFired' = next_time[s]
        /\ next_time[s] <= now
    BY <2>1
  <2> HIDE DEF s
  <2>6. TypeOK'
    <3>1. handle' \in [Clients -> Slots \cup {NoSlot}]
      BY <1>1, <2>5 DEF TypeOK
    <3>2. lastFired' \in Nat
      BY <1>1, <2>2, <2>5 DEF TypeOK
    <3> QED
      BY <1>1, <2>3, <2>4, <3>1, <3>2 DEF TypeOK, Phases
  <2>7. HandlesOwned'
    <3> SUFFICES ASSUME Forgets, NEW d \in Clients, handle'[d] # NoSlot
                 PROVE  handle'[d] \in ToSet(active') /\ handler[handle'[d]] = d
      BY <2>3 DEF HandlesOwned
    <3>1. d # handler[s] /\ handle'[d] = handle[d]
      BY <2>5
    <3>2. handle[d] \in ToSet(active) /\ handler[handle[d]] = d
      BY <1>1, <2>3, <3>1 DEF HandlesOwned
    <3> QED
      BY <2>4, <3>1, <3>2
  <2>8. NeverEarly'
    <3>1. lastFired' <= clock'
      BY <1>1, <2>2, <2>3, <2>5 DEF TypeOK
    <3>2. Armed' \subseteq Armed
      BY <2>3, <2>4 DEF Armed
    <3> QED
      BY <2>2, <2>3, <2>5, <3>1, <3>2 DEF NeverEarly
  <2>9. now' <= clock'
    BY <1>1, <2>3
  <2> QED
    BY <2>4, <2>6, <2>7, <2>8, <2>9 DEF TimersInv
<1> QED
  BY <1>2, <1>3, <1>4, <1>5, <1>6, <1>7 DEF Pass

LEMMA StepKeepsInv == TimersInv /\ [Next]_vars => TimersInv'
<1> SUFFICES ASSUME TimersInv, [Next]_vars PROVE TimersInv'
  OBVIOUS
<1>1. TypeOK /\ PoolPartition /\ HandlesOwned /\ NeverEarly /\ now <= clock
  BY DEF TimersInv
<1>2. CASE Tick
  <2>1. /\ clock' = clock + 1
        /\ UNCHANGED <<free, active, next_time, period, handler, zeroed, now, timeout,
                       wake, pc, handle, lastFired>>
    BY <1>2 DEF Tick, slotVars, passVars
  <2>2. TypeOK' /\ now' <= clock' /\ lastFired' <= clock'
    BY <1>1, <2>1 DEF TypeOK, NeverEarly
  <2> QED
    BY <1>1, <2>1, <2>2 DEF TimersInv, PoolPartition, HandlesOwned, NeverEarly, Armed
<1>3. CASE Call
  BY <1>3, CallKeepsInv
<1>4. CASE Pass
  BY <1>4, PassKeepsInv
<1>5. ASSUME PollReturns PROVE TimersInv'
  <2>1. /\ timeout' = -1 /\ wake' = -1 /\ pc = "poll" /\ pc' = "events"
        /\ UNCHANGED <<free, active, next_time, period, handler, clock, zeroed, now,
                       handle, lastFired>>
    BY <1>5 DEF PollReturns, slotVars
  <2>2. TypeOK'
    BY <1>1, <2>1 DEF TypeOK, Phases
  <2> QED
    BY <1>1, <2>1, <2>2 DEF TimersInv, PoolPartition, HandlesOwned, NeverEarly, Armed
<1>6. CASE io_timers_free
  <2>1. /\ UNCHANGED <<next_time, period, handler, clock, zeroed, now, timeout, wake,
                       handle, lastFired>>
        /\ pc' = "done"
    BY <1>6 DEF io_timers_free, slotVars
  <2>2. /\ free' \in Seq(Slots)
        /\ active' \in Seq(Slots)
        /\ PoolPartition'
        /\ ToSet(active') = {}
    BY <1>1, <1>6, DrainMovesEverySlot
  <2>3. TypeOK'
    BY <1>1, <2>1, <2>2 DEF TypeOK, Phases
  <2>4. NeverEarly'
    BY <1>1, <2>1, <2>2 DEF NeverEarly, Armed
  <2>5. HandlesOwned' /\ now' <= clock'
    BY <1>1, <2>1 DEF HandlesOwned
  <2> QED
    BY <2>2, <2>3, <2>4, <2>5 DEF TimersInv
<1>7. CASE UNCHANGED vars
  <2>1. UNCHANGED <<free, active, next_time, period, handler, clock, zeroed, now, timeout,
                    wake, pc, handle, lastFired>>
    BY <1>7 DEF vars
  <2>2. TypeOK'
    BY <1>1, <2>1 DEF TypeOK
  <2> QED
    BY <1>1, <2>1, <2>2 DEF TimersInv, PoolPartition, HandlesOwned, NeverEarly, Armed
<1> QED
  BY <1>2, <1>3, <1>4, <1>5, <1>6, <1>7 DEF Next, PollTimeout, PollEvent

\* io_timers.c keeps the inductive invariant whatever its callers and handlers do.
THEOREM InvHolds == Spec => []TimersInv
<1>1. Init => TimersInv
  BY InitEstablishesInv
<1>2. TimersInv /\ [Next]_vars => TimersInv'
  BY StepKeepsInv
<1> QED
  BY <1>1, <1>2, PTL DEF Spec

\* Every variable of the timer pool keeps its type.
THEOREM TypeCorrect == Spec => []TypeOK
<1>1. TimersInv => TypeOK
  BY DEF TimersInv
<1> QED
  BY <1>1, InvHolds, PTL

\* io_timer_alloc, io_timer_free, the pass and the exit never lose a slot or
\* link it twice, even when a client uses a handle that has already fired.
THEOREM PoolIsPartitioned == Spec => []PoolPartition
<1>1. TimersInv => PoolPartition
  BY DEF TimersInv
<1> QED
  BY <1>1, InvHolds, PTL

\* A client that forgets fired one-shots never shares the slot of its handle.
THEOREM HandlesAreOwned == Spec => []HandlesOwned
<1>1. TimersInv => HandlesOwned
  BY DEF TimersInv
<1> QED
  BY <1>1, InvHolds, PTL

\* io_get_timeout serves no timer early and leaves no earlier deadline behind.
THEOREM ServedNeverEarly == Spec => []NeverEarly
<1>1. TimersInv => NeverEarly
  BY DEF TimersInv
<1> QED
  BY <1>1, InvHolds, PTL

\* io_get_timeout serves deadlines in order, across handlers and passes.
THEOREM ServedInOrder == Spec => FiredInDeadlineOrder
<1>1. TimersInv /\ [Next]_vars => [lastFired' >= lastFired]_vars
  <2> SUFFICES ASSUME TimersInv, Next PROVE lastFired' >= lastFired
    OBVIOUS
  <2>1. TypeOK /\ NeverEarly
    BY DEF TimersInv
  <2>2. CASE lastFired' = lastFired
    BY <2>1, <2>2 DEF TypeOK
  <2>3. CASE FirePeriodic \/ FireOneShot
    <3>1. PICK i : io_get_nearest_timer(i) /\ lastFired' = next_time[active[i]]
      BY <2>3 DEF FirePeriodic, FireOneShot
    <3>2. active[i] \in Slots /\ active[i] \in Armed
      BY <2>1, <3>1, NearestIsLeast
    <3> QED
      BY <2>1, <3>1, <3>2 DEF NeverEarly, TypeOK
  <2>4. CASE Tick \/ Call \/ EnterPass \/ NoTimers \/ Sleep \/ HandlerReturns
             \/ PollReturns \/ io_timers_free
    <3>1. lastFired' = lastFired
      BY <2>4 DEF Tick, Call, EnterPass, NoTimers, Sleep, HandlerReturns, PollReturns,
                  io_timers_free, io_timer_alloc, io_on_timeout, io_on_period, Take,
                  io_timer_free, io_timer_set_timeout, io_timer_set_period, io_timer_stop,
                  passVars
    <3> QED
      BY <2>2, <3>1
  <2> QED
    BY <2>3, <2>4 DEF Next, Pass, PollTimeout, PollEvent
<1> QED
  BY <1>1, InvHolds, PTL DEF Spec, FiredInDeadlineOrder

\* io_get_timeout keeps a periodic timer on its grid: the new deadline is whole
\* periods from the old one, behind the time of the pass, and the first such.
THEOREM PeriodIsKept == Spec => PeriodKept
<1> DEFINE Kept ==
        pc = "scan" /\ pc' = "handler" =>
            \A s \in ToSet(active) :
                next_time'[s] # next_time[s] =>
                    /\ (next_time'[s] - next_time[s]) % period[s] = 0
                    /\ now < next_time'[s]
                    /\ next_time'[s] - period[s] <= now
<1>1. TimersInv /\ [Next]_vars => [Kept]_vars
  <2> SUFFICES ASSUME TimersInv, Next, pc = "scan", pc' = "handler",
                      NEW s \in ToSet(active), next_time'[s] # next_time[s]
               PROVE  /\ (next_time'[s] - next_time[s]) % period[s] = 0
                      /\ now < next_time'[s]
                      /\ next_time'[s] - period[s] <= now
    OBVIOUS
  <2>1. TypeOK /\ PoolPartition
    BY DEF TimersInv
  <2>2. s \in Slots /\ next_time[s] \in Int /\ period[s] \in Nat /\ now \in Nat
    BY <2>1 DEF TypeOK, PoolPartition
  <2>3. CASE FirePeriodic
    <3>1. PICK i \in DOMAIN active :
              /\ io_get_nearest_timer(i)
              /\ next_time[active[i]] <= now
              /\ period[active[i]] > 0
              /\ next_time' = [next_time EXCEPT ![active[i]] =
                                   NextDeadline(next_time[active[i]], period[active[i]])]
      BY <2>3 DEF FirePeriodic
    <3>2. next_time \in [Slots -> Int] /\ active[i] \in Slots
      BY <2>1, <3>1, NearestIsLeast DEF TypeOK
    <3>3. active[i] = s
      BY <2>2, <3>1, <3>2
    <3>4. /\ next_time[s] <= now /\ period[s] > 0
          /\ next_time'[s] = NextDeadline(next_time[s], period[s])
      BY <2>2, <3>1, <3>2, <3>3
    <3> QED
      BY <2>2, <3>4, NextDeadlineOnGrid
  <2>4. CASE FireOneShot
    BY <2>4 DEF FireOneShot, slotVars
  <2>5. CASE Tick
    BY <2>5 DEF Tick, passVars
  <2>6. CASE Call
    BY <2>6 DEF Call, Running, io_timer_alloc, io_on_timeout, io_on_period, Take,
                io_timer_free, io_timer_set_timeout, io_timer_set_period, io_timer_stop
  <2>7. CASE EnterPass \/ NoTimers \/ Sleep \/ HandlerReturns \/ PollReturns \/ io_timers_free
    BY <2>7 DEF EnterPass, NoTimers, Sleep, HandlerReturns, PollReturns, io_timers_free
  <2> QED
    BY <2>3, <2>4, <2>5, <2>6, <2>7 DEF Next, Pass, PollTimeout, PollEvent
<1> QED
  BY <1>1, InvHolds, PTL DEF Spec, PeriodKept

\* io_get_timeout hands poll the distance to the nearest deadline, or -1 when
\* no timer is armed, and never leaves a due timer behind.
THEOREM SleepIsExact == Spec => []SleepsUntilNearest
<1>1. Init => SleepsUntilNearest
  BY DEF Init, SleepsUntilNearest
<1>2. TimersInv /\ SleepsUntilNearest /\ [Next]_vars => SleepsUntilNearest'
  <2> SUFFICES ASSUME TimersInv, SleepsUntilNearest, [Next]_vars, pc' = "poll"
               PROVE  SleepsUntilNearest'
    BY DEF SleepsUntilNearest
  <2>1. TypeOK /\ PoolPartition
    BY DEF TimersInv
  <2>2. CASE UNCHANGED <<active, next_time, now, timeout, pc>>
    BY <2>2 DEF SleepsUntilNearest, Armed
  <2>3. CASE NoTimers
    BY <2>3 DEF NoTimers, SleepsUntilNearest, Armed, slotVars
  <2>4. CASE Sleep
    <3>1. PICK i \in DOMAIN active : /\ io_get_nearest_timer(i)
                                     /\ next_time[active[i]] > now
                                     /\ timeout' = next_time[active[i]] - now
      BY <2>4 DEF Sleep
    <3> DEFINE s == active[i]
    <3>2. /\ s \in Slots /\ s \in Armed
          /\ \A u \in Armed : next_time[s] <= next_time[u]
      BY <2>1, <3>1, NearestIsLeast
    <3>3. \A u \in Armed : u \in Slots
      BY <2>1 DEF Armed, PoolPartition
    <3>4. UNCHANGED <<active, next_time, now>>
      BY <2>4 DEF Sleep, slotVars
    <3>5. timeout' = next_time[s] - now /\ next_time[s] > now
      BY <3>1
    <3> HIDE DEF s
    <3>6. timeout' > 0 /\ now + timeout' = next_time[s]
      BY <2>1, <3>2, <3>5 DEF TypeOK
    <3>7. Armed' = Armed
      BY <3>4 DEF Armed
    <3>8. \A u \in Armed : next_time[u] >= now + timeout'
      BY <2>1, <3>2, <3>3, <3>6 DEF TypeOK
    <3>9. \E u \in Armed : next_time[u] = now + timeout'
      BY <3>2, <3>6
    <3>10. Armed # {}
      BY <3>2
    <3> QED
      BY <3>4, <3>6, <3>7, <3>8, <3>9, <3>10 DEF SleepsUntilNearest
  <2>5. CASE Tick
    BY <2>2, <2>5 DEF Tick, slotVars, passVars
  <2>6. CASE Call
    BY <2>6 DEF Call, Running, io_timer_alloc, io_on_timeout, io_on_period, Take,
                io_timer_free, io_timer_set_timeout, io_timer_set_period, io_timer_stop,
                passVars
  <2>7. CASE EnterPass \/ FirePeriodic \/ FireOneShot \/ HandlerReturns
             \/ PollReturns \/ io_timers_free
    BY <2>7 DEF EnterPass, FirePeriodic, FireOneShot, HandlerReturns, PollReturns,
                io_timers_free
  <2>8. CASE UNCHANGED vars
    BY <2>2, <2>8 DEF vars
  <2> QED
    BY <2>3, <2>4, <2>5, <2>6, <2>7, <2>8 DEF Next, Pass, PollTimeout, PollEvent
<1> QED
  BY <1>1, <1>2, InvHolds, PTL DEF Spec

=============================================================================
