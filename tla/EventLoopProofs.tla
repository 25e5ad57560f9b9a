--------------------------- MODULE EventLoopProofs ---------------------------
(***************************************************************************)
(* Theorems about EventLoop, for any number of descriptors and timers.     *)
(***************************************************************************)
EXTENDS EventLoop, ListLemmas, FiniteSetTheorems

\* ListedOnce with what it needs to know about the types.
ListInv ==
    /\ io_ds \in Seq(Ds)
    /\ ListedOnce

\* BatchIsLive made inductive: the array holds no descriptor twice, so freeing
\* the one that is served, by its event method or behind it, leaves those still to
\* be served alone; the position served is not served again; nothing is fresh
\* outside a batch.
BatchInv ==
    /\ ds \in Seq(Ds)
    /\ IsInjective(ds)
    /\ fired \subseteq DOMAIN ds
    /\ pc \in {"event", "after"} => cur \in DOMAIN ds \ fired
    /\ pc \notin {"dispatch", "event", "after", "undefined"} => fresh = {} /\ fired = {}
    /\ BatchIsLive

\* NoZombie made inductive: the one descriptor that may be closed and still listed is
\* the one whose event method is running, or has just returned.
ZombieInv ==
    /\ open \subseteq live
    /\ pc \in {"event", "after"} => live \ open \subseteq {ds[cur]}
    /\ pc \notin {"event", "after", "undefined"} => live = open

\* ExitsOnlyWhenIdle made inductive: poll has reported at least one position of a batch,
\* so that only a turn with nothing to wait for returns 0.
IdleInv ==
    /\ pc \in {"dispatch", "event", "after"} => IsFiniteSet(polled) /\ polled # {}
    /\ pc \in {"cond", "exit"} =>
           /\ ret \in Nat \cup {Interrupted, Failed}
           /\ ret = 0 => live \cap watched = {}
    /\ ExitsOnlyWhenIdle

-----------------------------------------------------------------------------
(* The list. *)

LEMMA InitDescriptor ==
    ASSUME ListInv, NEW d \in Ds, io_d_init(d)
    PROVE  ListInv'
<1>1. /\ io_ds \in Seq(Ds) /\ IsInjective(io_ds) /\ ToSet(io_ds) = live
      /\ io_ds_length = Len(io_ds)
      /\ d \notin ToSet(io_ds)
      /\ io_ds' = <<d>> \o io_ds
      /\ io_ds_length' = io_ds_length + 1
      /\ live' = live \cup {d}
  BY DEF ListInv, ListedOnce, io_d_init
<1>2. /\ io_ds' \in Seq(Ds)
      /\ IsInjective(io_ds')
      /\ ToSet(io_ds') = live'
  BY <1>1, PushNode
<1>3. Len(io_ds') = Len(io_ds) + 1
  BY <1>1
<1> QED
  BY <1>1, <1>2, <1>3 DEF ListInv, ListedOnce

LEMMA FreeDescriptor ==
    ASSUME ListInv, NEW d \in Ds, FreeListed(d)
    PROVE  ListInv'
<1>1. /\ io_ds \in Seq(Ds) /\ IsInjective(io_ds) /\ ToSet(io_ds) = live
      /\ io_ds_length = Len(io_ds)
      /\ io_ds_length' = io_ds_length - 1
      /\ live' = live \ {d}
  BY DEF ListInv, ListedOnce, FreeListed
<1>2. PICK i \in 1..Len(io_ds) : io_ds[i] = d /\ io_ds' = RemoveAt(io_ds, i)
  BY <1>1 DEF FreeListed
<1>3. /\ io_ds' \in Seq(Ds)
      /\ IsInjective(io_ds')
      /\ ToSet(io_ds') = live'
  BY <1>1, <1>2, UnlinkNode
<1>4. Len(io_ds') = Len(io_ds) - 1
  BY <1>1, <1>2, RemoveAtIsShift
<1> QED
  BY <1>1, <1>3, <1>4 DEF ListInv, ListedOnce

LEMMA FreeAllDescriptors ==
    ASSUME ListInv, FreeAll
    PROVE  ListInv'
<1>1. /\ io_ds' = <<>>
      /\ live' = live \ ToSet(io_ds)
      /\ io_ds_length' = io_ds_length - Len(io_ds)
      /\ ToSet(io_ds) = live
      /\ io_ds_length = Len(io_ds)
      /\ io_ds \in Seq(Ds)
  BY DEF FreeAll, ListInv, ListedOnce
<1>2. Len(io_ds) \in Nat
  BY <1>1
<1>3. io_ds_length' = 0 /\ live' = {}
  BY <1>1, <1>2
<1>4. io_ds' \in Seq(Ds) /\ IsInjective(io_ds') /\ ToSet(io_ds') = {} /\ Len(io_ds') = 0
  BY <1>1 DEF IsInjective, ToSet
<1> QED
  BY <1>3, <1>4 DEF ListInv, ListedOnce

LEMMA InitList == Init => ListInv
<1> SUFFICES ASSUME Init PROVE ListInv
  OBVIOUS
<1>1. io_ds = <<>> /\ live = {} /\ io_ds_length = 0
  BY DEF Init
<1>2. io_ds \in Seq(Ds) /\ IsInjective(io_ds) /\ ToSet(io_ds) = {} /\ Len(io_ds) = 0
  BY <1>1 DEF IsInjective, ToSet
<1> QED
  BY <1>1, <1>2 DEF ListInv, ListedOnce

LEMMA StepKeepsList == ListInv /\ [Next]_vars => ListInv'
<1> SUFFICES ASSUME ListInv, [Next]_vars PROVE ListInv'
  OBVIOUS
<1>1. CASE UNCHANGED <<io_ds, io_ds_length, live>>
  BY <1>1 DEF ListInv, ListedOnce
<1>2. CASE Call
  <2>1. ASSUME NEW d \in Ds, io_d_init(d) PROVE ListInv'
    BY <2>1, InitDescriptor
  <2>2. ASSUME NEW d \in Ds, io_d_free(d) PROVE ListInv'
    BY <2>2, FreeDescriptor DEF io_d_free
  <2>3. ASSUME NEW d \in Ds, io_d_close(d) \/ SetEvents(d) PROVE ListInv'
    BY <1>1, <2>3 DEF io_d_close, SetEvents
  <2>4. ASSUME NEW t \in Timers, TimerCall(t) PROVE ListInv'
    BY <1>1, <2>4 DEF TimerCall, listVars
  <2> QED
    BY <1>2, <2>1, <2>2, <2>3, <2>4 DEF Call
<1>3. CASE FreeIfClosed
  <2>1. CASE FreeListed(ds[cur]) /\ ds[cur] \in live \ open
    <3>1. ds[cur] \in Ds
      BY <2>1 DEF ListInv, ListedOnce, ToSet
    <3> QED
      BY <2>1, <3>1, FreeDescriptor
  <2>2. CASE UNCHANGED listVars
    BY <1>1, <2>2 DEF listVars
  <2> QED
    BY <1>3, <2>1, <2>2 DEF FreeIfClosed
<1>4. CASE io_free \/ sig_any
  BY <1>4, FreeAllDescriptors DEF io_free, sig_any
<1>5. CASE \/ StartReturns \/ FireTimer \/ TickReturns \/ TimeoutReturns
           \/ NothingToDo \/ PollTimesOut \/ CallEvent \/ EventReturns
           \/ PollReturns \/ MainCondition \/ PollReady \/ PollFails
  BY <1>1, <1>5 DEF StartReturns, FireTimer, TickReturns, TimeoutReturns, NothingToDo,
                    PollTimesOut, CallEvent, EventReturns, PollReturns, MainCondition,
                    PollReady, PollFails, listVars
<1>6. CASE UNCHANGED vars
  BY <1>1, <1>6 DEF vars
<1> QED
  BY <1>2, <1>3, <1>4, <1>5, <1>6 DEF Next, Program

\* io_ds.c keeps each allocated descriptor in the list exactly once and
\* io_ds_length exact, whoever frees descriptors and whenever.
THEOREM DescriptorsAreListedOnce == Spec => []ListedOnce
<1>1. ListInv => ListedOnce
  BY DEF ListInv
<1> QED
  BY <1>1, InitList, StepKeepsList, PTL DEF Spec

-----------------------------------------------------------------------------
(* The batch, when event methods free their own descriptor only. *)

LEMMA StepKeepsBatch ==
    ASSUME ~FreeOthers
    PROVE  ListInv /\ BatchInv /\ [Next]_vars => BatchInv'
<1> SUFFICES ASSUME ListInv, BatchInv, [Next]_vars PROVE BatchInv'
  OBVIOUS
<1>1. /\ io_ds \in Seq(Ds) /\ IsInjective(io_ds) /\ ToSet(io_ds) = live
  BY DEF ListInv, ListedOnce
<1>2. CASE UNCHANGED <<live, pc, batchVars>>
  BY <1>2 DEF BatchInv, BatchIsLive, batchVars
<1>3. CASE Call
  <2>1. ASSUME NEW d \in Ds, io_d_init(d) PROVE BatchInv'
    <3>1. /\ d \notin live /\ live' = live \cup {d}
          /\ UNCHANGED <<pc, ds, polled, fired, cur, stale>>
          /\ fresh' = IF pc = "event" THEN fresh \cup {d} ELSE fresh
          /\ pc \in {"start", "tick", "event"}
      BY <2>1 DEF io_d_init, Running
    <3>2. BatchIsLive'
      BY <3>1 DEF BatchInv, BatchIsLive
    <3> QED
      BY <3>1, <3>2 DEF BatchInv
  <2>2. ASSUME NEW d \in Ds, io_d_free(d) PROVE BatchInv'
    <3>1. /\ pc \in {"start", "tick", "event"}
          /\ pc = "event" => d = ds[cur]
          /\ live' = live \ {d}
          /\ UNCHANGED <<pc, ds, polled, fired, cur, fresh, stale>>
      BY <2>2 DEF io_d_free, FreeListed, Running, batchVars
    <3>2. CASE pc # "event"
      <4>1. fired = {}
        BY <3>1, <3>2 DEF BatchInv
      <4> QED
        BY <3>1, <3>2, <4>1 DEF BatchInv, BatchIsLive
    <3>3. CASE pc = "event"
      <4>1. cur \in DOMAIN ds \ fired /\ fired \subseteq DOMAIN ds /\ IsInjective(ds)
        BY <3>3 DEF BatchInv
      <4>2. \A i \in fired : ds[i] # d
        BY <3>1, <3>3, <4>1 DEF IsInjective
      <4>3. BatchIsLive'
        BY <3>1, <4>2 DEF BatchInv, BatchIsLive
      <4> QED
        BY <3>1, <4>3 DEF BatchInv
    <3> QED
      BY <3>2, <3>3
  <2>3. ASSUME NEW d \in Ds, io_d_close(d) \/ SetEvents(d) PROVE BatchInv'
    BY <1>2, <2>3 DEF io_d_close, SetEvents
  <2>4. ASSUME NEW t \in Timers, TimerCall(t) PROVE BatchInv'
    BY <1>2, <2>4 DEF TimerCall, listVars
  <2> QED
    BY <1>3, <2>1, <2>2, <2>3, <2>4 DEF Call
<1>4. CASE PollReady
  <2>1. /\ ds' = io_ds /\ fired' \subseteq DOMAIN io_ds /\ pc' = "dispatch"
        /\ pc = "collect"
        /\ UNCHANGED <<live, fresh, stale>>
    BY <1>4 DEF PollReady, Watchable, listVars
  <2>2. fresh = {}
    BY <2>1 DEF BatchInv
  <2>3. \A i \in DOMAIN io_ds : io_ds[i] \in live
    BY <1>1 DEF ToSet
  <2> QED
    BY <1>1, <2>1, <2>2, <2>3 DEF BatchInv, BatchIsLive
<1>5. CASE CallEvent
  <2>1. PICK i \in fired : /\ cur' = i /\ fired' = fired \ {i}
                           /\ Reads(ds[i])
                           /\ pc' = IF ds[i] \in live THEN "event" ELSE "undefined"
    BY <1>5 DEF CallEvent
  <2>2. UNCHANGED <<live, ds, fresh>> /\ pc = "dispatch"
    BY <1>5 DEF CallEvent, listVars
  <2>3. ds[i] \in live \ fresh /\ i \in DOMAIN ds
    BY <2>1 DEF BatchInv, BatchIsLive
  <2>4. stale' = stale /\ pc' = "event"
    BY <2>1, <2>3 DEF Reads
  <2> QED
    BY <2>1, <2>2, <2>3, <2>4 DEF BatchInv, BatchIsLive
<1>6. CASE EventReturns
  BY <1>6 DEF EventReturns, BatchInv, BatchIsLive, batchVars, listVars
<1>7. CASE FreeIfClosed
  <2>1. /\ pc = "after" /\ UNCHANGED <<ds, polled, fired, cur, fresh>>
        /\ pc' \in {"dispatch", "undefined"}
        /\ stale' \in {stale, stale \cup {"after"}}
    BY <1>7 DEF FreeIfClosed, Reads
  <2>2. /\ cur \in DOMAIN ds \ fired /\ IsInjective(ds)
        /\ fired \subseteq DOMAIN ds
        /\ \A i \in fired : ds[i] \in live \ fresh
    BY <2>1 DEF BatchInv, BatchIsLive
  <2>3. live' \in {live, live \ {ds[cur]}}
    BY <1>7 DEF FreeIfClosed, FreeListed, listVars
  <2>4. \A i \in fired : ds[i] # ds[cur]
    BY <2>2 DEF IsInjective
  <2>5. \A i \in fired : ds[i] \in live' \ fresh
    BY <2>2, <2>3, <2>4
  <2>6. "dispatch" \notin stale'
    BY <2>1 DEF BatchInv, BatchIsLive
  <2> QED
    BY <2>1, <2>2, <2>5, <2>6 DEF BatchInv, BatchIsLive
<1>8. CASE PollReturns \/ io_free \/ sig_any
  <2>1. /\ ds' = <<>> /\ fired' = {} /\ fresh' = {} /\ stale' = {}
        /\ pc' \in {"cond", "done"}
    BY <1>8 DEF PollReturns, io_free, sig_any, FreeAll, DropBatch
  <2>2. ds' \in Seq(Ds) /\ IsInjective(ds')
    BY <2>1 DEF IsInjective
  <2> QED
    BY <2>1, <2>2 DEF BatchInv, BatchIsLive
<1>9. CASE \/ StartReturns \/ FireTimer \/ TickReturns \/ TimeoutReturns
           \/ NothingToDo \/ PollTimesOut \/ MainCondition \/ PollFails
  <2>1. /\ UNCHANGED <<live, ds, fired, fresh, stale>>
        /\ pc \notin {"dispatch", "event", "after", "undefined"}
        /\ pc' \notin {"dispatch", "event", "after", "undefined"}
    BY <1>9 DEF StartReturns, FireTimer, TickReturns, TimeoutReturns, NothingToDo,
                PollTimesOut, MainCondition, GoOnIf, PollFails, listVars, batchVars
  <2> QED
    BY <2>1 DEF BatchInv, BatchIsLive
<1>10. CASE UNCHANGED vars
  BY <1>2, <1>10 DEF vars, batchVars
<1> QED
  BY <1>3, <1>4, <1>5, <1>6, <1>7, <1>8, <1>9, <1>10 DEF Next, Program

LEMMA InitBatch == Init => BatchInv
<1> SUFFICES ASSUME Init PROVE BatchInv
  OBVIOUS
<1>1. ds = <<>> /\ fired = {} /\ fresh = {} /\ stale = {} /\ pc = "start"
  BY DEF Init
<1>2. ds \in Seq(Ds) /\ IsInjective(ds)
  BY <1>1 DEF IsInjective
<1> QED
  BY <1>1, <1>2 DEF BatchInv, BatchIsLive

\* Though event methods free their own descriptor, as those of the servers do, and open
\* others, every entry of the array of io_ds_poll that is still to be served is the
\* allocated descriptor that poll reported, and no event method is called of one that
\* was freed: also in a turn that has read freed memory behind such a method.
THEOREM BatchStaysLive ==
    ASSUME ~FreeOthers
    PROVE  Spec => []BatchIsLive
<1>1. Init => ListInv /\ BatchInv
  BY InitList, InitBatch
<1>2. ListInv /\ BatchInv /\ [Next]_vars => ListInv' /\ BatchInv'
  BY StepKeepsList, StepKeepsBatch
<1>3. ListInv /\ BatchInv => BatchIsLive
  BY DEF BatchInv
<1> QED
  BY <1>1, <1>2, <1>3, PTL DEF Spec

-----------------------------------------------------------------------------
(* Closed descriptors, when handlers close only their own. *)

LEMMA StepKeepsZombies ==
    ASSUME ~CloseOthers, ListInv, ZombieInv, [Next]_vars
    PROVE  ZombieInv'
<1>1. CASE Call
  <2>1. ASSUME NEW d \in Ds, io_d_init(d) PROVE ZombieInv'
    BY <2>1 DEF io_d_init, ZombieInv
  <2>2. ASSUME NEW d \in Ds, io_d_free(d) PROVE ZombieInv'
    BY <2>2 DEF io_d_free, FreeListed, ZombieInv, batchVars
  <2>3. ASSUME NEW d \in Ds, io_d_close(d) PROVE ZombieInv'
    <3>1. /\ pc = "event" /\ d = ds[cur]
          /\ open' = open \ {d}
          /\ UNCHANGED <<live, pc, ds, cur>>
      BY <2>3 DEF io_d_close, batchVars
    <3> QED
      BY <3>1 DEF ZombieInv
  <2>4. ASSUME NEW d \in Ds, SetEvents(d) PROVE ZombieInv'
    BY <2>4 DEF SetEvents, ZombieInv, batchVars
  <2>5. ASSUME NEW t \in Timers, TimerCall(t) PROVE ZombieInv'
    BY <2>5 DEF TimerCall, ZombieInv, listVars, batchVars
  <2> QED
    BY <1>1, <2>1, <2>2, <2>3, <2>4, <2>5 DEF Call
<1>2. CASE CallEvent
  <2>1. pc = "dispatch" /\ pc' \in {"event", "undefined"} /\ UNCHANGED <<live, open>>
    BY <1>2 DEF CallEvent, listVars
  <2> QED
    BY <2>1 DEF ZombieInv
<1>3. CASE EventReturns
  BY <1>3 DEF EventReturns, ZombieInv, listVars, batchVars
<1>4. CASE FreeIfClosed
  <2>1. /\ pc = "after" /\ pc' \in {"dispatch", "undefined"}
        /\ open \subseteq live /\ live \ open \subseteq {ds[cur]}
    BY <1>4 DEF FreeIfClosed, ZombieInv
  <2>2. CASE ds[cur] \in live \ open
    <3>1. live' = live \ {ds[cur]} /\ open' = open \ {ds[cur]}
      BY <1>4, <2>2 DEF FreeIfClosed, FreeListed
    <3> QED
      BY <2>1, <3>1 DEF ZombieInv
  <2>3. CASE ds[cur] \notin live \ open
    BY <1>4, <2>1, <2>3 DEF FreeIfClosed, ZombieInv, listVars
  <2> QED
    BY <2>2, <2>3
<1>5. CASE io_free \/ sig_any
  <2>1. /\ pc' = "done" /\ ToSet(io_ds) = live
        /\ live' = live \ ToSet(io_ds) /\ open' = open \ ToSet(io_ds)
    BY <1>5 DEF io_free, sig_any, FreeAll, ListInv, ListedOnce
  <2> QED
    BY <2>1 DEF ZombieInv
<1>6. CASE \/ StartReturns \/ FireTimer \/ TickReturns \/ TimeoutReturns
           \/ NothingToDo \/ PollTimesOut \/ MainCondition \/ PollReady
           \/ PollFails \/ PollReturns
  <2>1. /\ UNCHANGED <<live, open>>
        /\ pc \notin {"event", "after", "undefined"}
        /\ pc' \notin {"event", "after", "undefined"}
    BY <1>6 DEF StartReturns, FireTimer, TickReturns, TimeoutReturns, NothingToDo,
                PollTimesOut, MainCondition, GoOnIf, PollReady, PollFails, PollReturns, listVars
  <2> QED
    BY <2>1 DEF ZombieInv
<1>7. CASE UNCHANGED vars
  BY <1>7 DEF vars, ZombieInv
<1> QED
  BY <1>1, <1>2, <1>3, <1>4, <1>5, <1>6, <1>7 DEF Next, Program

\* When handlers close only the descriptor they are called for, io_ds_poll leaves none
\* in the list that is closed, for any number of descriptors and whoever frees them.
THEOREM NoneIsLeftClosed ==
    ASSUME ~CloseOthers
    PROVE  Spec => []NoZombie
<1>1. Init => ListInv /\ ZombieInv
  BY InitList DEF Init, ZombieInv
<1>2. ListInv /\ ZombieInv /\ [Next]_vars => ListInv' /\ ZombieInv'
  BY StepKeepsList, StepKeepsZombies
<1>3. ZombieInv => NoZombie
  BY DEF ZombieInv, NoZombie
<1> QED
  BY <1>1, <1>2, <1>3, PTL DEF Spec

-----------------------------------------------------------------------------
(* The end of the main loop. *)

\* An empty poll set is one of which no descriptor asks for events.
LEMMA WatchableIsFinite ==
    ASSUME ListInv
    PROVE  /\ IsFiniteSet(Watchable)
           /\ Cardinality(Watchable) \in Nat
           /\ Cardinality(Watchable) = 0 => Watchable = {}
           /\ Watchable = {} => live \cap watched = {}
<1>1. DOMAIN io_ds = 1..Len(io_ds) /\ Len(io_ds) \in Nat
  BY DEF ListInv
<1>2. IsFiniteSet(1..Len(io_ds))
  BY <1>1, FS_Interval
<1>3. Watchable \subseteq 1..Len(io_ds)
  BY <1>1 DEF Watchable
<1>4. IsFiniteSet(Watchable)
  BY <1>2, <1>3, FS_Subset
<1>5. Watchable = {} => live \cap watched = {}
  BY DEF Watchable, ListInv, ListedOnce, ToSet
<1> QED
  BY <1>4, <1>5, FS_CardinalityType, FS_EmptySet

LEMMA PollIsJust ==
    ASSUME ListInv, IdleInv, NothingToDo \/ PollTimesOut \/ PollFails \/ PollReturns
    PROVE  IdleInv'
<1>1. pc' = "cond" /\ live' = live /\ watched' = watched
  BY DEF NothingToDo, PollTimesOut, PollFails, PollReturns, listVars
<1>2. ret' \in Nat \cup {Interrupted, Failed} /\ (ret' = 0 => live \cap watched = {})
  <2>1. ASSUME NothingToDo \/ PollTimesOut
        PROVE  ret' \in Nat /\ (ret' = 0 => Watchable = {})
    BY <2>1, WatchableIsFinite DEF NothingToDo, PollTimesOut
  <2>2. ASSUME PollFails
        PROVE  ret' \in {Interrupted, Failed} /\ ret' # 0
    BY <2>2 DEF PollFails, Interrupted, Failed
  <2>3. ASSUME PollReturns
        PROVE  ret' \in Nat /\ ret' # 0
    <3>1. IsFiniteSet(polled) /\ polled # {} /\ ret' = Cardinality(polled)
      BY <2>3 DEF PollReturns, IdleInv
    <3> QED
      BY <3>1, FS_CardinalityType, FS_EmptySet
  <2> QED
    BY <2>1, <2>2, <2>3, WatchableIsFinite
<1> QED
  BY <1>1, <1>2 DEF IdleInv, ExitsOnlyWhenIdle

LEMMA ExitIsJust ==
    ASSUME IdleInv, MainCondition
    PROVE  IdleInv'
<1>1. /\ pc = "cond" /\ UNCHANGED <<live, watched, timers>>
      /\ IF ret > 0 \/ ret = Interrupted \/ io_has_active_timers
         THEN pc' = "timeout" ELSE pc' = "exit" /\ ret' = ret
  BY DEF MainCondition, GoOnIf, listVars
<1>2. /\ ret \in Nat \cup {Interrupted, Failed}
      /\ ret = 0 => live \cap watched = {}
  BY <1>1 DEF IdleInv
<1>3. io_has_active_timers' = io_has_active_timers
  BY <1>1 DEF io_has_active_timers
<1>4. pc' = "exit" => ret = 0 \/ ret = Failed
  BY <1>1, <1>2
<1> QED
  BY <1>1, <1>2, <1>3, <1>4 DEF IdleInv, ExitsOnlyWhenIdle

LEMMA StepKeepsIdle ==
    ASSUME ListInv, IdleInv, [Next]_vars
    PROVE  IdleInv'
<1>1. CASE Call
  <2>1. pc' = pc /\ polled' = polled /\ pc \in {"start", "tick", "event"}
    BY <1>1 DEF Call, io_d_init, io_d_free, io_d_close, SetEvents, TimerCall, Running, batchVars
  <2> QED
    BY <2>1 DEF IdleInv, ExitsOnlyWhenIdle
<1>2. CASE PollReady
  <2>1. pc' = "dispatch" /\ polled' = Watchable /\ Watchable # {}
    BY <1>2 DEF PollReady
  <2> QED
    BY <2>1, WatchableIsFinite DEF IdleInv, ExitsOnlyWhenIdle
<1>3. CASE CallEvent \/ EventReturns \/ FreeIfClosed
  <2>1. /\ pc \in {"dispatch", "event", "after"} /\ polled' = polled
        /\ pc' \in {"dispatch", "event", "after", "undefined"}
    BY <1>3 DEF CallEvent, EventReturns, FreeIfClosed, batchVars
  <2> QED
    BY <2>1 DEF IdleInv, ExitsOnlyWhenIdle
<1>4. CASE NothingToDo \/ PollTimesOut \/ PollFails \/ PollReturns
  BY <1>4, PollIsJust
<1>5. CASE MainCondition
  BY <1>5, ExitIsJust
<1>6. CASE \/ StartReturns \/ FireTimer \/ TickReturns \/ TimeoutReturns
           \/ io_free \/ sig_any
  <2>1. pc' \in {"timeout", "tick", "collect", "done"}
    BY <1>6 DEF StartReturns, FireTimer, TickReturns, TimeoutReturns, io_free, sig_any, FreeAll
  <2> QED
    BY <2>1 DEF IdleInv, ExitsOnlyWhenIdle
<1>7. CASE UNCHANGED vars
  <2>1. UNCHANGED <<pc, polled, ret, live, watched, timers>>
    BY <1>7 DEF vars
  <2> QED
    BY <2>1 DEF IdleInv, ExitsOnlyWhenIdle, io_has_active_timers
<1> QED
  BY <1>1, <1>2, <1>3, <1>4, <1>5, <1>6, <1>7 DEF Next, Program

\* main() leaves its loop only when poll failed or nothing is left that could call a
\* handler, whatever handlers do.
THEOREM LoopEndsWhenIdle == Spec => []ExitsOnlyWhenIdle
<1>1. Init => ListInv /\ IdleInv
  BY InitList DEF Init, IdleInv, ExitsOnlyWhenIdle
<1>2. ListInv /\ IdleInv /\ [Next]_vars => ListInv' /\ IdleInv'
  BY StepKeepsList, StepKeepsIdle
<1>3. IdleInv => ExitsOnlyWhenIdle
  BY DEF IdleInv
<1> QED
  BY <1>1, <1>2, <1>3, PTL DEF Spec
=============================================================================
