\* Event methods close and free only their own descriptor, as those of examples/ do.
CONSTANTS
    Ds = {d1, d2, d3}
    Timers = {t1}
    FreeOthers = FALSE
    CloseOthers = FALSE
    StopTimers = TRUE
CHECK_DEADLOCK FALSE
SPECIFICATION FairSpec
INVARIANTS ListedOnce BatchIsLive NoZombie ExitsOnlyWhenIdle
PROPERTIES EachReportIsServed
