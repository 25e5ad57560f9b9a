\* Event methods free and close any descriptor.
CONSTANTS
    Ds = {d1, d2}
    Timers = {t1}
    FreeOthers = TRUE
    CloseOthers = TRUE
    StopTimers = TRUE
CHECK_DEADLOCK FALSE
SYMMETRY Symmetry
SPECIFICATION Spec
INVARIANTS NoUseAfterFree
