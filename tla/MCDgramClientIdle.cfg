\* POLLOUT once the queue is drained.
CONSTANTS
    Data = {a}
    SegLen = 2
    MaxSends = 2
CHECK_DEADLOCK FALSE
SPECIFICATION Spec
INVARIANTS IdleIsNotPolled
