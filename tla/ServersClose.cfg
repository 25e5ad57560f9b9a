\* An answer that is sent at once.
CONSTANTS
    BSD = TRUE
    Size = 7
    MaxMessages = 1
CHECK_DEADLOCK FALSE
SPECIFICATION Spec
INVARIANTS ClosedWhenSent
