\* Every callback writes, save sent() called by a write.
CONSTANTS
    Byte = {x, y}
    Writers <- SafeWriters
    ZeroWrites = FALSE
    MaxBytes = 4
    MaxDepth = 3
CHECK_DEADLOCK FALSE
SPECIFICATION FairSpec
INVARIANTS WireIsOrdered PendingIsPolled
PROPERTIES AllSentIsTrue AllSentFollows
