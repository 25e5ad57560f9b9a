\* Segments of two blocks, up to five datagrams, three under way.
CONSTANTS
    Data = {a, b, c}
    SegLen = 2
    MaxSends = 5
CHECK_DEADLOCK FALSE
SPECIFICATION FairSpec
INVARIANTS ChainIsPacked SentInOrder PendingIsPolled
PROPERTIES IsBlockFifo QueuedIsSent
