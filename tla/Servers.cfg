\* Three messages, and a buffer for two of them.
CONSTANTS
    BSD = TRUE
    Size = 7
    MaxMessages = 3
CHECK_DEADLOCK FALSE
SPECIFICATION FairSpec
INVARIANTS BufferFits AnswersInOrder AnswersDeserved NothingLeaks
PROPERTIES WaitingPeerIsAnswered
