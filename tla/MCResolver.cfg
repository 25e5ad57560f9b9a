\* Two servers of up to three are taken, for SEND_DNS_REQ_NUM rounds.
CONSTANTS
    Dot = 46
    NameSize = 16
    Hosts <- MCHosts
    Files <- MCFiles
    Answers <- MCAnswers
    MaxServers = 2
    Rounds = 3
    MaxAnswers = 6
SPECIFICATION FairSpec
CHECK_DEADLOCK FALSE
INVARIANTS QueryNamesHost ResolvedIsMeant RetriesAreEarned SocketClosed
PROPERTIES Returns
