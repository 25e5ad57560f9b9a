\* Three servers, two lives; ports have their width.
CONSTANTS
    inet_pton <- MCInetPton
    PortSize = 65536
    CountSize = 1000000000
    ArgLists <- MCArgLists
    Garbage <- MCGarbage
    MaxServers = 3
    MaxLives = 2
SPECIFICATION Spec
CHECK_DEADLOCK FALSE
INVARIANTS ListensWhereMeant NoSocketLost PidFileIsTrue
