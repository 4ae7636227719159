CONSTANTS
    c1 = c1
    c2 = c2
    c3 = c3
    Main = Main
    NoThread = NoThread
    Conns <- MCConns3
    Backlog = 2
    MaxFds = 3
SPECIFICATION FairSpec
INVARIANTS
    HandlerRefs
    StreamLifetime
PROPERTIES
    AcceptLoopNeverWaits
    ConnectionReclaimed
\* serve may return, and every connection may end.
CHECK_DEADLOCK FALSE
