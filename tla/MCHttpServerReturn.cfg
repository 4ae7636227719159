CONSTANTS
    c1 = c1
    c2 = c2
    c3 = c3
    Main = Main
    NoThread = NoThread
    Conns <- MCConns2
    Backlog = 2
    MaxFds = 3
SPECIFICATION Spec
INVARIANT
    OnlyListenerFailureReturns
\* serve may return, and every connection may end.
CHECK_DEADLOCK FALSE
