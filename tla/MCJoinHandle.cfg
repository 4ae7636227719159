CONSTANTS
    t1 = t1
    t2 = t2
    Main = Main
    NoThread = NoThread
    Tasks <- MCTasks
SPECIFICATION FairSpec
INVARIANTS
    SharedRefs
    JoinerAlone
    HandleLive
PROPERTIES
    JoinReturns
    AbandonedThreadEnds
    ImplementsThreadResult
\* Every task may end: the system then stops.
CHECK_DEADLOCK FALSE
