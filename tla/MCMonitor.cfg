CONSTANTS
    w1 = w1
    w2 = w2
    w3 = w3
    m1 = m1
    m2 = m2
    c1 = c1
    None = None
    Threads <- MCThreads
    Mutexes <- MCMutexes
    Condvars <- MCCondvars
SPECIFICATION FairSpec
INVARIANTS
    GuardExcludes
    LockNotLeaked
    WaitAtomic
PROPERTY
    WokenReturns
\* Threads may all sleep, or wait for each other's mutexes.
CHECK_DEADLOCK FALSE
