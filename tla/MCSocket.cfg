CONSTANTS
    t1 = t1
    t2 = t2
    h1 = h1
    h2 = h2
    six = six
    Nobody = Nobody
    Null = Null
    Kinds = {"stream", "listener", "datagram"}
    Threads = {t1, t2}
    Programs <- MCPrograms
    Hosts = {h1, h2}
    Foreign = {six}
    Lists <- MCLists
    Buffer <- MCBuffer
    Window = 2
    Chunk = 2
    MaxArrivals = 2
    QueueLimit = 2
SPECIFICATION FairSpec
INVARIANTS
    SentInOrder
    ReceivedOnce
    ErrorReported
    LookupExact
PROPERTIES
    FlagsKept
    CallsReleased
\* The socket may be closed, or every thread done or waiting.
CHECK_DEADLOCK FALSE
