CONSTANTS
    Requests <- MCRequests
    ReadChunk = 6
    MaxHeaderBytes = 41
    MaxBodyBytes = 4
    UsizeMax = 99
    Responses <- MCResponses
    Window = 2
    Heads <- MCHeads
    Fold <- MCFold
    Numbers <- MCNumbers
    Names <- MCNames
    Values <- MCValues
    Statuses = {200, 404}
    Bodies = {0, 3}
    BadRequest = 3
    MaxCalls = 2
SPECIFICATION MCSpec
INVARIANTS
    BoundedMemory
    BodyExact
    RequestConsumed
    RejectsJustified
    RequestRead
    ResponseFramed
PROPERTIES
    ImplementsExchange
    ConnectionEnds
\* A closed connection, one whose client stays silent, and a response that is sent,
\* do nothing more.
CHECK_DEADLOCK FALSE
