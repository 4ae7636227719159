CONSTANTS
    Requests <- MCRequests
    ReadChunk = 6
    MaxHeaderBytes = 41
    MaxBodyBytes = 4
    UsizeMax = 99
    Responses <- MCResponses
    Window = 2
SPECIFICATION Spec
INVARIANT
    HeadCap
\* A closed connection, and one whose client stays silent, do nothing more.
CHECK_DEADLOCK FALSE
