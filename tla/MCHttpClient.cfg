CONSTANTS
    c1 = c1
    c2 = c2
    r1 = r1
    r2 = r2
    None = None
    Clients <- MCClients
    Calls <- MCCalls
    ReadChunk = 2
    MaxBody = 3
SPECIFICATION Spec
SYMMETRY Symmetry
INVARIANTS
    NothingLeaks
    HandlesLive
    RequestDeleted
    WholeBody
PROPERTIES
    FirstErrorKept
\* Every client may be dropped and every call return.
CHECK_DEADLOCK FALSE
