CONSTANTS
    Heads <- MCHeads
    Fold <- MCFold
    Numbers <- MCNumbers
    Names <- MCNames
    Values <- MCValues
    Statuses = {200, 404}
    Bodies = {0, 3}
    BadRequest = 3
    MaxCalls = 2
SPECIFICATION MessageSpec
INVARIANT
    OneOfEach
\* The response is sent.
CHECK_DEADLOCK FALSE
