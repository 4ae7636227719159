CONSTANTS
    j1 = j1
    j2 = j2
    Absent = Absent
    Old = Old
    Jobs <- MCJobs
    Options <- MCOptions
    MaxSize = 3
    Chunk = 2
    OffMax = 3
    Names <- MCNames
    MaxLen = 4
    Errnos <- MCErrnos
SPECIFICATION MCSpec
SYMMETRY Symmetry
INVARIANTS
    CreatedNew
    WriteExact
    AppendsKept
    ReadsPrefix
    EntriesInOrder
PROPERTIES
    OffsetsExact
    NullExplained
\* All jobs return, and the iterator is dropped in the end.
CHECK_DEADLOCK FALSE
