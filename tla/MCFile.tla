--------------------------------- MODULE MCFile ---------------------------------
(* OpenOptions for File: what File::open and File::create use, and other       *)
(* combinations a caller can build.                                            *)
EXTENDS File, TLC

CONSTANTS j1, j2

MCJobs == {j1, j2}

NoOptions == [read |-> FALSE, write |-> FALSE, append |-> FALSE,
              truncate |-> FALSE, create |-> FALSE, create_new |-> FALSE]

ReadOptions    == [NoOptions EXCEPT !.read = TRUE]                    \* File::open
CreateOptions  == [NoOptions EXCEPT !.write = TRUE, !.create = TRUE,
                                    !.truncate = TRUE]                \* File::create
AppendOptions  == [NoOptions EXCEPT !.append = TRUE, !.create = TRUE]
UpdateOptions  == [NoOptions EXCEPT !.read = TRUE, !.write = TRUE]
NewOptions     == [NoOptions EXCEPT !.write = TRUE, !.truncate = TRUE,
                                    !.create_new = TRUE]
ReadTruncating == [NoOptions EXCEPT !.read = TRUE, !.truncate = TRUE]

MCOptions == {NoOptions, ReadOptions, CreateOptions, AppendOptions, UpdateOptions,
              NewOptions, ReadTruncating}

Symmetry == Permutations(Jobs)
===============================================================================
