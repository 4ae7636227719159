--------------------------------- MODULE MCFs ---------------------------------
(* The files (MCFile) and the directories (MCReadDir) of fs.rs side by side: a  *)
(* behaviour is one of either, while the other stays as it began.               *)
EXTENDS MCFile, MCReadDir

VARIABLE half

MCInit ==
    /\ half \in {"file", "directory"}
    /\ Init
    /\ DirInit
    /\ half = "directory" => /\ file = Absent
                             /\ \A j \in Jobs : opts[j] = NoOptions /\ what[j] = "adjust"
    /\ half = "file" => dir = <<>> /\ errno = 0

FileStep == half = "file" /\ Next /\ UNCHANGED <<dirVars, half>>
DirStep  == half = "directory" /\ DirNext /\ UNCHANGED <<vars, half>>

MCNext == FileStep \/ DirStep

MCSpec == MCInit /\ [][MCNext]_<<vars, dirVars, half>>
===============================================================================
