--------------------------------- MODULE ReadDir ---------------------------------
(***************************************************************************)
(* The iterator ReadDir of crates/ps5/src/fs.rs over readdir(3), which     *)
(* tells the end of a directory from a failure only by errno.              *)
(*                                                                         *)
(* errno belongs to the thread: between two calls of `next` the thread may *)
(* make any other call, and readdir itself may leave errno changed when it *)
(* returns an entry.                                                       *)
(*                                                                         *)
(* StaleErrno and OnlyDot are used by no action: each is a plausible       *)
(* mistake in the definition after it, and put in its place makes a        *)
(* property below fail.                                                    *)
(*                                                                         *)
(* The names that every specification has start with Dir here, as          *)
(* FileProofs extends this module and File.                                *)
(***************************************************************************)
EXTENDS Naturals, Sequences, Selection

CONSTANTS Names,     \* names of entries other than . and ..
          MaxLen,    \* the largest directory
          Errnos     \* values of errno other than 0

ASSUME DirConstants == /\ MaxLen \in Nat
                       /\ Names \cap {".", ".."} = {}
                       /\ 0 \notin Errnos

VARIABLES
    dir,       \* the entries of the directory stream
    pos,       \* how many of them readdir has returned
    errno,     \* the thread's errno
    at,        \* where next is
    failed,    \* whether the last readdir failed
    yielded,   \* the names next has returned so far
    returned   \* what the last call of next returned

dirVars == <<dir, pos, errno, at, failed, yielded, returned>>

Dirs == UNION {[1..n -> Names \cup {".", ".."}] : n \in 0..MaxLen}

DirTypeOK ==
    /\ dir \in Dirs
    /\ pos \in 0..MaxLen
    /\ errno \in Errnos \cup {0}
    /\ at \in {"user", "loop", "null", "dropped"}
    /\ failed \in BOOLEAN
    /\ yielded \in Seq(Names)
    /\ returned \in {"nothing", "entry", "None", "error"}

DirInit ==
    /\ dir \in Dirs
    /\ pos = 0
    /\ errno \in Errnos \cup {0}
    /\ at = "user"
    /\ failed = FALSE
    /\ yielded = <<>>
    /\ returned = "nothing"

-------------------------------------------------------------------------------
\* The thread between two calls of next

OtherCall ==
    /\ at = "user"
    /\ errno' \in Errnos
    /\ UNCHANGED <<dir, pos, at, failed, yielded, returned>>

DropReadDir ==
    /\ at = "user"
    /\ at' = "dropped"
    /\ UNCHANGED <<dir, pos, errno, failed, yielded, returned>>

CallNext ==
    /\ at = "user"
    /\ at' = "loop"
    /\ UNCHANGED <<dir, pos, errno, failed, yielded, returned>>

-------------------------------------------------------------------------------
\* next: one turn of its loop, which starts by setting errno to 0

StaleErrno == errno
Cleared    == 0

\* The entries that are not yielded.
OnlyDot == {"."}
Skipped == {".", ".."}

\* readdir returns an entry.
Entry ==
    /\ at = "loop"
    /\ pos < Len(dir)
    /\ pos' = pos + 1
    /\ errno' \in Errnos \cup {Cleared}
    /\ failed' = FALSE
    /\ \/ /\ dir[pos + 1] \in Skipped
          /\ UNCHANGED <<at, yielded, returned>>
       \/ /\ dir[pos + 1] \notin Skipped
          /\ yielded' = Append(yielded, dir[pos + 1])
          /\ returned' = "entry"
          /\ at' = "user"
    /\ UNCHANGED dir

\* readdir returns null at the end, and leaves errno as it is.
End ==
    /\ at = "loop"
    /\ pos = Len(dir)
    /\ errno' = Cleared
    /\ failed' = FALSE
    /\ at' = "null"
    /\ UNCHANGED <<dir, pos, yielded, returned>>

\* readdir fails, here or where it failed before: null, and errno says why.
ReadFails ==
    /\ at = "loop"
    /\ errno' \in Errnos
    /\ failed' = TRUE
    /\ at' = "null"
    /\ UNCHANGED <<dir, pos, yielded, returned>>

\* next looks at errno and returns None or an error.
NullMeans(code) == IF code = 0 THEN "None" ELSE "error"

Null ==
    /\ at = "null"
    /\ returned' = NullMeans(errno)
    /\ at' = "user"
    /\ UNCHANGED <<dir, pos, errno, failed, yielded>>

NextStep == Entry \/ End \/ ReadFails \/ Null

DirNext == OtherCall \/ DropReadDir \/ CallNext \/ NextStep

DirSpec == DirInit /\ [][DirNext]_dirVars

-------------------------------------------------------------------------------
\* Safety

\* Whatever failed or set errno in between, the iterator has yielded every entry
\* it went past but . and .., once and in order (fs.rs:333, 364-368).
EntriesInOrder == Selects(yielded, dir, {p \in 1..pos : dir[p] \notin {".", ".."}})

\* A null is told apart rightly, whatever set errno before: the iterator ends only
\* at the end of the directory, so a failure never looks like a shorter one, and
\* reports an error only if readdir failed (fs.rs:343-360).
NullExplained == [][at = "null" /\ at' = "user" =>
    IF failed THEN returned' = "error" ELSE returned' = "None" /\ pos = Len(dir)]_dirVars

-------------------------------------------------------------------------------
\* The inductive invariant behind NullExplained: at a null errno is 0 exactly when
\* readdir did not fail, and then the stream is at its end.
AtNull == at = "null" => IF failed THEN errno # 0 ELSE errno = 0 /\ pos = Len(dir)

DirIInv == DirTypeOK /\ AtNull /\ EntriesInOrder
===============================================================================
