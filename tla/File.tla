---------------------------------- MODULE File ----------------------------------
(***************************************************************************)
(* OpenOptions::open, File::read_to_end, write_all, seek, set_len, the raw *)
(* descriptor's conversions and the drop of a File of crates/ps5/src/fs.rs, *)
(* and with them fs::read and fs::write: jobs of several threads on the    *)
(* file at one path, each with a File of its own.                          *)
(*                                                                         *)
(* A system call is one step.  The bytes of a job's buffer are numbered,   *)
(* so a byte in the file tells who wrote it and from where in the buffer.  *)
(*                                                                         *)
(* NoExcl, NoAppend, WholeChunk, KeepOffset and Saturated are used by no   *)
(* action: each is a plausible mistake in the definition after it, and put *)
(* in its place makes a property below fail.                               *)
(***************************************************************************)
EXTENDS Integers, SequencesExt, Selection

CONSTANTS Jobs,       \* the threads' jobs: open, then read_to_end, write_all or adjust
          Options,    \* the OpenOptions they may use
          MaxSize,    \* the longest buffer to write, and the file at the start
          Chunk,      \* length of the chunk of read_to_end
          OffMax,     \* i64::MAX, the largest off_t
          Absent,     \* no file at the path
          Old         \* writer of the bytes that were there at the start

ASSUME ConstantsType ==
    /\ Options \subseteq [read : BOOLEAN, write : BOOLEAN, append : BOOLEAN,
                          truncate : BOOLEAN, create : BOOLEAN, create_new : BOOLEAN]
    /\ MaxSize \in Nat /\ Chunk \in Nat \ {0} /\ OffMax \in Nat
    /\ Old \notin Jobs /\ Absent \notin Jobs

VARIABLES
    file,     \* the bytes of the file, or Absent
    creator,  \* history: who made the file that is there; Absent without a file
    opts,     \* the OpenOptions of a job
    what,     \* what a job does with the File
    size,     \* length of the buffer to write
    pc,       \* where a job is
    fd,       \* its descriptor
    offset,   \* the descriptor's offset
    buf,      \* read_to_end: what was read
    done,     \* write_all: how much was written
    result    \* what the job returns

job == <<opts, what, size>>
vars == <<file, creator, job, pc, fd, offset, buf, done, result>>

Byte == ({Old} \cup Jobs) \X (1..MaxSize) \cup {<<Absent, 0>>}

ASSUME AbsentNoFile == Absent \notin Seq(Byte)

TypeOK ==
    /\ file   \in {Absent} \cup Seq(Byte)
    /\ creator \in {Absent, Old} \cup Jobs
    /\ opts   \in [Jobs -> Options]
    /\ what   \in [Jobs -> {"read_to_end", "write_all", "adjust"}]
    /\ size   \in [Jobs -> 0..MaxSize]
    /\ pc     \in [Jobs -> {"open", "run", "raw", "drop", "done"}]
    /\ fd     \in [Jobs -> {"none", "open", "closed"}]
    /\ offset \in [Jobs -> Nat]
    /\ buf    \in [Jobs -> Seq(Byte)]
    /\ done   \in [Jobs -> 0..MaxSize]
    /\ result \in [Jobs -> {"none", "ok", "error"}]

Bytes(w, first, last) == [i \in 1..(last + 1 - first) |-> <<w, first + i - 1>>]

Init ==
    /\ file \in {Absent} \cup {Bytes(Old, 1, n) : n \in 0..MaxSize}
    /\ creator = IF file = Absent THEN Absent ELSE Old
    /\ opts \in [Jobs -> Options]
    /\ what \in [Jobs -> {"read_to_end", "write_all", "adjust"}]
    /\ size \in [Jobs -> 0..MaxSize]
    /\ \A j \in Jobs : what[j] # "write_all" => size[j] = 0
    /\ pc     = [j \in Jobs |-> "open"]
    /\ fd     = [j \in Jobs |-> "none"]
    /\ offset = [j \in Jobs |-> 0]
    /\ buf    = [j \in Jobs |-> <<>>]
    /\ done   = [j \in Jobs |-> 0]
    /\ result = [j \in Jobs |-> "none"]

-------------------------------------------------------------------------------
\* OpenOptions::open

Reads(o)  == o.read
Writes(o) == o.write \/ o.append

\* access_flags: neither read nor write is refused before the path is looked at.
Accessible(o) == Reads(o) \/ Writes(o)

\* The flags open adds to the access mode.
NoExcl(o)   == o.create_new /\ o.create
Excl(o)     == o.create_new
NoAppend(o) == FALSE
Appends(o)  == o.append
Creat(o)    == o.create_new \/ o.create
Trunc(o)    == ~o.create_new /\ o.truncate

\* open(2) with these flags: it creates the file or empties it, if it has to.
OpenFile(j) ==
    /\ pc[j] = "open"
    /\ Accessible(opts[j])
    /\ IF file = Absent THEN Creat(opts[j]) ELSE ~Excl(opts[j])
    /\ file' = IF file = Absent \/ Trunc(opts[j]) THEN <<>> ELSE file
    /\ creator' = IF file = Absent THEN j ELSE creator
    /\ fd' = [fd EXCEPT ![j] = "open"]
    /\ pc' = [pc EXCEPT ![j] = "run"]
    /\ UNCHANGED <<job, offset, buf, done, result>>

\* No access mode, an error the flags ask for, or any other error of open(2).
OpenFails(j) ==
    /\ pc[j] = "open"
    /\ result' = [result EXCEPT ![j] = "error"]
    /\ pc' = [pc EXCEPT ![j] = "done"]
    /\ UNCHANGED <<file, creator, job, fd, offset, buf, done>>

-------------------------------------------------------------------------------
\* The loops of read_to_end and write_all

Return(j, r) == /\ pc' = [pc EXCEPT ![j] = "drop"]
                /\ result' = [result EXCEPT ![j] = r]

\* read(2) fills some of the chunk, and that part is appended to the buffer.
WholeChunk(got) == got \o [i \in 1..(Chunk - Len(got)) |-> <<Absent, 0>>]
Filled(got)     == got

Read(j) ==
    /\ pc[j] = "run" /\ what[j] = "read_to_end"
    /\ Reads(opts[j])
    /\ file # Absent
    /\ \E n \in 1..Chunk :
          /\ offset[j] + n <= Len(file)
          /\ buf' = [buf EXCEPT ![j] = @ \o Filled(SubSeq(file, offset[j] + 1, offset[j] + n))]
          /\ offset' = [offset EXCEPT ![j] = @ + n]
    /\ UNCHANGED <<file, creator, job, pc, fd, done, result>>

ReadEnd(j) ==
    /\ pc[j] = "run" /\ what[j] = "read_to_end"
    /\ Reads(opts[j])
    /\ offset[j] >= Len(file)
    /\ Return(j, "ok")
    /\ UNCHANGED <<file, creator, job, fd, offset, buf, done>>

\* Bytes written at a position, past a hole if the file ends before it.
Overwritten(f, at, data) ==
    LET end == at + Len(data)
    IN  [i \in 1..(IF end > Len(f) THEN end ELSE Len(f)) |->
            IF i > at /\ i <= end THEN data[i - at]
            ELSE IF i <= Len(f) THEN f[i] ELSE <<Absent, 0>>]

\* write(2) takes some of the rest of the buffer, and the loop goes on behind it.
Remaining(j) == size[j] - done[j]

KeepOffset(j, n) == done' = [done EXCEPT ![j] = n]
Advance(j, n)    == done' = [done EXCEPT ![j] = @ + n]

Write(j) ==
    /\ pc[j] = "run" /\ what[j] = "write_all"
    /\ Writes(opts[j])
    /\ LET at == IF Appends(opts[j]) THEN Len(file) ELSE offset[j]
       IN  \E n \in 1..Remaining(j) :
              /\ file' = Overwritten(file, at, Bytes(j, done[j] + 1, done[j] + n))
              /\ offset' = [offset EXCEPT ![j] = at + n]
              /\ Advance(j, n)
    /\ UNCHANGED <<creator, job, pc, fd, buf, result>>

WriteEnd(j) ==
    /\ pc[j] = "run" /\ what[j] = "write_all"
    /\ done[j] = size[j]
    /\ Return(j, "ok")
    /\ UNCHANGED <<file, creator, job, fd, offset, buf, done>>

\* The descriptor is not open for this, an EINTR or any other error, or a write
\* that returned 0: the loop gives up, with what it has read or written.
RunFails(j) ==
    /\ pc[j] = "run"
    /\ what[j] = "write_all" => done[j] < size[j]
    /\ Return(j, "error")
    /\ UNCHANGED <<file, creator, job, fd, offset, buf, done>>

\* The job's File goes out of scope.
DropFile(j) ==
    /\ pc[j] = "drop"
    /\ fd' = [fd EXCEPT ![j] = "closed"]
    /\ pc' = [pc EXCEPT ![j] = "done"]
    /\ UNCHANGED <<file, creator, job, offset, buf, done, result>>

-------------------------------------------------------------------------------
\* A job that adjusts: any calls of seek, set_len and the raw conversions.  The
\* failure of one changes nothing, and neither does sync_all.

U64Max == 2 * OffMax + 1

SeekFrom == [whence : {"Start"}, off : 0..U64Max]
            \cup [whence : {"End", "Current"}, off : -(OffMax + 1)..OffMax]

\* n as off_t
Saturated(n) == IF n > OffMax THEN OffMax ELSE n
AsOff(n)     == IF n > OffMax THEN n - (U64Max + 1) ELSE n

Base(j, whence) == CASE whence = "Start" -> 0
                     [] whence = "End" -> Len(file)
                     [] OTHER -> offset[j]

\* lseek refuses a position that is negative or no off_t.
Seek(j, to) ==
    /\ pc[j] = "run" /\ what[j] = "adjust"
    /\ LET at == Base(j, to.whence) + AsOff(to.off)
       IN  /\ at \in 0..OffMax
           /\ offset' = [offset EXCEPT ![j] = at]
    /\ UNCHANGED <<file, creator, job, pc, fd, buf, done, result>>

\* ftruncate refuses a negative length; a longer file ends in a hole.
SetLen(j, n) ==
    /\ pc[j] = "run" /\ what[j] = "adjust"
    /\ Writes(opts[j])
    /\ AsOff(n) >= 0
    /\ file' = [i \in 1..AsOff(n) |-> IF i <= Len(file) THEN file[i] ELSE <<Absent, 0>>]
    /\ UNCHANGED <<creator, job, pc, fd, offset, buf, done, result>>

AdjustEnd(j) ==
    /\ pc[j] = "run" /\ what[j] = "adjust"
    /\ Return(j, "ok")
    /\ UNCHANGED <<file, creator, job, fd, offset, buf, done>>

\* into_raw_fd forgets the File, from_raw_fd adopts the descriptor again.
IntoRawFd(j) ==
    /\ pc[j] = "run" /\ what[j] = "adjust"
    /\ pc' = [pc EXCEPT ![j] = "raw"]
    /\ UNCHANGED <<file, creator, job, fd, offset, buf, done, result>>

FromRawFd(j) ==
    /\ pc[j] = "raw"
    /\ pc' = [pc EXCEPT ![j] = "run"]
    /\ UNCHANGED <<file, creator, job, fd, offset, buf, done, result>>

-------------------------------------------------------------------------------
JobStep(j) == \/ OpenFile(j)
              \/ OpenFails(j)
              \/ Read(j)
              \/ ReadEnd(j)
              \/ Write(j)
              \/ WriteEnd(j)
              \/ \E to \in SeekFrom : Seek(j, to)
              \/ \E n \in 0..U64Max : SetLen(j, n)
              \/ AdjustEnd(j)
              \/ IntoRawFd(j)
              \/ FromRawFd(j)
              \/ RunFails(j)
              \/ DropFile(j)

Next == \E j \in Jobs : JobStep(j)

Spec == Init /\ [][Next]_vars

-------------------------------------------------------------------------------
\* Safety

Opened(j) == fd[j] # "none"

\* Where the bytes of a job are in the file.
PlacesOf(j) == {p \in 1..Len(file) : file[p][1] = j}

\* No job that has opened the file can change what is already in it.
OnlyAppended == \A j \in Jobs : Opened(j) /\ Writes(opts[j]) =>
                                opts[j].append /\ ~Trunc(opts[j]) /\ what[j] # "adjust"
KeepsContent == OnlyAppended /\ \A j \in Jobs : Opened(j) => ~Trunc(opts[j])

\* A job that opened the file with create_new made it: it never gets, and never
\* empties, a file that was there before or that any other job had created
\* (fs.rs:224-227, 257-267).
CreatedNew == \A j \in Jobs : Opened(j) /\ opts[j].create_new => creator = j

\* Appending jobs never overwrite each other: as long as nobody else writes, each
\* has exactly what write_all got through in the file, in order, however short
\* the writes were and whoever wrote in between (fs.rs:84-95, 254-256).
AppendsKept == KeepsContent => \A j \in Jobs :
    IF file = Absent THEN done[j] = 0
                     ELSE Selects(Bytes(j, 1, done[j]), file, PlacesOf(j))

\* read_to_end returns the file from its start, without holes, repetitions or
\* stale bytes of the chunk, also while others append to it (fs.rs:100-111).
ReadsPrefix == KeepsContent => \A j \in Jobs : buf[j] # <<>> => IsPrefix(buf[j], file)

\* A single job that truncates or creates the file and writes it decides what is
\* in it: all of its buffer when it returns Ok, and the part that was written
\* when it does not (fs.rs:416-420).
WriteExact == \A j \in Jobs :
    /\ Opened(j) /\ what[j] = "write_all" /\ Writes(opts[j])
    /\ opts[j].create_new \/ Trunc(opts[j])
    /\ \A i \in Jobs \ {j} : Opened(i) => ~Writes(opts[i]) /\ ~Trunc(opts[i])
    => /\ file = Bytes(j, 1, done[j])
       /\ result[j] = "ok" => done[j] = size[j]

\* A seek that succeeds is where it was asked to go, and a set_len that succeeds
\* makes the file as long as asked and keeps what it had: an u64 beyond i64::MAX,
\* negative once it is cast, is refused and reaches nothing else (fs.rs:114-142).
OffsetsExact == [][\A j \in Jobs :
    /\ \A to \in SeekFrom : Seek(j, to) => offset'[j] = Base(j, to.whence) + to.off
    /\ \A n \in 0..U64Max : SetLen(j, n) =>
          /\ Len(file') = n
          /\ \A i \in 1..n : i <= Len(file) => file'[i] = file[i]]_vars

-------------------------------------------------------------------------------
\* The inductive invariant behind the safety properties

\* Where a job is and what it has; only a job that runs gets on.
JobState == \A j \in Jobs :
    /\ pc[j] \in {"run", "raw", "drop"} => fd[j] = "open"
    /\ pc[j] = "open" => fd[j] = "none"
    /\ Opened(j) => file # Absent
    /\ pc[j] = "raw" => what[j] = "adjust"
    /\ ~Opened(j) \/ what[j] # "read_to_end" => buf[j] = <<>>
    /\ ~Opened(j) => offset[j] = 0 /\ done[j] = 0 /\ result[j] # "ok"
    /\ result[j] = "ok" => pc[j] \in {"drop", "done"}

\* A reader's offset is the length of what it has; a writer that does not append
\* has written up to its offset.
OffsetState == \A j \in Jobs :
    /\ what[j] = "read_to_end" => offset[j] = Len(buf[j]) /\ done[j] = 0
    /\ what[j] = "write_all" /\ ~opts[j].append => offset[j] = done[j]
    /\ what[j] = "write_all" /\ result[j] = "ok" => done[j] = size[j]

\* ReadsPrefix, byte by byte.
ReadSoFar == KeepsContent => \A j \in Jobs : buf[j] # <<>> =>
    Len(buf[j]) <= Len(file) /\ \A i \in 1..Len(buf[j]) : buf[j][i] = file[i]

IInv == TypeOK /\ JobState /\ OffsetState /\ CreatedNew /\ ReadSoFar /\ WriteExact
===============================================================================
