------------------------------- MODULE FileProofs -------------------------------
(***************************************************************************)
(* The safety of the files and directories of crates/ps5/src/fs.rs: of     *)
(* File for any jobs, options and sizes, and of ReadDir.                   *)
(***************************************************************************)
EXTENDS File, ReadDir, SelectionProofs, SequenceTheorems, TLAPS

-------------------------------------------------------------------------------
\* Sequences of bytes

\* What a function on 1..n is as a sequence.
LEMMA FunctionSeq ==
    ASSUME NEW S, NEW n \in Nat, NEW s \in [1..n -> S]
    PROVE  s \in Seq(S) /\ Len(s) = n
<1>1. s \in Seq(S)
  OBVIOUS
<1> QED
  BY <1>1

LEMMA SeqFunction ==
    ASSUME NEW S, NEW s \in Seq(S)
    PROVE  Len(s) \in Nat /\ s \in [1..Len(s) -> S]
  OBVIOUS

\* The n bytes of a job's buffer behind the first d.
LEMMA BytesSeq ==
    ASSUME NEW w \in {Old} \cup Jobs, NEW d \in Nat, NEW n \in Nat, d + n <= MaxSize
    PROVE  /\ Bytes(w, d + 1, d + n) \in Seq(Byte)
           /\ Len(Bytes(w, d + 1, d + n)) = n
           /\ \A i \in 1..n : Bytes(w, d + 1, d + n)[i] = <<w, d + i>>
<1>1. \A i \in 1..n : d + i \in 1..MaxSize
  BY ConstantsType DEF ConstantsType
<1>2. (d + n) + 1 - (d + 1) = n /\ \A i \in 1..n : (d + 1) + i - 1 = d + i
  OBVIOUS
<1>3. Bytes(w, d + 1, d + n) = [i \in 1..n |-> <<w, d + i>>]
  BY <1>2 DEF Bytes
<1>4. \A i \in 1..n : <<w, d + i>> \in Byte
  BY <1>1 DEF Byte
<1>5. Bytes(w, d + 1, d + n) \in [1..n -> Byte]
  BY <1>3, <1>4
<1>6. \A i \in 1..n : Bytes(w, d + 1, d + n)[i] = <<w, d + i>>
  BY <1>3
<1> QED
  BY ONLY <1>5, <1>6, FunctionSeq, n \in Nat

\* The first n of them.
LEMMA BytesPrefix ==
    ASSUME NEW w \in {Old} \cup Jobs, NEW n \in 0..MaxSize
    PROVE  /\ Bytes(w, 1, n) \in Seq(Byte)
           /\ Len(Bytes(w, 1, n)) = n
           /\ \A i \in 1..n : Bytes(w, 1, n)[i] = <<w, i>>
<1>1. n \in Nat /\ \A i \in 1..n : i \in 1..MaxSize
  BY ConstantsType DEF ConstantsType
<1>2. n + 1 - 1 = n /\ \A i \in 1..n : 1 + i - 1 = i
  BY <1>1
<1>3. Bytes(w, 1, n) = [i \in 1..n |-> <<w, i>>]
  BY <1>2 DEF Bytes
<1>4. \A i \in 1..n : <<w, i>> \in Byte
  BY <1>1 DEF Byte
<1>5. Bytes(w, 1, n) \in [1..n -> Byte]
  BY <1>3, <1>4
<1> QED
  BY <1>1, <1>3, <1>5, FunctionSeq

\* What a write leaves in the file.
LEMMA OverwrittenSeq ==
    ASSUME NEW f \in Seq(Byte), NEW start \in Nat, NEW data \in Seq(Byte)
    PROVE  /\ Overwritten(f, start, data) \in Seq(Byte)
           /\ Len(Overwritten(f, start, data)) =
                  IF start + Len(data) > Len(f) THEN start + Len(data) ELSE Len(f)
           /\ \A i \in 1..Len(Overwritten(f, start, data)) :
                  i > start /\ i <= start + Len(data) => Overwritten(f, start, data)[i] = data[i - start]
           /\ \A i \in 1..Len(f) :
                  ~(i > start /\ i <= start + Len(data)) => Overwritten(f, start, data)[i] = f[i]
<1> DEFINE end == start + Len(data)
           n   == IF end > Len(f) THEN end ELSE Len(f)
           g   == Overwritten(f, start, data)
<1>1. n \in Nat /\ Len(f) \in Nat /\ Len(data) \in Nat /\ Len(f) <= n
  OBVIOUS
<1>2. \A i \in 1..n : (IF i > start /\ i <= end THEN data[i - start]
                       ELSE IF i <= Len(f) THEN f[i] ELSE <<Absent, 0>>) \in Byte
  <2> SUFFICES ASSUME NEW i \in 1..n
               PROVE  (IF i > start /\ i <= end THEN data[i - start]
                       ELSE IF i <= Len(f) THEN f[i] ELSE <<Absent, 0>>) \in Byte
    OBVIOUS
  <2>1. CASE i > start /\ i <= end
    <3>1. i - start \in 1..Len(data)
      BY <1>1, <2>1
    <3> QED
      BY <2>1, <3>1
  <2>2. CASE ~(i > start /\ i <= end) /\ i <= Len(f)
    BY <1>1, <2>2
  <2>3. CASE ~(i > start /\ i <= end) /\ ~(i <= Len(f))
    BY <2>3 DEF Byte
  <2> QED
    BY <2>1, <2>2, <2>3
<1>3. g = [i \in 1..n |-> IF i > start /\ i <= end THEN data[i - start]
                          ELSE IF i <= Len(f) THEN f[i] ELSE <<Absent, 0>>]
  BY DEF Overwritten
<1> HIDE DEF end, n, g
<1>4. g \in [1..n -> Byte]
  BY <1>2, <1>3
<1>5. g \in Seq(Byte) /\ Len(g) = n
  BY <1>1, <1>4, FunctionSeq
<1>6. \A i \in 1..n : i > start /\ i <= end => g[i] = data[i - start]
  BY <1>3
<1>7. \A i \in 1..Len(f) : ~(i > start /\ i <= end) => g[i] = f[i]
  BY <1>1, <1>3
<1> QED
  BY <1>5, <1>6, <1>7 DEF end, n, g

-------------------------------------------------------------------------------
LEMMA InitInvariant == Init => IInv
<1> SUFFICES ASSUME Init
             PROVE  IInv
  OBVIOUS
<1> USE ConstantsType DEF ConstantsType, Init
<1>1. file \in {Absent} \cup Seq(Byte)
  <2>1. Old \in {Old} \cup Jobs
    OBVIOUS
  <2>2. \A n \in 0..MaxSize : Bytes(Old, 1, n) \in Seq(Byte)
    BY ONLY <2>1, BytesPrefix
  <2> QED
    BY <2>2
<1>2. TypeOK
  <2>1. buf \in [Jobs -> Seq(Byte)]
    OBVIOUS
  <2> QED
    BY <1>1, <2>1 DEF TypeOK
<1>3. JobState /\ OffsetState
  BY DEF JobState, OffsetState, Opened
<1>4. CreatedNew /\ ReadSoFar /\ WriteExact
  BY DEF CreatedNew, ReadSoFar, WriteExact, Opened
<1> QED
  BY <1>2, <1>3, <1>4 DEF IInv

\* The steps that leave the file and the buffers alone.
LEMMA QuietKeeps ==
    ASSUME IInv, NEW j \in Jobs,
           \/ OpenFails(j) \/ ReadEnd(j) \/ WriteEnd(j) \/ RunFails(j) \/ DropFile(j)
           \/ AdjustEnd(j) \/ IntoRawFd(j) \/ FromRawFd(j)
    PROVE  IInv'
<1> USE DEF IInv, TypeOK, job, Return, OpenFails, ReadEnd, WriteEnd, RunFails, DropFile,
            AdjustEnd, IntoRawFd, FromRawFd
<1>1. TypeOK'
  <2>1. /\ UNCHANGED <<file, creator, opts, what, size, offset, buf, done>>
        /\ pc' \in [Jobs -> {"open", "run", "raw", "drop", "done"}]
        /\ fd' \in [Jobs -> {"none", "open", "closed"}]
    OBVIOUS
  <2>2. result' \in [Jobs -> {"none", "ok", "error"}]
    OBVIOUS
  <2>3. TypeOK
    OBVIOUS
  <2> QED
    BY ONLY <2>1, <2>2, <2>3 DEF TypeOK
<1>2. JobState'
  <2>1. CASE OpenFails(j)
    BY <2>1 DEF JobState, Opened
  <2>2. CASE DropFile(j)
    BY <2>2 DEF JobState, Opened
  <2>3. CASE ReadEnd(j) \/ WriteEnd(j) \/ RunFails(j) \/ AdjustEnd(j)
    <3>1. /\ pc[j] = "run" /\ pc' = [pc EXCEPT ![j] = "drop"]
          /\ \E r \in {"ok", "error"} : result' = [result EXCEPT ![j] = r]
          /\ UNCHANGED <<file, what, fd, offset, buf, done>>
      BY <2>3
    <3>2. TypeOK /\ JobState
      OBVIOUS
    <3> QED
      BY ONLY <3>1, <3>2, j \in Jobs DEF TypeOK, JobState, Opened
  <2>4. CASE IntoRawFd(j) \/ FromRawFd(j)
    <3>1. /\ pc[j] \in {"run", "raw"} /\ what[j] = "adjust"
          /\ \E p \in {"run", "raw"} : pc' = [pc EXCEPT ![j] = p]
          /\ UNCHANGED <<file, what, fd, offset, buf, done, result>>
      BY <2>4 DEF JobState
    <3>2. TypeOK /\ JobState
      OBVIOUS
    <3> QED
      BY ONLY <3>1, <3>2, j \in Jobs DEF TypeOK, JobState, Opened
  <2> QED
    BY <2>1, <2>2, <2>3, <2>4
<1>3. OffsetState'
  BY DEF OffsetState, JobState
<1>4. \A i \in Jobs : Opened(i)' = Opened(i)
  BY DEF Opened, JobState
<1>5. KeepsContent' = KeepsContent
  BY <1>4 DEF KeepsContent, OnlyAppended
<1>6. CreatedNew'
  BY <1>4 DEF CreatedNew
<1>7. ReadSoFar'
  BY <1>5 DEF ReadSoFar
<1>8. WriteExact'
  BY <1>4, <1>3 DEF WriteExact, OffsetState
<1> QED
  BY <1>1, <1>2, <1>3, <1>6, <1>7, <1>8

LEMMA OpenKeeps ==
    ASSUME IInv, NEW j \in Jobs, OpenFile(j)
    PROVE  IInv'
<1> USE DEF IInv, TypeOK, job, OpenFile
<1>0. <<>> \in Seq(Byte) /\ Absent # <<>>
  <2>1. <<>> \in Seq(Byte)
    OBVIOUS
  <2> QED
    BY ONLY <2>1, AbsentNoFile
<1>1. TypeOK'
  BY <1>0
<1>2. JobState'
  BY <1>0 DEF JobState, Opened
<1>3. OffsetState'
  BY DEF OffsetState, JobState
<1>4. \A i \in Jobs : Opened(i)' <=> Opened(i) \/ i = j
  BY DEF Opened
<1>5. \A i \in Jobs : Opened(i) => file # Absent
  BY DEF JobState
<1>6. CreatedNew'
  BY <1>4, <1>5 DEF CreatedNew, Excl
<1>7. ReadSoFar'
  <2> SUFFICES ASSUME KeepsContent', NEW i \in Jobs, buf[i] # <<>>
               PROVE  /\ Len(buf[i]) <= Len(file')
                      /\ \A k \in 1..Len(buf[i]) : buf[i][k] = file'[k]
    BY DEF ReadSoFar
  <2>1. Opened(i)
    BY DEF JobState
  <2>2. file' = file
    BY <1>4, <1>5, <2>1 DEF KeepsContent
  <2>3. KeepsContent
    BY <1>4 DEF KeepsContent, OnlyAppended
  <2> QED
    BY <2>2, <2>3 DEF ReadSoFar
<1>8. WriteExact'
  <2> SUFFICES ASSUME NEW i \in Jobs, Opened(i)', what[i] = "write_all", Writes(opts[i]),
                      opts[i].create_new \/ Trunc(opts[i]),
                      \A k \in Jobs \ {i} : Opened(k)' => ~Writes(opts[k]) /\ ~Trunc(opts[k])
               PROVE  /\ file' = Bytes(i, 1, done[i])
                      /\ result[i] = "ok" => done[i] = size[i]
    BY DEF WriteExact
  <2>1. CASE i = j
    <3>1. done[j] = 0 /\ result[j] # "ok"
      BY DEF JobState, Opened
    <3>2. file' = <<>>
      BY <2>1 DEF Excl, Trunc
    <3>3. Bytes(j, 1, 0) = <<>>
      BY DEF Bytes
    <3> QED
      BY <2>1, <3>1, <3>2, <3>3
  <2>2. CASE i # j
    <3>1. Opened(i) /\ file # Absent
      BY <1>4, <1>5, <2>2
    <3>2. ~Trunc(opts[j])
      BY <1>4, <2>2
    <3>3. file' = file
      BY <3>1, <3>2
    <3>4. \A k \in Jobs \ {i} : Opened(k) => ~Writes(opts[k]) /\ ~Trunc(opts[k])
      BY <1>4
    <3> QED
      BY <3>1, <3>3, <3>4 DEF WriteExact
  <2> QED
    BY <2>1, <2>2
<1> QED
  BY <1>1, <1>2, <1>3, <1>6, <1>7, <1>8

LEMMA ReadKeeps ==
    ASSUME IInv, NEW j \in Jobs, Read(j)
    PROVE  IInv'
<1> USE ConstantsType DEF ConstantsType, IInv, TypeOK, job
<1>1. PICK n \in 1..Chunk :
          /\ offset[j] + n <= Len(file)
          /\ buf' = [buf EXCEPT ![j] = @ \o SubSeq(file, offset[j] + 1, offset[j] + n)]
          /\ offset' = [offset EXCEPT ![j] = @ + n]
  BY DEF Read, Filled
<1>2. /\ file \in Seq(Byte) /\ fd[j] = "open" /\ what[j] = "read_to_end"
      /\ offset[j] = Len(buf[j]) /\ offset[j] \in Nat /\ n \in Nat
  BY DEF Read, JobState, OffsetState
<1> DEFINE got == SubSeq(file, offset[j] + 1, offset[j] + n)
<1>3. /\ got \in Seq(Byte) /\ Len(got) = n
      /\ \A k \in 1..n : got[k] = file[offset[j] + k]
  <2>1. offset[j] + 1 \in Nat /\ offset[j] + n \in Nat /\ Len(file) \in Nat
    BY <1>2
  <2> QED
    BY ONLY <1>1, <1>2, <2>1
<1>4. /\ buf'[j] \in Seq(Byte) /\ Len(buf'[j]) = offset[j] + n
      /\ \A k \in 1..offset[j] : buf'[j][k] = buf[j][k]
      /\ \A k \in (offset[j] + 1)..(offset[j] + n) : buf'[j][k] = got[k - offset[j]]
  BY <1>1, <1>2, <1>3
<1> HIDE DEF got
<1>5. UNCHANGED <<file, creator, opts, what, size, pc, fd, done, result>>
  BY DEF Read
<1>6. TypeOK'
  BY <1>1, <1>2, <1>4, <1>5
<1>7. JobState'
  BY <1>1, <1>2, <1>5 DEF JobState, Opened
<1>8. OffsetState'
  BY <1>1, <1>2, <1>4, <1>5 DEF OffsetState
<1>9. CreatedNew' /\ WriteExact' /\ KeepsContent' = KeepsContent
  BY <1>5 DEF CreatedNew, WriteExact, KeepsContent, OnlyAppended, Opened
<1>10. ReadSoFar'
  <2> SUFFICES ASSUME KeepsContent, NEW i \in Jobs, buf'[i] # <<>>
               PROVE  /\ Len(buf'[i]) <= Len(file)
                      /\ \A k \in 1..Len(buf'[i]) : buf'[i][k] = file[k]
    BY <1>5, <1>9 DEF ReadSoFar
  <2>1. CASE i # j
    BY <1>1, <2>1 DEF ReadSoFar
  <2>2. CASE i = j
    <3>1. \A k \in 1..offset[j] : buf[j][k] = file[k]
      <4>1. buf[j] # <<>> => \A k \in 1..Len(buf[j]) : buf[j][k] = file[k]
        BY DEF ReadSoFar
      <4>2. buf[j] = <<>> => offset[j] = 0
        BY <1>2
      <4> QED
        BY ONLY <1>2, <4>1, <4>2
    <3>2. \A k \in (offset[j] + 1)..(offset[j] + n) : got[k - offset[j]] = file[k]
      BY <1>2, <1>3
    <3> QED
      BY <1>1, <1>2, <1>4, <2>2, <3>1, <3>2
  <2> QED
    BY <2>1, <2>2
<1> QED
  BY <1>6, <1>7, <1>8, <1>9, <1>10

LEMMA WriteKeeps ==
    ASSUME IInv, NEW j \in Jobs, Write(j)
    PROVE  IInv'
<1> USE ConstantsType DEF ConstantsType, IInv, TypeOK, job
<1> DEFINE start == IF Appends(opts[j]) THEN Len(file) ELSE offset[j]
<1>1. PICK n \in 1..Remaining(j) :
          /\ file' = Overwritten(file, start, Bytes(j, done[j] + 1, done[j] + n))
          /\ offset' = [offset EXCEPT ![j] = start + n]
          /\ done' = [done EXCEPT ![j] = @ + n]
  BY DEF Write, Advance
<1> DEFINE data == Bytes(j, done[j] + 1, done[j] + n)
<1>2. /\ file \in Seq(Byte) /\ fd[j] = "open" /\ pc[j] = "run" /\ what[j] = "write_all"
      /\ Writes(opts[j]) /\ buf[j] = <<>> /\ result[j] # "ok"
  BY DEF Write, JobState, Opened
<1>3. done[j] \in Nat /\ n \in Nat /\ n >= 1 /\ done[j] + n <= size[j] /\ size[j] <= MaxSize
  BY DEF Remaining
<1>4. /\ data \in Seq(Byte) /\ Len(data) = n
      /\ \A k \in 1..n : data[k] = <<j, done[j] + k>>
  <2>1. j \in {Old} \cup Jobs /\ done[j] \in Nat /\ n \in Nat /\ done[j] + n <= MaxSize
    BY <1>3
  <2> QED
    BY ONLY <2>1, BytesSeq
<1>5. start \in Nat
  BY <1>2
<1> HIDE DEF data, start
<1>6. /\ file' \in Seq(Byte)
      /\ Len(file') = IF start + n > Len(file) THEN start + n ELSE Len(file)
      /\ \A k \in 1..Len(file') : k > start /\ k <= start + n => file'[k] = data[k - start]
      /\ \A k \in 1..Len(file) : ~(k > start /\ k <= start + n) => file'[k] = file[k]
  <2>1. file' = Overwritten(file, start, data)
    BY <1>1 DEF data
  <2> QED
    BY ONLY <1>2, <1>4, <1>5, <2>1, OverwrittenSeq
<1>7. UNCHANGED <<creator, opts, what, size, pc, fd, buf, result>>
  BY DEF Write
<1>8. TypeOK'
  BY <1>1, <1>3, <1>5, <1>6, <1>7
<1>9. file' # Absent
  BY <1>6, AbsentNoFile
<1>10. JobState'
  BY <1>1, <1>2, <1>7, <1>9 DEF JobState, Opened
<1>11. OffsetState'
  <2>1. ~opts[j].append => start = done[j]
    BY <1>2 DEF start, Appends, OffsetState
  <2> QED
    BY <1>1, <1>2, <1>3, <1>5, <1>7, <2>1 DEF OffsetState
<1>12. CreatedNew' /\ KeepsContent' = KeepsContent
  BY <1>7 DEF CreatedNew, KeepsContent, OnlyAppended, Opened
<1>13. ReadSoFar'
  <2> SUFFICES ASSUME KeepsContent, NEW i \in Jobs, buf[i] # <<>>
               PROVE  /\ Len(buf[i]) <= Len(file')
                      /\ \A k \in 1..Len(buf[i]) : buf[i][k] = file'[k]
    BY <1>7, <1>12 DEF ReadSoFar
  <2>1. opts[j].append
    BY <1>2 DEF KeepsContent, OnlyAppended, Opened
  <2>2. start = Len(file)
    BY <2>1 DEF start, Appends
  <2>3. Len(file) <= Len(file') /\ \A k \in 1..Len(file) : file'[k] = file[k]
    <3>1. Len(file) \in Nat /\ n \in Nat /\ n >= 1
      BY <1>2, <1>3
    <3>2. Len(file') = Len(file) + n
      BY ONLY <1>6, <2>2, <3>1
    <3>3. \A k \in 1..Len(file) : ~(k > start /\ k <= start + n)
      BY ONLY <2>2, <3>1
    <3> QED
      BY ONLY <1>6, <3>1, <3>2, <3>3
  <2>4. Len(buf[i]) <= Len(file) /\ \A k \in 1..Len(buf[i]) : buf[i][k] = file[k]
    BY DEF ReadSoFar
  <2>5. buf[i] \in Seq(Byte)
    OBVIOUS
  <2> QED
    <3>1. Len(buf[i]) \in Nat /\ Len(file) \in Nat /\ Len(file') \in Nat
      BY ONLY <1>2, <1>6, <2>5
    <3>2. \A k \in 1..Len(buf[i]) : k \in 1..Len(file)
      BY ONLY <2>4, <3>1
    <3> QED
      BY ONLY <2>3, <2>4, <3>1, <3>2
<1>14. WriteExact'
  <2> SUFFICES ASSUME NEW i \in Jobs, Opened(i), what[i] = "write_all", Writes(opts[i]),
                      opts[i].create_new \/ Trunc(opts[i]),
                      \A k \in Jobs \ {i} : Opened(k) => ~Writes(opts[k]) /\ ~Trunc(opts[k])
               PROVE  /\ file' = Bytes(i, 1, done'[i])
                      /\ result[i] = "ok" => done'[i] = size[i]
    BY <1>7 DEF WriteExact, Opened
  <2>1. i = j
    BY <1>2 DEF Opened
  <2>2. file = Bytes(j, 1, done[j])
    BY <2>1 DEF WriteExact
  <2>3. Len(file) = done[j] /\ \A k \in 1..done[j] : file[k] = <<j, k>>
    <3>1. j \in {Old} \cup Jobs /\ done[j] \in 0..MaxSize
      BY <1>3
    <3> QED
      BY ONLY <2>2, <3>1, BytesPrefix
  <2>4. start = done[j]
    BY <1>2, <2>3 DEF start, Appends, OffsetState
  <2>5. Len(file') = done[j] + n
    BY <1>3, <1>6, <2>3, <2>4
  <2>6. \A k \in 1..(done[j] + n) : file'[k] = <<j, k>>
    <3> SUFFICES ASSUME NEW k \in 1..(done[j] + n)
                 PROVE  file'[k] = <<j, k>>
      OBVIOUS
    <3>1. CASE k <= done[j]
      <4>1. k \in 1..Len(file) /\ k \in 1..done[j] /\ ~(k > start /\ k <= start + n)
        BY <1>3, <2>3, <2>4, <3>1
      <4> QED
        BY ONLY <1>6, <2>3, <4>1
    <3>2. CASE k > done[j]
      <4>1. k - done[j] \in 1..n /\ done[j] + (k - done[j]) = k
        BY <1>3, <3>2
      <4>2. file'[k] = data[k - done[j]]
        BY <1>3, <1>6, <2>4, <2>5, <3>2
      <4> QED
        BY <1>4, <4>1, <4>2
    <3> QED
      BY <1>3, <3>1, <3>2
  <2>7. /\ Bytes(j, 1, done[j] + n) \in Seq(Byte)
        /\ Len(Bytes(j, 1, done[j] + n)) = done[j] + n
        /\ \A k \in 1..(done[j] + n) : Bytes(j, 1, done[j] + n)[k] = <<j, k>>
    <3>1. j \in {Old} \cup Jobs /\ done[j] + n \in 0..MaxSize
      BY <1>3
    <3> QED
      BY ONLY <3>1, BytesPrefix
  <2>8. file' = Bytes(j, 1, done[j] + n)
    BY ONLY <1>6, <2>5, <2>6, <2>7, SeqEqual
  <2> QED
    BY <1>1, <1>2, <2>1, <2>8
<1> QED
  BY <1>8, <1>10, <1>11, <1>12, <1>13, <1>14

LEMMA SeekKeeps ==
    ASSUME IInv, NEW j \in Jobs, NEW to, Seek(j, to)
    PROVE  IInv'
<1> USE DEF IInv, TypeOK, job
<1>1. PICK start \in 0..OffMax : offset' = [offset EXCEPT ![j] = start]
  BY DEF Seek
<1>2. /\ UNCHANGED <<file, creator, opts, what, size, pc, fd, buf, done, result>>
      /\ what[j] = "adjust" /\ fd[j] = "open" /\ start \in Nat
  BY ConstantsType DEF ConstantsType, Seek, JobState
<1>3. TypeOK'
  BY <1>1, <1>2
<1>4. JobState'
  BY <1>1, <1>2 DEF JobState, Opened
<1>5. OffsetState'
  BY <1>1, <1>2 DEF OffsetState
<1>6. CreatedNew' /\ WriteExact' /\ KeepsContent' = KeepsContent
  BY <1>2 DEF CreatedNew, WriteExact, KeepsContent, OnlyAppended, Opened
<1>7. ReadSoFar'
  BY <1>2, <1>6 DEF ReadSoFar
<1> QED
  BY <1>3, <1>4, <1>5, <1>6, <1>7

\* What set_len makes of the file.
LEMMA SetLenSeq ==
    ASSUME IInv, NEW j \in Jobs, NEW n \in 0..U64Max, SetLen(j, n)
    PROVE  /\ n <= OffMax
           /\ file' \in Seq(Byte)
           /\ Len(file') = n
           /\ \A i \in 1..n : i <= Len(file) => file'[i] = file[i]
<1>1. n \in Nat /\ OffMax \in Nat /\ n <= 2 * OffMax + 1
  BY ConstantsType DEF ConstantsType, U64Max
<1>2. AsOff(n) = n /\ n <= OffMax
  <2>1. AsOff(n) >= 0
    BY DEF SetLen
  <2> QED
    BY <1>1, <2>1 DEF AsOff, U64Max
<1>3. file \in Seq(Byte)
  BY DEF SetLen, IInv, TypeOK, JobState, Opened
<1>4. file' = [i \in 1..n |-> IF i <= Len(file) THEN file[i] ELSE <<Absent, 0>>]
  BY <1>2 DEF SetLen
<1>5. \A i \in 1..n : (IF i <= Len(file) THEN file[i] ELSE <<Absent, 0>>) \in Byte
  BY <1>1, <1>3 DEF Byte
<1>6. file' \in [1..n -> Byte]
  BY <1>4, <1>5
<1>7. file' \in Seq(Byte) /\ Len(file') = n
  BY ONLY <1>1, <1>6, FunctionSeq
<1>8. \A i \in 1..n : i <= Len(file) => file'[i] = file[i]
  BY <1>4
<1> QED
  BY <1>2, <1>7, <1>8

LEMMA SetLenKeeps ==
    ASSUME IInv, NEW j \in Jobs, NEW n \in 0..U64Max, SetLen(j, n)
    PROVE  IInv'
<1> USE DEF IInv, TypeOK, job
<1>1. file' \in Seq(Byte) /\ file' # Absent
  BY SetLenSeq, AbsentNoFile
<1>2. /\ UNCHANGED <<creator, opts, what, size, pc, fd, offset, buf, done, result>>
      /\ what[j] = "adjust" /\ Opened(j) /\ Writes(opts[j])
  BY DEF SetLen, JobState, Opened
<1>3. TypeOK'
  BY <1>1, <1>2
<1>4. JobState'
  BY <1>1, <1>2 DEF JobState, Opened
<1>5. OffsetState'
  BY <1>2 DEF OffsetState
<1>6. CreatedNew'
  BY <1>2 DEF CreatedNew, Opened
<1>7. ReadSoFar'
  BY <1>2 DEF ReadSoFar, KeepsContent, OnlyAppended, Opened
<1>8. WriteExact'
  BY <1>2 DEF WriteExact, Opened
<1> QED
  BY <1>3, <1>4, <1>5, <1>6, <1>7, <1>8

-------------------------------------------------------------------------------
\* AppendsKept

\* A step that leaves the file and what was written alone keeps AppendsKept.
LEMMA AppendsUntouched ==
    ASSUME AppendsKept, KeepsContent' => KeepsContent, UNCHANGED <<file, done>>
    PROVE  AppendsKept'
  BY DEF AppendsKept, PlacesOf

\* An append puts the bytes behind all others, and so behind those of its job.
LEMMA AppendKeeps ==
    ASSUME IInv, AppendsKept, KeepsContent, NEW j \in Jobs, Write(j)
    PROVE  AppendsKept'
<1>1. /\ file \in Seq(Byte) /\ file # Absent /\ fd[j] = "open" /\ Writes(opts[j])
      /\ done \in [Jobs -> 0..MaxSize] /\ size[j] \in 0..MaxSize /\ MaxSize \in Nat
  BY ConstantsType DEF ConstantsType, IInv, TypeOK, JobState, Opened, Write
<1>2. Appends(opts[j])
  BY <1>1 DEF KeepsContent, OnlyAppended, Opened, Appends
<1>3. PICK n \in 1..Remaining(j) :
         /\ file' = Overwritten(file, Len(file), Bytes(j, done[j] + 1, done[j] + n))
         /\ done' = [done EXCEPT ![j] = @ + n]
  BY <1>2 DEF Write, Advance
<1> DEFINE data == Bytes(j, done[j] + 1, done[j] + n)
           m == Len(file)
<1>4. /\ done[j] \in Nat /\ n \in Nat /\ n >= 1 /\ done[j] + n \in 0..MaxSize
      /\ done[j] \in 0..MaxSize /\ m \in Nat
  BY <1>1 DEF Remaining
<1>5. /\ data \in Seq(Byte) /\ Len(data) = n
      /\ \A k \in 1..n : data[k] = <<j, done[j] + k>>
  <2>1. j \in {Old} \cup Jobs /\ done[j] + n <= MaxSize
    BY <1>4
  <2> QED
    BY ONLY <1>4, <2>1, BytesSeq
<1>6. /\ file' \in Seq(Byte)
      /\ Len(file') = m + n
      /\ \A k \in 1..m : file'[k] = file[k]
      /\ \A k \in (m + 1)..(m + n) : file'[k] = data[k - m]
  <2>1. file' = Overwritten(file, m, data)
    BY <1>3
  <2>2. m = Len(file) /\ m \in Nat /\ file \in Seq(Byte)
    BY <1>1
  <2> HIDE DEF data, m
  <2>3. /\ file' \in Seq(Byte)
        /\ Len(file') = IF m + n > Len(file) THEN m + n ELSE Len(file)
        /\ \A k \in 1..Len(file') : k > m /\ k <= m + n => file'[k] = data[k - m]
        /\ \A k \in 1..Len(file) : ~(k > m /\ k <= m + n) => file'[k] = file[k]
    <3>1. file \in Seq(Byte) /\ m \in Nat /\ data \in Seq(Byte) /\ Len(data) = n
      BY <1>5, <2>2
    <3> QED
      BY ONLY <2>1, <3>1, OverwrittenSeq
  <2>4. Len(file') = m + n
    BY ONLY <1>4, <2>2, <2>3
  <2> QED
    BY ONLY <1>4, <2>2, <2>3, <2>4
<1> HIDE DEF data, m
<1>7. \A i \in Jobs : PlacesOf(i) \subseteq 1..m
  BY DEF PlacesOf, m
<1>8. \A i \in Jobs : Selects(Bytes(i, 1, done[i]), file', PlacesOf(i))
  <2> SUFFICES ASSUME NEW i \in Jobs
               PROVE  Selects(Bytes(i, 1, done[i]), file', PlacesOf(i))
    OBVIOUS
  <2>1. Selects(Bytes(i, 1, done[i]), file, PlacesOf(i))
    BY <1>1 DEF AppendsKept
  <2>2. \A p \in PlacesOf(i) : file'[p] = file[p]
    BY <1>6, <1>7
  <2> QED
    BY ONLY <2>1, <2>2, SelectsSame
<1>9. ASSUME NEW i \in Jobs, i # j
      PROVE  Selects(Bytes(i, 1, done'[i]), file', PlacesOf(i)')
  <2>1. PlacesOf(i)' = PlacesOf(i)
    <3>1. \A k \in (m + 1)..(m + n) : file'[k][1] = j
      <4>1. \A k \in (m + 1)..(m + n) : k - m \in 1..n
        BY ONLY <1>4
      <4> QED
        BY ONLY <1>5, <1>6, <4>1
    <3>2. ASSUME NEW p \in 1..(m + n)
          PROVE  p \in PlacesOf(i) <=> file'[p][1] = i
      <4>1. CASE p \in 1..m
        BY <1>6, <4>1 DEF PlacesOf, m
      <4>2. CASE p \in (m + 1)..(m + n)
        <5>1. p \notin 1..m
          BY <1>4, <4>2
        <5> QED
          BY <1>7, <1>9, <3>1, <4>2, <5>1
      <4> QED
        BY <1>4, <4>1, <4>2
    <3>3. \A p \in PlacesOf(i) : p \in 1..(m + n)
      BY <1>4, <1>7
    <3> QED
      BY <1>6, <3>2, <3>3 DEF PlacesOf
  <2>2. done'[i] = done[i]
    BY <1>1, <1>3, <1>9
  <2> QED
    BY <1>8, <2>1, <2>2
<1>10. Selects(Bytes(j, 1, done'[j]), file', PlacesOf(j)')
  <2> DEFINE old == Bytes(j, 1, done[j])
  <2>1. /\ old \in Seq(Byte) /\ Len(old) = done[j]
        /\ \A k \in 1..done[j] : old[k] = <<j, k>>
    BY ONLY <1>4, BytesPrefix, j \in Jobs
  <2>2. /\ Bytes(j, 1, done[j] + n) \in Seq(Byte)
        /\ Len(Bytes(j, 1, done[j] + n)) = done[j] + n
        /\ \A k \in 1..(done[j] + n) : Bytes(j, 1, done[j] + n)[k] = <<j, k>>
    BY ONLY <1>4, BytesPrefix, j \in Jobs
  <2> HIDE DEF old
  <2>3. Bytes(j, 1, done[j] + n) = old \o data
    <3>1. /\ old \o data \in Seq(Byte) /\ Len(old \o data) = Len(old) + Len(data)
          /\ \A k \in 1..(Len(old) + Len(data)) :
                (old \o data)[k] = IF k <= Len(old) THEN old[k] ELSE data[k - Len(old)]
      BY ONLY <1>5, <2>1, ConcatProperties
    <3>2. ASSUME NEW k \in 1..(done[j] + n)
          PROVE  (old \o data)[k] = <<j, k>>
      <4>1. CASE k <= done[j]
        BY ONLY <1>4, <1>5, <2>1, <3>1, <4>1, k \in 1..(done[j] + n)
      <4>2. CASE ~(k <= done[j])
        <5>1. k - done[j] \in 1..n /\ done[j] + (k - done[j]) = k
          BY ONLY <1>4, <4>2, k \in 1..(done[j] + n)
        <5>2. (old \o data)[k] = data[k - done[j]]
          BY ONLY <1>5, <2>1, <3>1, <4>2, k \in 1..(done[j] + n)
        <5> QED
          BY ONLY <1>5, <5>1, <5>2
      <4> QED
        BY ONLY <4>1, <4>2
    <3>3. Len(old \o data) = done[j] + n
      BY ONLY <1>5, <2>1, <3>1
    <3> QED
      BY ONLY <2>2, <3>1, <3>2, <3>3, SeqEqual
  <2>4. PlacesOf(j)' = PlacesOf(j) \cup (m + 1)..(m + n)
    <3>1. \A k \in (m + 1)..(m + n) : file'[k][1] = j
      <4>1. \A k \in (m + 1)..(m + n) : k - m \in 1..n
        BY ONLY <1>4
      <4> QED
        BY ONLY <1>5, <1>6, <4>1
    <3>2. \A k \in 1..m : file'[k][1] = j <=> k \in PlacesOf(j)
      BY <1>6 DEF PlacesOf, m
    <3>3. 1..(m + n) = (1..m) \cup (m + 1)..(m + n)
      BY ONLY <1>4
    <3> QED
      BY <1>6, <1>7, <3>1, <3>2, <3>3 DEF PlacesOf
  <2>5. \A k \in 1..Len(data) : file'[m + k] = data[k]
    <3>1. \A k \in 1..n : m + k \in (m + 1)..(m + n) /\ (m + k) - m = k
      BY ONLY <1>4
    <3> QED
      BY ONLY <1>5, <1>6, <3>1
  <2>6. Selects(old \o data, file', PlacesOf(j) \cup (m + 1)..(m + n))
    <3>1. Selects(old, file', PlacesOf(j)) /\ PlacesOf(j) \in SUBSET (1..m)
      BY <1>7, <1>8 DEF old
    <3> QED
      BY ONLY <1>4, <1>5, <2>1, <2>5, <3>1, SelectsMore
  <2>7. done'[j] = done[j] + n
    BY <1>1, <1>3
  <2> QED
    BY ONLY <2>3, <2>4, <2>6, <2>7
<1>11. file' # Absent
  BY <1>6, AbsentNoFile
<1> QED
  BY <1>9, <1>10, <1>11 DEF AppendsKept

LEMMA AppendsStep == IInv /\ AppendsKept /\ [Next]_vars => AppendsKept'
<1> SUFFICES ASSUME IInv, AppendsKept, [Next]_vars
             PROVE  AppendsKept'
  OBVIOUS
<1>1. CASE UNCHANGED vars
  BY <1>1 DEF vars, job, AppendsKept, KeepsContent, OnlyAppended, Opened, PlacesOf
<1>2. ASSUME NEW j \in Jobs,
             \/ OpenFails(j) \/ Read(j) \/ ReadEnd(j) \/ WriteEnd(j) \/ RunFails(j)
             \/ DropFile(j) \/ AdjustEnd(j) \/ IntoRawFd(j) \/ FromRawFd(j)
             \/ \E to \in SeekFrom : Seek(j, to)
      PROVE  AppendsKept'
  <2>1. UNCHANGED <<file, done, opts, what>>
    BY <1>2 DEF OpenFails, Read, ReadEnd, WriteEnd, RunFails, DropFile, AdjustEnd, IntoRawFd,
                FromRawFd, Seek, job
  <2>2. \A i \in Jobs : Opened(i) => Opened(i)'
    BY <1>2 DEF OpenFails, Read, ReadEnd, WriteEnd, RunFails, DropFile, AdjustEnd, IntoRawFd,
                FromRawFd, Seek, Opened, IInv, TypeOK
  <2>3. KeepsContent' => KeepsContent
    BY <2>1, <2>2 DEF KeepsContent, OnlyAppended
  <2> QED
    BY <2>1, <2>3, AppendsUntouched
<1>3. ASSUME NEW j \in Jobs, OpenFile(j)
      PROVE  AppendsKept'
  <2> SUFFICES ASSUME KeepsContent'
               PROVE  AppendsKept'
    BY DEF AppendsKept
  <2>1. UNCHANGED <<done, opts, what>> /\ Opened(j)' /\ \A i \in Jobs : Opened(i) => Opened(i)'
    BY <1>3 DEF OpenFile, job, Opened, IInv, TypeOK
  <2>2. KeepsContent /\ ~Trunc(opts[j])
    BY <2>1 DEF KeepsContent, OnlyAppended
  <2>3. CASE file # Absent
    <3>1. file' = file
      BY <1>3, <2>2, <2>3 DEF OpenFile
    <3> QED
      BY <2>1, <2>2, <3>1, AppendsUntouched
  <2>4. CASE file = Absent
    <3>1. file' = <<>> /\ \A i \in Jobs : done'[i] = 0
      BY <1>3, <2>1, <2>4 DEF OpenFile, IInv, JobState
    <3>2. \A i \in Jobs : PlacesOf(i)' = {}
      BY <3>1 DEF PlacesOf
    <3>3. \A i \in Jobs : Bytes(i, 1, 0) = <<>>
      BY DEF Bytes
    <3>4. <<>> # Absent
      <4>1. <<>> \in Seq(Byte)
        OBVIOUS
      <4> QED
        BY ONLY <4>1, AbsentNoFile
    <3> QED
      BY <3>1, <3>2, <3>3, <3>4, SelectsNone DEF AppendsKept
  <2> QED
    BY <2>3, <2>4
<1>4. ASSUME NEW j \in Jobs, Write(j)
      PROVE  AppendsKept'
  <2>1. KeepsContent' = KeepsContent
    BY <1>4 DEF Write, job, KeepsContent, OnlyAppended, Opened
  <2>2. CASE KeepsContent
    BY <1>4, <2>2, AppendKeeps
  <2>3. CASE ~KeepsContent
    BY <2>1, <2>3 DEF AppendsKept
  <2> QED
    BY <2>2, <2>3
<1>5. ASSUME NEW j \in Jobs, NEW n \in 0..U64Max, SetLen(j, n)
      PROVE  AppendsKept'
  <2>1. ~KeepsContent'
    BY <1>5 DEF SetLen, job, KeepsContent, OnlyAppended, Opened, IInv, JobState
  <2> QED
    BY <2>1 DEF AppendsKept
<1> QED
  BY <1>1, <1>2, <1>3, <1>4, <1>5 DEF Next, JobStep

-------------------------------------------------------------------------------
\* The invariant holds in every reachable state (fs.rs:84-111, 229-274).
THEOREM Invariant == Spec => []IInv
<1>1. IInv /\ [Next]_vars => IInv'
  <2> SUFFICES ASSUME IInv, [Next]_vars
               PROVE  IInv'
    OBVIOUS
  <2>1. CASE UNCHANGED vars
    BY <2>1 DEF vars, job, IInv, TypeOK, JobState, OffsetState, CreatedNew, ReadSoFar,
                WriteExact, KeepsContent, OnlyAppended, Opened
  <2>2. CASE Next
    BY <2>2, QuietKeeps, OpenKeeps, ReadKeeps, WriteKeeps, SeekKeeps, SetLenKeeps DEF Next, JobStep
  <2> QED
    BY <2>1, <2>2
<1> QED
  BY InitInvariant, <1>1, PTL DEF Spec

\* Every variable keeps its type.
THEOREM TypeCorrect == Spec => []TypeOK
<1>1. IInv => TypeOK
  BY DEF IInv
<1> QED
  BY Invariant, <1>1, PTL

\* Whatever the other jobs do, a job that opened a file with create_new made it
\* (fs.rs:257-267).
THEOREM CreatedNewHolds == Spec => []CreatedNew
<1>1. IInv => CreatedNew
  BY DEF IInv
<1> QED
  BY Invariant, <1>1, PTL

\* Any number of jobs that only append keep what each of them wrote, in order and
\* complete, whatever the sizes of the writes and their interleaving
\* (fs.rs:84-95, 254-256).
THEOREM AppendsKeptHolds == Spec => []AppendsKept
<1>1. ASSUME Init
      PROVE  AppendsKept
  <2> SUFFICES ASSUME NEW j \in Jobs, file # Absent
               PROVE  Selects(Bytes(j, 1, done[j]), file, PlacesOf(j))
    BY <1>1 DEF Init, AppendsKept
  <2>1. PICK n \in 0..MaxSize : file = Bytes(Old, 1, n)
    BY <1>1 DEF Init
  <2>2. \A p \in 1..Len(file) : file[p][1] = Old
    <3>1. Len(Bytes(Old, 1, n)) = n /\ \A i \in 1..n : Bytes(Old, 1, n)[i] = <<Old, i>>
      BY ONLY BytesPrefix, n \in 0..MaxSize, Old \in {Old} \cup Jobs
    <3> QED
      BY ONLY <2>1, <3>1
  <2>3. PlacesOf(j) = {}
    BY <2>2, ConstantsType DEF ConstantsType, PlacesOf
  <2>4. Bytes(j, 1, done[j]) = <<>>
    BY <1>1 DEF Init, Bytes
  <2> QED
    BY <2>3, <2>4, SelectsNone
<1> QED
  BY Invariant, <1>1, AppendsStep, PTL DEF Spec

\* For any sizes, chunk and number of jobs, read_to_end has a prefix of the file
\* as long as others only append (fs.rs:100-111).
THEOREM ReadsPrefixHolds == Spec => []ReadsPrefix
<1>1. ASSUME IInv
      PROVE  ReadsPrefix
  <2> SUFFICES ASSUME KeepsContent, NEW j \in Jobs, buf[j] # <<>>
               PROVE  IsPrefix(buf[j], file)
    BY DEF ReadsPrefix
  <2>1. /\ buf[j] \in Seq(Byte) /\ file \in Seq(Byte)
        /\ Len(buf[j]) <= Len(file) /\ \A i \in 1..Len(buf[j]) : buf[j][i] = file[i]
    BY <1>1 DEF IInv, TypeOK, JobState, ReadSoFar
  <2>2. SubSeq(buf[j], 1, Len(buf[j])) = SubSeq(file, 1, Len(buf[j]))
    BY <2>1
  <2> QED
    BY <2>1, <2>2 DEF IsPrefix
<1> QED
  BY Invariant, <1>1, PTL

\* A single job that creates or empties the file and writes it decides what is in
\* it, whatever the sizes of the writes (fs.rs:84-95, 416-420).
THEOREM WriteExactHolds == Spec => []WriteExact
<1>1. IInv => WriteExact
  BY DEF IInv
<1> QED
  BY Invariant, <1>1, PTL

\* Whatever is sought or set, for any width of off_t: an u64 that is no off_t is
\* refused, and what succeeds is what was asked for (fs.rs:114-142).
THEOREM OffsetsExactHolds == Spec => OffsetsExact
<1> DEFINE Exact == \A j \in Jobs :
              /\ \A to \in SeekFrom : Seek(j, to) => offset'[j] = Base(j, to.whence) + to.off
              /\ \A n \in 0..U64Max : SetLen(j, n) =>
                    /\ Len(file') = n
                    /\ \A i \in 1..n : i <= Len(file) => file'[i] = file[i]
<1>1. ASSUME IInv, NEW j \in Jobs, NEW to \in SeekFrom, Seek(j, to)
      PROVE  offset'[j] = Base(j, to.whence) + to.off
  <2>1. OffMax \in Nat /\ offset \in [Jobs -> Nat]
    BY <1>1, ConstantsType DEF ConstantsType, IInv, TypeOK
  <2>2. Len(file) \in Nat
    BY <1>1 DEF Seek, IInv, TypeOK, JobState, Opened
  <2>3. Base(j, to.whence) + AsOff(to.off) \in 0..OffMax
        /\ offset'[j] = Base(j, to.whence) + AsOff(to.off)
    BY <1>1, <2>1 DEF Seek
  <2>4. CASE to.whence = "Start"
    <3>1. to.off \in 0..U64Max /\ Base(j, to.whence) = 0
      BY <1>1, <2>4 DEF SeekFrom, Base
    <3> QED
      BY <2>1, <2>3, <3>1 DEF AsOff, U64Max
  <2>5. CASE to.whence # "Start"
    <3>1. to.off \in -(OffMax + 1)..OffMax
      BY <1>1, <2>5 DEF SeekFrom
    <3>2. AsOff(to.off) = to.off
      BY <2>1, <3>1 DEF AsOff
    <3> QED
      BY <2>3, <3>2
  <2> QED
    BY <2>4, <2>5
<1>2. IInv => Exact
  BY <1>1, SetLenSeq
<1>3. IInv => [Exact]_vars
  BY <1>2
<1> HIDE DEF Exact
<1>4. Spec => [][Exact]_vars
  BY <1>3, Invariant, PTL
<1> QED
  BY <1>4 DEF Exact, OffsetsExact
-------------------------------------------------------------------------------
(***************************************************************************)
(* read_dir and the iterator ReadDir: the theorems of module ReadDir, for  *)
(* any names, any size of directories and any values of errno that its     *)
(* assumption allows.                                                      *)
(***************************************************************************)

\* A directory is a sequence of at most MaxLen entries.
LEMMA DirLength ==
    ASSUME NEW d \in Dirs
    PROVE  Len(d) \in 0..MaxLen /\ d \in [1..Len(d) -> Names \cup {".", ".."}]
<1>1. PICK n \in 0..MaxLen : d \in [1..n -> Names \cup {".", ".."}]
  BY DEF Dirs
<1>2. n \in Nat /\ d \in Seq(Names \cup {".", ".."})
  BY <1>1, DirConstants DEF DirConstants
<1>3. Len(d) = n
  BY <1>1, <1>2
<1> QED
  BY <1>1, <1>3

LEMMA DirInitInvariant ==
    ASSUME DirInit
    PROVE  DirIInv
<1>1. yielded \in Seq(Names)
  BY DEF DirInit
<1>2. dir \in Dirs /\ pos \in 0..MaxLen /\ errno \in Errnos \cup {0}
  BY DirConstants DEF DirConstants, DirInit
<1>3. at = "user" /\ failed \in BOOLEAN /\ returned = "nothing"
  BY DEF DirInit
<1>4. EntriesInOrder
  <2>1. {p \in 1..pos : dir[p] \notin {".", ".."}} = {} /\ yielded = <<>>
    BY DEF DirInit
  <2>2. Selects(<<>>, dir, {})
    BY SelectsNone
  <2> QED
    BY <2>1, <2>2 DEF EntriesInOrder
<1> QED
  BY <1>1, <1>2, <1>3, <1>4 DEF DirIInv, DirTypeOK, AtNull

\* One entry more, yielded or skipped.
LEMMA EntryKeeps ==
    ASSUME DirIInv, Entry
    PROVE  DirIInv'
<1>1. /\ dir \in Dirs /\ pos \in 0..MaxLen /\ yielded \in Seq(Names) /\ MaxLen \in Nat
      /\ pos < Len(dir) /\ pos' = pos + 1 /\ dir' = dir /\ at = "loop"
  BY DirConstants DEF DirConstants, DirIInv, DirTypeOK, Entry
<1>2. pos + 1 \in 0..MaxLen /\ dir[pos + 1] \in Names \cup {".", ".."}
  BY <1>1, DirLength
<1> DEFINE Kept(n) == {p \in 1..n : dir[p] \notin {".", ".."}}
<1>3. Selects(yielded, dir, Kept(pos))
  BY DEF DirIInv, EntriesInOrder
<1>4. CASE dir[pos + 1] \in Skipped
  <2>1. yielded' = yielded /\ at' = at /\ returned' = returned
    BY <1>4, <1>1 DEF Entry
  <2>2. Kept(pos + 1) = Kept(pos)
    BY <1>1, <1>4 DEF Skipped
  <2>3. EntriesInOrder'
    BY <1>1, <1>3, <2>1, <2>2 DEF EntriesInOrder
  <2> QED
    BY <1>1, <1>2, <2>1, <2>3 DEF Entry, Cleared, DirIInv, DirTypeOK, AtNull
<1>5. CASE dir[pos + 1] \notin Skipped
  <2> DEFINE name == dir[pos + 1]
  <2>1. yielded' = Append(yielded, name) /\ returned' = "entry" /\ at' = "user" /\ name \in Names
    BY <1>2, <1>5 DEF Entry, Skipped
  <2>2. yielded' \in Seq(Names)
    BY <1>1, <2>1
  <2>3. Selects(yielded', dir, Kept(pos + 1))
    <3>1. /\ Kept(pos) \in SUBSET (1..pos) /\ pos \in Nat
          /\ <<name>> \in Seq(Names) /\ Len(<<name>>) = 1 /\ dir[pos + 1] = <<name>>[1]
      BY <1>1, <2>1
    <3>2. Selects(yielded \o <<name>>, dir, Kept(pos) \cup (pos + 1)..(pos + 1))
      <4> HIDE DEF name, Kept
      <4>1. \A i \in 1..Len(<<name>>) : dir[pos + i] = <<name>>[i]
        BY ONLY <3>1
      <4> QED
        BY ONLY <1>1, <1>3, <3>1, <4>1, SelectsMore
    <3>3. Kept(pos + 1) = Kept(pos) \cup (pos + 1)..(pos + 1)
      BY <1>1, <1>5 DEF Skipped
    <3>4. yielded' = yielded \o <<name>>
      BY <1>1, <2>1
    <3> QED
      BY ONLY <3>2, <3>3, <3>4
  <2>4. EntriesInOrder'
    BY <1>1, <2>3 DEF EntriesInOrder
  <2> QED
    BY <1>1, <1>2, <2>1, <2>2, <2>4 DEF Entry, Cleared, DirIInv, DirTypeOK, AtNull
<1> QED
  BY <1>4, <1>5

LEMMA DirStepInvariant ==
    ASSUME DirIInv, [DirNext]_dirVars
    PROVE  DirIInv'
<1> USE DEF DirIInv, DirTypeOK, AtNull
<1>1. CASE Entry
  BY <1>1, EntryKeeps
<1>2. CASE UNCHANGED dirVars
  BY <1>2 DEF dirVars, EntriesInOrder
<1>3. CASE OtherCall \/ DropReadDir \/ CallNext
  BY <1>3 DEF OtherCall, DropReadDir, CallNext, EntriesInOrder
<1>4. CASE End \/ ReadFails \/ Null
  <2>1. UNCHANGED <<dir, pos, yielded>>
    BY <1>4 DEF End, ReadFails, Null
  <2>2. EntriesInOrder'
    BY <2>1 DEF EntriesInOrder
  <2>3. DirTypeOK'
    BY <1>4, <2>1 DEF End, ReadFails, Null, NullMeans, Cleared
  <2>4. AtNull'
    BY <1>4, <2>1, DirConstants DEF DirConstants, End, ReadFails, Null, Cleared
  <2> QED
    BY <2>2, <2>3, <2>4
<1> QED
  BY <1>1, <1>2, <1>3, <1>4 DEF DirNext, NextStep

\* The invariant holds in every reachable state of the iterator.
THEOREM DirInvariant == DirSpec => []DirIInv
<1>1. DirInit => DirIInv
  BY DirInitInvariant
<1>2. DirIInv /\ [DirNext]_dirVars => DirIInv'
  BY DirStepInvariant
<1> QED
  BY <1>1, <1>2, PTL DEF DirSpec

\* Every variable of the iterator keeps its type.
THEOREM DirTypeCorrect == DirSpec => []DirTypeOK
<1>1. DirIInv => DirTypeOK
  BY DEF DirIInv
<1> QED
  BY DirInvariant, <1>1, PTL

\* For a directory of any length, and whatever fails or sets errno in between, the
\* iterator has yielded all entries it went past but . and .., in order
\* (fs.rs:333, 364-368).
THEOREM EntriesInOrderHolds == DirSpec => []EntriesInOrder
<1>1. DirIInv => EntriesInOrder
  BY DEF DirIInv
<1> QED
  BY DirInvariant, <1>1, PTL

\* For a directory of any length and any values of errno the iterator ends only at
\* the end of the directory and reports an error only if readdir failed
\* (fs.rs:343-360).
THEOREM NullExplainedHolds == DirSpec => NullExplained
<1>1. DirIInv /\ [DirNext]_dirVars =>
        [at = "null" /\ at' = "user" =>
            IF failed THEN returned' = "error"
                      ELSE returned' = "None" /\ pos = Len(dir)]_dirVars
  BY DEF DirIInv, AtNull, DirNext, NextStep, OtherCall, DropReadDir,
         CallNext, Entry, End, ReadFails, Null, NullMeans
<1> QED
  BY DirInvariant, <1>1, PTL DEF DirSpec, NullExplained
===============================================================================
