---------------------------- MODULE SocketProofs ----------------------------
(***************************************************************************)
(* The safety of a socket shared by threads, for any threads, buffers,     *)
(* hosts, arrivals and limits.                                             *)
(***************************************************************************)
EXTENDS Socket, SelectionProofs, SequenceTheorems, TLAPS

-------------------------------------------------------------------------------
\* Which steps touch which part of the state

\* Only send and the return of write_all change what was written.
LEMMA OutputFrame ==
    ASSUME [Next]_vars
    PROVE  \/ \E t \in Threads : Send(t) \/ WriteAllReturns(t)
           \/ UNCHANGED <<sent, result, wire>>
<1> USE DEF output
<1>1. CASE UNCHANGED vars
  BY <1>1 DEF vars
<1>2. CASE Constructor
  BY <1>2 DEF Constructor, LookupStep, PickAddress, RequireV4, CallSucceeds, CallFails, ReadErrno, DropHalfBuilt
<1>3. CASE Owner
  BY <1>3 DEF Owner, IntoRawFd, FromRawFd, DropSocket
<1>4. CASE Network
  BY <1>4 DEF Network, Arrive, PeerEnds, PeerReads
<1>5. ASSUME NEW t \in Threads, Proceeds(t)
      PROVE  Send(t) \/ WriteAllReturns(t) \/ UNCHANGED <<sent, result, wire>>
  BY <1>5 DEF Proceeds, Receive, ReceiveEof, ReceiveReset
<1>6. ASSUME NEW t \in Threads, OtherCall(t)
      PROVE  UNCHANGED <<sent, result, wire>>
  BY <1>6 DEF OtherCall, Call, GetFlags, SetFlags, FcntlFails, RawFcntl, ReceiveFails, Shutdown, Connect, Post
<1> QED
  BY <1>1, <1>2, <1>3, <1>4, <1>5, <1>6 DEF Next

\* Only receiving and arriving change what was received.
LEMMA InputFrame ==
    ASSUME [Next]_vars
    PROVE  \/ \E t \in Threads : Receive(t) \/ ReceiveEof(t)
           \/ Arrive
           \/ UNCHANGED input
<1>1. CASE UNCHANGED vars
  BY <1>1 DEF vars
<1>2. CASE Constructor
  BY <1>2 DEF Constructor, LookupStep, PickAddress, RequireV4, CallSucceeds, CallFails, ReadErrno, DropHalfBuilt
<1>3. CASE Owner
  BY <1>3 DEF Owner, IntoRawFd, FromRawFd, DropSocket
<1>4. CASE Network
  BY <1>4 DEF Network, PeerEnds, PeerReads
<1>5. ASSUME NEW t \in Threads, Proceeds(t)
      PROVE  Receive(t) \/ ReceiveEof(t) \/ UNCHANGED input
  BY <1>5 DEF Proceeds, Send, WriteAllReturns, ReceiveReset
<1>6. ASSUME NEW t \in Threads, OtherCall(t)
      PROVE  UNCHANGED input
  BY <1>6 DEF OtherCall, Call, GetFlags, SetFlags, FcntlFails, RawFcntl, ReceiveFails, Shutdown, Connect, Post
<1> QED
  BY <1>1, <1>2, <1>3, <1>4, <1>5, <1>6 DEF Next

\* Only connect, shutdown and the peer change the connection.
LEMMA LinkFrame ==
    ASSUME [Next]_vars
    PROVE  \/ \E t \in Threads : Connect(t) \/ Shutdown(t)
           \/ CallSucceeds
           \/ PeerEnds
           \/ UNCHANGED <<shut, peer, dest>>
<1> USE DEF link
<1>1. CASE UNCHANGED vars
  BY <1>1 DEF vars
<1>2. CASE Constructor
  BY <1>2 DEF Constructor, LookupStep, PickAddress, RequireV4, CallFails, ReadErrno, DropHalfBuilt
<1>3. CASE Owner
  BY <1>3 DEF Owner, IntoRawFd, FromRawFd, DropSocket
<1>4. CASE Network
  BY <1>4 DEF Network, Arrive, PeerReads
<1>5. ASSUME NEW t \in Threads, Proceeds(t)
      PROVE  UNCHANGED <<shut, peer, dest>>
  BY <1>5 DEF Proceeds, Send, WriteAllReturns, Receive, ReceiveEof, ReceiveReset
<1>6. ASSUME NEW t \in Threads, OtherCall(t)
      PROVE  Connect(t) \/ Shutdown(t) \/ UNCHANGED <<shut, peer, dest>>
  BY <1>6 DEF OtherCall, Call, GetFlags, SetFlags, FcntlFails, RawFcntl, ReceiveFails, Post
<1> QED
  BY <1>1, <1>2, <1>3, <1>4, <1>5, <1>6 DEF Next

\* A step of the constructor or of the owner leaves the threads alone.
LEMMA ConstructorFrame ==
    ASSUME Constructor \/ Owner
    PROVE  UNCHANGED <<program, task, modes, output, input>>
  BY DEF Constructor, Owner, LookupStep, PickAddress, RequireV4, CallSucceeds, CallFails, ReadErrno, DropHalfBuilt,
         IntoRawFd, FromRawFd, DropSocket

\* Any other step leaves constructor and resolver alone.
LEMMA ThreadFrame ==
    ASSUME Network \/ \E t \in Threads : Proceeds(t) \/ OtherCall(t)
    PROVE  UNCHANGED <<program, constructor, resolver>>
<1>1. CASE Network
  BY <1>1 DEF Network, Arrive, PeerEnds, PeerReads
<1>2. ASSUME NEW t \in Threads, Proceeds(t)
      PROVE  UNCHANGED <<program, constructor, resolver>>
  BY <1>2 DEF Proceeds, Send, WriteAllReturns, Receive, ReceiveEof, ReceiveReset
<1>3. ASSUME NEW t \in Threads, OtherCall(t)
      PROVE  UNCHANGED <<program, constructor, resolver>>
  BY <1>3 DEF OtherCall, Call, GetFlags, SetFlags, FcntlFails, RawFcntl, ReceiveFails, Shutdown, Connect, Post
<1> QED
  BY <1>1, <1>2, <1>3

\* The kind and the program of the threads never change.
LEMMA ProgramFrame == [Next]_vars => UNCHANGED program
  BY ConstructorFrame, ThreadFrame DEF Next, vars

-------------------------------------------------------------------------------
\* Types

LEMMA InitInvariant == Init => IInv
<1> SUFFICES ASSUME Init
             PROVE  IInv
  OBVIOUS
<1> USE ConstantsType DEF ConstantsType, Init
<1>1. Host!Init
  OBVIOUS
<1>2. TypeOK
  <2>1. calls \in Programs /\ kind \in Kinds /\ addr \in Hosts \cup Foreign \cup {Nobody}
    OBVIOUS
  <2>2. stage \in Stages
    BY DEF Stages, Steps
  <2>3. list \in Seq(NodeType) /\ out \in Seq(Hosts) /\ cur \in Nat \ {0} /\ lookup = "call"
    BY <1>1 DEF Host!Init
  <2>4. wire \in Seq(Threads \X Nat) /\ incoming \in Seq(Hosts)
    OBVIOUS
  <2>5. raced \in [Threads -> BOOLEAN] /\ asked \in [Threads -> BOOLEAN]
    OBVIOUS
  <2>6. seen \in [Threads -> SUBSET Flags] /\ flags \in SUBSET Flags
    OBVIOUS
  <2>7. got \in [Threads -> SUBSET Nat]
    OBVIOUS
  <2>8. dest \in Hosts \cup {Nobody} /\ posted \in SUBSET Hosts
    OBVIOUS
  <2> QED
    BY <2>1, <2>2, <2>3, <2>4, <2>5, <2>6, <2>7, <2>8 DEF TypeOK
<1>3. ConstructorState
  BY DEF ConstructorState, SystemCalls
<1>4. CallState
  BY DEF CallState
<1>5. FlagsSeen
  BY DEF FlagsSeen
<1>6. SentInOrder
  BY DEF SentInOrder
<1>7. EndState
  BY DEF EndState
<1>8. ReceivedOnce
  <2>1. UNION {got[t] : t \in Threads} = {} /\ 1..taken = {}
    OBVIOUS
  <2> QED
    BY <2>1 DEF ReceivedOnce
<1>9. LookupState /\ LookupExact
  BY <1>1 DEF Host!Init, LookupState, LookupExact
<1> QED
  BY <1>2, <1>3, <1>4, <1>5, <1>6, <1>7, <1>8, <1>9 DEF IInv

\* What the walk over a list of addresses yields are IPv4 addresses.
LEMMA LookupType ==
    ASSUME TypeOK, Host!Next
    PROVE  /\ lookup' \in {"call", "walk", "free", "ok", "err"}
           /\ list' \in Seq(NodeType)
           /\ cur' \in Nat \ {0}
           /\ out' \in Seq(Hosts)
<1>1. list \in Seq(NodeType) /\ cur \in Nat \ {0} /\ out \in Seq(Hosts)
  BY DEF TypeOK
<1>2. lookup \in {"call", "walk", "free", "ok", "err"}
  BY DEF TypeOK
<1>3. CASE Host!Resolve
  BY <1>1, <1>3, ConstantsType DEF Host!Resolve, ConstantsType
<1>4. CASE Host!Visit
  <2>1. list[cur] \in NodeType
    BY <1>1, <1>4 DEF Host!Visit
  <2>2. Host!Usable(list[cur]) => list[cur].ai_addr \in Hosts
    BY <2>1 DEF NodeType, Host!Usable
  <2>3. out' \in Seq(Hosts)
    BY <1>1, <1>4, <2>2 DEF Host!Visit
  <2> QED
    BY <1>1, <1>2, <1>4, <2>3 DEF Host!Visit
<1>5. CASE Host!Fail \/ Host!EndWalk
  BY <1>1, <1>2, <1>5 DEF Host!Fail, Host!EndWalk
<1>6. CASE Host!Free
  BY <1>1, <1>2, <1>6 DEF Host!Free
<1> QED
  BY <1>3, <1>4, <1>5, <1>6 DEF Host!Next

\* A step of the constructor or of the owner keeps the types and ConstructorState.
LEMMA ConstructorStep ==
    ASSUME TypeOK, ConstructorState, Constructor \/ Owner
    PROVE  TypeOK' /\ ConstructorState'
<1> USE ConstantsType DEF ConstantsType
<1>0. UNCHANGED <<program, task, modes, output, input>>
  BY ConstructorFrame
<1>1. UNCHANGED <<kind, calls, task, asked, seen, raced, flags, sent, result, wire, acked,
                  incoming, taken, got, eof>>
  BY <1>0 DEF program, modes, output, input
<1> DEFINE Resolver == /\ lookup \in {"call", "walk", "free", "ok", "err"}
                       /\ list \in Seq(NodeType)
                       /\ cur \in Nat \ {0}
                       /\ out \in Seq(Hosts)
           Cons == /\ addr \in Hosts \cup Foreign \cup {Nobody}
                   /\ stage \in Stages
                   /\ errno \in Steps \cup {"none", "close"}
                   /\ cause \in Steps \cup {"none"}
                   /\ failure \in Steps \cup {"none", "close"}
                   /\ dest \in Hosts \cup {Nobody}
           Rest == /\ shut \in SUBSET {"Read", "Write", "Both"}
                   /\ peer \in {"open", "finished", "reset"}
                   /\ posted \in SUBSET Hosts
<1>2. Resolver /\ Cons /\ Rest
  BY DEF TypeOK
<1>3. Rest'
  <2>1. UNCHANGED <<shut, peer, posted>>
    BY DEF Constructor, Owner, LookupStep, PickAddress, RequireV4, CallSucceeds, CallFails, ReadErrno, DropHalfBuilt,
           IntoRawFd, FromRawFd, DropSocket, link
  <2> QED
    BY <1>2, <2>1
<1>4. Resolver' /\ Cons' /\ ConstructorState'
  <2>1. CASE LookupStep
    <3>1. Resolver'
      BY <2>1, LookupType DEF LookupStep
    <3>2. UNCHANGED <<addr, stage, errno, cause, failure, dest>>
      BY <2>1 DEF LookupStep, constructor, link
    <3> QED
      BY <1>1, <1>2, <3>1, <3>2 DEF ConstructorState
  <2>2. CASE PickAddress
    <3>1. addr' \in Hosts \cup Foreign
      BY <1>2, <2>2 DEF PickAddress
    <3>2. addr' # Nobody
      BY <3>1
    <3>3. stage = "lookup" /\ stage' = "address" /\ UNCHANGED <<errno, cause, failure, lookup, list, dest>>
      BY <2>2 DEF PickAddress, link
    <3>4. out' \in Seq(Hosts) /\ cur' \in Nat \ {0}
      BY <2>2 DEF PickAddress
    <3>5. Resolver' /\ Cons'
      BY <1>2, <3>1, <3>3, <3>4 DEF Stages, Steps
    <3> QED
      BY <1>1, <3>2, <3>3, <3>5 DEF ConstructorState, SystemCalls, Steps
  <2>3. CASE RequireV4
    <3>1. stage = "address" /\ UNCHANGED <<addr, errno, lookup, list, cur, out, dest>>
      BY <2>3 DEF RequireV4, resolver, link
    <3>2. addr \in Foreign => stage' = "failed" /\ cause' = "address" /\ failure' = "address"
      BY <2>3 DEF RequireV4
    <3>3. addr \notin Foreign => addr' \in Hosts /\ stage' = "socket" /\ UNCHANGED <<cause, failure>>
      BY <1>2, <2>3, <3>1 DEF RequireV4, ConstructorState
    <3>4. incoming' = <<>>
      BY <1>1, <3>1 DEF ConstructorState, Steps
    <3>5. Resolver' /\ Cons'
      BY <1>2, <3>1, <3>2, <3>3 DEF Stages, Steps
    <3> QED
      BY <3>2, <3>3, <3>4, <3>5 DEF ConstructorState, SystemCalls, Steps
  <2>4. CASE CallSucceeds
    <3>1. stage' \in SystemCalls \cup {"object"}
      BY <2>4 DEF CallSucceeds, CallAfter, SystemCalls
    <3>2. addr \in Hosts
      BY <2>4 DEF CallSucceeds, ConstructorState
    <3>3. /\ addr' \in Hosts \cup {Nobody} /\ dest' \in Hosts \cup {Nobody}
          /\ stage' # "object" => addr' \in Hosts
      BY <1>2, <2>4, <3>2 DEF CallSucceeds
    <3>4. UNCHANGED <<errno, cause, failure, lookup, list, cur, out>>
      BY <2>4 DEF CallSucceeds, resolver
    <3>5. incoming' = <<>>
      BY <1>1, <2>4 DEF CallSucceeds, ConstructorState, SystemCalls, Steps
    <3>6. Resolver' /\ Cons'
      BY <1>2, <3>1, <3>3, <3>4 DEF Stages, Steps, SystemCalls
    <3> QED
      BY <3>1, <3>3, <3>5, <3>6 DEF ConstructorState, SystemCalls
  <2>5. CASE CallFails
    <3>1. stage \in SystemCalls /\ stage' = "failing" /\ errno' = stage /\ cause' = stage
          /\ UNCHANGED <<addr, failure, lookup, list, cur, out, dest>>
      BY <2>5 DEF CallFails, resolver, link
    <3>2. Resolver' /\ Cons'
      BY <1>2, <3>1 DEF Stages, Steps, SystemCalls
    <3> QED
      BY <3>1, <3>2 DEF ConstructorState, SystemCalls, Steps
  <2>6. CASE ReadErrno
    <3>1. stage = "failing" /\ stage' \in {"failed", "dropping"} /\ failure' = errno
          /\ UNCHANGED <<addr, errno, cause, lookup, list, cur, out, dest>>
      BY <2>6 DEF ReadErrno, resolver, link
    <3>2. failure' = cause'
      BY <3>1 DEF ConstructorState
    <3>3. Resolver' /\ Cons'
      BY <1>2, <3>1 DEF Stages
    <3> QED
      BY <3>1, <3>2, <3>3 DEF ConstructorState, SystemCalls, Steps
  <2>7. CASE DropHalfBuilt
    <3>1. stage = "dropping" /\ stage' = "failed" /\ errno' \in {errno, "close"}
          /\ UNCHANGED <<failure, cause, addr, lookup, list, cur, out, dest>>
      BY <2>7 DEF DropHalfBuilt, resolver, link
    <3>2. Resolver' /\ Cons'
      BY <1>2, <3>1 DEF Stages
    <3> QED
      BY <3>1, <3>2 DEF ConstructorState, SystemCalls, Steps
  <2>8. CASE Owner
    <3>1. stage' \in {"raw", "object", "closed"}
          /\ UNCHANGED <<addr, errno, failure, cause, lookup, list, cur, out, dest>>
      BY <2>8 DEF Owner, IntoRawFd, FromRawFd, DropSocket, resolver, link
    <3>2. Resolver' /\ Cons'
      BY <1>2, <3>1 DEF Stages
    <3> QED
      BY <3>1, <3>2 DEF ConstructorState, SystemCalls, Steps
  <2> QED
    BY <2>1, <2>2, <2>3, <2>4, <2>5, <2>6, <2>7, <2>8 DEF Constructor
<1> QED
  BY <1>1, <1>3, <1>4 DEF TypeOK

\* Receive takes the next n places.
LEMMA Receives ==
    ASSUME NEW t \in Threads, Receive(t)
    PROVE  \E n \in Nat \ {0} :
              /\ taken + n <= Len(incoming)
              /\ taken' = taken + n
              /\ got' = [got EXCEPT ![t] = @ \cup (taken + 1)..(taken + n)]
              /\ UNCHANGED <<incoming, eof>>
<1>1. PICK n \in 1..(IF kind = "stream" THEN Chunk ELSE 1) :
          /\ taken + n <= Len(incoming)
          /\ Consume(n)
          /\ got' = [got EXCEPT ![t] = @ \cup (taken + 1)..(taken + n)]
  BY DEF Receive
<1>2. n \in Nat \ {0}
  BY <1>1, ConstantsType DEF ConstantsType
<1>3. UNCHANGED <<incoming, eof>>
  BY DEF Receive
<1> QED
  BY <1>1, <1>2, <1>3 DEF Consume

\* What receiving makes of the kernel's queue.
LEMMA ReceiveType ==
    ASSUME TypeOK, NEW t \in Threads, Receive(t)
    PROVE  /\ taken' \in Nat
           /\ got' \in [Threads -> SUBSET Nat]
           /\ UNCHANGED <<incoming, eof>>
<1>1. PICK n \in Nat \ {0} :
              /\ taken' = taken + n
              /\ got' = [got EXCEPT ![t] = @ \cup (taken + 1)..(taken + n)]
              /\ UNCHANGED <<incoming, eof>>
  BY Receives
<1>2. taken \in Nat /\ got \in [Threads -> SUBSET Nat]
  BY DEF TypeOK
<1>3. (taken + 1)..(taken + n) \in SUBSET Nat
  BY <1>1, <1>2
<1>4. got' \in [Threads -> SUBSET Nat]
  BY <1>1, <1>2, <1>3
<1> QED
  BY <1>1, <1>2, <1>4

LEMMA SendType ==
    ASSUME TypeOK, NEW t \in Threads, Send(t)
    PROVE  /\ wire' \in Seq(Threads \X Nat)
           /\ sent' \in [Threads -> Nat]
<1>1. PICK n \in 1..Unsent(t) : wire' = wire \o Accepts(t, n) /\ sent' = [sent EXCEPT ![t] = @ + n]
  BY DEF Send
<1>2. Unsent(t) \in Int /\ n \in Nat /\ sent[t] \in Nat
  <2>1. sent[t] \in Nat
    BY DEF TypeOK
  <2>2. Buffer[t] \in Nat
    BY ConstantsType DEF ConstantsType
  <2>3. Unsent(t) \in Int
    BY <2>1, <2>2 DEF Unsent
  <2> QED
    BY <1>1, <2>1, <2>3
<1>3. \A i \in 1..n : <<t, sent[t] + i>> \in Threads \X Nat
  BY <1>2
<1>4. Accepts(t, n) \in Seq(Threads \X Nat)
  BY <1>2, <1>3 DEF Accepts
<1> QED
  BY <1>1, <1>2, <1>4 DEF TypeOK

\* Any other step keeps the types.
LEMMA ThreadType ==
    ASSUME TypeOK, CallState, Network \/ \E t \in Threads : Proceeds(t) \/ OtherCall(t)
    PROVE  TypeOK'
<1> USE ConstantsType DEF ConstantsType
<1> DEFINE Still == /\ kind \in Kinds
                    /\ calls \in Programs
                    /\ addr \in Hosts \cup Foreign \cup {Nobody}
                    /\ stage \in Stages
                    /\ errno \in Steps \cup {"none", "close"}
                    /\ cause \in Steps \cup {"none"}
                    /\ failure \in Steps \cup {"none", "close"}
                    /\ lookup \in {"call", "walk", "free", "ok", "err"}
                    /\ list \in Seq(NodeType)
                    /\ cur \in Nat \ {0}
                    /\ out \in Seq(Hosts)
           Modes == /\ task \in [Threads -> {"idle", "F_SETFL"} \cup Methods]
                    /\ asked \in [Threads -> BOOLEAN]
                    /\ seen \in [Threads -> SUBSET Flags]
                    /\ raced \in [Threads -> BOOLEAN]
                    /\ flags \in SUBSET Flags
           Output == /\ sent \in [Threads -> Nat]
                     /\ result \in [Threads -> {"none", "ok", "again", "zero", "broken"}]
                     /\ wire \in Seq(Threads \X Nat)
                     /\ acked \in Nat
           Input == /\ incoming \in Seq(Hosts)
                    /\ taken \in Nat
                    /\ got \in [Threads -> SUBSET Nat]
                    /\ eof \in SUBSET Threads
           Link == /\ shut \in SUBSET {"Read", "Write", "Both"}
                   /\ peer \in {"open", "finished", "reset"}
                   /\ dest \in Hosts \cup {Nobody}
                   /\ posted \in SUBSET Hosts
<1>1. Still /\ Modes /\ Output /\ Input /\ Link
  BY DEF TypeOK
<1>2. Still'
  BY <1>1, ThreadFrame DEF program, constructor, resolver
<1>3. Modes' /\ Output' /\ Input' /\ Link'
  <2>1. CASE Arrive
    <3>1. incoming' \in Seq(Hosts)
      BY <1>1, <2>1 DEF Arrive
    <3> QED
      BY <1>1, <2>1, <3>1 DEF Arrive, modes, output, link
  <2>2. CASE PeerEnds
    BY <1>1, <2>2 DEF PeerEnds, modes, output, input
  <2>3. CASE PeerReads
    BY <1>1, <2>3 DEF PeerReads, modes, input, link
  <2>4. ASSUME NEW t \in Threads, NEW method \in Methods, Call(t, method)
        PROVE  Modes' /\ Output' /\ Input' /\ Link'
    BY <1>1, <2>4 DEF Call, modes, output, input, link
  <2>5. ASSUME NEW t \in Threads, GetFlags(t)
        PROVE  Modes' /\ Output' /\ Input' /\ Link'
    BY <1>1, <2>5 DEF GetFlags, output, input, link
  <2>6. ASSUME NEW t \in Threads, SetFlags(t)
        PROVE  Modes' /\ Output' /\ Input' /\ Link'
    <3>1. flags' \in SUBSET Flags
      BY <1>1, <2>6 DEF SetFlags, NewFlags, Flags
    <3>2. task' \in [Threads -> {"idle", "F_SETFL"} \cup Methods]
      BY <1>1, <2>6 DEF SetFlags, Returns
    <3>3. asked' \in [Threads -> BOOLEAN] /\ seen' \in [Threads -> SUBSET Flags]
      BY <1>1, <2>6 DEF SetFlags, Forget
    <3>4. raced' \in [Threads -> BOOLEAN]
      BY <2>6 DEF SetFlags, Changed
    <3> QED
      BY <1>1, <2>6, <3>1, <3>2, <3>3, <3>4 DEF SetFlags, output, input, link
  <2>7. ASSUME NEW t \in Threads, FcntlFails(t)
        PROVE  Modes' /\ Output' /\ Input' /\ Link'
    BY <1>1, <2>7 DEF FcntlFails, Returns, Forget, output, input, link
  <2>8. ASSUME NEW t \in Threads, RawFcntl(t)
        PROVE  Modes' /\ Output' /\ Input' /\ Link'
    <3>1. flags' \in SUBSET Flags
      BY <1>1, <2>8 DEF RawFcntl, Flags
    <3>2. raced' \in [Threads -> BOOLEAN]
      BY <2>8 DEF RawFcntl, Changed
    <3> QED
      BY <1>1, <2>8, <3>1, <3>2 DEF RawFcntl, Returns, output, input, link
  <2>9. ASSUME NEW t \in Threads, Send(t)
        PROVE  Modes' /\ Output' /\ Input' /\ Link'
    BY <1>1, <2>9, SendType DEF Send, modes, input, link
  <2>10. ASSUME NEW t \in Threads, WriteAllReturns(t)
         PROVE  Modes' /\ Output' /\ Input' /\ Link'
    BY <1>1, <2>10 DEF WriteAllReturns, Returns, modes, input, link
  <2>11. ASSUME NEW t \in Threads, Receive(t)
         PROVE  Modes' /\ Output' /\ Input' /\ Link'
    BY <1>1, <2>11, ReceiveType DEF Receive, Returns, modes, output, link
  <2>12. ASSUME NEW t \in Threads, ReceiveEof(t)
         PROVE  Modes' /\ Output' /\ Input' /\ Link'
    BY <1>1, <2>12 DEF ReceiveEof, Returns, modes, output, link
  <2>13. ASSUME NEW t \in Threads, ReceiveReset(t) \/ ReceiveFails(t)
         PROVE  Modes' /\ Output' /\ Input' /\ Link'
    BY <1>1, <2>13 DEF ReceiveReset, ReceiveFails, Returns, modes, output, input, link
  <2>14. ASSUME NEW t \in Threads, Shutdown(t)
         PROVE  Modes' /\ Output' /\ Input' /\ Link'
    BY <1>1, <2>14 DEF Shutdown, Returns, modes, output, input
  <2>15. ASSUME NEW t \in Threads, Connect(t)
         PROVE  Modes' /\ Output' /\ Input' /\ Link'
    BY <1>1, <2>15 DEF Connect, Returns, modes, output, input
  <2>16. ASSUME NEW t \in Threads, Post(t)
         PROVE  Modes' /\ Output' /\ Input' /\ Link'
    BY <1>1, <2>16 DEF Post, Returns, modes, output, input
  <2> QED
    BY <2>1, <2>2, <2>3, <2>4, <2>5, <2>6, <2>7, <2>8, <2>9, <2>10, <2>11, <2>12, <2>13, <2>14,
       <2>15, <2>16 DEF Network, Proceeds, OtherCall
<1> QED
  BY <1>2, <1>3 DEF TypeOK

LEMMA TypeStep ==
    ASSUME TypeOK, ConstructorState, CallState, [Next]_vars
    PROVE  TypeOK'
<1>1. CASE UNCHANGED vars
  BY <1>1 DEF vars, program, constructor, resolver, modes, output, input, link, TypeOK
<1> QED
  BY <1>1, ConstructorStep, ThreadType DEF Next

-------------------------------------------------------------------------------
\* The constructor

LEMMA ConstructorStateStep ==
    ASSUME TypeOK, ConstructorState, [Next]_vars
    PROVE  ConstructorState'
<1>1. CASE UNCHANGED vars
  BY <1>1 DEF vars, constructor, input, ConstructorState
<1>2. CASE Constructor \/ Owner
  BY <1>2, ConstructorStep
<1>3. CASE Network \/ \E t \in Threads : Proceeds(t) \/ OtherCall(t)
  <2>1. UNCHANGED <<addr, stage, errno, cause, failure>>
    BY <1>3, ThreadFrame DEF constructor
  <2>2. stage \in Steps => UNCHANGED incoming
    <3>1. CASE Arrive
      BY <3>1 DEF Arrive, Listening, Steps
    <3>2. CASE \E t \in Threads : Receive(t)
      BY <3>2 DEF Receive
    <3>3. CASE \E t \in Threads : ReceiveEof(t)
      BY <3>3 DEF ReceiveEof
    <3> QED
      BY <3>1, <3>2, <3>3, InputFrame DEF input
  <2> QED
    BY <2>1, <2>2 DEF ConstructorState
<1> QED
  BY <1>1, <1>2, <1>3 DEF Next

-------------------------------------------------------------------------------
\* Calls and flags

LEMMA CallStep ==
    ASSUME TypeOK, CallState, [Next]_vars
    PROVE  CallState'
<1> SUFFICES ASSUME NEW u \in Threads
             PROVE  /\ calls[u] \subseteq MethodsOf
                    /\ task'[u] \in calls[u] \cup {"idle", "F_SETFL"}
                    /\ task'[u] = "write_all" => result'[u] = "none"
  <2>1. UNCHANGED <<kind, calls>>
    BY ProgramFrame DEF program
  <2> QED
    BY <2>1 DEF CallState, MethodsOf
<1>1. /\ calls[u] \subseteq MethodsOf
      /\ task[u] \in calls[u] \cup {"idle", "F_SETFL"}
      /\ task[u] = "write_all" => result[u] = "none"
  BY DEF CallState
<1>2. task \in [Threads -> {"idle", "F_SETFL"} \cup Methods]
      /\ result \in [Threads -> {"none", "ok", "again", "zero", "broken"}]
  BY DEF TypeOK
<1>3. CASE UNCHANGED vars
  BY <1>1, <1>3 DEF vars, output
<1>4. CASE Constructor \/ Owner
  BY <1>1, <1>4, ConstructorFrame DEF output
<1>5. CASE Network
  BY <1>1, <1>5 DEF Network, Arrive, PeerEnds, PeerReads, output
<1>6. ASSUME NEW t \in Threads, Proceeds(t)
      PROVE  /\ task'[u] \in calls[u] \cup {"idle", "F_SETFL"}
             /\ task'[u] = "write_all" => result'[u] = "none"
  <2>1. CASE Send(t)
    BY <1>1, <2>1 DEF Send
  <2>2. CASE WriteAllReturns(t)
    BY <1>1, <1>2, <2>2 DEF WriteAllReturns, Returns
  <2>3. CASE Receive(t) \/ ReceiveEof(t) \/ ReceiveReset(t)
    BY <1>1, <1>2, <2>3 DEF Receive, ReceiveEof, ReceiveReset, Returns, output
  <2> QED
    BY <1>6, <2>1, <2>2, <2>3 DEF Proceeds
<1>7. ASSUME NEW t \in Threads, OtherCall(t)
      PROVE  /\ task'[u] \in calls[u] \cup {"idle", "F_SETFL"}
             /\ task'[u] = "write_all" => result'[u] = "none"
  <2>1. ASSUME NEW method \in Methods, Call(t, method)
        PROVE  /\ task'[u] \in calls[u] \cup {"idle", "F_SETFL"}
               /\ task'[u] = "write_all" => result'[u] = "none"
    BY <1>1, <1>2, <2>1 DEF Call, output
  <2>2. CASE GetFlags(t)
    BY <1>1, <1>2, <2>2 DEF GetFlags, output
  <2>3. CASE SetFlags(t) \/ FcntlFails(t) \/ RawFcntl(t) \/ ReceiveFails(t)
    BY <1>1, <1>2, <2>3 DEF SetFlags, FcntlFails, RawFcntl, ReceiveFails, Returns, output
  <2>4. CASE Shutdown(t) \/ Connect(t) \/ Post(t)
    BY <1>1, <1>2, <2>4 DEF Shutdown, Connect, Post, Returns, output
  <2> QED
    BY <1>7, <2>1, <2>2, <2>3, <2>4 DEF OtherCall
<1> QED
  BY <1>1, <1>3, <1>4, <1>5, <1>6, <1>7 DEF Next

\* Who calls F_SETFL, or changes the flags otherwise, makes all others' flags stale.
LEMMA FlagsStep ==
    ASSUME TypeOK, FlagsSeen, [Next]_vars
    PROVE  FlagsSeen'
<1> SUFFICES ASSUME NEW u \in Threads, task'[u] = "F_SETFL", ~raced'[u]
             PROVE  seen'[u] = flags'
  BY DEF FlagsSeen
<1>1. task[u] = "F_SETFL" /\ ~raced[u] => seen[u] = flags
  BY DEF FlagsSeen
<1>2. /\ task \in [Threads -> {"idle", "F_SETFL"} \cup Methods]
      /\ seen \in [Threads -> SUBSET Flags]
      /\ raced \in [Threads -> BOOLEAN]
  BY DEF TypeOK
<1>3. CASE UNCHANGED vars
  BY <1>1, <1>3 DEF vars, modes
<1>4. CASE Constructor \/ Owner
  BY <1>1, <1>4, ConstructorFrame DEF modes
<1>5. CASE Network
  BY <1>1, <1>5 DEF Network, Arrive, PeerEnds, PeerReads, modes
<1>6. ASSUME NEW t \in Threads, Proceeds(t)
      PROVE  seen'[u] = flags'
  BY <1>1, <1>2, <1>6 DEF Proceeds, Send, WriteAllReturns, Receive, ReceiveEof, ReceiveReset, Returns, modes
<1>7. ASSUME NEW t \in Threads, OtherCall(t)
      PROVE  seen'[u] = flags'
  <2>1. ASSUME NEW method \in Methods, Call(t, method)
        PROVE  seen'[u] = flags'
    <3>1. method # "F_SETFL"
      BY DEF Methods
    <3> QED
      BY <1>1, <1>2, <2>1, <3>1 DEF Call, modes
  <2>2. CASE GetFlags(t)
    BY <1>1, <1>2, <2>2 DEF GetFlags
  <2>3. CASE SetFlags(t)
    BY <1>2, <2>3 DEF SetFlags, Returns, Changed
  <2>4. CASE FcntlFails(t)
    BY <1>1, <1>2, <2>4 DEF FcntlFails, Returns, Forget
  <2>5. CASE RawFcntl(t)
    BY <1>2, <2>5 DEF RawFcntl, Returns, Changed
  <2>6. CASE ReceiveFails(t) \/ Shutdown(t) \/ Connect(t) \/ Post(t)
    BY <1>1, <1>2, <2>6 DEF ReceiveFails, Shutdown, Connect, Post, Returns, modes
  <2> QED
    BY <1>7, <2>1, <2>2, <2>3, <2>4, <2>5, <2>6 DEF OtherCall
<1> QED
  BY <1>3, <1>4, <1>5, <1>6, <1>7 DEF Next

\* Every F_SETFL writes back what was read, but for the mode.
LEMMA SetFlagsKeeps ==
    ASSUME TypeOK, FlagsSeen, NEW t \in Threads, SetFlags(t)
    PROVE  /\ "O_NONBLOCK" \in flags' <=> asked[t]
           /\ ~raced[t] => flags' \ {"O_NONBLOCK"} = flags \ {"O_NONBLOCK"}
<1>1. flags' = NewFlags(seen[t], asked[t]) /\ task[t] = "F_SETFL"
  BY DEF SetFlags
<1>2. asked[t] \in BOOLEAN
  BY DEF TypeOK
<1>3. ~raced[t] => seen[t] = flags
  BY <1>1 DEF FlagsSeen
<1> QED
  BY <1>1, <1>2, <1>3 DEF NewFlags

-------------------------------------------------------------------------------
\* Writing

\* What send appends to the wire, place by place.
LEMMA Appended ==
    ASSUME TypeOK, NEW t \in Threads, NEW n \in Nat, wire' = wire \o Accepts(t, n)
    PROVE  /\ Len(wire) \in Nat
           /\ Len(wire') = Len(wire) + n
           /\ \A k \in 1..Len(wire) : wire'[k] = wire[k]
           /\ \A k \in (Len(wire) + 1)..(Len(wire) + n) : wire'[k] = <<t, sent[t] + (k - Len(wire))>>
<1>1. wire \in Seq(Threads \X Nat) /\ sent[t] \in Nat
  BY DEF TypeOK
<1>2. Accepts(t, n) \in Seq({t} \X Nat)
  BY <1>1 DEF Accepts
<1>3. Len(Accepts(t, n)) = n /\ \A i \in 1..n : Accepts(t, n)[i] = <<t, sent[t] + i>>
  BY <1>2 DEF Accepts
<1>4. Accepts(t, n) \in Seq(Threads \X Nat)
  BY <1>2
<1> HIDE DEF Accepts
<1>5. Len(wire') = Len(wire) + n /\ \A k \in 1..Len(wire) : wire'[k] = wire[k]
  BY <1>1, <1>3, <1>4
<1>6. ASSUME NEW k \in (Len(wire) + 1)..(Len(wire) + n)
      PROVE  wire'[k] = <<t, sent[t] + (k - Len(wire))>>
  <2>1. wire'[k] = Accepts(t, n)[k - Len(wire)]
    <3>1. k \in 1..(Len(wire) + Len(Accepts(t, n))) /\ ~(k <= Len(wire))
      BY <1>1, <1>3
    <3>2. \A i \in 1..(Len(wire) + Len(Accepts(t, n))) :
             (wire \o Accepts(t, n))[i] = IF i <= Len(wire) THEN wire[i] ELSE Accepts(t, n)[i - Len(wire)]
      BY ONLY <1>1, <1>4, ConcatProperties
    <3> QED
      BY ONLY <3>1, <3>2, wire' = wire \o Accepts(t, n)
  <2>2. k - Len(wire) \in 1..n
    BY <1>1
  <2> QED
    BY <1>3, <2>1, <2>2
<1>7. Len(wire) \in Nat
  BY <1>1
<1> QED
  BY ONLY <1>5, <1>6, <1>7

LEMMA SentStep ==
    ASSUME TypeOK, CallState, SentInOrder, [Next]_vars
    PROVE  SentInOrder'
<1>1. /\ sent \in [Threads -> Nat]
      /\ result \in [Threads -> {"none", "ok", "again", "zero", "broken"}]
      /\ wire \in Seq(Threads \X Nat)
  BY DEF TypeOK
<1>2. CASE UNCHANGED <<sent, result, wire>>
  BY <1>2 DEF SentInOrder
<1>3. ASSUME NEW t \in Threads, WriteAllReturns(t)
      PROVE  SentInOrder'
  <2>1. UNCHANGED <<sent, wire>>
    BY <1>3 DEF WriteAllReturns
  <2>2. PICK r \in {"ok", "again", "broken", "zero"} : Outcome(t, r) /\ result' = [result EXCEPT ![t] = r]
    BY <1>3 DEF WriteAllReturns
  <2>3. r = "ok" => sent[t] = Buffer[t]
    <3>1. Buffer[t] \in Nat /\ sent[t] \in Nat
      BY <1>1, ConstantsType DEF ConstantsType
    <3> QED
      BY <2>2, <3>1 DEF Outcome, Unsent
  <2>4. \A u \in Threads : result'[u] = "ok" => sent'[u] = Buffer[u]
    BY <1>1, <2>1, <2>2, <2>3 DEF SentInOrder
  <2> QED
    BY <2>1, <2>4 DEF SentInOrder
<1>4. ASSUME NEW t \in Threads, Send(t)
      PROVE  SentInOrder'
  <2>1. PICK n \in 1..Unsent(t) : wire' = wire \o Accepts(t, n) /\ sent' = [sent EXCEPT ![t] = @ + n]
    BY <1>4 DEF Send
  <2>2. sent[t] \in Nat /\ Buffer[t] \in Nat
    BY <1>1, ConstantsType DEF ConstantsType
  <2>3. n \in Nat
    BY <2>1, <2>2 DEF Unsent
  <2> DEFINE L == Len(wire)
             s == sent[t]
  <2>4. /\ L \in Nat
        /\ Len(wire') = L + n
        /\ \A k \in 1..L : wire'[k] = wire[k]
        /\ \A k \in (L + 1)..(L + n) : wire'[k] = <<t, s + (k - L)>>
    BY <2>1, <2>3, Appended
  <2>5. \A u \in Threads : sent[u] \in Nat /\ sent'[u] = IF u = t THEN s + n ELSE sent[u]
    BY <1>1, <2>1
  <2>6. \A k \in 1..L : wire[k][1] \in Threads /\ wire[k][2] \in Nat
    BY <1>1
  <2>7. \A k \in 1..L : wire[k][2] \in 1..sent[wire[k][1]]
    BY DEF SentInOrder
  <2>8. \A k, l \in 1..L : k < l /\ wire[k][1] = wire[l][1] => wire[k][2] < wire[l][2]
    BY DEF SentInOrder
  <2>9. \A u \in Threads : \A i \in 1..sent[u] : \E k \in 1..L : wire[k] = <<u, i>>
    BY DEF SentInOrder
  <2> HIDE DEF L, s
  <2>10. ASSUME NEW k \in 1..(L + n)
         PROVE  wire'[k][2] \in 1..sent'[wire'[k][1]]
    <3>1. CASE k \in 1..L
      <4>1. wire'[k] = wire[k] /\ wire[k][1] \in Threads /\ wire[k][2] \in 1..sent[wire[k][1]]
        BY <2>4, <2>6, <2>7, <3>1
      <4>2. sent[wire[k][1]] \in Nat /\ sent'[wire[k][1]] \in Nat /\ sent[wire[k][1]] <= sent'[wire[k][1]]
        BY <2>2, <2>3, <2>5, <4>1 DEF s
      <4> QED
        BY <4>1, <4>2
    <3>2. CASE k \in (L + 1)..(L + n)
      <4>1. wire'[k][1] = t /\ wire'[k][2] = s + (k - L)
        BY <2>4, <3>2
      <4>2. sent'[t] = s + n /\ s \in Nat
        BY <2>2, <2>5 DEF s
      <4>3. k - L \in 1..n
        BY <2>3, <2>4, <3>2
      <4> QED
        BY <2>3, <4>1, <4>2, <4>3
    <3> QED
      BY <2>3, <2>4, <3>1, <3>2
  <2>11. ASSUME NEW k \in 1..(L + n), NEW l \in 1..(L + n), k < l, wire'[k][1] = wire'[l][1]
         PROVE  wire'[k][2] < wire'[l][2]
    <3>1. CASE l \in 1..L
      <4>1. k \in 1..L
        BY <2>3, <2>4, <2>11, <3>1
      <4> QED
        BY <2>4, <2>8, <2>11, <3>1, <4>1
    <3>2. CASE k \in 1..L /\ l \in (L + 1)..(L + n)
      <4>1. wire'[l][1] = t /\ wire'[l][2] = s + (l - L)
        BY <2>4, <3>2
      <4>2. wire'[k] = wire[k] /\ wire[k][1] = t /\ wire[k][2] \in 1..s
        BY <2>4, <2>7, <2>11, <3>2, <4>1 DEF s
      <4>3. l - L \in 1..n /\ s \in Nat
        BY <2>2, <2>3, <2>4, <3>2 DEF s
      <4> QED
        BY <4>1, <4>2, <4>3
    <3>3. CASE k \in (L + 1)..(L + n) /\ l \in (L + 1)..(L + n)
      <4>1. wire'[k][2] = s + (k - L) /\ wire'[l][2] = s + (l - L)
        BY <2>4, <3>3
      <4> QED
        BY <2>2, <2>3, <2>4, <2>11, <4>1 DEF s
    <3> QED
      BY <2>3, <2>4, <2>11, <3>1, <3>2, <3>3
  <2>12. ASSUME NEW u \in Threads, NEW i \in 1..sent'[u]
         PROVE  \E k \in 1..(L + n) : wire'[k] = <<u, i>>
    <3>1. CASE i \in 1..sent[u]
      <4>1. PICK k \in 1..L : wire[k] = <<u, i>>
        BY <2>9, <3>1
      <4> QED
        BY <2>3, <2>4, <4>1
    <3>2. CASE i \notin 1..sent[u]
      <4>1. u = t
        BY <2>5, <2>12, <3>2
      <4>2. i \in 1..(s + n) /\ i \notin 1..s /\ s \in Nat
        BY <2>2, <2>5, <2>12, <3>2, <4>1 DEF s
      <4>3. L + (i - s) \in (L + 1)..(L + n) /\ s + ((L + (i - s)) - L) = i
        BY <2>3, <2>4, <4>2
      <4>4. wire'[L + (i - s)] = <<u, i>>
        BY <2>4, <4>1, <4>3
      <4>5. L + (i - s) \in 1..(L + n)
        BY <2>3, <2>4, <4>2
      <4> QED
        BY <4>4, <4>5
    <3> QED
      BY <3>1, <3>2
  <2>13. \A u \in Threads : result'[u] = "ok" => sent'[u] = Buffer[u]
    <3>1. UNCHANGED result /\ result[t] = "none"
      BY <1>4 DEF Send, CallState
    <3> QED
      BY <2>5, <3>1 DEF SentInOrder
  <2> QED
    BY <2>4, <2>10, <2>11, <2>12, <2>13 DEF SentInOrder
<1> QED
  BY <1>2, <1>3, <1>4, OutputFrame

-------------------------------------------------------------------------------
\* Receiving

\* What has arrived stays.
LEMMA IncomingGrows ==
    ASSUME TypeOK, [Next]_vars
    PROVE  /\ Len(incoming) \in Nat /\ Len(incoming') \in Nat
           /\ Len(incoming) <= Len(incoming')
<1>1. incoming \in Seq(Hosts)
  BY DEF TypeOK
<1>2. CASE Arrive
  BY <1>1, <1>2 DEF Arrive
<1>3. CASE ~Arrive
  <2>1. UNCHANGED incoming
    BY <1>3, InputFrame DEF Receive, ReceiveEof, input
  <2> QED
    BY <1>1, <2>1
<1> QED
  BY <1>2, <1>3

\* A direction that is shut down, and a connection that has ended, stay so.
LEMMA EndsStay ==
    ASSUME TypeOK, [Next]_vars
    PROVE  /\ half \subseteq half'
           /\ peer # "open" => peer' # "open"
<1>1. shut \subseteq shut' /\ (peer # "open" => peer' # "open")
  <2>1. CASE \E t \in Threads : Connect(t) \/ Shutdown(t)
    BY <2>1 DEF Connect, Shutdown
  <2>2. CASE CallSucceeds
    BY <2>2 DEF CallSucceeds
  <2>3. CASE PeerEnds
    BY <2>3 DEF PeerEnds
  <2> QED
    BY <2>1, <2>2, <2>3, LinkFrame
<1> QED
  BY <1>1 DEF half

\* After a read has returned 0 nothing arrives and nothing is left.
LEMMA EndStep ==
    ASSUME TypeOK, CallState, EndState, [Next]_vars
    PROVE  EndState'
<1>1. half \subseteq half' /\ (peer # "open" => peer' # "open")
  BY EndsStay
<1>2. UNCHANGED kind
  BY ProgramFrame DEF program
<1>3. taken \in Nat /\ Len(incoming) \in Nat
  BY IncomingGrows DEF TypeOK
<1> HIDE DEF half
<1>4. ASSUME NEW t \in Threads, Receive(t)
      PROVE  EndState'
  <2>1. UNCHANGED eof /\ taken < Len(incoming)
    <3>1. PICK n \in 1..(IF kind = "stream" THEN Chunk ELSE 1) : taken + n <= Len(incoming)
      BY <1>4 DEF Receive
    <3>2. n \in Nat \ {0}
      BY <3>1, ConstantsType DEF ConstantsType
    <3> QED
      BY <1>3, <1>4, <3>1, <3>2 DEF Receive
  <2> QED
    BY <1>1, <1>2, <1>3, <2>1 DEF EndState
<1>5. ASSUME NEW t \in Threads, ReceiveEof(t)
      PROVE  EndState'
  <2>1. kind = "stream"
    BY <1>5 DEF ReceiveEof, CallState, MethodsOf
  <2> QED
    BY <1>1, <1>2, <1>5, <2>1 DEF ReceiveEof, AtEnd, EndState
<1>6. CASE Arrive
  BY <1>1, <1>2, <1>6 DEF Arrive, EndState
<1>7. CASE UNCHANGED input
  BY <1>1, <1>2, <1>7 DEF input, EndState
<1> QED
  BY <1>4, <1>5, <1>6, <1>7, InputFrame

\* A step that is not Receive leaves what was received.
LEMMA ReceivedFrame ==
    ASSUME [Next]_vars
    PROVE  (\E t \in Threads : Receive(t)) \/ UNCHANGED <<taken, got>>
<1>1. CASE \E t \in Threads : ReceiveEof(t)
  BY <1>1 DEF ReceiveEof
<1>2. CASE Arrive
  BY <1>2 DEF Arrive
<1> QED
  BY <1>1, <1>2, InputFrame DEF input

LEMMA ReceivedStep ==
    ASSUME TypeOK, EndState', ReceivedOnce, [Next]_vars
    PROVE  ReceivedOnce'
<1>1. /\ Len(incoming) \in Nat /\ Len(incoming') \in Nat
      /\ Len(incoming) <= Len(incoming')
      /\ taken \in Nat
  BY IncomingGrows DEF TypeOK
<1>2. eof' # {} /\ "read" \notin half' => taken' = Len(incoming')
  BY DEF EndState
<1>3. CASE UNCHANGED <<taken, got>>
  <2>1. taken' <= Len(incoming')
    BY <1>1, <1>3 DEF ReceivedOnce
  <2> QED
    BY <1>2, <1>3, <2>1 DEF ReceivedOnce
<1>4. ASSUME NEW t \in Threads, Receive(t)
      PROVE  ReceivedOnce'
  <2>1. PICK n \in Nat \ {0} :
              /\ taken + n <= Len(incoming)
              /\ taken' = taken + n
              /\ got' = [got EXCEPT ![t] = @ \cup (taken + 1)..(taken + n)]
              /\ UNCHANGED incoming
    BY <1>4, Receives
  <2> DEFINE fresh == (taken + 1)..(taken + n)
  <2>2. UNION {got[u] : u \in Threads} = 1..taken
        /\ \A u, v \in Threads : u # v => got[u] \cap got[v] = {}
    BY DEF ReceivedOnce
  <2>3. 1..taken' = 1..taken \cup fresh /\ 1..taken \cap fresh = {}
    BY <1>1, <2>1
  <2>4. \A u \in Threads : got[u] \cap fresh = {}
    <3> HIDE DEF fresh
    <3> QED
      BY <2>2, <2>3
  <2>5. got'[t] = got[t] \cup fresh /\ \A u \in Threads \ {t} : got'[u] = got[u]
    <3>1. got \in [Threads -> SUBSET Nat]
      BY DEF TypeOK
    <3> QED
      BY <2>1, <3>1
  <2> HIDE DEF fresh
  <2>6. UNION {got'[u] : u \in Threads} = (UNION {got[u] : u \in Threads}) \cup fresh
    BY <2>5
  <2>7. \A u, v \in Threads : u # v => got'[u] \cap got'[v] = {}
    BY <2>2, <2>4, <2>5
  <2>8. taken' <= Len(incoming')
    BY <2>1
  <2>9. UNION {got'[u] : u \in Threads} = 1..taken'
    BY <2>2, <2>3, <2>6
  <2> QED
    BY <1>2, <2>7, <2>8, <2>9 DEF ReceivedOnce
<1> QED
  BY <1>3, <1>4, ReceivedFrame

-------------------------------------------------------------------------------
\* lookup_host

\* A node more, whose address is copied or not.
LEMMA VisitKeeps ==
    ASSUME TypeOK, LookupState, LookupExact, Host!Visit
    PROVE  LookupState' /\ LookupExact'
<1> DEFINE addrs == [p \in 1..Len(list) |-> list[p].ai_addr]
           Walked(n) == {p \in 1..n : list[p].ai_family = "AF_INET" /\ list[p].ai_addr # Null}
           n == cur - 1
<1>1. /\ lookup = "walk" /\ lookup' = "walk" /\ list' = list /\ cur' = cur + 1
      /\ out' = IF Host!Usable(list[cur]) THEN Append(out, list[cur].ai_addr) ELSE out
  BY DEF Host!Visit
<1>2. /\ list \in Seq(NodeType) /\ out \in Seq(Hosts) /\ Len(list) \in Nat
      /\ cur \in 1..Len(list) /\ n \in Nat /\ n + 1 = cur /\ cur' - 1 = n + 1
  BY <1>1 DEF TypeOK, Host!Visit
<1>3. LookupState'
  BY <1>1, <1>2 DEF LookupState
<1>4. Selects(out, addrs, Walked(n))
  BY <1>1 DEF LookupExact
<1>5. Selects(out', addrs, Walked(n + 1))
  <2>1. CASE Host!Usable(list[cur])
    <3> DEFINE found == <<list[cur].ai_addr>>
    <3>1. list[cur].ai_family = "AF_INET" /\ list[cur].ai_addr # Null
      BY <2>1 DEF Host!Usable
    <3>2. list[cur].ai_addr \in Hosts
      <4>1. list[cur] \in NodeType
        BY <1>2
      <4> QED
        BY <3>1, <4>1 DEF NodeType
    <3>3. /\ found \in Seq(Hosts) /\ Len(found) = 1 /\ addrs[n + 1] = found[1]
          /\ Walked(n) \in SUBSET (1..n)
      BY <1>2, <3>2
    <3>4. Walked(n + 1) = Walked(n) \cup (n + 1)..(n + 1)
      BY <1>2, <3>1
    <3>5. out' = out \o found
      BY <1>1, <1>2, <2>1, <3>2
    <3> HIDE DEF found, addrs, Walked
    <3>6. \A i \in 1..Len(found) : addrs[n + i] = found[i]
      BY ONLY <3>3
    <3>7. Selects(out \o found, addrs, Walked(n) \cup (n + 1)..(n + 1))
      BY ONLY <1>2, <1>4, <3>3, <3>6, SelectsMore
    <3> QED
      BY ONLY <3>4, <3>5, <3>7
  <2>2. CASE ~Host!Usable(list[cur])
    <3>1. Walked(n + 1) = Walked(n)
      BY <1>2, <2>2 DEF Host!Usable
    <3>2. out' = out
      BY <1>1, <2>2
    <3> QED
      BY ONLY <1>4, <3>1, <3>2
  <2> QED
    BY <2>1, <2>2
<1> QED
  BY <1>1, <1>2, <1>3, <1>5 DEF LookupExact

LEMMA LookupKept ==
    ASSUME TypeOK, LookupState, LookupExact, [Next]_vars
    PROVE  LookupState' /\ LookupExact'
<1>1. CASE UNCHANGED resolver
  BY <1>1 DEF resolver, LookupState, LookupExact
<1>2. CASE Host!Visit
  BY <1>2, VisitKeeps
<1>3. CASE Host!Resolve
  <2>1. lookup' = "walk" /\ cur' = 1 /\ out' = <<>> /\ Len(list') \in Nat
    BY <1>3, ConstantsType DEF ConstantsType, Host!Resolve, LookupState
  <2>2. {p \in 1..(cur' - 1) : list'[p].ai_family = "AF_INET" /\ list'[p].ai_addr # Null} = {}
    BY <2>1
  <2> QED
    BY <2>1, <2>2, SelectsNone DEF LookupState, LookupExact
<1>4. CASE Host!EndWalk
  BY <1>4 DEF Host!EndWalk, LookupState, LookupExact
<1>5. CASE Host!Fail \/ Host!Free
  BY <1>5 DEF Host!Fail, Host!Free, LookupState, LookupExact
<1>6. CASE PickAddress
  BY <1>6 DEF PickAddress, LookupState, LookupExact
<1>7. CASE Constructor \/ Owner
  <2>1. LookupStep \/ PickAddress \/ UNCHANGED resolver
    BY <1>7 DEF Constructor, Owner, RequireV4, CallSucceeds, CallFails, ReadErrno, DropHalfBuilt, IntoRawFd,
                FromRawFd, DropSocket
  <2> QED
    BY <2>1, <1>1, <1>2, <1>3, <1>4, <1>5, <1>6 DEF LookupStep, Host!Next
<1> QED
  BY <1>1, <1>7, ThreadFrame DEF Next, vars

-------------------------------------------------------------------------------
LEMMA StepInvariant == IInv /\ [Next]_vars => IInv'
<1> SUFFICES ASSUME IInv, [Next]_vars
             PROVE  IInv'
  OBVIOUS
<1>1. /\ TypeOK /\ ConstructorState /\ CallState /\ FlagsSeen /\ SentInOrder
      /\ EndState /\ ReceivedOnce /\ LookupState /\ LookupExact
  BY DEF IInv
<1>2. TypeOK' /\ ConstructorState' /\ CallState'
  BY <1>1, TypeStep, ConstructorStateStep, CallStep
<1>3. FlagsSeen' /\ SentInOrder'
  BY <1>1, FlagsStep, SentStep
<1>4. EndState'
  BY <1>1, EndStep
<1>5. ReceivedOnce'
  BY <1>1, <1>4, ReceivedStep
<1>6. LookupState' /\ LookupExact'
  BY <1>1, LookupKept
<1> QED
  BY <1>2, <1>3, <1>4, <1>5, <1>6 DEF IInv

\* The inductive invariant: the state of a constructor, of a call and of a
\* connection's end explain what was reported, sent and received (net.rs:68-373).
THEOREM Invariant == Spec => []IInv
<1>1. Init => IInv
  BY InitInvariant
<1>2. IInv /\ [Next]_vars => IInv'
  BY StepInvariant
<1> QED
  BY <1>1, <1>2, PTL DEF Spec

\* For any list the resolver may return, lookup_host copies the IPv4 addresses of
\* all its nodes in order, and frees the list (net.rs:410-424).
THEOREM LookupExactHolds == Spec => []LookupExact
<1>1. IInv => LookupExact
  BY DEF IInv
<1> QED
  BY <1>1, Invariant, PTL

\* Type correctness of the socket, its calls and its queues (net.rs:64-373).
THEOREM TypeCorrect == Spec => []TypeOK
<1>1. IInv => TypeOK
  BY DEF IInv
<1> QED
  BY <1>1, Invariant, PTL

\* Whatever threads share a TcpStream, the bytes of each write_all are on the wire
\* once and in order, and all of them after Ok (net.rs:141-151).
THEOREM SentInOrderHolds == Spec => []SentInOrder
<1>1. IInv => SentInOrder
  BY DEF IInv
<1> QED
  BY <1>1, Invariant, PTL

\* Each byte, connection or datagram is received by exactly one thread and none is
\* skipped; a 0 from read means the end (net.rs:94-97, 131-133, 240-253).
THEOREM ReceivedOnceHolds == Spec => []ReceivedOnce
<1>1. IInv => ReceivedOnce
  BY DEF IInv
<1> QED
  BY <1>1, Invariant, PTL

\* A constructor reports the errno of the call that failed, which cvt_i32 reads
\* before the close of the half-built socket can set it (net.rs:116-126, 218-235, 301-311).
THEOREM ErrorReportedHolds == Spec => []ErrorReported
<1>1. IInv => ErrorReported
  BY DEF IInv, ConstructorState, ErrorReported
<1> QED
  BY <1>1, Invariant, PTL

\* set_nonblocking changes no other flag unless the flags change between its two
\* calls of fcntl (net.rs:68-78).
THEOREM FlagsKeptHolds == Spec => FlagsKept
<1> DEFINE Kept == \A t \in Threads : SetFlags(t) =>
              /\ "O_NONBLOCK" \in flags' <=> asked[t]
              /\ ~raced[t] => flags' \ {"O_NONBLOCK"} = flags \ {"O_NONBLOCK"}
<1>1. IInv => Kept
  BY SetFlagsKeeps DEF IInv
<1>2. IInv => [Kept]_vars
  BY <1>1
<1> HIDE DEF Kept
<1>3. Spec => [][Kept]_vars
  BY <1>2, Invariant, PTL
<1> QED
  BY <1>3 DEF Kept, FlagsKept
===============================================================================
