------------------------------- MODULE Socket -------------------------------
(***************************************************************************)
(* One socket of crates/ps5/src/net.rs, a TcpStream, TcpListener or        *)
(* UdpSocket, from its constructor to its drop, and shared by reference by *)
(* several threads in between: every method takes &self and keeps no state *)
(* in Rust, so all that threads share is the descriptor.                   *)
(*                                                                         *)
(* What arrives is numbered: bytes of a stream, connections of a listener, *)
(* datagrams.  A network that loses, duplicates and reorders datagrams     *)
(* shows as an arbitrary sequence of arrivals.                             *)
(*                                                                         *)
(* ReadAfterDrop, OnlyAsked, RetryWhole, Peek and ShutOther are used by no *)
(* action: each is a plausible mistake in the definition after it, and put *)
(* in its place makes a property below fail.                               *)
(***************************************************************************)
EXTENDS Integers, Sequences, Selection

CONSTANTS
    Kinds,        \* which sockets to model: "stream", "listener", "datagram"
    Threads,      \* that share the socket
    Programs,     \* which methods each thread calls, see calls
    Hosts,        \* IPv4 addresses
    Foreign,      \* IPv6 addresses
    Nobody,       \* no peer, and the address nobody has
    Null, Lists,  \* see Lookup
    Buffer,       \* bytes each thread passes to write_all
    Window,       \* bytes the kernel holds for a peer that does not read
    Chunk,        \* the size of the buffer given to read
    MaxArrivals,  \* bound: how much arrives
    QueueLimit    \* connections or datagrams the kernel queues

Methods == {"write_all", "read", "shutdown", "accept", "send", "send_to", "recv", "recv_from",
            "connect", "set_nonblocking", "as_raw_fd"}

\* The hints ask for AF_INET, but a resolver need not heed them.
NodeType == [ai_family : {"AF_INET", "AF_INET6"}, ai_addr : Hosts \cup {Null}]

ASSUME ConstantsType ==
    /\ Kinds \subseteq {"stream", "listener", "datagram"}
    /\ Programs \subseteq [Threads -> SUBSET Methods]
    /\ Hosts \cap Foreign = {}
    /\ Nobody \notin Hosts \cup Foreign
    /\ Buffer \in [Threads -> Nat]
    /\ Window \in Nat \ {0}
    /\ Chunk \in Nat \ {0}
    /\ \A l \in Lists : l \in Seq(NodeType)
    /\ MaxArrivals \in Nat
    /\ QueueLimit \in Nat

VARIABLES
    kind,      \* of the socket
    calls,     \* the methods each thread calls
    addr,      \* the address given to the constructor
    stage,     \* how far the constructor is, and whose the descriptor is
    errno,     \* of the thread that runs the constructor
    cause,     \* the call of it that failed
    failure,   \* the error it returns
    lookup, list, cur, out,
    task,      \* the call each thread is in
    asked,     \* the argument of its set_nonblocking
    seen,      \* the flags its F_GETFL returned
    raced,     \* whether they have been changed since
    flags,     \* the status flags of the open file description
    sent,      \* bytes of its buffer write_all has handed to send
    result,    \* of its write_all
    wire,      \* the bytes send accepted, each a thread and a place in its buffer
    acked,     \* how many of them the peer has taken
    incoming,  \* what has arrived, each item as the host it is from
    taken,     \* how much of it was received
    got,       \* what each thread received, as places in it
    eof,       \* the threads whose read returned 0
    shut,      \* the arguments shutdown was called with
    peer,      \* "open", "finished" or "reset"
    dest,      \* the peer of a stream, the default peer of a datagram socket
    posted     \* the addresses datagrams were sent to

constructor == <<addr, stage, errno, cause, failure>>
resolver    == <<lookup, list, cur, out>>
modes       == <<asked, seen, raced, flags>>
output      == <<sent, result, wire, acked>>
input       == <<incoming, taken, got, eof>>
link        == <<shut, peer, dest, posted>>
program == <<kind, calls>>
vars == <<program, constructor, resolver, task, modes, output, input, link>>

Host == INSTANCE Lookup

\* The methods of each kind.
MethodsOf == CASE kind = "stream" -> {"write_all", "read", "set_nonblocking", "shutdown", "as_raw_fd"}
               [] kind = "listener" -> {"accept", "set_nonblocking", "as_raw_fd"}
               [] OTHER -> {"send", "send_to", "recv", "recv_from", "connect", "set_nonblocking",
                            "as_raw_fd"}

Flags == {"O_NONBLOCK", "O_ASYNC"}
Steps == {"lookup", "address", "socket", "setsockopt", "connect", "bind", "listen"}
Stages == Steps \cup {"failing", "dropping", "failed", "object", "raw", "closed"}

TypeOK ==
    /\ kind \in Kinds
    /\ calls \in Programs
    /\ addr \in Hosts \cup Foreign \cup {Nobody}
    /\ stage \in Stages
    /\ errno \in Steps \cup {"none", "close"}
    /\ cause \in Steps \cup {"none"}
    /\ failure \in Steps \cup {"none", "close"}
    /\ lookup \in {"call", "walk", "free", "ok", "err"}
    /\ list \in Seq(NodeType)
    /\ cur \in Nat \ {0}
    /\ out \in Seq(Hosts)
    /\ task \in [Threads -> {"idle", "F_SETFL"} \cup Methods]
    /\ asked \in [Threads -> BOOLEAN]
    /\ seen \in [Threads -> SUBSET Flags]
    /\ raced \in [Threads -> BOOLEAN]
    /\ flags \in SUBSET Flags
    /\ sent \in [Threads -> Nat]
    /\ result \in [Threads -> {"none", "ok", "again", "zero", "broken"}]
    /\ wire \in Seq(Threads \X Nat)
    /\ acked \in Nat
    /\ incoming \in Seq(Hosts)
    /\ taken \in Nat
    /\ got \in [Threads -> SUBSET Nat]
    /\ eof \in SUBSET Threads
    /\ shut \in SUBSET {"Read", "Write", "Both"}
    /\ peer \in {"open", "finished", "reset"}
    /\ dest \in Hosts \cup {Nobody}
    /\ posted \in SUBSET Hosts

Init ==
    /\ kind \in Kinds
    /\ calls \in Programs
    /\ \A t \in Threads : calls[t] \subseteq MethodsOf
    /\ stage = IF kind = "stream" THEN "lookup" ELSE "address"
    /\ IF kind = "stream" THEN addr = Nobody ELSE addr \in Hosts \cup Foreign
    /\ errno = "none" /\ cause = "none" /\ failure = "none"
    /\ Host!Init
    /\ task = [t \in Threads |-> "idle"]
    /\ asked = [t \in Threads |-> FALSE]
    /\ seen = [t \in Threads |-> {}]
    /\ raced = [t \in Threads |-> FALSE]
    /\ flags = {}
    /\ sent = [t \in Threads |-> 0]
    /\ result = [t \in Threads |-> "none"]
    /\ wire = <<>>
    /\ acked = 0
    /\ incoming = <<>>
    /\ taken = 0
    /\ got = [t \in Threads |-> {}]
    /\ eof = {}
    /\ shut = {}
    /\ peer = "open"
    /\ dest = Nobody
    /\ posted = {}

-------------------------------------------------------------------------------
\* Constructors: TcpStream::connect, TcpListener::bind, UdpSocket::bind

\* A client looks its host up and connects to one of the addresses.
LookupStep ==
    /\ stage = "lookup"
    /\ Host!Next
    /\ UNCHANGED <<program, constructor, task, modes, output, input, link>>

PickAddress ==
    /\ stage = "lookup"
    /\ lookup = "ok"
    /\ \/ \E i \in 1..Len(out) : addr' = out[i]
       \/ addr' \in Foreign
    /\ stage' = "address"
    /\ out' = <<>>
    /\ cur' = 1
    /\ UNCHANGED <<program, errno, cause, failure, lookup, list, task, modes, output, input, link>>

\* require_v4: nothing has been created yet.
RequireV4 ==
    /\ stage = "address"
    /\ IF addr \in Foreign THEN stage' = "failed" /\ cause' = "address" /\ failure' = "address"
                           ELSE stage' = "socket" /\ UNCHANGED <<cause, failure>>
    /\ UNCHANGED <<program, addr, errno, resolver, task, modes, output, input, link>>

\* The calls on the new descriptor, in order.
CallAfter(step) ==
    CASE step = "socket" -> IF kind = "stream" THEN "connect"
                            ELSE IF kind = "listener" THEN "setsockopt" ELSE "bind"
      [] step = "setsockopt" -> "bind"
      [] step = "bind" -> IF kind = "listener" THEN "listen" ELSE "object"
      [] OTHER -> "object"

SystemCalls == {"socket", "setsockopt", "connect", "bind", "listen"}

\* What is left of the address is the peer of the stream.
CallSucceeds ==
    /\ stage \in SystemCalls
    /\ stage' = CallAfter(stage)
    /\ addr' = IF stage' = "object" THEN Nobody ELSE addr
    /\ dest' = IF stage = "connect" THEN addr ELSE dest
    /\ UNCHANGED <<program, errno, cause, failure, resolver, task, modes, output, input,
                   shut, peer, posted>>

CallFails ==
    /\ stage \in SystemCalls
    /\ errno' = stage
    /\ cause' = stage
    /\ stage' = "failing"
    /\ UNCHANGED <<program, addr, failure, resolver, task, modes, output, input, link>>

\* cvt_i32 reads errno, and then `?` drops what was built so far: nothing when
\* socket() itself failed.
ReadAfterDrop ==
    /\ stage = "failing"
    /\ errno' \in IF cause = "socket" THEN {errno} ELSE {errno, "close"}
    /\ failure' = errno'
    /\ stage' = "failed"
    /\ UNCHANGED <<program, addr, cause, resolver, task, modes, output, input, link>>

ReadErrno ==
    /\ stage = "failing"
    /\ failure' = errno
    /\ stage' = IF cause = "socket" THEN "failed" ELSE "dropping"
    /\ UNCHANGED <<program, addr, errno, cause, resolver, task, modes, output, input, link>>

\* The drop's close may set errno too, and nobody looks at it any more.
DropHalfBuilt ==
    /\ stage = "dropping"
    /\ errno' \in {errno, "close"}
    /\ stage' = "failed"
    /\ UNCHANGED <<program, addr, cause, failure, resolver, task, modes, output, input, link>>

-------------------------------------------------------------------------------
\* The descriptor's owner

\* A descriptor is dropped, or given away, only when nobody borrows the socket.
Unborrowed == \A t \in Threads : task[t] = "idle"

\* into_raw_fd forgets the stream, from_raw_fd makes one of the descriptor again.
IntoRawFd ==
    /\ kind = "stream"
    /\ stage = "object"
    /\ Unborrowed
    /\ stage' = "raw"
    /\ UNCHANGED <<program, addr, errno, cause, failure, resolver, task, modes, output, input, link>>

FromRawFd ==
    /\ stage = "raw"
    /\ stage' = "object"
    /\ UNCHANGED <<program, addr, errno, cause, failure, resolver, task, modes, output, input, link>>

DropSocket ==
    /\ stage = "object"
    /\ Unborrowed
    /\ stage' = "closed"
    /\ UNCHANGED <<program, addr, errno, cause, failure, resolver, task, modes, output, input, link>>

-------------------------------------------------------------------------------
\* Calls of the threads

\* A thread calls write_all once, and reads until the end of the stream.
Call(t, method) ==
    /\ stage = "object"
    /\ task[t] = "idle"
    /\ method \in calls[t]
    /\ method = "write_all" => result[t] = "none"
    /\ method = "read" => t \notin eof
    /\ task' = [task EXCEPT ![t] = method]
    /\ UNCHANGED <<program, constructor, resolver, modes, output, input, link>>

Returns(t) == task' = [task EXCEPT ![t] = "idle"]

NonBlocking == "O_NONBLOCK" \in flags

\* set_nonblocking_fd: F_GETFL, the new flags, F_SETFL.
GetFlags(t) ==
    /\ task[t] = "set_nonblocking"
    /\ task' = [task EXCEPT ![t] = "F_SETFL"]
    /\ asked' \in {[asked EXCEPT ![t] = b] : b \in BOOLEAN}
    /\ seen' = [seen EXCEPT ![t] = flags]
    /\ raced' = [raced EXCEPT ![t] = FALSE]
    /\ UNCHANGED <<program, constructor, resolver, flags, output, input, link>>

OnlyAsked(old, on) == IF on THEN {"O_NONBLOCK"} ELSE {}
NewFlags(old, on)  == IF on THEN old \cup {"O_NONBLOCK"} ELSE old \ {"O_NONBLOCK"}

\* The locals of set_nonblocking_fd end with it.
Forget(t) == asked' = [asked EXCEPT ![t] = FALSE] /\ seen' = [seen EXCEPT ![t] = {}]

\* Everybody else's F_GETFL is out of date now.
Changed(t) == raced' = [u \in Threads |-> u # t /\ task[u] = "F_SETFL"]

SetFlags(t) ==
    /\ task[t] = "F_SETFL"
    /\ Returns(t)
    /\ flags' = NewFlags(seen[t], asked[t])
    /\ Changed(t)
    /\ Forget(t)
    /\ UNCHANGED <<program, constructor, resolver, output, input, link>>

\* Either fcntl fails.
FcntlFails(t) ==
    /\ task[t] \in {"set_nonblocking", "F_SETFL"}
    /\ Returns(t)
    /\ Forget(t)
    /\ raced' = [raced EXCEPT ![t] = FALSE]
    /\ UNCHANGED <<program, constructor, resolver, flags, output, input, link>>

\* Code that got the descriptor from as_raw_fd changes a flag of its own.
RawFcntl(t) ==
    /\ task[t] = "as_raw_fd"
    /\ Returns(t)
    /\ flags' = IF "O_ASYNC" \in flags THEN flags \ {"O_ASYNC"} ELSE flags \cup {"O_ASYNC"}
    /\ Changed(t)
    /\ UNCHANGED <<program, constructor, resolver, asked, seen, output, input, link>>

-------------------------------------------------------------------------------
\* How shutdown passes its argument on, and the directions that are shut down.
ShutOther(how) == CASE how = "Read" -> {"write"}
                    [] how = "Write" -> {"read"}
                    [] OTHER -> {"read", "write"}
Shut(how)      == CASE how = "Read" -> {"read"}
                    [] how = "Write" -> {"write"}
                    [] OTHER -> {"read", "write"}
half == UNION {Shut(how) : how \in shut}

-------------------------------------------------------------------------------
\* write_all, one send per step.  An EINTR changes nothing and is retried.

Unsent(t) == Buffer[t] - sent[t]

\* send accepts n bytes of what is left of the buffer.
RetryWhole(t, n) == [i \in 1..n |-> <<t, i>>]
Accepts(t, n)    == [i \in 1..n |-> <<t, sent[t] + i>>]

Send(t) ==
    /\ task[t] = "write_all"
    /\ "write" \notin half /\ peer # "reset"
    /\ \E n \in 1..Unsent(t) :
          /\ Len(wire) - acked + n <= Window
          /\ wire' = wire \o Accepts(t, n)
          /\ sent' = [sent EXCEPT ![t] = @ + n]
    /\ UNCHANGED <<program, constructor, resolver, task, modes, result, acked, input, link>>

\* How write_all returns: everything is sent, a non-blocking socket is full, the
\* connection is gone, or send returned 0.
Outcome(t, r) ==
    \/ r = "ok" /\ Unsent(t) = 0
    \/ /\ Unsent(t) > 0
       /\ \/ r = "again" /\ NonBlocking /\ Len(wire) - acked = Window
          \/ r = "broken" /\ ("write" \in half \/ peer = "reset")
          \/ r = "zero"

WriteAllReturns(t) ==
    /\ task[t] = "write_all"
    /\ \E r \in {"ok", "again", "broken", "zero"} :
          Outcome(t, r) /\ result' = [result EXCEPT ![t] = r]
    /\ Returns(t)
    /\ UNCHANGED <<program, constructor, resolver, modes, sent, wire, acked, input, link>>

-------------------------------------------------------------------------------
\* read, accept, recv and recv_from: one system call each

Receiving(t) == task[t] \in {"read", "accept", "recv", "recv_from"}

\* recv(fd, buf, len, 0) and accept consume what they return.
Peek(n)    == taken' = taken
Consume(n) == taken' = taken + n

Receive(t) ==
    /\ Receiving(t)
    /\ \E n \in 1..(IF kind = "stream" THEN Chunk ELSE 1) :
          /\ taken + n <= Len(incoming)
          /\ Consume(n)
          /\ got' = [got EXCEPT ![t] = @ \cup (taken + 1)..(taken + n)]
    /\ Returns(t)
    /\ UNCHANGED <<program, constructor, resolver, modes, output, incoming, eof, link>>

\* recv returns 0: the peer has finished and everything was read, or this side
\* was shut down.
AtEnd == (taken = Len(incoming) /\ peer = "finished") \/ "read" \in half

ReceiveEof(t) ==
    /\ task[t] = "read"
    /\ AtEnd
    /\ eof' = eof \cup {t}
    /\ Returns(t)
    /\ UNCHANGED <<program, constructor, resolver, modes, output, incoming, taken, got, link>>

ReceiveReset(t) ==
    /\ task[t] = "read"
    /\ peer = "reset"
    /\ Returns(t)
    /\ UNCHANGED <<program, constructor, resolver, modes, output, input, link>>

\* EAGAIN, EINTR, ECONNABORTED of a client that left, ECONNREFUSED that an earlier
\* datagram met: nothing is taken.
ReceiveFails(t) ==
    /\ Receiving(t)
    /\ Returns(t)
    /\ UNCHANGED <<program, constructor, resolver, modes, output, input, link>>

-------------------------------------------------------------------------------
\* shutdown, connect, send and send_to

\* It fails, with ENOTCONN, when the connection is gone.
Shutdown(t) ==
    /\ task[t] = "shutdown"
    /\ \/ \E how \in {"Read", "Write", "Both"} : shut' = shut \cup {how}
       \/ peer = "reset" /\ UNCHANGED shut
    /\ Returns(t)
    /\ UNCHANGED <<program, constructor, resolver, modes, output, input, peer, dest, posted>>

\* UdpSocket::connect: datagrams queued before stay in the queue.
Connect(t) ==
    /\ task[t] = "connect"
    /\ dest' \in Hosts \cup {dest}
    /\ Returns(t)
    /\ UNCHANGED <<program, constructor, resolver, modes, output, input, shut, peer, posted>>

\* send goes to the default peer; send_to refuses an IPv6 address and is refused
\* by a connected socket.
Post(t) ==
    /\ task[t] \in {"send", "send_to"}
    /\ \/ task[t] = "send" /\ dest # Nobody /\ posted' = posted \cup {dest}
       \/ task[t] = "send_to" /\ dest = Nobody /\ \E a \in Hosts : posted' = posted \cup {a}
       \/ UNCHANGED posted
    /\ Returns(t)
    /\ UNCHANGED <<program, constructor, resolver, modes, output, input, shut, peer, dest>>

-------------------------------------------------------------------------------
\* The peers and the network

Listening == stage \in {"object", "raw"}

Arrive ==
    /\ Listening
    /\ Len(incoming) < MaxArrivals
    /\ \/ kind = "stream" /\ peer = "open" /\ "read" \notin half
       \/ kind # "stream" /\ Len(incoming) - taken < QueueLimit
    /\ \E a \in Hosts : dest \in {Nobody, a} /\ incoming' = Append(incoming, a)
    /\ UNCHANGED <<program, constructor, resolver, task, modes, output, taken, got, eof, link>>

\* The peer of a stream ends its side, or resets the connection.
PeerEnds ==
    /\ kind = "stream" /\ Listening
    /\ \/ peer = "open" /\ peer' = "finished"
       \/ peer # "reset" /\ peer' = "reset"
    /\ UNCHANGED <<program, constructor, resolver, task, modes, output, input, shut, dest, posted>>

PeerReads ==
    /\ Listening
    /\ peer # "reset"
    /\ acked < Len(wire)
    /\ acked' = acked + 1
    /\ UNCHANGED <<program, constructor, resolver, task, modes, sent, result, wire, input, link>>

-------------------------------------------------------------------------------
Constructor == LookupStep \/ PickAddress \/ RequireV4 \/ CallSucceeds
               \/ CallFails \/ ReadErrno \/ DropHalfBuilt

Owner == IntoRawFd \/ FromRawFd \/ DropSocket

\* The steps of a call that the kernel lets go on.
Proceeds(t) == \/ Send(t)
               \/ WriteAllReturns(t)
               \/ Receive(t)
               \/ ReceiveEof(t)
               \/ ReceiveReset(t)

OtherCall(t) == \/ \E method \in Methods : Call(t, method)
                \/ GetFlags(t)
                \/ SetFlags(t)
                \/ FcntlFails(t)
                \/ RawFcntl(t)
                \/ ReceiveFails(t)
                \/ Shutdown(t)
                \/ Connect(t)
                \/ Post(t)

Network == Arrive \/ PeerEnds \/ PeerReads

Next == Constructor \/ Owner \/ Network \/ \E t \in Threads : Proceeds(t) \/ OtherCall(t)

Spec == Init /\ [][Next]_vars
\* A thread that the kernel lets go on does so.  Nothing makes a peer send or read,
\* nor a send return 0.
GoesOn(t) == Proceeds(t) /\ (result'[t] = "zero" => result[t] = "zero")
FairSpec == Spec /\ \A t \in Threads : WF_vars(GoesOn(t))

-------------------------------------------------------------------------------
\* Safety

\* However the short writes of several threads interleave, each thread's bytes are
\* on the wire once and in order, and after Ok all of them are (net.rs:141-151).
SentInOrder ==
    /\ \A k \in 1..Len(wire) : wire[k][2] \in 1..sent[wire[k][1]]
    /\ \A k, l \in 1..Len(wire) :
          k < l /\ wire[k][1] = wire[l][1] => wire[k][2] < wire[l][2]
    /\ \A t \in Threads : \A i \in 1..sent[t] : \E k \in 1..Len(wire) : wire[k] = <<t, i>>
    /\ \A t \in Threads : result[t] = "ok" => sent[t] = Buffer[t]

\* A set_nonblocking that succeeds sets the mode, and leaves the other flags as
\* they are unless somebody changed the flags between its two fcntls (net.rs:68-78).
FlagsKept == [][\A t \in Threads : SetFlags(t) =>
    /\ "O_NONBLOCK" \in flags' <=> asked[t]
    /\ ~raced[t] => flags' \ {"O_NONBLOCK"} = flags \ {"O_NONBLOCK"}]_vars

\* Threads that receive from one socket share what arrives: each byte, connection
\* or datagram goes to exactly one of them, none is skipped, and a 0 from read
\* means that all was read, unless this side was shut down (net.rs:94-97, 131-133, 240-253).
ReceivedOnce ==
    /\ taken <= Len(incoming)
    /\ UNION {got[t] : t \in Threads} = 1..taken
    /\ \A t, u \in Threads : t # u => got[t] \cap got[u] = {}
    /\ eof # {} /\ "read" \notin half => taken = Len(incoming)

\* A constructor's error is that of the call that failed, not of the close that
\* its half-built socket's drop makes afterwards (net.rs:116-126, 218-235, 301-311).
ErrorReported == stage = "failed" => failure = cause

\* While it walks the list, lookup_host has the IPv4 addresses of the nodes behind
\* it; it visits all of them and frees the list before it returns (net.rs:410-424).
LookupExact ==
    /\ lookup \in {"walk", "free"} =>
          Selects(out, [p \in 1..Len(list) |-> list[p].ai_addr],
                  {p \in 1..(cur - 1) : list[p].ai_family = "AF_INET" /\ list[p].ai_addr # Null})
    /\ lookup = "free" => cur > Len(list)
    /\ lookup \in {"ok", "err"} => list = <<>>

-------------------------------------------------------------------------------
\* The inductive invariant behind the safety properties

\* A constructor's address is checked before the first system call, and nothing
\* arrives before the last one.
ConstructorState ==
    /\ stage = "address" => addr # Nobody
    /\ stage \in SystemCalls => addr \in Hosts
    /\ stage \in Steps => incoming = <<>>
    /\ stage = "failing" => errno = cause
    /\ stage \in {"dropping", "failed"} => failure = cause

\* The walk starts with nothing and never leaves the list.
LookupState ==
    /\ lookup = "call" => list = <<>> /\ out = <<>> /\ cur = 1
    /\ lookup \in {"walk", "free"} => cur \in 1..(Len(list) + 1)

\* A thread is in a method of its own, and in write_all only once.
CallState == \A t \in Threads :
    /\ calls[t] \subseteq MethodsOf
    /\ task[t] \in calls[t] \cup {"idle", "F_SETFL"}
    /\ task[t] = "write_all" => result[t] = "none"

\* What F_GETFL returned holds until somebody changes the flags.
FlagsSeen == \A t \in Threads : task[t] = "F_SETFL" /\ ~raced[t] => seen[t] = flags

\* Nothing arrives after the end of a stream.
EndState == eof # {} => /\ kind = "stream"
                        /\ "read" \in half \/ (peer # "open" /\ taken = Len(incoming))

IInv == /\ TypeOK
        /\ ConstructorState
        /\ LookupState
        /\ LookupExact
        /\ CallState
        /\ FlagsSeen
        /\ SentInOrder
        /\ EndState
        /\ ReceivedOnce

-------------------------------------------------------------------------------
\* Liveness, under FairSpec

\* A thread that waits in read or write_all is released by another thread's
\* shutdown of its direction, and by the end of the connection (net.rs:169-177, 141-151).
CallsReleased == \A t \in Threads :
    /\ (task[t] = "read" /\ (shut \cap {"Read", "Both"} # {} \/ peer # "open"))
          ~> task[t] # "read"
    /\ (task[t] = "write_all" /\ (shut \cap {"Write", "Both"} # {} \/ peer = "reset"))
          ~> task[t] # "write_all"
===============================================================================
