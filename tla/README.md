# A TLA+ verification of ps5-payload-rust

This directory models the parts of the repository that keep state, fail half
way, or run concurrently: the thread and lock wrappers, sockets, the HTTP server
and its messages, the HTTP client, files and directories. The safety and liveness
properties are model-checked with TLC on small instances, and every safety property
and refinement is also proved with TLAPS, for every value of the constants. Paths below
are relative to `crates/`.

## The system

`ps5-sys` declares the SDK's C functions. `ps5` wraps them: errors
(`error.rs`, `util.rs`), files (`fs.rs`), sockets (`net.rs`), threads
(`thread.rs`) and the console's HTTP/2 stack (`http.rs`). `core` adds an HTTP/1.1
server (`core/src/http.rs`) on top of `ps5::net` and `ps5::thread`.

| component | state | operations | what makes it correct |
|---|---|---|---|
| spawn, trampoline, `JoinHandle` (`thread.rs:56-314`) | the boxed packet, an `Arc` with the result slot, the kernel's thread, the `joined` flag | `Builder::spawn`, the thread's own steps, `join`, drop of the handle | the packet is freed once, when its thread is done with it; the slot is read only by a joiner that is alone and never outlives or predeceases a user; join and detach only hit a live thread; every thread ends up reclaimed |
| `Mutex`, `MutexGuard`, `Condvar` (`thread.rs:316-540`) | the pthread objects, the guards that exist | `new`, `lock`, drop of a guard, `wait`, `notify_*`, drop | a guard excludes all others; a failing wait does not leave the mutex locked; a wait lets go of the mutex only in its sleep |
| `Server::serve` (`core/src/http.rs:267-300`) | the listener, the `Arc` of the handler, a thread per connection | bind, accept, spawn, drop of the handle | per-connection failures stay local; sockets and handler references are returned on every path |
| one connection (`core/src/http.rs:302-424`) | the request so far, its body, the response | `read_request`, the handler, `write_response`, shutdown | bounded memory; the handler gets exactly the declared body, once; a 400 has a reason; the connection ends |
| `Client` (`ps5/src/http.rs`) | the chain net pool, SSL, library, template; a request handle per call | `new` with unwinding, `request`, drop | no SCE handle leaks and none is used dead; the whole body is read |
| `Request`, `Response` (`core/src/http.rs:56-185, 357-395`) | the fields of a request; status, fields and body of a response | parsing a head, `path`, `query`, `header`; the builder, `encode` | the request means what was sent; every response announces the length of its body, and once as long as its fields fit on a line |
| files (`fs.rs:21-282, 400-420`) | descriptors and their offsets, the file | `OpenOptions::open`, `read_to_end`, `write_all`, `seek`, `set_len`, raw descriptors, drop | create_new only gets a file it made; appends and short writes lose nothing; an offset beyond `i64::MAX` is refused |
| directories (`fs.rs:330-381`) | the stream's position, the thread's `errno` | `next`, drop | every entry once, end and failure never confused |
| sockets (`net.rs:1-389`) | a descriptor, shared by reference | constructors, `read`, `write_all`, `shutdown`, `accept`, `recv*`, `send*`, `connect`, `set_nonblocking`, raw descriptors, drop | short writes of several threads keep each thread's order; what arrives is received once; flags of others survive; a shutdown releases who waits |
| `lookup_host` (`net.rs:391-425`) | the list `getaddrinfo` allocates | resolve, walk, free | all IPv4 addresses, and the list freed |

How they interact: `serve` calls `TcpListener::accept`, clones the handler's
`Arc`, and moves clone and stream into a closure for `Builder::spawn`, whose handle
it drops at once. The thread runs `serve_connection`, which calls
`TcpStream::read` and `write_all`, calls the handler back, and shuts the socket
down; the socket is closed when the closure drops its captures. The client,
files and directories are used by payloads from any thread.

The hard behaviours: the race between a thread that finishes and a handle that
is joined, moved or dropped; a chain of creations of which any may fail; a byte
stream that is cut anywhere; signals that interrupt calls; an accept loop that
meets errors which are not its own; a condition variable's release-and-sleep;
`errno`, which every call of a thread may change. `PROJECT.json` lists the
hazards with the line where each bites and the property that covers it.

## Modules

Each module has one action per operation, or per system call inside an operation
where other threads can run between two of them. A handler's straight-line code
between two calls is part of one action. Definitions keep the names of the code
where it has one; `PROJECT.json` maps each to its lines.

* `ThreadResult` is what spawn and join promise: each accepted closure is run, and its
  value is delivered to one joiner or discarded after the handle was given up.
  `JoinHandle` is the code. `owner[t]` is where the owning side of task t is: inside
  `create_thread` (`attr_init`, `setstacksize`, `create`, `error`), holding the handle
  (`held`, by the thread `actor[t]`, which may hand it to another), in `join`
  (`joining`, `returned`), in `Drop` (`dropping`, then `fields` for the drop of the
  `Arc`), or `gone`. `run[t]` is where the trampoline is and `os[t]` the kernel's
  thread. `refs`, `slot`, `packet` are the `Arc`, the `Option` and the `Box`; `taken`
  and `drops` count what happened to the value. Main and every running closure may
  spawn, join and drop, so cycles of joins and self-joins are included.
* `Exchange` is what serving one connection comes to; `HttpConnection` is the
  code over the calls of `net.rs`. Bytes are counted, not spelled out: a request
  is the length of its head, what parsing makes of it, and the bytes that follow.
  `Arrive`, `Finish`, `Reset` and `ClientRead` are the client. Every recv may
  return any prefix of what has arrived, or fail with EINTR, and every send may be
  short or make write_all give up (`WriteFails`).
* `HttpServer` is `serve`. It composes `Thread == INSTANCE JoinHandle WITH Tasks
  <- Conns` (Main runs the accept loop) and an `Exchange` per connection, so that
  a thread's closure is over only after its exchange is.
* `Monitor` has `holder[m]`, the kernel's view of a mutex, and `guards[w][m]`,
  the guards Rust knows of: a wait forgets a guard while it holds the mutex,
  and the error path rebuilds one to release it. Rust's borrow rules appear
  as `MutexBorrowed` and `CondvarBorrowed`: a drop needs exclusive access. Callers
  drop their guards.
* `HttpClient` has the set of live handles of each client and one sequence of
  request calls per call; `Borrowed` is the borrow of `&self`. `sent`
  is the body the server sends, as its length, and `body` the buffer it is read into.
* `File` has jobs of several threads that open one path with options of their own and
  read it to the end, write a buffer, or adjust it: any calls of `seek`, `set_len` and
  the raw conversions. `AsOff` is the cast of a u64 to `off_t`, whose width is the
  constant `OffMax`. Bytes carry the writer and their place in its buffer; `creator`
  remembers who made the file that is there. `ReadDir` has the stream, the thread's
  `errno`, and the other calls of the thread that change it.

* `Socket` is one `TcpStream`, `TcpListener` or `UdpSocket` from its constructor
  (`stage`, one step per system call, each of which may fail, whereupon `cvt_i32` reads
  `errno` and what was built is dropped, which may set it anew) to its drop. In between,
  each thread calls what its program allows: `task[t]` is the call it is in. No method
  keeps state in Rust, so what threads share is the descriptor: `flags` of the open file
  description, `wire` (the bytes that send accepted, each with its writer and its place
  in the writer's buffer), `incoming` (what arrived) and `taken` (how much of it was
  received). `raced[t]` remembers whether anybody changed the flags between the two
  fcntls of t. A network that loses, duplicates and reorders is an arbitrary sequence of
  arrivals. `Lookup` is `lookup_host`, which a client's constructor runs first (`Host ==
  INSTANCE Lookup`); once the list is freed, an index into it denotes nothing.
* `HttpMessage` is the data `HttpConnection` leaves out: the head as lines of words,
  parsed line by line into a Request, a handler that builds a Response by any calls of
  its methods and may copy fields from the request, and `encode`. Words stand for runs
  of characters, so that only ":", "?", the blank, the line break and the case of a name
  have a meaning. `wire` is one text, to which encode adds each name and value as it is,
  with a history of the places where encode itself ended a line: a handler's names and
  values are any texts, also with blanks, colons and line breaks, as in the code. Its
  generic names begin with `Message` and those of `ReadDir` with `Dir`, so that a proof
  module can extend them beside `HttpConnection` and `File`.

* `Selection` has `Selects(t, s, P)`: t is made of the elements of s at the positions P,
  in order. `AppendsKept`, `EntriesInOrder`, `LookupExact` and `ResponseFramed` say with
  it that nothing is lost, repeated or reordered on the way.

`MC*` modules give the constants values, and `*Proofs` hold the theorems. Some
definitions, named in the header of their module, are used by no action: each is
a mistake that could be made in the definition after it (a dropped condition, a
missing reset, an off-by-one). `PROJECT.json` lists under `mutants` which property
fails when it is put in its place, which shows that the property depends on that
code.

## Runs

| run | instance | shows |
|---|---|---|
| `join` | main thread and 2 tasks, 8,293 states | references, slot and kernel threads; refinement of `ThreadResult`; liveness of spawn, join and drop |
| `http` | 18 requests, 1,020,361 states; and 292 heads, 4 names, 3 values, 2 calls of a handler, 367,570 states | bounded buffers, exact bodies, justified refusals, refinement of `Exchange`, and liveness of one connection; parsing a head, framing a response |
| `server` | 3 connections, backlog 2, 3 descriptors, 222,715 states | references and sockets of the accept loop; it never waits for a connection; connections are reclaimed |
| `monitor` | 3 threads, 2 mutexes, 1 condvar, 10,270 states | exclusion, no leaked lock, waits that release and sleep at once; woken threads return |
| `client` | 2 clients, 2 calls, bodies up to 3 in chunks of 2, 134,523 states up to symmetry | the handle chain, the requests, whole bodies, which error is reported |
| `fs` | 2 jobs, 7 option sets, 3 bytes, offsets of 3 bits, 706,833 states up to symmetry; and directories of up to 4 entries of 4 names, 33,163 states | creation, exact writes, appends, reads, offsets; the iterator against `errno` |
| `net` | 2 threads, 6 programs over 3 kinds of socket, 598,033 states | order on the wire, who receives what, the constructors' errors, flags, the lookup, and that blocked calls are released |
| `join_detached`, `connection_eintr`, `connection_head`, `server_return`, `message_framed` | as above or smaller | the findings below, one each |

Type invariants are not among the runs' properties: they are conjuncts of the
inductive invariants, and proved. So are `PacketOnce`, `ThreadReclaimed` and `ValueOnce` of
`JoinHandle`. `http` and `fs` each hold two systems that share nothing (`MCHttp`, `MCFs`):
a behaviour is one of either, and the other stays as it began, so that the numbers of
states add up.

Why these bounds are enough. Two tasks and Main give a joiner, a joined thread and a
third party that may hold either handle, and cycles of joins; one more task repeats
these pairs, and the safety properties are proved for any number. The connection's
limits are 41 bytes of head, 4 of body, and reads of 6, so that a marker may be cut at
each of its bytes and a read may cross each limit; the requests lie below, at and above
each limit, and lengths that do not fit a usize are above `UsizeMax` = 99. A window of 2
makes writes of 3 bytes short. The server's queue holds 2 of 3 connections and its
descriptor table the listener and 2 of 3. Two calls on two clients show a call on a
client that another thread drops. Two jobs show each pair of an appender, a creator, a
truncating writer, a reader, an updater and one that seeks or truncates. Offsets run up
to `OffMax` = 3, so a u64 up to 7 has every sign once it is cast. In `net` a window of 2
makes two writers of 2 bytes wait and write short, two arrivals of either host are
enough for one before and one after a `connect`, and lists of two nodes have each pair
of usable and unusable ones. For heads, two fields are enough for one that repeats
another in another spelling, and two calls of a handler for one that sets what another
set; its names include both that encode sets itself and one of them with a blank behind
it, its values one with a line break. Four directory entries hold `.`, `..` and two
names in any order.

Deadlock is not checked: every one of these systems may stop for good (all
threads done or asleep, the connection closed, the iterator dropped).

### Fairness

* `JoinHandle`: a thread inside `spawn`, `join` or a drop and a thread of the
  kernel go on when they can: the scheduler. Closures need not return, so
  `JoinReturns` starts when the closure has returned.
* `HttpConnection`: the connection's thread goes on (weak fairness of `Proceeds`), the
  handler returns, and the client reads what arrived. Nothing has to fail (`Fails`), but
  for calls on a connection that was reset. A client need not send: `ConnectionEnds`
  starts when the request has arrived or the client has ended its side. The code has no
  timeout, so a silent client holds its thread.
* `HttpServer`: the accept loop and the trampolines go on. Nothing is
  assumed of clients or of the handler.
* `Monitor`: a call goes on when it can; a mutex that is free again and again is
  given to each waiter in the end, and threads drop their guards (strong
  fairness, because the mutex may be taken in between). pthread mutexes promise
  no order, but starving one waiter for ever is ruled out by a preemptive
  scheduler. Callers who hold one mutex and wait for another can deadlock;
  `WokenReturns` says so in its premise `Unnested`.
* `Socket`: a thread whose call the kernel lets go on does so (weak fairness of
  `GoesOn`): it receives what is there, or sees the end of the stream. Nothing makes a
  peer send or read, or a send return 0, so a reader may wait for ever;
  `CallsReleased` starts when the direction was shut down or the connection ended.

## Proofs

| module | theorems |
|---|---|
| `JoinHandleProofs` | `Invariant`, `TypeCorrect`, `SharedRefsHold`, `JoinerAloneHolds`, `HandleLiveHolds`, `ValueOnceHolds`, `PacketOnceHolds`, `ThreadReclaimedHolds`, `Refinement` of `ThreadResult` |
| `HttpConnectionProofs` | of `HttpConnection`: `Invariant`, `TypeCorrect`, `BoundedMemoryHolds`, `BodyExactHolds`, `RequestConsumedHolds`, `RejectsJustifiedHolds`, `Refinement` of `Exchange` |
| | of `HttpMessage`: `MessageInvariant`, `MessageTypeCorrect`, `RequestReadHolds`, `ResponseFramedHolds` |
| `HttpServerProofs` | `Invariant`, `TypeCorrect`, `HandlerRefsHolds`, `StreamLifetimeHolds`, `ThreadsComposed`, `ConnectionsComposed` |
| `MonitorProofs` | `Invariant`, `TypeCorrect`, `GuardExcludesHolds`, `LockNotLeakedHolds`, `WaitAtomicHolds` |
| `HttpClientProofs` | `Invariant`, `TypeCorrect`, `NothingLeaksHolds`, `HandlesLiveHolds`, `RequestDeletedHolds`, `WholeBodyHolds`, `FirstErrorKeptHolds` |
| `FileProofs` | of `File`: `Invariant`, `TypeCorrect`, `CreatedNewHolds`, `ReadsPrefixHolds`, `AppendsKeptHolds`, `WriteExactHolds`, `OffsetsExactHolds` |
| | of `ReadDir`: `DirInvariant`, `DirTypeCorrect`, `EntriesInOrderHolds`, `NullExplainedHolds` |
| `SocketProofs` | `Invariant`, `TypeCorrect`, `SentInOrderHolds`, `ReceivedOnceHolds`, `ErrorReportedHolds`, `LookupExactHolds`, `FlagsKeptHolds` |
| `SelectionProofs` | the lemmas `SelectsNone`, `SelectsSame`, `SelectsMore` |

The assumptions are the modules' `ConstantsType` (`MessageConstants`, `DirConstants`):
the special values are distinct, sizes are natural numbers. No set of threads, tasks or
requests needs to be finite or small; the connections of a server are a finite set, since
`HandlerRefs` counts them. `MessageConstants` also says what a word is: `Fold` takes the
spellings of Content-Length and of Connection to one each, numerals are words other than
separators, every length that a handler may send has a numeral, zero included, and the
lines of a request's head have no line break (`find_double_crlf` and `split` have cut
there). Of a handler's names and values it assumes nothing.

Each proof has an inductive invariant `IInv` (`MessageIInv`, `DirIInv`), defined next to
the properties and made of named parts.

* `JoinHandle`: the properties of one task are not inductive because they speak of one
  side only. `TaskInv` adds how far the owning side is when the thread side is at
  a given point, and the other way round: `Lifecycle` (a thread exists exactly
  when spawn succeeded), `PthreadState` (the kernel's thread follows the
  trampoline and the claim of the handle on it), `ValueState` (where the value is).
  Every action changes one task, so the proof is one lemma per side.
* `HttpConnection`: `Stream` orders the bytes read, arrived and sent; `HeadRead`
  and `BodyRead` say what reading has established, `BodyRead` with the equation
  head + marker + body = bytes read, from which `BodyExact` and `RequestConsumed`
  follow; `Failure` and `Progress` tie reasons and answers to the place in the code.
* `HttpServer`: `LoopState` says that the loop works on one connection at a time,
  `ThreadState` which states of `JoinHandle` are left when no handle is joined, and
  `OneUnowned` that only the stream just accepted has no closure: without it
  a spawn could leave a second open socket behind. `HandlerRefs` follows from three
  lemmas on cardinalities: a step makes a closure, drops one, or does neither.
  `ThreadsComposed` is `Spec => Thread!Spec`, so that what is proved of `JoinHandle` (a
  closure's value dropped once, its packet freed once, a detached thread reclaimed) holds
  of the server's threads; `ConnectionsComposed` is `Spec => Exch(c)!Spec` for each
  connection, which `HttpConnection` implements.
* `HttpMessage`: `Parsing` says that the fields so far are what the lines so far mean,
  `Encoding` that the lines so far are the fields so far but for those that encode sets
  itself. Under them are lemmas on texts: where `split_once` cuts (`CutPlace`), what `trim`
  leaves (`TrimSurrounds`), what a line means that is parsed (`FieldLineMeans`) or written
  (`LineMeans`), and that path and query are the target again (`TargetParts`). Values that
  begin or end with blanks, names that only differ in case and fields copied from the
  request are all covered: the client reads each value trimmed. `WireOK` says that the
  lines follow each other and the last ends where the text does; `PushedLine` that a
  line that is added leaves those before it as they are. With it the last three lines are
  right whatever the handler set. What `ResponseFramed` says of the fields before them has
  a premise, `AllFit`: names without colon, line break, or blanks around them, and made-up
  values without line breaks. Of values copied from the
  request it assumes nothing, as they never have a line break. Without the premise it is false, which the run `message_framed` shows.
* `Monitor`: `WaitHolds` says that a thread whose guard was forgotten has the mutex
  instead, which is what makes `LockNotLeaked` inductive, and `CallShape` which
  mutex a call is about.
* `HttpClient`: `Chain` determines the live handles from the stage of a client, so
  that the unwind list of each failing step is right by a table; `Progress` says that
  a call in progress borrows a client that is ready; `BodySoFar` that the buffer is what was
  read so far, which at the end of the body is `WholeBody`.
* `File`: `JobState` says that only a job with an open descriptor has got anywhere,
  and that its file exists; `OffsetState` that a reader's offset is the length of its
  buffer and a writer's the number of bytes written, which is where an append and
  an overwrite meet. `AppendsKept` is inductive beside them: one append puts the bytes of
  one job behind all places of the file (`AppendKeeps`, from `SelectsMore`) and moves
  nobody's (`SelectsSame`). `ReadSoFar` is `ReadsPrefix` byte by byte. `OverwrittenSeq`
  says what one write leaves in the file. `AbsentNoFile` is the one further assumption:
  the value for no file is not a sequence of bytes.
* `ReadDir`: `AtNull` says that errno is 0 exactly when readdir did not fail, and
  `EntriesInOrder` is itself inductive: each entry is selected or skipped.
* `Socket`: each safety property is a conjunct, with what a step needs to keep it:
  `FlagsSeen` (what F_GETFL returned is still true unless the call was raced) for
  `FlagsKept`, `EndState` (nothing arrives after an end that was read) for
  `ReceivedOnce`, `ConstructorState` (errno is the failed call's until it was read) for
  `ErrorReported`, and `LookupState` (the walk
  starts with nothing and stays in the list) for `LookupExact`. `OutputFrame`,
  `InputFrame` and `LinkFrame` say which actions touch which part of the state, so
  that each conjunct's proof has only its own few cases.

What a filter keeps is said by positions (`Selects`) because the library's `SelectSeq`
is defined by recursion, of which the prover knows nothing, while the first or last place
of something in a sequence is the least or greatest element of a set of numbers.
`LeastElement` derives from the library's theorem that < is well-founded on Nat that such
an element exists.

What is only model-checked: the liveness properties of `join`, `http`, `server`,
`monitor` and `net` (`JoinReturns`, `AbandonedThreadEnds`, `ConnectionEnds`,
`AcceptLoopNeverWaits`, `ConnectionReclaimed`, `WokenReturns`, `CallsReleased`), since the
prover has no rules for fairness and none for ENABLED; and the five violated claims
below. Every invariant and every refinement that a run checks is also a theorem.
A theorem of `JoinHandle` cannot be cited through the instance in `HttpServer`: that
`ThreadsComposed` carries it over is the reader's last step.

## Where the code and its words part

* **A failed join leaks its thread** (`thread.rs:154`, run `join_detached`).
  `joined` is set before the return code is looked at. A thread that joins a handle
  of itself gets EDEADLK; the drop that follows does not detach it.
* **An interrupted recv is a 400** (`core/src/http.rs:345, 404`, run
  `connection_eintr`). accept and write_all retry EINTR, recv does not.
* **serve returns for what is not the listener's failure**
  (`core/src/http.rs:288`, run `server_return`): ECONNABORTED and EMFILE.
* **The cap on a request's head is not one** (`core/src/http.rs:342`, run
  `connection_head`). The length is compared before a recv and the end of the head
  looked for after it. A head up to `READ_CHUNK` - 4 bytes longer than
  `max_header_bytes` is served if the recv that crosses the limit brings its empty line.
  And a head of 2 bytes less than the limit, or more, may be refused: the
  comparison counts what a recv brought of its empty line. `RejectsJustified` therefore
  counts the marker: a head that fits with it is never refused for its size.
* **A framing header is not always ignored** (`core/src/http.rs:173`, run
  `message_framed`). A field that a handler names Content-Length with a blank behind it, or
  a value with a line break, puts a second field of that name before the one of `encode`.

Others are in the models without a run of their own. `Mutex::new` and `Condvar::new`
destroy an object whose initialisation failed (`thread.rs:353, 466`): `?` drops what was
built around the slot, although the SAFETY comment of the drop says it was initialised.
`UdpSocket::recv` says "Receive from the connected peer" (`net.rs:370`), but a datagram
that was queued before `connect` is received after it, whoever sent it. `open` passes on
combinations that `std::fs::OpenOptions` refuses (`fs.rs:251-267`): a read-only open
with truncate empties the file, which is why `ReadsPrefix` excepts such jobs.
`TcpStream::write_all` reports errno when send returns 0, which sets none
(`net.rs:144`). And some properties state what the code does where a reader might expect
something else: the buffer of a head may exceed its limit by one read
(`BoundedMemory`), and a body that ends early is
handed over as it is (`BodyExact`), as is a request whose Content-Length does not
fit a usize, which counts as 0.

## Not modelled, and why

* `reason_phrase`, `status_text` and the formatting of errors: wording.
* The path operations (`remove_file`, `rename`, `create_dir`, `remove_dir`, `exists`,
  `metadata`): one system call each, no state in the crate, so that a model would be
  the kernel's name space.
* `error.rs` and `util.rs` have no module: the choice between a result and an error,
  when errno is read, and EINTR are in the actions of the callers.
* The bytes of a `sockaddr_in` and of a directory entry's name: an address and a
  name are model values.
* `set_nodelay` and `sync_all`: they change what only timing or a power loss shows.
* Bindings, build scripts and the inventory: no behaviour.
* Read timeouts: the code has none, so a client that stays silent keeps a thread and
  its stack; no doc says otherwise.
* A guard that a caller gives to `mem::forget`: the mutex would then stay locked, and
  could be dropped locked.
* How much of a datagram fits into the buffer, and the address that `recv_from` and
  `accept` report: the kernel cuts the one and fills in the other.
* A panic in a handler (which aborts), SIGPIPE on a closed socket and what `sceHttp2` does with
  several requests on one connection are outside what the source decides.

## Plan

The order is by what a failure would cost a payload.

1. Done: threads, the connection and its messages, the server, locks, the client,
   files, sockets, the resolver, directories; proofs of the safety of each, of both
   refinements, and that the server composes `JoinHandle` and `Exchange`.
2. A File shared by threads (one offset for several jobs), and paths that are
   removed or renamed while they are open.
3. `HttpServer` over `Socket` instead of its own descriptors, so that a handler that
   shuts its stream down meets the accept loop.
4. `HttpConnection` over the lines of `HttpMessage` instead of the Booleans of a request,
   so that one refinement covers a request from its bytes to its fields.
