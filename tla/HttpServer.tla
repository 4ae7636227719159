------------------------------ MODULE HttpServer ------------------------------
(***************************************************************************)
(* Server::serve of crates/core/src/http.rs: the accept loop of a          *)
(* thread-per-connection server, over TcpListener of crates/ps5/src/net.rs *)
(* and Builder::spawn of crates/ps5/src/thread.rs.                         *)
(*                                                                         *)
(* The threads are those of JoinHandle, one task per connection, spawned   *)
(* by Main, which runs the accept loop and drops each handle at once.  The *)
(* closure of a thread is serve_connection, of which Exchange says what it *)
(* does.  The closure owns the connection's socket and a reference to the  *)
(* handler.                                                                *)
(*                                                                         *)
(* SharedHandler, LeakStream and JoinConnection are used by no action: each *)
(* is a plausible mistake in the definition after it, and put in its place *)
(* makes a property below fail.                                            *)
(***************************************************************************)
EXTENDS Naturals, FiniteSets

CONSTANTS Conns,      \* the connections clients may open
          Main,       \* the thread that called serve
          NoThread,   \* see JoinHandle
          Backlog,    \* of listen
          MaxFds      \* descriptors the process may have open

ASSUME ConstantsType == /\ IsFiniteSet(Conns)
                        /\ Main \notin Conns
                        /\ NoThread \notin Conns \cup {Main}
                        /\ Backlog \in Nat \ {0}
                        /\ MaxFds \in Nat \ {0}

VARIABLES
    acceptor,   \* where serve is
    stopped,    \* why serve returned
    listener,   \* the listening socket
    sock,       \* the socket of each connection
    handlers,   \* strong count of the Arc<H>
    phase,      \* of each connection's exchange
    answer,
    owner, actor, attr, packet, run, os, joined, refs, slot, taken, drops

threads     == <<owner, actor, attr, packet, run, os, joined, refs, slot, taken, drops>>
connections == <<sock, phase, answer>>
vars == <<acceptor, stopped, listener, handlers, connections, threads>>

Thread == INSTANCE JoinHandle WITH Tasks <- Conns

Exch(c) == INSTANCE Exchange WITH phase <- phase[c], answer <- answer[c]

Phases  == {"reading", "handling", "answering", "closed"}
Answers == {"none", "handler", "400"}

TypeOK ==
    /\ acceptor \in {"socket", "bind", "accept", "spawn", "spawning", "return"}
    /\ stopped  \in {"no", "bind", "listener", "aborted", "descriptors"}
    /\ listener \in {"none", "open", "listening", "closed"}
    /\ sock     \in [Conns -> {"none", "queued", "aborted", "refused", "open", "closed"}]
    /\ handlers \in Nat
    /\ phase    \in [Conns -> Phases]
    /\ answer   \in [Conns -> Answers]
    /\ Thread!TypeOK

Init ==
    /\ acceptor = "socket"
    /\ stopped = "no"
    /\ listener = "none"
    /\ sock = [c \in Conns |-> "none"]
    /\ handlers = 0
    /\ phase = [c \in Conns |-> "reading"]
    /\ answer = [c \in Conns |-> "none"]
    /\ Thread!Init

Descriptors == {c \in Conns : sock[c] = "open"}
DescriptorFree ==
    Cardinality(Descriptors) + (IF listener \in {"open", "listening"} THEN 1 ELSE 0) < MaxFds

Queue == {c \in Conns : sock[c] \in {"queued", "aborted"}}

-------------------------------------------------------------------------------
\* Clients

\* The kernel completes a connection and queues it for accept.
Connect(c) ==
    /\ listener = "listening"
    /\ sock[c] = "none"
    /\ Cardinality(Queue) < Backlog
    /\ sock' = [sock EXCEPT ![c] = "queued"]
    /\ UNCHANGED <<acceptor, stopped, listener, handlers, phase, answer, threads>>

\* The client resets the connection before it is accepted.
Abort(c) ==
    /\ sock[c] = "queued"
    /\ sock' = [sock EXCEPT ![c] = "aborted"]
    /\ UNCHANGED <<acceptor, stopped, listener, handlers, phase, answer, threads>>

-------------------------------------------------------------------------------
\* serve: TcpListener::bind

\* socket() succeeds, or serve returns its error.
OpenListener ==
    /\ acceptor = "socket"
    /\ \/ /\ acceptor' = "bind"
          /\ listener' = "open"
          /\ UNCHANGED stopped
       \/ /\ acceptor' = "return"
          /\ stopped' = "bind"
          /\ UNCHANGED listener
    /\ UNCHANGED <<handlers, connections, threads>>

\* setsockopt, bind and listen succeed and the handler is put in an Arc, or the
\* half-built listener is dropped and its socket closed.
StartListening ==
    /\ acceptor = "bind"
    /\ \/ /\ acceptor' = "accept"
          /\ listener' = "listening"
          /\ handlers' = 1
          /\ UNCHANGED stopped
       \/ /\ acceptor' = "return"
          /\ listener' = "closed"
          /\ stopped' = "bind"
          /\ UNCHANGED handlers
    /\ UNCHANGED <<connections, threads>>

-------------------------------------------------------------------------------
\* serve: the loop

\* listener.accept() returns a stream.  An EINTR changes nothing and is retried.
Accept(c) ==
    /\ acceptor = "accept"
    /\ sock[c] = "queued"
    /\ DescriptorFree
    /\ sock' = [sock EXCEPT ![c] = "open"]
    /\ acceptor' = "spawn"
    /\ UNCHANGED <<stopped, listener, handlers, phase, answer, threads>>

\* What accept may fail with: ECONNABORTED for a client that left the queue,
\* EMFILE, or an error of the listening socket.
AcceptError(why) ==
    \/ why = "aborted" /\ \E c \in Conns : sock[c] = "aborted"
    \/ why = "descriptors" /\ ~DescriptorFree
    \/ why = "listener"

\* Every error but EINTR is returned: the listener and the loop's Arc are dropped,
\* and the kernel refuses what was still queued.
AcceptFails ==
    /\ acceptor = "accept"
    /\ \E why \in {"aborted", "descriptors", "listener"} :
          AcceptError(why) /\ stopped' = why
    /\ acceptor' = "return"
    /\ listener' = "closed"
    /\ handlers' = handlers - 1
    /\ sock' = [c \in Conns |-> IF c \in Queue THEN "refused" ELSE sock[c]]
    /\ UNCHANGED <<phase, answer, threads>>

\* Arc::clone(&handler), before spawn takes the closure that owns the clone.
SharedHandler == handlers' = handlers
CloneHandler  == handlers' = handlers + 1

\* Builder::new().stack_size(..).spawn(..) begins: its attr is always initialised.
SpawnConnection(c) ==
    /\ acceptor = "spawn"
    /\ sock[c] = "open"
    /\ Thread!Spawn(Main, c)
    /\ owner'[c] = "attr_init"
    /\ CloneHandler
    /\ acceptor' = "spawning"
    /\ UNCHANGED <<stopped, listener, connections>>

SpawnStep(c) ==
    /\ \/ Thread!AttrInit(c)
       \/ Thread!AttrSetStackSize(c)
       \/ Thread!PthreadCreate(c)
    /\ UNCHANGED <<acceptor, stopped, listener, handlers, connections>>

\* The closure is dropped with the packet, and with it stream and handler.
LeakStream(c)  == UNCHANGED sock
CloseStream(c) == sock' = [sock EXCEPT ![c] = "closed"]

SpawnFails(c) ==
    /\ Thread!SpawnFailed(c)
    /\ CloseStream(c)
    /\ handlers' = handlers - 1
    /\ acceptor' = "accept"
    /\ UNCHANGED <<stopped, listener, phase, answer>>

\* `let _ =` drops the handle at once.
JoinConnection(c) == Thread!Join(Main, c)
DropConnection(c) == Thread!DropHandle(Main, c)

ForgetHandle(c) ==
    /\ acceptor = "spawning"
    /\ DropConnection(c)
    /\ UNCHANGED <<acceptor, stopped, listener, handlers, connections>>

\* The drop of the handle; when it is done the loop accepts again.
HandleStep(c) ==
    /\ \/ Thread!DropDetach(c) /\ UNCHANGED acceptor
       \/ Thread!DropShared(c) /\ acceptor' = "accept"
    /\ UNCHANGED <<stopped, listener, handlers, connections>>

-------------------------------------------------------------------------------
\* The connection's thread

\* A step of serve_connection.
ServeStep(c) ==
    /\ run[c] = "closure"
    /\ \E p \in Phases, a \in Answers :
          /\ phase' = [phase EXCEPT ![c] = p]
          /\ answer' = [answer EXCEPT ![c] = a]
          /\ Exch(c)!Next
    /\ UNCHANGED <<acceptor, stopped, listener, sock, handlers, threads>>

\* serve_connection has returned; the closure drops what it captured, the stream
\* first.
DropStream(c) ==
    /\ run[c] = "closure"
    /\ phase[c] = "closed"
    /\ sock[c] = "open"
    /\ sock' = [sock EXCEPT ![c] = "closed"]
    /\ UNCHANGED <<acceptor, stopped, listener, handlers, phase, answer, threads>>

LeaveClosure(c) ==
    /\ sock[c] = "closed"
    /\ Thread!ClosureReturn(c)
    /\ handlers' = handlers - 1
    /\ UNCHANGED <<acceptor, stopped, listener, connections>>

ThreadStep(c) ==
    /\ Thread!ThreadStep(c)
    /\ UNCHANGED <<acceptor, stopped, listener, handlers, connections>>

-------------------------------------------------------------------------------
AcceptorStep ==
    \/ OpenListener
    \/ StartListening
    \/ \E c \in Conns : \/ Accept(c)
                        \/ SpawnConnection(c)
                        \/ SpawnStep(c)
                        \/ SpawnFails(c)
                        \/ ForgetHandle(c)
                        \/ HandleStep(c)

ConnectionStep(c) == DropStream(c) \/ LeaveClosure(c) \/ ThreadStep(c)

Next == \/ AcceptorStep
        \/ AcceptFails
        \/ \E c \in Conns : Connect(c) \/ Abort(c) \/ ServeStep(c) \/ ConnectionStep(c)

Spec == Init /\ [][Next]_vars
\* serve and the trampolines run whenever they can.  Clients and the handler owe
\* nothing: an exchange may last for ever.
FairSpec == /\ Spec
            /\ WF_vars(AcceptorStep)
            /\ \A c \in Conns : WF_vars(ConnectionStep(c))

-------------------------------------------------------------------------------
\* Safety

\* A closure that exists, in the packet or on the stack of its thread.
ClosureLive(c) == owner[c] \in Thread!Spawning \/ run[c] \in {"start", "closure"}
Closures == {c \in Conns : ClosureLive(c)}

\* The handler is shared by exactly the loop and the closures that exist: it
\* outlives every connection that may still call it, also after serve has
\* returned, and is dropped with the last of them (http.rs:280, 291-297).
HandlerRefs ==
    handlers = Cardinality(Closures)
               + IF acceptor \in {"accept", "spawn", "spawning"} THEN 1 ELSE 0

\* An accepted socket is open exactly while the loop or a closure owns it: it is
\* closed on every path, spawn failures included, and never while its exchange
\* goes on (http.rs:293-297, net.rs:200-204).
StreamLifetime == \A c \in Conns :
    /\ ClosureLive(c) /\ phase[c] # "closed" => sock[c] = "open"
    /\ sock[c] = "open" => ClosureLive(c) \/ acceptor = "spawn"
    /\ sock[c] = "closed" => owner[c] = "err" \/ phase[c] = "closed"

-------------------------------------------------------------------------------
\* The inductive invariant behind the safety properties

\* The loop is in the middle of a spawn, or of dropping the handle.
Busy == Thread!Spawning \cup {"held", "dropping", "fields"}

\* The loop works on one connection at a time, and on none before it listens.
LoopState ==
    /\ acceptor \in {"socket", "bind"} => \A c \in Conns : owner[c] = "none"
    /\ \A c \in Conns : owner[c] \in Busy => acceptor = "spawning"
    /\ \A c, d \in Conns : owner[c] \in Busy /\ owner[d] \in Busy => c = d

\* What the loop makes of JoinHandle: no handle is ever joined.
ThreadState == \A c \in Conns :
    /\ owner[c] \in {"none", "err", "gone"} \cup Busy
    /\ run[c] = "none" <=> owner[c] \in {"none", "err"} \cup Thread!Spawning
    /\ refs[c] = Thread!RefsOf(c)

\* Only the stream the loop has just accepted is owned by no closure.
OneUnowned == \A c, d \in Conns :
    sock[c] = "open" /\ sock[d] = "open" /\ ~ClosureLive(c) /\ ~ClosureLive(d) => c = d

IInv == TypeOK /\ LoopState /\ ThreadState /\ StreamLifetime /\ OneUnowned /\ HandlerRefs

-------------------------------------------------------------------------------
\* Liveness, under FairSpec

\* No client, handler or failed spawn keeps the loop from accepting the next
\* connection (http.rs:270-273).
AcceptLoopNeverWaits == acceptor \in {"spawn", "spawning"} ~> acceptor = "accept"

\* When its exchange is over a connection costs nothing any more: its socket is
\* closed and its thread, which nobody joins, is reclaimed (http.rs:293-297).
ConnectionReclaimed == \A c \in Conns :
    phase[c] = "closed" ~> sock[c] = "closed" /\ os[c] = "reclaimed" /\ refs[c] = 0

-------------------------------------------------------------------------------
\* "Per-connection errors (parse failures, dropped sockets) are handled locally ...
\* and never stop the accept loop.  Only a failure of the listener itself returns
\* an error" (http.rs:271-274).
OnlyListenerFailureReturns == stopped \in {"no", "bind", "listener"}
===============================================================================
