------------------------------ MODULE JoinHandle ------------------------------
(***************************************************************************)
(* Builder::spawn, the trampoline and JoinHandle of                        *)
(* crates/ps5/src/thread.rs: how a spawned thread and the handle to it     *)
(* share the result slot (an Arc<Shared<T>>) and the pthread itself.       *)
(*                                                                         *)
(* A task is one call of Builder::spawn.  Its owning side is a small       *)
(* program (`owner`) that spawns the thread and then joins or drops the    *)
(* handle; its thread runs the trampoline (`run`).  JoinHandle is Send, so *)
(* any thread that is not in the middle of such a call may be the one that *)
(* joins or drops: the main thread, another task, or the task itself.      *)
(*                                                                         *)
(* CreatedDetached, RefsForgotten, ReleasedOnly, NotMarked, CopySlot and   *)
(* NeverDetach are used by no action: each is a plausible mistake in the   *)
(* definition after it, and put in its place makes a property below fail.  *)
(***************************************************************************)
EXTENDS Naturals

CONSTANTS Tasks,     \* the calls of Builder::spawn
          Main,      \* the thread that exists without being spawned
          NoThread   \* stands for "no thread"

ASSUME ThreadsDistinct == /\ Main \notin Tasks
                          /\ NoThread \notin Tasks \cup {Main}

Threads == Tasks \cup {Main}

VARIABLES
    owner,    \* progress of spawn, and then of the JoinHandle's join or drop
    actor,    \* the thread executing that call, NoThread between calls
    attr,     \* the pthread_attr_t of create_thread
    packet,   \* the Box<Packet> handed to the thread as a raw pointer
    run,      \* progress of the trampoline
    os,       \* the pthread: also says whether it is detached
    joined,   \* JoinHandle.joined
    refs,     \* strong count of the Arc<Shared<T>>
    slot,     \* Shared.slot
    taken,    \* how many times the value was handed to a joiner
    drops     \* how many times the value was dropped

ownerVars  == <<owner, actor, attr>>
threadVars == <<run, os>>
valueVars  == <<refs, slot, taken, drops>>
vars == <<owner, actor, attr, packet, run, os, joined, refs, slot, taken, drops>>

Spawning == {"attr_init", "attr_size", "create", "failed"}
Holding  == {"held", "joining", "returned", "dropping", "fields"}

TypeOK ==
    /\ owner  \in [Tasks -> {"none", "err", "gone"} \cup Spawning \cup Holding]
    /\ actor  \in [Tasks -> Threads \cup {NoThread}]
    /\ attr   \in [Tasks -> {"unused", "live", "destroyed"}]
    /\ packet \in [Tasks -> {"none", "raw", "owned", "freed"}]
    /\ run    \in [Tasks -> {"none", "start", "closure", "store", "release", "exit", "done"}]
    /\ os     \in [Tasks -> {"none", "joinable", "detached", "zombie", "reclaimed"}]
    /\ joined \in [Tasks -> BOOLEAN]
    /\ refs   \in [Tasks -> Nat]
    /\ slot   \in [Tasks -> {"None", "Some"}]
    /\ taken  \in [Tasks -> Nat]
    /\ drops  \in [Tasks -> Nat]

Init ==
    /\ owner  = [t \in Tasks |-> "none"]
    /\ actor  = [t \in Tasks |-> NoThread]
    /\ attr   = [t \in Tasks |-> "unused"]
    /\ packet = [t \in Tasks |-> "none"]
    /\ run    = [t \in Tasks |-> "none"]
    /\ os     = [t \in Tasks |-> "none"]
    /\ joined = [t \in Tasks |-> FALSE]
    /\ refs   = [t \in Tasks |-> 0]
    /\ slot   = [t \in Tasks |-> "None"]
    /\ taken  = [t \in Tasks |-> 0]
    /\ drops  = [t \in Tasks |-> 0]

\* A thread can start a call when it runs user code and is in no other call.
Free(w) == /\ w = Main \/ (w \in Tasks /\ run[w] = "closure")
           /\ \A t \in Tasks : actor[t] # w

-------------------------------------------------------------------------------
\* Builder::spawn and create_thread

\* Allocate the slot and the packet, which hold one Arc reference each, and
\* enter create_thread with or without a stack size.
Spawn(w, t) ==
    /\ Free(w)
    /\ owner[t] = "none"
    /\ \E first \in {"attr_init", "create"} : owner' = [owner EXCEPT ![t] = first]
    /\ actor'  = [actor EXCEPT ![t] = w]
    /\ packet' = [packet EXCEPT ![t] = "raw"]
    /\ refs'   = [refs EXCEPT ![t] = 2]
    /\ UNCHANGED <<attr, threadVars, joined, slot, taken, drops>>

AttrInit(t) ==
    /\ owner[t] = "attr_init"
    /\ \/ /\ owner' = [owner EXCEPT ![t] = "attr_size"]
          /\ attr'  = [attr EXCEPT ![t] = "live"]
       \/ /\ owner' = [owner EXCEPT ![t] = "failed"]
          /\ UNCHANGED attr
    /\ UNCHANGED <<actor, packet, threadVars, joined, valueVars>>

AttrSetStackSize(t) ==
    /\ owner[t] = "attr_size"
    /\ \/ /\ owner' = [owner EXCEPT ![t] = "create"]
          /\ UNCHANGED attr
       \/ /\ owner' = [owner EXCEPT ![t] = "failed"]
          /\ attr'  = [attr EXCEPT ![t] = "destroyed"]
    /\ UNCHANGED <<actor, packet, threadVars, joined, valueVars>>

\* The default attributes, and those with only a stack size, are joinable.
CreatedDetached == "detached"
CreatedState    == "joinable"

\* pthread_create, then pthread_attr_destroy if there is an attr; on success
\* spawn returns the handle.  The new thread may run before the handle is
\* returned: no later step of spawn touches what the thread can see.
PthreadCreate(t) ==
    /\ owner[t] = "create"
    /\ attr' = [attr EXCEPT ![t] = IF @ = "live" THEN "destroyed" ELSE @]
    /\ \/ /\ owner' = [owner EXCEPT ![t] = "held"]
          /\ actor' = [actor EXCEPT ![t] = NoThread]
          /\ run'   = [run EXCEPT ![t] = "start"]
          /\ os'    = [os EXCEPT ![t] = CreatedState]
       \/ /\ owner' = [owner EXCEPT ![t] = "failed"]
          /\ UNCHANGED <<actor, run, os>>
    /\ UNCHANGED <<packet, joined, valueVars>>

\* A Box that Box::from_raw took back is freed when it goes out of scope.
FreePacket(t) == packet' = [packet EXCEPT ![t] = "freed"]

\* What the error return drops: the packet's reference and the local one.
RefsForgotten == 1
RefsOnError   == 2

\* The error return of spawn.  No thread was created, so nobody can observe the
\* state between dropping the packet and dropping the local Arc.
SpawnFailed(t) ==
    /\ owner[t] = "failed"
    /\ owner'  = [owner EXCEPT ![t] = "err"]
    /\ actor'  = [actor EXCEPT ![t] = NoThread]
    /\ FreePacket(t)
    /\ refs'   = [refs EXCEPT ![t] = @ - RefsOnError]
    /\ UNCHANGED <<attr, threadVars, joined, slot, taken, drops>>

-------------------------------------------------------------------------------
\* The Arc<Shared<T>>

\* Drop one reference; the last one runs the destructor of the slot.
ReleaseRef(t) ==
    LET last == refs[t] = 1
    IN  /\ refs'  = [refs EXCEPT ![t] = @ - 1]
        /\ slot'  = IF last THEN [slot EXCEPT ![t] = "None"] ELSE slot
        /\ drops' = IF last /\ slot[t] = "Some"
                    THEN [drops EXCEPT ![t] = @ + 1] ELSE drops

-------------------------------------------------------------------------------
\* The trampoline

\* Box::from_raw: the packet has an owner again, closure and Arc are moved out of it.
Trampoline(t) ==
    /\ run[t] = "start"
    /\ run'    = [run EXCEPT ![t] = "closure"]
    /\ packet' = [packet EXCEPT ![t] = "owned"]
    /\ UNCHANGED <<ownerVars, os, joined, valueVars>>

\* closure() returns.
ClosureReturn(t) ==
    /\ Free(t)
    /\ run' = [run EXCEPT ![t] = "store"]
    /\ UNCHANGED <<ownerVars, packet, os, joined, valueVars>>

StoreValue(t) ==
    /\ run[t] = "store"
    /\ slot' = [slot EXCEPT ![t] = "Some"]
    /\ run'  = [run EXCEPT ![t] = "release"]
    /\ UNCHANGED <<ownerVars, packet, os, joined, refs, taken, drops>>

\* drop(shared)
ReleaseShared(t) ==
    /\ run[t] = "release"
    /\ ReleaseRef(t)
    /\ run' = [run EXCEPT ![t] = "exit"]
    /\ UNCHANGED <<ownerVars, packet, os, joined, taken>>

\* The start routine frees the packet and returns null: a detached thread is
\* reclaimed at once, a joinable one waits for pthread_join or pthread_detach.
ThreadExit(t) ==
    /\ run[t] = "exit"
    /\ FreePacket(t)
    /\ run' = [run EXCEPT ![t] = "done"]
    /\ os'  = [os EXCEPT ![t] = IF @ = "detached" THEN "reclaimed" ELSE "zombie"]
    /\ UNCHANGED <<ownerVars, joined, valueVars>>

-------------------------------------------------------------------------------
\* JoinHandle::join

Join(w, t) ==
    /\ Free(w)
    /\ owner[t] = "held"
    /\ owner' = [owner EXCEPT ![t] = "joining"]
    /\ actor' = [actor EXCEPT ![t] = w]
    /\ UNCHANGED <<attr, packet, threadVars, joined, valueVars>>

\* What pthread_join waits for.
ReleasedOnly(t) == run[t] \in {"release", "exit", "done"}
Terminated(t)   == os[t] = "zombie"

\* self.joined = true
NotMarked(t)  == UNCHANGED joined
MarkJoined(t) == joined' = [joined EXCEPT ![t] = TRUE]

\* pthread_join returns 0 once the thread has terminated, and reclaims it.
JoinReturn(t) ==
    /\ owner[t] = "joining"
    /\ actor[t] # t
    /\ Terminated(t)
    /\ os' = [os EXCEPT ![t] = "reclaimed"]
    /\ MarkJoined(t)
    /\ owner' = [owner EXCEPT ![t] = "returned"]
    /\ UNCHANGED <<actor, attr, packet, run, valueVars>>

\* pthread_join returns an error: of those POSIX lists only EDEADLK (a thread
\* joins itself) can befall a live, joinable handle.  `joined` is set before
\* the error is looked at, and `?` drops the handle.
JoinError(t) ==
    /\ owner[t] = "joining"
    /\ actor[t] = t
    /\ MarkJoined(t)
    /\ owner' = [owner EXCEPT ![t] = "dropping"]
    /\ UNCHANGED <<actor, attr, packet, threadVars, valueVars>>

\* Option::take empties the slot.
CopySlot(t) == UNCHANGED slot
TakeSlot(t) == slot' = [slot EXCEPT ![t] = "None"]

\* slot.take(): a None would be reported as Err(EINVAL).
TakeValue(t) ==
    /\ owner[t] = "returned"
    /\ taken' = IF slot[t] = "Some" THEN [taken EXCEPT ![t] = @ + 1] ELSE taken
    /\ TakeSlot(t)
    /\ owner' = [owner EXCEPT ![t] = "dropping"]
    /\ UNCHANGED <<actor, attr, packet, threadVars, joined, refs, drops>>

-------------------------------------------------------------------------------
\* Dropping a JoinHandle: Drop::drop, then its field `shared`

DropHandle(w, t) ==
    /\ Free(w)
    /\ owner[t] = "held"
    /\ owner' = [owner EXCEPT ![t] = "dropping"]
    /\ actor' = [actor EXCEPT ![t] = w]
    /\ UNCHANGED <<attr, packet, threadVars, joined, valueVars>>

\* pthread_detach: a thread that already terminated is reclaimed.
Detached(state) == IF state = "zombie" THEN "reclaimed" ELSE "detached"

NeverDetach(t)  == FALSE
MustDetach(t)   == ~joined[t]

DropDetach(t) ==
    /\ owner[t] = "dropping"
    /\ os' = IF MustDetach(t) THEN [os EXCEPT ![t] = Detached(@)] ELSE os
    /\ owner' = [owner EXCEPT ![t] = "fields"]
    /\ UNCHANGED <<actor, attr, packet, run, joined, valueVars>>

DropShared(t) ==
    /\ owner[t] = "fields"
    /\ ReleaseRef(t)
    /\ owner' = [owner EXCEPT ![t] = "gone"]
    /\ actor' = [actor EXCEPT ![t] = NoThread]
    /\ UNCHANGED <<attr, packet, threadVars, joined, taken>>

-------------------------------------------------------------------------------
\* What a caller decides to do, and what then runs by itself

Call(w, t) == Spawn(w, t) \/ Join(w, t) \/ DropHandle(w, t)

OwnerStep(t) == \/ AttrInit(t)
                \/ AttrSetStackSize(t)
                \/ PthreadCreate(t)
                \/ SpawnFailed(t)
                \/ JoinReturn(t)
                \/ JoinError(t)
                \/ TakeValue(t)
                \/ DropDetach(t)
                \/ DropShared(t)

ThreadStep(t) == \/ Trampoline(t)
                 \/ StoreValue(t)
                 \/ ReleaseShared(t)
                 \/ ThreadExit(t)

Next == \E t \in Tasks : \/ \E w \in Threads : Call(w, t)
                         \/ OwnerStep(t)
                         \/ ClosureReturn(t)
                         \/ ThreadStep(t)

Spec == Init /\ [][Next]_vars

\* The scheduler runs every runnable thread; nothing is assumed of the user's
\* closures, which may never return, nor of what callers decide to call.
Fairness == \A t \in Tasks : WF_vars(OwnerStep(t)) /\ WF_vars(ThreadStep(t))

FairSpec == Spec /\ Fairness

-------------------------------------------------------------------------------
\* Safety

\* Who holds a reference to the slot: the running trampoline (through the
\* packet until it is unpacked) and the owning side.
ThreadHolds(t) == run[t] \in {"start", "closure", "store", "release"}
OwnerHolds(t)  == owner[t] \in Holding

RefsOf(t) == IF owner[t] \in Spawning THEN 2
             ELSE (IF ThreadHolds(t) THEN 1 ELSE 0) + (IF OwnerHolds(t) THEN 1 ELSE 0)

\* The Arc's count is exactly the number of sides that will still use the slot,
\* in every interleaving of the trampoline with spawn, join and drop: the slot
\* is never freed under a user, and never outlives the last one
\* (thread.rs:60-66, "no leak").
SharedRefs == \A t \in Tasks : refs[t] = RefsOf(t)

\* After a successful pthread_join the joiner is alone: the thread is past its
\* store and its Arc is gone, and the slot holds the value, so the EINVAL
\* branch of join is unreachable (thread.rs:157-164).
JoinerAlone == \A t \in Tasks :
    owner[t] = "returned" => run[t] = "done" /\ refs[t] = 1 /\ slot[t] = "Some"

\* pthread_join and pthread_detach are only ever applied to a thread that is
\* neither detached nor reclaimed (thread.rs:150-152, 175-176).
HandleLive == \A t \in Tasks :
    owner[t] \in {"held", "joining"} \/ (owner[t] = "dropping" /\ ~joined[t])
        => os[t] \in {"joinable", "zombie"}

\* The value is handed over or dropped at most once, and once the last
\* reference is gone exactly once, whichever side was faster (thread.rs:62-66).
ValueOnce == \A t \in Tasks :
    /\ taken[t] + drops[t] <= 1
    /\ refs[t] = 0 /\ run[t] = "done" => taken[t] + drops[t] = 1

\* The boxed packet is a raw pointer until its thread starts, the thread's own while
\* it runs, and freed when the thread has ended or spawn returned an error: by one
\* of the two, never by both and never by neither (thread.rs:102-103, 228-250).
PacketOnce == \A t \in Tasks :
    /\ owner[t] \in Spawning \/ run[t] = "start" => packet[t] = "raw"
    /\ run[t] \in {"closure", "store", "release", "exit"} => packet[t] = "owned"
    /\ owner[t] = "err" \/ run[t] = "done" => packet[t] = "freed"

\* The handle was consumed by a join that returned no value.
JoinFailed(t) == joined[t] /\ taken[t] = 0

\* Once the thread has terminated and its handle is gone, the system has the
\* thread's stack back, unless join failed (thread.rs:170-180).
ThreadReclaimed == \A t \in Tasks :
    owner[t] = "gone" /\ run[t] = "done" /\ ~JoinFailed(t) => os[t] = "reclaimed"

\* The documented form of the same promise: "If the handle is dropped without
\* joining, the thread is detached" (thread.rs:123-125).  A join that fails with
\* EDEADLK did not join, and drops the handle.
DetachedUnlessJoined == \A t \in Tasks :
    owner[t] = "gone" /\ run[t] = "done" => os[t] = "reclaimed"

-------------------------------------------------------------------------------
\* The inductive invariant behind the safety properties: how far the owning side
\* is decides what the thread side can be, and the other way round.

\* A thread exists exactly when spawn succeeded.
Lifecycle(t) ==
    /\ run[t] = "none" <=> owner[t] \in {"none", "err"} \cup Spawning
    /\ owner[t] = "none" => refs[t] = 0

\* The pthread follows the trampoline, and the handle's claim on it.
PthreadState(t) ==
    /\ run[t] = "none" <=> os[t] = "none"
    /\ run[t] = "done" <=> os[t] \in {"zombie", "reclaimed"}
    /\ owner[t] \in {"none", "held", "joining"} \cup Spawning => ~joined[t]
    /\ owner[t] \in {"fields", "gone"} /\ ~joined[t] => os[t] \in {"detached", "reclaimed"}
    /\ owner[t] = "returned" \/ taken[t] > 0 => joined[t] /\ os[t] = "reclaimed"

\* Where the value is: not produced, in the slot, taken, or dropped.
ValueState(t) ==
    LET produced == run[t] \in {"release", "exit", "done"}
    IN  /\ slot[t] = "Some" => produced /\ taken[t] = 0 /\ drops[t] = 0 /\ refs[t] > 0
        /\ slot[t] = "None" => taken[t] + drops[t] = IF produced THEN 1 ELSE 0
        /\ drops[t] > 0 => refs[t] = 0
        /\ taken[t] > 0 => run[t] = "done" /\ owner[t] \in {"dropping", "fields", "gone"}

\* What SharedRefs, HandleLive and PacketOnce say of one task, strengthened.
TaskInv(t) ==
    /\ refs[t] = RefsOf(t)
    /\ owner[t] \in {"held", "joining"} \/ (owner[t] = "dropping" /\ ~joined[t])
        => os[t] \in {"joinable", "zombie"}
    /\ owner[t] \in Spawning \/ run[t] = "start" => packet[t] = "raw"
    /\ run[t] \in {"closure", "store", "release", "exit"} => packet[t] = "owned"
    /\ owner[t] = "err" \/ run[t] = "done" => packet[t] = "freed"
    /\ Lifecycle(t)
    /\ PthreadState(t)
    /\ ValueState(t)

IInv == /\ TypeOK
        /\ \A t \in Tasks : TaskInv(t)

-------------------------------------------------------------------------------
\* Liveness, under Fairness

\* A joiner other than the thread itself returns once the closure has returned.
JoinReturns == \A t \in Tasks :
    (owner[t] = "joining" /\ run[t] \notin {"start", "closure"}) ~> owner[t] = "gone"

\* A handle that is given up never costs a thread: when its closure returns,
\* the thread terminates and is reclaimed with nobody left to wait for it.
AbandonedThreadEnds == \A t \in Tasks :
    (owner[t] = "gone" /\ run[t] = "store" /\ ~joined[t]) ~> os[t] = "reclaimed"

-------------------------------------------------------------------------------
\* Refinement of ThreadResult

ResultOf(t) == IF drops[t] > 0 THEN "discarded"
               ELSE IF taken[t] > 0 THEN "delivered"
               ELSE IF owner[t] = "err" THEN "refused"
               ELSE IF run[t] = "none" THEN "idle"
               ELSE IF run[t] \in {"start", "closure"} THEN "pending"
               ELSE "produced"

ClaimOf(t) == IF owner[t] \in {"held", "joining", "returned"} THEN "open"
              ELSE IF owner[t] \notin {"dropping", "fields", "gone"} THEN "none"
              ELSE IF taken[t] > 0 THEN "joined" ELSE "abandoned"

Result == INSTANCE ThreadResult WITH result <- [t \in Tasks |-> ResultOf(t)],
                                     claim  <- [t \in Tasks |-> ClaimOf(t)]

\* Every behaviour of the pthread-level code is one ThreadResult allows: a value
\* is delivered to the one joiner or discarded after the handle was given up.
ImplementsThreadResult == Result!Spec
===============================================================================
