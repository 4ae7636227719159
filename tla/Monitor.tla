-------------------------------- MODULE Monitor --------------------------------
(***************************************************************************)
(* Mutex, MutexGuard and Condvar of crates/ps5/src/thread.rs.              *)
(*                                                                         *)
(* Threads call lock, drop guards, wait and notify in any order Rust lets  *)
(* them.  A guard borrows its mutex and cannot leave its thread; a call    *)
(* borrows the mutex and the condvar it is on; neither can be dropped      *)
(* while borrowed.  Callers drop their guards, none is given to            *)
(* mem::forget.                                                            *)
(*                                                                         *)
(* GuardDespiteError, DropInstead and LeaveLocked are used by no action:   *)
(* each is a plausible mistake in the definition after it, and put in its  *)
(* place makes a property below fail.                                      *)
(***************************************************************************)
EXTENDS Naturals

CONSTANTS Threads, Mutexes, Condvars,
          None       \* no thread, no mutex, no condvar

ASSUME NoneDistinct == None \notin Threads \cup Mutexes \cup Condvars

VARIABLES
    mutex,    \* the pthread_mutex_t in a Mutex
    cond,     \* the pthread_cond_t in a Condvar
    holder,   \* the thread that has locked a pthread mutex
    guards,   \* how many MutexGuards of a mutex a thread has
    call,     \* what a thread is doing inside lock or wait
    on,       \* the mutex of that call
    with      \* the condvar of that call

objects == <<mutex, cond>>
calls   == <<call, on, with>>
vars == <<objects, holder, guards, calls>>

Object == {"none", "failed", "ready", "destroyed"}

TypeOK ==
    /\ mutex  \in [Mutexes -> Object]
    /\ cond   \in [Condvars -> Object]
    /\ holder \in [Mutexes -> Threads \cup {None}]
    /\ guards \in [Threads -> [Mutexes -> Nat]]
    /\ call   \in [Threads -> {"none", "lock", "wait", "asleep", "awake", "waited", "error"}]
    /\ on     \in [Threads -> Mutexes \cup {None}]
    /\ with   \in [Threads -> Condvars \cup {None}]

Init ==
    /\ mutex  = [m \in Mutexes |-> "none"]
    /\ cond   = [c \in Condvars |-> "none"]
    /\ holder = [m \in Mutexes |-> None]
    /\ guards = [w \in Threads |-> [m \in Mutexes |-> 0]]
    /\ call   = [w \in Threads |-> "none"]
    /\ on     = [w \in Threads |-> None]
    /\ with   = [w \in Threads |-> None]

-------------------------------------------------------------------------------
\* Mutex::new, Condvar::new, and dropping them

\* pthread_mutex_init succeeds; or it fails, and `?` drops the half-made Mutex.
NewMutex(m) ==
    /\ mutex[m] = "none"
    /\ \E state \in {"ready", "failed"} : mutex' = [mutex EXCEPT ![m] = state]
    /\ UNCHANGED <<cond, holder, guards, calls>>

NewCondvar(c) ==
    /\ cond[c] = "none"
    /\ \E state \in {"ready", "failed"} : cond' = [cond EXCEPT ![c] = state]
    /\ UNCHANGED <<mutex, holder, guards, calls>>

MutexBorrowed(m)   == \E w \in Threads : guards[w][m] > 0 \/ on[w] = m
CondvarBorrowed(c) == \E w \in Threads : with[w] = c

\* Drop calls pthread_mutex_destroy, whatever became of pthread_mutex_init.
DropMutex(m) ==
    /\ mutex[m] \in {"ready", "failed"}
    /\ ~MutexBorrowed(m)
    /\ mutex' = [mutex EXCEPT ![m] = "destroyed"]
    /\ UNCHANGED <<cond, holder, guards, calls>>

DropCondvar(c) ==
    /\ cond[c] \in {"ready", "failed"}
    /\ ~CondvarBorrowed(c)
    /\ cond' = [cond EXCEPT ![c] = "destroyed"]
    /\ UNCHANGED <<mutex, holder, guards, calls>>

-------------------------------------------------------------------------------
\* Steps of a call

Enter(w, what, m, c) ==
    /\ call' = [call EXCEPT ![w] = what]
    /\ on'   = [on EXCEPT ![w] = m]
    /\ with' = [with EXCEPT ![w] = c]

Return(w) == Enter(w, "none", None, None)

GainGuard(w, m) == guards' = [guards EXCEPT ![w][m] = @ + 1]
LoseGuard(w, m) == guards' = [guards EXCEPT ![w][m] = @ - 1]

\* pthread_mutex_unlock: EPERM, ignored, for any other thread than the holder.
Unlocked(w, m) == IF holder[m] = w THEN [holder EXCEPT ![m] = None] ELSE holder

-------------------------------------------------------------------------------
\* Mutex::lock and dropping a guard

Lock(w, m) ==
    /\ call[w] = "none"
    /\ mutex[m] = "ready"
    /\ Enter(w, "lock", m, None)
    /\ UNCHANGED <<objects, holder, guards>>

\* pthread_mutex_lock returns 0, and lock a guard.
LockReturns(w) ==
    /\ call[w] = "lock"
    /\ holder[on[w]] = None
    /\ holder' = [holder EXCEPT ![on[w]] = w]
    /\ GainGuard(w, on[w])
    /\ Return(w)
    /\ UNCHANGED objects

\* pthread_mutex_lock returns EDEADLK to the thread that holds the mutex, which by
\* default is an error-checking one; lock returns no guard.
GuardDespiteError(w) == GainGuard(w, on[w])
NoGuard(w)           == UNCHANGED guards

LockFails(w) ==
    /\ call[w] = "lock"
    /\ holder[on[w]] = w
    /\ NoGuard(w)
    /\ Return(w)
    /\ UNCHANGED <<objects, holder>>

DropGuard(w, m) ==
    /\ call[w] = "none"
    /\ guards[w][m] > 0
    /\ LoseGuard(w, m)
    /\ holder' = Unlocked(w, m)
    /\ UNCHANGED <<objects, calls>>

-------------------------------------------------------------------------------
\* Condvar::wait

\* The guard is forgotten, not dropped: the mutex stays locked.
DropInstead(w, m) == LoseGuard(w, m) /\ holder' = Unlocked(w, m)
ForgetGuard(w, m) == LoseGuard(w, m) /\ UNCHANGED holder

Wait(w, m, c) ==
    /\ call[w] = "none"
    /\ guards[w][m] > 0
    /\ cond[c] = "ready"
    /\ ForgetGuard(w, m)
    /\ Enter(w, "wait", m, c)
    /\ UNCHANGED objects

\* pthread_cond_wait unlocks the mutex and blocks, in one step.
Sleep(w) ==
    /\ call[w] = "wait"
    /\ holder' = Unlocked(w, on[w])
    /\ call' = [call EXCEPT ![w] = "asleep"]
    /\ UNCHANGED <<objects, guards, on, with>>

\* A thread may wake up without having been notified.
WakeSpuriously(w) ==
    /\ call[w] = "asleep"
    /\ call' = [call EXCEPT ![w] = "awake"]
    /\ UNCHANGED <<objects, holder, guards, on, with>>

\* The woken thread locks the mutex again, and pthread_cond_wait returns.
Relock(w) ==
    /\ call[w] = "awake"
    /\ holder[on[w]] = None
    /\ holder' = [holder EXCEPT ![on[w]] = w]
    /\ \E rc \in {"waited", "error"} : call' = [call EXCEPT ![w] = rc]
    /\ UNCHANGED <<objects, guards, on, with>>

\* Or it returns an error at once, without having unlocked the mutex.
WaitRefused(w) ==
    /\ call[w] = "wait"
    /\ call' = [call EXCEPT ![w] = "error"]
    /\ UNCHANGED <<objects, holder, guards, on, with>>

\* wait rebuilds the guard and returns it.
WaitReturns(w) ==
    /\ call[w] = "waited"
    /\ GainGuard(w, on[w])
    /\ Return(w)
    /\ UNCHANGED <<objects, holder>>

\* On an error the rebuilt guard is dropped.
LeaveLocked(w, m)    == UNCHANGED holder
RebuildAndDrop(w, m) == holder' = Unlocked(w, m)

WaitFails(w) ==
    /\ call[w] = "error"
    /\ RebuildAndDrop(w, on[w])
    /\ Return(w)
    /\ UNCHANGED <<objects, guards>>

-------------------------------------------------------------------------------
\* Condvar::notify_one and notify_all

Asleep(c) == {w \in Threads : call[w] = "asleep" /\ with[w] = c}

\* Wakes one sleeper, or does nothing if nobody sleeps.
NotifyOne(c) ==
    \/ \E w \in Asleep(c) : call' = [call EXCEPT ![w] = "awake"]
    \/ Asleep(c) = {} /\ UNCHANGED call

NotifyAll(c) == call' = [w \in Threads |-> IF w \in Asleep(c) THEN "awake" ELSE call[w]]

Notify(w, c) ==
    /\ call[w] = "none"
    /\ cond[c] = "ready"
    /\ NotifyOne(c) \/ NotifyAll(c)
    /\ UNCHANGED <<objects, holder, guards, on, with>>

-------------------------------------------------------------------------------
Lifecycle ==
    \/ \E m \in Mutexes : NewMutex(m) \/ DropMutex(m)
    \/ \E c \in Condvars : NewCondvar(c) \/ DropCondvar(c)

\* What a thread decides to call.
UserStep(w) ==
    \/ \E m \in Mutexes : Lock(w, m) \/ DropGuard(w, m)
    \/ \E m \in Mutexes, c \in Condvars : Wait(w, m, c)
    \/ \E c \in Condvars : Notify(w, c)

\* How a call goes on by itself.
CallStep(w) == \/ LockReturns(w)
               \/ LockFails(w)
               \/ Sleep(w)
               \/ Relock(w)
               \/ WaitRefused(w)
               \/ WaitReturns(w)
               \/ WaitFails(w)

Next == \/ Lifecycle
        \/ \E w \in Threads : UserStep(w) \/ CallStep(w) \/ WakeSpuriously(w)

Spec == Init /\ [][Next]_vars

\* Calls go on when they can, a mutex that is free again and again is not denied
\* to one waiter for ever, and a thread with guards drops one in the end.
FairSpec == /\ Spec
            /\ \A w \in Threads : /\ WF_vars(CallStep(w))
                                  /\ SF_vars(Relock(w))
                                  /\ SF_vars(\E m \in Mutexes : DropGuard(w, m))

-------------------------------------------------------------------------------
\* Safety

\* A guard gives access to the data, so there is at most one of a mutex in all
\* threads, and its thread holds the mutex: through lock, wait, both error paths
\* and re-locking by the same thread (thread.rs:403-418).
GuardExcludes == \A w \in Threads, m \in Mutexes :
    guards[w][m] > 0 => guards[w][m] = 1 /\ holder[m] = w

\* A mutex is only ever locked by a thread that has its guard or is inside a wait
\* that will rebuild it: no path, wait's error return included, leaves it locked
\* with nobody to unlock it (thread.rs:474-504).
LockNotLeaked == \A m \in Mutexes : holder[m] # None =>
    \/ guards[holder[m]][m] > 0
    \/ on[holder[m]] = m /\ call[holder[m]] \in {"wait", "waited", "error"}

\* Releasing the mutex and falling asleep is one step: until a waiter sleeps it
\* holds the mutex, so whoever locks it next finds it asleep and can wake it (no
\* wakeup is lost); while it sleeps it neither holds the mutex nor has a guard
\* (thread.rs:470-485).
WaitAtomic == \A w \in Threads :
    /\ call[w] = "wait" => holder[on[w]] = w
    /\ call[w] \in {"asleep", "awake"} => holder[on[w]] # w /\ guards[w][on[w]] = 0

-------------------------------------------------------------------------------
\* The inductive invariant behind the safety properties

\* The mutex and the condvar of a call.
CallShape == \A w \in Threads :
    /\ on[w] = None <=> call[w] = "none"
    /\ call[w] \in {"none", "lock"} => with[w] = None

\* A wait that is not asleep has the mutex in place of the forgotten guard.
WaitHolds == \A w \in Threads :
    call[w] \in {"wait", "waited", "error"} => holder[on[w]] = w /\ guards[w][on[w]] = 0

IInv == /\ TypeOK
        /\ CallShape
        /\ WaitHolds
        /\ WaitAtomic
        /\ GuardExcludes
        /\ LockNotLeaked

-------------------------------------------------------------------------------
\* Liveness, under FairSpec

\* No thread holds a mutex while it waits for another: callers who do can deadlock.
Unnested == \A w \in Threads, m, n \in Mutexes :
    on[w] = m /\ guards[w][n] > 0 => m = n

\* Unless callers nest mutexes, a thread that was woken gets its mutex back and
\* returns from wait, whatever errors other waiters met (thread.rs:487-503).
WokenReturns == []Unnested => \A w \in Threads : call[w] = "awake" ~> call[w] = "none"
===============================================================================
