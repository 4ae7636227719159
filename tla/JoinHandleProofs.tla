--------------------------- MODULE JoinHandleProofs ---------------------------
(***************************************************************************)
(* The safety of JoinHandle, for any set of tasks: the inductive invariant *)
(* IInv, and the properties that follow from it.                           *)
(*                                                                         *)
(* An action changes one task.  Each is shown to keep TaskInv of its task  *)
(* and to leave the other tasks untouched; TaskInv speaks of one task      *)
(* only, so it holds of those still.                                       *)
(***************************************************************************)
EXTENDS JoinHandle, TLAPS

\* A step that changes nothing TaskInv(u) depends on.
Untouched(u) ==
    /\ owner'[u] = owner[u]
    /\ packet'[u] = packet[u]
    /\ run'[u] = run[u]
    /\ os'[u] = os[u]
    /\ joined'[u] = joined[u]
    /\ refs'[u] = refs[u]
    /\ slot'[u] = slot[u]
    /\ taken'[u] = taken[u]
    /\ drops'[u] = drops[u]

\* What is shown of every action on a task t.
Keeps(t) == TypeOK' /\ TaskInv(t)' /\ \A u \in Tasks \ {t} : Untouched(u)

\* Before any spawn nothing exists and nothing is counted.
LEMMA InitInvariant == Init => IInv
BY ThreadsDistinct
   DEF Init, IInv, TypeOK, TaskInv, Lifecycle, PthreadState, ValueState, RefsOf,
       ThreadHolds, OwnerHolds, Spawning, Holding, Threads

\* A task keeps its invariant when a step does not touch it.
LEMMA UntouchedTask ==
    ASSUME NEW u \in Tasks, TaskInv(u), Untouched(u)
    PROVE  TaskInv(u)'
BY
   DEF Untouched, TaskInv, Lifecycle, PthreadState, ValueState, RefsOf, ThreadHolds,
       OwnerHolds

\* A caller spawns a task, or begins to join or to drop its handle.
LEMMA CallKeeps ==
    ASSUME TypeOK, NEW t \in Tasks, TaskInv(t), \E w \in Threads : Call(w, t)
    PROVE  Keeps(t)
<1> USE DEF TypeOK, Spawning, Holding, Threads, ownerVars, threadVars, valueVars
<1>1. ASSUME NEW w \in Threads, Spawn(w, t)
      PROVE  Keeps(t)
  <2>1. TypeOK'
    BY <1>1 DEF Spawn, Free, TaskInv, RefsOf, ThreadHolds, OwnerHolds
  <2>2. \A u \in Tasks \ {t} : Untouched(u)
    BY <1>1 DEF Spawn, Free, Untouched
  <2>3. TaskInv(t)'
    BY <1>1
       DEF Spawn, Free, TaskInv, Lifecycle, PthreadState, ValueState, RefsOf, ThreadHolds,
           OwnerHolds
  <2> QED
    BY <2>1, <2>2, <2>3 DEF Keeps
<1>2. ASSUME NEW w \in Threads, Join(w, t)
      PROVE  Keeps(t)
  <2>1. TypeOK'
    BY <1>2 DEF Join, Free, TaskInv, RefsOf, ThreadHolds, OwnerHolds
  <2>2. \A u \in Tasks \ {t} : Untouched(u)
    BY <1>2 DEF Join, Free, Untouched
  <2>3. TaskInv(t)'
    BY <1>2
       DEF Join, Free, TaskInv, Lifecycle, PthreadState, ValueState, RefsOf, ThreadHolds,
           OwnerHolds
  <2> QED
    BY <2>1, <2>2, <2>3 DEF Keeps
<1>3. ASSUME NEW w \in Threads, DropHandle(w, t)
      PROVE  Keeps(t)
  <2>1. TypeOK'
    BY <1>3 DEF DropHandle, Free, TaskInv, RefsOf, ThreadHolds, OwnerHolds
  <2>2. \A u \in Tasks \ {t} : Untouched(u)
    BY <1>3 DEF DropHandle, Free, Untouched
  <2>3. TaskInv(t)'
    BY <1>3
       DEF DropHandle, Free, TaskInv, Lifecycle, PthreadState, ValueState, RefsOf,
           ThreadHolds, OwnerHolds
  <2> QED
    BY <2>1, <2>2, <2>3 DEF Keeps
<1> QED
  BY <1>1, <1>2, <1>3 DEF Call

\* The rest of spawn, join and drop.
LEMMA OwnerKeeps ==
    ASSUME TypeOK, NEW t \in Tasks, TaskInv(t), OwnerStep(t)
    PROVE  Keeps(t)
<1> USE DEF TypeOK, Spawning, Holding, Threads, ownerVars, threadVars, valueVars
<1>1. ASSUME AttrInit(t)
      PROVE  Keeps(t)
  <2>1. TypeOK'
    BY <1>1 DEF AttrInit, TaskInv, RefsOf, ThreadHolds, OwnerHolds
  <2>2. \A u \in Tasks \ {t} : Untouched(u)
    BY <1>1 DEF AttrInit, Untouched
  <2>3. TaskInv(t)'
    BY <1>1
       DEF AttrInit, TaskInv, Lifecycle, PthreadState, ValueState, RefsOf, ThreadHolds,
           OwnerHolds
  <2> QED
    BY <2>1, <2>2, <2>3 DEF Keeps
<1>2. ASSUME AttrSetStackSize(t)
      PROVE  Keeps(t)
  <2>1. TypeOK'
    BY <1>2 DEF AttrSetStackSize, TaskInv, RefsOf, ThreadHolds, OwnerHolds
  <2>2. \A u \in Tasks \ {t} : Untouched(u)
    BY <1>2 DEF AttrSetStackSize, Untouched
  <2>3. TaskInv(t)'
    BY <1>2
       DEF AttrSetStackSize, TaskInv, Lifecycle, PthreadState, ValueState, RefsOf,
           ThreadHolds, OwnerHolds
  <2> QED
    BY <2>1, <2>2, <2>3 DEF Keeps
<1>3. ASSUME PthreadCreate(t)
      PROVE  Keeps(t)
  <2>1. TypeOK'
    BY <1>3 DEF PthreadCreate, CreatedState, TaskInv, RefsOf, ThreadHolds, OwnerHolds
  <2>2. \A u \in Tasks \ {t} : Untouched(u)
    BY <1>3 DEF PthreadCreate, CreatedState, Untouched
  <2>3. TaskInv(t)'
    BY <1>3
       DEF PthreadCreate, CreatedState, TaskInv, Lifecycle, PthreadState, ValueState,
           RefsOf, ThreadHolds, OwnerHolds
  <2> QED
    BY <2>1, <2>2, <2>3 DEF Keeps
<1>4. ASSUME SpawnFailed(t)
      PROVE  Keeps(t)
  <2>1. TypeOK'
    BY <1>4
       DEF SpawnFailed, FreePacket, RefsOnError, TaskInv, RefsOf, ThreadHolds, OwnerHolds
  <2>2. \A u \in Tasks \ {t} : Untouched(u)
    BY <1>4 DEF SpawnFailed, FreePacket, RefsOnError, Untouched
  <2>3. TaskInv(t)'
    BY <1>4
       DEF SpawnFailed, FreePacket, RefsOnError, TaskInv, Lifecycle, PthreadState,
           ValueState, RefsOf, ThreadHolds, OwnerHolds
  <2> QED
    BY <2>1, <2>2, <2>3 DEF Keeps
<1>5. ASSUME JoinReturn(t)
      PROVE  Keeps(t)
  <2>1. TypeOK'
    BY <1>5 DEF JoinReturn, Terminated, MarkJoined, TaskInv, RefsOf, ThreadHolds, OwnerHolds
  <2>2. \A u \in Tasks \ {t} : Untouched(u)
    BY <1>5 DEF JoinReturn, Terminated, MarkJoined, Untouched
  <2>3. TaskInv(t)'
    BY <1>5
       DEF JoinReturn, Terminated, MarkJoined, TaskInv, Lifecycle, PthreadState, ValueState,
           RefsOf, ThreadHolds, OwnerHolds
  <2> QED
    BY <2>1, <2>2, <2>3 DEF Keeps
<1>6. ASSUME JoinError(t)
      PROVE  Keeps(t)
  <2>1. TypeOK'
    BY <1>6 DEF JoinError, MarkJoined, TaskInv, RefsOf, ThreadHolds, OwnerHolds
  <2>2. \A u \in Tasks \ {t} : Untouched(u)
    BY <1>6 DEF JoinError, MarkJoined, Untouched
  <2>3. TaskInv(t)'
    BY <1>6
       DEF JoinError, MarkJoined, TaskInv, Lifecycle, PthreadState, ValueState, RefsOf,
           ThreadHolds, OwnerHolds
  <2> QED
    BY <2>1, <2>2, <2>3 DEF Keeps
<1>7. ASSUME TakeValue(t)
      PROVE  Keeps(t)
  <2>1. TypeOK'
    BY <1>7 DEF TakeValue, TakeSlot, TaskInv, RefsOf, ThreadHolds, OwnerHolds
  <2>2. \A u \in Tasks \ {t} : Untouched(u)
    BY <1>7 DEF TakeValue, TakeSlot, Untouched
  <2>3. TaskInv(t)'
    BY <1>7
       DEF TakeValue, TakeSlot, TaskInv, Lifecycle, PthreadState, ValueState, RefsOf,
           ThreadHolds, OwnerHolds
  <2> QED
    BY <2>1, <2>2, <2>3 DEF Keeps
<1>8. ASSUME DropDetach(t)
      PROVE  Keeps(t)
  <2>1. TypeOK'
    BY <1>8 DEF DropDetach, MustDetach, Detached, TaskInv, RefsOf, ThreadHolds, OwnerHolds
  <2>2. \A u \in Tasks \ {t} : Untouched(u)
    BY <1>8 DEF DropDetach, MustDetach, Detached, Untouched
  <2>3. TaskInv(t)'
    BY <1>8
       DEF DropDetach, MustDetach, Detached, TaskInv, Lifecycle, PthreadState, ValueState,
           RefsOf, ThreadHolds, OwnerHolds
  <2> QED
    BY <2>1, <2>2, <2>3 DEF Keeps
<1>9. ASSUME DropShared(t)
      PROVE  Keeps(t)
  <2>1. TypeOK'
    BY <1>9 DEF DropShared, ReleaseRef, TaskInv, RefsOf, ThreadHolds, OwnerHolds
  <2>2. \A u \in Tasks \ {t} : Untouched(u)
    BY <1>9 DEF DropShared, ReleaseRef, Untouched
  <2>3. TaskInv(t)'
    BY <1>9
       DEF DropShared, ReleaseRef, TaskInv, Lifecycle, PthreadState, ValueState, RefsOf,
           ThreadHolds, OwnerHolds
  <2> QED
    BY <2>1, <2>2, <2>3 DEF Keeps
<1> QED
  BY <1>1, <1>2, <1>3, <1>4, <1>5, <1>6, <1>7, <1>8, <1>9 DEF OwnerStep

\* The trampoline, and the closure it runs.
LEMMA ThreadKeeps ==
    ASSUME TypeOK, NEW t \in Tasks, TaskInv(t), ThreadStep(t) \/ ClosureReturn(t)
    PROVE  Keeps(t)
<1> USE DEF TypeOK, Spawning, Holding, Threads, ownerVars, threadVars, valueVars
<1>1. ASSUME Trampoline(t)
      PROVE  Keeps(t)
  <2>1. TypeOK'
    BY <1>1 DEF Trampoline, TaskInv, RefsOf, ThreadHolds, OwnerHolds
  <2>2. \A u \in Tasks \ {t} : Untouched(u)
    BY <1>1 DEF Trampoline, Untouched
  <2>3. TaskInv(t)'
    BY <1>1
       DEF Trampoline, TaskInv, Lifecycle, PthreadState, ValueState, RefsOf,
           ThreadHolds, OwnerHolds
  <2> QED
    BY <2>1, <2>2, <2>3 DEF Keeps
<1>2. ASSUME StoreValue(t)
      PROVE  Keeps(t)
  <2>1. TypeOK'
    BY <1>2 DEF StoreValue, TaskInv, RefsOf, ThreadHolds, OwnerHolds
  <2>2. \A u \in Tasks \ {t} : Untouched(u)
    BY <1>2 DEF StoreValue, Untouched
  <2>3. TaskInv(t)'
    BY <1>2
       DEF StoreValue, TaskInv, Lifecycle, PthreadState, ValueState, RefsOf, ThreadHolds,
           OwnerHolds
  <2> QED
    BY <2>1, <2>2, <2>3 DEF Keeps
<1>3. ASSUME ReleaseShared(t)
      PROVE  Keeps(t)
  <2>1. TypeOK'
    BY <1>3 DEF ReleaseShared, ReleaseRef, TaskInv, RefsOf, ThreadHolds, OwnerHolds
  <2>2. \A u \in Tasks \ {t} : Untouched(u)
    BY <1>3 DEF ReleaseShared, ReleaseRef, Untouched
  <2>3. TaskInv(t)'
    BY <1>3
       DEF ReleaseShared, ReleaseRef, TaskInv, Lifecycle, PthreadState, ValueState, RefsOf,
           ThreadHolds, OwnerHolds
  <2> QED
    BY <2>1, <2>2, <2>3 DEF Keeps
<1>4. ASSUME ThreadExit(t)
      PROVE  Keeps(t)
  <2>1. TypeOK'
    BY <1>4 DEF ThreadExit, FreePacket, TaskInv, RefsOf, ThreadHolds, OwnerHolds
  <2>2. \A u \in Tasks \ {t} : Untouched(u)
    BY <1>4 DEF ThreadExit, FreePacket, Untouched
  <2>3. /\ run[t] = "exit"
        /\ run'[t] = "done"
        /\ os'[t] = IF os[t] = "detached" THEN "reclaimed" ELSE "zombie"
    BY <1>4 DEF ThreadExit
  <2>4. /\ owner'[t] = owner[t]
        /\ packet'[t] = "freed"
        /\ joined'[t] = joined[t]
        /\ refs'[t] = refs[t]
        /\ slot'[t] = slot[t]
        /\ taken'[t] = taken[t]
        /\ drops'[t] = drops[t]
    BY <1>4 DEF ThreadExit, FreePacket
  <2>5. os[t] \in {"joinable", "detached"}
    BY <2>3 DEF TaskInv, PthreadState
  <2>6. refs'[t] = RefsOf(t)'
    BY <2>3, <2>4 DEF TaskInv, RefsOf, ThreadHolds, OwnerHolds
  <2>7. Lifecycle(t)' /\ PthreadState(t)'
    BY <2>3, <2>4, <2>5 DEF TaskInv, Lifecycle, PthreadState, ValueState
  <2>8. ValueState(t)'
    BY <2>3, <2>4 DEF TaskInv, ValueState
  <2>9. TaskInv(t)'
    BY <2>3, <2>4, <2>5, <2>6, <2>7, <2>8 DEF TaskInv
  <2> QED
    BY <2>1, <2>2, <2>9 DEF Keeps
<1>5. ASSUME ClosureReturn(t)
      PROVE  Keeps(t)
  <2>1. run[t] = "closure"
    BY <1>5, ThreadsDistinct DEF ClosureReturn, Free
  <2>2. TypeOK'
    BY <1>5 DEF ClosureReturn
  <2>3. \A u \in Tasks \ {t} : Untouched(u)
    BY <1>5 DEF ClosureReturn, Untouched
  <2>4. TaskInv(t)'
    BY <1>5, <2>1
       DEF ClosureReturn, TaskInv, Lifecycle, PthreadState, ValueState, RefsOf, ThreadHolds,
           OwnerHolds
  <2> QED
    BY <2>2, <2>3, <2>4 DEF Keeps
<1> QED
  BY <1>1, <1>2, <1>3, <1>4, <1>5 DEF ThreadStep

\* Every step keeps the invariant.
LEMMA NextInvariant == IInv /\ [Next]_vars => IInv'
<1> SUFFICES ASSUME IInv, [Next]_vars
             PROVE  IInv'
  OBVIOUS
<1>1. CASE Next
  <2>1. PICK t \in Tasks : \/ \E w \in Threads : Call(w, t)
                           \/ OwnerStep(t)
                           \/ ClosureReturn(t)
                           \/ ThreadStep(t)
    BY <1>1 DEF Next
  <2>2. Keeps(t)
    BY <2>1, CallKeeps, OwnerKeeps, ThreadKeeps DEF IInv
  <2>3. ASSUME NEW u \in Tasks
        PROVE  TaskInv(u)'
    BY <2>2, UntouchedTask DEF Keeps, IInv
  <2> QED
    BY <2>2, <2>3 DEF Keeps, IInv
<1>2. CASE UNCHANGED vars
  <2>1. TypeOK'
    BY <1>2 DEF vars, IInv, TypeOK
  <2>2. ASSUME NEW u \in Tasks
        PROVE  TaskInv(u)'
    BY <1>2, UntouchedTask DEF vars, Untouched, IInv
  <2> QED
    BY <2>1, <2>2 DEF IInv
<1> QED
  BY <1>1, <1>2

\* The invariant holds throughout every behaviour of spawn, join, drop and the
\* trampoline.
THEOREM Invariant == Spec => []IInv
BY InitInvariant, NextInvariant, PTL DEF Spec

\* The state stays well typed: in particular no reference count underflows.
THEOREM TypeCorrect == Spec => []TypeOK
<1>1. IInv => TypeOK
  BY DEF IInv
<1> QED
  BY <1>1, Invariant, PTL

\* The reference count is the number of sides that still use the slot, so the
\* slot is freed exactly when the last of them is done (thread.rs:60-66).
THEOREM SharedRefsHold == Spec => []SharedRefs
<1>1. IInv => SharedRefs
  BY DEF IInv, TaskInv, SharedRefs
<1> QED
  BY <1>1, Invariant, PTL

\* A joiner that returns from pthread_join has the slot to itself and finds the
\* value there (thread.rs:157-164).
THEOREM JoinerAloneHolds == Spec => []JoinerAlone
<1>1. IInv => JoinerAlone
  BY
     DEF IInv, TypeOK, TaskInv, Lifecycle, PthreadState, ValueState, RefsOf, ThreadHolds,
         OwnerHolds, Spawning, Holding, JoinerAlone
<1> QED
  BY <1>1, Invariant, PTL

\* pthread_join and pthread_detach only see a live handle (thread.rs:150-152,
\* 175-176).
THEOREM HandleLiveHolds == Spec => []HandleLive
<1>1. IInv => HandleLive
  BY DEF IInv, TaskInv, HandleLive
<1> QED
  BY <1>1, Invariant, PTL

\* The value of a closure is taken or dropped once, and is not leaked
\* (thread.rs:62-66).
THEOREM ValueOnceHolds == Spec => []ValueOnce
<1>1. ASSUME IInv, NEW t \in Tasks
      PROVE  /\ taken[t] + drops[t] <= 1
             /\ refs[t] = 0 /\ run[t] = "done" => taken[t] + drops[t] = 1
  <2>1. slot[t] \in {"None", "Some"} /\ refs[t] \in Nat /\ taken[t] \in Nat /\ drops[t] \in Nat
    BY <1>1 DEF IInv, TypeOK
  <2>2. ValueState(t)
    BY <1>1 DEF IInv, TaskInv
  <2> QED
    BY <2>1, <2>2 DEF ValueState
<1>2. IInv => ValueOnce
  BY <1>1 DEF ValueOnce
<1> QED
  BY <1>2, Invariant, PTL

\* The boxed packet is freed once, on every path of spawn (thread.rs:228-250).
THEOREM PacketOnceHolds == Spec => []PacketOnce
<1>1. IInv => PacketOnce
  BY DEF IInv, TaskInv, PacketOnce
<1> QED
  BY <1>1, Invariant, PTL

\* A terminated thread whose handle is gone was reclaimed, unless its join failed
\* (thread.rs:170-180).
THEOREM ThreadReclaimedHolds == Spec => []ThreadReclaimed
<1>1. IInv => ThreadReclaimed
  BY
     DEF IInv, TypeOK, TaskInv, Lifecycle, PthreadState, ValueState, ThreadReclaimed,
         JoinFailed
<1> QED
  BY <1>1, Invariant, PTL
-------------------------------------------------------------------------------
(***************************************************************************)
(* JoinHandle implements ThreadResult: a step changes the abstract state   *)
(* of its own task as one ThreadResult action, or leaves it as it is.      *)
(***************************************************************************)

\* What a step on a task may do to the task's abstract state.
AbstractStep(t) ==
    \/ ResultOf(t)' = ResultOf(t) /\ ClaimOf(t)' = ClaimOf(t)
    \/ /\ ResultOf(t) = "idle"     /\ ResultOf(t)' = "pending"
       /\ ClaimOf(t)' = "open"
    \/ /\ ResultOf(t) = "idle"     /\ ResultOf(t)' = "refused"
       /\ ClaimOf(t)' = ClaimOf(t)
    \/ /\ ResultOf(t) = "pending"  /\ ResultOf(t)' = "produced"
       /\ ClaimOf(t)' = ClaimOf(t)
    \/ /\ ResultOf(t) = "produced" /\ ResultOf(t)' = "delivered"
       /\ ClaimOf(t) = "open"      /\ ClaimOf(t)' = "joined"
    \/ /\ ClaimOf(t) = "open"      /\ ClaimOf(t)' = "abandoned"
       /\ ResultOf(t)' = ResultOf(t)
    \/ /\ ResultOf(t) = "produced" /\ ResultOf(t)' = "discarded"
       /\ ClaimOf(t) = "abandoned" /\ ClaimOf(t)' = ClaimOf(t)

\* The abstract state of a task depends on that task only.
LEMMA UntouchedAbstract ==
    ASSUME NEW u \in Tasks, Untouched(u)
    PROVE  ResultOf(u)' = ResultOf(u) /\ ClaimOf(u)' = ClaimOf(u)
BY DEF Untouched, ResultOf, ClaimOf

\* Spawning refuses or accepts nothing yet; dropping a handle gives up the claim.
LEMMA CallAbstract ==
    ASSUME TypeOK, NEW t \in Tasks, TaskInv(t), \E w \in Threads : Call(w, t)
    PROVE  AbstractStep(t)
<1> USE DEF TypeOK, Spawning, Holding, Threads, ownerVars, threadVars, valueVars
<1>1. ASSUME NEW w \in Threads, Spawn(w, t)
      PROVE  AbstractStep(t)
  BY <1>1
     DEF Spawn, Free, TaskInv, Lifecycle, PthreadState, ValueState, RefsOf, ThreadHolds,
         OwnerHolds, AbstractStep, ResultOf, ClaimOf
<1>2. ASSUME NEW w \in Threads, Join(w, t)
      PROVE  AbstractStep(t)
  BY <1>2
     DEF Join, Free, TaskInv, Lifecycle, PthreadState, ValueState, RefsOf, ThreadHolds,
         OwnerHolds, AbstractStep, ResultOf, ClaimOf
<1>3. ASSUME NEW w \in Threads, DropHandle(w, t)
      PROVE  AbstractStep(t)
  BY <1>3
     DEF DropHandle, Free, TaskInv, Lifecycle, PthreadState, ValueState, RefsOf,
         ThreadHolds, OwnerHolds, AbstractStep, ResultOf, ClaimOf
<1> QED
  BY <1>1, <1>2, <1>3 DEF Call

\* pthread_create accepts, a failed spawn refuses, slot.take() delivers, a failed
\* join gives up the claim, the last reference discards.
LEMMA OwnerAbstract ==
    ASSUME TypeOK, NEW t \in Tasks, TaskInv(t), OwnerStep(t)
    PROVE  AbstractStep(t)
<1> USE DEF TypeOK, Spawning, Holding, Threads, ownerVars, threadVars, valueVars
<1>1. ASSUME AttrInit(t)
      PROVE  AbstractStep(t)
  BY <1>1
     DEF AttrInit, TaskInv, Lifecycle, PthreadState, ValueState, RefsOf, ThreadHolds,
         OwnerHolds, AbstractStep, ResultOf, ClaimOf
<1>2. ASSUME AttrSetStackSize(t)
      PROVE  AbstractStep(t)
  BY <1>2
     DEF AttrSetStackSize, TaskInv, Lifecycle, PthreadState, ValueState, RefsOf,
         ThreadHolds, OwnerHolds, AbstractStep, ResultOf, ClaimOf
<1>3. ASSUME PthreadCreate(t)
      PROVE  AbstractStep(t)
  BY <1>3
     DEF PthreadCreate, CreatedState, TaskInv, Lifecycle, PthreadState, ValueState, RefsOf,
         ThreadHolds, OwnerHolds, AbstractStep, ResultOf, ClaimOf
<1>4. ASSUME SpawnFailed(t)
      PROVE  AbstractStep(t)
  BY <1>4
     DEF SpawnFailed, FreePacket, RefsOnError, TaskInv, Lifecycle, PthreadState,
         ValueState, RefsOf, ThreadHolds, OwnerHolds, AbstractStep, ResultOf, ClaimOf
<1>5. ASSUME JoinReturn(t)
      PROVE  AbstractStep(t)
  BY <1>5
     DEF JoinReturn, Terminated, MarkJoined, TaskInv, Lifecycle, PthreadState, ValueState,
         RefsOf, ThreadHolds, OwnerHolds, AbstractStep, ResultOf, ClaimOf
<1>6. ASSUME JoinError(t)
      PROVE  AbstractStep(t)
  BY <1>6
     DEF JoinError, MarkJoined, TaskInv, Lifecycle, PthreadState, ValueState, RefsOf,
         ThreadHolds, OwnerHolds, AbstractStep, ResultOf, ClaimOf
<1>7. ASSUME TakeValue(t)
      PROVE  AbstractStep(t)
  BY <1>7
     DEF TakeValue, TakeSlot, TaskInv, Lifecycle, PthreadState, ValueState, RefsOf,
         ThreadHolds, OwnerHolds, AbstractStep, ResultOf, ClaimOf
<1>8. ASSUME DropDetach(t)
      PROVE  AbstractStep(t)
  BY <1>8
     DEF DropDetach, MustDetach, Detached, TaskInv, Lifecycle, PthreadState, ValueState,
         RefsOf, ThreadHolds, OwnerHolds, AbstractStep, ResultOf, ClaimOf
<1>9. ASSUME DropShared(t)
      PROVE  AbstractStep(t)
  BY <1>9
     DEF DropShared, ReleaseRef, TaskInv, Lifecycle, PthreadState, ValueState, RefsOf,
         ThreadHolds, OwnerHolds, AbstractStep, ResultOf, ClaimOf
<1> QED
  BY <1>1, <1>2, <1>3, <1>4, <1>5, <1>6, <1>7, <1>8, <1>9 DEF OwnerStep

\* The closure's return produces; the last reference discards.
LEMMA ThreadAbstract ==
    ASSUME TypeOK, NEW t \in Tasks, TaskInv(t), ThreadStep(t) \/ ClosureReturn(t)
    PROVE  AbstractStep(t)
<1> USE DEF TypeOK, Spawning, Holding, Threads, ownerVars, threadVars, valueVars
<1>1. ASSUME Trampoline(t)
      PROVE  AbstractStep(t)
  BY <1>1
     DEF Trampoline, TaskInv, Lifecycle, PthreadState, ValueState, RefsOf,
         ThreadHolds, OwnerHolds, AbstractStep, ResultOf, ClaimOf
<1>2. ASSUME StoreValue(t)
      PROVE  AbstractStep(t)
  BY <1>2
     DEF StoreValue, TaskInv, Lifecycle, PthreadState, ValueState, RefsOf, ThreadHolds,
         OwnerHolds, AbstractStep, ResultOf, ClaimOf
<1>3. ASSUME ReleaseShared(t)
      PROVE  AbstractStep(t)
  BY <1>3
     DEF ReleaseShared, ReleaseRef, TaskInv, Lifecycle, PthreadState, ValueState, RefsOf,
         ThreadHolds, OwnerHolds, AbstractStep, ResultOf, ClaimOf
<1>4. ASSUME ThreadExit(t)
      PROVE  AbstractStep(t)
  BY <1>4
     DEF ThreadExit, TaskInv, Lifecycle, PthreadState, ValueState, RefsOf, ThreadHolds,
         OwnerHolds, AbstractStep, ResultOf, ClaimOf
<1>5. ASSUME ClosureReturn(t)
      PROVE  AbstractStep(t)
  <2>1. run[t] = "closure"
    BY <1>5, ThreadsDistinct DEF ClosureReturn, Free
  <2> QED
    BY <1>5, <2>1
       DEF ClosureReturn, TaskInv, Lifecycle, PthreadState, ValueState, RefsOf, ThreadHolds,
           OwnerHolds, AbstractStep, ResultOf, ClaimOf
<1> QED
  BY <1>1, <1>2, <1>3, <1>4, <1>5 DEF ThreadStep

\* A step on one task is a step of ThreadResult.
LEMMA LiftStep ==
    ASSUME NEW t \in Tasks, AbstractStep(t), \A u \in Tasks \ {t} : Untouched(u)
    PROVE  [Result!Next]_(Result!vars)
<1>1. \A u \in Tasks \ {t} : ResultOf(u)' = ResultOf(u) /\ ClaimOf(u)' = ClaimOf(u)
  BY UntouchedAbstract
<1>2. CASE ResultOf(t)' = ResultOf(t) /\ ClaimOf(t)' = ClaimOf(t)
  BY <1>1, <1>2 DEF Result!vars
<1>3. CASE ResultOf(t) = "idle" /\ ResultOf(t)' = "pending" /\ ClaimOf(t)' = "open"
  BY <1>1, <1>3 DEF Result!Next, Result!Accept
<1>4. CASE ResultOf(t) = "idle" /\ ResultOf(t)' = "refused" /\ ClaimOf(t)' = ClaimOf(t)
  BY <1>1, <1>4 DEF Result!Next, Result!Refuse
<1>5. CASE ResultOf(t) = "pending" /\ ResultOf(t)' = "produced" /\ ClaimOf(t)' = ClaimOf(t)
  BY <1>1, <1>5 DEF Result!Next, Result!Produce
<1>6. CASE /\ ResultOf(t) = "produced" /\ ResultOf(t)' = "delivered"
           /\ ClaimOf(t) = "open" /\ ClaimOf(t)' = "joined"
  BY <1>1, <1>6 DEF Result!Next, Result!Deliver
<1>7. CASE ClaimOf(t) = "open" /\ ClaimOf(t)' = "abandoned" /\ ResultOf(t)' = ResultOf(t)
  BY <1>1, <1>7 DEF Result!Next, Result!Abandon
<1>8. CASE /\ ResultOf(t) = "produced" /\ ResultOf(t)' = "discarded"
           /\ ClaimOf(t) = "abandoned" /\ ClaimOf(t)' = ClaimOf(t)
  BY <1>1, <1>8 DEF Result!Next, Result!Discard
<1> QED
  BY <1>2, <1>3, <1>4, <1>5, <1>6, <1>7, <1>8 DEF AbstractStep

LEMMA InitAbstract == Init => Result!Init
BY DEF Init, Result!Init, ResultOf, ClaimOf

LEMMA StepAbstract == IInv /\ [Next]_vars => [Result!Next]_(Result!vars)
<1> SUFFICES ASSUME IInv, [Next]_vars
             PROVE  [Result!Next]_(Result!vars)
  OBVIOUS
<1>1. CASE Next
  <2>1. PICK t \in Tasks : \/ \E w \in Threads : Call(w, t)
                           \/ OwnerStep(t)
                           \/ ClosureReturn(t)
                           \/ ThreadStep(t)
    BY <1>1 DEF Next
  <2>2. Keeps(t)
    BY <2>1, CallKeeps, OwnerKeeps, ThreadKeeps DEF IInv
  <2>3. AbstractStep(t)
    BY <2>1, CallAbstract, OwnerAbstract, ThreadAbstract DEF IInv
  <2> QED
    BY <2>2, <2>3, LiftStep DEF Keeps
<1>2. CASE UNCHANGED vars
  BY <1>2 DEF vars, Result!vars, ResultOf, ClaimOf
<1> QED
  BY <1>1, <1>2

\* spawn, join, drop and the trampoline together do with a closure's value only
\* what ThreadResult allows: deliver it to the one joiner, or discard it after
\* the handle was given up (thread.rs:120-125).
THEOREM Refinement == Spec => ImplementsThreadResult
BY InitAbstract, StepAbstract, Invariant, PTL DEF Spec, Result!Spec, ImplementsThreadResult
===============================================================================
