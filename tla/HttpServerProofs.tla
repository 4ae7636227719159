--------------------------- MODULE HttpServerProofs ---------------------------
EXTENDS HttpServer, FiniteSetTheorems, TLAPS

\* What is shown of every step without counting references.
State == TypeOK /\ LoopState /\ ThreadState /\ StreamLifetime /\ OneUnowned

\* What the count of references is needed for: whoever drops one has one.
HandlerHeld == /\ acceptor \in {"accept", "spawn", "spawning"} => handlers > 0
               /\ \A c \in Conns : ClosureLive(c) => handlers > 0

LEMMA ClosuresFinite == IsFiniteSet(Closures) /\ IsFiniteSet(Closures')
  BY ConstantsType, FS_Subset DEF Closures, ConstantsType

\* The handler is alive for the loop and for every closure.
LEMMA RefsHold ==
    ASSUME TypeOK, HandlerRefs
    PROVE  HandlerHeld
<1>1. Cardinality(Closures) \in Nat
  BY ClosuresFinite, FS_CardinalityType
<1>2. ASSUME NEW c \in Conns, ClosureLive(c)
      PROVE  Cardinality(Closures) > 0
  <2>1. Closures # {}
    BY <1>2 DEF Closures
  <2> QED
    BY <2>1, <1>1, ClosuresFinite, FS_EmptySet
<1> QED
  BY <1>1, <1>2 DEF HandlerHeld, HandlerRefs, TypeOK

LEMMA InitInvariant == Init => IInv
<1> SUFFICES ASSUME Init
             PROVE  IInv
  OBVIOUS
<1> USE ConstantsType DEF Init, Thread!Init
<1>1. Closures = {}
  BY DEF Closures, ClosureLive, Thread!Spawning
<1>2. HandlerRefs
  BY <1>1, FS_EmptySet DEF HandlerRefs
<1>3. TypeOK
  BY DEF TypeOK, Phases, Answers, Thread!TypeOK, Thread!Threads, Thread!Spawning, Thread!Holding
<1>4. LoopState /\ ThreadState
  BY DEF LoopState, ThreadState, Busy, Thread!RefsOf, Thread!ThreadHolds,
         Thread!OwnerHolds, Thread!Spawning, Thread!Holding
<1>5. StreamLifetime /\ OneUnowned
  BY DEF StreamLifetime, OneUnowned, ClosureLive, Thread!Spawning
<1> QED
  BY <1>2, <1>3, <1>4, <1>5 DEF IInv

\* What serve does by itself, outside spawn.
LEMMA AcceptorKeeps ==
    ASSUME State, HandlerHeld,
           \/ OpenListener
           \/ StartListening
           \/ AcceptFails
           \/ \E c \in Conns : Accept(c) \/ SpawnConnection(c)
    PROVE  State'
<1> USE DEF State, TypeOK, Thread!TypeOK, Thread!Threads, Busy, Thread!Spawning,
            Thread!Holding, connections, threads, Thread!ownerVars, Thread!threadVars,
            Thread!valueVars
<1>1. ASSUME OpenListener
      PROVE  State'
  <2> USE <1>1
      DEF OpenListener
  <2>1. TypeOK'
    BY ConstantsType
       DEF TypeOK
  <2>2. LoopState'
    BY ConstantsType
       DEF LoopState
  <2>3. ThreadState'
    BY ConstantsType
       DEF ThreadState, Thread!RefsOf, Thread!ThreadHolds, Thread!OwnerHolds
  <2>4. StreamLifetime'
    BY ConstantsType
       DEF StreamLifetime, OneUnowned, LoopState, ThreadState, ClosureLive
  <2>5. OneUnowned'
    BY ConstantsType
       DEF StreamLifetime, OneUnowned, ThreadState, ClosureLive
  <2> QED
    BY <2>1, <2>2, <2>3, <2>4, <2>5 DEF State
<1>2. ASSUME StartListening
      PROVE  State'
  <2> USE <1>2
      DEF StartListening
  <2>1. TypeOK'
    BY ConstantsType
       DEF TypeOK
  <2>2. LoopState'
    BY ConstantsType
       DEF LoopState
  <2>3. ThreadState'
    BY ConstantsType
       DEF ThreadState, Thread!RefsOf, Thread!ThreadHolds, Thread!OwnerHolds
  <2>4. StreamLifetime'
    BY ConstantsType
       DEF StreamLifetime, OneUnowned, LoopState, ThreadState, ClosureLive
  <2>5. OneUnowned'
    BY ConstantsType
       DEF StreamLifetime, OneUnowned, ThreadState, ClosureLive
  <2> QED
    BY <2>1, <2>2, <2>3, <2>4, <2>5 DEF State
<1>3. ASSUME AcceptFails
      PROVE  State'
  <2> USE <1>3
      DEF AcceptFails, Queue
  <2>1. TypeOK'
    BY ConstantsType
       DEF TypeOK, HandlerHeld, ThreadState, ClosureLive
  <2>2. LoopState'
    BY ConstantsType
       DEF LoopState
  <2>3. ThreadState'
    BY ConstantsType
       DEF ThreadState, Thread!RefsOf, Thread!ThreadHolds, Thread!OwnerHolds
  <2>4. StreamLifetime'
    BY ConstantsType
       DEF StreamLifetime, OneUnowned, LoopState, ThreadState, ClosureLive
  <2>5. OneUnowned'
    BY ConstantsType
       DEF StreamLifetime, OneUnowned, ThreadState, ClosureLive
  <2> QED
    BY <2>1, <2>2, <2>3, <2>4, <2>5 DEF State
<1>4. ASSUME NEW c \in Conns, Accept(c)
      PROVE  State'
  <2> USE <1>4
      DEF Accept
  <2>1. TypeOK'
    BY ConstantsType
       DEF TypeOK
  <2>2. LoopState'
    BY ConstantsType
       DEF LoopState
  <2>3. ThreadState'
    BY ConstantsType
       DEF ThreadState, Thread!RefsOf, Thread!ThreadHolds, Thread!OwnerHolds
  <2>4. StreamLifetime'
    BY ConstantsType
       DEF StreamLifetime, OneUnowned, LoopState, ThreadState, ClosureLive
  <2>5. OneUnowned'
    BY ConstantsType
       DEF StreamLifetime, OneUnowned, ThreadState, ClosureLive
  <2> QED
    BY <2>1, <2>2, <2>3, <2>4, <2>5 DEF State
<1>5. ASSUME NEW c \in Conns, SpawnConnection(c)
      PROVE  State'
  <2> USE <1>5
      DEF SpawnConnection, CloneHandler, Thread!Spawn
  <2>1. TypeOK'
    BY ConstantsType
       DEF TypeOK
  <2>2. LoopState'
    BY ConstantsType
       DEF LoopState
  <2>3. ThreadState'
    BY ConstantsType
       DEF ThreadState, Thread!RefsOf, Thread!ThreadHolds, Thread!OwnerHolds
  <2>4. StreamLifetime'
    BY ConstantsType
       DEF StreamLifetime, OneUnowned, LoopState, ThreadState, ClosureLive
  <2>5. OneUnowned'
    BY ConstantsType
       DEF StreamLifetime, OneUnowned, ThreadState, ClosureLive
  <2> QED
    BY <2>1, <2>2, <2>3, <2>4, <2>5 DEF State
<1> QED
  BY <1>1, <1>2, <1>3, <1>4, <1>5

\* The rest of a spawn, and the drop of the handle.
LEMMA SpawnKeeps ==
    ASSUME State, HandlerHeld,
           \E c \in Conns : SpawnStep(c) \/ SpawnFails(c) \/ ForgetHandle(c) \/ HandleStep(c)
    PROVE  State'
<1> USE DEF State, TypeOK, Thread!TypeOK, Thread!Threads, Busy, Thread!Spawning,
            Thread!Holding, connections, threads, Thread!ownerVars, Thread!threadVars,
            Thread!valueVars
<1>1. ASSUME NEW c \in Conns, SpawnStep(c) /\ Thread!AttrInit(c)
      PROVE  State'
  <2> USE <1>1
      DEF SpawnStep, Thread!AttrInit
  <2>1. TypeOK'
    BY ConstantsType
       DEF TypeOK
  <2>2. LoopState'
    BY ConstantsType
       DEF LoopState
  <2>3. ThreadState'
    BY ConstantsType
       DEF ThreadState, Thread!RefsOf, Thread!ThreadHolds, Thread!OwnerHolds
  <2>4. StreamLifetime'
    BY ConstantsType
       DEF StreamLifetime, OneUnowned, LoopState, ThreadState, ClosureLive
  <2>5. OneUnowned'
    BY ConstantsType
       DEF StreamLifetime, OneUnowned, ThreadState, ClosureLive
  <2> QED
    BY <2>1, <2>2, <2>3, <2>4, <2>5 DEF State
<1>2. ASSUME NEW c \in Conns, SpawnStep(c) /\ Thread!AttrSetStackSize(c)
      PROVE  State'
  <2> USE <1>2
      DEF SpawnStep, Thread!AttrSetStackSize
  <2>1. TypeOK'
    BY ConstantsType
       DEF TypeOK
  <2>2. LoopState'
    BY ConstantsType
       DEF LoopState
  <2>3. ThreadState'
    BY ConstantsType
       DEF ThreadState, Thread!RefsOf, Thread!ThreadHolds, Thread!OwnerHolds
  <2>4. StreamLifetime'
    BY ConstantsType
       DEF StreamLifetime, OneUnowned, LoopState, ThreadState, ClosureLive
  <2>5. OneUnowned'
    BY ConstantsType
       DEF StreamLifetime, OneUnowned, ThreadState, ClosureLive
  <2> QED
    BY <2>1, <2>2, <2>3, <2>4, <2>5 DEF State
<1>3. ASSUME NEW c \in Conns, SpawnStep(c) /\ Thread!PthreadCreate(c)
      PROVE  State'
  <2> USE <1>3
      DEF SpawnStep, Thread!PthreadCreate, Thread!CreatedState
  <2>1. TypeOK'
    BY ConstantsType
       DEF TypeOK
  <2>2. LoopState'
    BY ConstantsType
       DEF LoopState
  <2>3. ThreadState'
    BY ConstantsType
       DEF ThreadState, Thread!RefsOf, Thread!ThreadHolds, Thread!OwnerHolds
  <2>4. StreamLifetime'
    BY ConstantsType
       DEF StreamLifetime, OneUnowned, LoopState, ThreadState, ClosureLive
  <2>5. OneUnowned'
    BY ConstantsType
       DEF StreamLifetime, OneUnowned, ThreadState, ClosureLive
  <2> QED
    BY <2>1, <2>2, <2>3, <2>4, <2>5 DEF State
<1>4. ASSUME NEW c \in Conns, SpawnFails(c)
      PROVE  State'
  <2> USE <1>4
      DEF SpawnFails, CloseStream, Thread!SpawnFailed, Thread!FreePacket,
          Thread!RefsOnError
  <2>1. TypeOK'
    BY ConstantsType
       DEF TypeOK, HandlerHeld, ThreadState, ClosureLive, ThreadState, Thread!RefsOf,
           Thread!ThreadHolds, Thread!OwnerHolds
  <2>2. LoopState'
    BY ConstantsType
       DEF LoopState
  <2>3. ThreadState'
    BY ConstantsType
       DEF ThreadState, Thread!RefsOf, Thread!ThreadHolds, Thread!OwnerHolds
  <2>4. StreamLifetime'
    BY ConstantsType
       DEF StreamLifetime, OneUnowned, LoopState, ThreadState, ClosureLive
  <2>5. OneUnowned'
    BY ConstantsType
       DEF StreamLifetime, OneUnowned, ThreadState, ClosureLive
  <2> QED
    BY <2>1, <2>2, <2>3, <2>4, <2>5 DEF State
<1>5. ASSUME NEW c \in Conns, ForgetHandle(c)
      PROVE  State'
  <2> USE <1>5
      DEF ForgetHandle, DropConnection, Thread!DropHandle
  <2>1. TypeOK'
    BY ConstantsType
       DEF TypeOK
  <2>2. LoopState'
    BY ConstantsType
       DEF LoopState
  <2>3. ThreadState'
    BY ConstantsType
       DEF ThreadState, Thread!RefsOf, Thread!ThreadHolds, Thread!OwnerHolds
  <2>4. StreamLifetime'
    BY ConstantsType
       DEF StreamLifetime, OneUnowned, LoopState, ThreadState, ClosureLive
  <2>5. OneUnowned'
    BY ConstantsType
       DEF StreamLifetime, OneUnowned, ThreadState, ClosureLive
  <2> QED
    BY <2>1, <2>2, <2>3, <2>4, <2>5 DEF State
<1>6. ASSUME NEW c \in Conns, HandleStep(c) /\ Thread!DropDetach(c)
      PROVE  State'
  <2> USE <1>6
      DEF HandleStep, Thread!DropDetach, Thread!MustDetach, Thread!Detached,
          Thread!DropShared
  <2>1. TypeOK'
    BY ConstantsType
       DEF TypeOK
  <2>2. LoopState'
    BY ConstantsType
       DEF LoopState
  <2>3. ThreadState'
    BY ConstantsType
       DEF ThreadState, Thread!RefsOf, Thread!ThreadHolds, Thread!OwnerHolds
  <2>4. StreamLifetime'
    BY ConstantsType
       DEF StreamLifetime, OneUnowned, LoopState, ThreadState, ClosureLive
  <2>5. OneUnowned'
    BY ConstantsType
       DEF StreamLifetime, OneUnowned, ThreadState, ClosureLive
  <2> QED
    BY <2>1, <2>2, <2>3, <2>4, <2>5 DEF State
<1>7. ASSUME NEW c \in Conns, HandleStep(c) /\ Thread!DropShared(c)
      PROVE  State'
  <2> USE <1>7
      DEF HandleStep, Thread!DropShared, Thread!ReleaseRef, Thread!DropDetach
  <2>1. TypeOK'
    BY ConstantsType
       DEF TypeOK, ThreadState, Thread!RefsOf, Thread!ThreadHolds, Thread!OwnerHolds
  <2>2. LoopState'
    BY ConstantsType
       DEF LoopState
  <2>3. ThreadState'
    BY ConstantsType
       DEF ThreadState, Thread!RefsOf, Thread!ThreadHolds, Thread!OwnerHolds
  <2>4. StreamLifetime'
    BY ConstantsType
       DEF StreamLifetime, OneUnowned, LoopState, ThreadState, ClosureLive
  <2>5. OneUnowned'
    BY ConstantsType
       DEF StreamLifetime, OneUnowned, ThreadState, ClosureLive
  <2> QED
    BY <2>1, <2>2, <2>3, <2>4, <2>5 DEF State
<1> QED
  BY <1>1, <1>2, <1>3, <1>4, <1>5, <1>6, <1>7 DEF SpawnStep, HandleStep

\* A client.
LEMMA ClientKeeps ==
    ASSUME State, HandlerHeld,
           \E c \in Conns : Connect(c) \/ Abort(c)
    PROVE  State'
<1> USE DEF State, TypeOK, Thread!TypeOK, Thread!Threads, Busy, Thread!Spawning,
            Thread!Holding, connections, threads, Thread!ownerVars, Thread!threadVars,
            Thread!valueVars
<1>1. ASSUME NEW c \in Conns, Connect(c)
      PROVE  State'
  <2> USE <1>1
      DEF Connect
  <2>1. TypeOK'
    BY ConstantsType
       DEF TypeOK
  <2>2. LoopState'
    BY ConstantsType
       DEF LoopState
  <2>3. ThreadState'
    BY ConstantsType
       DEF ThreadState, Thread!RefsOf, Thread!ThreadHolds, Thread!OwnerHolds
  <2>4. StreamLifetime'
    BY ConstantsType
       DEF StreamLifetime, OneUnowned, LoopState, ThreadState, ClosureLive
  <2>5. OneUnowned'
    BY ConstantsType
       DEF StreamLifetime, OneUnowned, ThreadState, ClosureLive
  <2> QED
    BY <2>1, <2>2, <2>3, <2>4, <2>5 DEF State
<1>2. ASSUME NEW c \in Conns, Abort(c)
      PROVE  State'
  <2> USE <1>2
      DEF Abort
  <2>1. TypeOK'
    BY ConstantsType
       DEF TypeOK
  <2>2. LoopState'
    BY ConstantsType
       DEF LoopState
  <2>3. ThreadState'
    BY ConstantsType
       DEF ThreadState, Thread!RefsOf, Thread!ThreadHolds, Thread!OwnerHolds
  <2>4. StreamLifetime'
    BY ConstantsType
       DEF StreamLifetime, OneUnowned, LoopState, ThreadState, ClosureLive
  <2>5. OneUnowned'
    BY ConstantsType
       DEF StreamLifetime, OneUnowned, ThreadState, ClosureLive
  <2> QED
    BY <2>1, <2>2, <2>3, <2>4, <2>5 DEF State
<1> QED
  BY <1>1, <1>2

\* The thread of a connection.
LEMMA ConnectionKeeps ==
    ASSUME State, HandlerHeld,
           \E c \in Conns : ServeStep(c) \/ ConnectionStep(c)
    PROVE  State'
<1> USE DEF State, TypeOK, Thread!TypeOK, Thread!Threads, Busy, Thread!Spawning,
            Thread!Holding, connections, threads, Thread!ownerVars, Thread!threadVars,
            Thread!valueVars
<1>1. ASSUME NEW c \in Conns, ServeStep(c)
      PROVE  State'
  <2> USE <1>1
      DEF ServeStep
  <2>1. TypeOK'
    BY ConstantsType
       DEF TypeOK
  <2>2. LoopState'
    BY ConstantsType
       DEF LoopState
  <2>3. ThreadState'
    BY ConstantsType
       DEF ThreadState, Thread!RefsOf, Thread!ThreadHolds, Thread!OwnerHolds
  <2>4. StreamLifetime'
    BY ConstantsType
       DEF StreamLifetime, OneUnowned, LoopState, ThreadState, ClosureLive, Exch!Next,
           Exch!Handle, Exch!Respond, Exch!Reject, Exch!Leave, Exch!Finish
  <2>5. OneUnowned'
    BY ConstantsType
       DEF StreamLifetime, OneUnowned, ThreadState, ClosureLive
  <2> QED
    BY <2>1, <2>2, <2>3, <2>4, <2>5 DEF State
<1>2. ASSUME NEW c \in Conns, DropStream(c)
      PROVE  State'
  <2> USE <1>2
      DEF DropStream
  <2>1. TypeOK'
    BY ConstantsType
       DEF TypeOK
  <2>2. LoopState'
    BY ConstantsType
       DEF LoopState
  <2>3. ThreadState'
    BY ConstantsType
       DEF ThreadState, Thread!RefsOf, Thread!ThreadHolds, Thread!OwnerHolds
  <2>4. StreamLifetime'
    BY ConstantsType
       DEF StreamLifetime, OneUnowned, LoopState, ThreadState, ClosureLive
  <2>5. OneUnowned'
    BY ConstantsType
       DEF StreamLifetime, OneUnowned, ThreadState, ClosureLive
  <2> QED
    BY <2>1, <2>2, <2>3, <2>4, <2>5 DEF State
<1>3. ASSUME NEW c \in Conns, LeaveClosure(c)
      PROVE  State'
  <2> USE <1>3
      DEF LeaveClosure, Thread!ClosureReturn, Thread!Free
  <2>1. TypeOK'
    BY ConstantsType
       DEF TypeOK, HandlerHeld, ThreadState, ClosureLive
  <2>2. LoopState'
    BY ConstantsType
       DEF LoopState, ThreadState
  <2>3. ThreadState'
    BY ConstantsType
       DEF ThreadState, Thread!RefsOf, Thread!ThreadHolds, Thread!OwnerHolds
  <2>4. StreamLifetime'
    BY ConstantsType
       DEF StreamLifetime, OneUnowned, LoopState, ThreadState, ClosureLive
  <2>5. OneUnowned'
    BY ConstantsType
       DEF StreamLifetime, OneUnowned, ThreadState, ClosureLive
  <2> QED
    BY <2>1, <2>2, <2>3, <2>4, <2>5 DEF State
<1>4. ASSUME NEW c \in Conns, ThreadStep(c) /\ Thread!Trampoline(c)
      PROVE  State'
  <2> USE <1>4
      DEF ThreadStep, Thread!Trampoline
  <2>1. TypeOK'
    BY ConstantsType
       DEF TypeOK
  <2>2. LoopState'
    BY ConstantsType
       DEF LoopState
  <2>3. ThreadState'
    BY ConstantsType
       DEF ThreadState, Thread!RefsOf, Thread!ThreadHolds, Thread!OwnerHolds
  <2>4. StreamLifetime'
    BY ConstantsType
       DEF StreamLifetime, OneUnowned, LoopState, ThreadState, ClosureLive
  <2>5. OneUnowned'
    BY ConstantsType
       DEF StreamLifetime, OneUnowned, ThreadState, ClosureLive
  <2> QED
    BY <2>1, <2>2, <2>3, <2>4, <2>5 DEF State
<1>5. ASSUME NEW c \in Conns, ThreadStep(c) /\ Thread!StoreValue(c)
      PROVE  State'
  <2> USE <1>5
      DEF ThreadStep, Thread!StoreValue
  <2>1. TypeOK'
    BY ConstantsType
       DEF TypeOK
  <2>2. LoopState'
    BY ConstantsType
       DEF LoopState
  <2>3. ThreadState'
    BY ConstantsType
       DEF ThreadState, Thread!RefsOf, Thread!ThreadHolds, Thread!OwnerHolds
  <2>4. StreamLifetime'
    BY ConstantsType
       DEF StreamLifetime, OneUnowned, LoopState, ThreadState, ClosureLive
  <2>5. OneUnowned'
    BY ConstantsType
       DEF StreamLifetime, OneUnowned, ThreadState, ClosureLive
  <2> QED
    BY <2>1, <2>2, <2>3, <2>4, <2>5 DEF State
<1>6. ASSUME NEW c \in Conns, ThreadStep(c) /\ Thread!ReleaseShared(c)
      PROVE  State'
  <2> USE <1>6
      DEF ThreadStep, Thread!ReleaseShared, Thread!ReleaseRef
  <2>1. TypeOK'
    BY ConstantsType
       DEF TypeOK, ThreadState, Thread!RefsOf, Thread!ThreadHolds, Thread!OwnerHolds
  <2>2. LoopState'
    BY ConstantsType
       DEF LoopState
  <2>3. ThreadState'
    BY ConstantsType
       DEF ThreadState, Thread!RefsOf, Thread!ThreadHolds, Thread!OwnerHolds
  <2>4. StreamLifetime'
    BY ConstantsType
       DEF StreamLifetime, OneUnowned, LoopState, ThreadState, ClosureLive
  <2>5. OneUnowned'
    BY ConstantsType
       DEF StreamLifetime, OneUnowned, ThreadState, ClosureLive
  <2> QED
    BY <2>1, <2>2, <2>3, <2>4, <2>5 DEF State
<1>7. ASSUME NEW c \in Conns, ThreadStep(c) /\ Thread!ThreadExit(c)
      PROVE  State'
  <2> USE <1>7
      DEF ThreadStep, Thread!ThreadExit, Thread!FreePacket
  <2>1. TypeOK'
    BY ConstantsType
       DEF TypeOK
  <2>2. LoopState'
    BY ConstantsType
       DEF LoopState
  <2>3. ThreadState'
    BY ConstantsType
       DEF ThreadState, Thread!RefsOf, Thread!ThreadHolds, Thread!OwnerHolds
  <2>4. StreamLifetime'
    BY ConstantsType
       DEF StreamLifetime, OneUnowned, LoopState, ThreadState, ClosureLive
  <2>5. OneUnowned'
    BY ConstantsType
       DEF StreamLifetime, OneUnowned, ThreadState, ClosureLive
  <2> QED
    BY <2>1, <2>2, <2>3, <2>4, <2>5 DEF State
<1> QED
  BY <1>1, <1>2, <1>3, <1>4, <1>5, <1>6, <1>7 DEF ConnectionStep, ThreadStep, Thread!ThreadStep

LEMMA StateKept == State /\ HandlerHeld /\ [Next]_vars => State'
<1> SUFFICES ASSUME State, HandlerHeld, [Next]_vars
             PROVE  State'
  OBVIOUS
<1>1. CASE UNCHANGED vars
  BY <1>1 DEF State, TypeOK, LoopState, ThreadState, StreamLifetime, OneUnowned, ClosureLive,
              vars, connections, threads, Thread!TypeOK, Thread!RefsOf, Thread!ThreadHolds,
              Thread!OwnerHolds
<1>2. CASE Next
  BY <1>2, AcceptorKeeps, SpawnKeeps, ClientKeeps, ConnectionKeeps DEF Next, AcceptorStep
<1> QED
  BY <1>1, <1>2

-------------------------------------------------------------------------------
\* The count of references

\* 1 for the Arc the loop keeps while it runs.
LoopRef == IF acceptor \in {"accept", "spawn", "spawning"} THEN 1 ELSE 0

\* A step that makes no closure and drops none changes no reference.
LEMMA SameClosures ==
    ASSUME HandlerRefs, Closures' = Closures, handlers' - LoopRef' = handlers - LoopRef,
           handlers \in Nat, handlers' \in Nat
    PROVE  HandlerRefs'
<1>1. Cardinality(Closures) \in Nat
  BY ClosuresFinite, FS_CardinalityType
<1>2. handlers - LoopRef = Cardinality(Closures)
  BY <1>1 DEF HandlerRefs, LoopRef
<1>3. LoopRef' \in {0, 1}
  BY DEF LoopRef
<1>4. handlers' = Cardinality(Closures') + LoopRef'
  BY <1>1, <1>2, <1>3
<1> QED
  BY <1>4 DEF HandlerRefs, LoopRef

\* A closure is made with a reference of its own ...
LEMMA ClosureMade ==
    ASSUME HandlerRefs, LoopRef' = LoopRef, handlers' = handlers + 1,
           NEW c \in Conns, c \notin Closures, Closures' = Closures \cup {c}
    PROVE  HandlerRefs'
<1>1. Cardinality(Closures') = Cardinality(Closures) + 1
  BY ClosuresFinite, FS_AddElement
<1>2. Cardinality(Closures) \in Nat
  BY ClosuresFinite, FS_CardinalityType
<1>3. LoopRef \in {0, 1} /\ handlers = Cardinality(Closures) + LoopRef
  BY DEF HandlerRefs, LoopRef
<1>4. handlers' = Cardinality(Closures') + LoopRef'
  BY <1>1, <1>2, <1>3
<1> QED
  BY <1>4 DEF HandlerRefs, LoopRef

\* ... and drops it when it is dropped.
LEMMA ClosureDropped ==
    ASSUME HandlerRefs, LoopRef' = LoopRef, handlers' = handlers - 1,
           NEW c \in Closures, Closures' = Closures \ {c}
    PROVE  HandlerRefs'
<1>1. Cardinality(Closures') = Cardinality(Closures) - 1
  BY ClosuresFinite, FS_RemoveElement
<1>2. Cardinality(Closures) \in Nat
  BY ClosuresFinite, FS_CardinalityType
<1>3. LoopRef \in {0, 1} /\ handlers = Cardinality(Closures) + LoopRef
  BY DEF HandlerRefs, LoopRef
<1>4. handlers' = Cardinality(Closures') + LoopRef'
  BY <1>1, <1>2, <1>3
<1> QED
  BY <1>4 DEF HandlerRefs, LoopRef

LEMMA RefsKept ==
    ASSUME State, State', HandlerRefs, [Next]_vars
    PROVE  HandlerRefs'
<1> USE DEF Closures, ClosureLive, Thread!Spawning, LoopRef
<1>t. handlers \in Nat /\ handlers' \in Nat
  BY DEF State, TypeOK
<1>u. /\ owner \in [Conns -> {"none", "err", "gone"} \cup Thread!Spawning \cup Thread!Holding]
      /\ run \in [Conns -> {"none", "start", "closure", "store", "release", "exit", "done"}]
  BY DEF State, TypeOK, Thread!TypeOK
<1>1. CASE UNCHANGED vars
  BY <1>1, <1>t, SameClosures DEF vars, threads
<1>2. CASE OpenListener
  BY <1>2, <1>t, SameClosures DEF OpenListener, threads
<1>3. CASE StartListening
  <2>1. Closures = {} /\ Closures' = Closures
    BY <1>3 DEF StartListening, threads, State, LoopState, ThreadState
  <2>2. handlers = 0
    BY <1>3, <2>1, FS_EmptySet DEF StartListening, HandlerRefs
  <2> QED
    BY <1>3, <1>t, <2>1, <2>2, SameClosures DEF StartListening
<1>4. CASE AcceptFails
  BY <1>4, <1>t, SameClosures DEF AcceptFails, threads
<1>5. ASSUME NEW c \in Conns, Accept(c) \/ Connect(c) \/ Abort(c) \/ ServeStep(c) \/ DropStream(c)
      PROVE  HandlerRefs'
  BY <1>5, <1>t, SameClosures DEF Accept, Connect, Abort, ServeStep, DropStream, threads
<1>6. ASSUME NEW c \in Conns, SpawnConnection(c)
      PROVE  HandlerRefs'
  <2>1. c \notin Closures /\ Closures' = Closures \cup {c}
    BY <1>6, <1>u DEF SpawnConnection, Thread!Spawn, Thread!threadVars, State, ThreadState
  <2> QED
    BY <1>6, <2>1, ClosureMade DEF SpawnConnection, CloneHandler
<1>7. ASSUME NEW c \in Conns, SpawnStep(c)
      PROVE  HandlerRefs'
  <2>1. Closures' = Closures
    BY <1>7, <1>u DEF SpawnStep, Thread!AttrInit, Thread!AttrSetStackSize,
           Thread!PthreadCreate, Thread!CreatedState, Thread!threadVars, State, ThreadState
  <2> QED
    BY <1>7, <1>t, <2>1, SameClosures DEF SpawnStep
<1>8. ASSUME NEW c \in Conns, SpawnFails(c)
      PROVE  HandlerRefs'
  <2>1. c \in Closures /\ Closures' = Closures \ {c}
    BY <1>8, <1>u DEF SpawnFails, Thread!SpawnFailed, Thread!threadVars, State, ThreadState
  <2>2. LoopRef' = LoopRef
    BY <1>8 DEF SpawnFails, Thread!SpawnFailed, State, LoopState, Busy
  <2> QED
    BY <1>8, <2>1, <2>2, ClosureDropped DEF SpawnFails
<1>9. ASSUME NEW c \in Conns, ForgetHandle(c) \/ HandleStep(c)
      PROVE  HandlerRefs'
  <2>1. Closures' = Closures
    BY <1>9, <1>u DEF ForgetHandle, DropConnection, HandleStep, Thread!DropHandle,
           Thread!DropDetach, Thread!DropShared, Thread!threadVars
  <2>2. LoopRef' = LoopRef /\ handlers' = handlers
    BY <1>9 DEF ForgetHandle, HandleStep, Thread!DropShared, State, LoopState, Busy
  <2> QED
    BY <1>t, <2>1, <2>2, SameClosures
<1>10. ASSUME NEW c \in Conns, LeaveClosure(c)
       PROVE  HandlerRefs'
  <2>1. c \in Closures /\ Closures' = Closures \ {c}
    BY <1>10, <1>u, ConstantsType
       DEF LeaveClosure, Thread!ClosureReturn, Thread!Free, Thread!ownerVars,
           State, ThreadState
  <2> QED
    BY <1>10, <2>1, ClosureDropped DEF LeaveClosure
<1>11. ASSUME NEW c \in Conns, ThreadStep(c)
       PROVE  HandlerRefs'
  <2>1. Closures' = Closures
    BY <1>11, <1>u DEF ThreadStep, Thread!ThreadStep, Thread!Trampoline, Thread!StoreValue,
           Thread!ReleaseShared, Thread!ThreadExit, Thread!ownerVars
  <2> QED
    BY <1>11, <1>t, <2>1, SameClosures DEF ThreadStep
<1>12. [Next]_vars <=> \/ UNCHANGED vars \/ Next
  OBVIOUS
<1> QED
  BY <1>1, <1>2, <1>3, <1>4, <1>5, <1>6, <1>7, <1>8, <1>9, <1>10, <1>11, <1>12
     DEF Next, AcceptorStep, ConnectionStep

-------------------------------------------------------------------------------
\* The invariant holds in every reachable state of the server (http.rs:274-299).
THEOREM Invariant == Spec => []IInv
<1>1. IInv /\ [Next]_vars => IInv'
  BY RefsHold, StateKept, RefsKept DEF IInv, State
<1> QED
  BY InitInvariant, <1>1, PTL DEF Spec

\* Every variable keeps its type.
THEOREM TypeCorrect == Spec => []TypeOK
<1>1. IInv => TypeOK
  BY DEF IInv
<1> QED
  BY Invariant, <1>1, PTL

\* For any number of connections, backlog and descriptor limit the handler has
\* one reference per closure and one for the loop: it is never dropped under a
\* connection that may call it, and never leaks (http.rs:280, 291-297).
THEOREM HandlerRefsHolds == Spec => []HandlerRefs
<1>1. IInv => HandlerRefs
  BY DEF IInv
<1> QED
  BY Invariant, <1>1, PTL

\* An accepted socket stays open while its exchange may still use it and is
\* closed on every path, a failed spawn included (http.rs:293-297).
THEOREM StreamLifetimeHolds == Spec => []StreamLifetime
<1>1. IInv => StreamLifetime
  BY DEF IInv
<1> QED
  BY Invariant, <1>1, PTL

-------------------------------------------------------------------------------
\* The modules that HttpServer composes.

\* The accept loop and its threads take the steps of JoinHandle and no others, so
\* whatever holds of every JoinHandle holds of the server's threads
\* (http.rs:291-297, thread.rs:232-268).
THEOREM ThreadsComposed == Spec => Thread!Spec
<1>1. Init => Thread!Init
  BY DEF Init
<1>2. ASSUME [Next]_vars
      PROVE  [Thread!Next]_(Thread!vars)
  <2>1. ASSUME NEW c \in Conns, Thread!Call(Main, c) \/ Thread!OwnerStep(c)
                                  \/ Thread!ClosureReturn(c) \/ Thread!ThreadStep(c)
        PROVE  Thread!Next
    BY <2>1 DEF Thread!Next, Thread!Threads
  <2>2. UNCHANGED threads => UNCHANGED Thread!vars
    BY DEF threads, Thread!vars
  <2>3. CASE AcceptorStep
    <3>1. CASE OpenListener \/ StartListening \/ \E c \in Conns : Accept(c)
      BY <2>2, <3>1 DEF OpenListener, StartListening, Accept
    <3>2. ASSUME NEW c \in Conns, SpawnConnection(c)
          PROVE  Thread!Next
      BY <2>1, <3>2 DEF SpawnConnection, Thread!Call
    <3>3. ASSUME NEW c \in Conns, SpawnStep(c) \/ SpawnFails(c) \/ HandleStep(c)
          PROVE  Thread!Next
      BY <2>1, <3>3 DEF SpawnStep, SpawnFails, HandleStep, Thread!OwnerStep
    <3>4. ASSUME NEW c \in Conns, ForgetHandle(c)
          PROVE  Thread!Next
      BY <2>1, <3>4 DEF ForgetHandle, DropConnection, Thread!Call
    <3> QED
      BY <2>3, <3>1, <3>2, <3>3, <3>4 DEF AcceptorStep
  <2>4. CASE AcceptFails
    BY <2>2, <2>4 DEF AcceptFails
  <2>5. ASSUME NEW c \in Conns, Connect(c) \/ Abort(c) \/ ServeStep(c) \/ DropStream(c)
        PROVE  UNCHANGED Thread!vars
    BY <2>2, <2>5 DEF Connect, Abort, ServeStep, DropStream
  <2>6. ASSUME NEW c \in Conns, LeaveClosure(c) \/ ThreadStep(c)
        PROVE  Thread!Next
    BY <2>1, <2>6 DEF LeaveClosure, ThreadStep
  <2>7. CASE UNCHANGED vars
    BY <2>2, <2>7 DEF vars
  <2> QED
    BY <1>2, <2>3, <2>4, <2>5, <2>6, <2>7 DEF Next, ConnectionStep
<1> QED
  BY <1>1, <1>2, PTL DEF Spec, Thread!Spec

\* Whatever the loop and the other connections do, each connection is one Exchange:
\* no step but its own touches it (http.rs:291-297, 302-321).
THEOREM ConnectionsComposed == ASSUME NEW c \in Conns PROVE Spec => Exch(c)!Spec
<1>1. Init => Exch(c)!Init
  BY DEF Init, Exch!Init
<1>2. ASSUME TypeOK, [Next]_vars
      PROVE  [Exch(c)!Next]_(Exch(c)!vars)
  <2>1. phase \in [Conns -> Phases] /\ answer \in [Conns -> Answers]
    BY <1>2 DEF TypeOK
  <2>2. UNCHANGED <<phase, answer>> => UNCHANGED Exch(c)!vars
    BY DEF Exch!vars
  <2>3. ASSUME NEW d \in Conns, ServeStep(d)
        PROVE  Exch(c)!Next \/ UNCHANGED Exch(c)!vars
    <3>1. PICK p \in Phases, a \in Answers :
             /\ phase' = [phase EXCEPT ![d] = p]
             /\ answer' = [answer EXCEPT ![d] = a]
             /\ Exch(d)!Next
      BY <2>3 DEF ServeStep
    <3>2. CASE d = c
      BY <3>1, <3>2
    <3>3. CASE d # c
      <4>1. phase'[c] = phase[c] /\ answer'[c] = answer[c]
        BY <2>1, <3>1, <3>3
      <4> QED
        BY <4>1 DEF Exch!vars
    <3> QED
      BY <3>2, <3>3
  <2>4. CASE AcceptorStep \/ AcceptFails
    BY <2>2, <2>4
       DEF AcceptorStep, AcceptFails, OpenListener, StartListening, Accept, SpawnConnection,
           SpawnStep, SpawnFails, ForgetHandle, HandleStep, connections
  <2>5. ASSUME NEW d \in Conns, Connect(d) \/ Abort(d) \/ ConnectionStep(d)
        PROVE  UNCHANGED Exch(c)!vars
    BY <2>2, <2>5
       DEF Connect, Abort, ConnectionStep, DropStream, LeaveClosure, ThreadStep, connections
  <2>6. CASE UNCHANGED vars
    BY <2>2, <2>6 DEF vars, connections
  <2> QED
    BY <1>2, <2>3, <2>4, <2>5, <2>6 DEF Next
<1>3. Spec => []TypeOK
  BY TypeCorrect
<1> QED
  BY <1>1, <1>2, <1>3, PTL DEF Spec, Exch!Spec
===============================================================================
