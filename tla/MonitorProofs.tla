---------------------------- MODULE MonitorProofs ----------------------------
(***************************************************************************)
(* The safety of Monitor for any threads, mutexes and condvars.            *)
(***************************************************************************)
EXTENDS Monitor, TLAPS

LEMMA InitInvariant == Init => IInv
BY NoneDistinct
   DEF Init, IInv, TypeOK, CallShape, WaitHolds, WaitAtomic, GuardExcludes, LockNotLeaked,
       Object

\* Every step keeps the invariant: one step of the proof per action, and under it
\* one per conjunct.
LEMMA NextInvariant == IInv /\ [Next]_vars => IInv'
<1> SUFFICES ASSUME IInv, [Next]_vars
             PROVE  IInv'
  OBVIOUS
<1> USE NoneDistinct DEF objects, calls
<1>1. TypeOK /\ CallShape /\ WaitHolds /\ WaitAtomic /\ GuardExcludes /\ LockNotLeaked
  BY DEF IInv
<1>2. ASSUME NEW m \in Mutexes, NewMutex(m)
      PROVE  IInv'
  <2>1. TypeOK' /\ CallShape'
    BY <1>1, <1>2 DEF NewMutex, TypeOK, Object, CallShape
  <2>2. WaitHolds'
    BY <1>1, <1>2 DEF NewMutex, TypeOK, CallShape, WaitHolds, GuardExcludes
  <2>3. WaitAtomic'
    BY <1>1, <1>2, <2>2
       DEF NewMutex, TypeOK, CallShape, WaitHolds, WaitAtomic, GuardExcludes
  <2>4. GuardExcludes'
    BY <1>1, <1>2 DEF NewMutex, TypeOK, CallShape, WaitHolds, WaitAtomic, GuardExcludes
  <2>5. LockNotLeaked'
    BY <1>1, <1>2 DEF NewMutex, TypeOK, CallShape, WaitHolds, GuardExcludes, LockNotLeaked
  <2> QED
    BY <2>1, <2>2, <2>3, <2>4, <2>5 DEF IInv
<1>3. ASSUME NEW c \in Condvars, NewCondvar(c)
      PROVE  IInv'
  <2>1. TypeOK' /\ CallShape'
    BY <1>1, <1>3 DEF NewCondvar, TypeOK, Object, CallShape
  <2>2. WaitHolds'
    BY <1>1, <1>3 DEF NewCondvar, TypeOK, CallShape, WaitHolds, GuardExcludes
  <2>3. WaitAtomic'
    BY <1>1, <1>3, <2>2
       DEF NewCondvar, TypeOK, CallShape, WaitHolds, WaitAtomic, GuardExcludes
  <2>4. GuardExcludes'
    BY <1>1, <1>3 DEF NewCondvar, TypeOK, CallShape, WaitHolds, WaitAtomic, GuardExcludes
  <2>5. LockNotLeaked'
    BY <1>1, <1>3 DEF NewCondvar, TypeOK, CallShape, WaitHolds, GuardExcludes, LockNotLeaked
  <2> QED
    BY <2>1, <2>2, <2>3, <2>4, <2>5 DEF IInv
<1>4. ASSUME NEW m \in Mutexes, DropMutex(m)
      PROVE  IInv'
  <2>1. TypeOK' /\ CallShape'
    BY <1>1, <1>4 DEF DropMutex, TypeOK, Object, CallShape
  <2>2. WaitHolds'
    BY <1>1, <1>4 DEF DropMutex, TypeOK, CallShape, WaitHolds, GuardExcludes
  <2>3. WaitAtomic'
    BY <1>1, <1>4, <2>2
       DEF DropMutex, TypeOK, CallShape, WaitHolds, WaitAtomic, GuardExcludes
  <2>4. GuardExcludes'
    BY <1>1, <1>4 DEF DropMutex, TypeOK, CallShape, WaitHolds, WaitAtomic, GuardExcludes
  <2>5. LockNotLeaked'
    BY <1>1, <1>4 DEF DropMutex, TypeOK, CallShape, WaitHolds, GuardExcludes, LockNotLeaked
  <2> QED
    BY <2>1, <2>2, <2>3, <2>4, <2>5 DEF IInv
<1>5. ASSUME NEW c \in Condvars, DropCondvar(c)
      PROVE  IInv'
  <2>1. TypeOK' /\ CallShape'
    BY <1>1, <1>5 DEF DropCondvar, TypeOK, Object, CallShape
  <2>2. WaitHolds'
    BY <1>1, <1>5 DEF DropCondvar, TypeOK, CallShape, WaitHolds, GuardExcludes
  <2>3. WaitAtomic'
    BY <1>1, <1>5, <2>2
       DEF DropCondvar, TypeOK, CallShape, WaitHolds, WaitAtomic, GuardExcludes
  <2>4. GuardExcludes'
    BY <1>1, <1>5 DEF DropCondvar, TypeOK, CallShape, WaitHolds, WaitAtomic, GuardExcludes
  <2>5. LockNotLeaked'
    BY <1>1, <1>5
       DEF DropCondvar, TypeOK, CallShape, WaitHolds, GuardExcludes, LockNotLeaked
  <2> QED
    BY <2>1, <2>2, <2>3, <2>4, <2>5 DEF IInv
<1>6. ASSUME NEW w \in Threads, NEW m \in Mutexes, Lock(w, m)
      PROVE  IInv'
  <2>1. TypeOK' /\ CallShape'
    BY <1>1, <1>6 DEF Lock, Enter, TypeOK, Object, CallShape
  <2>2. WaitHolds'
    BY <1>1, <1>6 DEF Lock, Enter, TypeOK, CallShape, WaitHolds, GuardExcludes
  <2>3. WaitAtomic'
    BY <1>1, <1>6, <2>2
       DEF Lock, Enter, TypeOK, CallShape, WaitHolds, WaitAtomic, GuardExcludes
  <2>4. GuardExcludes'
    BY <1>1, <1>6 DEF Lock, Enter, TypeOK, CallShape, WaitHolds, WaitAtomic, GuardExcludes
  <2>5. LockNotLeaked'
    BY <1>1, <1>6
       DEF Lock, Enter, TypeOK, CallShape, WaitHolds, GuardExcludes, LockNotLeaked
  <2> QED
    BY <2>1, <2>2, <2>3, <2>4, <2>5 DEF IInv
<1>7. ASSUME NEW w \in Threads, NEW m \in Mutexes, DropGuard(w, m)
      PROVE  IInv'
  <2>1. TypeOK' /\ CallShape'
    BY <1>1, <1>7 DEF DropGuard, LoseGuard, Unlocked, TypeOK, Object, CallShape
  <2>2. WaitHolds'
    BY <1>1, <1>7
       DEF DropGuard, LoseGuard, Unlocked, TypeOK, CallShape, WaitHolds, GuardExcludes
  <2>3. WaitAtomic'
    BY <1>1, <1>7, <2>2
       DEF DropGuard, LoseGuard, Unlocked, TypeOK, CallShape, WaitHolds, WaitAtomic,
           GuardExcludes
  <2>4. GuardExcludes'
    BY <1>1, <1>7
       DEF DropGuard, LoseGuard, Unlocked, TypeOK, CallShape, WaitHolds, WaitAtomic,
           GuardExcludes
  <2>5. LockNotLeaked'
    BY <1>1, <1>7
       DEF DropGuard, LoseGuard, Unlocked, TypeOK, CallShape, WaitHolds, GuardExcludes,
           LockNotLeaked
  <2> QED
    BY <2>1, <2>2, <2>3, <2>4, <2>5 DEF IInv
<1>8. ASSUME NEW w \in Threads, NEW m \in Mutexes, NEW c \in Condvars, Wait(w, m, c)
      PROVE  IInv'
  <2>1. TypeOK' /\ CallShape'
    BY <1>1, <1>8 DEF Wait, ForgetGuard, LoseGuard, Enter, TypeOK, Object, CallShape
  <2>2. WaitHolds'
    BY <1>1, <1>8
       DEF Wait, ForgetGuard, LoseGuard, Enter, TypeOK, CallShape, WaitHolds, GuardExcludes
  <2>3. WaitAtomic'
    BY <1>1, <1>8, <2>2
       DEF Wait, ForgetGuard, LoseGuard, Enter, TypeOK, CallShape, WaitHolds, WaitAtomic,
           GuardExcludes
  <2>4. GuardExcludes'
    BY <1>1, <1>8
       DEF Wait, ForgetGuard, LoseGuard, Enter, TypeOK, CallShape, WaitHolds, WaitAtomic,
           GuardExcludes
  <2>5. LockNotLeaked'
    BY <1>1, <1>8
       DEF Wait, ForgetGuard, LoseGuard, Enter, TypeOK, CallShape, WaitHolds, GuardExcludes,
           LockNotLeaked
  <2> QED
    BY <2>1, <2>2, <2>3, <2>4, <2>5 DEF IInv
<1>9. ASSUME NEW w \in Threads, NEW c \in Condvars, Notify(w, c)
      PROVE  IInv'
  <2>1. TypeOK' /\ CallShape'
    BY <1>1, <1>9 DEF Notify, NotifyOne, NotifyAll, Asleep, TypeOK, Object, CallShape
  <2>2. WaitHolds'
    BY <1>1, <1>9
       DEF Notify, NotifyOne, NotifyAll, Asleep, TypeOK, CallShape, WaitHolds, GuardExcludes
  <2>3. WaitAtomic'
    BY <1>1, <1>9, <2>2
       DEF Notify, NotifyOne, NotifyAll, Asleep, TypeOK, CallShape, WaitHolds, WaitAtomic,
           GuardExcludes
  <2>4. GuardExcludes'
    BY <1>1, <1>9
       DEF Notify, NotifyOne, NotifyAll, Asleep, TypeOK, CallShape, WaitHolds, WaitAtomic,
           GuardExcludes
  <2>5. LockNotLeaked'
    BY <1>1, <1>9
       DEF Notify, NotifyOne, NotifyAll, Asleep, TypeOK, CallShape, WaitHolds,
           GuardExcludes, LockNotLeaked
  <2> QED
    BY <2>1, <2>2, <2>3, <2>4, <2>5 DEF IInv
<1>10. ASSUME NEW w \in Threads, LockReturns(w)
      PROVE  IInv'
  <2>1. TypeOK' /\ CallShape'
    BY <1>1, <1>10 DEF LockReturns, GainGuard, Return, Enter, TypeOK, Object, CallShape
  <2>2. WaitHolds'
    BY <1>1, <1>10
       DEF LockReturns, GainGuard, Return, Enter, TypeOK, CallShape, WaitHolds,
           GuardExcludes
  <2>3. WaitAtomic'
    BY <1>1, <1>10, <2>2
       DEF LockReturns, GainGuard, Return, Enter, TypeOK, CallShape, WaitHolds, WaitAtomic,
           GuardExcludes
  <2>4. GuardExcludes'
    BY <1>1, <1>10
       DEF LockReturns, GainGuard, Return, Enter, TypeOK, CallShape, WaitHolds, WaitAtomic,
           GuardExcludes
  <2>5. LockNotLeaked'
    BY <1>1, <1>10
       DEF LockReturns, GainGuard, Return, Enter, TypeOK, CallShape, WaitHolds,
           GuardExcludes, LockNotLeaked
  <2> QED
    BY <2>1, <2>2, <2>3, <2>4, <2>5 DEF IInv
<1>11. ASSUME NEW w \in Threads, LockFails(w)
      PROVE  IInv'
  <2>1. TypeOK' /\ CallShape'
    BY <1>1, <1>11 DEF LockFails, NoGuard, Return, Enter, TypeOK, Object, CallShape
  <2>2. WaitHolds'
    BY <1>1, <1>11
       DEF LockFails, NoGuard, Return, Enter, TypeOK, CallShape, WaitHolds, GuardExcludes
  <2>3. WaitAtomic'
    BY <1>1, <1>11, <2>2
       DEF LockFails, NoGuard, Return, Enter, TypeOK, CallShape, WaitHolds, WaitAtomic,
           GuardExcludes
  <2>4. GuardExcludes'
    BY <1>1, <1>11
       DEF LockFails, NoGuard, Return, Enter, TypeOK, CallShape, WaitHolds, WaitAtomic,
           GuardExcludes
  <2>5. LockNotLeaked'
    BY <1>1, <1>11
       DEF LockFails, NoGuard, Return, Enter, TypeOK, CallShape, WaitHolds, GuardExcludes,
           LockNotLeaked
  <2> QED
    BY <2>1, <2>2, <2>3, <2>4, <2>5 DEF IInv
<1>12. ASSUME NEW w \in Threads, Sleep(w)
      PROVE  IInv'
  <2>1. TypeOK' /\ CallShape'
    BY <1>1, <1>12 DEF Sleep, Unlocked, TypeOK, Object, CallShape
  <2>2. WaitHolds'
    BY <1>1, <1>12 DEF Sleep, Unlocked, TypeOK, CallShape, WaitHolds, GuardExcludes
  <2>3. WaitAtomic'
    BY <1>1, <1>12, <2>2
       DEF Sleep, Unlocked, TypeOK, CallShape, WaitHolds, WaitAtomic, GuardExcludes
  <2>4. GuardExcludes'
    BY <1>1, <1>12
       DEF Sleep, Unlocked, TypeOK, CallShape, WaitHolds, WaitAtomic, GuardExcludes
  <2>5. LockNotLeaked'
    BY <1>1, <1>12
       DEF Sleep, Unlocked, TypeOK, CallShape, WaitHolds, GuardExcludes, LockNotLeaked
  <2> QED
    BY <2>1, <2>2, <2>3, <2>4, <2>5 DEF IInv
<1>13. ASSUME NEW w \in Threads, Relock(w)
      PROVE  IInv'
  <2>1. TypeOK' /\ CallShape'
    BY <1>1, <1>13 DEF Relock, TypeOK, Object, CallShape
  <2>2. WaitHolds'
    BY <1>1, <1>13 DEF Relock, TypeOK, CallShape, WaitHolds, GuardExcludes
  <2>3. WaitAtomic'
    BY <1>1, <1>13, <2>2 DEF Relock, TypeOK, CallShape, WaitHolds, WaitAtomic, GuardExcludes
  <2>4. GuardExcludes'
    BY <1>1, <1>13 DEF Relock, TypeOK, CallShape, WaitHolds, WaitAtomic, GuardExcludes
  <2>5. LockNotLeaked'
    BY <1>1, <1>13 DEF Relock, TypeOK, CallShape, WaitHolds, GuardExcludes, LockNotLeaked
  <2> QED
    BY <2>1, <2>2, <2>3, <2>4, <2>5 DEF IInv
<1>14. ASSUME NEW w \in Threads, WaitRefused(w)
      PROVE  IInv'
  <2>1. TypeOK' /\ CallShape'
    BY <1>1, <1>14 DEF WaitRefused, TypeOK, Object, CallShape
  <2>2. WaitHolds'
    BY <1>1, <1>14 DEF WaitRefused, TypeOK, CallShape, WaitHolds, GuardExcludes
  <2>3. WaitAtomic'
    BY <1>1, <1>14, <2>2
       DEF WaitRefused, TypeOK, CallShape, WaitHolds, WaitAtomic, GuardExcludes
  <2>4. GuardExcludes'
    BY <1>1, <1>14 DEF WaitRefused, TypeOK, CallShape, WaitHolds, WaitAtomic, GuardExcludes
  <2>5. LockNotLeaked'
    BY <1>1, <1>14
       DEF WaitRefused, TypeOK, CallShape, WaitHolds, GuardExcludes, LockNotLeaked
  <2> QED
    BY <2>1, <2>2, <2>3, <2>4, <2>5 DEF IInv
<1>15. ASSUME NEW w \in Threads, WaitReturns(w)
      PROVE  IInv'
  <2>1. TypeOK' /\ CallShape'
    BY <1>1, <1>15 DEF WaitReturns, GainGuard, Return, Enter, TypeOK, Object, CallShape
  <2>2. WaitHolds'
    BY <1>1, <1>15
       DEF WaitReturns, GainGuard, Return, Enter, TypeOK, CallShape, WaitHolds,
           GuardExcludes
  <2>3. WaitAtomic'
    BY <1>1, <1>15, <2>2
       DEF WaitReturns, GainGuard, Return, Enter, TypeOK, CallShape, WaitHolds, WaitAtomic,
           GuardExcludes
  <2>4. GuardExcludes'
    BY <1>1, <1>15
       DEF WaitReturns, GainGuard, Return, Enter, TypeOK, CallShape, WaitHolds, WaitAtomic,
           GuardExcludes
  <2>5. LockNotLeaked'
    BY <1>1, <1>15
       DEF WaitReturns, GainGuard, Return, Enter, TypeOK, CallShape, WaitHolds,
           GuardExcludes, LockNotLeaked
  <2> QED
    BY <2>1, <2>2, <2>3, <2>4, <2>5 DEF IInv
<1>16. ASSUME NEW w \in Threads, WaitFails(w)
      PROVE  IInv'
  <2>1. TypeOK' /\ CallShape'
    BY <1>1, <1>16
       DEF WaitFails, RebuildAndDrop, Unlocked, Return, Enter, TypeOK, Object, CallShape
  <2>2. WaitHolds'
    BY <1>1, <1>16
       DEF WaitFails, RebuildAndDrop, Unlocked, Return, Enter, TypeOK, CallShape, WaitHolds,
           GuardExcludes
  <2>3. WaitAtomic'
    BY <1>1, <1>16, <2>2
       DEF WaitFails, RebuildAndDrop, Unlocked, Return, Enter, TypeOK, CallShape, WaitHolds,
           WaitAtomic, GuardExcludes
  <2>4. GuardExcludes'
    BY <1>1, <1>16
       DEF WaitFails, RebuildAndDrop, Unlocked, Return, Enter, TypeOK, CallShape, WaitHolds,
           WaitAtomic, GuardExcludes
  <2>5. LockNotLeaked'
    BY <1>1, <1>16
       DEF WaitFails, RebuildAndDrop, Unlocked, Return, Enter, TypeOK, CallShape, WaitHolds,
           GuardExcludes, LockNotLeaked
  <2> QED
    BY <2>1, <2>2, <2>3, <2>4, <2>5 DEF IInv
<1>17. ASSUME NEW w \in Threads, WakeSpuriously(w)
      PROVE  IInv'
  <2>1. TypeOK' /\ CallShape'
    BY <1>1, <1>17 DEF WakeSpuriously, TypeOK, Object, CallShape
  <2>2. WaitHolds'
    BY <1>1, <1>17 DEF WakeSpuriously, TypeOK, CallShape, WaitHolds, GuardExcludes
  <2>3. WaitAtomic'
    BY <1>1, <1>17, <2>2
       DEF WakeSpuriously, TypeOK, CallShape, WaitHolds, WaitAtomic, GuardExcludes
  <2>4. GuardExcludes'
    BY <1>1, <1>17
       DEF WakeSpuriously, TypeOK, CallShape, WaitHolds, WaitAtomic, GuardExcludes
  <2>5. LockNotLeaked'
    BY <1>1, <1>17
       DEF WakeSpuriously, TypeOK, CallShape, WaitHolds, GuardExcludes, LockNotLeaked
  <2> QED
    BY <2>1, <2>2, <2>3, <2>4, <2>5 DEF IInv
<1>18. CASE UNCHANGED vars
  BY <1>1, <1>18
     DEF vars, IInv, TypeOK, CallShape, WaitHolds, WaitAtomic, GuardExcludes, LockNotLeaked
<1> QED
  BY <1>2, <1>3, <1>4, <1>5, <1>6, <1>7, <1>8, <1>9, <1>10, <1>11, <1>12, <1>13, <1>14,
     <1>15, <1>16, <1>17, <1>18
     DEF Next, Lifecycle, UserStep, CallStep

\* The invariant holds throughout.
THEOREM Invariant == Spec => []IInv
BY InitInvariant, NextInvariant, PTL DEF Spec

\* Every variable keeps its type: no guard is given up twice.
THEOREM TypeCorrect == Spec => []TypeOK
<1>1. IInv => TypeOK
  BY DEF IInv
<1> QED
  BY <1>1, Invariant, PTL

\* Guards of a mutex exclude each other (thread.rs:403-418).
THEOREM GuardExcludesHolds == Spec => []GuardExcludes
<1>1. IInv => GuardExcludes
  BY DEF IInv
<1> QED
  BY <1>1, Invariant, PTL

\* No path through lock and wait leaves a mutex locked for good (thread.rs:474-504).
THEOREM LockNotLeakedHolds == Spec => []LockNotLeaked
<1>1. IInv => LockNotLeaked
  BY DEF IInv
<1> QED
  BY <1>1, Invariant, PTL

\* Unlocking and falling asleep is one step (thread.rs:470-485).
THEOREM WaitAtomicHolds == Spec => []WaitAtomic
<1>1. IInv => WaitAtomic
  BY DEF IInv
<1> QED
  BY <1>1, Invariant, PTL
===============================================================================
