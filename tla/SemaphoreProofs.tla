-------------------------- MODULE SemaphoreProofs --------------------------
(***************************************************************************)
(* Proofs about Semaphore, for any set of threads.  The inductive          *)
(* invariant relates the three variables: whoever owns the mutex is at one *)
(* of the locations that own it, and the flag is down exactly while one    *)
(* thread is let in.                                                       *)
(***************************************************************************)
EXTENDS Semaphore, TLAPS

Owns(t) == pc[t] \in {"test", "try", "set"}

MutexInv == \A t \in Threads : Owns(t) <=> mutex = t

FlagInv == /\ can_mod => \A t \in Threads : ~Holds(t)
           /\ ~can_mod => \E t \in Threads : Holds(t)

Inv == TypeOK /\ MutexInv /\ FlagInv /\ MutualExclusion

\* Every variable keeps its type, for any number of threads.
LEMMA TypeCorrect == Spec => []TypeOK
<1>1. Init => TypeOK
  BY DEF Init, TypeOK, Locations
<1>2. TypeOK /\ [Next]_vars => TypeOK'
  <2> SUFFICES ASSUME TypeOK, [Next]_vars PROVE TypeOK'
    OBVIOUS
  <2>1. CASE UNCHANGED vars
    BY <2>1 DEF TypeOK, vars
  <2>2. ASSUME NEW t \in Threads,
               CallGetLock(t) \/ CallTryLock(t) \/ CallUnlock(t)
        PROVE  TypeOK'
    BY <2>2 DEF TypeOK, Locations, Goto, CallGetLock, CallTryLock, CallUnlock
  <2>3. ASSUME NEW t \in Threads,
               AcquireMutex(t) \/ TakeFlag(t) \/ WaitOnCv(t)
        PROVE  TypeOK'
    BY <2>3 DEF TypeOK, Locations, Goto, AcquireMutex, TakeFlag, WaitOnCv
  <2>4. ASSUME NEW t \in Threads,
               TryTake(t) \/ TryFail(t) \/ SetFlag(t) \/ SpuriousWakeup(t)
        PROVE  TypeOK'
    BY <2>4 DEF TypeOK, Locations, Goto, TryTake, TryFail, SetFlag, SpuriousWakeup
  <2>5. ASSUME NEW t \in Threads, NotifyOne(t) PROVE TypeOK'
    BY <2>5 DEF TypeOK, Locations, NotifyOne, Sleepers
  <2> QED
    BY <2>1, <2>2, <2>3, <2>4, <2>5 DEF Next
<1> QED
  BY <1>1, <1>2, PTL DEF Spec
-----------------------------------------------------------------------------
\* The semaphore starts free, with nobody in it.
LEMMA InvInit == Init => Inv
  BY ThreadsAssumption
  DEF Init, Inv, TypeOK, Locations, MutexInv, FlagInv, MutualExclusion, Holds, Owns

\* Each step keeps the mutex with its owner, and the flag down exactly while one
\* thread is let in.
LEMMA InvStep == Inv /\ [Next]_vars => Inv'
<1> SUFFICES ASSUME Inv, [Next]_vars PROVE Inv'
  OBVIOUS
<1> USE ThreadsAssumption
    DEF Inv, TypeOK, Locations, MutexInv, FlagInv, MutualExclusion, Holds, Owns
<1>1. CASE UNCHANGED vars
  BY <1>1 DEF vars
<1>2. ASSUME NEW t \in Threads, CallGetLock(t) PROVE Inv'
  BY <1>2 DEF CallGetLock, Goto
<1>3. ASSUME NEW t \in Threads, CallTryLock(t) PROVE Inv'
  BY <1>3 DEF CallTryLock, Goto
<1>4. ASSUME NEW t \in Threads, CallUnlock(t) PROVE Inv'
  BY <1>4 DEF CallUnlock, Goto
<1>5. ASSUME NEW t \in Threads, AcquireMutex(t) PROVE Inv'
  BY <1>5 DEF AcquireMutex, Goto
<1>6. ASSUME NEW t \in Threads, TakeFlag(t) PROVE Inv'
  BY <1>6 DEF TakeFlag, Goto
<1>7. ASSUME NEW t \in Threads, WaitOnCv(t) PROVE Inv'
  BY <1>7 DEF WaitOnCv, Goto
<1>8. ASSUME NEW t \in Threads, TryTake(t) PROVE Inv'
  BY <1>8 DEF TryTake, Goto
<1>9. ASSUME NEW t \in Threads, TryFail(t) PROVE Inv'
  BY <1>9 DEF TryFail, Goto
<1>10. ASSUME NEW t \in Threads, SetFlag(t) PROVE Inv'
  BY <1>10 DEF SetFlag, Goto
<1>11. ASSUME NEW t \in Threads, NotifyOne(t) PROVE Inv'
  BY <1>11 DEF NotifyOne, Sleepers
<1>12. ASSUME NEW t \in Threads, SpuriousWakeup(t) PROVE Inv'
  BY <1>12 DEF SpuriousWakeup, Goto
<1> QED
  BY <1>1, <1>2, <1>3, <1>4, <1>5, <1>6, <1>7, <1>8, <1>9, <1>10, <1>11, <1>12
  DEF Next

\* So the invariant holds always.
LEMMA InvAlways == Spec => []Inv
  BY InvInit, InvStep, PTL DEF Spec

\* No two threads are let in together (Semaphore.hpp:9-14, 32-39), for any
\* number of threads.
THEOREM MutualExclusionHolds == Spec => []MutualExclusion
<1>1. Inv => MutualExclusion
  BY DEF Inv
<1> QED
  BY <1>1, InvAlways, PTL
-----------------------------------------------------------------------------
\* Only three kinds of steps matter: a thread leaves the awake locations only
\* by taking the flag down, or by finding it down; the flag goes up only when
\* its thread is about to notify.
LEMMA NoLostWakeupStep == Inv /\ NoLostWakeup /\ [Next]_vars => NoLostWakeup'
<1> SUFFICES ASSUME Inv, NoLostWakeup, [Next]_vars PROVE NoLostWakeup'
  OBVIOUS
<1> USE ThreadsAssumption
    DEF Inv, TypeOK, Locations, NoLostWakeup, Sleepers, MutexInv, FlagInv, Holds, Owns
<1>1. CASE UNCHANGED vars
  BY <1>1 DEF vars
<1>2. ASSUME NEW t \in Threads, CallGetLock(t) PROVE NoLostWakeup'
  BY <1>2 DEF CallGetLock, Goto
<1>3. ASSUME NEW t \in Threads, CallTryLock(t) PROVE NoLostWakeup'
  BY <1>3 DEF CallTryLock, Goto
<1>4. ASSUME NEW t \in Threads, CallUnlock(t) PROVE NoLostWakeup'
  BY <1>4 DEF CallUnlock, Goto
<1>5. ASSUME NEW t \in Threads, AcquireMutex(t) PROVE NoLostWakeup'
  BY <1>5 DEF AcquireMutex, Goto
<1>6. ASSUME NEW t \in Threads, TakeFlag(t) PROVE NoLostWakeup'
  BY <1>6 DEF TakeFlag, Goto
<1>7. ASSUME NEW t \in Threads, WaitOnCv(t) PROVE NoLostWakeup'
  BY <1>7 DEF WaitOnCv, Goto
<1>8. ASSUME NEW t \in Threads, TryTake(t) PROVE NoLostWakeup'
  BY <1>8 DEF TryTake, Goto
<1>9. ASSUME NEW t \in Threads, TryFail(t) PROVE NoLostWakeup'
  BY <1>9 DEF TryFail, Goto
<1>10. ASSUME NEW t \in Threads, SetFlag(t) PROVE NoLostWakeup'
  BY <1>10 DEF SetFlag, Goto
<1>11. ASSUME NEW t \in Threads, NotifyOne(t) PROVE NoLostWakeup'
  BY <1>11 DEF NotifyOne
<1>12. ASSUME NEW t \in Threads, SpuriousWakeup(t) PROVE NoLostWakeup'
  BY <1>12 DEF SpuriousWakeup, Goto
<1> QED
  BY <1>1, <1>2, <1>3, <1>4, <1>5, <1>6, <1>7, <1>8, <1>9, <1>10, <1>11, <1>12
  DEF Next

\* A raised flag with sleepers always has a thread about to act on it
\* (Semaphore.hpp:34-38), for any number of threads.
THEOREM NoLostWakeupHolds == Spec => []NoLostWakeup
<1>1. Init => NoLostWakeup
  BY DEF Init, NoLostWakeup, Sleepers
<1> QED
  BY <1>1, InvAlways, NoLostWakeupStep, PTL DEF Spec
-----------------------------------------------------------------------------
\* The thread that is let in is the holder of the refinement mapping.
LEMMA HolderIs ==
  ASSUME Inv, NEW t \in Threads, Holds(t)
  PROVE  holder = t
  BY DEF Inv, MutualExclusion, holder

\* When nobody is let in, the lock of the refinement mapping is free.
LEMMA HolderFree ==
  ASSUME \A t \in Threads : ~Holds(t)
  PROVE  holder = NoThread
  BY DEF holder

\* A step that changes nobody's being let in is a stuttering step of the lock.
LEMMA SameHolder ==
  ASSUME \A t \in Threads : Holds(t) <=> Holds(t)'
  PROVE  holder' = holder
<1>1. (\E t \in Threads : Holds(t)) <=> (\E t \in Threads : Holds(t))'
  OBVIOUS
<1>2. (CHOOSE t \in Threads : Holds(t)) = (CHOOSE t \in Threads : Holds(t)')
  OBVIOUS
<1> QED
  BY <1>1, <1>2 DEF holder

\* The threads let in are the same after a step of a thread that neither
\* enters nor leaves.
LEMMA QuietStep ==
  ASSUME Inv, NEW t \in Threads,
         \/ CallGetLock(t) \/ CallTryLock(t) \/ CallUnlock(t)
         \/ AcquireMutex(t) \/ WaitOnCv(t) \/ TryFail(t)
         \/ NotifyOne(t) \/ SpuriousWakeup(t)
  PROVE  holder' = holder
<1>1. \A u \in Threads : Holds(u) <=> Holds(u)'
  <2>1. CASE CallGetLock(t) \/ CallTryLock(t) \/ CallUnlock(t)
    BY <2>1 DEF Inv, TypeOK, Holds, Goto, CallGetLock, CallTryLock, CallUnlock
  <2>2. CASE AcquireMutex(t) \/ WaitOnCv(t) \/ TryFail(t) \/ SpuriousWakeup(t)
    BY <2>2 DEF Inv, TypeOK, Holds, Goto, AcquireMutex, WaitOnCv, TryFail, SpuriousWakeup
  <2>3. CASE NotifyOne(t)
    BY <2>3 DEF Inv, TypeOK, Holds, NotifyOne, Sleepers
  <2> QED
    BY <2>1, <2>2, <2>3
<1> QED
  BY <1>1, SameHolder

\* Taking the flag down is the lock's Acquire.
LEMMA EnterStep ==
  ASSUME Inv, NEW t \in Threads, TakeFlag(t) \/ TryTake(t)
  PROVE  Lock!Acquire(t)
<1>1. holder = NoThread
  BY HolderFree DEF Inv, FlagInv, TakeFlag, TryTake
<1>2. Inv'
  BY InvStep DEF Next
<1>3. Holds(t)'
  BY DEF Inv, TypeOK, Holds, TakeFlag, TryTake, Goto
<1>4. holder' = t
  BY <1>2, <1>3 DEF Inv, MutualExclusion, holder
<1> QED
  BY <1>1, <1>4 DEF Lock!Acquire

\* Raising it is the lock's Release.
LEMMA LeaveStep ==
  ASSUME Inv, NEW t \in Threads, SetFlag(t)
  PROVE  Lock!Release(t)
<1>1. Holds(t)
  BY DEF Holds, SetFlag, Goto
<1>2. holder = t
  BY <1>1, HolderIs
<1>3. \A u \in Threads : ~Holds(u)'
  BY <1>1 DEF Inv, TypeOK, MutualExclusion, Holds, SetFlag, Goto
<1>4. holder' = NoThread
  BY <1>3 DEF holder
<1> QED
  BY <1>2, <1>4 DEF Lock!Release

\* The mutex, the condition variable and the flag together implement the
\* exclusive lock: every step is an Acquire, a Release, or invisible.
THEOREM SemaphoreImplementsLock == Spec => ImplementsLock
<1>1. Init => Lock!Init
  BY HolderFree DEF Init, Holds, Lock!Init
<1>2. Inv /\ [Next]_vars => [Lock!Next]_holder
  <2> SUFFICES ASSUME Inv, [Next]_vars PROVE [Lock!Next]_holder
    OBVIOUS
  <2>1. CASE UNCHANGED vars
    <3>1. \A t \in Threads : Holds(t) <=> Holds(t)'
      BY <2>1 DEF vars, Holds
    <3> QED
      BY <3>1, SameHolder
  <2>2. ASSUME NEW t \in Threads, TakeFlag(t) \/ TryTake(t)
        PROVE  [Lock!Next]_holder
    BY <2>2, EnterStep DEF Lock!Next
  <2>3. ASSUME NEW t \in Threads, SetFlag(t)
        PROVE  [Lock!Next]_holder
    BY <2>3, LeaveStep DEF Lock!Next
  <2>4. ASSUME NEW t \in Threads,
               \/ CallGetLock(t) \/ CallTryLock(t) \/ CallUnlock(t)
               \/ AcquireMutex(t) \/ WaitOnCv(t) \/ TryFail(t)
               \/ NotifyOne(t) \/ SpuriousWakeup(t)
        PROVE  [Lock!Next]_holder
    BY <2>4, QuietStep
  <2> QED
    BY <2>1, <2>2, <2>3, <2>4 DEF Next
<1> QED
  BY <1>1, <1>2, InvAlways, PTL DEF Spec, ImplementsLock, Lock!Spec
=============================================================================
