----------------------------- MODULE Semaphore -----------------------------
(***************************************************************************)
(* Semaphore.hpp: a binary semaphore made of a std::mutex, a               *)
(* std::condition_variable and a bool.  The three threads of the program   *)
(* share one of each (BitMEXMarketMaker.hpp: q_mutex, q_cv, can_mod).      *)
(*                                                                         *)
(* An action is what a thread does between two points at which another     *)
(* thread can run: taking the mutex, the work done while owning it, and    *)
(* the notification, which comes after the mutex is given back.            *)
(***************************************************************************)
CONSTANTS Threads,   \* the threads that share the semaphore
          NoThread   \* the owner of a free mutex

ASSUME ThreadsAssumption == NoThread \notin Threads

VARIABLES mutex,     \* the owner of async_write_mutex, or NoThread
          can_mod,   \* the bool the callers pass as got_lock
          pc         \* where each thread is in the code below

vars == <<mutex, can_mod, pc>>

(***************************************************************************)
(* idle    outside of the semaphore                                        *)
(* lock    in _get_lock, blocked on the mutex: on entry or after a wake-up *)
(* test    in _get_lock, owns the mutex, evaluates the wait predicate      *)
(* wait    in _get_lock, asleep on the condition variable                  *)
(* try     in _try_lock, owns the mutex                                    *)
(* held    after _get_lock, or after a _try_lock that returned true        *)
(* unlock  in _unlock, blocked on the mutex                                *)
(* set     in _unlock, owns the mutex                                      *)
(* notify  in _unlock, mutex given back, notify_one not yet called         *)
(***************************************************************************)
Locations == {"idle", "lock", "test", "wait", "try",
              "held", "unlock", "set", "notify"}

Init == /\ mutex = NoThread
        /\ can_mod = TRUE
        /\ pc = [t \in Threads |-> "idle"]

Goto(t, from, to) == pc[t] = from /\ pc' = [pc EXCEPT ![t] = to]
-----------------------------------------------------------------------------
(* Mutated forms of actions: no behaviour uses them.  Each is a mistake that *)
(* a property below must catch.                                            *)

\* _get_lock forgets got_lock = false.
TakeFlagNoReset(t) == /\ Goto(t, "test", "held")
                      /\ can_mod
                      /\ mutex' = NoThread
                      /\ UNCHANGED can_mod

\* _get_lock waits without a predicate: a woken thread does not look again.
WaitNoPredicate(t) == /\ Goto(t, "test", "held")
                      /\ ~can_mod
                      /\ mutex' = NoThread
                      /\ UNCHANGED can_mod

\* _unlock forgets notify_one.
SetFlagNoNotify(t) == /\ Goto(t, "set", "idle")
                      /\ can_mod' = TRUE
                      /\ mutex' = NoThread

\* _unlock calls notify_one, but on a condition variable nobody waits on.
NotifyNobody(t) == Goto(t, "notify", "idle") /\ UNCHANGED <<mutex, can_mod>>
-----------------------------------------------------------------------------
CallGetLock(t) == Goto(t, "idle", "lock") /\ UNCHANGED <<mutex, can_mod>>

CallUnlock(t) == Goto(t, "held", "unlock") /\ UNCHANGED <<mutex, can_mod>>

\* std::try_to_lock: on a busy mutex the call returns false, a stuttering step.
CallTryLock(t) == /\ Goto(t, "idle", "try")
                  /\ mutex = NoThread
                  /\ mutex' = t
                  /\ UNCHANGED can_mod

\* std::unique_lock in _get_lock (and in the wake-up of wait) and in _unlock.
AcquireMutex(t) == /\ mutex = NoThread
                   /\ mutex' = t
                   /\ Goto(t, "lock", "test") \/ Goto(t, "unlock", "set")
                   /\ UNCHANGED can_mod

\* The wait predicate holds: got_lock = false, and the mutex is given back.
TakeFlag(t) == /\ Goto(t, "test", "held")
               /\ can_mod
               /\ can_mod' = FALSE
               /\ mutex' = NoThread

\* The wait predicate does not hold: sleep and give the mutex back, atomically.
WaitOnCv(t) == /\ Goto(t, "test", "wait")
               /\ ~can_mod
               /\ mutex' = NoThread
               /\ UNCHANGED can_mod

TryTake(t) == /\ Goto(t, "try", "held")
              /\ can_mod
              /\ can_mod' = FALSE
              /\ mutex' = NoThread

TryFail(t) == /\ Goto(t, "try", "idle")
              /\ ~can_mod
              /\ mutex' = NoThread
              /\ UNCHANGED can_mod

SetFlag(t) == /\ Goto(t, "set", "notify")
              /\ can_mod' = TRUE
              /\ mutex' = NoThread

Sleepers == {w \in Threads : pc[w] = "wait"}

NotifyOne(t) == /\ pc[t] = "notify"
                /\ \/ \E w \in Sleepers :
                         pc' = [pc EXCEPT ![t] = "idle", ![w] = "lock"]
                   \/ /\ Sleepers = {}
                      /\ pc' = [pc EXCEPT ![t] = "idle"]
                /\ UNCHANGED <<mutex, can_mod>>

\* A condition variable may wake a thread that nobody notified.
SpuriousWakeup(t) == Goto(t, "wait", "lock") /\ UNCHANGED <<mutex, can_mod>>
-----------------------------------------------------------------------------
Next == \E t \in Threads :
           \/ CallGetLock(t) \/ CallTryLock(t) \/ CallUnlock(t)
           \/ AcquireMutex(t) \/ TakeFlag(t) \/ WaitOnCv(t)
           \/ TryTake(t) \/ TryFail(t)
           \/ SetFlag(t) \/ NotifyOne(t) \/ SpuriousWakeup(t)

(***************************************************************************)
(* A thread that runs inside the semaphore, or holds it, keeps running.    *)
(* Nothing makes an idle thread call, and nothing makes a spurious wake-up *)
(* happen.  A thread blocked on the mutex gets it if it is free again and  *)
(* again.                                                                  *)
(***************************************************************************)
Fairness ==
   \A t \in Threads :
      /\ WF_vars(CallUnlock(t))
      /\ WF_vars(TakeFlag(t) \/ WaitOnCv(t) \/ TryTake(t) \/ TryFail(t))
      /\ WF_vars(SetFlag(t) \/ NotifyOne(t))
      /\ SF_vars(AcquireMutex(t))

Spec == Init /\ [][Next]_vars

FairSpec == Spec /\ Fairness
-----------------------------------------------------------------------------
\* The type of every variable.
TypeOK == /\ mutex \in Threads \cup {NoThread}
          /\ can_mod \in BOOLEAN
          /\ pc \in [Threads -> Locations]

\* A thread that may touch the queues: it was let in and has not reopened.
Holds(t) == pc[t] \in {"held", "unlock", "set"}

\* Two threads are never both let in, whatever wake-ups and barging happen
\* between _get_lock's predicate and _unlock (Semaphore.hpp:9-14, 32-39).
MutualExclusion == \A t, u \in Threads : Holds(t) /\ Holds(u) => t = u

\* A free semaphore with sleepers is always about to be looked at: some thread
\* will notify, or will itself test the flag.  Otherwise every sleeper would
\* wait for a notification that never comes (Semaphore.hpp:34-38).
NoLostWakeup == can_mod /\ Sleepers # {}
                => \E t \in Threads : pc[t] \in {"notify", "lock", "test", "try"}

\* Whoever wants the semaphore, somebody gets it: callers blocked in _get_lock
\* never all sleep for good.
Progress == (\E t \in Threads : pc[t] \in {"lock", "test", "wait"})
               ~> (\E t \in Threads : pc[t] = "held")

\* The refinement mapping: the holder is the thread that was let in.
holder == IF \E t \in Threads : Holds(t)
          THEN CHOOSE t \in Threads : Holds(t)
          ELSE NoThread

Lock == INSTANCE ExclusiveLock

\* The semaphore implements the exclusive lock its users rely on.
ImplementsLock == Lock!Spec
=============================================================================
