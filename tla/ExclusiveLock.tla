--------------------------- MODULE ExclusiveLock ---------------------------
(***************************************************************************)
(* What the users of Semaphore.hpp rely on: between a return of _get_lock  *)
(* (or a _try_lock that returned true) and the matching _unlock, a thread  *)
(* is alone.  The lock has a holder or none, and only the holder gives it  *)
(* back.  Semaphore implements this module; the modules of the trading     *)
(* threads use it in place of the mutex and the condition variable.        *)
(***************************************************************************)
CONSTANTS Threads,   \* the threads that share the lock
          NoThread   \* the holder of a free lock

VARIABLE holder

Init == holder = NoThread

Acquire(t) == holder = NoThread /\ holder' = t

Release(t) == holder = t /\ holder' = NoThread

Next == \E t \in Threads : Acquire(t) \/ Release(t)

Spec == Init /\ [][Next]_holder
=============================================================================
