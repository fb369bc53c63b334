------------------------------ MODULE RestSync ------------------------------
(***************************************************************************)
(* The REST thread (REST_Sync.hpp): it takes order messages off the two    *)
(* queues, one of each per pass, and sends them over one connection, under *)
(* a limit of messages per second and per minute.  It holds the semaphore  *)
(* for a whole pass, the waits for the replies included.                   *)
(*                                                                         *)
(* What the exchange makes of a message is said by the modules that        *)
(* compose this one: a reply changes nothing here, whatever it is, as      *)
(* read() only prints it.                                                  *)
(***************************************************************************)
EXTENDS TradeVariables

CONSTANTS SecondLimit,  \* second_msg_limit
          MinuteLimit   \* minute_msg_limit

ASSUME LimitAssumption == SecondLimit \in Nat \ {0} /\ MinuteLimit \in Nat \ {0}

VARIABLES
  rest_pc,           \* where the thread is
  second_msgs_sent,
  minute_msgs_sent,
  second_passed,     \* a second has passed since second_start
  minute_passed      \* a minute has passed since minute_start

countVars == <<second_msgs_sent, minute_msgs_sent>>
clockVars == <<second_passed, minute_passed>>
restVars == <<rest_pc, countVars, clockVars>>

RestInit ==
  /\ rest_pc = "connect"
  /\ second_msgs_sent = 0
  /\ minute_msgs_sent = 0
  /\ second_passed = FALSE
  /\ minute_passed = FALSE

\* The streams' state and the order fields are none of this thread's business.
restUnused == <<priceVars, orderVars>>
-----------------------------------------------------------------------------
\* The ping is the first message of both windows, whose starts it does not move.
refresh_keepalive ==
  /\ second_msgs_sent' = 1
  /\ minute_msgs_sent' = 1

\* connect(): the handshake, refresh_keepalive, and the start of both windows.
Connect ==
  /\ rest_pc = "connect"
  /\ rest_pc' = "loop"
  /\ refresh_keepalive
  /\ second_passed' = FALSE
  /\ minute_passed' = FALSE
  /\ UNCHANGED <<restUnused, queueVars, holder>>

\* Mutated CheckLimits: update_minute_window is not called.
CheckLimitsNoMinute ==
  /\ rest_pc = "loop"
  /\ second_msgs_sent' = IF second_passed THEN 0 ELSE second_msgs_sent
  /\ second_passed' = FALSE
  /\ rest_pc' = IF second_msgs_sent' = SecondLimit \/ minute_msgs_sent = MinuteLimit
                THEN "loop" ELSE "lock"
  /\ UNCHANGED <<minute_msgs_sent, minute_passed, restUnused, queueVars, holder>>

\* The head of the loop: update_second_window, update_minute_window, and the
\* comparison with the limits, before the semaphore is asked for.
CheckLimits ==
  /\ rest_pc = "loop"
  /\ second_msgs_sent' = IF second_passed THEN 0 ELSE second_msgs_sent
  /\ minute_msgs_sent' = IF minute_passed THEN 0 ELSE minute_msgs_sent
  /\ second_passed' = FALSE
  /\ minute_passed' = FALSE
  /\ rest_pc' = IF second_msgs_sent' = SecondLimit \/ minute_msgs_sent' = MinuteLimit
                THEN "loop" ELSE "lock"
  /\ UNCHANGED <<restUnused, queueVars, holder>>

GetLock ==
  /\ rest_pc = "lock"
  /\ Lock!Acquire("rest")
  /\ rest_pc' = "new"
  /\ UNCHANGED <<countVars, clockVars, restUnused, queueVars>>

\* Mutated CountSent: a budget that is counted down.
CountSentDown ==
  /\ second_msgs_sent' = second_msgs_sent - 1
  /\ minute_msgs_sent' = minute_msgs_sent - 1

CountSent ==
  /\ second_msgs_sent' = second_msgs_sent + 1
  /\ minute_msgs_sent' = minute_msgs_sent + 1

\* Mutated SendNew: the newest message is sent first.
SendNewest ==
  /\ rest_pc = "new"
  /\ new_order_q # <<>>
  /\ new_order_q' = SubSeq(new_order_q, 1, Len(new_order_q) - 1)
  /\ CountSent
  /\ rest_pc' = "upd"
  /\ UNCHANGED <<clockVars, restUnused, upd_order_q, holder>>

SendNew ==
  /\ rest_pc = "new"
  /\ new_order_q # <<>>
  /\ new_order_q' = Tail(new_order_q)
  /\ CountSent
  /\ rest_pc' = "upd"
  /\ UNCHANGED <<clockVars, restUnused, upd_order_q, holder>>

NoNew ==
  /\ rest_pc = "new"
  /\ new_order_q = <<>>
  /\ rest_pc' = "upd"
  /\ UNCHANGED <<countVars, clockVars, restUnused, queueVars, holder>>

SendUpd ==
  /\ rest_pc = "upd"
  /\ upd_order_q # <<>>
  /\ upd_order_q' = Tail(upd_order_q)
  /\ CountSent
  /\ rest_pc' = "unlock"
  /\ UNCHANGED <<clockVars, restUnused, new_order_q, holder>>

NoUpd ==
  /\ rest_pc = "upd"
  /\ upd_order_q = <<>>
  /\ rest_pc' = "unlock"
  /\ UNCHANGED <<countVars, clockVars, restUnused, queueVars, holder>>

\* Mutated Unlock: the semaphore is not given back.
UnlockForgotten ==
  /\ rest_pc = "unlock"
  /\ rest_pc' = "loop"
  /\ UNCHANGED <<countVars, clockVars, restUnused, queueVars, holder>>

Unlock ==
  /\ rest_pc = "unlock"
  /\ Lock!Release("rest")
  /\ rest_pc' = "loop"
  /\ UNCHANGED <<countVars, clockVars, restUnused, queueVars>>

\* Steps that wait for nobody but the network.
RestWork == Connect \/ CheckLimits \/ NoNew \/ NoUpd \/ Unlock

\* The clock, which this thread reads at the head of its loop only.
SecondPasses == /\ ~second_passed
                /\ second_passed' = TRUE
                /\ UNCHANGED minute_passed

MinutePasses == /\ ~minute_passed
                /\ minute_passed' = TRUE
                /\ second_passed' = TRUE

RestTypeOK ==
  /\ rest_pc \in {"connect", "loop", "lock", "new", "upd", "unlock"}
  /\ second_msgs_sent \in Nat
  /\ minute_msgs_sent \in Nat
  /\ second_passed \in BOOLEAN
  /\ minute_passed \in BOOLEAN
=============================================================================
