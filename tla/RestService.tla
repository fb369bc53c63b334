---------------------------- MODULE RestService ----------------------------
(***************************************************************************)
(* The REST thread on its own, fed by stream threads that queue messages   *)
(* of either kind, with a clock.  What this module asks is whether every   *)
(* message is sent, in the order of its queue, within the two limits.      *)
(***************************************************************************)
EXTENDS RestSync

CONSTANTS NewMsgs,  \* bound: messages queued for POST
          UpdMsgs   \* bound: messages queued for PUT

ASSUME LoadAssumption == NewMsgs \in Nat /\ UpdMsgs \in Nat

VARIABLES made_new, made_upd,  \* how many messages were queued
          sent_new, sent_upd   \* the messages sent, oldest first

serviceVars == <<made_new, made_upd, sent_new, sent_upd>>
vars == <<tradeVars, restVars, serviceVars>>

Init ==
  /\ TradeInit /\ RestInit
  /\ made_new = 0 /\ made_upd = 0
  /\ sent_new = <<>> /\ sent_upd = <<>>

\* A stream thread's section: the messages are numbered as they are queued.
QueueNew ==
  /\ made_new < NewMsgs
  /\ WithLock
  /\ made_new' = made_new + 1
  /\ new_order_q' = Append(new_order_q, [id |-> made_new', slot |-> "bid",
                                         price |-> 0, vol |-> 0])
  /\ UNCHANGED <<restUnused, restVars, upd_order_q, made_upd, sent_new, sent_upd>>

QueueUpd ==
  /\ made_upd < UpdMsgs
  /\ WithLock
  /\ made_upd' = made_upd + 1
  /\ upd_order_q' = Append(upd_order_q, [kind |-> "price", id |-> made_upd', price |-> 0])
  /\ UNCHANGED <<restUnused, restVars, new_order_q, made_new, sent_new, sent_upd>>

\* The request that left the queue is the one that was at its front.
Took(q, q2, sent, sent2) ==
  sent2 = Append(sent, CHOOSE id \in {q[i].id : i \in DOMAIN q} :
                          id \notin {q2[i].id : i \in DOMAIN q2})

Send ==
  \/ /\ SendNew
     /\ Took(new_order_q, new_order_q', sent_new, sent_new')
     /\ UNCHANGED <<made_new, made_upd, sent_upd>>
  \/ /\ SendUpd
     /\ Took(upd_order_q, upd_order_q', sent_upd, sent_upd')
     /\ UNCHANGED <<made_new, made_upd, sent_new>>

Tick(A) == A /\ UNCHANGED <<rest_pc, countVars, tradeVars, serviceVars>>

Clock == Tick(SecondPasses) \/ Tick(MinutePasses)

RestStep(A) == A /\ UNCHANGED serviceVars

Next == QueueNew \/ QueueUpd \/ Send \/ Clock \/ RestStep(RestWork \/ GetLock)

Spec == Init /\ [][Next]_vars

\* The thread runs on, is let in if the semaphore stays free, the requests are
\* answered, and time passes.
FairSpec ==
  /\ Spec
  /\ WF_vars(RestStep(RestWork)) /\ WF_vars(RestStep(GetLock)) /\ WF_vars(Send)
  /\ WF_vars(Tick(SecondPasses)) /\ WF_vars(Tick(MinutePasses))
-----------------------------------------------------------------------------
\* The type of every variable.
TypeOK ==
  /\ TradeTypeOK /\ RestTypeOK
  /\ made_new \in Nat /\ made_upd \in Nat
  /\ sent_new \in Seq(Nat) /\ sent_upd \in Seq(Nat)

\* Between two resets of a window the thread sends no more messages than the
\* window's limit: second_msg_limit, minute_msg_limit (REST_Sync.hpp:52-53).
WithinLimits ==
  second_msgs_sent <= SecondLimit /\ minute_msgs_sent <= MinuteLimit

Ids(q) == [i \in DOMAIN q |-> q[i].id]

\* Each queue is sent in the order it was filled, and no message is dropped or
\* sent twice, however the limits, the windows and the sections fall
\* (REST_Sync.hpp:258-273).
SentInOrder ==
  /\ sent_new \o Ids(new_order_q) = [i \in 1..made_new |-> i]
  /\ sent_upd \o Ids(upd_order_q) = [i \in 1..made_upd |-> i]

\* Every message queued is sent some day: the windows that stop the thread
\* open again (REST_Sync.hpp:253-256).
Drained ==
  /\ \A k \in 1..NewMsgs : made_new >= k ~> Len(sent_new) >= k
  /\ \A k \in 1..UpdMsgs : made_upd >= k ~> Len(sent_upd) >= k
=============================================================================
