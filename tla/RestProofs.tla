----------------------------- MODULE RestProofs -----------------------------
(***************************************************************************)
(* Proofs about the REST thread, for any number of messages and any        *)
(* limits: what was sent and what still waits are, put end to end, the     *)
(* messages that were queued.  The numbers make that inductive: whatever   *)
(* was sent, the message at place i of a queue is the one i places after   *)
(* the last one sent.                                                      *)
(***************************************************************************)
EXTENDS RestService, SequenceTheorems, TLAPS

\* The first n messages: those sent, then those of the queue.
Numbered(q, sent, n) ==
  /\ Len(sent) + Len(q) = n
  /\ \A i \in 1..Len(sent) : sent[i] = i
  /\ \A i \in 1..Len(q) : q[i].id = Len(sent) + i

RestInv ==
  /\ TypeOK
  /\ Numbered(new_order_q, sent_new, made_new)
  /\ Numbered(upd_order_q, sent_upd, made_upd)

-----------------------------------------------------------------------------
LEMMA NumberedInOrder ==
  ASSUME NEW S, \A m \in S : m.id \in Nat, NEW q \in Seq(S), NEW sent \in Seq(Nat), NEW n \in Nat,
         Numbered(q, sent, n)
  PROVE  sent \o Ids(q) = [i \in 1..n |-> i]
<1> DEFINE all == sent \o Ids(q)
<1>1. /\ Len(q) \in Nat /\ DOMAIN q = 1..Len(q) /\ Len(sent) \in Nat
      /\ \A i \in 1..Len(q) : q[i].id \in Nat
  BY LenProperties, ElementOfSeq
<1>2. /\ Ids(q) \in Seq(Nat) /\ Len(Ids(q)) = Len(q)
      /\ \A i \in 1..Len(q) : Ids(q)[i] = q[i].id
  BY <1>1 DEF Ids
<1>3. /\ all \in Seq(Nat) /\ Len(all) = n
      /\ \A i \in 1..n : all[i] = IF i <= Len(sent) THEN sent[i] ELSE Ids(q)[i - Len(sent)]
  <2> HIDE DEF Ids
  <2>1. PICK ids \in Seq(Nat) : ids = Ids(q)
    BY <1>2
  <2>2. Len(ids) = Len(q) /\ Len(sent) + Len(q) = n
    BY <1>1, <1>2, <2>1 DEF Numbered
  <2>3. /\ sent \o ids \in Seq(Nat) /\ Len(sent \o ids) = Len(sent) + Len(ids)
        /\ \A i \in 1..Len(sent) + Len(ids) :
             (sent \o ids)[i] = IF i <= Len(sent) THEN sent[i] ELSE ids[i - Len(sent)]
    BY ConcatProperties
  <2> QED
    BY <2>1, <2>2, <2>3
<1>4. all = [i \in 1..n |-> all[i]]
  <2> HIDE DEF all
  <2>1. all \in [1..n -> Nat]
    BY <1>3, LenProperties
  <2> QED
    BY <2>1
<1> HIDE DEF all
<1>5. ASSUME NEW i \in 1..n PROVE all[i] = i
  <2>1. CASE i <= Len(sent)
    <3>1. i \in 1..Len(sent)
      BY <1>1, <2>1
    <3>2. sent[i] = i
      BY <3>1 DEF Numbered
    <3> QED
      BY <1>3, <2>1, <3>2
  <2>2. CASE ~(i <= Len(sent))
    <3>1. PICK k \in 1..Len(q) : k = i - Len(sent)
      <4>1. Len(sent) + Len(q) = n /\ Len(sent) \in Nat /\ Len(q) \in Nat
        BY <1>1 DEF Numbered
      <4>2. i - Len(sent) \in 1..Len(q)
        BY <2>2, <4>1
      <4> QED
        BY <4>2
    <3>2. Ids(q)[k] = Len(sent) + k
      BY <1>2, <3>1 DEF Numbered
    <3>3. all[i] = Ids(q)[k]
      BY <1>3, <2>2, <3>1
    <3> QED
      BY <1>1, <3>1, <3>2, <3>3
  <2> QED
    BY <1>1, <2>1, <2>2
<1>6. all = [i \in 1..n |-> i]
  BY <1>4, <1>5
<1> QED
  BY <1>6 DEF all

\* A stream thread numbers the message it queues.
LEMMA NumberedQueued ==
  ASSUME NEW S, NEW q \in Seq(S), NEW sent \in Seq(Nat), NEW n \in Nat, NEW m \in S,
         m.id = n + 1, Numbered(q, sent, n)
  PROVE  Numbered(Append(q, m), sent, n + 1)
<1>1. /\ Len(q) \in Nat /\ Len(sent) \in Nat /\ Len(Append(q, m)) = Len(q) + 1
      /\ \A i \in 1..Len(q) : Append(q, m)[i] = q[i]
      /\ Append(q, m)[Len(q) + 1] = m
  BY AppendProperties, LenProperties
<1>2. ASSUME NEW i \in 1..Len(q) + 1 PROVE Append(q, m)[i].id = Len(sent) + i
  BY <1>1 DEF Numbered
<1> QED
  BY <1>1, <1>2 DEF Numbered

\* The message that left the queue is the one at its front, and the next to send.
LEMMA NumberedTaken ==
  ASSUME NEW S, NEW q \in Seq(S), NEW sent \in Seq(Nat), NEW n \in Nat, NEW sent2,
         q # <<>>, Numbered(q, sent, n), Took(q, Tail(q), sent, sent2)
  PROVE  sent2 \in Seq(Nat) /\ Numbered(Tail(q), sent2, n)
<1> DEFINE q2   == Tail(q)
           had  == {q[i].id : i \in DOMAIN q}
           has  == {q2[i].id : i \in DOMAIN q2}
           next == Len(sent) + 1
<1>1. /\ Len(q) \in Nat \ {0} /\ DOMAIN q = 1..Len(q) /\ Len(sent) \in Nat
      /\ q2 \in Seq(S) /\ Len(q2) = Len(q) - 1 /\ DOMAIN q2 = 1..Len(q) - 1
      /\ \A i \in 1..Len(q) - 1 : q2[i] = q[i + 1]
  BY LenProperties, HeadTailProperties, EmptySeq
<1>2. /\ \A i \in 1..Len(q) : q[i].id = Len(sent) + i
      /\ Len(sent) + Len(q) = n
  BY DEF Numbered
<1>3. \A i \in 1..Len(q) - 1 : q2[i].id = next + i
  BY <1>1, <1>2
<1>4. next \in had /\ next \notin has
  <2>1. 1 \in DOMAIN q /\ q[1].id = next
    BY <1>1, <1>2
  <2>2. \A i \in DOMAIN q2 : q2[i].id # next
    BY <1>1, <1>3
  <2> QED
    BY <2>1, <2>2
<1>5. ASSUME NEW id \in had, id \notin has PROVE id = next
  <2>1. PICK i \in 1..Len(q) : id = q[i].id
    BY <1>1, <1>5
  <2>2. CASE i = 1
    BY <1>2, <2>1, <2>2
  <2>3. CASE i # 1
    <3>1. i - 1 \in DOMAIN q2 /\ q2[i - 1] = q[i]
      BY <1>1, <2>3
    <3> QED
      BY <1>5, <2>1, <3>1
  <2> QED
    BY <2>2, <2>3
<1>6. (CHOOSE id \in had : id \notin has) = next
  <2> HIDE DEF had, has, next
  <2> QED
    BY <1>4, <1>5
<1>7. sent2 = Append(sent, next)
  BY <1>6, Zenon DEF Took
<1>8. /\ sent2 \in Seq(Nat) /\ Len(sent2) = next /\ sent2[next] = next
      /\ \A i \in 1..Len(sent) : sent2[i] = sent[i]
  BY <1>1, <1>7, AppendProperties
<1> HIDE DEF q2, next
<1>9. \A i \in 1..Len(sent2) : sent2[i] = i
  <2>1. \A i \in 1..Len(sent) : sent[i] = i
    BY DEF Numbered
  <2>2. next = Len(sent) + 1
    BY DEF next
  <2>3. \A i \in 1..next : i \in 1..Len(sent) \/ i = next
    BY <1>1, <2>2
  <2> QED
    BY <1>8, <2>1, <2>3
<1>10. Len(sent2) + Len(q2) = n
  <2>1. Len(sent2) = Len(sent) + 1 /\ Len(q2) = Len(q) - 1
    BY <1>1, <1>8 DEF next
  <2>2. Len(sent) + Len(q) = n /\ Len(sent) \in Nat /\ Len(q) \in Nat
    BY <1>1, <1>2
  <2> QED
    BY <2>1, <2>2
<1>11. \A i \in 1..Len(q2) : q2[i].id = Len(sent2) + i
  BY <1>1, <1>3, <1>8
<1> QED
  BY <1>8, <1>9, <1>10, <1>11 DEF Numbered, q2

-----------------------------------------------------------------------------
LEMMA ServiceInit == Init => RestInv
<1> SUFFICES ASSUME Init PROVE RestInv
  OBVIOUS
<1> USE DEF Init, TradeInit, RestInit
<1>1. TypeOK
  <2>1. TradeTypeOK
    BY DEF TradeTypeOK, Slots, Threads
  <2>2. RestTypeOK
    BY DEF RestTypeOK
  <2>3. <<>> \in Seq(Nat)
    BY EmptySeq
  <2> QED
    BY <2>1, <2>2, <2>3 DEF TypeOK
<1>2. Len(<<>>) = 0
  OBVIOUS
<1>3. Numbered(<<>>, <<>>, 0)
  BY <1>2 DEF Numbered
<1> QED
  BY <1>1, <1>3 DEF RestInv

\* The numbers are natural in either queue.
LEMMA NumbersNatural == (\A m \in NewOrders : m.id \in Nat) /\ \A m \in Updates : m.id \in Nat
  BY DEF NewOrders, Updates

LEMMA RestStepType ==
  ASSUME TypeOK, RestStep(RestWork \/ GetLock) \/ Clock
  PROVE  TypeOK'
<1> USE DEF TypeOK, TradeTypeOK, RestTypeOK, restUnused, priceVars, orderVars, queueVars,
            countVars, clockVars, serviceVars
<1>1. CASE Clock
  BY <1>1 DEF Clock, Tick, SecondPasses, MinutePasses, tradeVars
<1>2. CASE RestStep(Connect)
  BY <1>2 DEF RestStep, Connect, refresh_keepalive
<1>3. CASE RestStep(CheckLimits)
  BY <1>3 DEF RestStep, CheckLimits
<1>4. CASE RestStep(NoNew \/ NoUpd)
  BY <1>4 DEF RestStep, NoNew, NoUpd
<1>5. CASE RestStep(Unlock)
  BY <1>5 DEF RestStep, Unlock, Lock!Release
<1>6. CASE RestStep(GetLock)
  BY <1>6 DEF RestStep, GetLock, Lock!Acquire, Threads
<1> QED
  BY <1>1, <1>2, <1>3, <1>4, <1>5, <1>6 DEF RestStep, RestWork

LEMMA RestInvStep == RestInv /\ [Next]_vars => RestInv'
<1> SUFFICES ASSUME RestInv, [Next]_vars PROVE RestInv'
  OBVIOUS
<1>1. /\ TypeOK /\ made_new \in Nat /\ made_upd \in Nat
      /\ new_order_q \in Seq(NewOrders) /\ upd_order_q \in Seq(Updates)
      /\ sent_new \in Seq(Nat) /\ sent_upd \in Seq(Nat)
      /\ Numbered(new_order_q, sent_new, made_new)
      /\ Numbered(upd_order_q, sent_upd, made_upd)
  BY DEF RestInv, TypeOK, TradeTypeOK
<1>2. CASE QueueNew
  <2>1. PICK m : m = [id |-> made_new + 1, slot |-> "bid", price |-> 0, vol |-> 0]
    OBVIOUS
  <2>2. m \in NewOrders /\ m.id = made_new + 1
    BY <1>1, <2>1 DEF NewOrders, Slots
  <2>3. /\ made_new' = made_new + 1 /\ new_order_q' = Append(new_order_q, m)
        /\ UNCHANGED <<restUnused, restVars, holder, upd_order_q, made_upd, sent_new, sent_upd>>
    BY <1>2, <2>1 DEF QueueNew, WithLock
  <2>4. new_order_q' \in Seq(NewOrders)
    BY <1>1, <2>2, <2>3
  <2>5. TypeOK'
    BY <1>1, <2>3, <2>4 DEF TypeOK, TradeTypeOK, RestTypeOK, restUnused, priceVars, orderVars,
                            restVars, countVars, clockVars
  <2>6. Numbered(new_order_q', sent_new', made_new')
    BY <1>1, <2>2, <2>3, NumberedQueued
  <2> QED
    BY <1>1, <2>3, <2>5, <2>6 DEF RestInv
<1>3. CASE QueueUpd
  <2>1. PICK m : m = [kind |-> "price", id |-> made_upd + 1, price |-> 0]
    OBVIOUS
  <2>2. m \in Updates /\ m.id = made_upd + 1
    BY <1>1, <2>1 DEF Updates
  <2>3. /\ made_upd' = made_upd + 1 /\ upd_order_q' = Append(upd_order_q, m)
        /\ UNCHANGED <<restUnused, restVars, holder, new_order_q, made_new, sent_new, sent_upd>>
    BY <1>3, <2>1 DEF QueueUpd, WithLock
  <2>4. upd_order_q' \in Seq(Updates)
    BY <1>1, <2>2, <2>3
  <2>5. TypeOK'
    BY <1>1, <2>3, <2>4 DEF TypeOK, TradeTypeOK, RestTypeOK, restUnused, priceVars, orderVars,
                            restVars, countVars, clockVars
  <2>6. Numbered(upd_order_q', sent_upd', made_upd')
    BY <1>1, <2>2, <2>3, NumberedQueued
  <2> QED
    BY <1>1, <2>3, <2>5, <2>6 DEF RestInv
<1>4. CASE SendNew /\ Took(new_order_q, new_order_q', sent_new, sent_new')
           /\ UNCHANGED <<made_new, made_upd, sent_upd>>
  <2>1. /\ new_order_q # <<>> /\ new_order_q' = Tail(new_order_q)
        /\ rest_pc' = "upd" /\ CountSent
        /\ UNCHANGED <<clockVars, restUnused, upd_order_q, holder>>
    BY <1>4 DEF SendNew
  <2>2. sent_new' \in Seq(Nat) /\ Numbered(new_order_q', sent_new', made_new)
    BY <1>1, <1>4, <2>1, NumberedTaken
  <2>3. new_order_q' \in Seq(NewOrders)
    BY <1>1, <2>1, HeadTailProperties
  <2>4. TypeOK'
    BY <1>1, <1>4, <2>1, <2>2, <2>3 DEF TypeOK, TradeTypeOK, RestTypeOK, restUnused, priceVars,
                                        orderVars, clockVars, CountSent
  <2> QED
    BY <1>1, <1>4, <2>1, <2>2, <2>4 DEF RestInv
<1>5. CASE SendUpd /\ Took(upd_order_q, upd_order_q', sent_upd, sent_upd')
           /\ UNCHANGED <<made_new, made_upd, sent_new>>
  <2>1. /\ upd_order_q # <<>> /\ upd_order_q' = Tail(upd_order_q)
        /\ rest_pc' = "unlock" /\ CountSent
        /\ UNCHANGED <<clockVars, restUnused, new_order_q, holder>>
    BY <1>5 DEF SendUpd
  <2>2. sent_upd' \in Seq(Nat) /\ Numbered(upd_order_q', sent_upd', made_upd)
    BY <1>1, <1>5, <2>1, NumberedTaken
  <2>3. upd_order_q' \in Seq(Updates)
    BY <1>1, <2>1, HeadTailProperties
  <2>4. TypeOK'
    BY <1>1, <1>5, <2>1, <2>2, <2>3 DEF TypeOK, TradeTypeOK, RestTypeOK, restUnused, priceVars,
                                        orderVars, clockVars, CountSent
  <2> QED
    BY <1>1, <1>5, <2>1, <2>2, <2>4 DEF RestInv
<1>6. CASE RestStep(RestWork \/ GetLock) \/ Clock
  <2>1. UNCHANGED <<new_order_q, upd_order_q, made_new, made_upd, sent_new, sent_upd>>
    BY <1>6 DEF RestStep, RestWork, GetLock, Connect, CheckLimits, NoNew, NoUpd, Unlock,
                Clock, Tick, tradeVars, queueVars, serviceVars
  <2> QED
    BY <1>1, <1>6, <2>1, RestStepType DEF RestInv
<1>7. CASE UNCHANGED vars
  BY <1>1, <1>7 DEF vars, tradeVars, priceVars, orderVars, queueVars, restVars, countVars,
                    clockVars, serviceVars, RestInv, TypeOK, TradeTypeOK, RestTypeOK
<1> QED
  BY <1>2, <1>3, <1>4, <1>5, <1>6, <1>7 DEF Next, Send

\* Every variable of the REST thread and of what it shares keeps its type, for any
\* limits and any load (REST_Sync.hpp:44-66).
THEOREM RestTypesHold == Spec => []TypeOK
<1>1. RestInv => TypeOK
  BY DEF RestInv
<1> QED
  BY <1>1, ServiceInit, RestInvStep, PTL DEF Spec

\* Each queue is sent in the order it was filled, no message is dropped and none
\* is sent twice, for any limits, wherever the windows and the sections fall
\* (REST_Sync.hpp:258-273).
THEOREM SentInOrderHolds == Spec => []SentInOrder
<1>1. RestInv => SentInOrder
  <2> SUFFICES ASSUME RestInv PROVE SentInOrder
    OBVIOUS
  <2>1. /\ made_new \in Nat /\ made_upd \in Nat
        /\ new_order_q \in Seq(NewOrders) /\ upd_order_q \in Seq(Updates)
        /\ sent_new \in Seq(Nat) /\ sent_upd \in Seq(Nat)
        /\ Numbered(new_order_q, sent_new, made_new)
        /\ Numbered(upd_order_q, sent_upd, made_upd)
    BY DEF RestInv, TypeOK, TradeTypeOK
  <2>2. sent_new \o Ids(new_order_q) = [i \in 1..made_new |-> i]
    BY <2>1, NumbersNatural, NumberedInOrder
  <2>3. sent_upd \o Ids(upd_order_q) = [i \in 1..made_upd |-> i]
    BY <2>1, NumbersNatural, NumberedInOrder
  <2> QED
    BY <2>2, <2>3 DEF SentInOrder
<1> QED
  BY <1>1, ServiceInit, RestInvStep, PTL DEF Spec
=============================================================================
