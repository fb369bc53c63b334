---------------------------- MODULE SlotsProofs ----------------------------
(***************************************************************************)
(* The life of an order, for any books, volumes, limits and bounds: which  *)
(* identifiers the two threads draw, whatever their order; and that a slot *)
(* never has two orders and its flag tells whether it has one, whatever    *)
(* executions, cancellations and amendments cross.  The second needs a     *)
(* quiet start, an exchange that refuses no new order in silence, and no   *)
(* other user of the account whose identifiers are among the few this      *)
(* program hands out; the first only that none of theirs is 0 or 1.        *)
(***************************************************************************)
EXTENDS MarketMakerProofs

(***************************************************************************)
(* An order is about to be queued while its thread is at one of the        *)
(* locations LastUnused names, and its identifier is then the last one     *)
(* handed out, which nobody has yet.  Two threads at such locations at     *)
(* once would break that; a quiet start rules it out, as the order update  *)
(* thread has nothing to answer before both first offers are queued.       *)
(***************************************************************************)
IDsOf(q) == {q[i].id : i \in DOMAIN q}

Used == IDsOf(new_order_q) \cup DOMAIN orders

Starts == obs_pc \in Starting => ous_pc = "read" /\ ws_orders = <<>>

LastUnused ==
  (obs_pc \in {"take_id", "new_msg", "new_push"} \/ ous_pc \in {"msg", "push_new"})
     => clOrdID_count \notin Used

Pending ==
  /\ obs_pc = "new_msg" => clOrdID[Head(obs_todo)] = clOrdID_count
  /\ obs_pc = "new_push" => obs_msg.id = clOrdID_count
  /\ ous_pc = "msg" => clOrdID[ous_slot] = clOrdID_count
  /\ ous_pc = "push_new" => ous_msg.id = clOrdID_count

IDInv ==
  /\ Starts /\ LastUnused /\ Pending /\ FreshIDs
  /\ \A id \in Used : id <= clOrdID_count

\* No two orders of the queue have the same identifier, unless it is one of E.
Distinct(q, E) ==
  \A i, j \in DOMAIN q : q[i].id = q[j].id => i = j \/ q[i].id \in E

\* An identifier that is fresh, or in E, at the back of a queue.
LEMMA AppendFresh ==
  ASSUME NEW E, NEW q \in Seq(NewOrders), NEW m \in NewOrders,
         m.id \notin IDsOf(q) \/ m.id \in E, Distinct(q, E)
  PROVE  IDsOf(Append(q, m)) = IDsOf(q) \cup {m.id} /\ Distinct(Append(q, m), E)
<1> DEFINE r == Append(q, m)
<1>1. /\ Len(q) \in Nat /\ DOMAIN q = 1..Len(q)
      /\ DOMAIN r = 1..(Len(q) + 1)
      /\ \A i \in 1..Len(q) : r[i] = q[i]
      /\ r[Len(q) + 1] = m
  BY AppendProperties, LenProperties
<1> HIDE DEF r
<1>2. IDsOf(r) = IDsOf(q) \cup {m.id}
  BY <1>1 DEF IDsOf
<1>3. (\A i \in DOMAIN q : q[i].id # m.id) \/ m.id \in E
  BY DEF IDsOf
<1>4. Distinct(r, E)
  BY <1>1, <1>3 DEF Distinct
<1> QED
  BY <1>2, <1>4 DEF r

\* The front of a queue, and what is left behind it.
LEMMA TailFresh ==
  ASSUME NEW E, NEW q \in Seq(NewOrders), q # <<>>, Distinct(q, E)
  PROVE  /\ IDsOf(q) = IDsOf(Tail(q)) \cup {Head(q).id}
         /\ Head(q).id \in IDsOf(Tail(q)) => Head(q).id \in E
         /\ Distinct(Tail(q), E)
<1> DEFINE r == Tail(q)
           n == Len(q)
<1>1. /\ n \in Nat \ {0} /\ DOMAIN q = 1..n
      /\ Head(q) = q[1]
      /\ DOMAIN r = 1..(n - 1)
      /\ \A i \in 1..(n - 1) : r[i] = q[i + 1]
  BY HeadTailProperties, LenProperties, EmptySeq
<1> HIDE DEF r, n
<1>2. \A i \in DOMAIN q : i = 1 \/ (i - 1 \in DOMAIN r /\ r[i - 1] = q[i])
  <2>1. ASSUME NEW i \in 1..n, i # 1 PROVE i - 1 \in 1..(n - 1) /\ (i - 1) + 1 = i
    BY <1>1, <2>1
  <2> QED
    BY <1>1, <2>1
<1>3. \A i \in DOMAIN r : i \in Nat /\ i + 1 \in DOMAIN q /\ i + 1 # 1 /\ r[i] = q[i + 1]
  BY <1>1
<1>4. 1 \in DOMAIN q
  BY <1>1
<1>5. IDsOf(q) = IDsOf(r) \cup {Head(q).id}
  <2>1. ASSUME NEW x \in IDsOf(q) PROVE x \in IDsOf(r) \cup {Head(q).id}
    <3>1. PICK i \in DOMAIN q : x = q[i].id
      BY <2>1 DEF IDsOf
    <3> QED
      BY <1>1, <1>2, <3>1 DEF IDsOf
  <2>2. ASSUME NEW x \in IDsOf(r) PROVE x \in IDsOf(q)
    <3>1. PICK i \in DOMAIN r : x = r[i].id
      BY <2>2 DEF IDsOf
    <3> QED
      BY <1>3, <3>1 DEF IDsOf
  <2>3. Head(q).id \in IDsOf(q)
    BY <1>1, <1>4 DEF IDsOf
  <2> QED
    BY <2>1, <2>2, <2>3
<1>6. Head(q).id \in IDsOf(r) => Head(q).id \in E
  <2> SUFFICES ASSUME NEW i \in DOMAIN r, q[1].id = r[i].id PROVE q[1].id \in E
    BY <1>1 DEF IDsOf
  <2> QED
    BY <1>3, <1>4 DEF Distinct
<1>7. Distinct(r, E)
  <2> SUFFICES ASSUME NEW i \in DOMAIN r, NEW j \in DOMAIN r, r[i].id = r[j].id
               PROVE  i = j \/ r[i].id \in E
    BY DEF Distinct
  <2>1. i + 1 = j + 1 \/ r[i].id \in E
    BY <1>3 DEF Distinct
  <2> QED
    BY <1>3, <2>1
<1> QED
  BY <1>5, <1>6, <1>7 DEF r

\* No identifier is used before the program starts.
LEMMA IDInit == Init => IDInv
<1> SUFFICES ASSUME Init PROVE IDInv
  OBVIOUS
<1>1. /\ new_order_q = <<>> /\ DOMAIN orders = {} /\ DOMAIN new_order_q = {}
      /\ obs_pc = "start" /\ ous_pc = "read" /\ ws_orders = <<>>
  BY DEF Init, TradeInit, ExchangeInit, ObsInit, OusInit
<1>2. Used = {} /\ FreshIDs
  BY <1>1 DEF Used, IDsOf, FreshIDs
<1> QED
  BY <1>1, <1>2 DEF IDInv, Starts, LastUnused, Pending

\* The last identifier goes to the back of the queue.
LEMMA QueueFresh ==
  ASSUME TypeOK, IDInv, NEW m \in NewOrders, m.id = clOrdID_count,
         clOrdID_count \notin Used, UNCHANGED <<orders, clOrdID_count>>,
         new_order_q' = Append(new_order_q, m)
  PROVE  FreshIDs' /\ \A id \in Used' : id <= clOrdID_count'
<1>1. new_order_q \in Seq(NewOrders) /\ m.id \notin IDsOf(new_order_q)
  BY DEF TypeOK, TradeTypeOK, Used
<1>2. Distinct(new_order_q, {})
  BY DEF IDInv, FreshIDs, Distinct
<1>3. IDsOf(new_order_q') = IDsOf(new_order_q) \cup {m.id} /\ Distinct(new_order_q', {})
  BY <1>1, <1>2, AppendFresh
<1>4. m.id \in Nat /\ Used' = Used \cup {m.id}
  BY <1>3 DEF Used, NewOrders
<1>5. \A id \in Used' : id <= clOrdID_count'
  BY <1>4 DEF IDInv
<1>6. \A i \in DOMAIN new_order_q' : new_order_q'[i].id \notin DOMAIN orders'
  <2>1. \A id \in IDsOf(new_order_q) : id \notin DOMAIN orders
    BY DEF IDInv, FreshIDs, IDsOf
  <2>2. \A id \in IDsOf(new_order_q') : id \notin DOMAIN orders'
    BY <1>3, <2>1 DEF Used
  <2> QED
    BY <2>2 DEF IDsOf
<1> QED
  BY <1>3, <1>5, <1>6 DEF FreshIDs, Distinct

\* Identifiers are numbers.
LEMMA UsedAreNumbers == ASSUME TypeOK PROVE \A id \in Used : id \in Nat
<1>1. new_order_q \in Seq(NewOrders) /\ DOMAIN orders \subseteq Nat
  BY DEF TypeOK, TradeTypeOK, ExchangeTypeOK
<1>2. \A i \in DOMAIN new_order_q : new_order_q[i] \in NewOrders
  BY <1>1, LenProperties
<1> QED
  BY <1>1, <1>2 DEF Used, IDsOf, NewOrders

\* ++clOrdID_count gives an identifier that nobody has.
LEMMA GiveIDFresh ==
  ASSUME TypeOK, IDInv, NEW s \in Slots, GiveID(s), UNCHANGED <<new_order_q, orders>>
  PROVE  /\ clOrdID'[s] = clOrdID_count' /\ clOrdID_count' \notin Used'
         /\ FreshIDs' /\ \A id \in Used' : id <= clOrdID_count'
<1>1. clOrdID_count \in Nat /\ clOrdID_count' = clOrdID_count + 1
  BY DEF GiveID, TypeOK, TradeTypeOK
<1>2. clOrdID'[s] = clOrdID_count'
  BY <1>1 DEF GiveID, TypeOK, TradeTypeOK
<1>3. Used' = Used /\ FreshIDs'
  BY DEF Used, IDsOf, FreshIDs, IDInv
<1>4. \A id \in Used : id \in Nat /\ id <= clOrdID_count
  BY UsedAreNumbers DEF IDInv
<1> QED
  BY <1>1, <1>2, <1>3, <1>4

\* The order book thread takes an identifier while nobody else does.
LEMMA IDObs ==
  ASSUME TypeOK, IDInv, ObsStep(Obs)
  PROVE  IDInv'
<1>1. UNCHANGED <<orders, ws_orders, ous_pc, ous_slot, ous_msg>>
  BY DEF ObsStep, ousVars, exchangeVars
<1>2. UNCHANGED new_order_q => Used' = Used /\ (FreshIDs <=> FreshIDs')
  BY <1>1 DEF Used, IDsOf, FreshIDs
<1> USE DEF IDInv, Starts, LastUnused, Pending, Starting
<1>3. CASE InitTrading \/ StoreTarget
  BY <1>1, <1>2, <1>3
  DEF InitTrading, StoreTarget, tradeVars, orderVars, queueVars
<1>4. CASE CountOrder
  <2>1. clOrdID_count \in Nat /\ clOrdID_count' = clOrdID_count + 1
    BY <1>4 DEF CountOrder, TypeOK, TradeTypeOK
  <2>2. \A id \in Used : id \in Nat
    BY UsedAreNumbers
  <2>3. Used' = Used /\ FreshIDs'
    BY <1>2, <1>4 DEF CountOrder, queueVars
  <2>4. clOrdID_count' \notin Used' /\ \A id \in Used' : id <= clOrdID_count'
    BY <2>1, <2>2, <2>3
  <2> QED
    BY <1>1, <1>4, <2>3, <2>4 DEF CountOrder
<1>5. CASE TakeID
  <2>1. Head(obs_todo) \in Slots
    BY <1>5, HeadTail DEF TakeID, TypeOK, ObsTypeOK
  <2> QED
    BY <1>1, <1>2, <1>5, <2>1 DEF TakeID, queueVars, TypeOK, TradeTypeOK
<1>6. CASE BuildFirstOrder
  BY <1>1, <1>2, <1>6
  DEF BuildFirstOrder, NewOrderMsg, tradeVars, orderVars, queueVars
<1>7. CASE PushFirstOrder
  <2>1. obs_msg \in NewOrders /\ obs_msg.id = clOrdID_count /\ clOrdID_count \notin Used
    BY <1>7 DEF PushFirstOrder, TypeOK, ObsTypeOK
  <2>2. FreshIDs' /\ \A id \in Used' : id <= clOrdID_count'
    BY <1>1, <1>7, <2>1, QueueFresh DEF PushFirstOrder, PushNewOrder
  <2> QED
    BY <1>1, <1>7, <2>2 DEF PushFirstOrder, NextSlot
<1>8. CASE \E b \in Books : OnBestPrice(b) \/ OnEarlierEntry(b) \/ OnVolume(b)
  <2>1. UNCHANGED <<new_order_q, clOrdID, clOrdID_count>>
    BY <1>8 DEF OnBestPrice, OnEarlierEntry, OnVolume, Handle, tradeVars, orderVars, queueVars
  <2>2. obs_pc' \in {"store", "diff", "idle"}
    BY <1>8 DEF OnBestPrice, OnEarlierEntry, OnVolume, Handle
  <2> QED
    BY <1>1, <1>2, <2>1, <2>2, <1>8 DEF OnBestPrice, OnEarlierEntry, OnVolume, Handle
<1>9. CASE CompareSlot \/ LoadOpen \/ BuildAmend \/ PushAmend
  <2>1. UNCHANGED <<new_order_q, clOrdID, clOrdID_count>>
    BY <1>9 DEF CompareSlot, LoadOpen, BuildAmend, PushAmend, tradeVars, orderVars, queueVars
  <2>2. obs_pc' \in {"diff", "open", "price", "msg", "push", "idle"}
    BY <1>9 DEF CompareSlot, LoadOpen, BuildAmend, PushAmend, NextSlot
  <2>3. obs_pc \notin Starting
    BY <1>9 DEF CompareSlot, LoadOpen, BuildAmend, PushAmend
  <2> QED
    BY <1>1, <1>2, <2>1, <2>2, <2>3
<1> QED
  BY <1>3, <1>4, <1>5, <1>6, <1>7, <1>8, <1>9 DEF ObsStep, Obs

\* The order update thread has messages to answer only when the order book
\* thread has placed both offers.
LEMMA IDOus ==
  ASSUME TypeOK, IDInv, OusStep(Ous)
  PROVE  IDInv'
<1>1. UNCHANGED <<orders, obs_pc, obs_todo, obs_msg>>
  BY DEF OusStep, obsVars, exchangeVars
<1>2. UNCHANGED new_order_q => Used' = Used /\ (FreshIDs <=> FreshIDs')
  BY <1>1 DEF Used, IDsOf, FreshIDs
<1>3. obs_pc \notin Starting
  BY DEF OusStep, Ous, OusWork, OusRead, OusLockedWork, Ignore, BuildNewOrder, RaiseOpen,
         PushOpposite, PushVolume, IDInv, Starts
<1> USE DEF IDInv, Starts, LastUnused, Pending, Starting
<1>4. CASE Ignore
  BY <1>1, <1>2, <1>3, <1>4 DEF Ignore, ousVars, tradeVars, orderVars, queueVars
<1>5. ASSUME NEW s \in Slots, NEW m, OnFill(s, m) PROVE IDInv'
  <2>1. UNCHANGED new_order_q /\ Opposite[s] \in Slots
    BY <1>5 DEF OnFill, queueVars, Opposite, Slots
  <2>2. CASE ous_pc' = "push_upd"
    BY <1>1, <1>2, <1>3, <1>5, <2>1, <2>2 DEF OnFill
  <2>3. CASE ous_pc' = "msg"
    <3>1. GiveID(Opposite[s]) /\ ous_slot' = Opposite[s]
      BY <1>5, <2>3 DEF OnFill
    <3> QED
      BY <1>1, <1>3, <2>1, <2>3, <3>1, GiveIDFresh
  <2> QED
    BY <1>5, <2>2, <2>3 DEF OnFill
<1>6. ASSUME NEW s \in Slots, NEW m, OnCancelled(s, m) PROVE IDInv'
  <2>1. UNCHANGED new_order_q /\ GiveID(s) /\ ous_slot' = s /\ ous_pc' = "msg"
    BY <1>6 DEF OnCancelled, queueVars
  <2> QED
    BY <1>1, <1>3, <2>1, GiveIDFresh
<1>7. CASE BuildNewOrder
  BY <1>1, <1>2, <1>3, <1>7 DEF BuildNewOrder, NewOrderMsg, orderVars, queueVars
<1>8. CASE PushOpposite
  <2>1. ous_msg \in NewOrders /\ ous_msg.id = clOrdID_count /\ clOrdID_count \notin Used
    BY <1>8 DEF PushOpposite, TypeOK, OusTypeOK
  <2>2. FreshIDs' /\ \A id \in Used' : id <= clOrdID_count'
    BY <1>1, <1>8, <2>1, QueueFresh DEF PushOpposite, orderVars
  <2> QED
    BY <1>1, <1>3, <1>8, <2>2 DEF PushOpposite
<1>9. CASE RaiseOpen \/ PushVolume
  BY <1>1, <1>2, <1>3, <1>9 DEF RaiseOpen, PushVolume, orderVars, queueVars
<1> QED
  BY <1>4, <1>5, <1>6, <1>7, <1>8, <1>9
  DEF OusStep, Ous, OusWork, OusRead, OusLockedWork

\* A request moves an identifier from the queue to the exchange, or drops it.
LEMMA IDSend ==
  ASSUME TypeOK, IDInv, SendStep
  PROVE  IDInv'
<1>1. UNCHANGED <<obs_pc, obs_todo, obs_msg, ws_orders, ous_pc, ous_slot, ous_msg,
                  clOrdID, clOrdID_count>>
  BY DEF SendStep, SendNew, SendUpd, obsVars, ousVars, restUnused, orderVars
<1>2. Used' \subseteq Used /\ FreshIDs'
  <2>1. CASE SendNew /\ Post(Head(new_order_q))
    <3> DEFINE m == Head(new_order_q)
    <3>1. new_order_q \in Seq(NewOrders) /\ new_order_q # <<>> /\ new_order_q' = Tail(new_order_q)
      BY <2>1 DEF SendNew, TypeOK, TradeTypeOK
    <3>2. Distinct(new_order_q, {})
      BY DEF IDInv, FreshIDs, Distinct
    <3>3. /\ IDsOf(new_order_q) = IDsOf(new_order_q') \cup {m.id}
          /\ m.id \notin IDsOf(new_order_q')
          /\ Distinct(new_order_q', {})
      <4>1. /\ IDsOf(new_order_q) = IDsOf(Tail(new_order_q)) \cup {Head(new_order_q).id}
            /\ Head(new_order_q).id \in IDsOf(Tail(new_order_q)) => Head(new_order_q).id \in {}
            /\ Distinct(Tail(new_order_q), {})
        BY <3>1, <3>2, TailFresh, Zenon
      <4> QED
        BY <3>1, <4>1
    <3>4. DOMAIN orders' \subseteq DOMAIN orders \cup {m.id}
      BY <2>1 DEF Post
    <3>5. \A id \in IDsOf(new_order_q) : id \notin DOMAIN orders
      BY DEF IDInv, FreshIDs, IDsOf
    <3>6. \A id \in IDsOf(new_order_q') : id \notin DOMAIN orders'
      BY <3>3, <3>4, <3>5
    <3>7. FreshIDs'
      <4>1. \A i \in DOMAIN new_order_q' : new_order_q'[i].id \notin DOMAIN orders'
        BY <3>6 DEF IDsOf
      <4> QED
        BY <3>3, <4>1 DEF FreshIDs, Distinct
    <3> QED
      BY <3>3, <3>4, <3>7 DEF Used
  <2>2. CASE SendUpd /\ Put(Head(upd_order_q))
    <3>1. new_order_q' = new_order_q /\ DOMAIN orders' = DOMAIN orders
      BY <2>2 DEF SendUpd, Put
    <3> QED
      BY <3>1 DEF Used, FreshIDs, IDsOf, IDInv
  <2> QED
    BY <2>1, <2>2 DEF SendStep
<1> QED
  BY <1>1, <1>2 DEF IDInv, Starts, LastUnused, Pending

\* With a quiet start the channel is silent until both offers are placed.
LEMMA IDExchange ==
  ASSUME QuietStart, TypeOK, IDInv, ExchangeStep
  PROVE  IDInv'
<1>1. UNCHANGED <<obs_pc, obs_todo, obs_msg, ous_pc, ous_slot, ous_msg,
                  clOrdID, clOrdID_count, new_order_q>>
  BY DEF ExchangeStep, tradeVars, orderVars, queueVars, obsVars, ousVars
<1>2. obs_pc \notin Starting
  BY DEF ExchangeStep, Starting, Running
<1>3. DOMAIN orders' = DOMAIN orders
  BY DEF ExchangeStep, Fill, Cancel, CancelOther
<1> QED
  BY <1>1, <1>2, <1>3
  DEF IDInv, Starts, LastUnused, Pending, Used, IDsOf, FreshIDs

\* The REST thread's other steps touch no order.
LEMMA IDRest ==
  ASSUME IDInv, RestStep(RestWork \/ GetLock) \/ UNCHANGED vars
  PROVE  IDInv'
<1>1. UNCHANGED <<obs_pc, obs_todo, obs_msg, ws_orders, ous_pc, ous_slot, ous_msg,
                  clOrdID, clOrdID_count, new_order_q, orders>>
  BY DEF RestStep, RestWork, Connect, refresh_keepalive, CheckLimits, NoNew, NoUpd, Unlock,
         GetLock, vars, tradeVars, orderVars, queueVars, obsVars, ousVars, exchangeVars,
         restUnused
<1> QED
  BY <1>1 DEF IDInv, Starts, LastUnused, Pending, Used, IDsOf, FreshIDs

-----------------------------------------------------------------------------
(***************************************************************************)
(* An order waits in the queue; or it is live at the exchange; or it is    *)
(* dead there, and the message that says so is on its way.  All that time  *)
(* the flag of its slot is up and the identifier of the slot is its own;   *)
(* when the last message about it is handled the flag goes down, and with  *)
(* the flag down nothing of the slot is left anywhere.                     *)
(***************************************************************************)
OthersApart == \A i \in OtherIDs : i > 2 + MaxFills + MaxCancels

\* The slot has an order; the flag of one that is queued is about to be raised.
Placed(s) == is_open[s] \/ (ous_pc = "raise" /\ ous_slot = s)

\* The last message about an order.
Terminal(m) == m.status \in Ended \/ m.leavesQty = 0

\* The locations of the threads say who is let in.
HolderRight ==
  /\ rest_pc \in {"new", "upd", "unlock"} <=> holder = "rest"
  /\ ous_pc = "raise" <=> holder = "ous"

\* Until it is placed, an offer's flag is down.
FirstOrders ==
  /\ obs_pc = "start" => \A s \in Slots : ~is_open[s]
  /\ obs_pc \in Starting \ {"start"} =>
       /\ obs_todo \in {<<"bid", "ask">>, <<"ask">>}
       /\ ~is_open["ask"]
       /\ Head(obs_todo) = "bid" => ~is_open["bid"]
  /\ obs_pc = "new_push" =>
       obs_msg.slot = Head(obs_todo) /\ obs_msg.id = clOrdID[Head(obs_todo)]

\* An identifier is drawn for each first offer and for each message at most.
Counted ==
  /\ obs_pc \in {"start", "first_store"} => clOrdID_count = 0
  /\ obs_pc = "first_store" => Len(obs_todo) = 2
  /\ obs_pc = "place" => clOrdID_count = 2 - Len(obs_todo)
  /\ obs_pc \in {"take_id", "new_msg", "new_push"} => clOrdID_count = 3 - Len(obs_todo)
  /\ clOrdID_count + Len(ws_orders) <= 2 + fills + cancels
  /\ fills <= MaxFills /\ cancels <= MaxCancels

\* No two slots have the same identifier, and a slot with an order has one.
OwnIDs ==
  /\ \A s \in Slots : clOrdID[s] <= clOrdID_count
  /\ obs_pc = "take_id" => \A s \in Slots : clOrdID[s] < clOrdID_count
  /\ \A s, t \in Slots : clOrdID[s] = clOrdID[t] => s = t \/ clOrdID[s] = 0
  /\ \A s \in Slots : Placed(s) => clOrdID[s] # 0
  /\ obs_pc \in {"new_msg", "new_push"} => clOrdID[Head(obs_todo)] # 0
  /\ ous_pc \in {"msg", "push_new"} => clOrdID[ous_slot] # 0

\* The slot an order is about to be sent into has none.
Answering ==
  /\ ous_pc \in {"msg", "push_new", "raise"} => ~is_open[ous_slot]
  /\ ous_pc = "push_new" => ous_msg.slot = ous_slot /\ ous_msg.id = clOrdID[ous_slot]

QueuedRight ==
  \A i \in DOMAIN new_order_q :
     /\ new_order_q[i].id = clOrdID[new_order_q[i].slot]
     /\ Placed(new_order_q[i].slot)

LiveRight ==
  \A i \in DOMAIN orders :
     Live(i) => i = clOrdID[orders[i].slot] /\ is_open[orders[i].slot]

\* What a message on its way says of the order it is about.
Tells(k) ==
  LET m == ws_orders[k]
  IN  /\ m.id \in DOMAIN orders
      /\ m.id = clOrdID[orders[m.id].slot] /\ is_open[orders[m.id].slot]
      /\ Terminal(m) => /\ ~Live(m.id)
                        /\ \A l \in DOMAIN ws_orders : ws_orders[l].id = m.id => l <= k

Told == \A k \in DOMAIN ws_orders : ws_orders[k].id \notin OtherIDs => Tells(k)

\* The order of slot s is at the exchange, live or with its last message sent.
AtExchange(s) ==
  /\ clOrdID[s] \in DOMAIN orders /\ orders[clOrdID[s]].slot = s
  /\ \/ Live(clOrdID[s])
     \/ \E k \in DOMAIN ws_orders : ws_orders[k].id = clOrdID[s] /\ Terminal(ws_orders[k])

Queued(s) == \E i \in DOMAIN new_order_q : new_order_q[i].slot = s

Somewhere == \A s \in Slots : Placed(s) => Queued(s) \/ AtExchange(s)

Threading == HolderRight /\ FirstOrders /\ Counted /\ OwnIDs /\ Answering

Lives == QueuedRight /\ LiveRight /\ Told /\ Somewhere

SlotsInv == Threading /\ Lives

-----------------------------------------------------------------------------
\* The positions of a queue with a message at its back.
LEMMA Appended ==
  ASSUME NEW S, NEW q \in Seq(S), NEW m \in S
  PROVE  LET r == Append(q, m)
         IN  /\ Len(q) \in Nat /\ Len(r) = Len(q) + 1
             /\ DOMAIN q = 1..Len(q) /\ DOMAIN r = 1..Len(q) + 1
             /\ \A i \in DOMAIN q : r[i] = q[i]
             /\ r[Len(q) + 1] = m
  BY AppendProperties, LenProperties

\* The positions of a queue without its front.
LEMMA FrontTaken ==
  ASSUME NEW S, NEW q \in Seq(S), q # <<>>
  PROVE  /\ Head(q) = q[1] /\ 1 \in DOMAIN q
         /\ Len(Tail(q)) = Len(q) - 1 /\ Len(q) \in Nat
         /\ DOMAIN q = 1..Len(q) /\ DOMAIN Tail(q) = 1..Len(q) - 1
         /\ \A i \in DOMAIN Tail(q) : i + 1 \in DOMAIN q /\ Tail(q)[i] = q[i + 1]
         /\ \A i \in DOMAIN q : i # 1 => i - 1 \in DOMAIN Tail(q) /\ Tail(q)[i - 1] = q[i]
<1>1. /\ Len(q) \in Nat \ {0} /\ DOMAIN q = 1..Len(q)
      /\ Head(q) = q[1]
      /\ Len(Tail(q)) = Len(q) - 1 /\ DOMAIN Tail(q) = 1..(Len(q) - 1)
      /\ \A i \in 1..(Len(q) - 1) : Tail(q)[i] = q[i + 1]
  BY HeadTailProperties, LenProperties, EmptySeq
<1>2. \A i \in 1..Len(q) : i # 1 => i - 1 \in 1..(Len(q) - 1) /\ (i - 1) + 1 = i
  BY <1>1
<1> QED
  BY <1>1, <1>2

\* Nothing changes for the orders when nothing of theirs does.
LEMMA LivesStay ==
  ASSUME Lives, UNCHANGED <<is_open, clOrdID, new_order_q, orders, ws_orders, ous_pc, ous_slot>>
  PROVE  Lives'
  BY DEF Lives, QueuedRight, LiveRight, Told, Tells, Somewhere, Queued, AtExchange, Placed,
         Live, Terminal

\* The invariant holds before the program starts.
LEMMA SlotsInit == Init => SlotsInv
<1> SUFFICES ASSUME Init PROVE SlotsInv
  OBVIOUS
<1> USE DEF Init, TradeInit, ObsInit, OusInit, RestInit, ExchangeInit
<1>1. \A s \in Slots : ~is_open[s] /\ clOrdID[s] = 0
  OBVIOUS
<1>2. HolderRight
  BY DEF HolderRight
<1>3. FirstOrders /\ Counted
  <2>1. Len(ws_orders) = 0 /\ MaxFills \in Nat /\ MaxCancels \in Nat
    BY EmptySeq, ExchangeAssumption
  <2> QED
    BY <1>1, <2>1 DEF FirstOrders, Counted, Starting
<1>4. OwnIDs /\ Answering
  BY <1>1 DEF OwnIDs, Answering, Placed
<1>5. DOMAIN new_order_q = {} /\ DOMAIN ws_orders = {} /\ DOMAIN orders = {}
  BY EmptySeq
<1>6. Lives
  BY <1>1, <1>5 DEF Lives, QueuedRight, LiveRight, Told, Somewhere, Placed
<1> QED
  BY <1>2, <1>3, <1>4, <1>6 DEF SlotsInv, Threading

\* What is queued, and what the exchange keeps, is of one of the slots.
LEMMA SlotsOfOrders ==
  ASSUME TypeOK
  PROVE  /\ \A i \in DOMAIN new_order_q : /\ new_order_q[i] \in NewOrders
                                         /\ new_order_q[i].slot \in Slots
         /\ \A i \in DOMAIN orders : i \in Nat /\ orders[i] \in Orders /\ orders[i].slot \in Slots
<1>1. new_order_q \in Seq(NewOrders)
  BY DEF TypeOK, TradeTypeOK
<1>2. \A i \in DOMAIN new_order_q : new_order_q[i] \in NewOrders
  BY <1>1, LenProperties
<1>3. \A m \in NewOrders : m.slot \in Slots
  BY DEF NewOrders
<1>4. \A i \in DOMAIN orders : i \in Nat /\ orders[i] \in Orders
  BY DEF TypeOK, ExchangeTypeOK
<1>5. \A o \in Orders : o.slot \in Slots
  BY DEF Orders, Slots, BuySlots, SellSlots
<1> QED
  BY <1>2, <1>3, <1>4, <1>5

\* An order goes to the back of the queue, into a slot that is then taken.
LEMMA LivesQueue ==
  ASSUME TypeOK, SlotsInv, NEW m \in NewOrders, new_order_q' = Append(new_order_q, m),
         NEW h \in Slots, m.slot = h, m.id = clOrdID[h],
         \A s \in Slots : Placed(s)' <=> Placed(s) \/ s = h,
         \A s \in Slots : is_open[s] => is_open'[s],
         UNCHANGED <<clOrdID, orders, ws_orders>>
  PROVE  Lives'
<1>1. /\ Len(new_order_q) \in Nat /\ DOMAIN new_order_q = 1..Len(new_order_q)
      /\ DOMAIN new_order_q' = 1..Len(new_order_q) + 1
      /\ \A i \in DOMAIN new_order_q : new_order_q'[i] = new_order_q[i]
      /\ new_order_q'[Len(new_order_q) + 1] = m
  BY Appended DEF TypeOK, TradeTypeOK
<1>2. QueuedRight /\ LiveRight /\ Told /\ Somewhere
  BY DEF SlotsInv, Lives
<1>3. QueuedRight'
  <2> SUFFICES ASSUME NEW i \in DOMAIN new_order_q'
               PROVE  /\ new_order_q'[i].id = clOrdID'[new_order_q'[i].slot]
                      /\ Placed(new_order_q[i].slot)'
    BY DEF QueuedRight
  <2>1. CASE i \in DOMAIN new_order_q
    BY <1>1, <1>2, <2>1, SlotsOfOrders DEF QueuedRight
  <2>2. CASE i = Len(new_order_q) + 1
    BY <1>1, <2>2
  <2> QED
    BY <1>1, <2>1, <2>2
<1>4. LiveRight'
  BY <1>2, SlotsOfOrders DEF LiveRight, Live
<1>5. Told'
  BY <1>2, SlotsOfOrders DEF Told, Tells, Live, Terminal
<1>6. Somewhere'
  <2> SUFFICES ASSUME NEW s \in Slots, Placed(s)' PROVE Queued(s)' \/ AtExchange(s)'
    BY DEF Somewhere
  <2>1. CASE s = h
    BY <1>1, <2>1 DEF Queued
  <2>2. CASE Queued(s)
    <3>1. PICK i \in DOMAIN new_order_q : new_order_q[i].slot = s
      BY <2>2 DEF Queued
    <3> QED
      BY <1>1, <3>1 DEF Queued
  <2>3. CASE AtExchange(s)
    BY <2>3 DEF AtExchange, Live, Terminal
  <2> QED
    BY <1>2, <2>1, <2>2, <2>3 DEF Somewhere
<1> QED
  BY <1>3, <1>4, <1>5, <1>6 DEF Lives
-----------------------------------------------------------------------------
\* The two first offers, in turn.
LEMMA TwoOffers ==
  /\ Head(<<"bid", "ask">>) = "bid" /\ Head(<<"ask">>) = "ask"
  /\ Tail(<<"bid", "ask">>) = <<"ask">> /\ Tail(<<"ask">>) = <<>>
  /\ Len(<<"bid", "ask">>) = 2 /\ Len(<<"ask">>) = 1
  OBVIOUS

\* A step of the order book thread that touches no order, nor its own place in
\* the start.
LEMMA SlotsObsElse ==
  ASSUME SlotsInv, obs_pc' \in Running,
         UNCHANGED <<is_open, clOrdID, clOrdID_count, new_order_q, holder, orders, ws_orders,
                     ous_pc, ous_slot, ous_msg, rest_pc, fills, cancels>>
  PROVE  SlotsInv'
<1>1. Lives'
  BY LivesStay DEF SlotsInv
<1>2. HolderRight' /\ Answering'
  BY DEF SlotsInv, Threading, HolderRight, Answering
<1>3. FirstOrders' /\ Counted'
  BY DEF SlotsInv, Threading, FirstOrders, Counted, Starting, Running
<1>4. OwnIDs'
  BY DEF SlotsInv, Threading, OwnIDs, Placed, Running
<1> QED
  BY <1>1, <1>2, <1>3, <1>4 DEF SlotsInv, Threading

\* The order book thread places the first offers and amends open orders.
LEMMA SlotsObs ==
  ASSUME TypeOK, IDInv, SlotsInv, ObsStep(Obs)
  PROVE  SlotsInv'
<1>1. UNCHANGED <<orders, ws_orders, ous_pc, ous_slot, ous_msg, rest_pc, fills, cancels>>
  BY DEF ObsStep, ousVars, exchangeVars, restVars
<1>2. HolderRight /\ FirstOrders /\ Counted /\ OwnIDs /\ Answering /\ Lives
  BY DEF SlotsInv, Threading
<1>3. UNCHANGED <<is_open, clOrdID, new_order_q>> => Lives'
  BY <1>1, <1>2, LivesStay
<1>4. /\ clOrdID \in [Slots -> Nat] /\ clOrdID_count \in Nat /\ is_open \in [Slots -> BOOLEAN]
      /\ new_order_q \in Seq(NewOrders)
  BY DEF TypeOK, TradeTypeOK
<1>5. obs_pc \in Starting => ous_pc = "read" /\ ws_orders = <<>>
  BY DEF IDInv, Starts
<1>6. CASE InitTrading
  <2>1. UNCHANGED <<is_open, clOrdID, clOrdID_count, new_order_q, holder>>
        /\ obs_pc = "start" /\ obs_pc' = "first_store" /\ obs_todo' = <<"bid", "ask">>
    BY <1>6 DEF InitTrading, tradeVars, orderVars, queueVars
  <2>2. HolderRight' /\ Answering'
    BY <1>1, <1>2, <2>1 DEF HolderRight, Answering
  <2>3. FirstOrders' /\ Counted'
    BY <1>1, <1>2, <2>1, TwoOffers DEF FirstOrders, Counted, Slots
  <2>4. OwnIDs'
    BY <1>1, <1>2, <2>1 DEF OwnIDs, Placed
  <2> QED
    BY <1>3, <2>1, <2>2, <2>3, <2>4 DEF SlotsInv, Threading
<1>7. CASE StoreTarget
  <2>1. /\ UNCHANGED <<is_open, clOrdID, clOrdID_count, new_order_q, holder, obs_todo, obs_msg>>
        /\ obs_pc = "first_store" => obs_pc' \in {"first_store", "place"}
        /\ obs_pc # "first_store" => obs_pc' \in {"store", "diff"}
    BY <1>7 DEF StoreTarget, orderVars, queueVars
  <2>2. CASE obs_pc # "first_store"
    BY <1>1, <2>1, <2>2, SlotsObsElse DEF Running
  <2>3. CASE obs_pc = "first_store"
    <3>1. HolderRight' /\ Answering'
      BY <1>1, <1>2, <2>1 DEF HolderRight, Answering
    <3>2. FirstOrders' /\ Counted'
      BY <1>1, <1>2, <2>1, <2>3 DEF FirstOrders, Counted, Starting
    <3>3. OwnIDs'
      BY <1>1, <1>2, <2>1, <2>3 DEF OwnIDs, Placed
    <3> QED
      BY <1>3, <2>1, <3>1, <3>2, <3>3 DEF SlotsInv, Threading
  <2> QED
    BY <2>2, <2>3
<1>8. CASE CountOrder
  <2>1. /\ UNCHANGED <<is_open, clOrdID, new_order_q, holder, obs_todo, obs_msg>>
        /\ obs_pc = "place" /\ obs_pc' = "take_id" /\ clOrdID_count' = clOrdID_count + 1
    BY <1>8 DEF CountOrder, queueVars
  <2>2. HolderRight' /\ Answering'
    BY <1>1, <1>2, <2>1 DEF HolderRight, Answering
  <2>3. FirstOrders'
    BY <1>2, <2>1 DEF FirstOrders, Starting
  <2>4. Counted'
    <3>1. obs_todo \in {<<"bid", "ask">>, <<"ask">>} /\ ws_orders = <<>>
      BY <1>2, <1>5, <2>1 DEF FirstOrders, Starting
    <3>2. Len(ws_orders) = 0 /\ fills \in Nat /\ cancels \in Nat
      BY <3>1, EmptySeq DEF TypeOK, ExchangeTypeOK
    <3> QED
      BY <1>1, <1>2, <2>1, <3>1, <3>2, TwoOffers DEF Counted
  <2>5. OwnIDs'
    BY <1>1, <1>2, <1>4, <2>1 DEF OwnIDs, Placed
  <2> QED
    BY <1>3, <2>1, <2>2, <2>3, <2>4, <2>5 DEF SlotsInv, Threading
<1>9. CASE TakeID
  <2> DEFINE h == Head(obs_todo)
  <2>1. /\ UNCHANGED <<is_open, clOrdID_count, new_order_q, holder, obs_todo, obs_msg>>
        /\ obs_pc = "take_id" /\ obs_pc' = "new_msg"
        /\ clOrdID' = [clOrdID EXCEPT ![h] = clOrdID_count]
    BY <1>9 DEF TakeID, queueVars
  <2>2. h \in Slots /\ ~is_open[h]
    BY <1>2, <2>1, TwoOffers DEF FirstOrders, Starting, Slots
  <2>3. ous_pc = "read" /\ ws_orders = <<>>
    BY <1>5, <2>1 DEF Starting
  <2>4. ~Placed(h)
    BY <2>2, <2>3 DEF Placed
  <2> HIDE DEF h
  <2>5. \A s \in Slots : clOrdID'[s] = IF s = h THEN clOrdID_count ELSE clOrdID[s]
    BY <1>4, <2>1, <2>2
  <2>6. HolderRight' /\ Answering'
    BY <1>1, <1>2, <2>1, <2>3 DEF HolderRight, Answering
  <2>7. FirstOrders' /\ Counted'
    BY <1>1, <1>2, <2>1 DEF FirstOrders, Counted, Starting
  <2>8. OwnIDs'
    <3>1. \A s \in Slots : Placed(s)' <=> Placed(s)
      BY <1>1, <2>1 DEF Placed
    <3>2. \A s \in Slots : clOrdID[s] \in Nat /\ clOrdID[s] < clOrdID_count
      BY <1>2, <1>4, <2>1 DEF OwnIDs
    <3>3. \A s, t \in Slots : clOrdID'[s] = clOrdID'[t] => s = t \/ clOrdID'[s] = 0
      BY <1>2, <2>5, <3>2 DEF OwnIDs
    <3>4. \A s \in Slots : Placed(s)' => clOrdID'[s] # 0
      BY <1>2, <2>4, <2>5, <3>1 DEF OwnIDs
    <3>5. clOrdID'[h] # 0
      BY <1>4, <2>2, <2>5, <3>2
    <3> QED
      BY <1>1, <1>4, <2>1, <2>3, <2>5, <3>2, <3>3, <3>4, <3>5 DEF OwnIDs, h
  <2>9. Lives'
    <3>1. \A s \in Slots : Placed(s)' = Placed(s)
      BY <1>1, <2>1 DEF Placed
    <3>2. \A s \in Slots : Placed(s) => clOrdID'[s] = clOrdID[s]
      BY <2>4, <2>5
    <3>3. \A i \in DOMAIN new_order_q : new_order_q[i].slot \in Slots
      BY SlotsOfOrders
    <3>4. QueuedRight'
      BY <1>2, <2>1, <3>1, <3>2, <3>3 DEF Lives, QueuedRight
    <3>5. \A i \in DOMAIN orders : orders[i].slot \in Slots
      BY SlotsOfOrders
    <3>6. LiveRight'
      BY <1>1, <1>2, <2>1, <3>2, <3>5 DEF Lives, LiveRight, Live, Placed
    <3>7. Told'
      BY <1>1, <2>3, EmptySeq DEF Told
    <3>8. Somewhere'
      BY <1>1, <1>2, <2>1, <3>1, <3>2 DEF Lives, Somewhere, Queued, AtExchange, Live, Terminal
    <3> QED
      BY <3>4, <3>6, <3>7, <3>8 DEF Lives
  <2> QED
    BY <2>6, <2>7, <2>8, <2>9 DEF SlotsInv, Threading
<1>10. CASE BuildFirstOrder
  <2>1. /\ UNCHANGED <<is_open, clOrdID, clOrdID_count, new_order_q, holder, obs_todo>>
        /\ obs_pc = "new_msg" /\ obs_pc' = "new_push"
        /\ obs_msg' = NewOrderMsg(Head(obs_todo))
    BY <1>10 DEF BuildFirstOrder, tradeVars, orderVars, queueVars
  <2>2. HolderRight' /\ Answering'
    BY <1>1, <1>2, <2>1 DEF HolderRight, Answering
  <2>3. FirstOrders' /\ Counted'
    BY <1>1, <1>2, <2>1 DEF FirstOrders, Counted, Starting, NewOrderMsg
  <2>4. OwnIDs'
    BY <1>1, <1>2, <2>1 DEF OwnIDs, Placed
  <2> QED
    BY <1>3, <2>1, <2>2, <2>3, <2>4 DEF SlotsInv, Threading
<1>11. CASE PushFirstOrder
  <2> DEFINE h == Head(obs_todo)
  <2>1. /\ UNCHANGED <<clOrdID, clOrdID_count, holder>>
        /\ obs_pc = "new_push" /\ holder = "none"
        /\ new_order_q' = Append(new_order_q, obs_msg)
        /\ is_open' = [is_open EXCEPT ![obs_msg.slot] = TRUE]
        /\ obs_todo' = Tail(obs_todo)
        /\ obs_pc' = IF Len(obs_todo) > 1 THEN "place" ELSE "idle"
    BY <1>11 DEF PushFirstOrder, PushNewOrder, WithLock, NextSlot, Lock!Init
  <2>2. /\ obs_msg \in NewOrders /\ obs_msg.slot = h /\ obs_msg.id = clOrdID[h]
        /\ obs_todo \in {<<"bid", "ask">>, <<"ask">>} /\ h \in Slots /\ ~is_open[h]
    BY <1>2, <2>1, TwoOffers DEF FirstOrders, Starting, Slots, TypeOK, ObsTypeOK
  <2>3. ous_pc = "read" /\ ws_orders = <<>>
    BY <1>5, <2>1 DEF Starting
  <2>4. HolderRight' /\ Answering'
    BY <1>1, <1>2, <2>1, <2>3 DEF HolderRight, Answering
  <2>5. FirstOrders'
    <3>1. CASE obs_todo = <<"ask">>
      BY <2>1, <3>1, TwoOffers DEF FirstOrders, Starting
    <3>2. CASE obs_todo = <<"bid", "ask">>
      <4>1. h = "bid" /\ obs_todo' = <<"ask">> /\ Head(obs_todo') = "ask" /\ obs_pc' = "place"
        BY <2>1, <3>2, TwoOffers
      <4>2. ~is_open["ask"] /\ is_open'["ask"] = is_open["ask"]
        BY <1>2, <1>4, <2>1, <2>2, <4>1 DEF FirstOrders, Starting, Slots
      <4> QED
        BY <4>1, <4>2 DEF FirstOrders
    <3> QED
      BY <2>2, <3>1, <3>2
  <2>6. Counted'
    BY <1>1, <1>2, <2>1, <2>2, TwoOffers DEF Counted
  <2> HIDE DEF h
  <2>7. \A s \in Slots : Placed(s)' <=> Placed(s) \/ s = h
    BY <1>1, <1>4, <2>1, <2>2, <2>3 DEF Placed
  <2>8. OwnIDs'
    <3>1. clOrdID[h] # 0
      BY <1>2, <2>1 DEF OwnIDs, h
    <3> QED
      BY <1>1, <1>2, <2>1, <2>3, <2>7, <3>1 DEF OwnIDs
  <2>9. Lives'
    BY <1>1, <1>4, <2>1, <2>2, <2>3, <2>7, LivesQueue
  <2> QED
    BY <2>4, <2>5, <2>6, <2>8, <2>9 DEF SlotsInv, Threading
<1>12. CASE \E b \in Books : OnBestPrice(b) \/ OnEarlierEntry(b) \/ OnVolume(b)
  <2>1. UNCHANGED <<is_open, clOrdID, clOrdID_count, new_order_q, holder>>
    BY <1>12 DEF OnBestPrice, OnEarlierEntry, OnVolume, Handle, tradeVars, orderVars, queueVars
  <2>2. obs_pc' \in Running
    BY <1>12 DEF OnBestPrice, OnEarlierEntry, OnVolume, Handle, Running
  <2> QED
    BY <1>1, <2>1, <2>2, SlotsObsElse
<1>13. CASE CompareSlot \/ LoadOpen \/ BuildAmend \/ PushAmend
  <2>1. UNCHANGED <<is_open, clOrdID, clOrdID_count, new_order_q, holder>>
    BY <1>13 DEF CompareSlot, LoadOpen, BuildAmend, PushAmend, WithLock, tradeVars, orderVars,
                 queueVars
  <2>2. obs_pc' \in Running
    BY <1>13 DEF CompareSlot, LoadOpen, BuildAmend, PushAmend, NextSlot, Running
  <2> QED
    BY <1>1, <2>1, <2>2, SlotsObsElse
<1> QED
  BY <1>6, <1>7, <1>8, <1>9, <1>10, <1>11, <1>12, <1>13 DEF ObsStep, Obs

-----------------------------------------------------------------------------
\* The dispatch finds the slot of an identifier, if there is one.
LEMMA MatchesFind ==
  ASSUME NEW id
  PROVE  /\ \A s \in Matches(id) : s \in Slots /\ clOrdID[s] = id
         /\ Matches(id) = {} => \A s \in Slots : clOrdID[s] # id
<1> DEFINE order == <<"bid", "ask", "bid_posn", "ask_posn">>
           hits  == {i \in 1..4 : clOrdID[order[i]] = id}
           first == CHOOSE i \in hits : \A j \in hits : i <= j
<1>1. hits = {} => \A s \in Slots : clOrdID[s] # id
  <2>1. /\ order[1] = "bid" /\ order[2] = "ask" /\ order[3] = "bid_posn" /\ order[4] = "ask_posn"
        /\ {1, 2, 3, 4} \subseteq 1..4
    OBVIOUS
  <2> HIDE DEF order
  <2> QED
    BY <2>1 DEF Slots
<1>2. ASSUME hits # {} PROVE first \in hits /\ order[first] \in Slots
  <2>1. hits \subseteq 1..4 /\ hits # {}
    BY <1>2
  <2>2. \A i \in 1..4 : order[i] \in Slots
    BY DEF Slots
  <2> HIDE DEF hits, order
  <2>3. \E i \in hits : \A j \in hits : i <= j
    <3>1. CASE 1 \in hits
      BY <2>1, <3>1
    <3>2. CASE 1 \notin hits /\ 2 \in hits
      BY <2>1, <3>2
    <3>3. CASE 1 \notin hits /\ 2 \notin hits /\ 3 \in hits
      BY <2>1, <3>3
    <3>4. CASE 1 \notin hits /\ 2 \notin hits /\ 3 \notin hits
      <4>1. \A i \in hits : i \in 1..4 /\ i # 1 /\ i # 2 /\ i # 3
        BY <2>1, <3>4
      <4>2. \A i \in hits : i = 4
        BY <4>1
      <4>3. PICK i \in hits : TRUE
        BY <2>1
      <4>4. \A j \in hits : i <= j
        BY <4>2
      <4> QED
        BY <4>4
    <3> QED
      BY <3>1, <3>2, <3>3, <3>4
  <2> QED
    BY <2>1, <2>2, <2>3
<1>3. Matches(id) = IF hits = {} THEN {} ELSE {order[first]}
  BY DEF Matches
<1> HIDE DEF order, first
<1> QED
  BY <1>1, <1>2, <1>3

\* The identifiers of the slots are not those of other users.
LEMMA OwnIDsApart ==
  ASSUME TypeOK, SlotsInv, OthersApart, NEW s \in Slots
  PROVE  clOrdID[s] \notin OtherIDs
<1>1. /\ clOrdID[s] \in Nat /\ clOrdID_count \in Nat /\ fills \in Nat /\ cancels \in Nat
      /\ MaxFills \in Nat /\ MaxCancels \in Nat /\ Len(ws_orders) \in Nat
  BY ExchangeAssumption, LenProperties DEF TypeOK, TradeTypeOK, ExchangeTypeOK
<1>2. clOrdID[s] <= clOrdID_count
  BY DEF SlotsInv, Threading, OwnIDs
<1>3. /\ clOrdID_count + Len(ws_orders) <= 2 + fills + cancels
      /\ fills <= MaxFills /\ cancels <= MaxCancels
  BY DEF SlotsInv, Threading, Counted
<1>4. clOrdID[s] <= 2 + MaxFills + MaxCancels
  BY <1>1, <1>2, <1>3
<1> QED
  BY <1>1, <1>4, ExchangeAssumption DEF OthersApart

\* The message at the front, if its identifier is that of a slot, is about the
\* order of that slot.
LEMMA FrontMessage ==
  ASSUME TypeOK, IDInv, SlotsInv, OthersApart, ws_orders # <<>>, NEW m, m = Head(ws_orders),
         NEW s \in Slots, clOrdID[s] = m.id
  PROVE  /\ is_open[s] /\ m.id \in DOMAIN orders /\ orders[m.id].slot = s
         /\ Terminal(m) => /\ ~Live(m.id)
                           /\ \A l \in DOMAIN ws_orders : ws_orders[l].id = m.id => l = 1
<1>1. ws_orders \in Seq(OrderMsgs)
  BY DEF TypeOK
<1>2. /\ m = ws_orders[1] /\ 1 \in DOMAIN ws_orders /\ m \in OrderMsgs
      /\ DOMAIN ws_orders = 1..Len(ws_orders) /\ Len(ws_orders) \in Nat
  BY <1>1, FrontTaken, HeadTail
<1>3. m.id \notin OtherIDs
  BY OwnIDsApart
<1>4. Tells(1)
  BY <1>2, <1>3 DEF SlotsInv, Lives, Told
<1>5. /\ m.id \in DOMAIN orders
      /\ m.id = clOrdID[orders[m.id].slot] /\ is_open[orders[m.id].slot]
      /\ Terminal(m) => /\ ~Live(m.id)
                        /\ \A l \in DOMAIN ws_orders : ws_orders[l].id = m.id => l <= 1
  BY <1>2, <1>4 DEF Tells
<1>6. orders[m.id].slot = s
  <2>1. orders[m.id].slot \in Slots
    BY <1>5, SlotsOfOrders
  <2>2. clOrdID[orders[m.id].slot] # 0
    BY <1>5, <2>1 DEF SlotsInv, Threading, OwnIDs, Placed
  <2> QED
    BY <1>5, <2>1, <2>2 DEF SlotsInv, Threading, OwnIDs
<1> QED
  BY <1>2, <1>5, <1>6

\* A message is read: the flag goes down with the last one about an order, and
\* identifiers change only where the flag is down.
LEMMA LivesRead ==
  ASSUME TypeOK, IDInv, SlotsInv, OthersApart, NEW m, m = Head(ws_orders), ws_orders # <<>>,
         ws_orders' = Tail(ws_orders), ous_pc = "read",
         \A t \in Slots : is_open'[t] <=> is_open[t] /\ ~(clOrdID[t] = m.id /\ Terminal(m)),
         \A t \in Slots : is_open'[t] => clOrdID'[t] = clOrdID[t],
         ous_pc' # "raise", UNCHANGED <<new_order_q, orders>>
  PROVE  Lives'
<1>1. \A t \in Slots : clOrdID[t] = m.id =>
         /\ m.id \in DOMAIN orders
         /\ Terminal(m) => /\ ~Live(m.id)
                           /\ \A l \in DOMAIN ws_orders : ws_orders[l].id = m.id => l = 1
  BY FrontMessage
<1>2. ws_orders \in Seq(OrderMsgs) /\ m = ws_orders[1]
  BY FrontTaken DEF TypeOK
<1>3. /\ \A i \in DOMAIN ws_orders' : /\ i \in Nat \ {0} /\ i + 1 \in DOMAIN ws_orders
                                      /\ ws_orders'[i] = ws_orders[i + 1]
      /\ \A i \in DOMAIN ws_orders :
            i # 1 => i - 1 \in DOMAIN ws_orders' /\ ws_orders'[i - 1] = ws_orders[i]
  BY <1>2, FrontTaken
<1>4. \A t \in Slots : (Placed(t) <=> is_open[t]) /\ (Placed(t)' <=> is_open'[t])
  BY <1>2 DEF Placed
<1>5. QueuedRight'
  <2> SUFFICES ASSUME NEW i \in DOMAIN new_order_q
               PROVE  /\ new_order_q[i].id = clOrdID'[new_order_q[i].slot]
                      /\ Placed(new_order_q[i].slot)'
    BY DEF QueuedRight
  <2>1. new_order_q[i].slot \in Slots
    BY SlotsOfOrders
  <2>2. new_order_q[i].id = clOrdID[new_order_q[i].slot] /\ is_open[new_order_q[i].slot]
    BY <1>4, <2>1 DEF SlotsInv, Lives, QueuedRight
  <2>3. clOrdID[new_order_q[i].slot] # m.id
    BY <1>1, <2>1, <2>2 DEF IDInv, FreshIDs
  <2> QED
    BY <1>4, <2>1, <2>2, <2>3
<1>6. LiveRight'
  <2> SUFFICES ASSUME NEW i \in DOMAIN orders, Live(i)
               PROVE  i = clOrdID'[orders[i].slot] /\ is_open'[orders[i].slot]
    BY DEF LiveRight, Live
  <2>1. orders[i].slot \in Slots
    BY SlotsOfOrders
  <2>2. i = clOrdID[orders[i].slot] /\ is_open[orders[i].slot]
    BY DEF SlotsInv, Lives, LiveRight
  <2>3. ~(clOrdID[orders[i].slot] = m.id /\ Terminal(m))
    BY <1>1, <2>1, <2>2
  <2> QED
    BY <2>1, <2>2, <2>3
<1>7. Told'
  <2> SUFFICES ASSUME NEW k \in DOMAIN ws_orders', ws_orders'[k].id \notin OtherIDs
               PROVE  Tells(k)'
    BY DEF Told
  <2> DEFINE x == ws_orders'[k]
  <2>1. k \in Nat \ {0} /\ k + 1 \in DOMAIN ws_orders /\ x = ws_orders[k + 1]
    BY <1>3
  <2>2. Tells(k + 1)
    BY <2>1 DEF SlotsInv, Lives, Told
  <2>3. /\ x.id \in DOMAIN orders
        /\ x.id = clOrdID[orders[x.id].slot] /\ is_open[orders[x.id].slot]
        /\ Terminal(x) => /\ ~Live(x.id)
                          /\ \A l \in DOMAIN ws_orders : ws_orders[l].id = x.id => l <= k + 1
    BY <2>1, <2>2 DEF Tells
  <2>4. orders[x.id].slot \in Slots
    BY <2>3, SlotsOfOrders
  <2>5. ~(clOrdID[orders[x.id].slot] = m.id /\ Terminal(m))
    <3> SUFFICES ASSUME x.id = m.id, Terminal(m) PROVE FALSE
      BY <2>3
    <3> QED
      BY <1>1, <2>1, <2>3, <2>4
  <2>6. x.id = clOrdID'[orders[x.id].slot] /\ is_open'[orders[x.id].slot]
    BY <2>3, <2>4, <2>5
  <2>7. Terminal(x) => \A l \in DOMAIN ws_orders' : ws_orders'[l].id = x.id => l <= k
    <3> SUFFICES ASSUME Terminal(x), NEW l \in DOMAIN ws_orders', ws_orders'[l].id = x.id
                 PROVE  l <= k
      OBVIOUS
    <3>1. l \in Nat /\ l + 1 \in DOMAIN ws_orders /\ ws_orders[l + 1].id = x.id
      BY <1>3
    <3>2. l + 1 <= k + 1
      BY <2>3, <3>1
    <3> QED
      BY <2>1, <3>1, <3>2
  <2> QED
    BY <2>3, <2>6, <2>7 DEF Tells, Live, Terminal
<1>8. Somewhere'
  <2> SUFFICES ASSUME NEW t \in Slots, is_open'[t] PROVE Queued(t)' \/ AtExchange(t)'
    BY <1>4 DEF Somewhere
  <2>1. is_open[t] /\ ~(clOrdID[t] = m.id /\ Terminal(m)) /\ clOrdID'[t] = clOrdID[t]
    OBVIOUS
  <2>2. CASE Queued(t)
    BY <2>2 DEF Queued
  <2>3. CASE AtExchange(t)
    <3>1. CASE Live(clOrdID[t])
      BY <2>1, <2>3, <3>1 DEF AtExchange, Live
    <3>2. CASE \E k \in DOMAIN ws_orders : ws_orders[k].id = clOrdID[t] /\ Terminal(ws_orders[k])
      <4>1. PICK k \in DOMAIN ws_orders : ws_orders[k].id = clOrdID[t] /\ Terminal(ws_orders[k])
        BY <3>2
      <4>2. k # 1
        BY <1>2, <2>1, <4>1
      <4>3. k - 1 \in DOMAIN ws_orders' /\ ws_orders'[k - 1] = ws_orders[k]
        BY <1>3, <4>2
      <4> QED
        BY <2>1, <2>3, <4>1, <4>3 DEF AtExchange, Terminal
    <3> QED
      BY <2>3, <3>1, <3>2 DEF AtExchange
  <2> QED
    BY <1>4, <2>1, <2>2, <2>3 DEF SlotsInv, Lives, Somewhere
<1> QED
  BY <1>5, <1>6, <1>7, <1>8 DEF Lives

\* What a handler's first step leaves to the bookkeeping: nothing was pending,
\* and at most one identifier is drawn, for the slot that waits for it.
LEMMA ThreadingRead ==
  ASSUME TypeOK, SlotsInv, ous_pc = "read", obs_pc \notin Starting, ws_orders # <<>>,
         ws_orders' = Tail(ws_orders), ous_slot' \in Slots,
         UNCHANGED <<obs_pc, obs_todo, obs_msg, rest_pc, holder, fills, cancels>>,
         \A t \in Slots : is_open'[t] => is_open[t],
         \/ /\ ous_pc' \in {"read", "push_upd"}
            /\ UNCHANGED <<clOrdID, clOrdID_count>>
         \/ /\ ous_pc' = "msg" /\ GiveID(ous_slot') /\ ~is_open'[ous_slot']
  PROVE  Threading'
<1>1. HolderRight /\ FirstOrders /\ Counted /\ OwnIDs /\ Answering
  BY DEF SlotsInv, Threading
<1>2. HolderRight' /\ FirstOrders' /\ Answering'
  BY <1>1 DEF HolderRight, FirstOrders, Answering, Starting
<1>3. /\ clOrdID \in [Slots -> Nat] /\ clOrdID_count \in Nat /\ fills \in Nat /\ cancels \in Nat
      /\ ws_orders \in Seq(OrderMsgs)
  BY DEF TypeOK, TradeTypeOK, ExchangeTypeOK
<1>4. Len(ws_orders') = Len(ws_orders) - 1 /\ Len(ws_orders) \in Nat
  BY <1>3, FrontTaken
<1>5. \A t \in Slots : Placed(t)' => Placed(t) /\ is_open'[t]
  BY DEF Placed
<1>6. CASE UNCHANGED <<clOrdID, clOrdID_count>> /\ ous_pc' # "msg"
  <2>1. Counted'
    BY <1>1, <1>3, <1>4, <1>6 DEF Counted, Starting
  <2>2. OwnIDs'
    BY <1>1, <1>5, <1>6 DEF OwnIDs, Starting
  <2> QED
    BY <1>2, <2>1, <2>2 DEF Threading
<1>7. CASE GiveID(ous_slot') /\ ~is_open'[ous_slot']
  <2>1. PICK g \in Slots : g = ous_slot'
    OBVIOUS
  <2>2. /\ clOrdID_count' = clOrdID_count + 1
        /\ \A t \in Slots : clOrdID'[t] = IF t = g THEN clOrdID_count + 1 ELSE clOrdID[t]
    BY <1>3, <1>7, <2>1 DEF GiveID
  <2>3. Counted'
    BY <1>1, <1>3, <1>4, <2>2 DEF Counted, Starting
  <2>4. \A t \in Slots : clOrdID[t] \in Nat /\ clOrdID[t] <= clOrdID_count
    BY <1>1, <1>3 DEF OwnIDs
  <2>5. OwnIDs'
    <3>1. \A s, t \in Slots : clOrdID'[s] = clOrdID'[t] => s = t \/ clOrdID'[s] = 0
      BY <1>1, <1>3, <2>2, <2>4 DEF OwnIDs
    <3>2. \A t \in Slots : Placed(t)' => clOrdID'[t] # 0
      BY <1>1, <1>5, <1>7, <2>1, <2>2 DEF OwnIDs
    <3>3. \A t \in Slots : clOrdID'[t] <= clOrdID_count'
      BY <1>3, <2>2, <2>4
    <3>4. clOrdID'[ous_slot'] # 0
      BY <1>3, <2>1, <2>2
    <3> QED
      BY <3>1, <3>2, <3>3, <3>4 DEF OwnIDs, Starting
  <2> QED
    BY <1>2, <2>3, <2>5 DEF Threading
<1> QED
  BY <1>6, <1>7

\* The order update thread answers messages one by one.
LEMMA SlotsOus ==
  ASSUME TypeOK, IDInv, SlotsInv, OthersApart, OusStep(Ous)
  PROVE  SlotsInv'
<1>1. UNCHANGED <<orders, obs_pc, obs_todo, obs_msg, rest_pc, fills, cancels>>
  BY DEF OusStep, obsVars, exchangeVars, restVars
<1>2. HolderRight /\ FirstOrders /\ Counted /\ OwnIDs /\ Answering /\ Lives
  BY DEF SlotsInv, Threading
<1>3. /\ clOrdID \in [Slots -> Nat] /\ clOrdID_count \in Nat /\ is_open \in [Slots -> BOOLEAN]
      /\ new_order_q \in Seq(NewOrders) /\ ous_slot \in Slots
  BY DEF TypeOK, TradeTypeOK, OusTypeOK
<1>4. obs_pc \notin Starting
  BY DEF OusStep, Ous, OusWork, OusRead, OusLockedWork, Ignore, BuildNewOrder, RaiseOpen,
         PushOpposite, PushVolume, IDInv, Starts
<1>5. CASE Ignore
  <2>1. /\ ous_pc = "read" /\ ws_orders # <<>> /\ ws_orders' = Tail(ws_orders)
        /\ Matches(Head(ws_orders).id) = {}
        /\ UNCHANGED <<is_open, clOrdID, clOrdID_count, new_order_q, holder, ous_pc, ous_slot>>
    BY <1>5 DEF Ignore, ousVars, tradeVars, orderVars, queueVars
  <2>2. \A t \in Slots : clOrdID[t] # Head(ws_orders).id
    BY <2>1, MatchesFind
  <2>3. Lives'
    BY <1>1, <2>1, <2>2, LivesRead
  <2>4. Threading'
    BY <1>1, <1>3, <1>4, <2>1, ThreadingRead
  <2> QED
    BY <2>3, <2>4 DEF SlotsInv
<1>6. ASSUME NEW s \in Slots, NEW m, m = Head(ws_orders), ws_orders # <<>>, OnFill(s, m)
      PROVE  SlotsInv'
  <2>1. /\ ous_pc = "read" /\ ws_orders' = Tail(ws_orders) /\ clOrdID[s] = m.id
    BY <1>6, MatchesFind DEF OnFill, Receive
  <2>2. PICK t \in Slots : t = Opposite[s]
    BY DEF Opposite, Slots
  <2>3. /\ UNCHANGED <<new_order_q, holder>> /\ m.status \notin Ended
        /\ is_open' = [is_open EXCEPT ![s] = @ /\ m.leavesQty # 0]
        /\ ous_slot' = t
        /\ \/ /\ ous_pc' = "push_upd" /\ UNCHANGED <<clOrdID, clOrdID_count>>
           \/ /\ ~is_open[t] /\ ous_pc' = "msg" /\ GiveID(t)
    BY <1>6, <2>2 DEF OnFill, OpenAfterFill, queueVars, Executed, Ended
  <2>4. \A u \in Slots : clOrdID[u] = m.id => u = s
    <3>1. is_open[s]
      BY <1>6, <2>1, FrontMessage
    <3>2. clOrdID[s] # 0
      BY <1>2, <3>1 DEF OwnIDs, Placed
    <3> QED
      BY <1>2, <2>1, <3>2 DEF OwnIDs
  <2>5. \A u \in Slots : is_open'[u] <=> is_open[u] /\ ~(clOrdID[u] = m.id /\ Terminal(m))
    BY <1>3, <2>1, <2>3, <2>4 DEF Terminal
  <2>6. \A u \in Slots : is_open'[u] => clOrdID'[u] = clOrdID[u]
    BY <1>3, <2>3, <2>5 DEF GiveID
  <2>7. Lives'
    BY <1>1, <1>6, <2>1, <2>3, <2>5, <2>6, LivesRead
  <2>8. Threading'
    BY <1>1, <1>4, <1>6, <2>1, <2>3, <2>5, ThreadingRead
  <2> QED
    BY <2>7, <2>8 DEF SlotsInv
<1>7. ASSUME NEW s \in Slots, NEW m, m = Head(ws_orders), ws_orders # <<>>, OnCancelled(s, m)
      PROVE  SlotsInv'
  <2>1. /\ ous_pc = "read" /\ ws_orders' = Tail(ws_orders) /\ clOrdID[s] = m.id
    BY <1>7, MatchesFind DEF OnCancelled, Receive
  <2>2. /\ UNCHANGED <<new_order_q, holder>> /\ m.status \in Ended
        /\ is_open' = [is_open EXCEPT ![s] = FALSE]
        /\ ous_slot' = s /\ ous_pc' = "msg" /\ GiveID(s)
    BY <1>7 DEF OnCancelled, queueVars
  <2>3. \A u \in Slots : clOrdID[u] = m.id => u = s
    <3>1. is_open[s]
      BY <1>7, <2>1, FrontMessage
    <3>2. clOrdID[s] # 0
      BY <1>2, <3>1 DEF OwnIDs, Placed
    <3> QED
      BY <1>2, <2>1, <3>2 DEF OwnIDs
  <2>4. \A u \in Slots : is_open'[u] <=> is_open[u] /\ ~(clOrdID[u] = m.id /\ Terminal(m))
    BY <1>3, <2>1, <2>2, <2>3 DEF Terminal
  <2>5. \A u \in Slots : is_open'[u] => clOrdID'[u] = clOrdID[u]
    BY <1>3, <2>2 DEF GiveID
  <2>6. Lives'
    BY <1>1, <1>7, <2>1, <2>2, <2>4, <2>5, LivesRead
  <2>7. Threading'
    BY <1>1, <1>3, <1>4, <1>7, <2>1, <2>2, <2>4, ThreadingRead
  <2> QED
    BY <2>6, <2>7 DEF SlotsInv
<1>8. CASE BuildNewOrder
  <2>1. /\ UNCHANGED <<is_open, clOrdID, clOrdID_count, new_order_q, holder, ws_orders, ous_slot>>
        /\ ous_pc = "msg" /\ ous_pc' = "push_new" /\ ous_msg' = NewOrderMsg(ous_slot)
    BY <1>8 DEF BuildNewOrder, orderVars, queueVars
  <2>2. Threading'
    BY <1>1, <1>2, <1>4, <2>1
    DEF Threading, HolderRight, FirstOrders, Counted, OwnIDs, Answering, Placed, Starting,
        NewOrderMsg
  <2>3. Lives'
    BY <1>1, <1>2, <2>1
    DEF Lives, QueuedRight, LiveRight, Told, Tells, Somewhere, Queued, AtExchange, Placed,
        Live, Terminal
  <2> QED
    BY <2>2, <2>3 DEF SlotsInv
<1>9. CASE PushOpposite
  <2>1. /\ UNCHANGED <<is_open, clOrdID, clOrdID_count, ws_orders, ous_slot, ous_msg>>
        /\ ous_pc = "push_new" /\ ous_pc' = "raise" /\ holder = "none" /\ holder' = "ous"
        /\ new_order_q' = Append(new_order_q, ous_msg)
    BY <1>9 DEF PushOpposite, Lock!Acquire, orderVars
  <2>2. /\ ous_msg \in NewOrders /\ ous_msg.slot = ous_slot /\ ous_msg.id = clOrdID[ous_slot]
        /\ ~is_open[ous_slot] /\ clOrdID[ous_slot] # 0
    BY <1>2, <2>1 DEF Answering, OwnIDs, TypeOK, OusTypeOK
  <2>3. \A s \in Slots : Placed(s)' <=> Placed(s) \/ s = ous_slot
    BY <1>3, <2>1 DEF Placed
  <2>4. Threading'
    <3>1. HolderRight' /\ FirstOrders' /\ Answering'
      BY <1>1, <1>2, <1>4, <2>1, <2>2 DEF HolderRight, FirstOrders, Answering, Starting
    <3>2. Counted' /\ OwnIDs'
      BY <1>1, <1>2, <1>4, <2>1, <2>2, <2>3 DEF Counted, OwnIDs, Starting
    <3> QED
      BY <3>1, <3>2 DEF Threading
  <2>5. Lives'
    BY <1>1, <1>3, <2>1, <2>2, <2>3, LivesQueue
  <2> QED
    BY <2>4, <2>5 DEF SlotsInv
<1>10. CASE RaiseOpen
  <2>1. /\ UNCHANGED <<clOrdID, clOrdID_count, new_order_q, ws_orders, ous_slot>>
        /\ ous_pc = "raise" /\ ous_pc' = "read" /\ holder = "ous" /\ holder' = "none"
        /\ is_open' = [is_open EXCEPT ![ous_slot] = TRUE]
    BY <1>10 DEF RaiseOpen, Lock!Release, queueVars
  <2>2. \A s \in Slots : Placed(s)' <=> Placed(s)
    BY <1>3, <2>1 DEF Placed
  <2>3. \A s \in Slots : is_open[s] => is_open'[s]
    BY <1>3, <2>1
  <2>4. Threading'
    <3>1. HolderRight' /\ FirstOrders' /\ Answering'
      BY <1>1, <1>2, <1>4, <2>1 DEF HolderRight, FirstOrders, Answering, Starting
    <3>2. Counted' /\ OwnIDs'
      BY <1>1, <1>2, <1>4, <2>1, <2>2 DEF Counted, OwnIDs, Starting
    <3> QED
      BY <3>1, <3>2 DEF Threading
  <2>5. Lives'
    <3>1. QueuedRight'
      BY <1>2, <2>1, <2>2, SlotsOfOrders DEF Lives, QueuedRight
    <3>2. LiveRight'
      BY <1>1, <1>2, <2>1, <2>3, SlotsOfOrders DEF Lives, LiveRight, Live
    <3>3. Told'
      BY <1>1, <1>2, <2>1, <2>3, SlotsOfOrders DEF Lives, Told, Tells, Live, Terminal
    <3>4. Somewhere'
      BY <1>1, <1>2, <2>1, <2>2 DEF Lives, Somewhere, Queued, AtExchange, Live, Terminal
    <3> QED
      BY <3>1, <3>2, <3>3, <3>4 DEF Lives
  <2> QED
    BY <2>4, <2>5 DEF SlotsInv
<1>11. CASE PushVolume
  <2>1. /\ UNCHANGED <<is_open, clOrdID, clOrdID_count, new_order_q, holder, ws_orders, ous_slot>>
        /\ ous_pc = "push_upd" /\ ous_pc' = "read"
    BY <1>11 DEF PushVolume, WithLock, orderVars
  <2>2. Threading'
    BY <1>1, <1>2, <1>4, <2>1
    DEF Threading, HolderRight, FirstOrders, Counted, OwnIDs, Answering, Placed, Starting
  <2>3. Lives'
    BY <1>1, <1>2, <2>1
    DEF Lives, QueuedRight, LiveRight, Told, Tells, Somewhere, Queued, AtExchange, Placed,
        Live, Terminal
  <2> QED
    BY <2>2, <2>3 DEF SlotsInv
<1> QED
  BY <1>5, <1>6, <1>7, <1>8, <1>9, <1>10, <1>11
  DEF OusStep, Ous, OusWork, OusRead, OusLockedWork
-----------------------------------------------------------------------------
\* The order at the front of the queue becomes live; an amendment leaves an
\* order what it is.
LEMMA SlotsSend ==
  ASSUME TypeOK, IDInv, SlotsInv, ~Losses, SendStep
  PROVE  SlotsInv'
<1>1. UNCHANGED <<obs_pc, obs_todo, obs_msg, ws_orders, ous_pc, ous_slot, ous_msg, is_open,
                  clOrdID, clOrdID_count, holder, fills, cancels>>
  BY DEF SendStep, SendNew, SendUpd, obsVars, ousVars, restUnused, orderVars
<1>2. HolderRight /\ FirstOrders /\ Counted /\ OwnIDs /\ Answering
      /\ QueuedRight /\ LiveRight /\ Told /\ Somewhere
  BY DEF SlotsInv, Threading, Lives
<1>3. rest_pc \in {"new", "upd"} /\ rest_pc' \in {"upd", "unlock"}
  BY DEF SendStep, SendNew, SendUpd
<1>4. \A s \in Slots : (Placed(s) <=> is_open[s]) /\ (Placed(s)' <=> Placed(s))
  BY <1>1, <1>2, <1>3 DEF HolderRight, Placed
<1>5. Threading'
  BY <1>1, <1>2, <1>3, <1>4
  DEF Threading, HolderRight, FirstOrders, Counted, OwnIDs, Answering
<1>6. CASE SendNew /\ Post(Head(new_order_q))
  <2>1. PICK m : m = Head(new_order_q)
    OBVIOUS
  <2>2. new_order_q \in Seq(NewOrders) /\ new_order_q # <<>> /\ new_order_q' = Tail(new_order_q)
    BY <1>6 DEF SendNew, TypeOK, TradeTypeOK
  <2>3. /\ m = new_order_q[1] /\ 1 \in DOMAIN new_order_q
        /\ \A i \in DOMAIN new_order_q' : /\ i + 1 \in DOMAIN new_order_q
                                          /\ new_order_q'[i] = new_order_q[i + 1]
        /\ \A i \in DOMAIN new_order_q : i # 1 => /\ i - 1 \in DOMAIN new_order_q'
                                                  /\ new_order_q'[i - 1] = new_order_q[i]
    BY <2>1, <2>2, FrontTaken
  <2>4. /\ m \in NewOrders /\ m.slot \in Slots /\ m.id \notin DOMAIN orders
        /\ m.id = clOrdID[m.slot] /\ is_open[m.slot]
    BY <1>2, <1>4, <2>3, SlotsOfOrders DEF QueuedRight, IDInv, FreshIDs
  <2>5. /\ DOMAIN orders' = DOMAIN orders \cup {m.id}
        /\ \A i \in DOMAIN orders : orders'[i] = orders[i]
        /\ orders'[m.id].slot = m.slot /\ orders'[m.id].status = "live"
    <3>1. orders' = [i \in DOMAIN orders \cup {m.id} |->
                       IF i = m.id
                       THEN [slot |-> m.slot, price |-> m.price, qty |-> m.vol,
                             cum |-> 0, status |-> "live"]
                       ELSE orders[i]]
      BY <1>6, <2>1, <2>4 DEF Post
    <3> QED
      BY <2>4, <3>1
  <2>6. QueuedRight'
    BY <1>1, <1>2, <1>4, <2>3, SlotsOfOrders DEF QueuedRight
  <2>7. LiveRight'
    BY <1>1, <1>2, <2>4, <2>5 DEF LiveRight, Live
  <2>8. Told'
    BY <1>1, <1>2, <2>5 DEF Told, Tells, Live, Terminal
  <2>9. Somewhere'
    <3> SUFFICES ASSUME NEW s \in Slots, Placed(s) PROVE Queued(s)' \/ AtExchange(s)'
      BY <1>4 DEF Somewhere
    <3>1. CASE s = m.slot
      BY <1>1, <2>4, <2>5, <3>1 DEF AtExchange, Live
    <3>2. CASE s # m.slot /\ Queued(s)
      <4>1. PICK i \in DOMAIN new_order_q : new_order_q[i].slot = s
        BY <3>2 DEF Queued
      <4> QED
        BY <2>3, <3>2, <4>1 DEF Queued
    <3>3. CASE AtExchange(s)
      BY <1>1, <2>5, <3>3 DEF AtExchange, Live, Terminal
    <3> QED
      BY <1>2, <3>1, <3>2, <3>3 DEF Somewhere
  <2> QED
    BY <1>5, <2>6, <2>7, <2>8, <2>9 DEF SlotsInv, Lives
<1>7. CASE SendUpd /\ Put(Head(upd_order_q))
  <2>1. new_order_q' = new_order_q
    BY <1>7 DEF SendUpd
  <2>2. /\ DOMAIN orders' = DOMAIN orders
        /\ \A i \in DOMAIN orders : /\ orders'[i].slot = orders[i].slot
                                    /\ orders'[i].status = orders[i].status
    BY <1>7, SlotsOfOrders DEF Put, Orders
  <2>3. Lives'
    BY <1>1, <1>2, <1>4, <2>1, <2>2, SlotsOfOrders
    DEF Lives, QueuedRight, LiveRight, Told, Tells, Somewhere, Queued, AtExchange, Live, Terminal
  <2> QED
    BY <1>5, <2>3 DEF SlotsInv
<1> QED
  BY <1>6, <1>7 DEF SendStep

\* A message goes to the back of the channel: it is the last one about an order
\* exactly when the order is dead from then on.
LEMMA LivesTell ==
  ASSUME TypeOK, SlotsInv, NEW i \in DOMAIN orders, Live(i), NEW m \in OrderMsgs, m.id = i,
         ws_orders' = Append(ws_orders, m),
         DOMAIN orders' = DOMAIN orders,
         \A j \in DOMAIN orders : /\ orders'[j].slot = orders[j].slot
                                  /\ j # i => orders'[j].status = orders[j].status,
         Terminal(m) <=> orders'[i].status # "live",
         UNCHANGED <<is_open, clOrdID, new_order_q, ous_pc, ous_slot>>
  PROVE  Lives'
<1> DEFINE n == Len(ws_orders)
<1>1. /\ n \in Nat /\ DOMAIN ws_orders = 1..n /\ DOMAIN ws_orders' = 1..n + 1
      /\ \A k \in DOMAIN ws_orders : ws_orders'[k] = ws_orders[k]
      /\ ws_orders'[n + 1] = m
  BY Appended DEF TypeOK
<1> HIDE DEF n
<1>2. QueuedRight /\ LiveRight /\ Told /\ Somewhere
  BY DEF SlotsInv, Lives
<1>3. QueuedRight'
  BY <1>2 DEF QueuedRight, Placed
<1>4. LiveRight'
  BY <1>2, SlotsOfOrders DEF LiveRight, Live
<1>5. i = clOrdID[orders[i].slot] /\ is_open[orders[i].slot] /\ orders[i].slot \in Slots
  BY <1>2, SlotsOfOrders DEF LiveRight
<1>6. Told'
  <2> SUFFICES ASSUME NEW k \in DOMAIN ws_orders', ws_orders'[k].id \notin OtherIDs
               PROVE  Tells(k)'
    BY DEF Told
  <2>1. CASE k = n + 1
    BY <1>1, <1>5, <2>1 DEF Tells, Terminal, Live
  <2>2. CASE k \in DOMAIN ws_orders
    <3>1. Tells(k) /\ ws_orders'[k] = ws_orders[k]
      BY <1>1, <1>2, <2>2 DEF Told
    <3>2. CASE ~Terminal(ws_orders[k])
      BY <3>1, <3>2, SlotsOfOrders DEF Tells, Terminal
    <3>3. CASE Terminal(ws_orders[k])
      <4>1. ws_orders[k].id # i /\ ~Live(ws_orders[k].id)
        BY <3>1, <3>3 DEF Tells
      <4>2. \A l \in DOMAIN ws_orders' : ws_orders'[l].id = ws_orders[k].id => l <= k
        BY <1>1, <3>1, <3>3, <4>1 DEF Tells
      <4> QED
        BY <3>1, <4>1, <4>2, SlotsOfOrders DEF Tells, Live
    <3> QED
      BY <3>2, <3>3
  <2> QED
    BY <1>1, <2>1, <2>2
<1>7. Somewhere'
  <2> SUFFICES ASSUME NEW s \in Slots, Placed(s) PROVE Queued(s)' \/ AtExchange(s)'
    BY DEF Somewhere, Placed
  <2>1. CASE Queued(s)
    BY <2>1 DEF Queued
  <2>2. CASE AtExchange(s)
    <3>1. CASE Live(clOrdID[s])
      <4>1. CASE orders'[clOrdID[s]].status = "live"
        BY <2>2, <4>1 DEF AtExchange, Live
      <4>2. CASE orders'[clOrdID[s]].status # "live"
        <5>1. clOrdID[s] = i /\ Terminal(m)
          BY <2>2, <3>1, <4>2 DEF AtExchange, Live
        <5>2. n + 1 \in DOMAIN ws_orders'
          BY <1>1
        <5> QED
          BY <1>1, <2>2, <5>1, <5>2 DEF AtExchange, Terminal
      <4> QED
        BY <4>1, <4>2
    <3>2. CASE \E k \in DOMAIN ws_orders : ws_orders[k].id = clOrdID[s] /\ Terminal(ws_orders[k])
      <4>1. PICK k \in DOMAIN ws_orders : ws_orders[k].id = clOrdID[s] /\ Terminal(ws_orders[k])
        BY <3>2
      <4>2. k \in DOMAIN ws_orders' /\ ws_orders'[k] = ws_orders[k]
        BY <1>1
      <4> QED
        BY <2>2, <4>1, <4>2 DEF AtExchange, Terminal
    <3> QED
      BY <2>2, <3>1, <3>2 DEF AtExchange
  <2> QED
    BY <1>2, <2>1, <2>2 DEF Somewhere
<1> QED
  BY <1>3, <1>4, <1>6, <1>7 DEF Lives

\* Executions and cancellations, of the program's orders and of others.
LEMMA SlotsExchange ==
  ASSUME QuietStart, TypeOK, SlotsInv, ExchangeStep
  PROVE  SlotsInv'
<1>1. UNCHANGED <<obs_pc, obs_todo, obs_msg, ous_pc, ous_slot, ous_msg, is_open,
                  clOrdID, clOrdID_count, new_order_q, holder, rest_pc>>
  BY DEF ExchangeStep, tradeVars, orderVars, queueVars, obsVars, ousVars, restVars
<1>2. obs_pc \notin Starting
  BY DEF ExchangeStep, Starting, Running
<1>3. HolderRight /\ FirstOrders /\ Counted /\ OwnIDs /\ Answering
  BY DEF SlotsInv, Threading
<1>4. HolderRight' /\ FirstOrders' /\ OwnIDs' /\ Answering'
  BY <1>1, <1>3 DEF HolderRight, FirstOrders, OwnIDs, Answering, Placed
<1>5. /\ ws_orders \in Seq(OrderMsgs) /\ Len(ws_orders) \in Nat /\ clOrdID_count \in Nat
      /\ fills \in Nat /\ cancels \in Nat /\ MaxFills \in Nat /\ MaxCancels \in Nat
  BY ExchangeAssumption, LenProperties DEF TypeOK, TradeTypeOK, ExchangeTypeOK
<1>6. ASSUME NEW m \in OrderMsgs, ws_orders' = Append(ws_orders, m),
             \/ fills < MaxFills /\ fills' = fills + 1 /\ cancels' = cancels
             \/ cancels < MaxCancels /\ cancels' = cancels + 1 /\ fills' = fills
      PROVE  Threading'
  <2>1. Len(ws_orders') = Len(ws_orders) + 1
    BY <1>5, <1>6, Appended
  <2>2. Counted'
    BY <1>1, <1>2, <1>3, <1>5, <1>6, <2>1 DEF Counted, Starting
  <2> QED
    BY <1>4, <2>2 DEF Threading
<1>7. ASSUME NEW i \in DOMAIN orders, NEW q \in 1..Leaves(i), Fill(i, q) PROVE SlotsInv'
  <2>1. /\ orders[i] \in Orders /\ i \in Nat /\ Live(i)
        /\ orders[i].cum \in Nat /\ orders[i].qty \in Nat
    BY <1>7, SlotsOfOrders DEF Fill, Orders
  <2>2. PICK left \in Nat : left = Leaves(i) - q
    BY <2>1 DEF Leaves
  <2>3. PICK cum \in Nat : cum = orders[i].cum + q
    BY <2>1, <2>2 DEF Leaves
  <2>4. PICK m \in OrderMsgs : /\ m.id = i /\ m.leavesQty = left /\ m.status \notin Ended
                               /\ ws_orders' = Append(ws_orders, m)
    <3>1. Tell(i, IF left = 0 THEN "Filled" ELSE "PartiallyFilled", cum, left)
      BY <1>7, <2>2, <2>3 DEF Fill
    <3>2. [id |-> i, status |-> IF left = 0 THEN "Filled" ELSE "PartiallyFilled",
           cumQty |-> cum, leavesQty |-> left] \in OrderMsgs
      BY <2>1 DEF OrderMsgs, Executed, Ended
    <3> QED
      BY <3>1, <3>2 DEF Tell, Ended
  <2>5. orders' = [orders EXCEPT ![i].cum = cum,
                                 ![i].status = IF left = 0 THEN "filled" ELSE "live"]
    BY <1>7, <2>2, <2>3 DEF Fill
  <2>6. /\ DOMAIN orders' = DOMAIN orders
        /\ \A j \in DOMAIN orders : /\ orders'[j].slot = orders[j].slot
                                    /\ j # i => orders'[j].status = orders[j].status
        /\ orders'[i].status = IF left = 0 THEN "filled" ELSE "live"
    BY <2>1, <2>5, SlotsOfOrders DEF Orders
  <2>7. Lives'
    <3>1. Terminal(m) <=> orders'[i].status # "live"
      BY <2>4, <2>6 DEF Terminal
    <3> QED
      BY <1>1, <2>1, <2>4, <2>6, <3>1, LivesTell
  <2>8. fills < MaxFills /\ fills' = fills + 1 /\ cancels' = cancels
    BY <1>7 DEF Fill
  <2>9. Threading'
    BY <1>6, <2>4, <2>8
  <2> QED
    BY <2>7, <2>9 DEF SlotsInv
<1>8. ASSUME NEW i \in DOMAIN orders, Cancel(i) PROVE SlotsInv'
  <2>1. /\ orders[i] \in Orders /\ i \in Nat /\ Live(i) /\ orders[i].cum \in Nat
    BY <1>8, SlotsOfOrders DEF Cancel, Orders
  <2>2. PICK m \in OrderMsgs : /\ m.id = i /\ m.status \in Ended
                               /\ ws_orders' = Append(ws_orders, m)
    <3>1. PICK st \in Ended : Tell(i, st, orders[i].cum, 0)
      BY <1>8 DEF Cancel
    <3>2. [id |-> i, status |-> st, cumQty |-> orders[i].cum, leavesQty |-> 0] \in OrderMsgs
      BY <2>1 DEF OrderMsgs, Executed, Ended
    <3> QED
      BY <3>1, <3>2 DEF Tell
  <2>3. orders' = [orders EXCEPT ![i].status = "canceled"]
    BY <1>8 DEF Cancel
  <2>4. /\ DOMAIN orders' = DOMAIN orders
        /\ \A j \in DOMAIN orders : /\ orders'[j].slot = orders[j].slot
                                    /\ j # i => orders'[j].status = orders[j].status
        /\ orders'[i].status = "canceled"
    BY <2>1, <2>3, SlotsOfOrders DEF Orders
  <2>5. Lives'
    <3>1. Terminal(m) <=> orders'[i].status # "live"
      BY <2>2, <2>4 DEF Terminal
    <3> QED
      BY <1>1, <2>1, <2>2, <2>4, <3>1, LivesTell
  <2>6. cancels < MaxCancels /\ cancels' = cancels + 1 /\ fills' = fills
    BY <1>8 DEF Cancel
  <2>7. Threading'
    BY <1>6, <2>2, <2>6
  <2> QED
    BY <2>5, <2>7 DEF SlotsInv
<1>9. ASSUME NEW i \in OtherIDs, CancelOther(i) PROVE SlotsInv'
  <2>1. PICK m \in OrderMsgs : /\ m.id = i /\ ws_orders' = Append(ws_orders, m)
    <3>1. Tell(i, "Canceled", 0, 0) /\ i \in Nat
      BY <1>9, ExchangeAssumption DEF CancelOther
    <3>2. [id |-> i, status |-> "Canceled", cumQty |-> 0, leavesQty |-> 0] \in OrderMsgs
      BY <3>1 DEF OrderMsgs, Executed, Ended
    <3> QED
      BY <3>1, <3>2 DEF Tell
  <2>2. orders' = orders /\ cancels < MaxCancels /\ cancels' = cancels + 1 /\ fills' = fills
    BY <1>9 DEF CancelOther
  <2>3. /\ Len(ws_orders) \in Nat
        /\ DOMAIN ws_orders = 1..Len(ws_orders) /\ DOMAIN ws_orders' = 1..Len(ws_orders) + 1
        /\ \A k \in DOMAIN ws_orders : ws_orders'[k] = ws_orders[k]
        /\ ws_orders'[Len(ws_orders) + 1] = m
    BY <1>5, <2>1, Appended
  <2>4. QueuedRight /\ LiveRight /\ Told /\ Somewhere
    BY DEF SlotsInv, Lives
  <2>5. QueuedRight' /\ LiveRight'
    BY <1>1, <2>2, <2>4 DEF QueuedRight, LiveRight, Live, Placed
  <2>6. Told'
    <3> SUFFICES ASSUME NEW k \in DOMAIN ws_orders', ws_orders'[k].id \notin OtherIDs
                 PROVE  Tells(k)'
      BY DEF Told
    <3>1. k \in DOMAIN ws_orders /\ ws_orders'[k] = ws_orders[k]
      BY <2>1, <2>3
    <3>2. Tells(k)
      BY <2>4, <3>1 DEF Told
    <3>3. \A l \in DOMAIN ws_orders' :
             ws_orders'[l].id = ws_orders[k].id => l \in DOMAIN ws_orders /\ ws_orders'[l] = ws_orders[l]
      BY <2>1, <2>3, <3>1
    <3> QED
      BY <1>1, <2>2, <3>1, <3>2, <3>3 DEF Tells, Terminal, Live
  <2>7. Somewhere'
    <3> SUFFICES ASSUME NEW s \in Slots, Placed(s) PROVE Queued(s)' \/ AtExchange(s)'
      BY <1>1 DEF Somewhere, Placed
    <3>1. CASE Queued(s)
      BY <1>1, <3>1 DEF Queued
    <3>2. CASE AtExchange(s)
      <4>1. \A k \in DOMAIN ws_orders : k \in DOMAIN ws_orders' /\ ws_orders'[k] = ws_orders[k]
        BY <2>3
      <4> QED
        BY <1>1, <2>2, <3>2, <4>1 DEF AtExchange, Terminal, Live
    <3> QED
      BY <2>4, <3>1, <3>2 DEF Somewhere
  <2>8. Threading'
    BY <1>6, <2>1, <2>2
  <2> QED
    BY <2>5, <2>6, <2>7, <2>8 DEF SlotsInv, Lives
<1> QED
  BY <1>7, <1>8, <1>9 DEF ExchangeStep

\* The other steps of the REST thread take the semaphore and give it back.
LEMMA SlotsRest ==
  ASSUME SlotsInv, RestStep(RestWork \/ GetLock) \/ UNCHANGED vars
  PROVE  SlotsInv'
<1>1. UNCHANGED <<obs_pc, obs_todo, obs_msg, ws_orders, ous_pc, ous_slot, ous_msg, is_open,
                  clOrdID, clOrdID_count, new_order_q, orders, fills, cancels>>
  BY DEF RestStep, RestWork, Connect, refresh_keepalive, CheckLimits, NoNew, NoUpd, Unlock,
         GetLock, vars, tradeVars, orderVars, queueVars, obsVars, ousVars, exchangeVars,
         restUnused
<1>2. HolderRight /\ FirstOrders /\ Counted /\ OwnIDs /\ Answering /\ Lives
  BY DEF SlotsInv, Threading
<1>3. HolderRight'
  <2>1. CASE UNCHANGED vars
    BY <1>2, <2>1 DEF vars, tradeVars, restVars, ousVars, HolderRight
  <2>2. CASE RestStep(RestWork \/ GetLock)
    BY <1>1, <1>2, <2>2
    DEF RestStep, RestWork, Connect, CheckLimits, NoNew, NoUpd, Unlock, GetLock,
        Lock!Acquire, Lock!Release, HolderRight
  <2> QED
    BY <2>1, <2>2
<1>4. FirstOrders' /\ Counted' /\ OwnIDs' /\ Answering'
  BY <1>1, <1>2 DEF FirstOrders, Counted, OwnIDs, Answering, Placed
<1>5. Lives'
  BY <1>1, <1>2, LivesStay
<1> QED
  BY <1>3, <1>4, <1>5 DEF SlotsInv, Threading

\* Where every order is says that a slot has one at most, and that with nothing
\* under way a flag that is up belongs to a live order.
LEMMA SlotsRightFollows ==
  ASSUME TypeOK, IDInv, SlotsInv
  PROVE  SlotsRight
<1>1. QueuedRight /\ LiveRight /\ Told /\ Somewhere
  BY DEF SlotsInv, Lives
<1>2. OneOrderPerSlot
  <2> SUFFICES ASSUME NEW s \in Slots
               PROVE  LET queued == {i \in DOMAIN new_order_q : new_order_q[i].slot = s}
                          live   == {i \in DOMAIN orders : Live(i) /\ orders[i].slot = s}
                      IN  /\ \A i, j \in queued : i = j
                          /\ \A i, j \in live : i = j
                          /\ queued = {} \/ live = {}
    BY DEF OneOrderPerSlot
  <2>1. \A i \in DOMAIN new_order_q : new_order_q[i].slot = s =>
           /\ new_order_q[i].id = clOrdID[s]
           /\ clOrdID[s] \notin DOMAIN orders
    BY <1>1 DEF QueuedRight, IDInv, FreshIDs
  <2>2. \A i \in DOMAIN orders : Live(i) /\ orders[i].slot = s => i = clOrdID[s]
    BY <1>1 DEF LiveRight
  <2> QED
    BY <2>1, <2>2 DEF IDInv, FreshIDs
<1>3. OpenIsLive
  <2> SUFFICES ASSUME Quiescent, NEW s \in Slots
               PROVE  is_open[s] <=> \E i \in DOMAIN orders :
                                        Live(i) /\ orders[i].slot = s /\ clOrdID[s] = i
    BY DEF OpenIsLive
  <2>1. ASSUME is_open[s]
        PROVE  \E i \in DOMAIN orders : Live(i) /\ orders[i].slot = s /\ clOrdID[s] = i
    <3>1. Queued(s) \/ AtExchange(s)
      BY <1>1, <2>1 DEF Somewhere, Placed
    <3>2. DOMAIN new_order_q = {} /\ DOMAIN ws_orders = {}
      BY DEF Quiescent
    <3> QED
      BY <3>1, <3>2 DEF Queued, AtExchange
  <2>2. \A i \in DOMAIN orders : Live(i) /\ orders[i].slot = s => is_open[s]
    BY <1>1 DEF LiveRight
  <2> QED
    BY <2>1, <2>2
<1> QED
  BY <1>2, <1>3 DEF SlotsRight

\* No fill, cancellation or amendment, in whatever order it is handled, leaves a
\* slot with a second order, or its flag wrong once all is handled
\* (OrderUpdateStream.hpp:63-238, TradeLogic.hpp:113-150).
THEOREM SlotsHold ==
  ASSUME QuietStart, ~Losses, OthersApart
  PROVE  Spec => []SlotsRight
<1>1. Init => IDInv /\ SlotsInv
  BY IDInit, SlotsInit
<1>2. TypeOK /\ IDInv /\ [Next]_vars => IDInv'
  BY IDObs, IDOus, IDSend, IDExchange, IDRest DEF Next
<1>3. TypeOK /\ IDInv /\ SlotsInv /\ [Next]_vars => SlotsInv'
  BY SlotsObs, SlotsOus, SlotsSend, SlotsExchange, SlotsRest DEF Next
<1>4. TypeOK /\ IDInv /\ SlotsInv => SlotsRight
  BY SlotsRightFollows
<1> QED
  BY <1>1, <1>2, <1>3, <1>4, TypesHold, PTL DEF Spec
-----------------------------------------------------------------------------
(***************************************************************************)
(* Whatever the order in which the two threads draw, an identifier drawn   *)
(* by the order update thread is its own, and one the order book thread    *)
(* reads back is that of its first ask offer.  The first bid offer has     *)
(* identifier 1: until it is queued there is no order to answer, and the   *)
(* order update thread draws nothing.                                      *)
(***************************************************************************)
Once ==
  /\ Distinct(new_order_q, {first_ask})
  /\ \A id \in IDsOf(new_order_q) : id \in DOMAIN orders => id = first_ask

\* The first bid offer is not queued yet.
Early ==
  \/ obs_pc \in {"start", "first_store"}
  \/ obs_pc \in Starting /\ Head(obs_todo) = "bid"

Alone ==
  /\ first_ask = 0
  /\ ous_pc = "read" /\ Used = {}
  /\ \A s \in Slots : clOrdID[s] \in {0, 1}
  /\ \A k \in DOMAIN ws_orders : ws_orders[k].id \in OtherIDs
  /\ obs_pc \in {"start", "first_store", "place"} => clOrdID_count = 0
  /\ obs_pc \in {"take_id", "new_msg", "new_push"} => clOrdID_count = 1
  /\ obs_pc = "new_msg" => clOrdID["bid"] = 1
  /\ obs_pc = "new_push" => obs_msg.id = 1
  /\ obs_pc # "start" => obs_todo = <<"bid", "ask">>

\* The first ask offer is being placed, beside whatever the other thread draws.
Asks ==
  /\ obs_todo = <<"ask">>
  /\ clOrdID_count # 0
  /\ obs_pc # "new_push" => first_ask = 0
  /\ obs_pc = "new_msg" => clOrdID["ask"] \in 1..clOrdID_count
  /\ obs_pc = "new_push" => obs_msg.id = first_ask /\ first_ask \in 1..clOrdID_count
  /\ obs_pc = "take_id" /\ ous_pc = "msg" => clOrdID_count \notin Used

\* An identifier that was handed out and that no order has but the first ask.
Drawn(id) == id \in 1..clOrdID_count /\ (id \in Used => id = first_ask)

Draws ==
  /\ ous_pc = "msg" => Drawn(clOrdID[ous_slot])
  /\ ous_pc = "push_new" => Drawn(ous_msg.id)

DrawnInv ==
  /\ Once /\ \A id \in Used : id \in 1..clOrdID_count
  /\ Early => Alone
  /\ obs_pc \in Starting /\ ~Early => Asks
  /\ Draws

LEMMA DrawnInit == Init /\ HistoryInit => DrawnInv
<1> SUFFICES ASSUME Init, HistoryInit PROVE DrawnInv
  OBVIOUS
<1>1. /\ new_order_q = <<>> /\ DOMAIN orders = {} /\ DOMAIN new_order_q = {}
      /\ obs_pc = "start" /\ ous_pc = "read" /\ ws_orders = <<>>
      /\ clOrdID_count = 0 /\ clOrdID = [s \in Slots |-> 0] /\ first_ask = 0
  BY DEF Init, TradeInit, ExchangeInit, ObsInit, OusInit, HistoryInit
<1>2. Used = {} /\ Once
  BY <1>1 DEF Used, IDsOf, Once, Distinct
<1> QED
  BY <1>1, <1>2 DEF DrawnInv, Early, Alone, Draws, Starting

\* What depends on the queue, the orders and the counter alone.
LEMMA OnceStays ==
  ASSUME Once, UNCHANGED <<new_order_q, orders, first_ask>>
  PROVE  Used' = Used /\ Once'
BY DEF Used, IDsOf, Once, Distinct

\* A drawn identifier goes to the back of the queue.
LEMMA QueueDrawn ==
  ASSUME TypeOK, DrawnInv, NEW m \in NewOrders, Drawn(m.id),
         UNCHANGED <<orders, clOrdID_count, first_ask>>,
         new_order_q' = Append(new_order_q, m)
  PROVE  /\ Used' = Used \cup {m.id} /\ Once'
         /\ \A id \in Used' : id \in 1..clOrdID_count'
<1>1. new_order_q \in Seq(NewOrders) /\ (m.id \notin IDsOf(new_order_q) \/ m.id \in {first_ask})
  BY DEF TypeOK, TradeTypeOK, Used, Drawn
<1>2. Distinct(new_order_q, {first_ask})
  BY DEF DrawnInv, Once
<1>3. /\ IDsOf(Append(new_order_q, m)) = IDsOf(new_order_q) \cup {m.id}
      /\ Distinct(Append(new_order_q, m), {first_ask})
  BY <1>1, <1>2, AppendFresh, Zenon
<1>4. IDsOf(new_order_q') = IDsOf(new_order_q) \cup {m.id} /\ Distinct(new_order_q', {first_ask'})
  BY <1>3
<1>5. Used' = Used \cup {m.id}
  BY <1>4 DEF Used
<1>6. \A id \in IDsOf(new_order_q') : id \in DOMAIN orders' => id = first_ask'
  BY <1>4 DEF DrawnInv, Once, Drawn, Used
<1> QED
  BY <1>4, <1>5, <1>6 DEF Once, DrawnInv, Drawn

\* ++clOrdID_count gives an identifier that nobody has.
LEMMA GiveIDDrawn ==
  ASSUME TypeOK, DrawnInv, NEW s \in Slots, GiveID(s),
         UNCHANGED <<new_order_q, orders, first_ask>>
  PROVE  /\ clOrdID'[s] = clOrdID_count' /\ Drawn(clOrdID[s])'
         /\ Used' = Used /\ Once' /\ clOrdID_count' \notin Used'
         /\ clOrdID_count' = clOrdID_count + 1
<1>1. clOrdID_count \in Nat /\ clOrdID_count' = clOrdID_count + 1
  BY DEF GiveID, TypeOK, TradeTypeOK
<1>2. clOrdID'[s] = clOrdID_count'
  BY <1>1 DEF GiveID, TypeOK, TradeTypeOK
<1>3. Used' = Used /\ Once'
  BY OnceStays DEF DrawnInv
<1>4. clOrdID_count' \notin Used'
  BY <1>1, <1>3 DEF DrawnInv
<1> QED
  BY <1>1, <1>2, <1>3, <1>4 DEF Drawn

LEMMA DrawnObs ==
  ASSUME TypeOK, DrawnInv, ObsStep(Obs), Noted
  PROVE  DrawnInv'
<1>1. UNCHANGED <<orders, ws_orders, ous_pc, ous_slot, ous_msg>>
  BY DEF ObsStep, ousVars, exchangeVars
<1>2. ~BuildFirstOrder => first_ask' = first_ask
  BY DEF Noted, ObsStep, Obs, InitTrading, StoreTarget, CountOrder, TakeID, PushFirstOrder,
         NextSlot, OnBestPrice, OnEarlierEntry, OnVolume, Handle, CompareSlot, LoadOpen,
         BuildAmend, PushAmend
<1>3. UNCHANGED <<new_order_q, first_ask>> => Used' = Used /\ Once'
  BY <1>1, OnceStays DEF DrawnInv
<1>4. clOrdID_count \in Nat /\ clOrdID \in [Slots -> Nat]
  BY DEF TypeOK, TradeTypeOK
<1>5. CASE InitTrading
  BY <1>1, <1>2, <1>3, <1>5
  DEF InitTrading, BuildFirstOrder, tradeVars, orderVars, queueVars, DrawnInv, Early, Alone,
      Draws, Drawn, Starting
<1>6. CASE StoreTarget
  <2>1. UNCHANGED <<new_order_q, clOrdID, clOrdID_count, obs_todo, first_ask>>
    BY <1>2, <1>6 DEF StoreTarget, BuildFirstOrder, orderVars, queueVars
  <2>2. \/ obs_pc = "first_store" /\ obs_pc' \in {"first_store", "place"}
        \/ obs_pc = "store" /\ obs_pc' \in {"store", "diff"}
    BY <1>6 DEF StoreTarget
  <2> QED
    BY <1>1, <1>3, <2>1, <2>2 DEF DrawnInv, Early, Alone, Draws, Drawn, Starting
<1>7. CASE CountOrder
  <2>1. /\ UNCHANGED <<new_order_q, clOrdID, obs_todo, first_ask>>
        /\ obs_pc = "place" /\ obs_pc' = "take_id" /\ clOrdID_count' = clOrdID_count + 1
    BY <1>2, <1>7 DEF CountOrder, BuildFirstOrder, queueVars
  <2>2. Used' = Used /\ Once' /\ \A id \in Used : id \in 1..clOrdID_count
    BY <1>3, <2>1 DEF DrawnInv
  <2>3. clOrdID_count' \notin Used /\ \A id \in Used' : id \in 1..clOrdID_count'
    BY <1>4, <2>1, <2>2
  <2>4. Draws'
    BY <1>1, <1>4, <2>1, <2>2 DEF DrawnInv, Draws, Drawn
  <2>5. CASE Head(obs_todo) = "bid"
    BY <1>1, <2>1, <2>2, <2>3, <2>4, <2>5 DEF DrawnInv, Early, Alone, Starting
  <2>6. CASE Head(obs_todo) # "bid"
    <3>1. Asks' /\ ~Early'
      BY <1>1, <1>4, <2>1, <2>2, <2>3, <2>6 DEF DrawnInv, Early, Asks, Starting
    <3> QED
      BY <2>2, <2>3, <2>4, <3>1 DEF DrawnInv
  <2> QED
    BY <2>5, <2>6
<1>8. CASE TakeID
  <2>1. /\ UNCHANGED <<new_order_q, clOrdID_count, obs_todo, first_ask>>
        /\ obs_pc = "take_id" /\ obs_pc' = "new_msg"
        /\ clOrdID' = [clOrdID EXCEPT ![Head(obs_todo)] = clOrdID_count]
    BY <1>2, <1>8 DEF TakeID, BuildFirstOrder, queueVars
  <2>2. Used' = Used /\ Once' /\ \A id \in Used' : id \in 1..clOrdID_count'
    BY <1>3, <2>1 DEF DrawnInv
  <2>3. CASE Head(obs_todo) = "bid"
    <3>1. Alone /\ obs_todo = <<"bid", "ask">> /\ clOrdID_count = 1
      BY <2>1, <2>3 DEF DrawnInv, Early, Alone, Starting
    <3>2. clOrdID'["bid"] = 1 /\ \A s \in Slots : clOrdID'[s] \in {0, 1}
      BY <1>4, <2>1, <2>3, <3>1 DEF Alone, Slots
    <3> QED
      BY <1>1, <2>1, <2>2, <2>3, <3>1, <3>2 DEF DrawnInv, Early, Alone, Draws, Starting
  <2>4. CASE Head(obs_todo) # "bid"
    <3>1. Asks /\ obs_todo = <<"ask">> /\ Head(obs_todo) = "ask"
      BY <2>1, <2>4 DEF DrawnInv, Early, Asks, Starting
    <3>2. clOrdID'["ask"] \in 1..clOrdID_count
      BY <1>4, <2>1, <3>1 DEF Asks, Slots
    <3>3. Asks' /\ ~Early'
      BY <1>1, <2>1, <2>4, <3>1, <3>2 DEF Asks, Early, Starting
    <3>4. Draws'
      <4>1. ASSUME ous_pc = "msg", ous_slot = "ask" PROVE Drawn(clOrdID[ous_slot])'
        BY <1>1, <1>4, <2>1, <2>2, <3>1, <3>2, <4>1 DEF Asks, Drawn, Slots
      <4>2. ASSUME ous_pc = "msg", ous_slot # "ask" PROVE Drawn(clOrdID[ous_slot])'
        <5>1. clOrdID'[ous_slot] = clOrdID[ous_slot] /\ ous_slot \in Slots
          BY <1>4, <2>1, <3>1, <4>2 DEF TypeOK, OusTypeOK
        <5> QED
          BY <1>1, <2>1, <2>2, <4>2, <5>1 DEF DrawnInv, Draws, Drawn
      <4> QED
        BY <1>1, <2>1, <2>2, <4>1, <4>2 DEF DrawnInv, Draws, Drawn
    <3> QED
      BY <2>2, <3>3, <3>4 DEF DrawnInv
  <2> QED
    BY <2>3, <2>4
<1>9. CASE BuildFirstOrder
  <2>1. /\ UNCHANGED <<new_order_q, clOrdID, clOrdID_count, obs_todo>>
        /\ obs_pc = "new_msg" /\ obs_pc' = "new_push"
        /\ obs_msg'.id = clOrdID[Head(obs_todo)]
    BY <1>9 DEF BuildFirstOrder, NewOrderMsg, tradeVars, orderVars, queueVars
  <2>2. Used' = Used /\ \A id \in Used' : id \in 1..clOrdID_count'
    BY <1>1, <2>1 DEF DrawnInv, Used, IDsOf
  <2>3. CASE Head(obs_todo) = "bid"
    <3>1. Alone /\ first_ask' = first_ask /\ Early'
      BY <2>1, <2>3 DEF DrawnInv, Early, Starting, Noted
    <3> QED
      BY <1>1, <1>3, <2>1, <2>2, <2>3, <3>1 DEF DrawnInv, Early, Alone, Draws, Starting
  <2>4. CASE Head(obs_todo) # "bid"
    <3>1. Asks /\ obs_todo = <<"ask">> /\ Head(obs_todo) = "ask" /\ first_ask = 0
      BY <2>1, <2>4 DEF DrawnInv, Early, Asks, Starting
    <3>2. first_ask' = clOrdID["ask"] /\ first_ask' \in 1..clOrdID_count
      BY <2>1, <3>1 DEF Asks, Noted
    <3>3. Asks' /\ ~Early'
      BY <1>1, <2>1, <2>4, <3>1, <3>2 DEF Asks, Early, Starting
    <3>4. \A id \in Used : id # first_ask
      BY <1>4, <3>1 DEF DrawnInv
    <3>5. Once'
      <4>1. \A id \in IDsOf(new_order_q) : id # 0
        BY <3>1, <3>4 DEF Used
      <4>2. \A i \in DOMAIN new_order_q : new_order_q[i].id # 0
        BY <4>1 DEF IDsOf
      <4>3. Distinct(new_order_q', {first_ask'})
        BY <2>1, <3>1, <4>2 DEF DrawnInv, Once, Distinct
      <4>4. \A id \in IDsOf(new_order_q) : id \notin DOMAIN orders
        BY <3>1, <4>1 DEF DrawnInv, Once
      <4>5. \A id \in IDsOf(new_order_q') : id \notin DOMAIN orders'
        BY <1>1, <2>1, <4>4
      <4> QED
        BY <4>3, <4>5 DEF Once
    <3>6. Draws'
      BY <1>1, <2>1, <2>2, <3>4 DEF DrawnInv, Draws, Drawn
    <3> QED
      BY <2>2, <3>3, <3>5, <3>6 DEF DrawnInv
  <2> QED
    BY <2>3, <2>4
<1>10. CASE PushFirstOrder
  <2>1. /\ UNCHANGED <<clOrdID, clOrdID_count, first_ask>>
        /\ obs_pc = "new_push" /\ obs_msg \in NewOrders
        /\ new_order_q' = Append(new_order_q, obs_msg)
        /\ obs_todo' = Tail(obs_todo)
        /\ obs_pc' = IF Len(obs_todo) > 1 THEN "place" ELSE "idle"
    BY <1>2, <1>10
    DEF PushFirstOrder, PushNewOrder, NextSlot, BuildFirstOrder, TypeOK, ObsTypeOK
  <2>2. CASE Head(obs_todo) = "bid"
    <3>1. Alone /\ obs_todo = <<"bid", "ask">> /\ obs_msg.id = 1 /\ clOrdID_count = 1
      BY <2>1, <2>2 DEF DrawnInv, Early, Alone, Starting
    <3>2. Once' /\ \A id \in Used' : id \in 1..clOrdID_count'
      BY <1>1, <2>1, <3>1, QueueDrawn DEF Alone, Drawn
    <3>3. obs_todo' = <<"ask">> /\ obs_pc' = "place"
      BY <2>1, <3>1
    <3> QED
      BY <1>1, <2>1, <3>1, <3>2, <3>3 DEF DrawnInv, Early, Alone, Asks, Draws, Starting
  <2>3. CASE Head(obs_todo) # "bid"
    <3>1. Asks /\ obs_todo = <<"ask">> /\ obs_msg.id = first_ask
      BY <2>1, <2>3 DEF DrawnInv, Early, Asks, Starting
    <3>2. /\ Once' /\ \A id \in Used' : id \in 1..clOrdID_count'
          /\ Used' = Used \cup {first_ask}
      BY <1>1, <2>1, <3>1, QueueDrawn DEF Asks, Drawn
    <3>3. obs_pc' = "idle"
      BY <2>1, <3>1
    <3> QED
      BY <1>1, <2>1, <3>2, <3>3 DEF DrawnInv, Early, Draws, Drawn, Starting
  <2> QED
    BY <2>2, <2>3
<1>11. CASE (\E b \in Books : OnBestPrice(b) \/ OnEarlierEntry(b) \/ OnVolume(b))
           \/ CompareSlot \/ LoadOpen \/ BuildAmend \/ PushAmend
  <2>1. UNCHANGED <<new_order_q, clOrdID, clOrdID_count>>
    BY <1>11 DEF OnBestPrice, OnEarlierEntry, OnVolume, Handle, CompareSlot, LoadOpen, BuildAmend,
                 PushAmend, tradeVars, orderVars, queueVars
  <2>2. obs_pc \notin Starting /\ obs_pc' \notin Starting
    BY <1>11 DEF OnBestPrice, OnEarlierEntry, OnVolume, Handle, CompareSlot, LoadOpen, BuildAmend,
                 PushAmend, NextSlot, Starting
  <2>3. first_ask' = first_ask
    BY <1>2, <2>2 DEF BuildFirstOrder, Starting
  <2> QED
    BY <1>1, <1>3, <2>1, <2>2, <2>3 DEF DrawnInv, Early, Draws, Drawn, Starting
<1> QED
  BY <1>5, <1>6, <1>7, <1>8, <1>9, <1>10, <1>11 DEF ObsStep, Obs

\* Until the first bid offer is queued, all messages are about the orders of others.
LEMMA NothingToAnswer ==
  ASSUME TypeOK, DrawnInv, Early, {0, 1} \cap OtherIDs = {}, OusStep(Ous)
  PROVE  Ignore
<1>1. Alone
  BY DEF DrawnInv
<1>2. ASSUME NEW s \in Slots, Receive(s, Head(ws_orders)) PROVE FALSE
  <2>1. ws_orders \in Seq(OrderMsgs) /\ ws_orders # <<>> /\ clOrdID[s] = Head(ws_orders).id
    BY <1>2, MatchesFind DEF Receive, TypeOK
  <2>2. Head(ws_orders) = ws_orders[1] /\ 1 \in DOMAIN ws_orders
    BY <2>1, HeadTailProperties, LenProperties, EmptySeq
  <2> QED
    BY <1>1, <2>1, <2>2 DEF Alone
<1>3. ~BuildNewOrder /\ ~RaiseOpen /\ ~PushOpposite /\ ~PushVolume
  BY <1>1 DEF Alone, BuildNewOrder, RaiseOpen, PushOpposite, PushVolume
<1>4. \A s \in Slots : ~OnFill(s, Head(ws_orders)) /\ ~OnCancelled(s, Head(ws_orders))
  BY <1>2 DEF OnFill, OnCancelled
<1> QED
  BY <1>3, <1>4 DEF OusStep, Ous, OusWork, OusRead, OusLockedWork

LEMMA DrawnOus ==
  ASSUME {0, 1} \cap OtherIDs = {}, TypeOK, DrawnInv, OusStep(Ous), Noted
  PROVE  DrawnInv'
<1>1. UNCHANGED <<orders, obs_pc, obs_todo, obs_msg, first_ask>>
  BY DEF OusStep, obsVars, exchangeVars, Noted
<1>2. UNCHANGED new_order_q => Used' = Used /\ Once'
  BY <1>1, OnceStays DEF DrawnInv
<1>3. clOrdID_count \in Nat /\ clOrdID \in [Slots -> Nat]
  BY DEF TypeOK, TradeTypeOK
<1>4. CASE Ignore
  <2>1. /\ UNCHANGED <<ous_pc, ous_slot, ous_msg, new_order_q, clOrdID, clOrdID_count>>
        /\ ws_orders' = Tail(ws_orders) /\ ws_orders # <<>> /\ ws_orders \in Seq(OrderMsgs)
    BY <1>4 DEF Ignore, ousVars, tradeVars, orderVars, queueVars, TypeOK
  <2>2. \A k \in DOMAIN ws_orders' : \E l \in DOMAIN ws_orders : ws_orders'[k] = ws_orders[l]
    <3>1. /\ DOMAIN ws_orders = 1..Len(ws_orders) /\ Len(ws_orders) \in Nat \ {0}
          /\ DOMAIN ws_orders' = 1..(Len(ws_orders) - 1)
          /\ \A k \in 1..(Len(ws_orders) - 1) : ws_orders'[k] = ws_orders[k + 1]
      BY <2>1, HeadTailProperties, LenProperties, EmptySeq
    <3>2. \A k \in 1..(Len(ws_orders) - 1) : k + 1 \in DOMAIN ws_orders
      BY <3>1
    <3> QED
      BY <3>1, <3>2
  <2>3. Early => Alone'
    BY <1>1, <1>2, <2>1, <2>2 DEF DrawnInv, Early, Alone, Starting
  <2> QED
    BY <1>1, <1>2, <2>1, <2>3 DEF DrawnInv, Early, Asks, Draws, Drawn
<1>5. ASSUME ~Ignore PROVE ~Early /\ ~Early'
  BY <1>1, <1>5, NothingToAnswer DEF Early
<1>6. ASSUME NEW s \in Slots, GiveID(s), UNCHANGED new_order_q, ous_slot' = s, ous_pc' = "msg",
             ~Early, ~Early'
      PROVE  DrawnInv'
  <2>1. /\ clOrdID'[s] = clOrdID_count' /\ Drawn(clOrdID[s])'
        /\ Used' = Used /\ Once' /\ clOrdID_count' \notin Used'
        /\ clOrdID_count' = clOrdID_count + 1
    BY <1>1, <1>6, GiveIDDrawn
  <2>2. \A id \in Used' : id \in 1..clOrdID_count'
    BY <1>3, <2>1 DEF DrawnInv
  <2>3. Draws'
    BY <1>6, <2>1 DEF Draws
  <2>4. ASSUME obs_pc \in Starting PROVE Asks'
    <3>1. Asks
      BY <1>6, <2>4 DEF DrawnInv
    <3>2. obs_pc = "new_msg" => clOrdID'["ask"] \in 1..clOrdID_count'
      BY <1>3, <1>6, <2>1, <3>1 DEF Asks, GiveID, Slots
    <3> QED
      BY <1>1, <1>3, <2>1, <3>1, <3>2 DEF Asks
  <2> QED
    BY <1>1, <1>6, <2>1, <2>2, <2>3, <2>4 DEF DrawnInv
<1>7. ASSUME NEW s \in Slots, NEW m, OnFill(s, m), ~Early, ~Early' PROVE DrawnInv'
  <2>1. UNCHANGED new_order_q /\ Opposite[s] \in Slots
    BY <1>7 DEF OnFill, queueVars, Opposite, Slots
  <2>2. CASE ous_pc' = "push_upd"
    <3>1. UNCHANGED <<clOrdID, clOrdID_count>> /\ ous_pc = "read"
      BY <1>7, <2>2 DEF OnFill, Receive
    <3> QED
      BY <1>1, <1>2, <1>7, <2>1, <2>2, <3>1 DEF DrawnInv, Asks, Draws
  <2>3. CASE ous_pc' = "msg"
    <3>1. GiveID(Opposite[s]) /\ ous_slot' = Opposite[s]
      BY <1>7, <2>3 DEF OnFill
    <3> QED
      BY <1>6, <1>7, <2>1, <2>3, <3>1
  <2> QED
    BY <1>7, <2>2, <2>3 DEF OnFill
<1>8. ASSUME NEW s \in Slots, NEW m, OnCancelled(s, m), ~Early, ~Early' PROVE DrawnInv'
  <2>1. UNCHANGED new_order_q /\ GiveID(s) /\ ous_slot' = s /\ ous_pc' = "msg"
    BY <1>8 DEF OnCancelled, queueVars
  <2> QED
    BY <1>6, <1>8, <2>1
<1>9. ASSUME BuildNewOrder, ~Early, ~Early' PROVE DrawnInv'
  <2>1. /\ UNCHANGED <<new_order_q, clOrdID, clOrdID_count>>
        /\ ous_pc = "msg" /\ ous_pc' = "push_new" /\ ous_msg'.id = clOrdID[ous_slot]
    BY <1>9 DEF BuildNewOrder, NewOrderMsg, orderVars, queueVars
  <2> QED
    BY <1>1, <1>2, <1>9, <2>1 DEF DrawnInv, Asks, Draws, Drawn
<1>10. ASSUME PushOpposite, ~Early, ~Early' PROVE DrawnInv'
  <2>1. /\ UNCHANGED <<clOrdID, clOrdID_count>> /\ ous_pc = "push_new" /\ ous_pc' = "raise"
        /\ new_order_q' = Append(new_order_q, ous_msg) /\ ous_msg \in NewOrders
        /\ Drawn(ous_msg.id)
    BY <1>10 DEF PushOpposite, orderVars, TypeOK, OusTypeOK, DrawnInv, Draws
  <2>2. Once' /\ \A id \in Used' : id \in 1..clOrdID_count'
    BY <1>1, <2>1, QueueDrawn
  <2>3. obs_pc \in Starting => Asks'
    BY <1>1, <1>10, <2>1 DEF DrawnInv, Asks
  <2> QED
    BY <1>1, <1>10, <2>1, <2>2, <2>3 DEF DrawnInv, Draws
<1>11. ASSUME RaiseOpen \/ PushVolume, ~Early, ~Early' PROVE DrawnInv'
  <2>1. /\ UNCHANGED <<new_order_q, clOrdID, clOrdID_count>>
        /\ ous_pc' = "read"
    BY <1>11 DEF RaiseOpen, PushVolume, orderVars, queueVars
  <2> QED
    BY <1>1, <1>2, <1>11, <2>1 DEF DrawnInv, Asks, Draws
<1> QED
  BY <1>4, <1>5, <1>7, <1>8, <1>9, <1>10, <1>11
  DEF OusStep, Ous, OusWork, OusRead, OusLockedWork

\* A request moves an identifier from the queue to the exchange, or drops it.
LEMMA DrawnSend ==
  ASSUME TypeOK, DrawnInv, SendStep, Noted
  PROVE  DrawnInv'
<1>1. UNCHANGED <<obs_pc, obs_todo, obs_msg, ws_orders, ous_pc, ous_slot, ous_msg,
                  clOrdID, clOrdID_count, first_ask>>
  BY DEF SendStep, SendNew, SendUpd, obsVars, ousVars, restUnused, orderVars, Noted
<1>2. Used' \subseteq Used /\ Once'
  <2>1. CASE SendNew /\ Post(Head(new_order_q))
    <3> DEFINE m == Head(new_order_q)
    <3>1. new_order_q \in Seq(NewOrders) /\ new_order_q # <<>> /\ new_order_q' = Tail(new_order_q)
      BY <2>1 DEF SendNew, TypeOK, TradeTypeOK
    <3>2. Distinct(new_order_q, {first_ask})
      BY DEF DrawnInv, Once
    <3>3. /\ IDsOf(new_order_q) = IDsOf(Tail(new_order_q)) \cup {Head(new_order_q).id}
          /\ Head(new_order_q).id \in IDsOf(Tail(new_order_q))
                => Head(new_order_q).id \in {first_ask}
          /\ Distinct(Tail(new_order_q), {first_ask})
      BY <3>1, <3>2, TailFresh, Zenon
    <3>4. /\ IDsOf(new_order_q) = IDsOf(new_order_q') \cup {m.id}
          /\ m.id \in IDsOf(new_order_q') => m.id = first_ask
          /\ Distinct(new_order_q', {first_ask'})
      BY <1>1, <3>1, <3>3
    <3>5. DOMAIN orders' \subseteq DOMAIN orders \cup {m.id}
      BY <2>1 DEF Post
    <3>6. \A id \in IDsOf(new_order_q') : id \in DOMAIN orders' => id = first_ask'
      BY <1>1, <3>4, <3>5 DEF DrawnInv, Once
    <3> QED
      BY <3>4, <3>5, <3>6 DEF Used, Once
  <2>2. CASE SendUpd /\ Put(Head(upd_order_q))
    <3>1. new_order_q' = new_order_q /\ DOMAIN orders' = DOMAIN orders
      BY <2>2 DEF SendUpd, Put
    <3> QED
      BY <1>1, <3>1 DEF Used, Once, Distinct, IDsOf, DrawnInv
  <2> QED
    BY <2>1, <2>2 DEF SendStep
<1>3. \A id : Drawn(id) => Drawn(id)'
  BY <1>1, <1>2 DEF Drawn
<1>4. Early => Alone'
  BY <1>1, <1>2 DEF DrawnInv, Alone
<1>5. Asks => Asks'
  BY <1>1, <1>2 DEF Asks
<1>6. Draws'
  BY <1>1, <1>2 DEF DrawnInv, Draws, Drawn
<1> QED
  BY <1>1, <1>2, <1>4, <1>5, <1>6 DEF DrawnInv, Early

\* The exchange tells of orders it was sent, and of those of others.
LEMMA DrawnExchange ==
  ASSUME TypeOK, DrawnInv, ExchangeStep, Noted
  PROVE  DrawnInv'
<1>1. UNCHANGED <<obs_pc, obs_todo, obs_msg, ous_pc, ous_slot, ous_msg,
                  clOrdID, clOrdID_count, new_order_q, first_ask>>
  BY DEF ExchangeStep, tradeVars, orderVars, queueVars, obsVars, ousVars, Noted
<1>2. DOMAIN orders' = DOMAIN orders
  BY DEF ExchangeStep, Fill, Cancel, CancelOther
<1>3. Used' = Used /\ Once'
  BY <1>1, <1>2 DEF Used, IDsOf, Once, Distinct, DrawnInv
<1>4. Early => Alone'
  <2> SUFFICES ASSUME Early PROVE Alone'
    OBVIOUS
  <2>1. DOMAIN orders = {}
    BY DEF DrawnInv, Alone, Used
  <2>2. PICK i \in OtherIDs : CancelOther(i)
    BY <2>1 DEF ExchangeStep
  <2>3. PICK m : m.id = i /\ ws_orders' = Append(ws_orders, m) /\ m \in OrderMsgs
    <3>1. i \in Nat
      BY ExchangeAssumption
    <3>2. [id |-> i, status |-> "Canceled", cumQty |-> 0, leavesQty |-> 0] \in OrderMsgs
      BY <3>1 DEF OrderMsgs, Ended
    <3> QED
      BY <2>2, <3>2 DEF CancelOther, Tell
  <2>4. \A k \in DOMAIN ws_orders' : \/ k \in DOMAIN ws_orders /\ ws_orders'[k] = ws_orders[k]
                                   \/ ws_orders'[k] = m
    BY <2>3, AppendProperties, LenProperties DEF TypeOK
  <2>5. \A k \in DOMAIN ws_orders' : ws_orders'[k].id \in OtherIDs
    BY <2>3, <2>4 DEF DrawnInv, Alone
  <2> QED
    BY <1>1, <1>3, <2>5 DEF DrawnInv, Alone
<1> QED
  BY <1>1, <1>3, <1>4 DEF DrawnInv, Early, Asks, Draws, Drawn

\* The REST thread's other steps touch no order.
LEMMA DrawnRest ==
  ASSUME DrawnInv, (RestStep(RestWork \/ GetLock) /\ Noted) \/ UNCHANGED allVars
  PROVE  DrawnInv'
<1>1. UNCHANGED <<obs_pc, obs_todo, obs_msg, ws_orders, ous_pc, ous_slot, ous_msg,
                  clOrdID, clOrdID_count, new_order_q, orders, first_ask>>
  BY DEF RestStep, RestWork, Connect, refresh_keepalive, CheckLimits, NoNew, NoUpd, Unlock,
         GetLock, vars, allVars, history, tradeVars, orderVars, queueVars, obsVars, ousVars,
         exchangeVars, restUnused, Noted
<1>2. Used' = Used /\ Once'
  BY <1>1, OnceStays DEF DrawnInv
<1> QED
  BY <1>1, <1>2 DEF DrawnInv, Early, Alone, Asks, Draws, Drawn

\* In whatever order two threads draw identifiers from one counter, no identifier
\* is given twice but that of the first ask offer (TradeLogic.hpp:123-124, 142-143,
\* OrderUpdateStream.hpp:80), unless the account has an order with identifier 0 or 1
\* that another user sent.
THEOREM DrawnOnceHolds == ASSUME {0, 1} \cap OtherIDs = {} PROVE HistorySpec => []DrawnOnce
<1>1. Init /\ HistoryInit => DrawnInv
  BY DrawnInit
<1>2. TypeOK /\ DrawnInv /\ [Next /\ Noted]_allVars => DrawnInv'
  BY DrawnObs, DrawnOus, DrawnSend, DrawnExchange, DrawnRest DEF Next
<1>3. DrawnInv => DrawnOnce
  BY DEF DrawnInv, Once, Distinct, IDsOf, DrawnOnce
<1> QED
  BY <1>1, <1>2, <1>3, HistoryIsReal, TypesHold, PTL DEF HistorySpec, NotedInit
=============================================================================
