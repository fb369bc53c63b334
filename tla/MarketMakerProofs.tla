------------------------- MODULE MarketMakerProofs -------------------------
(***************************************************************************)
(* Proofs about MarketMaker, for any books, volumes, limits and bounds:    *)
(* the type of every variable, and the targets, which never cross, follow  *)
(* the best prices and are followed by the current ones.                   *)
(***************************************************************************)
EXTENDS TradeHistory, PricingProofs

\* The targets of Pricing are those of the slots.
LEMMA PlacesAreSlots == Places = Slots
  BY DEF Places, Slots

\* What is left of a queue whose front is taken.
LEMMA HeadTail ==
  ASSUME NEW S, NEW q \in Seq(S), q # <<>>
  PROVE  /\ Head(q) \in S
         /\ Tail(q) \in Seq(S)
         /\ Len(q) > 1 => Tail(q) # <<>>
<1>1. /\ Head(q) \in S
      /\ Tail(q) \in Seq(S)
      /\ Len(Tail(q)) = Len(q) - 1
  BY HeadTailProperties
<1>2. Len(q) \in Nat /\ Len(<<>>) = 0
  BY LenProperties, EmptySeq
<1>3. Tail(q) = <<>> => Len(q) - 1 = 0
  BY <1>1, <1>2
<1> QED
  BY <1>1, <1>2, <1>3

-----------------------------------------------------------------------------
(***************************************************************************)
(* Types, one lemma per thread: a thread touches its own variables and the *)
(* shared ones.                                                            *)
(***************************************************************************)

\* A section that queues a new order keeps the shared types.
LEMMA PushNewOrderType ==
  ASSUME TradeTypeOK, NEW m \in NewOrders, PushNewOrder(m)
  PROVE  TradeTypeOK'
  BY DEF TradeTypeOK, PushNewOrder, WithLock, NewOrders, priceVars

\* A message built from well-typed fields is well typed.
LEMMA NewOrderMsgType ==
  ASSUME TradeTypeOK, NEW s \in Slots
  PROVE  NewOrderMsg(s) \in NewOrders
  BY DEF TradeTypeOK, NewOrderMsg, NewOrders

\* The order book thread keeps the types (OrderBookStream.hpp, TradeLogic.hpp).
LEMMA ObsType ==
  ASSUME TradeTypeOK, ObsTypeOK, Obs
  PROVE  TradeTypeOK' /\ ObsTypeOK'
<1> USE DEF ObsTypeOK, Starting, Running
<1>1. /\ book.bid \in Int /\ book.ask \in Int /\ book.ratio \in Nat
      /\ \A b \in Books : b.bid \in Int /\ b.ask \in Int /\ b.ratio \in Nat
  BY BookAssumption
<1>2. obs_pc \notin {"start", "idle"} => /\ Head(obs_todo) \in Slots
                                         /\ Tail(obs_todo) \in Seq(Slots)
                                         /\ Len(obs_todo) > 1 => Tail(obs_todo) # <<>>
  BY HeadTail
<1>3. CASE InitTrading
  <2>1. obs_stores' \in Seq([slot : Slots, price : Int]) /\ obs_stores' # <<>>
    BY <1>1, <1>3, StoresType, PlacesAreSlots DEF InitTrading, Stores
  <2>2. obs_todo' \in Seq(Slots) /\ obs_todo' # <<>>
    BY <1>3 DEF InitTrading, Slots
  <2>3. vol_ratio' \in Nat
    BY <1>1, <1>3 DEF InitTrading
  <2> QED
    BY <1>3, <2>1, <2>2, <2>3
    DEF InitTrading, TradeTypeOK, tradeVars, priceVars, orderVars, queueVars
<1>4. CASE StoreTarget
  <2>1. /\ Head(obs_stores) \in [slot : Slots, price : Int]
        /\ Tail(obs_stores) \in Seq([slot : Slots, price : Int])
        /\ Len(obs_stores) > 1 => Tail(obs_stores) # <<>>
    <3>1. obs_stores \in Seq([slot : Slots, price : Int]) /\ obs_stores # <<>>
      BY <1>4 DEF StoreTarget
    <3> QED
      BY <3>1, HeadTail
  <2>2. targ' \in [Slots -> Int]
    BY <1>4, <2>1 DEF StoreTarget, TradeTypeOK
  <2>3. TradeTypeOK'
    BY <1>4, <2>2 DEF StoreTarget, TradeTypeOK, orderVars, queueVars
  <2>4. ObsTypeOK'
    BY <1>4, <2>1 DEF StoreTarget
  <2> QED
    BY <2>3, <2>4
<1>5. CASE CountOrder
  <2>1. TradeTypeOK'
    <3>1. Head(obs_todo) \in Slots /\ OrderVol \in Nat
      BY <1>2, <1>5, BookAssumption DEF CountOrder
    <3>2. targ_vol' \in [Slots -> Nat] /\ clOrdID_count' \in Nat
      BY <1>5, <3>1 DEF CountOrder, TradeTypeOK
    <3> QED
      BY <1>5, <3>2 DEF CountOrder, TradeTypeOK, priceVars, queueVars
  <2>2. ObsTypeOK'
    BY <1>5 DEF CountOrder
  <2> QED
    BY <2>1, <2>2
<1>6. CASE TakeID
  BY <1>2, <1>6 DEF TakeID, TradeTypeOK, priceVars, queueVars
<1>7. CASE BuildFirstOrder
  <2>1. obs_msg' \in NewOrders
    BY <1>2, <1>7, NewOrderMsgType DEF BuildFirstOrder
  <2> QED
    BY <1>7, <2>1 DEF BuildFirstOrder, TradeTypeOK, tradeVars, priceVars, orderVars, queueVars
<1>8. CASE PushFirstOrder
  <2>1. TradeTypeOK'
    BY <1>8, PushNewOrderType DEF PushFirstOrder
  <2>2. ObsTypeOK'
    BY <1>2, <1>8 DEF PushFirstOrder, NextSlot
  <2> QED
    BY <2>1, <2>2
<1>9. ASSUME NEW b \in Books, OnBestPrice(b) PROVE TradeTypeOK' /\ ObsTypeOK'
  <2>1. obs_stores' \in Seq([slot : Slots, price : Int]) /\ obs_stores' # <<>>
    BY <1>1, <1>9, StoresType, PlacesAreSlots DEF OnBestPrice, Stores
  <2>2. obs_todo' \in Seq(Slots) /\ obs_todo' # <<>>
    BY <1>9 DEF OnBestPrice, Slots
  <2> QED
    <3>1. TradeTypeOK'
      BY <1>9 DEF OnBestPrice, Handle, TradeTypeOK, tradeVars, priceVars, orderVars, queueVars
    <3>2. vol_ratio' \in Nat /\ book' \in Books /\ book_msgs' \in Nat
      BY <1>1, <1>9 DEF OnBestPrice, Handle
    <3>3. obs_pc' = "store" /\ obs_msg' = obs_msg
      BY <1>9 DEF OnBestPrice, Handle
    <3> QED
      BY <2>1, <2>2, <3>1, <3>2, <3>3
<1>10. ASSUME NEW b \in Books, OnEarlierEntry(b) PROVE TradeTypeOK' /\ ObsTypeOK'
  BY <1>10 DEF OnEarlierEntry, Handle, TradeTypeOK, tradeVars, priceVars, orderVars, queueVars
<1>11. ASSUME NEW b \in Books, OnVolume(b) PROVE TradeTypeOK' /\ ObsTypeOK'
  <2>1. obs_todo' \in Seq(Slots) /\ obs_todo' # <<>>
    BY <1>11 DEF OnVolume, Slots
  <2>2. TradeTypeOK'
    BY <1>11 DEF OnVolume, Handle, TradeTypeOK, tradeVars, priceVars, orderVars, queueVars
  <2>3. vol_ratio' \in Nat /\ book' \in Books /\ book_msgs' \in Nat
    BY <1>1, <1>11 DEF OnVolume, Handle
  <2>4. obs_pc' = "diff" /\ obs_msg' = obs_msg /\ obs_stores' = obs_stores
    BY <1>11 DEF OnVolume, Handle
  <2> QED
    BY <2>1, <2>2, <2>3, <2>4
<1>12. CASE CompareSlot
  <2>1. TradeTypeOK'
    BY <1>12 DEF CompareSlot, TradeTypeOK, tradeVars, priceVars, orderVars, queueVars
  <2>2. /\ obs_todo' \in Seq(Slots)
        /\ obs_pc' # "idle" => obs_todo' # <<>>
        /\ obs_pc' \in {"idle", "diff", "open", "price", "msg"}
    BY <1>2, <1>12 DEF CompareSlot, NextSlot
  <2>3. UNCHANGED <<obs_stores, obs_msg, book, vol_ratio, book_msgs>>
    BY <1>12 DEF CompareSlot
  <2> QED
    BY <2>1, <2>2, <2>3
<1>13. CASE LoadOpen
  <2>1. TradeTypeOK'
    BY <1>13 DEF LoadOpen, TradeTypeOK, tradeVars, priceVars, orderVars, queueVars
  <2>2. /\ obs_todo' \in Seq(Slots)
        /\ obs_pc' # "idle" => obs_todo' # <<>>
        /\ obs_pc' \in {"idle", "diff", "open", "price", "msg"}
    BY <1>2, <1>13 DEF LoadOpen, NextSlot
  <2>3. UNCHANGED <<obs_stores, obs_msg, book, vol_ratio, book_msgs>>
    BY <1>13 DEF LoadOpen
  <2> QED
    BY <2>1, <2>2, <2>3
<1>14. CASE BuildAmend
  <2>1. obs_msg' \in Updates
    BY <1>2, <1>14 DEF BuildAmend, TradeTypeOK, Updates
  <2> QED
    BY <1>14, <2>1 DEF BuildAmend, TradeTypeOK, tradeVars, priceVars, orderVars, queueVars
<1>15. CASE PushAmend
  <2>1. TradeTypeOK'
    <3>1. obs_msg \in Updates /\ Head(obs_todo) \in Slots
      BY <1>2, <1>15 DEF PushAmend
    <3>2. upd_order_q' \in Seq(Updates) /\ curr' \in [Slots -> Int]
      BY <1>15, <3>1 DEF PushAmend, TradeTypeOK
    <3> QED
      BY <1>15, <3>2 DEF PushAmend, WithLock, TradeTypeOK, orderVars
  <2>2. ObsTypeOK'
    BY <1>2, <1>15 DEF PushAmend, NextSlot
  <2> QED
    BY <2>1, <2>2
<1> QED
  BY <1>3, <1>4, <1>5, <1>6, <1>7, <1>8, <1>9, <1>10, <1>11, <1>12, <1>13, <1>14, <1>15
  DEF Obs

\* A new identifier is a number.
LEMMA GiveIDType ==
  ASSUME TradeTypeOK, NEW t \in Slots, GiveID(t)
  PROVE  clOrdID' \in [Slots -> Nat] /\ clOrdID_count' \in Nat
  BY DEF TradeTypeOK, GiveID

\* The order update thread keeps the types (OrderUpdateStream.hpp:63-296).
LEMMA OusType ==
  ASSUME TradeTypeOK, OusTypeOK, ws_orders \in Seq(OrderMsgs), Ous
  PROVE  TradeTypeOK' /\ OusTypeOK' /\ ws_orders' \in Seq(OrderMsgs)
<1> DEFINE Goal == TradeTypeOK' /\ OusTypeOK' /\ ws_orders' \in Seq(OrderMsgs)
<1>1. ws_orders # <<>> => Head(ws_orders) \in OrderMsgs /\ Tail(ws_orders) \in Seq(OrderMsgs)
  BY HeadTail
<1>2. CASE Ignore
  BY <1>1, <1>2 DEF Ignore, ousVars, tradeVars, priceVars, orderVars, queueVars,
                    TradeTypeOK, OusTypeOK
<1>3. ASSUME NEW s \in Slots, NEW m \in OrderMsgs, OnFill(s, m) PROVE Goal
  <2>1. Opposite[s] \in Slots /\ m.cumQty \in Nat
    BY DEF Opposite, Slots, OrderMsgs
  <2>2. ws_orders' \in Seq(OrderMsgs)
    BY <1>1, <1>3 DEF OnFill, Receive
  <2>3. targ_vol' \in [Slots -> Nat] /\ is_open' \in [Slots -> BOOLEAN]
    BY <1>3, <2>1 DEF OnFill, OpenAfterFill, TradeTypeOK
  <2>4. clOrdID' \in [Slots -> Nat] /\ clOrdID_count' \in Nat
    <3>1. GiveID(Opposite[s]) \/ UNCHANGED <<clOrdID, clOrdID_count>>
      BY <1>3 DEF OnFill
    <3> QED
      BY <2>1, <3>1, GiveIDType DEF TradeTypeOK
  <2>5. TradeTypeOK'
    BY <1>3, <2>3, <2>4 DEF OnFill, TradeTypeOK, priceVars, queueVars
  <2>6. /\ ous_pc' \in {"push_upd", "msg"}
        /\ ous_pc' = "push_upd" => ous_msg' \in Updates
        /\ ous_pc' = "msg" => ous_msg' = ous_msg
    BY <1>3, <2>1 DEF OnFill, TradeTypeOK, Updates
  <2>7. ous_slot' \in Slots /\ ous_requote' \in BOOLEAN /\ ous_targ' = ous_targ
    BY <1>3, <2>1 DEF OnFill
  <2> QED
    BY <2>2, <2>5, <2>6, <2>7 DEF OusTypeOK
<1>4. ASSUME NEW s \in Slots, NEW m \in OrderMsgs, OnCancelled(s, m) PROVE Goal
  <2>1. ws_orders' \in Seq(OrderMsgs)
    BY <1>1, <1>4 DEF OnCancelled, Receive
  <2>2. TradeTypeOK'
    BY <1>4 DEF OnCancelled, GiveID, TradeTypeOK, priceVars, queueVars
  <2>3. OusTypeOK'
    BY <1>4 DEF OnCancelled, OusTypeOK
  <2> QED
    BY <2>1, <2>2, <2>3
<1>5. CASE BuildNewOrder
  <2>1. ous_msg' \in NewOrders
    BY <1>5, NewOrderMsgType DEF BuildNewOrder, OusTypeOK
  <2>2. curr' \in [Slots -> Int]
    BY <1>5 DEF BuildNewOrder, TradeTypeOK
  <2> QED
    BY <1>5, <2>1, <2>2 DEF BuildNewOrder, TradeTypeOK, OusTypeOK, orderVars, queueVars
<1>6. CASE PushOpposite
  <2>1. new_order_q' \in Seq(NewOrders)
    BY <1>6 DEF PushOpposite, TradeTypeOK, OusTypeOK
  <2>2. ous_targ' \in Int /\ holder' \in Threads \cup {"none"}
    BY <1>6 DEF PushOpposite, TradeTypeOK, OusTypeOK, Threads, Lock!Acquire
  <2> QED
    BY <1>6, <2>1, <2>2 DEF PushOpposite, TradeTypeOK, OusTypeOK, priceVars, orderVars
<1>7. CASE RaiseOpen
  BY <1>7 DEF RaiseOpen, TradeTypeOK, OusTypeOK, queueVars, Lock!Release
<1>8. CASE PushVolume
  <2>1. upd_order_q' \in Seq(Updates)
    BY <1>8 DEF PushVolume, TradeTypeOK, OusTypeOK
  <2> QED
    BY <1>8, <2>1 DEF PushVolume, WithLock, TradeTypeOK, OusTypeOK, priceVars, orderVars
<1> QED
  BY <1>1, <1>2, <1>3, <1>4, <1>5, <1>6, <1>7, <1>8
  DEF Ous, OusWork, OusRead, OusLockedWork

\* The REST thread keeps the types, whatever the exchange answers
\* (REST_Sync.hpp:68-183, 247-275).
LEMMA RestType ==
  ASSUME TradeTypeOK, RestTypeOK, RestWork \/ GetLock \/ SendNew \/ SendUpd
  PROVE  TradeTypeOK' /\ RestTypeOK'
<1> USE DEF TradeTypeOK, RestTypeOK, restUnused, priceVars, orderVars, queueVars,
            countVars, clockVars
<1>1. CASE Connect
  BY <1>1 DEF Connect, refresh_keepalive
<1>2. CASE CheckLimits
  BY <1>2 DEF CheckLimits
<1>3. CASE NoNew \/ NoUpd
  BY <1>3 DEF NoNew, NoUpd
<1>4. CASE Unlock
  BY <1>4 DEF Unlock, Lock!Release
<1>5. CASE GetLock
  BY <1>5 DEF GetLock, Lock!Acquire, Threads
<1>6. CASE SendNew
  BY <1>6, HeadTail DEF SendNew, CountSent
<1>7. CASE SendUpd
  BY <1>7, HeadTail DEF SendUpd, CountSent
<1> QED
  BY <1>1, <1>2, <1>3, <1>4, <1>5, <1>6, <1>7 DEF RestWork

\* The exchange keeps its orders well typed, and fills none beyond its volume.
LEMMA PostType ==
  ASSUME ExchangeTypeOK, NEW m \in NewOrders, Post(m), UNCHANGED <<position, fills, cancels>>
  PROVE  ExchangeTypeOK'
<1> USE DEF ExchangeTypeOK
<1>1. CASE UNCHANGED orders
  BY <1>1
<1>2. CASE ~UNCHANGED orders
  <2> DEFINE o == [slot |-> m.slot, price |-> m.price, qty |-> m.vol,
                   cum |-> 0, status |-> "live"]
             D == DOMAIN orders \cup {m.id}
  <2>1. o \in Orders /\ m.id \in Nat /\ o.cum <= o.qty
    BY DEF NewOrders, Orders, Slots, BuySlots, SellSlots
  <2>2. orders' = [i \in D |-> IF i = m.id THEN o ELSE orders[i]]
    BY <1>2 DEF Post
  <2> HIDE DEF o
  <2>3. DOMAIN orders' = D
    BY <2>2
  <2>4. \A i \in D : orders'[i] \in Orders /\ orders'[i].cum <= orders'[i].qty
    BY <2>1, <2>2
  <2>5. orders' \in [DOMAIN orders' -> Orders]
    BY <2>2, <2>3, <2>4
  <2> QED
    BY <2>1, <2>3, <2>4, <2>5
<1> QED
  BY <1>1, <1>2

\* An amendment leaves at least what is filled (REST_Sync.hpp:113-133).
LEMMA PutType ==
  ASSUME ExchangeTypeOK, NEW u \in Updates, Put(u), UNCHANGED <<position, fills, cancels>>
  PROVE  ExchangeTypeOK'
<1> USE DEF ExchangeTypeOK
<1>1. CASE UNCHANGED orders
  BY <1>1
<1>2. CASE ~UNCHANGED orders
  <2>1. /\ u.id \in DOMAIN orders
        /\ u.kind = "vol" => u.vol > orders[u.id].cum
        /\ u.kind = "price" => orders' = [orders EXCEPT ![u.id].price = u.price]
        /\ u.kind # "price" => orders' = [orders EXCEPT ![u.id].qty = u.vol]
    BY <1>2 DEF Put, Takes
  <2>2. CASE u.kind = "price"
    <3>1. u.price \in Int
      BY <2>2 DEF Updates
    <3> QED
      BY <2>1, <2>2, <3>1 DEF Orders
  <2>3. CASE u.kind = "vol"
    <3>1. u.vol \in Nat
      BY <2>3 DEF Updates
    <3> QED
      BY <2>1, <2>3, <3>1 DEF Orders
  <2> QED
    BY <2>2, <2>3 DEF Updates
<1> QED
  BY <1>1, <1>2

\* An execution, a cancellation, another user's order: the channel's messages
\* are well typed too.
LEMMA ExchangeType ==
  ASSUME ExchangeTypeOK, ws_orders \in Seq(OrderMsgs), ExchangeStep
  PROVE  ExchangeTypeOK' /\ ws_orders' \in Seq(OrderMsgs)
<1> DEFINE Goal == ExchangeTypeOK' /\ ws_orders' \in Seq(OrderMsgs)
<1>1. ASSUME NEW id \in Nat, NEW st \in Executed \cup Ended, NEW c \in Nat, NEW l \in Nat,
             Tell(id, st, c, l)
      PROVE  ws_orders' \in Seq(OrderMsgs)
  <2>1. [id |-> id, status |-> st, cumQty |-> c, leavesQty |-> l] \in OrderMsgs
    BY DEF OrderMsgs
  <2> QED
    BY <1>1, <2>1 DEF Tell
<1>2. ASSUME NEW i \in DOMAIN orders, NEW q \in 1..Leaves(i), Fill(i, q) PROVE Goal
  <2> DEFINE left == Leaves(i) - q
             cum  == orders[i].cum + q
             st   == IF left = 0 THEN "filled" ELSE "live"
  <2>1. /\ orders[i] \in Orders /\ i \in Nat
        /\ orders[i].cum \in Nat /\ orders[i].qty \in Nat
        /\ orders[i].cum <= orders[i].qty
    BY DEF ExchangeTypeOK, Orders
  <2>2. /\ q \in Nat /\ left \in Nat /\ cum \in Nat /\ cum <= orders[i].qty
        /\ st \in {"live", "filled"}
    BY <2>1 DEF Leaves
  <2>3. ws_orders' \in Seq(OrderMsgs)
    <3>1. Tell(i, IF left = 0 THEN "Filled" ELSE "PartiallyFilled", cum, left)
      BY <1>2 DEF Fill
    <3>2. (IF left = 0 THEN "Filled" ELSE "PartiallyFilled") \in Executed \cup Ended
      BY DEF Executed, Ended
    <3> HIDE DEF left, cum
    <3> QED
      BY <1>1, <2>1, <2>2, <3>1, <3>2
  <2>4. orders' = [orders EXCEPT ![i].cum = cum, ![i].status = st]
    BY <1>2 DEF Fill
  <2>5. position' \in Int /\ fills' \in Nat /\ cancels' \in Nat
    BY <1>2, <2>2 DEF Fill, ExchangeTypeOK
  <2> HIDE DEF left, cum, st
  <2>6. /\ orders' \in [DOMAIN orders' -> Orders]
        /\ DOMAIN orders' \subseteq Nat
        /\ \A j \in DOMAIN orders' : orders'[j].cum <= orders'[j].qty
    BY <2>1, <2>2, <2>4 DEF ExchangeTypeOK, Orders
  <2> QED
    BY <2>3, <2>5, <2>6 DEF ExchangeTypeOK
<1>3. ASSUME NEW i \in DOMAIN orders, Cancel(i) PROVE Goal
  <2>1. PICK st \in Ended : i \in Nat /\ orders[i].cum \in Nat /\ Tell(i, st, orders[i].cum, 0)
    BY <1>3 DEF Cancel, ExchangeTypeOK, Orders
  <2>2. ws_orders' \in Seq(OrderMsgs)
    BY <1>1, <2>1 DEF Executed, Ended
  <2> QED
    <3>1. orders' = [orders EXCEPT ![i].status = "canceled"]
      BY <1>3 DEF Cancel
    <3>2. /\ orders' \in [DOMAIN orders' -> Orders]
          /\ DOMAIN orders' \subseteq Nat
          /\ \A j \in DOMAIN orders' : orders'[j].cum <= orders'[j].qty
      BY <3>1 DEF ExchangeTypeOK, Orders
    <3>3. position' \in Int /\ fills' \in Nat /\ cancels' \in Nat
      BY <1>3 DEF Cancel, ExchangeTypeOK
    <3> QED
      BY <2>2, <3>2, <3>3 DEF ExchangeTypeOK
<1>4. ASSUME NEW i \in OtherIDs, CancelOther(i) PROVE Goal
  <2>1. i \in Nat /\ Tell(i, "Canceled", 0, 0)
    BY <1>4, ExchangeAssumption DEF CancelOther
  <2>2. ws_orders' \in Seq(OrderMsgs)
    BY <1>1, <2>1 DEF Executed, Ended
  <2> QED
    BY <1>4, <2>2 DEF CancelOther, ExchangeTypeOK
<1> QED
  BY <1>2, <1>3, <1>4 DEF ExchangeStep
-----------------------------------------------------------------------------
\* The variables start well typed.
LEMMA TypeInit == Init => TypeOK
<1> SUFFICES ASSUME Init PROVE TypeOK
  OBVIOUS
<1>1. TradeTypeOK
  BY DEF Init, TradeInit, TradeTypeOK, Slots, Threads
<1>2. ObsTypeOK
  BY DEF Init, ObsInit, ObsTypeOK, Starting, Running
<1>3. OusTypeOK /\ ws_orders \in Seq(OrderMsgs)
  <2>1. OusTypeOK
    <3>1. /\ ous_pc = "read" /\ ous_slot = "bid" /\ ous_requote = FALSE
          /\ ous_msg = NoOrder /\ ous_targ = 0
      BY DEF Init, OusInit
    <3>2. ous_requote \in BOOLEAN /\ ous_msg \in {NoOrder} \cup NewOrders \cup Updates
      BY <3>1, Zenon
    <3> QED
      BY <3>1, <3>2 DEF OusTypeOK, Slots
  <2>2. ws_orders \in Seq(OrderMsgs)
    BY EmptySeq DEF Init, OusInit
  <2> QED
    BY <2>1, <2>2
<1>4. RestTypeOK
  BY DEF Init, RestInit, RestTypeOK
<1>5. ExchangeTypeOK
  BY DEF Init, ExchangeInit, ExchangeTypeOK
<1> QED
  BY <1>1, <1>2, <1>3, <1>4, <1>5 DEF TypeOK

\* A step of one party leaves the variables of the others alone.
LEMMA TypeStep == TypeOK /\ [Next]_vars => TypeOK'
<1> SUFFICES ASSUME TypeOK, [Next]_vars PROVE TypeOK'
  OBVIOUS
<1> USE DEF TypeOK
<1>1. UNCHANGED tradeVars => TradeTypeOK'
  BY DEF tradeVars, priceVars, orderVars, queueVars, TradeTypeOK
<1>2. UNCHANGED obsVars => ObsTypeOK'
  BY DEF obsVars, ObsTypeOK
<1>3. UNCHANGED ousVars => OusTypeOK'
  BY DEF ousVars, OusTypeOK
<1>4. UNCHANGED restVars => RestTypeOK'
  BY DEF restVars, countVars, clockVars, RestTypeOK
<1>5. UNCHANGED exchangeVars => ExchangeTypeOK'
  BY DEF exchangeVars, ExchangeTypeOK
<1>6. CASE UNCHANGED vars
  BY <1>1, <1>2, <1>3, <1>4, <1>5, <1>6 DEF vars
<1>7. CASE ObsStep(Obs)
  BY <1>3, <1>4, <1>5, <1>7, ObsType DEF ObsStep
<1>8. CASE OusStep(Ous)
  BY <1>2, <1>4, <1>5, <1>8, OusType DEF OusStep
<1>9. CASE RestStep(RestWork \/ GetLock)
  BY <1>2, <1>3, <1>5, <1>9, RestType DEF RestStep
<1>10. CASE SendStep
  <2>1. CASE SendNew /\ Post(Head(new_order_q))
    <3>1. Head(new_order_q) \in NewOrders
      BY <2>1, HeadTail DEF SendNew, TradeTypeOK
    <3>2. TradeTypeOK' /\ RestTypeOK'
      BY <2>1, RestType
    <3>3. ExchangeTypeOK'
      BY <1>10, <2>1, <3>1, PostType DEF SendStep
    <3> QED
      BY <1>2, <1>3, <1>10, <3>2, <3>3 DEF SendStep
  <2>2. CASE SendUpd /\ Put(Head(upd_order_q))
    <3>1. Head(upd_order_q) \in Updates
      BY <2>2, HeadTail DEF SendUpd, TradeTypeOK
    <3>2. TradeTypeOK' /\ RestTypeOK'
      BY <2>2, RestType
    <3>3. ExchangeTypeOK'
      BY <1>10, <2>2, <3>1, PutType DEF SendStep
    <3> QED
      BY <1>2, <1>3, <1>10, <3>2, <3>3 DEF SendStep
  <2> QED
    BY <1>10, <2>1, <2>2 DEF SendStep
<1>11. CASE ExchangeStep
  BY <1>1, <1>2, <1>3, <1>4, <1>11, ExchangeType DEF ExchangeStep
<1> QED
  BY <1>6, <1>7, <1>8, <1>9, <1>10, <1>11 DEF Next

\* Every variable keeps its type, the messages that wait to be queued exist
\* where a thread is about to queue them, and no order is filled beyond its
\* volume, for any books, volumes and limits (TradeLogic.hpp:12-54).
THEOREM TypesHold == Spec => []TypeOK
  BY TypeInit, TypeStep, PTL DEF Spec

-----------------------------------------------------------------------------
(***************************************************************************)
(* While update_targ_prices is under way some targets are new and some are *)
(* of the book before.  What orders them all the time is where the stores  *)
(* still to be done will leave each of them.                               *)
(***************************************************************************)
Never(stores, s) == \A j \in 1..Len(stores) : stores[j].slot # s

\* The stores leave s at p, where it may be already.
LeftAt(stores, prices, s, p) == IsLast(stores, s, p) \/ (Never(stores, s) /\ prices[s] = p)

QuotesInv ==
  /\ obs_pc \notin {"first_store", "store"} => obs_stores = <<>>
  /\ obs_pc # "start" =>
       \E bid, posnBid, posnAsk, ask \in Int :
         /\ Ordered(bid, posnBid, posnAsk, ask)
         /\ LeftAt(obs_stores, targ, "bid", bid)
         /\ LeftAt(obs_stores, targ, "bid_posn", posnBid)
         /\ LeftAt(obs_stores, targ, "ask_posn", posnAsk)
         /\ LeftAt(obs_stores, targ, "ask", ask)

-----------------------------------------------------------------------------
\* The next store takes no target off the way to where it is left.
LEMMA StoreKeeps ==
  ASSUME NEW st \in Seq(Stores), st # <<>>, NEW prices \in [Slots -> Int],
         NEW s \in Slots, NEW p, LeftAt(st, prices, s, p)
  PROVE  LeftAt(Tail(st), [prices EXCEPT ![Head(st).slot] = Head(st).price], s, p)
<1> DEFINE rest == Tail(st)
           new  == [prices EXCEPT ![Head(st).slot] = Head(st).price]
<1>1. /\ Len(st) \in Nat \ {0} /\ Len(rest) = Len(st) - 1 /\ Head(st) = st[1]
      /\ \A i \in 1..Len(rest) : rest[i] = st[i + 1]
  OBVIOUS
<1>2. st[1] \in Stores
  BY <1>1, ElementOfSeq
<1>3. new[s] = IF st[1].slot = s THEN st[1].price ELSE prices[s]
  BY <1>1, <1>2 DEF Stores
<1> SUFFICES LeftAt(rest, new, s, p)
  OBVIOUS
<1> HIDE DEF rest, new
<1>4. CASE Never(st, s) /\ prices[s] = p
  BY <1>1, <1>3, <1>4 DEF Never, LeftAt
<1>5. CASE IsLast(st, s, p)
  <2>1. PICK i \in 1..Len(st) : /\ st[i].slot = s /\ st[i].price = p
                                /\ \A j \in i + 1..Len(st) : st[j].slot # s
    BY <1>5 DEF IsLast
  <2>2. CASE i = 1
    <3>1. Never(rest, s)
      BY <1>1, <2>1, <2>2 DEF Never
    <3> QED
      BY <1>3, <2>1, <2>2, <3>1 DEF LeftAt
  <2>3. CASE i > 1
    <3>1. i - 1 \in 1..Len(rest) /\ rest[i - 1] = st[i]
      BY <1>1, <2>1, <2>3
    <3>2. \A j \in (i - 1) + 1..Len(rest) : rest[j].slot # s
      BY <1>1, <2>1, <2>3
    <3> QED
      BY <2>1, <3>1, <3>2 DEF IsLast, LeftAt
  <2> QED
    BY <2>2, <2>3
<1> QED
  BY <1>4, <1>5 DEF LeftAt

-----------------------------------------------------------------------------
LEMMA QuotesInit == Init => QuotesInv
  BY DEF Init, ObsInit, QuotesInv

\* The order book thread, which alone stores targets.
LEMMA QuotesObs ==
  ASSUME TypeOK, QuotesInv, ObsStep(Obs)
  PROVE  QuotesInv'
<1>1. targ \in [Slots -> Int] /\ book \in Books /\ vol_ratio \in Nat /\ obs_stores \in Seq(Stores)
  BY PlacesAreSlots DEF TypeOK, TradeTypeOK, ObsTypeOK, Stores
<1>2. \A b \in Books : b.bid \in Int /\ b.ask \in Int /\ b.ratio \in Nat /\ b.bid < b.ask
  BY BookAssumption
<1>3. ASSUME NEW b \in Books, NEW ratio \in Nat, obs_stores' = TargetStores(b.bid, b.ask, ratio),
             obs_pc' \in {"first_store", "store"}
      PROVE  QuotesInv'
  <2>1. PICK bid, posnBid, posnAsk, ask \in Int :
          /\ Ordered(bid, posnBid, posnAsk, ask)
          /\ IsLast(obs_stores', "bid", bid) /\ IsLast(obs_stores', "bid_posn", posnBid)
          /\ IsLast(obs_stores', "ask_posn", posnAsk) /\ IsLast(obs_stores', "ask", ask)
    BY <1>2, <1>3, StoresOrdered
  <2>2. \A s, p : IsLast(obs_stores', s, p) => LeftAt(obs_stores', targ', s, p)
    BY DEF LeftAt
  <2> QED
    BY <1>3, <2>1, <2>2 DEF QuotesInv
<1>4. CASE InitTrading
  BY <1>1, <1>2, <1>3, <1>4 DEF InitTrading
<1>5. CASE \E b \in Books : OnBestPrice(b)
  BY <1>1, <1>3, <1>5 DEF OnBestPrice
<1>6. CASE StoreTarget
  <2>1. obs_stores # <<>> /\ obs_pc # "start"
    BY <1>6 DEF StoreTarget, TypeOK, ObsTypeOK
  <2>2. /\ targ' = [targ EXCEPT ![Head(obs_stores).slot] = Head(obs_stores).price]
        /\ obs_stores' = Tail(obs_stores)
    BY <1>6 DEF StoreTarget
  <2>3. obs_pc' \notin {"first_store", "store"} => obs_stores' = <<>>
    <3>1. Len(obs_stores) \in Nat \ {0} /\ Len(Tail(obs_stores)) = Len(obs_stores) - 1
      BY <1>1, <2>1
    <3>2. obs_pc \in {"first_store", "store"} /\ (Len(obs_stores) > 1 => obs_pc' = obs_pc)
      BY <1>6 DEF StoreTarget
    <3>3. Tail(obs_stores) \in Seq(Stores)
      BY <1>1, <2>1
    <3> QED
      BY <2>2, <3>1, <3>2, <3>3, EmptySeq
  <2>4. PICK bid, posnBid, posnAsk, ask \in Int :
          /\ Ordered(bid, posnBid, posnAsk, ask)
          /\ LeftAt(obs_stores, targ, "bid", bid)
          /\ LeftAt(obs_stores, targ, "bid_posn", posnBid)
          /\ LeftAt(obs_stores, targ, "ask_posn", posnAsk)
          /\ LeftAt(obs_stores, targ, "ask", ask)
    BY <2>1 DEF QuotesInv
  <2>5. /\ LeftAt(obs_stores', targ', "bid", bid)
        /\ LeftAt(obs_stores', targ', "bid_posn", posnBid)
        /\ LeftAt(obs_stores', targ', "ask_posn", posnAsk)
        /\ LeftAt(obs_stores', targ', "ask", ask)
    BY <1>1, <2>1, <2>2, <2>4, StoreKeeps DEF Slots
  <2> QED
    BY <2>3, <2>4, <2>5 DEF QuotesInv
<1>7. ASSUME UNCHANGED <<targ, obs_stores>>, obs_pc # "start",
             obs_pc \notin {"first_store", "store"}, obs_pc' \notin {"first_store", "store"}
      PROVE  QuotesInv'
  <2>1. obs_stores' = <<>>
    BY <1>7 DEF QuotesInv
  <2>2. PICK bid, posnBid, posnAsk, ask \in Int :
          /\ Ordered(bid, posnBid, posnAsk, ask)
          /\ LeftAt(obs_stores, targ, "bid", bid)
          /\ LeftAt(obs_stores, targ, "bid_posn", posnBid)
          /\ LeftAt(obs_stores, targ, "ask_posn", posnAsk)
          /\ LeftAt(obs_stores, targ, "ask", ask)
    BY <1>7 DEF QuotesInv
  <2>3. obs_stores' = obs_stores /\ targ' = targ
    BY <1>7
  <2> QED
    BY <2>1, <2>2, <2>3 DEF QuotesInv
<1>8. CASE CountOrder \/ TakeID \/ BuildFirstOrder \/ PushFirstOrder
  BY <1>7, <1>8 DEF CountOrder, TakeID, BuildFirstOrder, PushFirstOrder, PushNewOrder, NextSlot,
                    tradeVars, priceVars
<1>9. CASE \E b \in Books : OnEarlierEntry(b) \/ OnVolume(b)
  BY <1>7, <1>9 DEF OnEarlierEntry, OnVolume, Handle, tradeVars, priceVars
<1>10. CASE CompareSlot \/ LoadOpen \/ BuildAmend \/ PushAmend
  BY <1>7, <1>10 DEF CompareSlot, LoadOpen, BuildAmend, PushAmend, NextSlot, tradeVars, priceVars
<1> QED
  BY <1>4, <1>5, <1>6, <1>8, <1>9, <1>10 DEF ObsStep, Obs

\* Nobody else touches a target.
LEMMA ElseUnchanged ==
  ASSUME \/ OusStep(Ous) \/ RestStep(RestWork \/ GetLock)
         \/ SendStep \/ ExchangeStep \/ UNCHANGED vars
  PROVE  UNCHANGED <<targ, obsVars>>
<1>1. CASE OusStep(Ous)
  BY <1>1 DEF OusStep, Ous, OusWork, OusRead, OusLockedWork, Ignore, OnFill, OnCancelled,
              BuildNewOrder, PushOpposite, RaiseOpen, PushVolume, tradeVars, priceVars
<1>2. CASE RestStep(RestWork \/ GetLock)
  BY <1>2 DEF RestStep, RestWork, Connect, CheckLimits, NoNew, NoUpd, Unlock, GetLock,
              restUnused, priceVars
<1>3. CASE SendStep
  BY <1>3 DEF SendStep, SendNew, SendUpd, restUnused, priceVars
<1>4. CASE ExchangeStep \/ UNCHANGED vars
  BY <1>4 DEF ExchangeStep, vars, tradeVars, priceVars
<1> QED
  BY <1>1, <1>2, <1>3, <1>4

LEMMA QuotesElse ==
  ASSUME QuotesInv, \/ OusStep(Ous) \/ RestStep(RestWork \/ GetLock)
                    \/ SendStep \/ ExchangeStep \/ UNCHANGED vars
  PROVE  QuotesInv'
<1>1. UNCHANGED <<targ, obsVars>>
  BY ElseUnchanged
<1> QED
  BY <1>1 DEF obsVars, QuotesInv

\* Between two messages of the book the offers stand outside of or at the position
\* prices, and those do not cross, for any spread, quotient and offset
\* (TradeLogic.hpp:89-110).
THEOREM QuotesHold == Spec => []QuotesUncrossed
<1>1. Init => QuotesInv
  BY QuotesInit
<1>2. TypeOK /\ QuotesInv /\ [Next]_vars => QuotesInv'
  BY QuotesObs, QuotesElse DEF Next
<1>3. QuotesInv => QuotesUncrossed
  <2> SUFFICES ASSUME QuotesInv, obs_pc = "idle" PROVE QuotesUncrossed
    BY DEF QuotesUncrossed
  <2>1. obs_stores = <<>>
    BY DEF QuotesInv
  <2>2. \A s, p : LeftAt(obs_stores, targ, s, p) => targ[s] = p
    BY <2>1 DEF LeftAt, IsLast
  <2> QED
    BY <2>2 DEF QuotesInv, Ordered, QuotesUncrossed
<1> QED
  BY <1>1, <1>2, <1>3, TypesHold, PTL DEF Spec

-----------------------------------------------------------------------------
\* A behaviour with its history is one of the program: what holds of every behaviour
\* of MarketMaker may be used.
LEMMA HistoryIsReal == HistorySpec => Spec
<1>1. [Next /\ Noted]_allVars => [Next]_vars
  BY DEF allVars
<1> QED
  BY <1>1, PTL DEF HistorySpec, NotedInit, Spec

(***************************************************************************)
(* Where the stores still to be done leave the targets is what the best    *)
(* prices call for, with the volume quotient of some book seen, unless a   *)
(* move was hidden since they were computed.                               *)
(***************************************************************************)
FollowInv ==
  /\ obs_pc \notin {"first_store", "store"} => obs_stores = <<>>
  /\ obs_pc # "start" =>
       /\ \E b \in Books : vol_ratio = b.ratio
       /\ ~hidden => \E b \in Books :
            LET to == TargetsOf(book.bid, book.ask, b.ratio)
            IN  to \in [Slots -> Int] /\ \A s \in Slots : LeftAt(obs_stores, targ, s, to[s])

LEMMA FollowInit == Init => FollowInv
  BY DEF Init, ObsInit, FollowInv

\* The order book thread: what it is about to store is of the book it has read.
LEMMA FollowObs ==
  ASSUME TypeOK, FollowInv, ObsStep(Obs), Noted
  PROVE  FollowInv'
<1>1. targ \in [Slots -> Int] /\ book \in Books /\ vol_ratio \in Nat /\ obs_stores \in Seq(Stores)
  BY PlacesAreSlots DEF TypeOK, TradeTypeOK, ObsTypeOK, Stores
<1>2. \A b \in Books : b.bid \in Int /\ b.ask \in Int /\ b.ratio \in Nat /\ b.bid < b.ask
  BY BookAssumption
<1>3. ASSUME NEW b \in Books, NEW r \in Books, book' = b, \E q \in Books : vol_ratio' = q.ratio,
             obs_stores' = TargetStores(b.bid, b.ask, r.ratio),
             obs_pc' \in {"first_store", "store"}
      PROVE  FollowInv'
  <2> DEFINE to == TargetsOf(b.bid, b.ask, r.ratio)
  <2>1. to \in [Slots -> Int] /\ \A s \in Slots : IsLast(obs_stores', s, to[s])
    BY <1>2, <1>3, TargetsStored, PlacesAreSlots
  <2>2. \A s \in Slots : LeftAt(obs_stores', targ', s, to[s])
    BY <2>1 DEF LeftAt
  <2> HIDE DEF to
  <2>3. \E q \in Books : LET u == TargetsOf(book'.bid, book'.ask, q.ratio)
                         IN  u \in [Slots -> Int] /\ \A s \in Slots : LeftAt(obs_stores', targ', s, u[s])
    BY <1>3, <2>1, <2>2 DEF to
  <2> QED
    BY <1>3, <2>3 DEF FollowInv
<1>4. CASE InitTrading
  <2>1. book' = book /\ vol_ratio' = book.ratio
    BY <1>4 DEF InitTrading
  <2>2. obs_pc' = "first_store" /\ obs_stores' = TargetStores(book.bid, book.ask, book.ratio)
    BY <1>4 DEF InitTrading
  <2> QED
    BY <1>1, <1>3, <2>1, <2>2
<1>5. ASSUME NEW b \in Books, OnBestPrice(b) PROVE FollowInv'
  <2>1. book' = b /\ vol_ratio' = b.ratio /\ obs_pc' = "store" /\ obs_pc = "idle"
        /\ obs_stores' = TargetStores(b.bid, b.ask, vol_ratio)
    BY <1>5 DEF OnBestPrice, Handle
  <2>2. PICK r \in Books : vol_ratio = r.ratio
    BY <2>1 DEF FollowInv
  <2> QED
    BY <1>3, <2>1, <2>2
<1>6. CASE StoreTarget
  <2>1. obs_stores # <<>> /\ obs_pc # "start"
    BY <1>6 DEF StoreTarget, TypeOK, ObsTypeOK
  <2>2. /\ targ' = [targ EXCEPT ![Head(obs_stores).slot] = Head(obs_stores).price]
        /\ obs_stores' = Tail(obs_stores) /\ book' = book /\ vol_ratio' = vol_ratio
    BY <1>6 DEF StoreTarget
  <2>3. obs_pc' \notin {"first_store", "store"} => obs_stores' = <<>>
    <3>1. Len(obs_stores) \in Nat \ {0} /\ Len(Tail(obs_stores)) = Len(obs_stores) - 1
      BY <1>1, <2>1
    <3>2. obs_pc \in {"first_store", "store"} /\ (Len(obs_stores) > 1 => obs_pc' = obs_pc)
      BY <1>6 DEF StoreTarget
    <3>3. Tail(obs_stores) \in Seq(Stores)
      BY <1>1, <2>1
    <3> QED
      BY <2>2, <3>1, <3>2, <3>3, EmptySeq
  <2>4. ~hidden' => ~hidden
    BY <1>6 DEF StoreTarget, Noted, Computes
  <2>5. ASSUME ~hidden'
        PROVE  \E q \in Books : LET u == TargetsOf(book'.bid, book'.ask, q.ratio)
                                IN  u \in [Slots -> Int]
                                    /\ \A s \in Slots : LeftAt(obs_stores', targ', s, u[s])
    <3>1. PICK q \in Books : LET u == TargetsOf(book.bid, book.ask, q.ratio)
                             IN  u \in [Slots -> Int]
                                 /\ \A s \in Slots : LeftAt(obs_stores, targ, s, u[s])
      BY <2>1, <2>4, <2>5 DEF FollowInv
    <3>2. LET u == TargetsOf(book.bid, book.ask, q.ratio)
          IN  u \in [Slots -> Int] /\ \A s \in Slots : LeftAt(obs_stores', targ', s, u[s])
      BY <1>1, <2>1, <2>2, <3>1, StoreKeeps
    <3> QED
      BY <2>2, <3>2
  <2>6. \E r \in Books : vol_ratio' = r.ratio
    BY <2>1, <2>2 DEF FollowInv
  <2> QED
    BY <2>2, <2>3, <2>5, <2>6 DEF FollowInv
<1>7. ASSUME UNCHANGED <<targ, obs_stores>>, obs_pc # "start",
             obs_pc \notin {"first_store", "store"}, obs_pc' \notin {"first_store", "store"},
             \E b \in Books : vol_ratio' = b.ratio
      PROVE  FollowInv'
  <2>1. obs_stores = <<>> /\ obs_stores' = obs_stores /\ targ' = targ
    BY <1>7 DEF FollowInv
  <2> SUFFICES ASSUME ~hidden'
               PROVE  \E q \in Books : LET u == TargetsOf(book'.bid, book'.ask, q.ratio)
                                       IN  u \in [Slots -> Int]
                                           /\ \A s \in Slots : LeftAt(obs_stores', targ', s, u[s])
    BY <1>7, <2>1 DEF FollowInv
  <2>3. ~hidden /\ book'.bid = book.bid /\ book'.ask = book.ask
    BY <1>7 DEF Noted, Computes, Moves
  <2>2. PICK q \in Books : LET u == TargetsOf(book.bid, book.ask, q.ratio)
                           IN  u \in [Slots -> Int]
                               /\ \A s \in Slots : LeftAt(obs_stores, targ, s, u[s])
    BY <1>7, <2>3 DEF FollowInv
  <2> QED
    BY <2>1, <2>2, <2>3
<1>8. CASE CountOrder \/ TakeID \/ BuildFirstOrder \/ PushFirstOrder
  <2>1. UNCHANGED <<targ, obs_stores, book, vol_ratio>> /\ obs_pc # "start"
        /\ obs_pc \notin {"first_store", "store"} /\ obs_pc' \notin {"first_store", "store"}
    BY <1>8 DEF CountOrder, TakeID, BuildFirstOrder, PushFirstOrder, PushNewOrder, NextSlot,
                tradeVars, priceVars
  <2> QED
    BY <1>7, <2>1 DEF FollowInv
<1>9. ASSUME NEW b \in Books, OnEarlierEntry(b) \/ OnVolume(b) PROVE FollowInv'
  <2>1. UNCHANGED <<targ, obs_stores>> /\ obs_pc = "idle" /\ obs_pc' \in {"idle", "diff"}
        /\ vol_ratio' \in {b.ratio, vol_ratio}
    BY <1>9 DEF OnEarlierEntry, OnVolume, Handle, SameBest, tradeVars, priceVars
  <2>2. \E c \in Books : vol_ratio' = c.ratio
    BY <2>1 DEF FollowInv
  <2> QED
    BY <1>7, <2>1, <2>2
<1>10. CASE CompareSlot \/ LoadOpen \/ BuildAmend \/ PushAmend
  <2>1. UNCHANGED <<targ, obs_stores, book, vol_ratio>> /\ obs_pc # "start"
        /\ obs_pc \notin {"first_store", "store"} /\ obs_pc' \notin {"first_store", "store"}
    BY <1>10 DEF CompareSlot, LoadOpen, BuildAmend, PushAmend, NextSlot, tradeVars, priceVars
  <2> QED
    BY <1>7, <2>1 DEF FollowInv
<1> QED
  BY <1>4, <1>5, <1>6, <1>8, <1>9, <1>10 DEF ObsStep, Obs

\* The other threads touch neither a target nor the book.
LEMMA FollowElse ==
  ASSUME FollowInv, Noted \/ UNCHANGED history,
         \/ OusStep(Ous) \/ RestStep(RestWork \/ GetLock)
         \/ SendStep \/ ExchangeStep \/ UNCHANGED vars
  PROVE  FollowInv'
<1>1. UNCHANGED <<targ, obsVars>>
  BY ElseUnchanged
<1>2. ~hidden' => ~hidden
  BY <1>1 DEF obsVars, Noted, Computes, Moves, history
<1> QED
  BY <1>1, <1>2 DEF obsVars, FollowInv

\* However many entries the messages of the book have, the targets between two
\* messages are those of the best prices, never a mix of two books, though
\* update_targ_prices stores them one by one; only an entry that was not the last of
\* its message leaves them behind, until the next message that computes them
\* (OrderBookStream.hpp:96-110, TradeLogic.hpp:89-110).
THEOREM TargetsHold == HistorySpec => []TargetsFollowPrices
<1>1. TypeOK /\ FollowInv /\ [Next /\ Noted]_allVars => FollowInv'
  BY FollowObs, FollowElse DEF Next, allVars
<1>2. TypeOK /\ FollowInv => TargetsFollowPrices
  <2> SUFFICES ASSUME TypeOK, FollowInv, obs_pc = "idle", ~hidden PROVE TargetsFollowPrices
    BY DEF TargetsFollowPrices
  <2>1. obs_stores = <<>> /\ targ \in [Slots -> Int]
    BY DEF FollowInv, TypeOK, TradeTypeOK
  <2>2. PICK b \in Books : LET to == TargetsOf(book.bid, book.ask, b.ratio)
                           IN  to \in [Slots -> Int]
                               /\ \A s \in Slots : LeftAt(obs_stores, targ, s, to[s])
    BY DEF FollowInv
  <2> DEFINE to == TargetsOf(book.bid, book.ask, b.ratio)
  <2>3. to \in [Slots -> Int] /\ \A s \in Slots : LeftAt(obs_stores, targ, s, to[s])
    BY <2>2
  <2> HIDE DEF to
  <2>4. \A s, p : LeftAt(obs_stores, targ, s, p) => targ[s] = p
    BY <2>1 DEF LeftAt, IsLast
  <2>5. targ = to
    BY <2>1, <2>3, <2>4
  <2> QED
    BY <2>5 DEF to, TargetsFollowPrices
<1> QED
  BY <1>1, <1>2, FollowInit, HistoryIsReal, TypesHold, PTL DEF HistorySpec, NotedInit

-----------------------------------------------------------------------------
(***************************************************************************)
(* The order book thread has every open order at its target or still to be *)
(* checked, but those the other thread has opened since it read its        *)
(* message.  Before the first offers it has stored no target to be at.     *)
(***************************************************************************)
ToCheck == {obs_todo[i] : i \in DOMAIN obs_todo}

TrackInv ==
  /\ obs_pc \in {"start", "first_store"} => \A s \in Slots \ unchecked : ~is_open[s]
  /\ obs_pc = "idle" => obs_todo = <<>>
  /\ obs_pc = "store" => ToCheck = Slots
  /\ obs_pc = "new_push" => obs_msg.slot = Head(obs_todo)
  /\ \A s \in Slots \ unchecked : is_open[s] => curr[s] = targ[s] \/ s \in ToCheck

\* Only the head is taken off what is still to be checked.
LEMMA CheckedHead ==
  ASSUME NEW q \in Seq(Slots), q # <<>>
  PROVE  /\ Head(q) \in Slots
         /\ \A i \in DOMAIN q : q[i] = Head(q) \/ \E j \in DOMAIN Tail(q) : Tail(q)[j] = q[i]
         /\ Len(q) <= 1 => Tail(q) = <<>>
<1>1. /\ Len(q) \in Nat \ {0} /\ DOMAIN q = 1..Len(q) /\ q[1] = Head(q)
      /\ Tail(q) \in Seq(Slots) /\ Len(Tail(q)) = Len(q) - 1
      /\ \A i \in 1..Len(q) - 1 : Tail(q)[i] = q[i + 1]
      /\ Head(q) \in Slots
  OBVIOUS
<1>2. DOMAIN Tail(q) = 1..Len(q) - 1
  BY <1>1, LenProperties
<1>3. \A i \in DOMAIN q : i = 1 \/ (i - 1 \in DOMAIN Tail(q) /\ Tail(q)[i - 1] = q[i])
  BY <1>1, <1>2
<1>4. Len(q) <= 1 => Tail(q) = <<>>
  BY <1>1, EmptySeq
<1> QED
  BY <1>1, <1>3, <1>4

LEMMA TrackInit == Init => TrackInv
<1> SUFFICES ASSUME Init PROVE TrackInv
  OBVIOUS
<1>1. (\A s \in Slots : ~is_open[s]) /\ obs_pc = "start"
  BY DEF Init, TradeInit, ObsInit
<1> QED
  BY <1>1 DEF TrackInv

\* The order book thread takes an order off its list when it is closed or moved to
\* its target, and puts all on the list when the targets change.
LEMMA TrackObs ==
  ASSUME TypeOK, TrackInv, ObsStep(Obs), Noted
  PROVE  TrackInv'
<1>1. /\ obs_todo \in Seq(Slots)
      /\ obs_pc \notin {"start", "idle"} => obs_todo # <<>>
      /\ targ \in [Slots -> Int] /\ curr \in [Slots -> Int] /\ is_open \in [Slots -> BOOLEAN]
      /\ obs_stores \in Seq([slot : Slots, price : Int])
      /\ obs_pc \in {"first_store", "store"} => obs_stores # <<>>
  BY DEF TypeOK, TradeTypeOK, ObsTypeOK
<1>2. unchecked' = IF obs_pc = "idle" /\ obs_pc' # "idle" THEN unchecked \ ToCheck' ELSE unchecked
  BY DEF ObsStep, ousVars, Noted, Checks, ToCheck
<1>3. CASE InitTrading
  <2>1. /\ obs_pc = "start" /\ obs_pc' = "first_store" /\ is_open' = is_open
        /\ \A s \in Slots \ unchecked : ~is_open[s]
    BY <1>3 DEF InitTrading, TrackInv, tradeVars, orderVars
  <2> QED
    BY <1>2, <2>1 DEF TrackInv
<1>4. CASE StoreTarget
  <2>1. /\ obs_pc' \in {obs_pc, "place", "diff"}
        /\ obs_pc = "first_store" => obs_pc' \in {"first_store", "place"}
        /\ obs_pc = "store" => obs_pc' \in {"store", "diff"}
        /\ UNCHANGED <<obs_todo, obs_msg, curr, is_open>> /\ obs_pc \in {"first_store", "store"}
    BY <1>4 DEF StoreTarget, orderVars
  <2>2. ToCheck' = ToCheck
    BY <2>1 DEF ToCheck
  <2>3. CASE obs_pc = "first_store"
    BY <1>2, <2>1, <2>3 DEF TrackInv
  <2>4. CASE obs_pc = "store"
    BY <1>2, <2>1, <2>2, <2>4 DEF TrackInv
  <2> QED
    BY <2>1, <2>3, <2>4
<1>5. ASSUME UNCHANGED <<obs_todo, targ, curr, is_open>>,
             obs_pc \notin {"start", "first_store", "idle", "store"},
             obs_pc' \notin {"start", "first_store", "idle", "store"},
             obs_pc' = "new_push" => obs_msg'.slot = Head(obs_todo)
      PROVE  TrackInv'
  <2>1. ToCheck' = ToCheck
    BY <1>5 DEF ToCheck
  <2> QED
    BY <1>2, <1>5, <2>1 DEF TrackInv
<1>6. CASE CountOrder \/ TakeID
  BY <1>5, <1>6 DEF CountOrder, TakeID, priceVars
<1>7. CASE BuildFirstOrder
  BY <1>5, <1>7 DEF BuildFirstOrder, NewOrderMsg, tradeVars, priceVars, orderVars
<1>8. ASSUME NextSlot("place") \/ NextSlot("diff"), targ' = targ, obs_pc \notin {"start", "idle"},
             \A s \in Slots \ {Head(obs_todo)} : is_open'[s] = is_open[s] /\ curr'[s] = curr[s],
             is_open'[Head(obs_todo)] => curr'[Head(obs_todo)] = targ[Head(obs_todo)]
      PROVE  TrackInv'
  <2>1. /\ obs_todo # <<>> /\ obs_todo' = Tail(obs_todo)
        /\ obs_pc' = "idle" => Len(obs_todo) <= 1
    BY <1>1, <1>8 DEF NextSlot
  <2>2. /\ Head(obs_todo) \in Slots
        /\ \A s \in ToCheck : s = Head(obs_todo) \/ s \in ToCheck'
        /\ obs_pc' = "idle" => obs_todo' = <<>>
    <3>1. PICK q \in Seq(Slots) : q = obs_todo
      BY <1>1
    <3>2. /\ Head(q) \in Slots
          /\ Len(q) <= 1 => Tail(q) = <<>>
          /\ \A i \in DOMAIN q : q[i] = Head(q) \/ \E j \in DOMAIN Tail(q) : Tail(q)[j] = q[i]
      BY <2>1, <3>1, CheckedHead
    <3>3. \A s \in ToCheck : s = Head(obs_todo) \/ s \in ToCheck'
      BY <2>1, <3>1, <3>2 DEF ToCheck
    <3> QED
      BY <2>1, <3>1, <3>2, <3>3
  <2>3. ASSUME NEW s \in Slots \ unchecked, is_open'[s]
        PROVE  curr'[s] = targ'[s] \/ s \in ToCheck'
    BY <1>8, <2>2, <2>3 DEF TrackInv
  <2>4. obs_pc' \in {"place", "diff", "idle"}
    BY <1>8 DEF NextSlot
  <2> QED
    BY <1>2, <2>2, <2>3, <2>4 DEF TrackInv
<1>9. CASE PushFirstOrder
  <2>1. obs_msg.slot = Head(obs_todo) /\ obs_pc = "new_push"
    BY <1>9 DEF PushFirstOrder, TrackInv
  <2>2. /\ curr' = [curr EXCEPT ![obs_msg.slot] = targ[obs_msg.slot]]
        /\ is_open' = [is_open EXCEPT ![obs_msg.slot] = TRUE]
        /\ targ' = targ /\ NextSlot("place")
    BY <1>9 DEF PushFirstOrder, PushNewOrder
  <2>3. Head(obs_todo) \in Slots
    BY <1>1, <2>1, CheckedHead
  <2> QED
    BY <1>1, <1>8, <2>1, <2>2, <2>3
<1>10. ASSUME NEW b \in Books, OnBestPrice(b) PROVE TrackInv'
  <2>1. /\ obs_pc = "idle" /\ obs_pc' = "store"
        /\ obs_todo' = <<"bid", "ask", "bid_posn", "ask_posn">>
    BY <1>10 DEF OnBestPrice, Handle
  <2>2. ToCheck' = Slots
    <3> DEFINE q == <<"bid", "ask", "bid_posn", "ask_posn">>
    <3>1. DOMAIN q = {1, 2, 3, 4}
      OBVIOUS
    <3>2. q[1] = "bid" /\ q[2] = "ask" /\ q[3] = "bid_posn" /\ q[4] = "ask_posn"
      OBVIOUS
    <3> HIDE DEF q
    <3> QED
      BY <2>1, <3>1, <3>2 DEF ToCheck, Slots, q
  <2> QED
    BY <1>2, <2>1, <2>2 DEF TrackInv
<1>11. ASSUME NEW b \in Books, OnEarlierEntry(b) \/ OnVolume(b) PROVE TrackInv'
  <2>1. /\ obs_pc = "idle" /\ obs_todo = <<>> /\ UNCHANGED <<targ, curr, is_open>>
        /\ \/ obs_pc' = "idle" /\ obs_todo' = obs_todo
           \/ obs_pc' = "diff"
    BY <1>11 DEF OnEarlierEntry, OnVolume, Handle, tradeVars, priceVars, orderVars, TrackInv
  <2>2. ToCheck = {}
    BY <2>1, EmptySeq DEF ToCheck
  <2> QED
    BY <1>2, <2>1, <2>2 DEF TrackInv
<1>12. CASE CompareSlot \/ LoadOpen
  <2>1. /\ UNCHANGED <<targ, curr, is_open>> /\ obs_pc \in {"diff", "open", "price"}
        /\ \/ /\ obs_todo' = obs_todo
              /\ obs_pc' \in {"open", "price", "msg"}
           \/ /\ NextSlot("diff")
              /\ is_open[Head(obs_todo)] => curr[Head(obs_todo)] = targ[Head(obs_todo)]
    BY <1>12 DEF CompareSlot, LoadOpen, tradeVars, priceVars, orderVars
  <2> QED
    BY <1>5, <1>8, <2>1
<1>13. CASE BuildAmend
  BY <1>5, <1>13 DEF BuildAmend, tradeVars, priceVars, orderVars
<1>14. CASE PushAmend
  <2>1. /\ curr' = [curr EXCEPT ![Head(obs_todo)] = targ[Head(obs_todo)]]
        /\ UNCHANGED <<targ, is_open>> /\ NextSlot("diff") /\ obs_pc = "push"
    BY <1>14 DEF PushAmend, orderVars
  <2>2. Head(obs_todo) \in Slots
    BY <1>1, <2>1, CheckedHead
  <2> QED
    BY <1>1, <1>8, <2>1, <2>2
<1> QED
  BY <1>3, <1>4, <1>6, <1>7, <1>9, <1>10, <1>11, <1>12, <1>13, <1>14 DEF ObsStep, Obs

\* The order update thread opens the order it notes as unchecked, closes others, and
\* otherwise makes no current price anything but the target.
LEMMA TrackOus ==
  ASSUME TypeOK, TrackInv, OusStep(Ous), Noted
  PROVE  TrackInv'
<1>1. UNCHANGED <<targ, obsVars>>
  BY ElseUnchanged
<1>2. /\ ToCheck' = ToCheck /\ targ' = targ
      /\ obs_pc' = obs_pc /\ obs_todo' = obs_todo /\ obs_msg' = obs_msg
  BY <1>1 DEF obsVars, ToCheck
<1>3. /\ unchecked' = IF ous_pc = "raise" /\ ous_pc' = "read" THEN unchecked \cup {ous_slot}
                      ELSE unchecked
      /\ curr \in [Slots -> Int] /\ is_open \in [Slots -> BOOLEAN] /\ ous_slot \in Slots
  BY <1>2 DEF Noted, Checks, TypeOK, TradeTypeOK, OusTypeOK
<1>4. ASSUME \A s \in Slots \ unchecked' :
                /\ s \notin unchecked
                /\ is_open'[s] => is_open[s]
                /\ curr'[s] \in {curr[s], targ[s]}
      PROVE  TrackInv'
  <2>1. \A s \in Slots \ unchecked' : s \in Slots \ unchecked /\ (is_open'[s] => is_open[s])
    BY <1>4
  <2>2. \A s \in Slots \ unchecked' : is_open'[s] => curr'[s] = targ[s] \/ s \in ToCheck
    BY <1>4, <2>1 DEF TrackInv
  <2> QED
    BY <1>2, <2>1, <2>2 DEF TrackInv
<1>5. CASE Ignore \/ PushOpposite \/ PushVolume
  BY <1>3, <1>4, <1>5 DEF Ignore, PushOpposite, PushVolume, tradeVars, priceVars, orderVars, ousVars
<1>6. ASSUME NEW s \in Slots, NEW m, OnFill(s, m) \/ OnCancelled(s, m) PROVE TrackInv'
  <2>1. /\ curr' = curr /\ ous_pc = "read"
        /\ \A u \in Slots : is_open'[u] => is_open[u]
    BY <1>3, <1>6 DEF OnFill, OnCancelled, OpenAfterFill, Receive, priceVars
  <2> QED
    BY <1>3, <1>4, <2>1
<1>7. CASE BuildNewOrder
  BY <1>3, <1>4, <1>7 DEF BuildNewOrder, orderVars
<1>8. CASE RaiseOpen
  BY <1>3, <1>4, <1>8 DEF RaiseOpen
<1> QED
  BY <1>5, <1>6, <1>7, <1>8 DEF OusStep, Ous, OusWork, OusRead, OusLockedWork

\* Whatever is executed, cancelled or lost, and however the two threads' loads and
\* stores fall between one another: between two messages of the book every open order
\* is believed at its target, but those the order update thread has opened since the
\* last message that checks them was read.  What a check misses, the next one finds
\* (TradeLogic.hpp:153-187, OrderUpdateStream.hpp:63-238).
THEOREM TracksHold == HistorySpec => []CurrTracksTarget
<1>1. TypeOK /\ TrackInv /\ [Next /\ Noted]_allVars => TrackInv'
  <2> SUFFICES ASSUME TypeOK, TrackInv, [Next /\ Noted]_allVars PROVE TrackInv'
    OBVIOUS
  <2>1. ASSUME UNCHANGED <<targ, obsVars, ous_pc, curr, is_open>>, Noted \/ UNCHANGED history
        PROVE  TrackInv'
    <3>1. unchecked' = unchecked /\ ToCheck' = ToCheck
      BY <2>1 DEF obsVars, Noted, Checks, ToCheck, history
    <3> QED
      BY <2>1, <3>1 DEF obsVars, TrackInv
  <2>2. CASE RestStep(RestWork \/ GetLock) /\ Noted
    BY <2>1, <2>2, ElseUnchanged
    DEF RestStep, RestWork, Connect, CheckLimits, NoNew, NoUpd, Unlock, GetLock, restUnused,
        priceVars, orderVars, ousVars
  <2>3. CASE SendStep /\ Noted
    BY <2>1, <2>3, ElseUnchanged DEF SendStep, SendNew, SendUpd, restUnused, priceVars, orderVars, ousVars
  <2>4. CASE (ExchangeStep /\ Noted) \/ UNCHANGED allVars
    BY <2>1, <2>4, ElseUnchanged
    DEF ExchangeStep, tradeVars, priceVars, orderVars, ousVars, vars, allVars
  <2> QED
    BY <2>2, <2>3, <2>4, TrackObs, TrackOus DEF Next
<1>2. TypeOK /\ TrackInv => CurrTracksTarget
  <2> SUFFICES ASSUME TrackInv, obs_pc = "idle" PROVE CurrTracksTarget
    BY DEF CurrTracksTarget
  <2>1. ToCheck = {}
    BY EmptySeq DEF TrackInv, ToCheck
  <2> QED
    BY <2>1 DEF TrackInv, CurrTracksTarget
<1> QED
  BY <1>1, <1>2, TrackInit, HistoryIsReal, TypesHold, PTL DEF HistorySpec, NotedInit
=============================================================================
