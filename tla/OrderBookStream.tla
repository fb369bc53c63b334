-------------------------- MODULE OrderBookStream --------------------------
(***************************************************************************)
(* The order book thread: OrderBookStream.hpp and the functions it         *)
(* inherits from TradeLogic.hpp.  It keeps the four target prices, places  *)
(* the first two offers and moves open orders to their targets.            *)
(*                                                                         *)
(* The book itself is abstracted to what this thread reads of it: the best *)
(* prices and the quotient of the best volumes.  A step is one store to a  *)
(* variable that the order update thread reads, one load of a variable     *)
(* that it writes, or one section under the semaphore.                     *)
(***************************************************************************)
EXTENDS TradeVariables, Pricing

CONSTANTS
  Books,        \* the books seen: [bid, ask, ratio] records
  OrderVol,     \* what get_order_vol returns
  MaxBookMsgs,  \* bound: order book messages handled after the snapshot
  Batches       \* whether a message may hold several entries

ASSUME BookAssumption ==
  /\ Books \subseteq [bid : Int, ask : Int, ratio : Nat]
  /\ \A b \in Books : b.bid < b.ask
  /\ OrderVol \in Nat /\ MaxBookMsgs \in Nat
  /\ Batches \in BOOLEAN

VARIABLES
  obs_pc,      \* where the thread is
  obs_todo,    \* the slots still to be placed or checked
  obs_stores,  \* the stores of update_targ_prices still to be done
  obs_msg,     \* New_Order_Msg or Upd_Order_Msg
  book,        \* the book after the last message
  vol_ratio,   \* best bid volume / best ask volume, an integer quotient
  book_msgs    \* how many messages were handled (for the bound)

obsVars == <<obs_pc, obs_todo, obs_stores, obs_msg, book, vol_ratio, book_msgs>>

Starting == {"start", "first_store", "place", "take_id", "new_msg", "new_push"}
Running  == {"idle", "store", "diff", "open", "price", "msg", "push"}

NoMsg == [id |-> 0]

ObsInit ==
  /\ obs_pc = "start"
  /\ obs_todo = <<>>
  /\ obs_stores = <<>>
  /\ obs_msg = NoMsg
  /\ book \in Books
  /\ vol_ratio = 0
  /\ book_msgs = 0
-----------------------------------------------------------------------------
\* The snapshot is in: init_trading, up to update_targ_prices.
InitTrading ==
  /\ obs_pc = "start"
  /\ obs_pc' = "first_store"
  /\ vol_ratio' = book.ratio
  /\ obs_stores' = TargetStores(book.bid, book.ask, book.ratio)
  /\ obs_todo' = <<"bid", "ask">>
  /\ UNCHANGED <<obs_msg, book, book_msgs, tradeVars>>

\* The next store of update_targ_prices.
StoreTarget ==
  /\ obs_pc \in {"first_store", "store"}
  /\ LET st == Head(obs_stores)
     IN  targ' = [targ EXCEPT ![st.slot] = st.price]
  /\ obs_stores' = Tail(obs_stores)
  /\ obs_pc' = IF Len(obs_stores) > 1 THEN obs_pc
               ELSE IF obs_pc = "first_store" THEN "place" ELSE "diff"
  /\ UNCHANGED <<obs_todo, obs_msg, book, vol_ratio, book_msgs,
                 curr, orderVars, queueVars, holder>>

\* init_bid_order, init_ask_order: the volume, and clOrdID_count++.
CountOrder ==
  /\ obs_pc = "place"
  /\ obs_pc' = "take_id"
  /\ targ_vol' = [targ_vol EXCEPT ![Head(obs_todo)] = OrderVol]
  /\ clOrdID_count' = clOrdID_count + 1
  /\ UNCHANGED <<obs_todo, obs_stores, obs_msg, book, vol_ratio, book_msgs,
                 priceVars, is_open, clOrdID, queueVars, holder>>

\* bid_clOrdID = clOrdID_count.load(), a second access to the counter.
TakeID ==
  /\ obs_pc = "take_id"
  /\ obs_pc' = "new_msg"
  /\ clOrdID' = [clOrdID EXCEPT ![Head(obs_todo)] = clOrdID_count]
  /\ UNCHANGED <<obs_todo, obs_stores, obs_msg, book, vol_ratio, book_msgs,
                 priceVars, targ_vol, is_open, clOrdID_count, queueVars, holder>>

BuildFirstOrder ==
  /\ obs_pc = "new_msg"
  /\ obs_pc' = "new_push"
  /\ obs_msg' = NewOrderMsg(Head(obs_todo))
  /\ UNCHANGED <<obs_todo, obs_stores, book, vol_ratio, book_msgs, tradeVars>>

\* The head of obs_todo is dealt with.
NextSlot(again) ==
  /\ obs_todo' = Tail(obs_todo)
  /\ obs_pc' = IF Len(obs_todo) > 1 THEN again ELSE "idle"

PushFirstOrder ==
  /\ obs_pc = "new_push"
  /\ PushNewOrder(obs_msg)
  /\ NextSlot("place")
  /\ obs_msg' = NoMsg
  /\ UNCHANGED <<obs_stores, book, vol_ratio, book_msgs>>
-----------------------------------------------------------------------------
(***************************************************************************)
(* A message of the order book feed.  do_insert and do_delete act when     *)
(* their last entry has moved a best price: the targets are computed from  *)
(* the volume quotient of the message before, then on_update reads the new *)
(* quotient and checks the offers, and the position orders come last.      *)
(***************************************************************************)
Handle(b) ==
  /\ obs_pc = "idle"
  /\ book_msgs < MaxBookMsgs
  /\ book_msgs' = book_msgs + 1
  /\ book' = b
  /\ UNCHANGED <<obs_msg, tradeVars>>

SameBest(b) == b.bid = book.bid /\ b.ask = book.ask

\* Mutated OnBestPrice: get_bba is called after update_targ_prices.
OnBestPriceLate(b) ==
  /\ Handle(b)
  /\ Batches \/ ~SameBest(b)
  /\ vol_ratio' = b.ratio
  /\ obs_stores' = TargetStores(book.bid, book.ask, vol_ratio)
  /\ obs_todo' = <<"bid", "ask", "bid_posn", "ask_posn">>
  /\ obs_pc' = "store"

OnBestPrice(b) ==
  /\ Handle(b)
  /\ Batches \/ ~SameBest(b)
  /\ vol_ratio' = b.ratio
  /\ obs_stores' = TargetStores(b.bid, b.ask, vol_ratio)
  /\ obs_todo' = <<"bid", "ask", "bid_posn", "ask_posn">>
  /\ obs_pc' = "store"

\* do_insert, do_delete: is_bba_upd keeps what the last entry returned, and an
\* entry before it has moved a best price.
OnEarlierEntry(b) ==
  /\ Batches
  /\ Handle(b)
  /\ UNCHANGED <<obs_pc, obs_todo, obs_stores, vol_ratio>>

\* do_update: volumes change, the best prices and the targets do not.
OnVolume(b) ==
  /\ Handle(b)
  /\ SameBest(b)
  /\ vol_ratio' = b.ratio
  /\ obs_todo' = <<"bid", "ask">>
  /\ obs_pc' = "diff"
  /\ UNCHANGED obs_stores

\* check_*_upd: the condition multiplies the difference of target and current
\* price with the open flag, two loads of what the other thread stores, in
\* either order; the first that gives zero settles it.
CompareSlot ==
  /\ obs_pc \in {"diff", "price"}
  /\ LET s == Head(obs_todo)
     IN  IF targ[s] # curr[s]
         THEN /\ obs_pc' = IF obs_pc = "diff" THEN "open" ELSE "msg"
              /\ UNCHANGED obs_todo
         ELSE NextSlot("diff")
  /\ UNCHANGED <<obs_stores, obs_msg, book, vol_ratio, book_msgs, tradeVars>>

LoadOpen ==
  /\ obs_pc \in {"diff", "open"}
  /\ IF is_open[Head(obs_todo)]
     THEN /\ obs_pc' = IF obs_pc = "diff" THEN "price" ELSE "msg"
          /\ UNCHANGED obs_todo
     ELSE NextSlot("diff")
  /\ UNCHANGED <<obs_stores, obs_msg, book, vol_ratio, book_msgs, tradeVars>>

\* build_update_price_order reads the identifier and the target.
BuildAmend ==
  /\ obs_pc = "msg"
  /\ obs_pc' = "push"
  /\ LET s == Head(obs_todo)
     IN  obs_msg' = [kind |-> "price", id |-> clOrdID[s], price |-> targ[s]]
  /\ UNCHANGED <<obs_todo, obs_stores, book, vol_ratio, book_msgs, tradeVars>>

PushAmend ==
  /\ obs_pc = "push"
  /\ WithLock
  /\ upd_order_q' = Append(upd_order_q, obs_msg)
  /\ LET s == Head(obs_todo)
     IN  curr' = [curr EXCEPT ![s] = targ[s]]
  /\ NextSlot("diff")
  /\ obs_msg' = NoMsg
  /\ UNCHANGED <<obs_stores, book, vol_ratio, book_msgs,
                 targ, orderVars, new_order_q>>

Obs ==
  \/ InitTrading \/ StoreTarget
  \/ CountOrder \/ TakeID \/ BuildFirstOrder \/ PushFirstOrder
  \/ \E b \in Books : OnBestPrice(b) \/ OnEarlierEntry(b) \/ OnVolume(b)
  \/ CompareSlot \/ LoadOpen \/ BuildAmend \/ PushAmend

\* Once a message is read the thread runs on, and gets the semaphore if it is
\* free again and again; nothing makes the next message arrive.
ObsWork == InitTrading \/ StoreTarget \/ CountOrder \/ TakeID \/ BuildFirstOrder
           \/ CompareSlot \/ LoadOpen \/ BuildAmend
ObsLockedWork == PushFirstOrder \/ PushAmend

ObsTypeOK ==
  /\ obs_pc \in Starting \cup Running
  /\ obs_todo \in Seq(Slots)
  /\ obs_stores \in Seq([slot : Slots, price : Int])
  /\ obs_msg \in {NoMsg} \cup NewOrders \cup Updates
  /\ book \in Books
  /\ vol_ratio \in Nat
  /\ book_msgs \in Nat
  /\ obs_pc \in {"first_store", "store"} => obs_stores # <<>>
  /\ obs_pc \notin {"start", "idle"} => obs_todo # <<>>
  /\ obs_pc = "new_push" => obs_msg \in NewOrders
  /\ obs_pc = "push" => obs_msg \in Updates
=============================================================================
