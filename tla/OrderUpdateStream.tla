------------------------- MODULE OrderUpdateStream -------------------------
(***************************************************************************)
(* The order update thread (OrderUpdateStream.hpp): it reads what the      *)
(* exchange says about the program's orders and answers a fill with the    *)
(* opposite order, a cancellation with the same order again.               *)
(*                                                                         *)
(* The handlers of the four slots differ only in the fields they touch; a  *)
(* handler is modelled once, for a slot.  It runs in steps between which   *)
(* the order book thread can move the targets: the stores up to the new    *)
(* identifier, the message, the second load of the target under the        *)
(* semaphore, and the stores that follow it.                               *)
(***************************************************************************)
EXTENDS TradeVariables, OrderChannel

VARIABLES
  ous_pc,       \* where the thread is
  ous_slot,     \* the order the handler is about to send or amend
  ous_requote,  \* the handler is on_*_cancelled
  ous_msg,      \* New_Order_Message or Upd_Order_Message
  ous_targ      \* the target loaded under the semaphore

ousVars == <<ous_pc, ous_slot, ous_requote, ous_msg, ous_targ>>

NoOrder == [id |-> 0]

OusInit ==
  /\ ws_orders = <<>>
  /\ ous_pc = "read"
  /\ ous_slot = "bid"
  /\ ous_requote = FALSE
  /\ ous_msg = NoOrder
  /\ ous_targ = 0

\* The dispatch compares the identifier with those of the slots, in this order.
Matches(id) ==
  LET order == <<"bid", "ask", "bid_posn", "ask_posn">>
      hits  == {i \in 1..4 : clOrdID[order[i]] = id}
  IN  IF hits = {} THEN {}
      ELSE {order[CHOOSE i \in hits : \A j \in hits : i <= j]}
-----------------------------------------------------------------------------
\* Nobody's order: the loop goes on with the next message.
Ignore ==
  /\ ous_pc = "read"
  /\ ws_orders # <<>>
  /\ Matches(Head(ws_orders).id) = {}
  /\ ws_orders' = Tail(ws_orders)
  /\ UNCHANGED <<ousVars, tradeVars>>

Receive(s, m) ==
  /\ ous_pc = "read"
  /\ ws_orders # <<>>
  /\ m = Head(ws_orders)
  /\ s \in Matches(m.id)
  /\ ws_orders' = Tail(ws_orders)

\* Mutated GiveID: clOrdID_count++ where the code has ++clOrdID_count.
GiveIDPostfix(s) ==
  /\ clOrdID_count' = clOrdID_count + 1
  /\ clOrdID' = [clOrdID EXCEPT ![s] = clOrdID_count]

\* ++clOrdID_count, into the slot's identifier.
GiveID(s) ==
  /\ clOrdID_count' = clOrdID_count + 1
  /\ clOrdID' = [clOrdID EXCEPT ![s] = clOrdID_count + 1]

\* Mutated OpenAfterFill: a partial fill closes the order too.
OpenAfterAnyFill(s, m) == [is_open EXCEPT ![s] = FALSE]

\* leavesQty == 0: the order is done.
OpenAfterFill(s, m) == [is_open EXCEPT ![s] = @ /\ m.leavesQty # 0]

\* on_bid_fill, on_ask_fill, on_bid_posn_fill, on_ask_posn_fill: the volume of
\* the opposite order becomes what this one has filled so far.
OnFill(s, m) ==
  LET t == Opposite[s]
  IN  /\ Receive(s, m)
      /\ m.status \in Executed
      /\ targ_vol' = [targ_vol EXCEPT ![t] = m.cumQty]
      /\ is_open' = OpenAfterFill(s, m)
      /\ ous_slot' = t
      /\ ous_requote' = FALSE
      /\ \/ /\ is_open[t]
            /\ ous_msg' = [kind |-> "vol", id |-> clOrdID[t], vol |-> m.cumQty]
            /\ ous_pc' = "push_upd"
            /\ UNCHANGED <<clOrdID, clOrdID_count>>
         \/ /\ ~is_open[t]
            /\ GiveID(t)
            /\ ous_pc' = "msg"
            /\ UNCHANGED ous_msg
      /\ UNCHANGED <<ous_targ, priceVars, queueVars, holder>>

\* Mutated OnCancelled: the handler goes on without building a message.
OnCancelledNoMsg(s, m) ==
  /\ Receive(s, m)
  /\ m.status \in Ended
  /\ is_open' = [is_open EXCEPT ![s] = FALSE]
  /\ GiveID(s)
  /\ ous_slot' = s
  /\ ous_requote' = TRUE
  /\ ous_pc' = "push_new"
  /\ UNCHANGED <<ous_msg, ous_targ, targ_vol, priceVars, queueVars, holder>>

\* on_bid_cancelled, on_ask_cancelled, on_bid_posn_cancelled, ...
OnCancelled(s, m) ==
  /\ Receive(s, m)
  /\ m.status \in Ended
  /\ is_open' = [is_open EXCEPT ![s] = FALSE]
  /\ GiveID(s)
  /\ ous_slot' = s
  /\ ous_requote' = TRUE
  /\ ous_pc' = "msg"
  /\ UNCHANGED <<ous_msg, ous_targ, targ_vol, priceVars, queueVars, holder>>

\* The message is built from the target of the moment.  on_bid_cancelled, and
\* it alone, also stores the current price here, before it asks for the lock;
\* nobody looks at it while the flag is down.
BuildNewOrder ==
  /\ ous_pc = "msg"
  /\ ous_pc' = "push_new"
  /\ ous_msg' = NewOrderMsg(ous_slot)
  /\ curr' = IF ous_requote /\ ous_slot = "bid"
             THEN [curr EXCEPT !["bid"] = targ["bid"]]
             ELSE curr
  /\ UNCHANGED <<ws_orders, ous_slot, ous_requote, ous_targ,
                 targ, orderVars, queueVars, holder>>

\* Under the semaphore: the message is queued and the target loaded again.
PushOpposite ==
  /\ ous_pc = "push_new"
  /\ Lock!Acquire("ous")
  /\ new_order_q' = Append(new_order_q, ous_msg)
  /\ ous_targ' = targ[ous_slot]
  /\ ous_pc' = "raise"
  /\ UNCHANGED <<ws_orders, ous_slot, ous_requote, ous_msg,
                 priceVars, orderVars, upd_order_q>>

\* What was loaded becomes the current price, the order is open, and the
\* semaphore is given back.  The two stores are one step: a flag that is down
\* settles the other thread's check, whichever price it sees.
RaiseOpen ==
  /\ ous_pc = "raise"
  /\ Lock!Release("ous")
  /\ curr' = [curr EXCEPT ![ous_slot] = ous_targ]
  /\ is_open' = [is_open EXCEPT ![ous_slot] = TRUE]
  /\ ous_pc' = "read"
  /\ ous_msg' = NoOrder
  /\ UNCHANGED <<ws_orders, ous_slot, ous_requote, ous_targ,
                 targ, targ_vol, clOrdID, clOrdID_count, queueVars>>

PushVolume ==
  /\ ous_pc = "push_upd"
  /\ WithLock
  /\ upd_order_q' = Append(upd_order_q, ous_msg)
  /\ ous_pc' = "read"
  /\ ous_msg' = NoOrder
  /\ UNCHANGED <<ws_orders, ous_slot, ous_requote, ous_targ,
                 priceVars, orderVars, new_order_q>>

OusRead ==
  \/ Ignore
  \/ ws_orders # <<>> /\ \E s \in Slots :
        \/ OnFill(s, Head(ws_orders))
        \/ OnCancelled(s, Head(ws_orders))

OusLockedWork == PushOpposite \/ PushVolume

OusWork == OusRead \/ BuildNewOrder \/ RaiseOpen

Ous == OusWork \/ OusLockedWork

OusTypeOK ==
  /\ ous_pc \in {"read", "msg", "push_new", "raise", "push_upd"}
  /\ ous_slot \in Slots
  /\ ous_requote \in BOOLEAN
  /\ ous_msg \in {NoOrder} \cup NewOrders \cup Updates
  /\ ous_targ \in Int
  /\ ous_pc = "push_new" => ous_msg \in NewOrders
  /\ ous_pc = "push_upd" => ous_msg \in Updates
=============================================================================
