--------------------------- MODULE TradeVariables ---------------------------
(***************************************************************************)
(* The state the three threads share: the atomics of TradeVariables        *)
(* (TradeLogic.hpp), the two deques of order messages and the semaphore    *)
(* that guards the deques (BitMEXMarketMaker.hpp).                         *)
(*                                                                         *)
(* The program manages four orders, each with its own copy of the same     *)
(* fields.  A slot names one of them: the two offers, bid and ask, and the *)
(* two position orders that close what the opposite offer has filled.      *)
(***************************************************************************)
EXTENDS Integers, Sequences

Slots == {"bid", "ask", "bid_posn", "ask_posn"}

\* Mutated Opposite: a fill is answered on its own side.
OppositeSwapped == [bid |-> "bid_posn", ask |-> "ask_posn",
                    bid_posn |-> "bid", ask_posn |-> "ask"]

\* The order that must answer a fill of s: what one buys the other sells.
Opposite == [bid |-> "ask_posn", ask |-> "bid_posn",
             bid_posn |-> "ask", ask_posn |-> "bid"]

VARIABLES
  targ,           \* targ_bid, targ_ask, targ_posn_bid, targ_posn_ask
  curr,           \* curr_bid, curr_ask, curr_posn_bid, curr_posn_ask
  targ_vol,       \* targ_bid_vol, targ_ask_vol, targ_bid_posn_vol, ...
  is_open,        \* bid_open, ask_open, bid_posn_open, ask_posn_open
  clOrdID,        \* bid_clOrdID, ask_clOrdID, bid_posn_clOrdID, ...
  clOrdID_count,  \* the last identifier handed out
  new_order_q,    \* messages for POST /order
  upd_order_q,    \* messages for PUT /order
  holder          \* the thread the semaphore has let in

priceVars == <<targ, curr>>
orderVars == <<targ_vol, is_open, clOrdID, clOrdID_count>>
queueVars == <<new_order_q, upd_order_q>>
tradeVars == <<priceVars, orderVars, queueVars, holder>>

(***************************************************************************)
(* Prices are counted in ticks of half a dollar, volumes in contracts.  An *)
(* order message keeps the fields a property can tell apart; the slot of a *)
(* new order stands for its side and for the reason it was sent.           *)
(***************************************************************************)
NewOrders == [id : Nat, slot : Slots, price : Int, vol : Nat]
Updates   == [kind : {"price"}, id : Nat, price : Int]
             \cup [kind : {"vol"}, id : Nat, vol : Nat]

TradeInit ==
  /\ targ = [s \in Slots |-> 0]
  /\ curr = [s \in Slots |-> 0]
  /\ targ_vol = [s \in Slots |-> 0]
  /\ is_open = [s \in Slots |-> FALSE]
  /\ clOrdID = [s \in Slots |-> 0]
  /\ clOrdID_count = 0
  /\ new_order_q = <<>>
  /\ upd_order_q = <<>>
  /\ holder = "none"

Threads == {"obs", "ous", "rest"}

Lock == INSTANCE ExclusiveLock WITH NoThread <- "none"

(***************************************************************************)
(* A section under the semaphore in one step, possible when nobody is let  *)
(* in.  That is as good as several steps where the section loads nothing   *)
(* that another thread stores outside of it.                               *)
(***************************************************************************)
WithLock == Lock!Init /\ UNCHANGED holder

\* Mutated PushNewOrder: the current price is left alone.
PushNewOrderNoCurr(m) ==
  /\ WithLock
  /\ new_order_q' = Append(new_order_q, m)
  /\ is_open' = [is_open EXCEPT ![m.slot] = TRUE]
  /\ UNCHANGED <<priceVars, targ_vol, clOrdID, clOrdID_count, upd_order_q>>

\* new_order_q.push_back, the order is believed at its target, and open: the
\* section of init_bid_order and init_ask_order, whose thread sets the targets.
PushNewOrder(m) ==
  /\ WithLock
  /\ new_order_q' = Append(new_order_q, m)
  /\ curr' = [curr EXCEPT ![m.slot] = targ[m.slot]]
  /\ is_open' = [is_open EXCEPT ![m.slot] = TRUE]
  /\ UNCHANGED <<targ, targ_vol, clOrdID, clOrdID_count, upd_order_q>>

\* build_new_bid_order, build_new_ask_order.
NewOrderMsg(s) ==
  [id |-> clOrdID[s], slot |-> s, price |-> targ[s], vol |-> targ_vol[s]]

TradeTypeOK ==
  /\ targ \in [Slots -> Int]
  /\ curr \in [Slots -> Int]
  /\ targ_vol \in [Slots -> Nat]
  /\ is_open \in [Slots -> BOOLEAN]
  /\ clOrdID \in [Slots -> Nat]
  /\ clOrdID_count \in Nat
  /\ new_order_q \in Seq(NewOrders)
  /\ upd_order_q \in Seq(Updates)
  /\ holder \in Threads \cup {"none"}
=============================================================================
