------------------------------ MODULE Exchange ------------------------------
(***************************************************************************)
(* The exchange, as far as the program can tell: what it does with the     *)
(* orders it is sent and what it says on the order channel.  External to   *)
(* the repository; modelled from the requests REST_Sync.hpp makes and the  *)
(* fields OrderUpdateStream.hpp reads.                                     *)
(***************************************************************************)
EXTENDS OrderChannel

CONSTANTS
  MaxFills,      \* bound: executions
  MaxCancels,    \* bound: cancellations the program did not ask for
  PartialFills,  \* whether an execution may leave a part of the order open
  Losses,        \* whether a new order may be refused in the reply alone
  OtherIDs       \* identifiers of orders of the account's other users

ASSUME ExchangeAssumption ==
  /\ MaxFills \in Nat /\ MaxCancels \in Nat
  /\ PartialFills \in BOOLEAN /\ Losses \in BOOLEAN
  /\ OtherIDs \subseteq Nat

VARIABLES
  orders,     \* the orders accepted so far, by clOrdID
  position,   \* contracts bought less contracts sold
  fills,      \* how many executions there were
  cancels     \* how many cancellations there were

exchangeVars == <<orders, position, fills, cancels>>

BuySlots  == {"bid", "bid_posn"}
SellSlots == {"ask", "ask_posn"}

ExchangeInit ==
  /\ orders = [i \in {} |-> {}]
  /\ position = 0
  /\ fills = 0
  /\ cancels = 0

Live(i) == orders[i].status = "live"
Leaves(i) == orders[i].qty - orders[i].cum

\* POST /order: an identifier already used is refused, and so may be anything.
Post(m) ==
  \/ /\ m.id \notin DOMAIN orders
     /\ orders' = [i \in DOMAIN orders \cup {m.id} |->
                     IF i = m.id
                     THEN [slot |-> m.slot, price |-> m.price, qty |-> m.vol,
                           cum |-> 0, status |-> "live"]
                     ELSE orders[i]]
  \/ /\ m.id \in DOMAIN orders \/ Losses
     /\ UNCHANGED orders

\* An amendment takes effect on a live order; the volume must leave something.
Takes(u) == /\ u.id \in DOMAIN orders /\ Live(u.id)
            /\ u.kind = "vol" => u.vol > orders[u.id].cum

\* PUT /order.
Put(u) ==
  orders' = IF ~Takes(u) THEN orders
            ELSE IF u.kind = "price"
                 THEN [orders EXCEPT ![u.id].price = u.price]
                 ELSE [orders EXCEPT ![u.id].qty = u.vol]

\* q contracts of order i are executed.
Fill(i, q) ==
  /\ fills < MaxFills
  /\ Live(i)
  /\ q \in 1..Leaves(i)
  /\ PartialFills \/ q = Leaves(i)
  /\ fills' = fills + 1
  /\ LET left == Leaves(i) - q
         cum  == orders[i].cum + q
     IN  /\ orders' = [orders EXCEPT ![i].cum = cum,
                                     ![i].status = IF left = 0 THEN "filled" ELSE "live"]
         /\ Tell(i, IF left = 0 THEN "Filled" ELSE "PartiallyFilled", cum, left)
  /\ position' = position + IF orders[i].slot \in BuySlots THEN q ELSE -q
  /\ UNCHANGED cancels

\* A ParticipateDoNotInitiate order that would take liquidity is cancelled, and
\* one that was not executed yet may be rejected as well.
Cancel(i) ==
  /\ cancels < MaxCancels
  /\ Live(i)
  /\ cancels' = cancels + 1
  /\ orders' = [orders EXCEPT ![i].status = "canceled"]
  /\ \E st \in Ended :
        /\ st = "Rejected" => orders[i].cum = 0
        /\ Tell(i, st, orders[i].cum, 0)
  /\ UNCHANGED <<position, fills>>

\* The channel carries every order of the account.
CancelOther(i) ==
  /\ cancels < MaxCancels
  /\ cancels' = cancels + 1
  /\ Tell(i, "Canceled", 0, 0)
  /\ UNCHANGED <<orders, position, fills>>

Orders == [slot : BuySlots \cup SellSlots, price : Int, qty : Nat, cum : Nat,
           status : {"live", "filled", "canceled"}]

ExchangeTypeOK ==
  /\ orders \in [DOMAIN orders -> Orders]
  /\ DOMAIN orders \subseteq Nat
  /\ \A i \in DOMAIN orders : orders[i].cum <= orders[i].qty
  /\ position \in Int
  /\ fills \in Nat
  /\ cancels \in Nat
=============================================================================
