---------------------------- MODULE MarketMaker ----------------------------
(***************************************************************************)
(* BitMEXMarketMaker::run: the three threads, the state they share, and    *)
(* the exchange they trade with.                                           *)
(***************************************************************************)
EXTENDS OrderBookStream, OrderUpdateStream, RestSync, Exchange

CONSTANT QuietStart   \* whether the exchange executes and cancels nothing
                      \* before both first offers are queued

ASSUME StartAssumption == QuietStart \in BOOLEAN

vars == <<tradeVars, obsVars, ws_orders, ousVars, restVars, exchangeVars>>

Init == TradeInit /\ ObsInit /\ OusInit /\ RestInit /\ ExchangeInit

ObsStep(A) == A /\ UNCHANGED <<ws_orders, ousVars, restVars, exchangeVars>>
OusStep(A) == A /\ UNCHANGED <<obsVars, restVars, exchangeVars>>
RestStep(A) == A /\ UNCHANGED <<obsVars, ws_orders, ousVars, exchangeVars>>

\* A request and what the exchange does with it, while the semaphore is held.
SendStep == /\ \/ SendNew /\ Post(Head(new_order_q))
               \/ SendUpd /\ Put(Head(upd_order_q))
            /\ UNCHANGED <<obsVars, ws_orders, ousVars, position, fills, cancels>>

ExchangeStep ==
  /\ QuietStart => obs_pc \in Running
  /\ \/ \E i \in DOMAIN orders :
           \/ \E q \in 1..Leaves(i) : Fill(i, q)
           \/ Cancel(i)
     \/ \E i \in OtherIDs : CancelOther(i)
  /\ UNCHANGED <<tradeVars, obsVars, ousVars, restVars>>

Next == \/ ObsStep(Obs)
        \/ OusStep(Ous)
        \/ RestStep(RestWork \/ GetLock)
        \/ SendStep
        \/ ExchangeStep

Spec == Init /\ [][Next]_vars

(***************************************************************************)
(* Every thread runs on while it has something to do.  Nothing makes the   *)
(* semaphore let in a thread that waits: a section is sure to be entered   *)
(* only if the semaphore stays free, so all fairness is weak.  The         *)
(* exchange answers requests but owes no execution.                        *)
(***************************************************************************)
Fairness ==
  /\ WF_vars(ObsStep(ObsWork)) /\ WF_vars(ObsStep(ObsLockedWork))
  /\ WF_vars(OusStep(OusWork)) /\ WF_vars(OusStep(OusLockedWork))
  /\ WF_vars(RestStep(RestWork)) /\ WF_vars(RestStep(GetLock)) /\ WF_vars(SendStep)

FairSpec == Spec /\ Fairness
-----------------------------------------------------------------------------
\* The type of every variable, and what the locations of the threads say about
\* the messages they are about to queue.
TypeOK == /\ TradeTypeOK /\ ObsTypeOK /\ OusTypeOK /\ RestTypeOK
          /\ ws_orders \in Seq(OrderMsgs) /\ ExchangeTypeOK

\* No message is unread, unsent or half handled.
Quiescent ==
  /\ obs_pc = "idle" /\ ous_pc = "read"
  /\ new_order_q = <<>> /\ upd_order_q = <<>> /\ ws_orders = <<>>

\* Two threads draw identifiers from one counter, and the dispatch of fills
\* relies on them: no two orders, sent or about to be, have the same clOrdID
\* (TradeLogic.hpp:123-124, 142-143, OrderUpdateStream.hpp:80, 280-293).
FreshIDs ==
  /\ \A i, j \in DOMAIN new_order_q :
        new_order_q[i].id = new_order_q[j].id => i = j
  /\ \A i \in DOMAIN new_order_q : new_order_q[i].id \notin DOMAIN orders

\* The order update thread sends an order only into an empty slot: whatever
\* fills and cancellations cross with its messages, a slot has at most one
\* order, live or queued (OrderUpdateStream.hpp:63-238).
OneOrderPerSlot ==
  \A s \in Slots :
     LET queued == {i \in DOMAIN new_order_q : new_order_q[i].slot = s}
         live   == {i \in DOMAIN orders : Live(i) /\ orders[i].slot = s}
     IN  /\ \A i, j \in queued : i = j
         /\ \A i, j \in live : i = j
         /\ queued = {} \/ live = {}

\* When all is handled, a slot's flag is up exactly when the order of its
\* identifier is live at the exchange (TradeLogic.hpp:13-14: "assume any order
\* sent to the exchange succeeds [...] else amend the curr_* variables").
OpenIsLive ==
  Quiescent => \A s \in Slots :
     is_open[s] <=> \E i \in DOMAIN orders :
                       Live(i) /\ orders[i].slot = s /\ clOrdID[s] = i

\* No fill, cancellation or amendment, in whatever order it is handled, leaves a
\* slot with a second order, or its flag wrong once all is handled.
SlotsRight == OneOrderPerSlot /\ OpenIsLive

\* Between two messages of the book, offers stand outside of or at the position
\* prices, and those do not cross (TradeLogic.hpp:91-110).
QuotesUncrossed ==
  obs_pc = "idle" => /\ targ["bid"] <= targ["bid_posn"]
                     /\ targ["bid_posn"] < targ["ask_posn"]
                     /\ targ["ask_posn"] <= targ["ask"]

\* The contracts that live orders of a slot still wait for.
LiveVol(s) ==
  LET live == {i \in DOMAIN orders : Live(i) /\ orders[i].slot = s}
  IN  IF live = {} THEN 0 ELSE Leaves(CHOOSE i \in live : TRUE)

\* The position orders close the position exactly.
Balanced == position = LiveVol("ask_posn") - LiveVol("bid_posn")

\* Nothing but the semaphore keeps the order update thread from its messages: it
\* comes to the end of them again and again, unless it waits for good for a
\* semaphore that is given back again and again (Semaphore.hpp promises no
\* waiter that it gets in; BitMEXMarketMaker.hpp:55-62 starts the threads).
FillsHandled ==
  \/ []<>(ws_orders = <<>> /\ ous_pc = "read")
  \/ <>[](ous_pc \in {"push_new", "push_upd"}) /\ []<>(holder = "none")

\* When all is handled, an order stands at the exchange at the price the
\* program believes it to have: "assume any order sent to the exchange succeeds
\* and target price/vol = current price/vol" (TradeLogic.hpp:13).
PriceAsBelieved ==
  Quiescent => \A s \in Slots :
     is_open[s] /\ clOrdID[s] \in DOMAIN orders
        => orders[clOrdID[s]].price = curr[s]
=============================================================================
