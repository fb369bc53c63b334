---------------------------- MODULE TradeHistory ----------------------------
(***************************************************************************)
(* MarketMaker with history variables.  What the program promises depends  *)
(* on what has happened before: whether a price move went unnoticed, which *)
(* orders were opened beside the other thread's checks, whether a volume   *)
(* was lost sight of.  History constrains no step: it records what a step  *)
(* of MarketMaker has done.                                                *)
(***************************************************************************)
EXTENDS MarketMaker

VARIABLES
  hidden,     \* a best price moved in an entry that was not its message's last,
              \* and the targets were not computed since
  unchecked,  \* slots the order update thread has opened since the last message
              \* of the book that checks them was read
  first_ask,  \* the identifier in the message of the first ask offer
  astray      \* a volume was lost sight of: see Astray

history == <<hidden, unchecked, first_ask, astray>>
allVars == <<vars, history>>

HistoryInit ==
  /\ hidden = FALSE
  /\ unchecked = {}
  /\ first_ask = 0
  /\ astray = FALSE
-----------------------------------------------------------------------------
\* A message of the book is read, its targets are computed.
Checks   == obs_pc = "idle" /\ obs_pc' # "idle"
Computes == obs_pc = "idle" /\ obs_pc' = "store"
Moves    == book'.bid # book.bid \/ book'.ask # book.ask

\* The order update thread takes up an execution or the end of an order.
Answers  == ous_pc = "read" /\ ous_pc' # "read" /\ ~ous_requote'
Requotes == ous_pc = "read" /\ ous_pc' # "read" /\ ous_requote'

(***************************************************************************)
(* The program keeps no account of the position: it knows of each order    *)
(* how much of it was executed in all, gives the opposite order that       *)
(* volume, and amends it to what is executed later.  That loses sight of a *)
(* volume in two ways.  The amendment comes too late, because the order is *)
(* over or has been executed to that volume already, when it is built or   *)
(* by the time it is sent.  Or an order executed in part is cancelled, and *)
(* sent again with its whole volume.                                       *)
(***************************************************************************)
Astray ==
  \/ /\ Answers /\ ous_pc' = "push_upd"
     /\ ous_msg'.id \in DOMAIN orders /\ ~Takes(ous_msg')
  \/ /\ upd_order_q # <<>> /\ upd_order_q' = Tail(upd_order_q)
     /\ Head(upd_order_q).kind = "vol" /\ ~Takes(Head(upd_order_q))
  \/ Requotes /\ Head(ws_orders).cumQty > 0

Noted ==
  /\ hidden' = IF Computes THEN FALSE ELSE hidden \/ Moves
  /\ unchecked' = IF Checks THEN unchecked \ {obs_todo'[k] : k \in DOMAIN obs_todo'}
                  ELSE IF ous_pc = "raise" /\ ous_pc' = "read" THEN unchecked \cup {ous_slot}
                  ELSE unchecked
  /\ first_ask' = IF obs_pc = "new_msg" /\ obs_pc' = "new_push" /\ Head(obs_todo) = "ask"
                  THEN obs_msg'.id ELSE first_ask
  /\ astray' = (astray \/ Astray)

NotedInit == Init /\ HistoryInit

HistorySpec == NotedInit /\ [][Next /\ Noted]_allVars

FairHistorySpec == HistorySpec /\ Fairness
-----------------------------------------------------------------------------
\* Two threads draw identifiers from one counter, and init_ask_order reads it
\* back in a second access: in whatever order they draw, no identifier is given
\* twice but that of the first ask offer (TradeLogic.hpp:123-124, 142-143,
\* OrderUpdateStream.hpp:80).
DrawnOnce ==
  /\ \A i, j \in DOMAIN new_order_q :
        i # j /\ new_order_q[i].id = new_order_q[j].id => new_order_q[i].id = first_ask
  /\ \A i \in DOMAIN new_order_q :
        new_order_q[i].id \in DOMAIN orders => new_order_q[i].id = first_ask

\* The checks of one thread race with the other's stores, without a lock.  What
\* they miss stays missed for one message only: between two messages of the
\* book an open order is believed at its target, unless the other thread has
\* opened it since the last message that checks it was read
\* (TradeLogic.hpp:153-187, OrderBookStream.hpp:44-75, OrderUpdateStream.hpp:63-238).
CurrTracksTarget ==
  obs_pc = "idle" => \A s \in Slots \ unchecked : is_open[s] => curr[s] = targ[s]

\* Between two messages of the book, the targets are those of its best prices for
\* some volume quotient, unless an entry that was not the last of its message has
\* moved a best price and no message has made it good (OrderBookStream.hpp:96-110).
TargetsFollowPrices ==
  obs_pc = "idle" /\ ~hidden =>
     \E b \in Books : targ = TargetsOf(book.bid, book.ask, b.ratio)

\* "updates the local order book data and updates orders according to the
\* price/volume changes" (README.md): the same, of every message of the book.
TargetsAlwaysFollow ==
  obs_pc = "idle" => \E b \in Books : targ = TargetsOf(book.bid, book.ask, b.ratio)

\* Partial executions, cancellations and amendments may cross in any order: when all
\* is handled the position orders close the position exactly, unless a volume was
\* lost sight of (OrderUpdateStream.hpp:63-238; README.md:18: "reacts accordingly
\* to filled orders").
Hedged == Quiescent /\ ~astray => Balanced

\* Until a volume is lost sight of, the position never exceeds one offer's volume on
\* either side, whatever is executed while messages are on their way.
ExposureBounded == ~astray => position \in -OrderVol..OrderVol
=============================================================================
