---------------------------- MODULE BookMessages ----------------------------
(***************************************************************************)
(* The order book behind the messages of its feed (OrderBookStream.hpp): a *)
(* message inserts, deletes or updates, and has one entry or several.  The *)
(* best prices are looked at after its last entry, and only if that entry  *)
(* says it has moved one.                                                  *)
(***************************************************************************)
EXTENDS OrderBook, Pricing

CONSTANT MaxEntries  \* bound: the entries of a message

ASSUME MessageAssumption == MaxEntries \in Nat \ {0}

VARIABLES
  msg,        \* the kind of the message that is being read, if any
  entries,    \* how many of its entries are handled
  vol_ratio,
  targ,       \* the targets of update_targ_prices, by slot
  book,       \* the best prices and their quotient after the last message
  batch       \* whether that message had several entries

tradeVars == <<vol_ratio, targ>>
ghostVars == <<book, batch>>
vars == <<bookVars, msg, entries, tradeVars, ghostVars>>

Slots == {"bid", "ask", "bid_posn", "ask_posn"}

NoBook == [bid |-> 0, ask |-> 0, ratio |-> 0]

Init ==
  /\ BookInit
  /\ msg = "none" /\ entries = 0
  /\ vol_ratio = 0 /\ targ = [s \in Slots |-> 0]
  /\ book = NoBook /\ batch = FALSE

best_vol(s) == vol[s][head[s]]

\* get_vol_ratio, a division of two unsigned integers.
get_vol_ratio == best_vol("Buy") \div best_vol("Sell")

Snapshot ==
  /\ SnapshotDone \/ \E s \in Sides, p \in Prices : \E v \in VolsOf(s) : SnapshotInsert(s, p, v)
  /\ UNCHANGED <<msg, entries, tradeVars, ghostVars>>

\* init_trading, up to update_targ_prices.
InitTrading ==
  /\ phase = "start"
  /\ phase' = "feed"
  /\ vol_ratio' = get_vol_ratio
  /\ targ' = TargetsOf(head["Buy"], head["Sell"], vol_ratio')
  /\ book' = [bid |-> head["Buy"], ask |-> head["Sell"], ratio |-> vol_ratio']
  /\ UNCHANGED <<links, vol, level_0, is_bba_upd, fault, msg, entries, batch>>

\* An entry of a message, the first or a further one.
Entry(kind) ==
  /\ phase = "feed"
  /\ msg \in {"none", kind} /\ entries < MaxEntries
  /\ msg' = kind /\ entries' = entries + 1
  /\ UNCHANGED <<tradeVars, ghostVars>>

HandleEntry ==
  \E s \in Sides, p \in Prices :
     \/ Entry("insert") /\ Insert(s, p)
     \/ Entry("delete") /\ Delete(s, p)
     \/ Entry("update") /\ \E v \in VolsOf(s) : Update(s, p, v)

\* Mutated EndMessage: the quotient is read before the targets are computed.
EndMessageFresh ==
  /\ phase = "feed" /\ msg # "none" /\ best_vol("Sell") # 0
  /\ msg' = "none" /\ entries' = 0 /\ batch' = (entries > 1)
  /\ book' = [bid |-> head["Buy"], ask |-> head["Sell"], ratio |-> get_vol_ratio]
  /\ vol_ratio' = IF msg = "update" \/ is_bba_upd THEN get_vol_ratio ELSE vol_ratio
  /\ targ' = IF msg # "update" /\ is_bba_upd
             THEN TargetsOf(head["Buy"], head["Sell"], vol_ratio') ELSE targ
  /\ UNCHANGED bookVars

\* do_update, do_insert and do_delete behind their loops.  get_bba, then
\* update_targ_prices by the old quotient, then on_update reads the new one.
EndMessage ==
  /\ phase = "feed" /\ msg # "none"
  /\ msg' = "none" /\ entries' = 0 /\ batch' = (entries > 1)
  /\ LET signalled == msg # "update" /\ is_bba_upd
         looked    == msg = "update" \/ is_bba_upd
     IN  /\ IF looked THEN best_vol("Sell") # 0 ELSE TRUE
         /\ vol_ratio' = IF looked THEN get_vol_ratio ELSE vol_ratio
         /\ targ' = IF signalled THEN TargetsOf(head["Buy"], head["Sell"], vol_ratio)
                                 ELSE targ
  /\ book' = IF best_vol("Sell") = 0 THEN book
             ELSE [bid |-> head["Buy"], ask |-> head["Sell"], ratio |-> get_vol_ratio]
  /\ UNCHANGED bookVars

\* get_vol_ratio divides by the volume of the best ask, which is that of no
\* level when there is no ask: the program is killed.
DivideByZero ==
  /\ phase = "feed" /\ (msg = "update" \/ (msg # "none" /\ is_bba_upd))
  /\ best_vol("Sell") = 0
  /\ Crash("Sell", 0)
  /\ UNCHANGED <<msg, entries, tradeVars, ghostVars>>

Next == Snapshot \/ InitTrading \/ HandleEntry \/ EndMessage \/ DivideByZero

Spec == Init /\ [][Next]_vars
-----------------------------------------------------------------------------
\* The type of every variable.
TypeOK ==
  /\ BookTypeOK
  /\ msg \in {"none", "insert", "delete", "update"}
  /\ entries \in 0..MaxEntries
  /\ vol_ratio \in Nat
  /\ targ \in [Slots -> Int]
  /\ book \in [bid : Index, ask : Index, ratio : Nat]
  /\ batch \in BOOLEAN

\* best_price is the best of the prices in the book, and ob_insert and
\* ob_delete return true when it has moved and only then (OrderBook.hpp:
\* 85-156, 181-251).
ImplementsLevels == Levels!Spec

Feed == INSTANCE BookFeed WITH
  Books <- [bid : Index, ask : Index, ratio : Nat]

\* What the trading model takes from the book is what the book does: a message
\* of one entry that moves a best price moves the targets, any other leaves them
\* alone, and only a batch can hide a move (OrderBookStream.hpp:78-151).
ImplementsFeed == [][phase = "feed" => Feed!Next \/ UNCHANGED <<book, batch, vol_ratio, targ>>]_vars
=============================================================================
