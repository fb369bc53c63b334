----------------------------- MODULE OrderBook -----------------------------
(***************************************************************************)
(* The order book (OrderBook.hpp) and its snapshot (OrderBookStream.hpp);  *)
(* BookMessages puts it behind the messages of the feed.  Each side is an  *)
(* array of levels, one for each price, in which the levels in use are     *)
(* linked from the best price to the worst.  A level's parent is the next  *)
(* worse one, its child the next better one; head is the best.             *)
(*                                                                         *)
(* BidOrderBook and AskOrderBook mirror each other: what is up for one is  *)
(* down for the other.  They differ behind the worst level, because the    *)
(* snapshot lists both sides from the highest price to the lowest: the     *)
(* worst bid is linked to nothing, the worst ask to the blank level that   *)
(* reading the asks started with.                                          *)
(***************************************************************************)
EXTENDS Integers

CONSTANTS
  Last,   \* price_array_len - 1
  BidVols, AskVols  \* the volumes a message may set

ASSUME BookAssumption == Last \in Nat \ {0, 1} /\ BidVols \cup AskVols \subseteq Nat

VARIABLES
  phase,        \* reading a side's snapshot, starting, reading the feed, or killed
  head, child, parent, vol, is_set,   \* by side
  level_0,      \* the level the snapshot inserted last
  is_bba_upd,   \* what the last ob_insert or ob_delete returned
  fault         \* the side and the price of the message that killed the program

links == <<head, child, parent, is_set>>
bookVars == <<phase, links, vol, level_0, is_bba_upd, fault>>

Sides  == {"Buy", "Sell"}
Index  == 0..Last
Prices == 1..(Last - 1)
Null   == -1
Blank  == -2           \* the level allocated for a snapshot to start with
Cells  == Index \cup {Blank}

VolsOf(s) == IF s = "Buy" THEN BidVols ELSE AskVols

\* On side s, p is a better price than q.
Ahead(s, p, q) == IF s = "Buy" THEN p > q ELSE p < q

\* The prices in use on side s.
Book(s) == {p \in Prices : is_set[s][p]}

BookInit ==
  /\ phase = "Buy"
  /\ head = [s \in Sides |-> IF s = "Buy" THEN 0 ELSE Last]
  /\ child = [s \in Sides |-> [c \in Cells |-> Null]]
  /\ parent = [s \in Sides |-> [c \in Cells |-> Null]]
  /\ vol = [s \in Sides |-> [c \in Index |-> 0]]
  /\ is_set = [s \in Sides |-> [c \in Index |-> FALSE]]
  /\ level_0 = Blank
  /\ is_bba_upd = FALSE
  /\ fault = {}
-----------------------------------------------------------------------------
(***************************************************************************)
(* The feed.  It keeps bids below asks, inserts prices that are not in the *)
(* book, and deletes prices that are.                                      *)
(***************************************************************************)
Uncrossed(s, p) == \A q \in Book(CHOOSE t \in Sides : t # s) : Ahead(s, q, p)

Insertable(s, p) == phase = "feed" /\ ~is_set[s][p] /\ Uncrossed(s, p)

Deletable(s, p) == phase = "feed" /\ is_set[s][p]

\* ob_snapshot_insert: prices come in falling order, and leave room for asks.
SnapshotInsert(s, p, v) ==
  /\ phase = s
  /\ level_0 # Blank => p < level_0
  /\ Uncrossed(s, p) /\ (s = "Buy" => p < Last - 1)
  /\ IF s = "Buy"
     THEN /\ parent' = [parent EXCEPT ![s][level_0] = p]
          /\ child' = [child EXCEPT ![s][p] = level_0]
     ELSE /\ child' = [child EXCEPT ![s][level_0] = p]
          /\ parent' = [parent EXCEPT ![s][p] = level_0]
  /\ vol' = [vol EXCEPT ![s][p] = v]
  /\ is_set' = [is_set EXCEPT ![s][p] = TRUE]
  /\ head' = IF Ahead(s, p, head[s]) THEN [head EXCEPT ![s] = p] ELSE head
  /\ level_0' = p
  /\ UNCHANGED <<phase, is_bba_upd, fault>>

\* get_orderBook_snapshot: the bids, then the asks behind a new blank level.
SnapshotDone ==
  /\ phase \in Sides /\ level_0 # Blank
  /\ phase' = IF phase = "Buy" THEN "Sell" ELSE "start"
  /\ level_0' = Blank
  /\ UNCHANGED <<links, vol, is_bba_upd, fault>>

\* An invalid pointer is followed: the program is killed.
Crash(s, p) == /\ phase' = "killed"
               /\ fault' = {<<s, p>>}
               /\ UNCHANGED <<links, vol, level_0, is_bba_upd>>

Link(s, p, v) ==
  /\ vol' = [vol EXCEPT ![s][p] = v]
  /\ is_set' = [is_set EXCEPT ![s][p] = TRUE]
  /\ UNCHANGED <<phase, level_0, fault>>

\* ob_insert, at the front.
InsertBest(s, p, v) ==
  /\ Insertable(s, p) /\ Ahead(s, p, head[s])
  /\ parent' = [parent EXCEPT ![s][p] = head[s]]
  /\ child' = [child EXCEPT ![s][head[s]] = p]
  /\ head' = [head EXCEPT ![s] = p]
  /\ is_bba_upd' = TRUE
  /\ Link(s, p, v)

\* The level that the scan of ob_insert stops at: the first one set ahead of p.
NextAhead(s, p, c) ==
  /\ c \in Book(s) /\ Ahead(s, c, p)
  /\ \A q \in Book(s) : Ahead(s, q, p) => q = c \/ Ahead(s, q, c)

\* Mutated InsertBehind: the new level is not linked to the worse one.
InsertBehindHalf(s, p, v) ==
  /\ Insertable(s, p) /\ ~Ahead(s, p, head[s])
  /\ \E c \in Prices :
        /\ NextAhead(s, p, c) /\ parent[s][c] # Null
        /\ child' = [child EXCEPT ![s][p] = c, ![s][parent[s][c]] = p]
        /\ parent' = [parent EXCEPT ![s][c] = p]
  /\ is_bba_upd' = FALSE
  /\ UNCHANGED head
  /\ Link(s, p, v)

\* ob_insert, behind a better price.
InsertBehind(s, p, v) ==
  /\ Insertable(s, p) /\ ~Ahead(s, p, head[s])
  /\ \E c \in Prices :
        /\ NextAhead(s, p, c) /\ parent[s][c] # Null
        /\ child' = [child EXCEPT ![s][p] = c, ![s][parent[s][c]] = p]
        /\ parent' = [parent EXCEPT ![s][p] = parent[s][c], ![s][c] = p]
  /\ is_bba_upd' = FALSE
  /\ UNCHANGED head
  /\ Link(s, p, v)

\* ob_insert behind a level that has no parent, or with no level set ahead of
\* it, when the scan leaves the array.
InsertCrash(s, p) ==
  /\ Insertable(s, p) /\ ~Ahead(s, p, head[s])
  /\ \A c \in Prices : NextAhead(s, p, c) => parent[s][c] = Null
  /\ Crash(s, p)

Unlink(s, p) ==
  /\ is_set' = [is_set EXCEPT ![s][p] = FALSE]
  /\ UNCHANGED <<phase, vol, level_0, fault>>

\* The price of a level, as an index; that of the blank level is zero.
PriceOf(c) == IF c = Blank THEN 0 ELSE c

\* Mutated DeleteBest: the price difference is scaled twice.
DeleteBestTwice(s, p) ==
  /\ Deletable(s, p) /\ p = head[s] /\ parent[s][p] # Null
  /\ head' = [head EXCEPT ![s] = p + 2 * (PriceOf(parent[s][p]) - p)]
  /\ child' = [child EXCEPT ![s][parent[s][p]] = 0, ![s][p] = Null]
  /\ parent' = [parent EXCEPT ![s][p] = Null]
  /\ is_bba_upd' = TRUE
  /\ Unlink(s, p)

\* Mutated DeleteBest: the switch is off when it is returned.
DeleteBestSilent(s, p) ==
  /\ Deletable(s, p) /\ p = head[s] /\ parent[s][p] # Null
  /\ head' = [head EXCEPT ![s] = PriceOf(parent[s][p])]
  /\ child' = [child EXCEPT ![s][parent[s][p]] = 0, ![s][p] = Null]
  /\ parent' = [parent EXCEPT ![s][p] = Null]
  /\ is_bba_upd' = FALSE
  /\ Unlink(s, p)

\* ob_delete of the best price: head moves by twice the difference of the
\* prices, to the parent, whose child becomes the start of the array.  Behind
\* the only ask is the blank level, and head moves to the start as well.
DeleteBest(s, p) ==
  /\ Deletable(s, p) /\ p = head[s] /\ parent[s][p] # Null
  /\ head' = [head EXCEPT ![s] = PriceOf(parent[s][p])]
  /\ child' = [child EXCEPT ![s][parent[s][p]] = 0, ![s][p] = Null]
  /\ parent' = [parent EXCEPT ![s][p] = Null]
  /\ is_bba_upd' = TRUE
  /\ Unlink(s, p)

\* ob_delete of another price.
DeleteBehind(s, p) ==
  /\ Deletable(s, p) /\ p # head[s] /\ parent[s][p] # Null
  /\ child' = [child EXCEPT ![s][parent[s][p]] = child[s][p], ![s][p] = Null]
  /\ parent' = [parent EXCEPT ![s][child[s][p]] = parent[s][p], ![s][p] = Null]
  /\ is_bba_upd' = FALSE
  /\ UNCHANGED head
  /\ Unlink(s, p)

\* ob_delete reads the price of the parent of a level that has none.
DeleteCrash(s, p) ==
  /\ Deletable(s, p) /\ parent[s][p] = Null
  /\ Crash(s, p)

\* ob_update.
Update(s, p, v) ==
  /\ phase = "feed" /\ is_set[s][p]
  /\ vol' = [vol EXCEPT ![s][p] = v]
  /\ UNCHANGED <<phase, links, level_0, is_bba_upd, fault>>

Insert(s, p) == \/ InsertCrash(s, p)
                \/ \E v \in VolsOf(s) : InsertBest(s, p, v) \/ InsertBehind(s, p, v)

Delete(s, p) == DeleteBest(s, p) \/ DeleteBehind(s, p) \/ DeleteCrash(s, p)
-----------------------------------------------------------------------------
BookTypeOK ==
  /\ phase \in Sides \cup {"start", "feed", "killed"}
  /\ head \in [Sides -> Index]
  /\ child \in [Sides -> [Cells -> Cells \cup {Null}]]
  /\ parent \in [Sides -> [Cells -> Cells \cup {Null}]]
  /\ vol \in [Sides -> [Index -> Nat]]
  /\ is_set \in [Sides -> [Index -> BOOLEAN]]
  /\ level_0 \in Prices \cup {Blank}
  /\ is_bba_upd \in BOOLEAN
  /\ fault \subseteq Sides \X Index

\* What the worst level is linked to.
Behind(s) == IF s = "Buy" THEN Null ELSE Blank

\* p and q are neighbours on side s, p the better one.
Adjacent(s, p, q) ==
  /\ p \in Book(s) /\ q \in Book(s) /\ Ahead(s, p, q)
  /\ \A r \in Book(s) : ~(Ahead(s, p, r) /\ Ahead(s, r, q))

\* The worst price of side s.
Worst(s, p) == p \in Book(s) /\ \A q \in Book(s) : ~Ahead(s, p, q)

\* However prices came and went, the links lead from the head through every
\* level in use, best to worst, and back (OrderBook.hpp:85-146, 181-241).
Linked ==
  \A s \in Sides : Book(s) # {} =>
     /\ head[s] \in Book(s)
     /\ \A p \in Book(s) :
           /\ p = head[s] \/ Adjacent(s, child[s][p], p)
           /\ IF Worst(s, p) THEN parent[s][p] = Behind(s)
                             ELSE Adjacent(s, p, parent[s][p])

\* The program is killed in two situations only: a message deletes the worst bid
\* or inserts a bid behind it, or there is no ask left; never by a message about
\* any other level (OrderBook.hpp:105-116, 123-143, 219-229,
\* OrderBookStream.hpp:142).
KilledWhenBare ==
  \A f \in fault :
     IF f[1] = "Buy" THEN \A q \in Book("Buy") : f[2] <= q ELSE Book("Sell") = {}

Levels == INSTANCE PriceLevels WITH
  Vols <- BidVols \cup AskVols,
  levels <- [s \in Sides |-> [p \in Book(s) |-> vol[s][p]]],
  best   <- [s \in Sides |-> IF Book(s) = {} THEN -1 ELSE head[s]],
  moved  <- is_bba_upd

=============================================================================
