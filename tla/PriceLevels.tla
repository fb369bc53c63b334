---------------------------- MODULE PriceLevels ----------------------------
(***************************************************************************)
(* What the order book promises its reader, whatever it is made of: for    *)
(* each side the volume at each price and the best price, and after each   *)
(* insertion or deletion whether that side's best price has moved.         *)
(***************************************************************************)
EXTENDS Integers

CONSTANTS Sides, Prices, Vols,
          Ahead(_, _, _)  \* on a side, one price is a better one than another

NoPrice == -1

VARIABLES levels,  \* by side, the volume at each price that is in the book
          best,    \* by side, the best of those prices
          moved    \* the last insertion or deletion has moved its best price

IsBest(s, p, S) == p \in S /\ \A q \in S : q = p \/ Ahead(s, p, q)

Init == /\ levels = [s \in Sides |-> [p \in {} |-> 0]]
        /\ best = [s \in Sides |-> NoPrice]
        /\ moved = FALSE

\* Side s becomes the function f, and has the best price of it, if any.
Become(s, f) ==
  /\ levels' = [levels EXCEPT ![s] = f]
  /\ \E b \in DOMAIN f \cup {NoPrice} :
        /\ IsBest(s, b, DOMAIN f) \/ (b = NoPrice /\ DOMAIN f = {})
        /\ best' = [best EXCEPT ![s] = b]

\* Side s with price p set to v, and without p.
With(s, p, v) ==
  [q \in DOMAIN levels[s] \cup {p} |-> IF q = p THEN v ELSE levels[s][q]]
Without(s, p) == [q \in DOMAIN levels[s] \ {p} |-> levels[s][q]]

\* A level of the snapshot; nobody asks about the best price yet.
Snapshot(s, p, v) == Become(s, With(s, p, v)) /\ UNCHANGED moved

Insert(s, p, v) == /\ p \notin DOMAIN levels[s]
                   /\ Become(s, With(s, p, v))
                   /\ moved' = (best' # best)

Delete(s, p) == /\ p \in DOMAIN levels[s]
                /\ Become(s, Without(s, p))
                /\ moved' = (best' # best)

Update(s, p, v) == /\ p \in DOMAIN levels[s]
                   /\ levels' = [levels EXCEPT ![s][p] = v]
                   /\ UNCHANGED <<best, moved>>

Next == \E s \in Sides, p \in Prices :
           \/ Delete(s, p)
           \/ \E v \in Vols : Snapshot(s, p, v) \/ Insert(s, p, v) \/ Update(s, p, v)

Spec == Init /\ [][Next]_<<levels, best, moved>>
=============================================================================
