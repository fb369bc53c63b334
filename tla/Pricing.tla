------------------------------ MODULE Pricing ------------------------------
(***************************************************************************)
(* The arithmetic of TradeLogic.hpp and BitwiseOperations.hpp: the target  *)
(* prices that follow from the best prices and the quotient of their       *)
(* volumes.  Prices are counted in ticks of half a dollar.                 *)
(***************************************************************************)
EXTENDS Integers, Sequences

CONSTANTS
  MaxInt,      \* the greatest value of an int, 2^31 - 1 on the machines in use
  OfferOffset, \* offr_offset, in ticks
  OfInfinity   \* what the conversion of an infinite double to an int gives:
               \* undefined in C++, the least int or the greatest on real machines

ASSUME PricingAssumption ==
  /\ MaxInt \in Nat \ {0} /\ OfferOffset \in Nat
  /\ OfInfinity \in {-MaxInt - 1, MaxInt}

MinInt == -MaxInt - 1
Ints == MinInt..MaxInt

\* ~n + 1: the negative of an int, of which the least has none.
Negative(n) == IF n = MinInt THEN MinInt ELSE -n

\* The bit that is shifted down is the sign of n | (~n + 1), set when either
\* of the two is negative.
bitwise_non_zero(n) == IF n < 0 \/ Negative(n) < 0 THEN 1 ELSE 0

\* A mask of ones or of zeroes, and the negative of what it leaves.
bitwise_positive_only(n) == IF 0 < n THEN n ELSE 0
bitwise_negative_abs(n)  == Negative(IF 0 > n THEN n ELSE 0)

\* (int)(1 / vol_ratio).
InverseRatio(ratio) == IF ratio = 0 THEN OfInfinity ELSE 1 \div ratio

\* The ask offer stands away when 1 / vol_ratio is cut to zero, the bid offer when
\* vol_ratio is zero, the integer quotient of the volumes.
AskAway(ratio) == bitwise_non_zero(InverseRatio(ratio)) = 0
BidAway(ratio) == bitwise_non_zero(ratio) = 0

\* Mutated TargetStores: the spread is not computed again before the ask
\* target improves.
TargetStoresOldSpread(bid, ask, ratio) ==
  LET up      == ask - bid > 1
      posnBid == IF up THEN bid + 1 ELSE bid
      posnAsk == IF up THEN ask - 1 ELSE ask
  IN  << [slot |-> "bid_posn", price |-> posnBid],
         [slot |-> "ask_posn", price |-> posnAsk],
         [slot |-> "ask", price |-> posnAsk + IF AskAway(ratio) THEN OfferOffset ELSE 0],
         [slot |-> "bid", price |-> posnBid - IF BidAway(ratio) THEN OfferOffset ELSE 0] >>

(***************************************************************************)
(* update_targ_prices: the stores to the targets, in order.  The position  *)
(* targets improve on the best prices by a tick where the spread leaves    *)
(* room, and are stored unimproved first.                                  *)
(***************************************************************************)
TargetStores(bid, ask, ratio) ==
  LET bidUp   == ask - bid > 1
      posnBid == IF bidUp THEN bid + 1 ELSE bid
      askDown == bidUp /\ ask - posnBid > 1
      posnAsk == IF askDown THEN ask - 1 ELSE ask
      store(s, p) == <<[slot |-> s, price |-> p]>>
      when(c, st) == IF c THEN st ELSE <<>>
  IN  store("bid_posn", bid) \o store("ask_posn", ask)
      \o when(bidUp, store("bid_posn", posnBid))
      \o when(askDown, store("ask_posn", posnAsk))
      \o store("ask", posnAsk + IF AskAway(ratio) THEN OfferOffset ELSE 0)
      \o store("bid", posnBid - IF BidAway(ratio) THEN OfferOffset ELSE 0)

\* The targets once all stores are done.
TargetsOf(bid, ask, ratio) ==
  LET stores == TargetStores(bid, ask, ratio)
      last(s) == CHOOSE i \in DOMAIN stores :
                   /\ stores[i].slot = s
                   /\ \A j \in DOMAIN stores : stores[j].slot = s => j <= i
  IN  [s \in {stores[i].slot : i \in DOMAIN stores} |-> stores[last(s)].price]
=============================================================================
