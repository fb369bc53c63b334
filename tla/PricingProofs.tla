---------------------------- MODULE PricingProofs ----------------------------
(***************************************************************************)
(* Proofs about the arithmetic of Pricing, for every width of an int, and  *)
(* what the stores of update_targ_prices leave in each target.             *)
(***************************************************************************)
EXTENDS Pricing, SequenceTheorems, TLAPS

\* The shift tells zero from every other int, the least one included, which has no
\* negative (BitwiseOperations.hpp:6-9).
THEOREM NonZeroRight == \A n \in Ints : bitwise_non_zero(n) = IF n = 0 THEN 0 ELSE 1
<1> SUFFICES ASSUME NEW n \in Ints
             PROVE  bitwise_non_zero(n) = IF n = 0 THEN 0 ELSE 1
  OBVIOUS
<1>1. MaxInt \in Nat \ {0} /\ n \in Int /\ MinInt = -MaxInt - 1 /\ MinInt < 0
  BY PricingAssumption DEF Ints, MinInt
<1>2. CASE n = MinInt
  BY <1>1, <1>2 DEF bitwise_non_zero, Negative
<1>3. CASE n # MinInt
  <2>1. Negative(n) = -n
    BY <1>3 DEF Negative
  <2> QED
    BY <1>1, <2>1 DEF bitwise_non_zero
<1> QED
  BY <1>2, <1>3

\* What the quotient tells of two volumes.
LEMMA Quotient ==
  ASSUME NEW bids \in Nat, NEW asks \in Nat \ {0}
  PROVE  /\ bids \div asks \in Nat
         /\ bids \div asks = 0 <=> bids < asks
         /\ bids \div asks > 1 <=> bids >= 2 * asks
<1>1. bids \div asks \in Nat
  OBVIOUS
<1>2. PICK q \in Nat : q = bids \div asks
  BY <1>1
<1>3. asks * q <= bids /\ bids < asks * q + asks
  BY <1>2
<1>4. q = 0 => asks * q = 0
  OBVIOUS
<1>5. q = 1 => asks * q = asks
  OBVIOUS
<1>6. q >= 1 => asks * q >= asks
  OBVIOUS
<1>7. q >= 2 => asks * q >= 2 * asks
  OBVIOUS
<1> QED
  BY <1>2, <1>3, <1>4, <1>5, <1>6, <1>7

\* In volumes, of whatever width an int is and whatever the conversion of an infinite
\* quotient gives: the bid offer stands away as soon as the asks outweigh the bids, but
\* the ask offer only once the bids are twice the asks, which the integer quotient and
\* its inverse do not tell from equal volumes before (TradeLogic.hpp:108-109,
\* OrderBookStream.hpp:140-147).
THEOREM OffersAside ==
  \A bids \in Nat, asks \in Nat \ {0} :
     bids \div asks <= MaxInt =>
        /\ BidAway(bids \div asks) <=> bids < asks
        /\ AskAway(bids \div asks) <=> bids >= 2 * asks
<1> SUFFICES ASSUME NEW bids \in Nat, NEW asks \in Nat \ {0}, bids \div asks <= MaxInt
             PROVE  /\ BidAway(bids \div asks) <=> bids < asks
                    /\ AskAway(bids \div asks) <=> bids >= 2 * asks
  OBVIOUS
<1>1. PICK ratio \in Nat : ratio = bids \div asks
  BY Quotient
<1>2. /\ MaxInt \in Nat \ {0} /\ ratio <= MaxInt
      /\ {0, 1, ratio, OfInfinity} \subseteq Ints /\ OfInfinity # 0
  BY <1>1, PricingAssumption DEF Ints, MinInt
<1>3. InverseRatio(ratio) = IF ratio = 0 THEN OfInfinity ELSE IF ratio = 1 THEN 1 ELSE 0
  <2>1. CASE ratio \in {0, 1}
    BY <2>1 DEF InverseRatio
  <2>2. CASE ratio > 1
    <3>1. 1 \div ratio = 0
      BY <1>1, <2>2
    <3> QED
      BY <2>2, <3>1 DEF InverseRatio
  <2> QED
    BY <2>1, <2>2
<1>4. (AskAway(ratio) <=> ratio > 1) /\ (BidAway(ratio) <=> ratio = 0)
  BY <1>2, <1>3, NonZeroRight DEF AskAway, BidAway
<1> QED
  BY <1>1, <1>4, Quotient

-----------------------------------------------------------------------------
\* The targets there are, and the stores to them.
Places == {"bid", "ask", "bid_posn", "ask_posn"}

Stores == [slot : Places, price : Int]

\* The last of the stores to s stores p.
IsLast(stores, s, p) ==
  \E i \in 1..Len(stores) :
    stores[i].slot = s /\ stores[i].price = p /\ \A j \in i + 1..Len(stores) : stores[j].slot # s

Ordered(bid, posnBid, posnAsk, ask) == bid <= posnBid /\ posnBid < posnAsk /\ posnAsk <= ask

\* The stores of update_targ_prices are well typed.
LEMMA StoresType ==
  ASSUME NEW bid \in Int, NEW ask \in Int, NEW ratio \in Nat
  PROVE  /\ TargetStores(bid, ask, ratio) \in Seq(Stores)
         /\ TargetStores(bid, ask, ratio) # <<>>
<1> DEFINE bidUp   == ask - bid > 1
           posnBid == IF bidUp THEN bid + 1 ELSE bid
           askDown == bidUp /\ ask - posnBid > 1
           posnAsk == IF askDown THEN ask - 1 ELSE ask
           one(s, p) == <<[slot |-> s, price |-> p]>>
           when(c, st) == IF c THEN st ELSE <<>>
           s1 == one("bid_posn", bid)
           s2 == one("ask_posn", ask)
           s3 == when(bidUp, one("bid_posn", posnBid))
           s4 == when(askDown, one("ask_posn", posnAsk))
           s5 == one("ask", posnAsk + IF AskAway(ratio) THEN OfferOffset ELSE 0)
           s6 == one("bid", posnBid - IF BidAway(ratio) THEN OfferOffset ELSE 0)
<1>1. OfferOffset \in Nat
  BY PricingAssumption
<1>2. posnBid \in Int /\ posnAsk \in Int
  OBVIOUS
<1>3. ASSUME NEW s \in Places, NEW p \in Int
      PROVE  one(s, p) \in Seq(Stores)
  BY DEF Stores
<1>4. s1 \in Seq(Stores) /\ s2 \in Seq(Stores) /\ s5 \in Seq(Stores) /\ s6 \in Seq(Stores)
  <2>1. /\ posnAsk + (IF AskAway(ratio) THEN OfferOffset ELSE 0) \in Int
        /\ posnBid - (IF BidAway(ratio) THEN OfferOffset ELSE 0) \in Int
    BY <1>1, <1>2
  <2> HIDE DEF posnBid, posnAsk, one
  <2> QED
    BY <1>3, <2>1 DEF Places
<1>5. s3 \in Seq(Stores) /\ s4 \in Seq(Stores)
  <2> HIDE DEF posnBid, posnAsk, one
  <2> QED
    BY <1>2, <1>3 DEF Places
<1>6. s1 # <<>>
  OBVIOUS
<1>7. TargetStores(bid, ask, ratio) = s1 \o s2 \o s3 \o s4 \o s5 \o s6
  BY DEF TargetStores
<1> HIDE DEF s1, s2, s3, s4, s5, s6
<1>8. /\ s1 \o s2 \o s3 \o s4 \o s5 \o s6 \in Seq(Stores)
      /\ s1 \o s2 \o s3 \o s4 \o s5 \o s6 # <<>>
  <2> SUFFICES ASSUME NEW a \in Seq(Stores), a # <<>>, NEW b \in Seq(Stores)
               PROVE  a \o b \in Seq(Stores) /\ a \o b # <<>>
    BY <1>4, <1>5, <1>6
  <2> QED
    OBVIOUS
<1> QED
  BY <1>7, <1>8

\* A store at the end is the last one to its slot, and to no other.
LEMMA LastAppended ==
  ASSUME NEW st \in Seq(Stores), NEW x \in Stores
  PROVE  /\ st \o <<x>> \in Seq(Stores)
         /\ IsLast(st \o <<x>>, x.slot, x.price)
         /\ \A s, p : s # x.slot /\ IsLast(st, s, p) => IsLast(st \o <<x>>, s, p)
<1> DEFINE new == st \o <<x>>
<1>1. /\ new \in Seq(Stores) /\ Len(new) = Len(st) + 1 /\ Len(st) \in Nat
      /\ new[Len(st) + 1] = x /\ \A i \in 1..Len(st) : new[i] = st[i]
  OBVIOUS
<1> HIDE DEF new
<1>2. IsLast(new, x.slot, x.price)
  BY <1>1 DEF IsLast
<1>3. ASSUME NEW s, NEW p, s # x.slot, IsLast(st, s, p)
      PROVE  IsLast(new, s, p)
  <2>1. PICK i \in 1..Len(st) : /\ st[i].slot = s /\ st[i].price = p
                                /\ \A j \in i + 1..Len(st) : st[j].slot # s
    BY <1>3 DEF IsLast
  <2>2. i \in 1..Len(new) /\ new[i].slot = s /\ new[i].price = p
    BY <1>1, <2>1
  <2>3. \A j \in i + 1..Len(new) : new[j].slot # s
    BY <1>1, <1>3, <2>1
  <2> QED
    BY <2>2, <2>3 DEF IsLast
<1> QED
  BY <1>1, <1>2, <1>3 DEF new

\* A store that may be left out.
LEMMA LastMaybeAppended ==
  ASSUME NEW st \in Seq(Stores), NEW x \in Stores, NEW c \in BOOLEAN
  PROVE  LET new == st \o (IF c THEN <<x>> ELSE <<>>)
         IN  /\ new \in Seq(Stores)
             /\ c => IsLast(new, x.slot, x.price)
             /\ \A s, p : (s # x.slot \/ ~c) /\ IsLast(st, s, p) => IsLast(new, s, p)
<1>1. st \o <<>> = st
  OBVIOUS
<1> QED
  BY <1>1, LastAppended

\* update_targ_prices leaves the offers outside of or at the position prices, and
\* those uncrossed, whatever the quotient (TradeLogic.hpp:89-110).
LEMMA StoresOrdered ==
  ASSUME NEW best_bid \in Int, NEW best_ask \in Int, NEW ratio \in Nat
  PROVE  \E bid, posnBid, posnAsk, ask \in Int :
           LET st == TargetStores(best_bid, best_ask, ratio)
           IN  /\ best_bid < best_ask => Ordered(bid, posnBid, posnAsk, ask)
               /\ IsLast(st, "bid", bid) /\ IsLast(st, "bid_posn", posnBid)
               /\ IsLast(st, "ask_posn", posnAsk) /\ IsLast(st, "ask", ask)
<1> DEFINE bidUp   == best_ask - best_bid > 1
           posnBid == IF bidUp THEN best_bid + 1 ELSE best_bid
           askDown == bidUp /\ best_ask - posnBid > 1
           posnAsk == IF askDown THEN best_ask - 1 ELSE best_ask
           ask     == posnAsk + IF AskAway(ratio) THEN OfferOffset ELSE 0
           bid     == posnBid - IF BidAway(ratio) THEN OfferOffset ELSE 0
           x(s, p) == [slot |-> s, price |-> p]
           st1 == <<x("bid_posn", best_bid)>>
           st2 == st1 \o <<x("ask_posn", best_ask)>>
           st3 == st2 \o (IF bidUp THEN <<x("bid_posn", posnBid)>> ELSE <<>>)
           st4 == st3 \o (IF askDown THEN <<x("ask_posn", posnAsk)>> ELSE <<>>)
           st5 == st4 \o <<x("ask", ask)>>
           st6 == st5 \o <<x("bid", bid)>>
<1>1. TargetStores(best_bid, best_ask, ratio) = st6
  BY DEF TargetStores
<1>2. /\ bid \in Int /\ posnBid \in Int /\ posnAsk \in Int /\ ask \in Int
      /\ best_bid < best_ask => Ordered(bid, posnBid, posnAsk, ask)
  <2>1. /\ posnBid \in Int /\ posnAsk \in Int
        /\ best_bid < best_ask => posnBid < posnAsk
    OBVIOUS
  <2> HIDE DEF posnBid, posnAsk
  <2> QED
    BY <2>1, PricingAssumption DEF Ordered
<1>3. /\ bidUp \in BOOLEAN /\ askDown \in BOOLEAN
      /\ ~bidUp => posnBid = best_bid
      /\ ~askDown => posnAsk = best_ask
  OBVIOUS
<1> HIDE DEF bidUp, askDown, posnBid, posnAsk, ask, bid
<1>4. \A s \in Places, p \in Int : x(s, p) \in Stores /\ x(s, p).slot = s /\ x(s, p).price = p
  BY DEF Stores
<1>5. /\ st1 \in Seq(Stores) /\ IsLast(st1, "bid_posn", best_bid)
  <2>1. x("bid_posn", best_bid) \in Stores
    BY <1>4 DEF Places
  <2>2. Len(st1) = 1 /\ st1[1] = x("bid_posn", best_bid)
    OBVIOUS
  <2>3. st1 \in Seq(Stores)
    BY <2>1
  <2> QED
    BY <2>2, <2>3 DEF IsLast
<1> HIDE DEF st1, x
<1>6. /\ st2 \in Seq(Stores) /\ IsLast(st2, "bid_posn", best_bid)
      /\ IsLast(st2, "ask_posn", best_ask)
  BY <1>4, <1>5, LastAppended DEF Places
<1> HIDE DEF st2
<1>7. st3 \in Seq(Stores) /\ IsLast(st3, "bid_posn", posnBid) /\ IsLast(st3, "ask_posn", best_ask)
  BY <1>2, <1>3, <1>4, <1>6, LastMaybeAppended DEF Places
<1> HIDE DEF st3
<1>8. st4 \in Seq(Stores) /\ IsLast(st4, "bid_posn", posnBid) /\ IsLast(st4, "ask_posn", posnAsk)
  BY <1>2, <1>3, <1>4, <1>7, LastMaybeAppended DEF Places
<1> HIDE DEF st4
<1>9. /\ st5 \in Seq(Stores) /\ IsLast(st5, "bid_posn", posnBid)
      /\ IsLast(st5, "ask_posn", posnAsk) /\ IsLast(st5, "ask", ask)
  BY <1>2, <1>4, <1>8, LastAppended DEF Places
<1> HIDE DEF st5
<1>10. /\ IsLast(st6, "bid_posn", posnBid) /\ IsLast(st6, "ask_posn", posnAsk)
       /\ IsLast(st6, "ask", ask) /\ IsLast(st6, "bid", bid)
  BY <1>2, <1>4, <1>9, LastAppended DEF Places
<1> HIDE DEF st6
<1> QED
  BY <1>1, <1>2, <1>10

\* TargetsOf has a target for every slot, the last one that is stored.
LEMMA TargetsStored ==
  ASSUME NEW bid \in Int, NEW ask \in Int, NEW ratio \in Nat
  PROVE  LET st == TargetStores(bid, ask, ratio)
             to == TargetsOf(bid, ask, ratio)
         IN  /\ to \in [Places -> Int]
             /\ \A s \in Places : IsLast(st, s, to[s])
<1> DEFINE st == TargetStores(bid, ask, ratio)
           to == TargetsOf(bid, ask, ratio)
           Last(s, i) == st[i].slot = s /\ \A j \in DOMAIN st : st[j].slot = s => j <= i
           last(s) == CHOOSE i \in DOMAIN st : Last(s, i)
<1>1. st \in Seq(Stores) /\ Len(st) \in Nat /\ DOMAIN st = 1..Len(st)
  BY StoresType, LenProperties
<1>2. to = [s \in {st[i].slot : i \in DOMAIN st} |-> st[last(s)].price]
  BY DEF TargetsOf
<1>3. \A s \in Places : \E p : IsLast(st, s, p)
  <2>1. PICK b, pb, pa, a \in Int : /\ IsLast(st, "bid", b) /\ IsLast(st, "bid_posn", pb)
                                    /\ IsLast(st, "ask_posn", pa) /\ IsLast(st, "ask", a)
    BY StoresOrdered
  <2> HIDE DEF st
  <2> QED
    BY <2>1 DEF Places
<1> HIDE DEF st, to
<1>4. \A i \in DOMAIN st : st[i].slot \in Places /\ st[i].price \in Int
  <2>1. \A i \in 1..Len(st) : st[i] \in Stores
    BY <1>1, ElementOfSeq
  <2> QED
    BY <1>1, <2>1 DEF Stores
<1>5. ASSUME NEW s \in Places
      PROVE  s \in {st[i].slot : i \in DOMAIN st} /\ IsLast(st, s, st[last(s)].price)
             /\ st[last(s)].price \in Int
  <2>1. PICK i \in 1..Len(st) : st[i].slot = s /\ \A j \in i + 1..Len(st) : st[j].slot # s
    BY <1>3 DEF IsLast
  <2>2. \A j \in DOMAIN st : st[j].slot = s => j <= i
    BY <1>1, <2>1
  <2>3. Last(s, i)
    BY <2>1, <2>2
  <2>4. last(s) \in DOMAIN st /\ Last(s, last(s))
    <3> HIDE DEF Last
    <3> QED
      BY <1>1, <2>3
  <2>5. \A j \in last(s) + 1..Len(st) : st[j].slot # s
    <3> HIDE DEF last
    <3> QED
      BY <1>1, <2>4
  <2> HIDE DEF last
  <2> QED
    BY <1>1, <1>4, <2>1, <2>4, <2>5 DEF IsLast
<1>6. \A s \in {st[i].slot : i \in DOMAIN st} : s \in Places
  BY <1>4
<1>7. {st[i].slot : i \in DOMAIN st} = Places
  BY <1>5, <1>6
<1> QED
  BY <1>2, <1>5, <1>7 DEF st, to
=============================================================================
