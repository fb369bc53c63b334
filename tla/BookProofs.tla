----------------------------- MODULE BookProofs -----------------------------
(***************************************************************************)
(* Proofs about the order book, for any number of prices and any messages: *)
(* the links lead through every level in use; the book shows its reader    *)
(* the levels, the best prices and whether one has moved, as PriceLevels   *)
(* has it; and the program is killed in two situations only.               *)
(***************************************************************************)
EXTENDS BookMessages, PricingProofs, WellFoundedInduction

(***************************************************************************)
(* One side by itself: the prices S in use, the head h, the links ch and   *)
(* pa.  A price of a chain is the head or has a child; it is the worst, or *)
(* has a parent in use.                                                    *)
(***************************************************************************)
Neighbours(s, S, p, q) ==
  /\ p \in S /\ q \in S /\ Ahead(s, p, q)
  /\ \A r \in S : ~(Ahead(s, p, r) /\ Ahead(s, r, q))

Hindmost(s, S, p) == \A q \in S : ~Ahead(s, p, q)

Foremost(s, S, p) == p \in S /\ \A q \in S : q = p \/ Ahead(s, p, q)

ChildRight(s, S, h, ch, p)  == p = h \/ Neighbours(s, S, ch[p], p)
ParentRight(s, S, pa, p) ==
  IF Hindmost(s, S, p) THEN pa[p] = Behind(s) ELSE Neighbours(s, S, p, pa[p])

Chain(s, S, h, ch, pa) ==
  /\ Foremost(s, S, h)
  /\ \A p \in S : ChildRight(s, S, h, ch, p) /\ ParentRight(s, S, pa, p)

LEMMA Order ==
  ASSUME NEW s \in Sides
  PROVE  /\ \A p \in Prices : ~Ahead(s, p, p)
         /\ \A p, q, r \in Prices : Ahead(s, p, q) /\ Ahead(s, q, r) => Ahead(s, p, r)
         /\ \A p, q \in Prices : Ahead(s, p, q) \/ p = q \/ Ahead(s, q, p)
BY BookAssumption DEF Ahead, Prices

-----------------------------------------------------------------------------
\* A price put before the head.
LEMMA ChainFront ==
  ASSUME NEW s \in Sides, NEW S \in SUBSET Prices, NEW h, NEW ch, NEW pa, Chain(s, S, h, ch, pa),
         NEW p \in Prices \ S, Ahead(s, p, h),
         NEW ch2, \A q \in S : ch2[q] = IF q = h THEN p ELSE ch[q],
         NEW pa2, \A q \in S \cup {p} : pa2[q] = IF q = p THEN h ELSE pa[q]
  PROVE  Chain(s, S \cup {p}, p, ch2, pa2)
<1> DEFINE T == S \cup {p}
<1>0. h \in S /\ h \in Prices /\ p \notin S /\ S \subseteq Prices
  BY DEF Chain, Foremost
<1>1. \A q \in S : Ahead(s, p, q)
  BY <1>0, Order DEF Chain, Foremost
<1>2. Foremost(s, T, p)
  BY <1>1 DEF Foremost
<1>3. \A q, r \in S : Neighbours(s, S, q, r) => Neighbours(s, T, q, r)
  BY <1>0, <1>1, Order DEF Neighbours
<1>4. Neighbours(s, T, p, h)
  BY <1>0, <1>1, Order DEF Neighbours, Chain, Foremost
<1>5. ASSUME NEW q \in S
      PROVE  ChildRight(s, T, p, ch2, q) /\ ParentRight(s, T, pa2, q)
  <2>1. q # p /\ q \in Prices /\ ChildRight(s, S, h, ch, q) /\ ParentRight(s, S, pa, q)
    BY <1>0 DEF Chain
  <2>2. ChildRight(s, T, p, ch2, q)
    BY <1>3, <1>4, <2>1 DEF ChildRight, Neighbours
  <2>3. Hindmost(s, T, q) <=> Hindmost(s, S, q)
    BY <1>0, <1>1, <2>1, Order DEF Hindmost
  <2>4. ParentRight(s, T, pa2, q)
    BY <1>3, <2>1, <2>3 DEF ParentRight, Neighbours
  <2> QED
    BY <2>2, <2>4
<1>6. ChildRight(s, T, p, ch2, p) /\ ParentRight(s, T, pa2, p)
  BY <1>0, <1>4, <1>1 DEF ChildRight, ParentRight, Hindmost
<1> QED
  BY <1>2, <1>5, <1>6 DEF Chain

\* A price put behind c, the last one ahead of it.
LEMMA ChainBehind ==
  ASSUME NEW s \in Sides, NEW S \in SUBSET Prices, NEW h, NEW ch, NEW pa, Chain(s, S, h, ch, pa),
         NEW p \in Prices \ S, NEW c \in S, Ahead(s, c, p),
         \A q \in S : Ahead(s, q, p) => q = c \/ Ahead(s, q, c),
         NEW ch2, ch2[p] = c,
         \A q \in S : ch2[q] = IF q = pa[c] THEN p ELSE ch[q],
         NEW pa2, \A q \in S \cup {p} : pa2[q] = IF q = p THEN pa[c] ELSE IF q = c THEN p ELSE pa[q]
  PROVE  Chain(s, S \cup {p}, h, ch2, pa2)
<1> DEFINE T == S \cup {p}
<1>0. h \in S /\ p \notin S /\ S \subseteq Prices /\ c \in Prices
      /\ \A q \in S : q = h \/ Ahead(s, h, q)
  BY DEF Chain, Foremost
<1>1. Foremost(s, T, h)
  BY <1>0, Order DEF Foremost
<1>2. Neighbours(s, T, c, p)
  BY <1>0, Order DEF Neighbours
<1>3. \A q, r \in S : Neighbours(s, S, q, r) /\ q # c => Neighbours(s, T, q, r)
  BY <1>0, Order DEF Neighbours
<1>4. ASSUME NEW w \in S, Neighbours(s, S, c, w)
      PROVE  Neighbours(s, T, p, w)
  BY <1>0, <1>4, Order DEF Neighbours
<1>5. \A q \in S, r \in S : Neighbours(s, S, c, q) /\ Neighbours(s, S, c, r) => q = r
  BY <1>0, Order DEF Neighbours
<1>6. Hindmost(s, T, p) <=> Hindmost(s, S, c)
  BY <1>0, Order DEF Hindmost
<1>7. ASSUME NEW q \in S
      PROVE  ChildRight(s, T, h, ch2, q)
  <2>1. q = h \/ Neighbours(s, S, ch[q], q)
    BY DEF Chain, ChildRight
  <2>2. ParentRight(s, S, pa, c)
    BY DEF Chain
  <2>3. CASE q = pa[c]
    <3>1. ~Hindmost(s, S, c)
      <4>1. q \notin {Null, Blank}
        BY <1>0, BookAssumption DEF Prices, Null, Blank
      <4> QED
        BY <2>2, <2>3, <4>1 DEF ParentRight, Behind
    <3>2. Neighbours(s, T, p, q)
      BY <1>4, <2>2, <2>3, <3>1 DEF ParentRight
    <3> QED
      BY <2>3, <3>2 DEF ChildRight
  <2>4. CASE q # pa[c] /\ q # h
    <3>1. ch[q] # c
      <4>1. ASSUME Neighbours(s, S, c, q)
            PROVE  q = pa[c]
        BY <1>5, <2>2, <4>1 DEF ParentRight, Hindmost, Neighbours
      <4> QED
        BY <2>1, <2>4, <4>1
    <3> QED
      BY <1>3, <2>1, <2>4, <3>1 DEF ChildRight, Neighbours
  <2>5. CASE q = h
    BY <2>5 DEF ChildRight
  <2> QED
    BY <2>3, <2>4, <2>5
<1>8. ASSUME NEW q \in S
      PROVE  ParentRight(s, T, pa2, q)
  <2>1. ParentRight(s, S, pa, q) /\ q # p /\ q \in Prices
    BY <1>0 DEF Chain
  <2>2. CASE q = c
    BY <1>0, <1>2, <2>2 DEF ParentRight, Hindmost
  <2>3. CASE q # c
    <3>1. Hindmost(s, T, q) <=> Hindmost(s, S, q)
      BY <1>0, <2>1, <2>3, Order DEF Hindmost
    <3> QED
      BY <1>3, <2>1, <2>3, <3>1 DEF ParentRight, Neighbours
  <2> QED
    BY <2>2, <2>3
<1>9. ParentRight(s, T, pa2, p)
  BY <1>4, <1>6 DEF Chain, ParentRight, Neighbours
<1>10. ChildRight(s, T, h, ch2, p)
  BY <1>2 DEF ChildRight
<1> QED
  BY <1>1, <1>7, <1>8, <1>9, <1>10 DEF Chain

\* The head taken away.
LEMMA ChainDropHead ==
  ASSUME NEW s \in Sides, NEW S \in SUBSET Prices, NEW h, NEW ch, NEW pa, Chain(s, S, h, ch, pa),
         NEW r \in S \ {h},
         NEW ch2, \A q \in S \ {h} : q # pa[h] => ch2[q] = ch[q],
         NEW pa2, \A q \in S \ {h} : pa2[q] = pa[q]
  PROVE  Chain(s, S \ {h}, pa[h], ch2, pa2)
<1> DEFINE T == S \ {h}
           k == pa[h]
<1>0. h \in S /\ S \subseteq Prices /\ \A q \in T : Ahead(s, h, q)
  BY DEF Chain, Foremost
<1>1. Neighbours(s, S, h, k) /\ k \in T
  <2>1. ~Hindmost(s, S, h)
    BY <1>0 DEF Hindmost
  <2>2. Neighbours(s, S, h, k)
    BY <1>0, <2>1 DEF Chain, ParentRight
  <2> QED
    BY <1>0, <2>2, Order DEF Neighbours
<1>2. Foremost(s, T, k)
  BY <1>0, <1>1, Order DEF Foremost, Neighbours
<1>3. \A q, t \in T : Neighbours(s, S, q, t) => Neighbours(s, T, q, t)
  BY DEF Neighbours
<1>4. ASSUME NEW q \in T
      PROVE  ChildRight(s, T, k, ch2, q) /\ ParentRight(s, T, pa2, q)
  <2>1. q # h /\ q \in Prices /\ ChildRight(s, S, h, ch, q) /\ ParentRight(s, S, pa, q)
    BY <1>0 DEF Chain
  <2>2. ChildRight(s, T, k, ch2, q)
    <3>1. CASE q # k
      <4>1. Neighbours(s, S, ch[q], q) /\ ch2[q] = ch[q]
        BY <2>1, <3>1 DEF ChildRight
      <4>2. ch[q] # h
        BY <1>0, <1>1, <3>1, <4>1, <2>1, Order DEF Neighbours
      <4> QED
        BY <1>3, <4>1, <4>2 DEF ChildRight, Neighbours
    <3>2. CASE q = k
      BY <3>2 DEF ChildRight
    <3> QED
      BY <3>1, <3>2
  <2>3. Hindmost(s, T, q) <=> Hindmost(s, S, q)
    BY <1>0, <2>1, Order DEF Hindmost
  <2>4. ParentRight(s, T, pa2, q)
    <3>1. CASE Hindmost(s, S, q)
      BY <2>1, <2>3, <3>1 DEF ParentRight
    <3>2. CASE ~Hindmost(s, S, q)
      <4>1. Neighbours(s, S, q, pa[q])
        BY <2>1, <3>2 DEF ParentRight
      <4>2. pa[q] # h
        BY <1>0, <2>1, <4>1, Order DEF Neighbours
      <4> QED
        BY <1>3, <2>3, <3>2, <4>1, <4>2 DEF ParentRight, Neighbours
    <3> QED
      BY <3>1, <3>2
  <2> QED
    BY <2>2, <2>4
<1> QED
  BY <1>1, <1>2, <1>4 DEF Chain

\* Another price taken away.
LEMMA ChainDropBehind ==
  ASSUME NEW s \in Sides, NEW S \in SUBSET Prices, NEW h, NEW ch, NEW pa, Chain(s, S, h, ch, pa),
         NEW p \in S, p # h,
         NEW ch2, \A q \in S \ {p} : ch2[q] = IF q = pa[p] THEN ch[p] ELSE ch[q],
         NEW pa2, \A q \in S \ {p} : pa2[q] = IF q = ch[p] THEN pa[p] ELSE pa[q]
  PROVE  Chain(s, S \ {p}, h, ch2, pa2)
<1> DEFINE T == S \ {p}
           c == ch[p]
           w == pa[p]
<1>0. h \in T /\ S \subseteq Prices /\ p \in Prices /\ \A q \in S : q = h \/ Ahead(s, h, q)
  BY DEF Chain, Foremost
<1>1. Neighbours(s, S, c, p) /\ c \in T /\ ParentRight(s, S, pa, p)
  BY <1>0, Order DEF Chain, ChildRight, Neighbours
<1>2. Foremost(s, T, h)
  BY <1>0 DEF Foremost
<1>3. \A q, r \in T : Neighbours(s, S, q, r) => Neighbours(s, T, q, r)
  BY DEF Neighbours
<1>4. ASSUME NEW q \in T, Neighbours(s, S, p, q)
      PROVE  q = w /\ Neighbours(s, T, c, q)
  <2>1. ~Hindmost(s, S, p)
    BY <1>4 DEF Hindmost, Neighbours
  <2>2. Neighbours(s, S, p, w)
    BY <1>1, <2>1 DEF ParentRight
  <2>3. q = w
    BY <1>0, <1>4, <2>2, Order DEF Neighbours
  <2>4. Ahead(s, c, q)
    BY <1>0, <1>1, <1>4, Order DEF Neighbours
  <2>5. \A r \in T : ~(Ahead(s, c, r) /\ Ahead(s, r, q))
    <3>1. ASSUME NEW r \in T, Ahead(s, c, r), Ahead(s, r, q)
          PROVE  FALSE
      <4>1. Ahead(s, r, p) \/ Ahead(s, p, r)
        BY <1>0, Order
      <4> QED
        BY <1>1, <1>4, <3>1, <4>1 DEF Neighbours
    <3> QED
      BY <3>1
  <2> QED
    BY <1>1, <2>3, <2>4, <2>5 DEF Neighbours
<1>5. w \in T => Neighbours(s, S, p, w)
  BY <1>0, <1>1, BookAssumption DEF ParentRight, Behind, Prices, Null, Blank
<1>6. \A q \in S : Neighbours(s, S, q, p) => q = c
  BY <1>0, <1>1, Order DEF Neighbours
<1>7. ASSUME NEW q \in T
      PROVE  ChildRight(s, T, h, ch2, q)
  <2>1. ChildRight(s, S, h, ch, q)
    BY DEF Chain
  <2>2. CASE q = w
    BY <1>4, <1>5, <2>2 DEF ChildRight
  <2>3. CASE q # w /\ q # h
    <3>1. Neighbours(s, S, ch[q], q) /\ ch2[q] = ch[q]
      BY <2>1, <2>3 DEF ChildRight
    <3>2. ch[q] # p
      BY <1>4, <2>3, <3>1
    <3> QED
      BY <1>3, <3>1, <3>2 DEF ChildRight, Neighbours
  <2>4. CASE q = h
    BY <2>4 DEF ChildRight
  <2> QED
    BY <2>2, <2>3, <2>4
<1>8. ASSUME NEW q \in T
      PROVE  ParentRight(s, T, pa2, q)
  <2>1. ParentRight(s, S, pa, q) /\ q \in Prices /\ q # p
    BY <1>0 DEF Chain
  <2>2. CASE q = c
    <3>1. CASE Hindmost(s, S, p)
      <4>1. Hindmost(s, T, c)
        <5>1. ASSUME NEW r \in T, Ahead(s, c, r)
              PROVE  FALSE
          <6>1. Ahead(s, r, p) \/ Ahead(s, p, r)
            BY <1>0, Order
          <6> QED
            BY <1>1, <3>1, <5>1, <6>1 DEF Neighbours, Hindmost
        <5> QED
          BY <5>1 DEF Hindmost
      <4> QED
        BY <1>1, <2>2, <3>1, <4>1 DEF ParentRight
    <3>2. CASE ~Hindmost(s, S, p)
      <4>1. Neighbours(s, S, p, w) /\ w \in T
        BY <1>0, <1>1, <3>2, Order DEF ParentRight, Neighbours
      <4>2. Neighbours(s, T, c, w)
        BY <1>4, <4>1
      <4> QED
        BY <2>2, <4>1, <4>2 DEF ParentRight, Hindmost, Neighbours
    <3> QED
      BY <3>1, <3>2
  <2>3. CASE q # c
    <3>1. Ahead(s, q, p) => Ahead(s, q, c)
      BY <1>0, <1>1, <2>1, <2>3, Order DEF Neighbours
    <3>2. Hindmost(s, T, q) <=> Hindmost(s, S, q)
      BY <1>1, <3>1 DEF Hindmost
    <3>3. CASE Hindmost(s, S, q)
      BY <2>1, <2>3, <3>2, <3>3 DEF ParentRight
    <3>4. CASE ~Hindmost(s, S, q)
      <4>1. Neighbours(s, S, q, pa[q])
        BY <2>1, <3>4 DEF ParentRight
      <4>2. pa[q] # p
        BY <1>6, <2>3, <4>1
      <4> QED
        BY <1>3, <2>3, <3>2, <3>4, <4>1, <4>2 DEF ParentRight, Neighbours
    <3> QED
      BY <3>3, <3>4
  <2> QED
    BY <2>2, <2>3
<1> QED
  BY <1>2, <1>7, <1>8 DEF Chain

\* A price put behind the worst.
LEMMA ChainEnd ==
  ASSUME NEW s \in Sides, NEW S \in SUBSET Prices, NEW h, NEW ch, NEW pa, Chain(s, S, h, ch, pa),
         NEW p \in Prices \ S, NEW c \in S, Hindmost(s, S, c), Ahead(s, c, p),
         NEW ch2, \A q \in S \cup {p} : ch2[q] = IF q = p THEN c ELSE ch[q],
         NEW pa2, pa2[p] = Behind(s),
         \A q \in S : pa2[q] = IF q = c THEN p ELSE pa[q]
  PROVE  Chain(s, S \cup {p}, h, ch2, pa2)
<1>1. pa[c] = Behind(s)
  BY DEF Chain, ParentRight
<1>2. \A q \in S : q # pa[c] /\ q # p
  BY <1>1, BookAssumption DEF Behind, Prices, Null, Blank
<1>3. \A q \in S : Ahead(s, q, p) => q = c \/ Ahead(s, q, c)
  BY Order DEF Hindmost
<1>4. \A q \in S \cup {p} : pa2[q] = IF q = p THEN pa[c] ELSE IF q = c THEN p ELSE pa[q]
  BY <1>1, <1>2
<1>5. ch2[p] = c /\ \A q \in S : ch2[q] = IF q = pa[c] THEN p ELSE ch[q]
  BY <1>2
<1> QED
  BY <1>3, <1>4, <1>5, ChainBehind

\* The first price of a side.
LEMMA ChainSingle ==
  ASSUME NEW s \in Sides, NEW p \in Prices, NEW ch, NEW pa, pa[p] = Behind(s)
  PROVE  Chain(s, {p}, p, ch, pa)
<1>1. ~Ahead(s, p, p)
  BY Order
<1> QED
  BY <1>1 DEF Chain, Foremost, ChildRight, ParentRight, Hindmost
-----------------------------------------------------------------------------
SideRight(s) == Book(s) # {} => Chain(s, Book(s), head[s], child[s], parent[s])

\* What reading the snapshot leaves behind, and what holds from then on: there
\* is a bid, and a side without prices has its head at the start of the array.
Stage ==
  /\ phase = "Buy" =>
       /\ Book("Sell") = {} /\ head["Sell"] = Last
       /\ \A p \in Prices \ Book("Buy") : parent["Buy"][p] = Null
       /\ IF level_0 = Blank THEN Book("Buy") = {} /\ head["Buy"] = 0
          ELSE level_0 \in Book("Buy") /\ Hindmost("Buy", Book("Buy"), level_0)
  /\ phase = "Sell" =>
       IF level_0 = Blank THEN Book("Sell") = {} /\ head["Sell"] = Last
       ELSE level_0 = head["Sell"] /\ Book("Sell") # {}
  /\ phase # "Buy" => Book("Buy") # {}
  /\ phase \in {"start", "feed"} => (Book("Sell") = {} => head["Sell"] = 0)

BookInv == BookTypeOK /\ (\A s \in Sides : SideRight(s)) /\ Stage

LEMMA Distinct ==
  /\ Null \notin Cells /\ Blank \notin Index /\ Prices \subseteq Index /\ Index \subseteq Cells
  /\ 0 \notin Prices /\ Last \notin Prices /\ 0 \in Index /\ Last \in Index
  /\ \A s \in Sides : Behind(s) \notin Index /\ VolsOf(s) \subseteq Nat
BY BookAssumption DEF Null, Blank, Cells, Index, Prices, Behind, VolsOf, Sides

\* A side that a step leaves alone.
LEMMA Elsewhere ==
  ASSUME NEW s \in Sides, SideRight(s), head'[s] = head[s], child'[s] = child[s],
         parent'[s] = parent[s], is_set'[s] = is_set[s]
  PROVE  SideRight(s)' /\ Book(s)' = Book(s)
<1>1. Book(s)' = Book(s)
  BY DEF Book
<1> QED
  BY <1>1
  DEF SideRight, Chain, Foremost, ChildRight, ParentRight, Hindmost, Neighbours, Ahead, Behind

LEMMA InitBook == BookInit => BookInv
<1> SUFFICES ASSUME BookInit PROVE BookInv
  OBVIOUS
<1>1. BookTypeOK
  BY Distinct DEF BookInit, BookTypeOK, Sides
<1>2. \A s \in Sides : Book(s) = {}
  BY Distinct DEF BookInit, Book
<1>3. Stage
  BY <1>2, Distinct DEF BookInit, Stage, Sides
<1> QED
  BY <1>1, <1>2, <1>3 DEF BookInv, SideRight

\* A side after a step, by its values.
LEMMA SideAfter ==
  ASSUME NEW s \in Sides, NEW S, NEW h, NEW ch, NEW pa, Chain(s, S, h, ch, pa),
         Book(s)' = S, head'[s] = h, child'[s] = ch, parent'[s] = pa
  PROVE  SideRight(s)'
BY DEF SideRight, Chain, Foremost, ChildRight, ParentRight, Hindmost, Neighbours, Ahead, Behind

\* A price of the snapshot: what changes, and what does not.
LEMMA SnapshotFacts ==
  ASSUME BookInv, NEW s \in Sides, NEW p \in Prices, NEW v \in VolsOf(s), SnapshotInsert(s, p, v)
  PROVE  /\ BookTypeOK'
         /\ Book(s)' = Book(s) \cup {p} /\ Book(s) \in SUBSET Prices
         /\ \A t \in Sides \ {s} : SideRight(t)' /\ Book(t)' = Book(t) /\ head'[t] = head[t]
         /\ head'[s] = IF Ahead(s, p, head[s]) THEN p ELSE head[s]
         /\ IF s = "Buy" THEN /\ parent'[s] = [parent[s] EXCEPT ![level_0] = p]
                              /\ child'[s] = [child[s] EXCEPT ![p] = level_0]
                         ELSE /\ child'[s] = [child[s] EXCEPT ![level_0] = p]
                              /\ parent'[s] = [parent[s] EXCEPT ![p] = level_0]
<1> USE Distinct
<1>0. /\ BookTypeOK
      /\ p \in Index /\ p \in Cells /\ v \in Nat /\ level_0 \in Cells
  BY DEF BookInv, BookTypeOK, Cells
<1>1. BookTypeOK'
  <2>1. head' \in [Sides -> Index] /\ is_set' \in [Sides -> [Index -> BOOLEAN]]
        /\ vol' \in [Sides -> [Index -> Nat]]
    BY <1>0 DEF SnapshotInsert, BookTypeOK
  <2>2. child' \in [Sides -> [Cells -> Cells \cup {Null}]]
        /\ parent' \in [Sides -> [Cells -> Cells \cup {Null}]]
    <3>1. CASE s = "Buy"
      BY <1>0, <3>1 DEF SnapshotInsert, BookTypeOK
    <3>2. CASE s # "Buy"
      <4>0. /\ child' = [child EXCEPT ![s] = [child[s] EXCEPT ![level_0] = p]]
            /\ parent' = [parent EXCEPT ![s] = [parent[s] EXCEPT ![p] = level_0]]
        BY <3>2 DEF SnapshotInsert
      <4>1. child' \in [Sides -> [Cells -> Cells \cup {Null}]]
        BY <1>0, <4>0 DEF BookTypeOK
      <4>2. parent' \in [Sides -> [Cells -> Cells \cup {Null}]]
        BY <1>0, <4>0 DEF BookTypeOK
      <4> QED
        BY <4>1, <4>2
    <3> QED
      BY <3>1, <3>2
  <2> QED
    BY <1>0, <2>1, <2>2 DEF SnapshotInsert, BookTypeOK
<1>2. Book(s)' = Book(s) \cup {p} /\ Book(s) \in SUBSET Prices
  BY <1>0 DEF SnapshotInsert, BookTypeOK, Book
<1>3. ASSUME NEW t \in Sides \ {s}
      PROVE  SideRight(t)' /\ Book(t)' = Book(t) /\ head'[t] = head[t]
  <2>1. head'[t] = head[t] /\ is_set'[t] = is_set[t]
    BY <1>0 DEF SnapshotInsert, BookTypeOK
  <2>2. child'[t] = child[t] /\ parent'[t] = parent[t]
    BY <1>0 DEF SnapshotInsert, BookTypeOK
  <2> QED
    BY <2>1, <2>2, Elsewhere DEF BookInv
<1>4. head'[s] = IF Ahead(s, p, head[s]) THEN p ELSE head[s]
  BY <1>0 DEF SnapshotInsert, BookTypeOK
<1>5. IF s = "Buy" THEN /\ parent'[s] = [parent[s] EXCEPT ![level_0] = p]
                        /\ child'[s] = [child[s] EXCEPT ![p] = level_0]
                   ELSE /\ child'[s] = [child[s] EXCEPT ![level_0] = p]
                        /\ parent'[s] = [parent[s] EXCEPT ![p] = level_0]
  BY <1>0 DEF SnapshotInsert, BookTypeOK
<1> QED
  BY <1>1, <1>2, <1>3, <1>4, <1>5

LEMMA SnapshotBid ==
  ASSUME BookInv, NEW p \in Prices, NEW v \in VolsOf("Buy"), SnapshotInsert("Buy", p, v)
  PROVE  BookInv'
<1> USE Distinct
<1> DEFINE S == Book("Buy")
           T == S \cup {p}
<1>0. /\ BookTypeOK /\ "Buy" \in Sides /\ "Sell" \in Sides \ {"Buy"}
      /\ p \in Index /\ p \in Cells /\ phase = "Buy" /\ level_0 \in Cells
      /\ parent["Buy"] \in [Cells -> Cells \cup {Null}]
      /\ child["Buy"] \in [Cells -> Cells \cup {Null}]
  BY DEF BookInv, BookTypeOK, SnapshotInsert, Cells, Sides
<1>1. /\ BookTypeOK' /\ S' = T /\ S \in SUBSET Prices
      /\ SideRight("Sell")' /\ Book("Sell")' = Book("Sell") /\ head'["Sell"] = head["Sell"]
      /\ head'["Buy"] = IF Ahead("Buy", p, head["Buy"]) THEN p ELSE head["Buy"]
      /\ parent'["Buy"] = [parent["Buy"] EXCEPT ![level_0] = p]
      /\ child'["Buy"] = [child["Buy"] EXCEPT ![p] = level_0]
  BY <1>0, SnapshotFacts
<1>2. /\ Book("Sell") = {} /\ head["Sell"] = Last
      /\ \A q \in Prices \ S : parent["Buy"][q] = Null
      /\ IF level_0 = Blank THEN S = {} /\ head["Buy"] = 0
         ELSE level_0 \in S /\ Hindmost("Buy", S, level_0)
  BY <1>0 DEF Stage, BookInv
<1>3. /\ Chain("Buy", T, head'["Buy"], child'["Buy"], parent'["Buy"])
      /\ \A q \in S : ~Ahead("Buy", p, q)
  <2>1. CASE level_0 = Blank
    <3>1. head'["Buy"] = p
      BY <1>1, <1>2, <2>1 DEF Ahead, Prices
    <3>2. parent'["Buy"][p] = Behind("Buy")
      BY <1>0, <1>1, <1>2, <2>1 DEF Behind
    <3> QED
      BY <1>0, <1>2, <2>1, <3>1, <3>2, ChainSingle
  <2>2. CASE level_0 # Blank
    <3>1. level_0 \in S /\ Hindmost("Buy", S, level_0) /\ p < level_0 /\ level_0 \in Prices
      BY <1>1, <1>2, <2>2 DEF SnapshotInsert
    <3>2. Chain("Buy", S, head["Buy"], child["Buy"], parent["Buy"])
      BY <1>0, <3>1 DEF SideRight, BookInv
    <3>3. Ahead("Buy", level_0, p)
      BY <3>1 DEF Ahead
    <3>4. p \notin S /\ \A q \in S : ~Ahead("Buy", p, q)
      BY <1>0, <1>1, <3>1, <3>3, Order DEF Hindmost
    <3>5. head'["Buy"] = head["Buy"]
      BY <1>1, <3>2, <3>4 DEF Chain, Foremost
    <3>6. /\ parent'["Buy"][p] = Behind("Buy")
          /\ \A q \in S : parent'["Buy"][q] = IF q = level_0 THEN p ELSE parent["Buy"][q]
      BY <1>0, <1>1, <1>2, <3>1, <3>4 DEF Behind
    <3>7. \A q \in T : child'["Buy"][q] = IF q = p THEN level_0 ELSE child["Buy"][q]
      BY <1>0, <1>1
    <3>8. Chain("Buy", T, head["Buy"], child'["Buy"], parent'["Buy"])
      <4>1. p \in Prices \ S
        BY <3>4
      <4> HIDE DEF S
      <4> QED
        BY <1>0, <1>1, <3>1, <3>2, <3>3, <3>6, <3>7, <4>1, ChainEnd
    <3> QED
      BY <3>4, <3>5, <3>8
  <2> QED
    BY <2>1, <2>2
<1>4. SideRight("Buy")'
  BY <1>0, <1>1, <1>3, SideAfter
<1>5. Stage'
  <2>1. \A q \in Prices \ T : parent'["Buy"][q] = Null
    BY <1>0, <1>1, <1>2
  <2>2. \A q \in T : ~Ahead("Buy", p, q)
    BY <1>0, <1>3, Order
  <2>3. phase' = "Buy" /\ level_0' = p /\ p # Blank
    BY <1>0 DEF SnapshotInsert
  <2> QED
    BY <1>1, <1>2, <2>1, <2>2, <2>3 DEF Stage, Hindmost, Ahead
<1> QED
  BY <1>1, <1>4, <1>5 DEF BookInv, Sides

LEMMA SnapshotAsk ==
  ASSUME BookInv, NEW p \in Prices, NEW v \in VolsOf("Sell"), SnapshotInsert("Sell", p, v)
  PROVE  BookInv'
<1> USE Distinct
<1> DEFINE S == Book("Sell")
           T == S \cup {p}
<1>0. /\ BookTypeOK /\ "Sell" \in Sides /\ "Buy" \in Sides \ {"Sell"}
      /\ p \in Index /\ p \in Cells /\ phase = "Sell" /\ level_0 \in Cells
      /\ parent["Sell"] \in [Cells -> Cells \cup {Null}]
      /\ child["Sell"] \in [Cells -> Cells \cup {Null}]
  BY DEF BookInv, BookTypeOK, SnapshotInsert, Cells, Sides
<1>1. /\ BookTypeOK' /\ S' = T /\ S \in SUBSET Prices
      /\ SideRight("Buy")' /\ Book("Buy")' = Book("Buy")
      /\ head'["Sell"] = IF Ahead("Sell", p, head["Sell"]) THEN p ELSE head["Sell"]
      /\ child'["Sell"] = [child["Sell"] EXCEPT ![level_0] = p]
      /\ parent'["Sell"] = [parent["Sell"] EXCEPT ![p] = level_0]
  BY <1>0, SnapshotFacts
<1>2. IF level_0 = Blank THEN S = {} /\ head["Sell"] = Last
      ELSE level_0 = head["Sell"] /\ S # {}
  BY <1>0 DEF Stage, BookInv
<1>3. head'["Sell"] = p
  <2>1. Ahead("Sell", p, head["Sell"])
    BY <1>2, BookAssumption DEF Ahead, Prices, SnapshotInsert
  <2> QED
    BY <1>1, <2>1
<1>4. Chain("Sell", T, p, child'["Sell"], parent'["Sell"])
  <2>1. CASE level_0 = Blank
    <3>1. parent'["Sell"][p] = Behind("Sell")
      BY <1>0, <1>1, <2>1 DEF Behind
    <3> QED
      BY <1>0, <1>2, <2>1, <3>1, ChainSingle
  <2>2. CASE level_0 # Blank
    <3>1. level_0 = head["Sell"] /\ p < level_0
      BY <1>2, <2>2 DEF SnapshotInsert
    <3>2. Chain("Sell", S, head["Sell"], child["Sell"], parent["Sell"])
      BY <1>0, <1>2, <2>2 DEF SideRight, BookInv
    <3>3. Ahead("Sell", p, head["Sell"]) /\ p \in Prices \ S
      <4>1. Ahead("Sell", p, head["Sell"]) /\ head["Sell"] \in S
        BY <3>1, <3>2 DEF Ahead, Chain, Foremost
      <4> QED
        BY <1>0, <1>1, <3>2, <4>1, Order DEF Chain, Foremost
    <3>4. /\ \A q \in S : child'["Sell"][q] = IF q = head["Sell"] THEN p ELSE child["Sell"][q]
          /\ \A q \in T : parent'["Sell"][q] = IF q = p THEN head["Sell"] ELSE parent["Sell"][q]
      BY <1>0, <1>1, <3>1
    <3> HIDE DEF S
    <3> QED
      BY <1>0, <1>1, <3>2, <3>3, <3>4, ChainFront
  <2> QED
    BY <2>1, <2>2
<1>5. SideRight("Sell")'
  BY <1>0, <1>1, <1>3, <1>4, SideAfter
<1>6. Stage'
  <2>1. Book("Buy")' # {} /\ phase' = "Sell" /\ level_0' = p /\ p # Blank
    BY <1>0, <1>1 DEF Stage, SnapshotInsert, BookInv
  <2> QED
    BY <1>1, <1>3, <2>1 DEF Stage
<1> QED
  BY <1>1, <1>5, <1>6 DEF BookInv, Sides

LEMMA SnapshotDoneStep == BookInv /\ SnapshotDone => BookInv'
<1> SUFFICES ASSUME BookInv, SnapshotDone PROVE BookInv'
  OBVIOUS
<1>1. BookTypeOK'
  BY DEF BookInv, BookTypeOK, SnapshotDone, links, Sides
<1>2. \A s \in Sides : SideRight(s)' /\ Book(s)' = Book(s)
  BY Elsewhere DEF BookInv, SnapshotDone, links
<1>3. Stage'
  BY <1>2, Distinct
  DEF BookInv, Stage, SnapshotDone, links, Sides, BookTypeOK, SideRight, Chain, Foremost
<1> QED
  BY <1>1, <1>2, <1>3 DEF BookInv

\* A step of the feed on side s.
LEMMA FeedAfter ==
  ASSUME BookInv, phase = "feed", phase' = "feed", BookTypeOK', NEW s \in Sides, SideRight(s)',
         Book(s)' = {} => s = "Sell" /\ head'["Sell"] = 0,
         \A t \in Sides \ {s} : head'[t] = head[t] /\ child'[t] = child[t]
                                /\ parent'[t] = parent[t] /\ is_set'[t] = is_set[t]
  PROVE  BookInv'
<1>1. \A t \in Sides \ {s} : SideRight(t)' /\ Book(t)' = Book(t)
  BY Elsewhere DEF BookInv
<1>2. Book("Buy")' # {}
  BY <1>1 DEF BookInv, Stage, Sides
<1>3. Book("Sell")' = {} => head'["Sell"] = 0
  BY <1>1 DEF BookInv, Stage, Sides
<1> QED
  BY <1>1, <1>2, <1>3 DEF BookInv, Stage

LEMMA InsertBestStep ==
  ASSUME BookInv, NEW s \in Sides, NEW p \in Prices, NEW v \in VolsOf(s), InsertBest(s, p, v)
  PROVE  BookInv'
<1> USE Distinct
<1> DEFINE S == Book(s)
<1>0. /\ BookTypeOK /\ p \in Index /\ p \in Cells /\ v \in Nat /\ phase = "feed" /\ ~is_set[s][p]
      /\ head[s] \in Index /\ head[s] \in Cells /\ Ahead(s, p, head[s])
      /\ parent[s] \in [Cells -> Cells \cup {Null}] /\ child[s] \in [Cells -> Cells \cup {Null}]
  BY DEF BookInv, BookTypeOK, InsertBest, Insertable
<1>1. S # {}
  BY <1>0 DEF BookInv, Stage, Ahead, Prices, Sides
<1>2. Chain(s, S, head[s], child[s], parent[s]) /\ S \in SUBSET Prices /\ p \in Prices \ S
  BY <1>0, <1>1 DEF BookInv, SideRight, Book
<1>3. /\ parent' = [parent EXCEPT ![s] = [parent[s] EXCEPT ![p] = head[s]]]
      /\ child' = [child EXCEPT ![s] = [child[s] EXCEPT ![head[s]] = p]]
      /\ head' = [head EXCEPT ![s] = p]
      /\ vol' = [vol EXCEPT ![s] = [vol[s] EXCEPT ![p] = v]]
      /\ is_set' = [is_set EXCEPT ![s] = [is_set[s] EXCEPT ![p] = TRUE]]
      /\ is_bba_upd' = TRUE /\ phase' = phase /\ level_0' = level_0 /\ fault' = fault
  BY DEF InsertBest, Link
<1>4. BookTypeOK'
  BY <1>0, <1>3 DEF BookTypeOK
<1>5. S' = S \cup {p}
  BY <1>0, <1>3 DEF BookTypeOK, Book
<1>6. /\ head'[s] = p
      /\ \A q \in S : child'[s][q] = IF q = head[s] THEN p ELSE child[s][q]
      /\ \A q \in S \cup {p} : parent'[s][q] = IF q = p THEN head[s] ELSE parent[s][q]
  BY <1>0, <1>2, <1>3 DEF BookTypeOK
<1>7. Chain(s, S \cup {p}, p, child'[s], parent'[s])
  <2> HIDE DEF S
  <2> QED
    BY <1>0, <1>2, <1>6, ChainFront
<1>8. SideRight(s)'
  BY <1>5, <1>6, <1>7, SideAfter
<1>9. \A t \in Sides \ {s} : head'[t] = head[t] /\ child'[t] = child[t]
                             /\ parent'[t] = parent[t] /\ is_set'[t] = is_set[t]
  BY <1>0, <1>3 DEF BookTypeOK
<1>10. S' # {} /\ phase' = "feed"
  BY <1>0, <1>3, <1>5
<1> QED
  BY <1>0, <1>4, <1>8, <1>9, <1>10, FeedAfter

LEMMA InsertBehindStep ==
  ASSUME BookInv, NEW s \in Sides, NEW p \in Prices, NEW v \in VolsOf(s), InsertBehind(s, p, v)
  PROVE  BookInv'
<1> USE Distinct
<1> DEFINE S == Book(s)
<1>0. /\ BookTypeOK /\ p \in Index /\ p \in Cells /\ v \in Nat /\ phase = "feed" /\ ~is_set[s][p]
      /\ parent[s] \in [Cells -> Cells \cup {Null}] /\ child[s] \in [Cells -> Cells \cup {Null}]
  BY DEF BookInv, BookTypeOK, InsertBehind, Insertable
<1>1. PICK c \in Prices :
         /\ NextAhead(s, p, c) /\ parent[s][c] # Null
         /\ child' = [child EXCEPT ![s][p] = c, ![s][parent[s][c]] = p]
         /\ parent' = [parent EXCEPT ![s][p] = parent[s][c], ![s][c] = p]
  BY DEF InsertBehind
<1> DEFINE w == parent[s][c]
<1>2. /\ c \in S /\ Ahead(s, c, p) /\ \A q \in S : Ahead(s, q, p) => q = c \/ Ahead(s, q, c)
      /\ w \in Cells /\ c \in Cells /\ c # p
  <2>1. c \in S /\ Ahead(s, c, p) /\ \A q \in S : Ahead(s, q, p) => q = c \/ Ahead(s, q, c)
    BY <1>1 DEF NextAhead
  <2>2. c \in Cells
    OBVIOUS
  <2>3. w \in Cells
    BY <1>0, <1>1, <2>2
  <2>4. c # p
    BY <2>1, Order
  <2> QED
    BY <2>1, <2>2, <2>3, <2>4
<1>3. Chain(s, S, head[s], child[s], parent[s]) /\ S \in SUBSET Prices /\ p \in Prices \ S
  BY <1>0, <1>2 DEF BookInv, SideRight, Book
<1>4. w # p
  <2>1. w = Behind(s) \/ w \in S
    BY <1>2, <1>3 DEF Chain, ParentRight, Neighbours
  <2> QED
    BY <1>0, <1>3, <2>1
<1>5. /\ parent' = [parent EXCEPT ![s] = [[parent[s] EXCEPT ![p] = w] EXCEPT ![c] = p]]
      /\ child' = [child EXCEPT ![s] = [[child[s] EXCEPT ![p] = c] EXCEPT ![w] = p]]
  BY <1>0, <1>1 DEF BookTypeOK
<1>6. /\ vol' = [vol EXCEPT ![s] = [vol[s] EXCEPT ![p] = v]]
      /\ is_set' = [is_set EXCEPT ![s] = [is_set[s] EXCEPT ![p] = TRUE]]
      /\ is_bba_upd' = FALSE /\ phase' = phase /\ level_0' = level_0 /\ fault' = fault
      /\ head' = head
  BY DEF InsertBehind, Link
<1>7. BookTypeOK'
  <2>1. child' \in [Sides -> [Cells -> Cells \cup {Null}]]
    BY <1>0, <1>2, <1>5 DEF BookTypeOK
  <2>2. parent' \in [Sides -> [Cells -> Cells \cup {Null}]]
    BY <1>0, <1>2, <1>5 DEF BookTypeOK
  <2> QED
    BY <1>0, <1>6, <2>1, <2>2 DEF BookTypeOK
<1>8. S' = S \cup {p}
  BY <1>0, <1>6 DEF BookTypeOK, Book
<1>9. /\ child'[s][p] = c
      /\ \A q \in S : child'[s][q] = IF q = w THEN p ELSE child[s][q]
      /\ \A q \in S \cup {p} :
           parent'[s][q] = IF q = p THEN w ELSE IF q = c THEN p ELSE parent[s][q]
  BY <1>0, <1>2, <1>3, <1>4, <1>5 DEF BookTypeOK
<1>10. Chain(s, S \cup {p}, head[s], child'[s], parent'[s])
  <2> HIDE DEF S
  <2> QED
    BY <1>2, <1>3, <1>9, ChainBehind
<1>11. SideRight(s)'
  BY <1>6, <1>8, <1>10, SideAfter
<1>12. \A t \in Sides \ {s} : head'[t] = head[t] /\ child'[t] = child[t]
                              /\ parent'[t] = parent[t] /\ is_set'[t] = is_set[t]
  BY <1>0, <1>5, <1>6 DEF BookTypeOK
<1>13. S' # {} /\ phase' = "feed"
  BY <1>0, <1>6, <1>8
<1> QED
  BY <1>0, <1>7, <1>11, <1>12, <1>13, FeedAfter

LEMMA DeleteBestStep ==
  ASSUME BookInv, NEW s \in Sides, NEW p \in Prices, DeleteBest(s, p)
  PROVE  BookInv'
<1> USE Distinct
<1> DEFINE S == Book(s)
           w == parent[s][p]
<1>0. /\ BookTypeOK /\ p \in Index /\ p \in Cells /\ phase = "feed" /\ p \in S /\ p = head[s]
      /\ w # Null
      /\ parent[s] \in [Cells -> Cells \cup {Null}] /\ child[s] \in [Cells -> Cells \cup {Null}]
  BY DEF BookInv, BookTypeOK, DeleteBest, Deletable, Book
<1>1. /\ w \in Cells /\ PriceOf(w) \in Index /\ Null \notin Cells
      /\ Chain(s, S, p, child[s], parent[s]) /\ S \in SUBSET Prices
  BY <1>0 DEF BookInv, SideRight, Book, PriceOf, Cells
<1>2. /\ head' = [head EXCEPT ![s] = PriceOf(w)]
      /\ child' = [child EXCEPT ![s] = [[child[s] EXCEPT ![w] = 0] EXCEPT ![p] = Null]]
      /\ parent' = [parent EXCEPT ![s] = [parent[s] EXCEPT ![p] = Null]]
      /\ is_set' = [is_set EXCEPT ![s] = [is_set[s] EXCEPT ![p] = FALSE]]
      /\ is_bba_upd' = TRUE /\ phase' = phase /\ vol' = vol /\ level_0' = level_0 /\ fault' = fault
  BY <1>0 DEF DeleteBest, Unlink, BookTypeOK
<1>3. BookTypeOK'
  <2>1. child' \in [Sides -> [Cells -> Cells \cup {Null}]]
    BY <1>0, <1>1, <1>2 DEF BookTypeOK
  <2>2. parent' \in [Sides -> [Cells -> Cells \cup {Null}]]
    BY <1>0, <1>1, <1>2 DEF BookTypeOK
  <2> QED
    BY <1>0, <1>1, <1>2, <2>1, <2>2 DEF BookTypeOK
<1>4. S' = S \ {p}
  BY <1>0, <1>2 DEF BookTypeOK, Book
<1>5. /\ \A q \in S \ {p} : q # w => child'[s][q] = child[s][q]
      /\ \A q \in S \ {p} : parent'[s][q] = parent[s][q]
  BY <1>0, <1>1, <1>2 DEF BookTypeOK
<1>6. SideRight(s)'
  <2>1. CASE S \ {p} = {}
    <3>1. Book(s)' = {}
      BY <1>4, <2>1
    <3> QED
      BY <3>1 DEF SideRight
  <2>2. CASE S \ {p} # {}
    <3>1. w \in S \ {p} /\ Chain(s, S \ {p}, w, child'[s], parent'[s])
      <4>1. PICK r \in S \ {p} : TRUE
        BY <2>2
      <4>2. Chain(s, S \ {p}, w, child'[s], parent'[s])
        <5> HIDE DEF S
        <5> QED
          BY <1>1, <1>5, <4>1, ChainDropHead
      <4> QED
        BY <4>2 DEF Chain, Foremost
    <3>2. head'[s] = w
      BY <1>0, <1>1, <1>2, <3>1 DEF PriceOf, BookTypeOK
    <3> QED
      BY <1>4, <3>1, <3>2, SideAfter
  <2> QED
    BY <2>1, <2>2
<1>7. S' = {} => s = "Sell" /\ head'["Sell"] = 0
  <2>1. SUFFICES ASSUME S' = {} PROVE s = "Sell" /\ head'["Sell"] = 0
    OBVIOUS
  <2>2. Hindmost(s, S, p)
    BY <1>0, <1>1, <1>4, <2>1, Order DEF Hindmost
  <2>3. w = Behind(s)
    BY <1>0, <1>1, <2>2 DEF Chain, ParentRight
  <2>4. s = "Sell" /\ w = Blank
    BY <1>0, <2>3 DEF Behind, Sides
  <2> QED
    BY <1>2, <2>4 DEF PriceOf, BookTypeOK, BookInv
<1>8. \A t \in Sides \ {s} : head'[t] = head[t] /\ child'[t] = child[t]
                             /\ parent'[t] = parent[t] /\ is_set'[t] = is_set[t]
  BY <1>0, <1>2 DEF BookTypeOK
<1> QED
  BY <1>0, <1>2, <1>3, <1>6, <1>7, <1>8, FeedAfter

LEMMA DeleteBehindStep ==
  ASSUME BookInv, NEW s \in Sides, NEW p \in Prices, DeleteBehind(s, p)
  PROVE  BookInv'
<1> USE Distinct
<1> DEFINE S == Book(s)
           w == parent[s][p]
           c == child[s][p]
<1>0. /\ BookTypeOK /\ p \in Index /\ p \in Cells /\ phase = "feed" /\ p \in S /\ p # head[s]
      /\ w # Null
      /\ parent[s] \in [Cells -> Cells \cup {Null}] /\ child[s] \in [Cells -> Cells \cup {Null}]
  BY DEF BookInv, BookTypeOK, DeleteBehind, Deletable, Book
<1>1. w \in Cells /\ Chain(s, S, head[s], child[s], parent[s]) /\ S \in SUBSET Prices
  BY <1>0 DEF BookInv, SideRight, Book
<1>2. c \in S /\ head[s] \in S
  BY <1>0, <1>1 DEF Chain, Foremost, ChildRight, Neighbours
<1>3. /\ head' = head
      /\ child' = [child EXCEPT ![s] = [[child[s] EXCEPT ![w] = c] EXCEPT ![p] = Null]]
      /\ parent' = [parent EXCEPT ![s] = [[parent[s] EXCEPT ![c] = w] EXCEPT ![p] = Null]]
      /\ is_set' = [is_set EXCEPT ![s] = [is_set[s] EXCEPT ![p] = FALSE]]
      /\ is_bba_upd' = FALSE /\ phase' = phase /\ vol' = vol /\ level_0' = level_0 /\ fault' = fault
  BY <1>0 DEF DeleteBehind, Unlink, BookTypeOK
<1>4. BookTypeOK'
  <2>1. child' \in [Sides -> [Cells -> Cells \cup {Null}]]
    BY <1>0, <1>1, <1>3 DEF BookTypeOK
  <2>2. parent' \in [Sides -> [Cells -> Cells \cup {Null}]]
    BY <1>0, <1>1, <1>3 DEF BookTypeOK
  <2> QED
    BY <1>0, <1>3, <2>1, <2>2 DEF BookTypeOK
<1>5. S' = S \ {p}
  BY <1>0, <1>3 DEF BookTypeOK, Book
<1>6. /\ \A q \in S \ {p} : child'[s][q] = IF q = w THEN c ELSE child[s][q]
      /\ \A q \in S \ {p} : parent'[s][q] = IF q = c THEN w ELSE parent[s][q]
  BY <1>0, <1>1, <1>2, <1>3 DEF BookTypeOK
<1>7. Chain(s, S \ {p}, head[s], child'[s], parent'[s])
  <2> HIDE DEF S
  <2> QED
    BY <1>0, <1>1, <1>6, ChainDropBehind
<1>8. SideRight(s)'
  BY <1>3, <1>5, <1>7, SideAfter
<1>9. \A t \in Sides \ {s} : head'[t] = head[t] /\ child'[t] = child[t]
                             /\ parent'[t] = parent[t] /\ is_set'[t] = is_set[t]
  BY <1>0, <1>3 DEF BookTypeOK
<1>10. S' # {} /\ phase' = "feed"
  BY <1>0, <1>2, <1>3, <1>5
<1> QED
  BY <1>0, <1>4, <1>8, <1>9, <1>10, FeedAfter

\* A message that kills the program, or that only sets a volume, moves no link.
LEMMA CrashStep ==
  ASSUME BookInv, NEW s \in Sides, NEW p \in Index, phase = "feed", Crash(s, p)
  PROVE  BookInv'
<1>1. BookTypeOK'
  BY DEF BookInv, BookTypeOK, Crash, links
<1>2. \A t \in Sides : SideRight(t)' /\ Book(t)' = Book(t)
  BY Elsewhere DEF BookInv, Crash, links
<1>3. Stage'
  BY <1>2 DEF BookInv, Stage, Crash, links, Sides, Hindmost, Ahead
<1> QED
  BY <1>1, <1>2, <1>3 DEF BookInv

LEMMA UpdateStep ==
  ASSUME BookInv, NEW s \in Sides, NEW p \in Prices, NEW v \in VolsOf(s), Update(s, p, v)
  PROVE  BookInv'
<1>0. p \in Index /\ v \in Nat
  BY Distinct
<1>1. BookTypeOK'
  BY <1>0 DEF BookInv, BookTypeOK, Update, links
<1>2. \A t \in Sides : SideRight(t)' /\ Book(t)' = Book(t)
  BY Elsewhere DEF BookInv, Update, links
<1>3. Stage'
  BY <1>2 DEF BookInv, Stage, Update, links, Sides, Hindmost, Ahead
<1> QED
  BY <1>1, <1>2, <1>3 DEF BookInv

\* A step that at most starts the feed.
LEMMA QuietStep ==
  ASSUME BookInv, UNCHANGED <<links, vol, level_0, is_bba_upd, fault>>,
         phase' = phase \/ (phase = "start" /\ phase' = "feed")
  PROVE  BookInv'
<1>1. BookTypeOK'
  BY DEF BookInv, BookTypeOK, links
<1>2. \A t \in Sides : SideRight(t)' /\ Book(t)' = Book(t)
  BY Elsewhere DEF BookInv, links
<1>3. Stage'
  BY <1>2 DEF BookInv, Stage, links, Sides, Hindmost, Ahead
<1> QED
  BY <1>1, <1>2, <1>3 DEF BookInv

LEMMA BookInvNext == BookInv /\ [Next]_vars => BookInv'
<1> SUFFICES ASSUME BookInv, [Next]_vars PROVE BookInv'
  OBVIOUS
<1>1. CASE Snapshot
  <2>1. CASE SnapshotDone
    BY <2>1, SnapshotDoneStep
  <2>2. CASE \E s \in Sides, p \in Prices : \E v \in VolsOf(s) : SnapshotInsert(s, p, v)
    <3>0. PICK s \in Sides, p \in Prices : \E v \in VolsOf(s) : SnapshotInsert(s, p, v)
      BY <2>2
    <3>1. PICK v \in VolsOf(s) : SnapshotInsert(s, p, v)
      BY <3>0
    <3>2. CASE s = "Buy"
      BY <3>1, <3>2, SnapshotBid
    <3>3. CASE s = "Sell"
      BY <3>1, <3>3, SnapshotAsk
    <3> QED
      BY <3>2, <3>3 DEF Sides
  <2> QED
    BY <1>1, <2>1, <2>2 DEF Snapshot
<1>2. CASE InitTrading
  BY <1>2, QuietStep DEF InitTrading
<1>3. CASE HandleEntry
  <2>1. PICK s \in Sides, p \in Prices :
           phase = "feed" /\ (Insert(s, p) \/ Delete(s, p) \/ \E v \in VolsOf(s) : Update(s, p, v))
    BY <1>3 DEF HandleEntry, Entry
  <2>2. CASE Insert(s, p)
    BY <2>1, <2>2, Distinct, InsertBestStep, InsertBehindStep, CrashStep DEF Insert, InsertCrash
  <2>3. CASE Delete(s, p)
    BY <2>1, <2>3, Distinct, DeleteBestStep, DeleteBehindStep, CrashStep DEF Delete, DeleteCrash
  <2>4. CASE \E v \in VolsOf(s) : Update(s, p, v)
    BY <2>4, UpdateStep
  <2> QED
    BY <2>1, <2>2, <2>3, <2>4
<1>4. CASE EndMessage
  BY <1>4, QuietStep DEF EndMessage, bookVars
<1>5. CASE DivideByZero
  BY <1>5, Distinct, CrashStep DEF DivideByZero, Sides
<1>6. CASE UNCHANGED vars
  BY <1>6, QuietStep DEF vars, bookVars
<1> QED
  BY <1>1, <1>2, <1>3, <1>4, <1>5, <1>6 DEF Next

LEMMA LinkedFollows == BookInv => Linked
<1> SUFFICES ASSUME BookInv, NEW s \in Sides, Book(s) # {}
             PROVE  /\ head[s] \in Book(s)
                    /\ \A p \in Book(s) :
                          /\ p = head[s] \/ Adjacent(s, child[s][p], p)
                          /\ IF Worst(s, p) THEN parent[s][p] = Behind(s)
                                            ELSE Adjacent(s, p, parent[s][p])
  BY DEF Linked
<1>1. Chain(s, Book(s), head[s], child[s], parent[s])
  BY DEF BookInv, SideRight
<1> QED
  BY <1>1 DEF Chain, Foremost, ChildRight, ParentRight, Hindmost, Neighbours, Adjacent, Worst

\* Whatever prices the snapshot lists and the messages insert, delete and
\* update, in an array of any length, the links of each side lead from its head
\* through every level in use and back (OrderBook.hpp:85-146, 181-241).
THEOREM LinkedHolds == Spec => []Linked
<1>1. Init => BookInv
  BY InitBook DEF Init
<1>2. BookInv /\ [Next]_vars => BookInv'
  BY BookInvNext
<1>3. BookInv => Linked
  BY LinkedFollows
<1> QED
  BY <1>1, <1>2, <1>3, PTL DEF Spec
-----------------------------------------------------------------------------
\* The volumes and the best prices that the book shows its reader.
Shown  == [s \in Sides |-> [p \in Book(s) |-> vol[s][p]]]
Bests  == [s \in Sides |-> IF Book(s) = {} THEN -1 ELSE head[s]]

\* A side that a step leaves alone shows what it did.
LEMMA ShownElsewhere ==
  ASSUME NEW s \in Sides, is_set'[s] = is_set[s], vol'[s] = vol[s], head'[s] = head[s]
  PROVE  Shown'[s] = Shown[s] /\ Bests'[s] = Bests[s]
BY DEF Shown, Bests, Book

\* Side s has become f, and has the best price of it.
LEMMA BecomeFollows ==
  ASSUME BookInv', NEW s \in Sides, NEW f \in [Book(s)' -> Nat],
         \A q \in Book(s)' : vol'[s][q] = f[q],
         \A t \in Sides \ {s} : is_set'[t] = is_set[t] /\ vol'[t] = vol[t] /\ head'[t] = head[t]
  PROVE  Levels!Become(s, f)
<1>1. \A t \in Sides \ {s} : Shown'[t] = Shown[t] /\ Bests'[t] = Bests[t]
  BY ShownElsewhere
<1>2. Shown'[s] = f
  BY DEF Shown
<1>3. Shown' = [Shown EXCEPT ![s] = f]
  <2>1. Shown = [t \in Sides |-> Shown[t]] /\ Shown' = [t \in Sides |-> Shown'[t]]
    BY DEF Shown
  <2> HIDE DEF Shown
  <2> QED
    BY <1>1, <1>2, <2>1
<1> DEFINE b == Bests'[s]
<1>4. Bests' = [Bests EXCEPT ![s] = b]
  <2>1. Bests = [t \in Sides |-> Bests[t]] /\ Bests' = [t \in Sides |-> Bests'[t]]
    BY DEF Bests
  <2> HIDE DEF Bests
  <2> QED
    BY <1>1, <2>1
<1>5. b \in DOMAIN f \cup {-1}
      /\ (Levels!IsBest(s, b, DOMAIN f) \/ (b = -1 /\ DOMAIN f = {}))
  <2>1. CASE DOMAIN f = {}
    BY <2>1 DEF Bests
  <2>2. CASE DOMAIN f # {}
    <3>1. Foremost(s, Book(s)', head'[s]) /\ b = head'[s]
      BY <2>2 DEF BookInv, SideRight, Chain, Bests, Foremost, Ahead
    <3> QED
      BY <3>1 DEF Foremost, Levels!IsBest
  <2> QED
    BY <2>1, <2>2
<1> QED
  BY <1>3, <1>4, <1>5 DEF Levels!Become, Levels!NoPrice, Shown, Bests

LEMMA InitShows == Init => Levels!Init
<1> SUFFICES ASSUME Init PROVE Levels!Init
  OBVIOUS
<1>1. \A s \in Sides : Book(s) = {}
  BY Distinct DEF Init, BookInit, Book
<1> QED
  BY <1>1 DEF Init, BookInit, Levels!Init, Levels!NoPrice

LEMMA WithFollows ==
  ASSUME BookInv, BookInv', NEW s \in Sides, NEW p, NEW v \in Nat, Book(s)' = Book(s) \cup {p},
         \A q \in Book(s) \cup {p} : vol'[s][q] = IF q = p THEN v ELSE vol[s][q],
         \A t \in Sides \ {s} : is_set'[t] = is_set[t] /\ vol'[t] = vol[t] /\ head'[t] = head[t]
  PROVE  Levels!Become(s, Levels!With(s, p, v))
<1>f. PICK f : f = Levels!With(s, p, v)
  OBVIOUS
<1>0. vol[s] \in [Index -> Nat] /\ Book(s) \subseteq Index
  BY Distinct DEF BookInv, BookTypeOK, Book
<1>1. f \in [Book(s)' -> Nat]
  BY <1>0, <1>f DEF Levels!With
<1>2. \A q \in Book(s)' : vol'[s][q] = f[q]
  BY <1>f DEF Levels!With
<1>3. Levels!Become(s, f)
  BY <1>1, <1>2, BecomeFollows
<1> QED
  BY <1>3, <1>f DEF Levels!Become

LEMMA WithoutFollows ==
  ASSUME BookInv, BookInv', NEW s \in Sides, NEW p, Book(s)' = Book(s) \ {p}, vol' = vol,
         \A t \in Sides \ {s} : is_set'[t] = is_set[t] /\ head'[t] = head[t]
  PROVE  Levels!Become(s, Levels!Without(s, p))
<1>f. PICK f : f = Levels!Without(s, p)
  OBVIOUS
<1>0. vol[s] \in [Index -> Nat] /\ Book(s) \subseteq Index
  BY Distinct DEF BookInv, BookTypeOK, Book
<1>1. f \in [Book(s)' -> Nat]
  BY <1>0, <1>f DEF Levels!Without
<1>2. \A q \in Book(s)' : vol'[s][q] = f[q]
  BY <1>f DEF Levels!Without
<1>3. Levels!Become(s, f)
  BY <1>1, <1>2, BecomeFollows
<1> QED
  BY <1>3, <1>f DEF Levels!Become

\* A link of a price with a volume, by the snapshot or by a message.
LEMMA LinkFacts ==
  ASSUME BookInv, NEW s \in Sides, NEW p \in Prices, NEW v \in VolsOf(s),
         SnapshotInsert(s, p, v) \/ InsertBest(s, p, v) \/ InsertBehind(s, p, v)
  PROVE  /\ Book(s)' = Book(s) \cup {p} /\ v \in BidVols \cup AskVols
         /\ \A q \in Book(s) \cup {p} : vol'[s][q] = IF q = p THEN v ELSE vol[s][q]
         /\ \A t \in Sides \ {s} : is_set'[t] = is_set[t] /\ vol'[t] = vol[t] /\ head'[t] = head[t]
<1>1. /\ vol' = [vol EXCEPT ![s][p] = v] /\ is_set' = [is_set EXCEPT ![s][p] = TRUE]
      /\ head' = [head EXCEPT ![s] = p] \/ head' = head
  BY DEF SnapshotInsert, InsertBest, InsertBehind, Link
<1>2. BookTypeOK /\ p \in Index /\ v \in BidVols \cup AskVols
  BY Distinct DEF BookInv, VolsOf
<1>3. Book(s)' = Book(s) \cup {p} /\ Book(s) \subseteq Index
  BY <1>1, <1>2, Distinct DEF Book, BookTypeOK
<1> QED
  BY <1>1, <1>2, <1>3 DEF BookTypeOK

LEMMA SnapshotShows ==
  ASSUME BookInv, BookInv', NEW s \in Sides, NEW p \in Prices, NEW v \in VolsOf(s),
         SnapshotInsert(s, p, v)
  PROVE  Levels!Next
<1>1. Levels!Become(s, Levels!With(s, p, v)) /\ v \in BidVols \cup AskVols
  BY Distinct, LinkFacts, WithFollows
<1>2. Levels!Snapshot(s, p, v)
  BY <1>1 DEF Levels!Snapshot, SnapshotInsert
<1> QED
  BY <1>1, <1>2 DEF Levels!Next

LEMMA InsertShows ==
  ASSUME BookInv, BookInv', NEW s \in Sides, NEW p \in Prices, NEW v \in VolsOf(s),
         InsertBest(s, p, v) \/ InsertBehind(s, p, v)
  PROVE  Levels!Next
<1>1. Levels!Become(s, Levels!With(s, p, v)) /\ v \in BidVols \cup AskVols
  BY Distinct, LinkFacts, WithFollows
<1>2. p \notin Book(s) /\ Book(s)' = Book(s) \cup {p} /\ Book(s) # {}
  <2>1. p \notin Book(s) /\ phase = "feed" /\ head[s] \in Index
    BY DEF InsertBest, InsertBehind, Insertable, Book, BookInv, BookTypeOK
  <2>2. Book(s) # {}
    <3>1. CASE InsertBest(s, p, v)
      BY <2>1, <3>1 DEF InsertBest, BookInv, Stage, Ahead, Prices, Sides
    <3>2. CASE InsertBehind(s, p, v)
      BY <3>2 DEF InsertBehind, NextAhead
    <3> QED
      BY <3>1, <3>2
  <2> QED
    BY <2>1, <2>2, LinkFacts
<1>3. is_bba_upd' = (Bests' # Bests)
  <2>1. Bests[s] = head[s] /\ Bests'[s] = head'[s]
    BY <1>2 DEF Bests
  <2>2. CASE InsertBest(s, p, v)
    <3>1. head'[s] = p /\ head[s] # p /\ is_bba_upd' = TRUE
      BY <1>2, <2>2 DEF InsertBest, BookInv, BookTypeOK, SideRight, Chain, Foremost
    <3> QED
      BY <2>1, <3>1
  <2>3. CASE InsertBehind(s, p, v)
    <3>1. head' = head /\ is_bba_upd' = FALSE
      BY <2>3 DEF InsertBehind
    <3>2. \A t \in Sides : Bests'[t] = Bests[t]
      <4>1. ASSUME NEW t \in Sides \ {s}
            PROVE  Bests'[t] = Bests[t]
        BY <3>1, LinkFacts, ShownElsewhere
      <4> QED
        BY <2>1, <3>1, <4>1
    <3>3. Bests' = Bests
      BY <3>2 DEF Bests
    <3> QED
      BY <3>1, <3>3
  <2> QED
    BY <2>2, <2>3
<1>4. Levels!Insert(s, p, v)
  BY <1>1, <1>2, <1>3 DEF Levels!Insert, Bests
<1> QED
  BY <1>1, <1>4 DEF Levels!Next

LEMMA DeleteShows ==
  ASSUME BookInv, BookInv', NEW s \in Sides, NEW p \in Prices, DeleteBest(s, p) \/ DeleteBehind(s, p)
  PROVE  Levels!Next
<1>1. /\ is_set' = [is_set EXCEPT ![s][p] = FALSE] /\ vol' = vol /\ p \in Book(s)
      /\ head' = [head EXCEPT ![s] = PriceOf(parent[s][p])] \/ head' = head
  BY DEF DeleteBest, DeleteBehind, Unlink, Deletable, Book
<1>2. BookTypeOK /\ p \in Index
  BY Distinct DEF BookInv
<1>3. /\ Book(s)' = Book(s) \ {p}
      /\ \A t \in Sides \ {s} : is_set'[t] = is_set[t] /\ head'[t] = head[t]
  BY <1>1, <1>2, Distinct DEF Book, BookTypeOK
<1>4. Levels!Become(s, Levels!Without(s, p))
  BY <1>1, <1>3, WithoutFollows
<1>5. is_bba_upd' = (Bests' # Bests)
  <2>1. Bests[s] = head[s]
    BY <1>1 DEF Bests
  <2>2. CASE DeleteBest(s, p)
    <3>1. head[s] = p /\ is_bba_upd' = TRUE
      BY <2>2 DEF DeleteBest
    <3>2. Bests'[s] # p
      BY <1>3, Distinct DEF Bests, BookInv, SideRight, Chain, Foremost, Prices
    <3> QED
      BY <2>1, <3>1, <3>2
  <2>3. CASE DeleteBehind(s, p)
    <3>1. head' = head /\ is_bba_upd' = FALSE /\ p # head[s]
      BY <2>3 DEF DeleteBehind
    <3>2. head[s] \in Book(s)'
      BY <1>1, <1>3, <3>1 DEF BookInv, SideRight, Chain, Foremost
    <3>3. \A t \in Sides : Bests'[t] = Bests[t]
      BY <1>1, <1>3, <2>1, <3>1, <3>2, ShownElsewhere DEF Bests
    <3>4. Bests' = Bests
      BY <3>3 DEF Bests
    <3> QED
      BY <3>1, <3>4
  <2> QED
    BY <2>2, <2>3
<1>6. Levels!Delete(s, p)
  BY <1>1, <1>4, <1>5 DEF Levels!Delete, Bests
<1> QED
  BY <1>6 DEF Levels!Next

LEMMA UpdateShows ==
  ASSUME BookInv, BookInv', NEW s \in Sides, NEW p \in Prices, NEW v \in VolsOf(s), Update(s, p, v)
  PROVE  Levels!Next
<1>0. BookTypeOK /\ p \in Index /\ v \in BidVols \cup AskVols
  BY Distinct DEF BookInv, VolsOf
<1>1. /\ p \in Book(s) /\ vol' = [vol EXCEPT ![s][p] = v]
      /\ is_set' = is_set /\ head' = head /\ is_bba_upd' = is_bba_upd
  BY DEF Update, Book, links
<1>2. Bests' = Bests
  BY <1>1 DEF Bests, Book
<1>3. \A t \in Sides : Book(t)' = Book(t) /\ Book(t) \subseteq Index
  BY <1>1, Distinct DEF Book
<1>4. Shown' = [Shown EXCEPT ![s][p] = v]
  <2>1. ASSUME NEW t \in Sides, NEW q \in Book(t)
        PROVE  vol'[t][q] = IF t = s /\ q = p THEN v ELSE vol[t][q]
    BY <1>0, <1>1, <1>3 DEF BookTypeOK
  <2>2. \A t \in Sides : Shown'[t] = IF t = s THEN [Shown[s] EXCEPT ![p] = v] ELSE Shown[t]
    BY <1>1, <1>3, <2>1 DEF Shown
  <2>3. Shown = [t \in Sides |-> Shown[t]] /\ Shown' = [t \in Sides |-> Shown'[t]]
    BY DEF Shown
  <2> HIDE DEF Shown
  <2> QED
    BY <2>2, <2>3
<1>5. Levels!Update(s, p, v)
  BY <1>1, <1>2, <1>4 DEF Levels!Update, Shown, Bests
<1> QED
  BY <1>0, <1>5 DEF Levels!Next

\* Nothing is to be seen of a step that leaves the levels and the heads alone.
LEMMA QuietShows ==
  ASSUME head' = head, is_set' = is_set, vol' = vol, is_bba_upd' = is_bba_upd
  PROVE  UNCHANGED <<Shown, Bests, is_bba_upd>>
BY DEF Shown, Bests, Book

LEMMA NextShows ==
  BookInv /\ BookInv' /\ [Next]_vars => Levels!Next \/ UNCHANGED <<Shown, Bests, is_bba_upd>>
<1> SUFFICES ASSUME BookInv, BookInv', [Next]_vars
             PROVE  Levels!Next \/ UNCHANGED <<Shown, Bests, is_bba_upd>>
  OBVIOUS
<1>1. CASE Snapshot
  <2>1. CASE SnapshotDone
    BY <2>1, QuietShows DEF SnapshotDone, links
  <2>2. CASE \E s \in Sides, p \in Prices : \E v \in VolsOf(s) : SnapshotInsert(s, p, v)
    BY <2>2, SnapshotShows
  <2> QED
    BY <1>1, <2>1, <2>2 DEF Snapshot
<1>2. CASE InitTrading
  BY <1>2, QuietShows DEF InitTrading, links
<1>3. CASE HandleEntry
  <2>1. PICK s \in Sides, p \in Prices :
           Insert(s, p) \/ Delete(s, p) \/ \E v \in VolsOf(s) : Update(s, p, v)
    BY <1>3 DEF HandleEntry
  <2>2. CASE Insert(s, p)
    BY <2>2, InsertShows, QuietShows DEF Insert, InsertCrash, Crash, links
  <2>3. CASE Delete(s, p)
    BY <2>3, DeleteShows, QuietShows DEF Delete, DeleteCrash, Crash, links
  <2>4. CASE \E v \in VolsOf(s) : Update(s, p, v)
    BY <2>4, UpdateShows
  <2> QED
    BY <2>1, <2>2, <2>3, <2>4
<1>4. CASE EndMessage
  BY <1>4, QuietShows DEF EndMessage, bookVars, links
<1>5. CASE DivideByZero
  BY <1>5, QuietShows DEF DivideByZero, Crash, links
<1>6. CASE UNCHANGED vars
  BY <1>6, QuietShows DEF vars, bookVars, links
<1> QED
  BY <1>1, <1>2, <1>3, <1>4, <1>5, <1>6 DEF Next

\* The linked levels implement a set of prices with their volumes: the head is
\* the best of them, and ob_insert and ob_delete return true when it has moved
\* and only then (OrderBook.hpp:85-156, 181-251).
THEOREM LevelsImplemented == Spec => ImplementsLevels
<1>1. Init => BookInv /\ Levels!Init
  BY InitBook, InitShows DEF Init
<1>2. BookInv /\ [Next]_vars => BookInv'
  BY BookInvNext
<1>3. BookInv /\ BookInv' /\ [Next]_vars => [Levels!Next]_(<<Shown, Bests, is_bba_upd>>)
  BY NextShows
<1> QED
  BY <1>1, <1>2, <1>3, PTL DEF Spec, ImplementsLevels, Levels!Spec, Shown, Bests

-----------------------------------------------------------------------------
(***************************************************************************)
(* What kills the program.  The exchange lists no level without volume, so *)
(* a side that has prices has a volume at its best one; the start of the   *)
(* array, where head is when there is no ask left, has none.               *)
(***************************************************************************)
AsksPositive == 0 \notin AskVols

VolumesRight == vol["Sell"][0] = 0 /\ \A p \in Book("Sell") : vol["Sell"][p] # 0

KillInv ==
  /\ VolumesRight
  /\ phase = "start" => Book("Sell") # {}
  /\ phase # "killed" => fault = {}
  /\ KilledWhenBare

\* A set of numbers that is not empty has a least one.
LEMMA LeastOf ==
  ASSUME NEW T \in SUBSET Nat, T # {}
  PROVE  \E x \in T : \A y \in T : x <= y
<1> DEFINE R == OpToRel(<, Nat)
<1>1. IsWellFoundedOn(R, Nat)
  BY NatLessThanWellFounded, Zenon
<1>2. \A x, y \in Nat : x < y => <<x, y>> \in R
  BY Zenon DEF OpToRel
<1> HIDE DEF R
<1>3. PICK x \in T : \A y \in T : <<y, x>> \notin R
  BY <1>1, WFMin
<1>4. ASSUME NEW y \in T PROVE ~(y < x)
  BY <1>2, <1>3, Zenon
<1>5. \A y \in T : x <= y
  BY <1>4
<1> QED
  BY <1>5

\* The scan of ob_insert stops at a level, if there is one ahead.
LEMMA ScanStops ==
  ASSUME NEW s \in Sides, NEW p \in Prices, NEW h \in Book(s), Ahead(s, h, p)
  PROVE  \E c \in Prices : NextAhead(s, p, c)
<1> DEFINE Far(q) == IF s = "Buy" THEN q - p ELSE p - q
           T == {Far(q) : q \in {r \in Book(s) : Ahead(s, r, p)}}
<1>1. Book(s) \subseteq Prices /\ Prices \subseteq Int
  BY DEF Book, Prices
<1>2. \A q \in Prices : Far(q) \in Int /\ (Ahead(s, q, p) => Far(q) \in Nat)
  BY <1>1 DEF Ahead
<1>3. \A q, r \in Prices : Far(q) <= Far(r) => q = r \/ Ahead(s, r, q)
  BY <1>1 DEF Ahead, Sides
<1> HIDE DEF Far
<1>4. T \in SUBSET Nat /\ Far(h) \in T
  BY <1>1, <1>2
<1>5. PICK x \in T : \A y \in T : x <= y
  BY <1>4, LeastOf
<1>6. PICK c \in Book(s) : Ahead(s, c, p) /\ x = Far(c)
  OBVIOUS
<1>7. ASSUME NEW q \in Book(s), Ahead(s, q, p) PROVE q = c \/ Ahead(s, q, c)
  <2>1. Far(c) <= Far(q)
    BY <1>5, <1>6, <1>7
  <2> QED
    BY <1>1, <1>3, <2>1
<1> QED
  BY <1>1, <1>6, <1>7 DEF NextAhead

\* A level with no parent is the worst bid.
LEMMA Parentless ==
  ASSUME BookInv, NEW s \in Sides, NEW p \in Book(s), parent[s][p] = Null
  PROVE  s = "Buy" /\ \A q \in Book(s) : p <= q
<1>1. ParentRight(s, Book(s), parent[s], p)
  BY DEF BookInv, SideRight, Chain
<1>2. Hindmost(s, Book(s), p) /\ parent[s][p] = Behind(s)
  BY <1>1, Distinct DEF ParentRight, Neighbours, Book
<1>3. s = "Buy"
  BY <1>2 DEF Behind, Null, Blank
<1>4. Book(s) \subseteq Prices /\ Prices \subseteq Int
  BY DEF Book, Prices
<1>5. ASSUME NEW q \in Book(s) PROVE p <= q
  <2>1. ~(p > q)
    BY <1>2, <1>3, <1>5 DEF Hindmost, Ahead
  <2>2. p \in Int /\ q \in Int
    BY <1>4, <1>5
  <2> QED
    BY <2>1, <2>2
<1> QED
  BY <1>3, <1>5

\* Where a side has prices, head is the best of them.
LEMMA HeadBest ==
  ASSUME BookInv, NEW s \in Sides, Book(s) # {}
  PROVE  head[s] \in Book(s) /\ \A q \in Book(s) : q = head[s] \/ Ahead(s, head[s], q)
  BY DEF BookInv, SideRight, Chain, Foremost

\* The best ask has a volume, if there is an ask.
LEMMA BestVolume ==
  ASSUME BookInv, VolumesRight, phase \in {"start", "feed"}
  PROVE  /\ best_vol("Buy") \in Nat /\ best_vol("Sell") \in Nat
         /\ best_vol("Sell") = 0 <=> Book("Sell") = {}
<1>1. head \in [Sides -> Index] /\ vol \in [Sides -> [Index -> Nat]]
      /\ "Buy" \in Sides /\ "Sell" \in Sides
  BY DEF BookInv, BookTypeOK, Sides
<1>2. Book("Sell") = {} => head["Sell"] = 0
  BY DEF BookInv, Stage
<1> QED
  BY <1>1, <1>2, HeadBest DEF VolumesRight, best_vol

-----------------------------------------------------------------------------
\* An insertion kills the program behind the worst bid, or where there is no ask.
LEMMA InsertCrashBare ==
  ASSUME BookInv, NEW s \in Sides, NEW p \in Prices, InsertCrash(s, p)
  PROVE  KilledWhenBare'
<1>1. /\ ~is_set[s][p] /\ ~Ahead(s, p, head[s]) /\ p \notin Book(s)
      /\ \A c \in Prices : NextAhead(s, p, c) => parent[s][c] = Null
      /\ fault' = {<<s, p>>} /\ is_set' = is_set
  BY DEF InsertCrash, Insertable, Crash, links, Book
<1>2. Book("Buy")' = Book("Buy") /\ Book("Sell")' = Book("Sell")
  BY <1>1 DEF Book
<1>3. ASSUME Book(s) # {} PROVE s = "Buy" /\ \A q \in Book(s) : p <= q
  <2>1. head[s] \in Book(s) /\ Book(s) \subseteq Prices
    BY <1>3, HeadBest DEF Book
  <2>2. Ahead(s, head[s], p)
    BY <1>1, <2>1, Order
  <2>3. PICK c \in Prices : NextAhead(s, p, c)
    BY <2>1, <2>2, ScanStops
  <2>4. c \in Book(s) /\ Ahead(s, c, p) /\ parent[s][c] = Null
    BY <1>1, <2>3 DEF NextAhead
  <2>5. s = "Buy" /\ \A q \in Book(s) : c <= q
    BY <2>4, Parentless
  <2>6. c > p
    BY <2>4, <2>5 DEF Ahead
  <2>7. \A q \in Book(s) : q \in Int /\ c \in Int /\ p \in Int
    BY <2>1 DEF Prices
  <2> QED
    BY <2>5, <2>6, <2>7
<1>4. \A f \in fault' : f[1] = s /\ f[2] = p
  BY <1>1
<1>5. s = "Buy" => \A q \in Book("Buy")' : p <= q
  BY <1>2, <1>3
<1>6. s # "Buy" => Book("Sell")' = {}
  BY <1>2, <1>3 DEF Sides
<1> QED
  BY <1>4, <1>5, <1>6 DEF KilledWhenBare

\* A deletion kills it at the worst bid.
LEMMA DeleteCrashBare ==
  ASSUME BookInv, NEW s \in Sides, NEW p \in Prices, DeleteCrash(s, p)
  PROVE  KilledWhenBare'
<1>1. /\ p \in Book(s) /\ parent[s][p] = Null
      /\ fault' = {<<s, p>>} /\ is_set' = is_set
  BY DEF DeleteCrash, Deletable, Crash, links, Book
<1>2. Book("Buy")' = Book("Buy")
  BY <1>1 DEF Book
<1>3. s = "Buy" /\ \A q \in Book("Buy")' : p <= q
  BY <1>1, <1>2, Parentless
<1>4. \A f \in fault' : f[1] = s /\ f[2] = p
  BY <1>1
<1> QED
  BY <1>3, <1>4 DEF KilledWhenBare

\* The division kills it where there is no ask.
LEMMA DivideBare ==
  ASSUME BookInv, VolumesRight, DivideByZero
  PROVE  KilledWhenBare'
<1>1. /\ best_vol("Sell") = 0 /\ phase = "feed"
      /\ fault' = {<<"Sell", 0>>} /\ is_set' = is_set
  BY DEF DivideByZero, Crash, links
<1>2. Book("Sell")' = {}
  BY <1>1, BestVolume DEF Book
<1>3. \A f \in fault' : f[1] = "Sell"
  BY <1>1
<1> QED
  BY <1>2, <1>3 DEF KilledWhenBare

\* A volume that is stored is one of the side's.
LEMMA VolumesStored ==
  ASSUME AsksPositive, BookInv, VolumesRight, NEW s \in Sides, NEW p \in Prices,
         NEW v \in VolsOf(s), vol' = [vol EXCEPT ![s][p] = v],
         is_set' = is_set \/ is_set' = [is_set EXCEPT ![s][p] = TRUE]
  PROVE  VolumesRight'
<1>1. /\ vol \in [Sides -> [Index -> Nat]] /\ is_set \in [Sides -> [Index -> BOOLEAN]]
      /\ p \in Index /\ 0 \in Index /\ p # 0 /\ "Sell" \in Sides /\ Prices \subseteq Index
  BY Distinct DEF BookInv, BookTypeOK, Sides
<1>2. s = "Sell" => v # 0
  BY DEF AsksPositive, VolsOf
<1>3. \A q \in Book("Sell")' : q \in Book("Sell") \/ (s = "Sell" /\ q = p)
  BY <1>1 DEF Book
<1>4. \A q \in Index : vol'["Sell"][q] = IF s = "Sell" /\ q = p THEN v ELSE vol["Sell"][q]
  BY <1>1
<1>5. Book("Sell")' \subseteq Index
  BY <1>1 DEF Book
<1> QED
  BY <1>1, <1>2, <1>3, <1>4, <1>5 DEF VolumesRight

\* A step that stores no volume and links no level.
LEMMA VolumesStay ==
  ASSUME VolumesRight, vol' = vol, \A p \in Prices : is_set'["Sell"][p] => is_set["Sell"][p]
  PROVE  VolumesRight'
  BY DEF VolumesRight, Book

LEMMA KillStep ==
  ASSUME AsksPositive, BookInv, KillInv, [Next]_vars
  PROVE  KillInv'
<1>1. ASSUME VolumesRight', phase' = "start" => Book("Sell")' # {}, fault' = fault,
             phase' # "killed", phase # "killed"
      PROVE  KillInv'
  BY <1>1 DEF KillInv, KilledWhenBare
<1>2. CASE Snapshot
  <2>1. CASE SnapshotDone
    <3>1. /\ vol' = vol /\ is_set' = is_set /\ fault' = fault /\ phase \in Sides
          /\ level_0 # Blank /\ phase' = IF phase = "Buy" THEN "Sell" ELSE "start"
      BY <2>1 DEF SnapshotDone, links
    <3>2. phase = "Sell" => Book("Sell") # {}
      BY <3>1 DEF BookInv, Stage
    <3>3. Book("Sell")' = Book("Sell")
      BY <3>1 DEF Book
    <3>4. VolumesRight'
      BY <3>1, VolumesStay DEF KillInv
    <3> QED
      BY <1>1, <3>1, <3>2, <3>3, <3>4 DEF Sides
  <2>2. ASSUME NEW s \in Sides, NEW p \in Prices, NEW v \in VolsOf(s), SnapshotInsert(s, p, v)
        PROVE  KillInv'
    <3>1. /\ vol' = [vol EXCEPT ![s][p] = v] /\ is_set' = [is_set EXCEPT ![s][p] = TRUE]
          /\ fault' = fault /\ phase' = phase /\ phase \in Sides
      BY <2>2 DEF SnapshotInsert
    <3>2. VolumesRight'
      BY <3>1, VolumesStored DEF KillInv
    <3> QED
      BY <1>1, <3>1, <3>2 DEF Sides
  <2> QED
    BY <1>2, <2>1, <2>2 DEF Snapshot
<1>3. ASSUME vol' = vol, fault' = fault, is_set' = is_set, phase' \in {phase, "feed"}, phase # "killed"
      PROVE  KillInv'
  <2>1. VolumesRight' /\ Book("Sell")' = Book("Sell")
    BY <1>3, VolumesStay DEF KillInv, Book
  <2> QED
    BY <1>1, <1>3, <2>1 DEF KillInv
<1>4. CASE InitTrading
  BY <1>3, <1>4 DEF InitTrading, links
<1>5. CASE EndMessage
  BY <1>3, <1>5 DEF EndMessage, bookVars, links
<1>6. CASE DivideByZero
  <2>1. phase' = "killed" /\ vol' = vol /\ is_set' = is_set
    BY <1>6 DEF DivideByZero, Crash, links
  <2>2. VolumesRight' /\ KilledWhenBare'
    BY <1>6, <2>1, DivideBare, VolumesStay DEF KillInv
  <2> QED
    BY <2>1, <2>2 DEF KillInv
<1>7. ASSUME NEW s \in Sides, NEW p \in Prices, InsertCrash(s, p) \/ DeleteCrash(s, p)
      PROVE  KillInv'
  <2>1. phase' = "killed" /\ vol' = vol /\ is_set' = is_set
    BY <1>7 DEF InsertCrash, DeleteCrash, Crash, links
  <2>2. VolumesRight' /\ KilledWhenBare'
    BY <1>7, <2>1, InsertCrashBare, DeleteCrashBare, VolumesStay DEF KillInv
  <2> QED
    BY <2>1, <2>2 DEF KillInv
<1>8. ASSUME NEW s \in Sides, NEW p \in Prices, NEW v \in VolsOf(s),
             InsertBest(s, p, v) \/ InsertBehind(s, p, v) \/ Update(s, p, v)
      PROVE  KillInv'
  <2>1. /\ vol' = [vol EXCEPT ![s][p] = v] /\ fault' = fault /\ phase' = phase /\ phase = "feed"
        /\ is_set' = is_set \/ is_set' = [is_set EXCEPT ![s][p] = TRUE]
    BY <1>8 DEF InsertBest, InsertBehind, Insertable, Update, Link, links
  <2>2. VolumesRight'
    BY <2>1, VolumesStored DEF KillInv
  <2> QED
    BY <1>1, <2>1, <2>2
<1>9. ASSUME NEW s \in Sides, NEW p \in Prices, DeleteBest(s, p) \/ DeleteBehind(s, p)
      PROVE  KillInv'
  <2>1. /\ vol' = vol /\ fault' = fault /\ phase' = phase /\ phase = "feed"
        /\ is_set' = [is_set EXCEPT ![s][p] = FALSE]
    BY <1>9 DEF DeleteBest, DeleteBehind, Deletable, Unlink
  <2>2. \A q \in Prices : is_set'["Sell"][q] => is_set["Sell"][q]
    BY <2>1, Distinct DEF BookInv, BookTypeOK, Sides
  <2>3. VolumesRight'
    BY <2>1, <2>2, VolumesStay DEF KillInv
  <2> QED
    BY <1>1, <2>1, <2>3
<1>10. CASE HandleEntry
  <2>1. PICK s \in Sides, p \in Prices :
           Insert(s, p) \/ Delete(s, p) \/ \E v \in VolsOf(s) : Update(s, p, v)
    BY <1>10 DEF HandleEntry, Entry
  <2> QED
    BY <1>7, <1>8, <1>9, <2>1 DEF Insert, Delete
<1>11. CASE UNCHANGED vars
  <2>1. UNCHANGED <<phase, vol, is_set, fault>>
    BY <1>11 DEF vars, bookVars, links
  <2> QED
    BY <2>1 DEF KillInv, VolumesRight, KilledWhenBare, Book
<1> QED
  BY <1>2, <1>4, <1>5, <1>6, <1>10, <1>11 DEF Next

LEMMA InitKill == Init => KillInv
<1> SUFFICES ASSUME Init PROVE KillInv
  OBVIOUS
<1>1. phase = "Buy" /\ fault = {} /\ Book("Sell") = {} /\ vol["Sell"][0] = 0
  BY Distinct DEF Init, BookInit, Book, Sides
<1> QED
  BY <1>1 DEF KillInv, VolumesRight, KilledWhenBare

\* If the exchange lists no ask without volume, the program is killed in two
\* situations only: a message deletes the worst bid or inserts one behind it, or
\* there is no ask left (OrderBook.hpp:105-116, 123-143, 219-229,
\* OrderBookStream.hpp:142).
THEOREM KilledHolds == ASSUME AsksPositive PROVE Spec => []KilledWhenBare
<1>1. Init => BookInv /\ KillInv
  BY InitBook, InitKill DEF Init
<1>2. BookInv /\ KillInv /\ [Next]_vars => BookInv' /\ KillInv'
  BY BookInvNext, KillStep
<1>3. KillInv => KilledWhenBare
  BY DEF KillInv
<1> QED
  BY <1>1, <1>2, <1>3, PTL DEF Spec

-----------------------------------------------------------------------------
(***************************************************************************)
(* The messages.  Between two of them book is what the order book shows;   *)
(* within one, the heads are those of book until an entry says otherwise.  *)
(***************************************************************************)
Current == [bid |-> head["Buy"], ask |-> head["Sell"], ratio |-> get_vol_ratio]

Moved == head["Buy"] # book.bid \/ head["Sell"] # book.ask

MessageInv ==
  /\ msg = "none" <=> entries = 0
  /\ phase \in Sides \cup {"start"} => msg = "none"
  /\ phase = "feed" /\ Book("Sell") # {} =>
       /\ msg = "none" => book = Current
       /\ msg = "update" => ~Moved
       /\ msg \in {"insert", "delete"} /\ entries = 1 =>
            IF is_bba_upd THEN Moved ELSE book = Current

\* The targets of BookFeed are those of update_targ_prices.
LEMMA SameTargets ==
  ASSUME NEW bid, NEW ask, NEW ratio
  PROVE  Feed!TargetsOf(bid, ask, ratio) = TargetsOf(bid, ask, ratio)
BY Zenon DEF Feed!TargetsOf, TargetsOf, Feed!TargetStores, TargetStores,
   Feed!AskAway, AskAway, Feed!BidAway, BidAway, Feed!InverseRatio, InverseRatio,
   Feed!bitwise_non_zero, bitwise_non_zero, Feed!Negative, Negative, Feed!MinInt, MinInt

\* The quotient exists where there is an ask.
LEMMA RatioTyped ==
  ASSUME BookInv, VolumesRight, phase \in {"start", "feed"}, best_vol("Sell") # 0
  PROVE  Current \in [bid : Index, ask : Index, ratio : Nat] /\ get_vol_ratio \in Nat
<1>1. best_vol("Buy") \in Nat /\ best_vol("Sell") \in Nat
  BY BestVolume
<1>2. get_vol_ratio \in Nat
  <2> HIDE DEF best_vol
  <2> QED
    BY <1>1 DEF get_vol_ratio
<1>3. head["Buy"] \in Index /\ head["Sell"] \in Index
  BY DEF BookInv, BookTypeOK, Sides
<1> QED
  BY <1>2, <1>3 DEF Current

LEMMA TargetsTyped ==
  ASSUME BookInv, NEW ratio \in Nat
  PROVE  TargetsOf(head["Buy"], head["Sell"], ratio) \in [Slots -> Int]
<1>1. head["Buy"] \in Int /\ head["Sell"] \in Int
  BY BookAssumption DEF BookInv, BookTypeOK, Sides, Index
<1>2. PICK b \in Int, a \in Int : b = head["Buy"] /\ a = head["Sell"]
  BY <1>1
<1>3. TargetsOf(b, a, ratio) \in [Places -> Int]
  BY TargetsStored
<1> QED
  BY <1>2, <1>3 DEF Places, Slots

LEMMA TypeStep ==
  ASSUME BookInv, BookInv', KillInv, TypeOK, [Next]_vars
  PROVE  TypeOK'
<1>1. BookTypeOK'
  BY DEF BookInv
<1>2. ASSUME UNCHANGED <<msg, entries, tradeVars, ghostVars>> PROVE TypeOK'
  BY <1>1, <1>2 DEF TypeOK, tradeVars, ghostVars
<1>3. CASE Snapshot \/ DivideByZero \/ UNCHANGED vars
  BY <1>2, <1>3 DEF Snapshot, DivideByZero, vars
<1>4. CASE InitTrading
  <2>1. phase = "start" /\ best_vol("Sell") # 0
    BY <1>4, BestVolume DEF InitTrading, KillInv
  <2>2. get_vol_ratio \in Nat /\ Current \in [bid : Index, ask : Index, ratio : Nat]
    BY <2>1, RatioTyped DEF KillInv
  <2>3. vol_ratio' = get_vol_ratio /\ book' = Current
    BY <1>4 DEF InitTrading, Current
  <2>4. PICK r \in Nat : r = get_vol_ratio
    BY <2>2
  <2>5. targ' = TargetsOf(head["Buy"], head["Sell"], r)
    BY <1>4, <2>4 DEF InitTrading
  <2>6. targ' \in [Slots -> Int]
    BY <2>5, TargetsTyped
  <2>7. UNCHANGED <<msg, entries, batch>>
    BY <1>4 DEF InitTrading
  <2> QED
    BY <1>1, <2>2, <2>3, <2>6, <2>7 DEF TypeOK
<1>5. CASE HandleEntry
  <2>1. PICK kind \in {"insert", "delete", "update"} : Entry(kind)
    BY <1>5 DEF HandleEntry
  <2>2. entries' \in 0..MaxEntries
    BY <2>1, MessageAssumption DEF Entry, TypeOK
  <2> QED
    BY <1>1, <2>1, <2>2 DEF Entry, TypeOK, tradeVars, ghostVars
<1>6. CASE EndMessage
  <2>1. phase = "feed"
    BY <1>6 DEF EndMessage
  <2>2. best_vol("Sell") # 0 => get_vol_ratio \in Nat /\ Current \in [bid : Index, ask : Index, ratio : Nat]
    BY <2>1, RatioTyped DEF KillInv
  <2>3. book' \in [bid : Index, ask : Index, ratio : Nat]
    BY <1>6, <2>2 DEF EndMessage, Current, TypeOK
  <2>4. vol_ratio' \in Nat
    BY <1>6, <2>2 DEF EndMessage, TypeOK
  <2>5. targ' \in [Slots -> Int]
    <3>1. PICK r \in Nat : r = vol_ratio
      BY DEF TypeOK
    <3>2. TargetsOf(head["Buy"], head["Sell"], r) \in [Slots -> Int]
      BY TargetsTyped
    <3>3. targ' = targ \/ targ' = TargetsOf(head["Buy"], head["Sell"], r)
      BY <1>6, <3>1 DEF EndMessage
    <3> QED
      BY <3>2, <3>3 DEF TypeOK
  <2>6. msg' = "none" /\ entries' = 0 /\ batch' \in BOOLEAN
    BY <1>6 DEF EndMessage
  <2> QED
    BY <1>1, <2>3, <2>4, <2>5, <2>6, MessageAssumption DEF TypeOK
<1> QED
  BY <1>3, <1>4, <1>5, <1>6 DEF Next

LEMMA InitTypes == Init => TypeOK
<1> SUFFICES ASSUME Init PROVE TypeOK
  OBVIOUS
<1>1. BookTypeOK
  BY InitBook DEF Init, BookInv
<1>2. msg = "none" /\ entries = 0 /\ vol_ratio = 0 /\ batch = FALSE
  BY DEF Init
<1>3. book \in [bid : Index, ask : Index, ratio : Nat]
  BY Distinct DEF Init, NoBook
<1>4. targ \in [Slots -> Int]
  BY DEF Init
<1>5. entries \in 0..MaxEntries
  BY <1>2, MessageAssumption
<1> QED
  BY <1>1, <1>2, <1>3, <1>4, <1>5 DEF TypeOK

\* If the exchange lists no ask without volume, every variable keeps its type:
\* get_vol_ratio never divides by zero without being killed for it
\* (OrderBookStream.hpp:101-151).
THEOREM MessagesTyped == ASSUME AsksPositive PROVE Spec => []TypeOK
<1>1. Init => BookInv /\ KillInv /\ TypeOK
  BY InitBook, InitKill, InitTypes DEF Init
<1>2. BookInv /\ KillInv /\ TypeOK /\ [Next]_vars => BookInv' /\ KillInv' /\ TypeOK'
  BY BookInvNext, KillStep, TypeStep
<1> QED
  BY <1>1, <1>2, PTL DEF Spec

-----------------------------------------------------------------------------
\* An entry that inserts or deletes: it says whether a head has moved, and if
\* not, what the order book shows is the same.
LEMMA EntryTells ==
  ASSUME BookInv, BookInv', NEW s \in Sides, NEW p \in Prices,
         (\E v \in VolsOf(s) : InsertBest(s, p, v) \/ InsertBehind(s, p, v))
           \/ DeleteBest(s, p) \/ DeleteBehind(s, p),
         Book("Sell")' # {}
  PROVE  /\ Book("Sell") # {}
         /\ IF is_bba_upd' THEN head'["Buy"] # head["Buy"] \/ head'["Sell"] # head["Sell"]
                           ELSE head' = head /\ Current' = Current
<1>1. /\ phase = "feed" /\ BookTypeOK /\ p \in Index /\ s \in Sides
      /\ Book("Buy") # {}
      /\ Book("Sell") = {} => head["Sell"] = 0
  BY Distinct DEF InsertBest, InsertBehind, Insertable, DeleteBest, DeleteBehind, Deletable,
                  BookInv, Stage
<1>2. ASSUME NEW v \in VolsOf(s), InsertBest(s, p, v) \/ InsertBehind(s, p, v)
      PROVE  Book("Sell") # {} /\ p \notin Book(s)
  <2>1. p \notin Book(s)
    BY <1>2 DEF InsertBest, InsertBehind, Insertable, Book
  <2>2. CASE InsertBest(s, p, v)
    <3>1. Ahead(s, p, head[s])
      BY <2>2 DEF InsertBest
    <3>2. p \in Int /\ ~(p < 0)
      BY DEF Prices
    <3>3. s = "Sell" => p < head["Sell"]
      BY <3>1 DEF Ahead
    <3>5. s = "Sell" => Book("Sell") # {}
      BY <1>1, <3>2, <3>3
    <3>4. s = "Buy" => Book("Sell")' = Book("Sell")
      BY <1>1, <2>2 DEF InsertBest, Link, Book, BookTypeOK, Sides
    <3> QED
      BY <2>1, <3>4, <3>5 DEF Sides
  <2>3. CASE InsertBehind(s, p, v)
    <3>1. Book(s) # {}
      BY <2>3 DEF InsertBehind, NextAhead
    <3>2. s = "Buy" => Book("Sell")' = Book("Sell")
      BY <1>1, <2>3 DEF InsertBehind, Link, Book, BookTypeOK, Sides
    <3> QED
      BY <2>1, <3>1, <3>2 DEF Sides
  <2> QED
    BY <1>2, <2>2, <2>3
<1>3. ASSUME DeleteBest(s, p) \/ DeleteBehind(s, p)
      PROVE  /\ Book("Sell") # {} /\ p \in Book(s) /\ p \notin Book(s)' /\ Book(s)' # {}
             /\ vol' = vol
  <2>1. p \in Book(s) /\ vol' = vol /\ is_set' = [is_set EXCEPT ![s][p] = FALSE]
    BY <1>3 DEF DeleteBest, DeleteBehind, Deletable, Unlink, Book
  <2>2. \A t \in Sides : Book(t)' \subseteq Book(t)
    BY <1>1, <2>1, Distinct DEF Book, BookTypeOK
  <2>3. p \notin Book(s)'
    BY <1>1, <2>1 DEF Book, BookTypeOK
  <2>4. phase' = "feed"
    BY <1>1, <1>3 DEF DeleteBest, DeleteBehind, Unlink
  <2>5. Book("Buy")' # {}
    BY <2>4 DEF BookInv, Stage
  <2> QED
    BY <2>1, <2>2, <2>3, <2>5 DEF Sides
<1>4. CASE \E v \in VolsOf(s) : InsertBest(s, p, v)
  <2>1. is_bba_upd' = TRUE /\ head' = [head EXCEPT ![s] = p] /\ Ahead(s, p, head[s])
    BY <1>4 DEF InsertBest
  <2>2. p # head[s]
    BY <2>1 DEF Ahead, Prices
  <2>3. Book("Sell") # {}
    BY <1>2, <1>4
  <2> QED
    BY <1>1, <2>1, <2>2, <2>3 DEF BookTypeOK, Sides
<1>5. CASE DeleteBest(s, p)
  <2>1. is_bba_upd' = TRUE /\ p = head[s] /\ s \in Sides
    BY <1>5 DEF DeleteBest
  <2>2. head'[s] \in Book(s)'
    BY <1>3, <1>5 DEF BookInv, SideRight, Chain, Foremost
  <2> QED
    BY <1>3, <1>5, <2>1, <2>2 DEF Sides
<1>6. ASSUME head' = head, \A t \in Sides : vol'[t][head[t]] = vol[t][head[t]]
      PROVE  Current' = Current
  BY <1>6 DEF Current, get_vol_ratio, best_vol, Sides
<1>7. CASE \E v \in VolsOf(s) : InsertBehind(s, p, v)
  <2>1. PICK v \in VolsOf(s) : InsertBehind(s, p, v)
    BY <1>7
  <2>2. is_bba_upd' = FALSE /\ head' = head /\ vol' = [vol EXCEPT ![s][p] = v]
    BY <2>1 DEF InsertBehind, Link
  <2>3. Book("Sell") # {} /\ p \notin Book(s)
    BY <1>2, <2>1
  <2>4. ASSUME NEW t \in Sides PROVE head[t] \in Book(t)
    <3>1. Book(t) # {}
      BY <1>1, <2>3 DEF Sides
    <3> QED
      BY <3>1, HeadBest
  <2>5. \A t \in Sides : vol'[t][head[t]] = vol[t][head[t]]
    BY <1>1, <2>2, <2>3, <2>4 DEF BookTypeOK
  <2> QED
    BY <1>6, <2>2, <2>3, <2>5
<1>8. CASE DeleteBehind(s, p)
  BY <1>3, <1>6, <1>8 DEF DeleteBehind
<1> QED
  BY <1>4, <1>5, <1>7, <1>8

\* Where the feed has not started or there is no ask, nothing is said of book.
LEMMA MessageStep ==
  ASSUME BookInv, BookInv', KillInv, TypeOK, MessageInv, [Next]_vars
  PROVE  MessageInv'
<1>1. CASE Snapshot
  <2>1. phase' \in Sides \cup {"start"} /\ msg' = msg /\ entries' = entries /\ phase \in Sides
    BY <1>1 DEF Snapshot, SnapshotDone, SnapshotInsert, Sides
  <2> QED
    BY <2>1 DEF MessageInv, Sides
<1>2. CASE InitTrading
  <2>1. phase' = "feed" /\ msg' = "none" /\ entries' = 0 /\ book' = Current
        /\ UNCHANGED <<head, vol>>
    BY <1>2 DEF InitTrading, MessageInv, Current, links
  <2>2. Current' = Current
    BY <2>1 DEF Current, get_vol_ratio, best_vol
  <2> QED
    BY <2>1, <2>2 DEF MessageInv, Sides
<1>3. CASE EndMessage
  <2>1. phase' = "feed" /\ phase = "feed" /\ msg' = "none" /\ entries' = 0
        /\ head' = head /\ vol' = vol /\ is_set' = is_set
    BY <1>3 DEF EndMessage, bookVars, links
  <2>2. Current' = Current /\ Book("Sell")' = Book("Sell")
    BY <2>1 DEF Current, get_vol_ratio, best_vol, Book
  <2>3. Book("Sell") # {} => book' = Current
    BY <1>3, <2>1, BestVolume DEF EndMessage, Current, KillInv
  <2> QED
    BY <2>1, <2>2, <2>3 DEF MessageInv, Sides
<1>4. CASE DivideByZero
  BY <1>4 DEF DivideByZero, Crash, MessageInv, Sides
<1>5. ASSUME NEW kind \in {"insert", "delete", "update"}, Entry(kind)
      PROVE  /\ phase = "feed" /\ msg' = kind /\ entries' = entries + 1 /\ book' = book
             /\ msg \in {"none", kind} /\ entries' # 0 /\ (entries' = 1 => msg = "none")
  <2>1. /\ phase = "feed" /\ msg' = kind /\ entries' = entries + 1 /\ book' = book
        /\ msg \in {"none", kind} /\ entries \in Nat
    BY <1>5 DEF Entry, TypeOK, ghostVars
  <2>2. entries' # 0 /\ (entries' = 1 => entries = 0)
    BY <2>1
  <2> QED
    BY <2>1, <2>2 DEF MessageInv
<1>6. ASSUME NEW s \in Sides, NEW p \in Prices, NEW kind \in {"insert", "delete"}, Entry(kind),
             InsertCrash(s, p) \/ DeleteCrash(s, p)
      PROVE  MessageInv'
  <2>1. phase' = "killed"
    BY <1>6 DEF InsertCrash, DeleteCrash, Crash
  <2> QED
    BY <1>5, <1>6, <2>1 DEF MessageInv, Sides
<1>7. ASSUME NEW s \in Sides, NEW p \in Prices, Entry("update"),
             \E v \in VolsOf(s) : Update(s, p, v)
      PROVE  MessageInv'
  <2>1. head' = head /\ Book("Sell")' = Book("Sell") /\ phase' = phase
    BY <1>7 DEF Update, links, Book
  <2>2. phase = "feed" /\ msg' = "update" /\ msg \in {"none", "update"} /\ entries' # 0 /\ book' = book
    BY <1>5, <1>7
  <2>3. Book("Sell") # {} => ~Moved
    BY <2>2 DEF MessageInv, Moved, Current
  <2>4. Moved' = Moved
    BY <2>1, <2>2 DEF Moved
  <2> QED
    BY <2>1, <2>2, <2>3, <2>4 DEF MessageInv, Sides
<1>8. ASSUME NEW s \in Sides, NEW p \in Prices, NEW kind \in {"insert", "delete"}, Entry(kind),
             (\E v \in VolsOf(s) : InsertBest(s, p, v) \/ InsertBehind(s, p, v))
               \/ DeleteBest(s, p) \/ DeleteBehind(s, p)
      PROVE  MessageInv'
  <2>1. phase = "feed" /\ msg' = kind /\ entries' # 0 /\ book' = book /\ (entries' = 1 => msg = "none")
    BY <1>5, <1>8
  <2>2. phase' = "feed"
    BY <1>8, <2>1 DEF InsertBest, InsertBehind, Link, DeleteBest, DeleteBehind, Unlink
  <2>3. ASSUME Book("Sell")' # {}, entries' = 1
        PROVE  IF is_bba_upd' THEN Moved' ELSE book' = Current'
    <3>1. /\ Book("Sell") # {}
          /\ IF is_bba_upd' THEN head'["Buy"] # head["Buy"] \/ head'["Sell"] # head["Sell"]
                            ELSE head' = head /\ Current' = Current
      BY <1>8, <2>3, EntryTells
    <3>2. book = Current
      BY <2>1, <2>3, <3>1 DEF MessageInv
    <3>3. book.bid = head["Buy"] /\ book.ask = head["Sell"]
      BY <3>2 DEF Current
    <3> QED
      BY <2>1, <3>1, <3>2, <3>3 DEF Moved
  <2> QED
    BY <2>1, <2>2, <2>3 DEF MessageInv, Sides
<1>9. CASE HandleEntry
  BY <1>6, <1>7, <1>8, <1>9 DEF HandleEntry, Insert, Delete
<1>10. CASE UNCHANGED vars
  BY <1>10 DEF vars, bookVars, links, ghostVars, MessageInv, Current, Moved, get_vol_ratio,
               best_vol, Book
<1> QED
  BY <1>1, <1>2, <1>3, <1>4, <1>9, <1>10 DEF Next

\* What the end of a message does is one of the things that BookFeed has.
LEMMA EndShows ==
  ASSUME BookInv, KillInv, TypeOK, TypeOK', MessageInv, EndMessage
  PROVE  Feed!Next
<1> DEFINE looked    == msg = "update" \/ is_bba_upd
           signalled == msg # "update" /\ is_bba_upd
<1>1. /\ phase = "feed" /\ msg # "none" /\ batch' = (entries > 1)
      /\ looked => best_vol("Sell") # 0
      /\ vol_ratio' = IF looked THEN get_vol_ratio ELSE vol_ratio
      /\ targ' = IF signalled THEN TargetsOf(head["Buy"], head["Sell"], vol_ratio) ELSE targ
      /\ book' = IF best_vol("Sell") = 0 THEN book ELSE Current
  BY DEF EndMessage, Current
<1>2. book' \in [bid : Index, ask : Index, ratio : Nat] /\ batch' \in BOOLEAN
  BY DEF TypeOK
<1>3. best_vol("Sell") # 0 => Book("Sell") # {}
  BY <1>1, BestVolume DEF KillInv
<1>4. batch' \/ entries = 1
  <2>1. entries \in Nat /\ entries # 0
    BY <1>1 DEF TypeOK, MessageInv
  <2>2. entries > 1 \/ entries = 1
    BY <2>1
  <2> QED
    BY <1>1, <2>2
<1>5. CASE best_vol("Sell") = 0
  <2>1. book' = book /\ vol_ratio' = vol_ratio /\ targ' = targ
    BY <1>1, <1>5
  <2> QED
    BY <1>2, <2>1 DEF Feed!Next, Feed!OnOther, Feed!SameBest
<1>6. CASE best_vol("Sell") # 0 /\ signalled
  <2>1. /\ book' = Current /\ vol_ratio' = book'.ratio
        /\ book'.bid = head["Buy"] /\ book'.ask = head["Sell"]
        /\ targ' = TargetsOf(head["Buy"], head["Sell"], vol_ratio)
    BY <1>1, <1>6 DEF Current
  <2>2. targ' = Feed!TargetsOf(book'.bid, book'.ask, vol_ratio)
    BY <2>1, SameTargets
  <2>3. entries = 1 => Moved
    BY <1>1, <1>3, <1>6 DEF MessageInv, TypeOK
  <2>4. batch' \/ ~Feed!SameBest
    BY <1>4, <2>1, <2>3 DEF Moved, Feed!SameBest
  <2> QED
    BY <1>2, <2>1, <2>2, <2>4 DEF Feed!Next, Feed!OnBestPrice
<1>7. CASE best_vol("Sell") # 0 /\ msg = "update"
  <2>1. book' = Current /\ vol_ratio' = book'.ratio /\ targ' = targ
        /\ book'.bid = head["Buy"] /\ book'.ask = head["Sell"]
    BY <1>1, <1>7 DEF Current
  <2>2. ~Moved
    BY <1>1, <1>3, <1>7 DEF MessageInv
  <2>3. Feed!SameBest
    BY <2>1, <2>2 DEF Moved, Feed!SameBest
  <2> QED
    BY <1>2, <2>1, <2>3 DEF Feed!Next, Feed!OnVolume
<1>8. CASE best_vol("Sell") # 0 /\ ~looked
  <2>1. book' = Current /\ vol_ratio' = vol_ratio /\ targ' = targ
    BY <1>1, <1>8
  <2>2. entries = 1 => book = Current
    BY <1>1, <1>3, <1>8 DEF MessageInv, TypeOK
  <2>3. CASE batch'
    BY <1>2, <2>1, <2>3 DEF Feed!Next, Feed!OnEarlierEntry
  <2>4. CASE entries = 1
    BY <1>2, <2>1, <2>2, <2>4 DEF Feed!Next, Feed!OnOther, Feed!SameBest
  <2> QED
    BY <1>4, <2>3, <2>4
<1> QED
  BY <1>5, <1>6, <1>7, <1>8

\* If the exchange lists no ask without volume, what the trading model takes
\* from the book is what the book does: a message of one entry that moves a best
\* price moves the targets, any other leaves them alone, and only a batch can
\* hide a move (OrderBookStream.hpp:78-151).
THEOREM FeedImplemented == ASSUME AsksPositive PROVE Spec => ImplementsFeed
<1> DEFINE Inv == BookInv /\ KillInv /\ TypeOK /\ MessageInv
           Shows == phase = "feed" => Feed!Next \/ UNCHANGED <<book, batch, vol_ratio, targ>>
<1>1. Init => Inv
  <2> SUFFICES ASSUME Init PROVE Inv
    OBVIOUS
  <2>1. phase = "Buy" /\ msg = "none" /\ entries = 0
    BY DEF Init, BookInit
  <2> QED
    BY <2>1, InitBook, InitKill, InitTypes DEF Init, MessageInv
<1>2. Inv /\ [Next]_vars => Inv'
  BY BookInvNext, KillStep, TypeStep, MessageStep
<1>3. Inv /\ Inv' /\ [Next]_vars => [Shows]_vars
  <2> SUFFICES ASSUME Inv, Inv', Next PROVE Shows
    OBVIOUS
  <2>1. CASE Snapshot \/ InitTrading
    BY <2>1 DEF Snapshot, SnapshotDone, SnapshotInsert, InitTrading, Sides
  <2>2. CASE HandleEntry \/ DivideByZero
    BY <2>2 DEF HandleEntry, Entry, DivideByZero, ghostVars, tradeVars
  <2>3. CASE EndMessage
    BY <2>3, EndShows
  <2> QED
    BY <2>1, <2>2, <2>3 DEF Next
<1> QED
  BY <1>1, <1>2, <1>3, PTL DEF Spec, ImplementsFeed
=============================================================================
