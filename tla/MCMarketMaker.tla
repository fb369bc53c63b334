--------------------------- MODULE MCMarketMaker ---------------------------
(* Instances of MarketMaker for TLC.                                       *)
EXTENDS TradeHistory

\* What x86 machines make of an infinite double; a configuration holds no
\* negative number.
LeastInt == MinInt

\* Where nothing depends on the prices.
OneBook == {[bid |-> 10, ask |-> 11, ratio |-> 1]}

\* Either best price moves alone, with room inside the spread.
WideBooks == [bid : {10, 11}, ask : {15, 16}, ratio : {1}]

\* Spreads of one to three ticks, every class of the volume quotient, and two books
\* that differ in the quotient alone.
ManyBooks == {[bid |-> 10, ask |-> 11, ratio |-> 1], [bid |-> 10, ask |-> 12, ratio |-> 0],
              [bid |-> 10, ask |-> 12, ratio |-> 2], [bid |-> 11, ask |-> 14, ratio |-> 1]}
=============================================================================
