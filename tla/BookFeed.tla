------------------------------ MODULE BookFeed ------------------------------
(***************************************************************************)
(* What the trading model knows of the order book: after each message of   *)
(* the feed there is a best price on either side and a quotient of their   *)
(* volumes, and the program does one of three things about it.  Module     *)
(* OrderBookStream takes these three as its input.                         *)
(***************************************************************************)
EXTENDS Pricing

CONSTANT Books  \* [bid, ask, ratio] records

VARIABLES book,       \* the book after the last message
          batch,      \* the last message had several entries
          vol_ratio,  \* the quotient as the program has stored it
          targ        \* the target prices

Init == /\ book \in Books
        /\ batch = FALSE
        /\ vol_ratio = book.ratio
        /\ targ = TargetsOf(book.bid, book.ask, vol_ratio)

SameBest == book'.bid = book.bid /\ book'.ask = book.ask

\* The targets follow the best prices, by the quotient of the message before.
OnBestPrice == /\ batch' \/ ~SameBest
               /\ vol_ratio' = book'.ratio
               /\ targ' = TargetsOf(book'.bid, book'.ask, vol_ratio)

\* An entry that was not the last has moved a best price, and nobody noticed.
OnEarlierEntry == batch' /\ UNCHANGED <<vol_ratio, targ>>

\* Nothing that the program looks at has changed.
OnOther == SameBest /\ UNCHANGED <<vol_ratio, targ>> /\ book' = book

OnVolume == SameBest /\ vol_ratio' = book'.ratio /\ UNCHANGED targ

Next == /\ book' \in Books /\ batch' \in BOOLEAN
        /\ OnBestPrice \/ OnEarlierEntry \/ OnOther \/ OnVolume

Spec == Init /\ [][Next]_<<book, batch, vol_ratio, targ>>
=============================================================================
