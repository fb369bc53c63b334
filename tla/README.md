# A verification project for Bitmex-Market-Maker

TLA+ modules of the market maker in `src/bitmex_mm` and of the JSON parser it
is built with (`src/simdjson.h`, `src/simdjson.cpp`), TLC configurations that
check them on small instances, and TLAPS proofs for every instance. Line
numbers refer to `src/bitmex_mm/` unless a path is given. `PROJECT.json` maps
each definition to the lines it stands for.

## 1. The system

One process, three threads, one order book, four orders, and a parser that
every message from the exchange goes through.

| Part | State it keeps | Operations |
|---|---|---|
| Semaphore (`Semaphore.hpp`) | a mutex, a condition variable, the flag `can_mod` | `_get_lock`, `_try_lock`, `_unlock` |
| Order book (`OrderBook.hpp`) | per side an array of levels, one per price, those in use linked from best to worst; `head` | `ob_snapshot_insert`, `ob_insert`, `ob_delete`, `ob_update`, `best_price`, `best_vol` |
| Order book stream (`OrderBookStream.hpp`, `TradeLogic.hpp`): thread *obs* | the book, `is_bba_upd`, `vol_ratio`, the target prices | read the snapshot, place the two first offers, then for each message change the book, recompute the targets, amend open orders |
| Order update stream (`OrderUpdateStream.hpp`): thread *ous* | open flags, identifiers, volumes | for each execution send or amend the opposite order, for each cancellation send the order again |
| REST thread (`REST_Sync.hpp`): thread *rest* | messages sent this second and this minute | take one message from each queue, send it, wait for the reply |
| Shared state (`TradeLogic.hpp:12-54`, `BitMEXMarketMaker.hpp`) | atomics `targ_*`, `curr_*`, `*_vol`, `*_open`, `*_clOrdID`, `clOrdID_count`; `new_order_q`, `upd_order_q` | each stream thread reads what the other writes |
| Exchange (external) | orders, position | accept or refuse requests, execute, cancel, tell the order channel |
| JSON parser (`simdjson.*`) | the buffers and capacities of a parser; what stage 1 carries from block to block; the scopes open in stage 2; the tape; iterators on it; batches of a stream; the chosen kernel; padded strings | `parse`, `load`, `parse_many`, `allocate`, the two stages, the scalar parsers, element look-ups, iterators, printing, minifying, kernel detection |

There are four *slots*: the two offers (`bid`, `ask`), and two *position
orders* (`bid_posn`, `ask_posn`) which close what the opposite offer has
filled. Both stream threads queue order messages under the semaphore; the REST
thread holds it for a whole pass of its loop, replies included. Prices, flags
and identifiers are atomics that no lock protects. Each stream thread has a
parser of its own and uses it for one message after another
(OrderBookStream.hpp:78-151, OrderUpdateStream.hpp:229-298).

What is hard about it:

* **Interleaving.** `curr = targ.load()` is a load and a store; a message is
  built from the target before the semaphore is asked for; `clOrdID_count` is
  counted up by two threads, one of which reads it back with a second access.
* **Ordering.** There are two queues and a pass takes one message of each, so
  an amendment can overtake the order it amends.
* **Failure.** A reply is printed and not looked at. Executions and
  cancellations come from outside, at any moment, also of orders that are not
  the program's own. Allocations of the parser may fail one by one.
* **Limits.** The message counters are compared with `==` and grow by two.
  The parser writes its buffers without a check.
* **Data structure.** Links are rewritten by pointer arithmetic multiplied with
  a switch, and the two sides differ behind their worst level.
* **Carried state.** Stage 1 sees 64 bytes at a time: backslashes, open strings,
  tokens and characters may all lie across a border. Stage 2 sees one byte of
  each token and a stack. A stream cuts its text anywhere.
* **Liveness.** The REST thread takes and gives back the semaphore in a tight
  loop; `notify_one` comes after the mutex is given back, and a thread that
  comes in between takes the flag.

What makes each part correct:

* semaphore: one thread at a time, no lost wake-up, somebody always gets in;
* book: it is a map of prices, its head is the best, and the returned switch
  says exactly when that has changed; the program is killed where it must be
  and nowhere else;
* messages of the book: what trading reads after each is the best prices and
  their quotient, and the targets follow them as trading assumes;
* trading: identifiers are unique; a slot has at most one order; flag, current
  price and target agree with the exchange when all is handled; quotes do not
  cross and follow the book; the position is hedged and bounded by one offer;
  fills are handled;
* REST thread: queue order, nothing lost or sent twice, the limits kept,
  everything sent some day;
* parser: the tokens stage 1 finds, the texts stage 2 accepts, the values on the
  tape and those the readers give back are the ones JSON says; no buffer is
  overrun; a stream gives each document once; a call runs in a kernel the host has.

## 2. The modules

### The market maker

```
ExclusiveLock  <--- implemented by ---  Semaphore        <- SemaphoreProofs
     ^ used by
Pricing <- TradeVariables <- OrderBookStream ---.
      ^          ^        <- OrderUpdateStream -+-> MarketMaker <- TradeHistory <- MCMarketMaker
      |          |        <- RestSync ----------+                      ^
      |          |               ^  Exchange ---'                      |
      |          |               |  OrderChannel   MarketMakerProofs --' <- SlotsProofs
      |          `---------- RestService
      |  \                       ^- RestProofs
      |   PricingProofs <-------------------------------.
      |                                                  \
  BookFeed    <--- implemented by ---  BookMessages <- BookProofs
  PriceLevels <--- implemented by ---  OrderBook    <-'     (BookMessages EXTENDS OrderBook, Pricing)
```

**Semaphore.** `mutex` is the owner of the `std::mutex`, `can_mod` the flag,
`pc[t]` where a thread is. An action ends where another thread can run: taking
the mutex, the work while it is owned, the notification, which comes after.
Sleeping gives the mutex back in the same step, as `wait` does. Spurious
wake-ups are allowed always. `ExclusiveLock` is the abstract specification, one
variable `holder` with `Acquire` and `Release`; the refinement mapping takes as
holder the thread that was let in and has not reopened. All other modules use
`ExclusiveLock`, which the proof justifies.

**TradeVariables** declares what the threads share. Fields that exist once for
each order are functions of the slot, so each of the four near-identical
handlers of the source is modelled once, for a slot. Prices are in ticks of half
a dollar, volumes in contracts; a message keeps identifier, slot, price and
volume, of which the slot stands for side and reason. Text is left out.

**Pricing** is the arithmetic: `bitwise_non_zero` and its companions with the
width of an `int`, the integer division, and the list of stores that
`update_targ_prices` makes.

**OrderBook** is both sides from snapshot to feed. Level pointers are indices into the
array, `Null`, or `Blank`, the level a snapshot starts with. A head that moves
by twice the price difference is the parent's index, as an index is two times a price.
The insertion's scan is the first level in use ahead of the new one. A null pointer that is
followed, or a scan past the array, kills the program. **PriceLevels** is what a reader is promised.

**BookMessages** puts the messages of the feed over it: a message inserts, deletes or
updates and has several entries; the best prices are looked at after the last one,
and only if that one says it has moved one; then come the targets, by the *old*
quotient, and then the new quotient, whose divisor may be no volume at all.
**BookFeed** is what the trading model takes from all that: one of three things
happens to targets and quotient. `ImplementsFeed` shows that it is no more than that.

**OrderBookStream.** The book is reduced to what `BookFeed` promises: best bid,
best ask and the integer quotient of their volumes. `update_targ_prices` is a list of
stores done one at a time, for the other thread can read between them.
`check_*_upd` multiplies the price difference with the flag, two loads in an
order the compiler chooses: `CompareSlot` and `LoadOpen` come in either order,
and the first zero settles it. `init_bid_order` and `init_ask_order` are split
at each access to the shared counter. The spread condition is in ticks, and
`(int)(1 / 0.0)` is taken as not zero, which it is on the machines the program
builds for (on x86 it is `INT_MIN`, whose negation overflows back to itself).

**OrderUpdateStream.** One action for each point at which the order book thread
can get between: the stores up to the identifier (`OnFill`, `OnCancelled`), the
message (`BuildNewOrder`), the push and second load of the target under the
semaphore (`PushOpposite`), the stores after it (`RaiseOpen`).

**RestSync** is the loop of the REST thread. In `MarketMaker` each request comes with
what the exchange does with it (`SendStep`), in the step that takes it off
the queue, while the semaphore is held. `RestService` runs the same loop alone
with a clock and a load of numbered messages.

**Exchange**, **OrderChannel** are external, modelled from the requests made and the
fields read: the exchange refuses an identifier that is used, refuses to amend what is not
live or a volume that is filled already, executes live orders in parts or
as a whole, cancels (the orders are `ParticipateDoNotInitiate`), and tells it all in
order. With `Losses` it may refuse any new order in the reply alone.

**MarketMaker** composes the threads and the exchange, and states what can be said of a
moment. **TradeHistory** adds four variables that record what has happened, and constrain
no step: `hidden`, a best price was moved by an entry that was not its message's last, and the
targets were not computed since; `unchecked`, the slots that the order update thread has
opened since the last message that checks them was read; `first_ask`, the identifier in the
message of the first ask; `astray`, a volume was lost sight of. With them a property says
precisely when the code keeps a promise, in runs that have all of the steps that break it.
`astray` becomes true at three moments: an amendment is built for an order that has been executed
to that volume already, or is over; it is sent to one; an order executed in part is cancelled,
and is sent again with its whole volume.

### The parser

```
JsonBytes <- Utf8Lookup <- StructuralIndexer --.
          <- StructuralScanner <----------------+- TextScanning <- DocumentStream --.
                 ^- StringParsing, NumberParsing, AtomParsing ----------------------+
          Pruning, ParserMemory, KernelChoice, PaddedStrings -----------------------+-> JsonTexts
                        ^------------^-------------^--- ParserProofs

ParserCallbacks <- TapeBuilder --------------------.
                <- DomReading <- TapeIterator ------+- Navigation <- JsonDocuments
                <- JsonGrammar --- DocumentProofs  (EXTENDS TapeBuilder, JsonGrammar)
```

`JsonTexts` is about bytes, `JsonDocuments` about tokens. In both, the input is chosen as
it is read, so that a behaviour is a text that grows, and TLC visits every text within
the bounds. What the parser does with a text is a definition (stage 1 and the
scalar parsers keep no state that others see) or an action (stage 2, streams,
iterators, buffers, kernels, strings).

* **JsonBytes**: the classes of bytes. **Utf8Lookup**: the three table look-ups of the
  vector kernels, from a byte and the three before it, across the border of a block.
* **StructuralIndexer**: a block at a time: escaped bytes by an addition with carry,
  strings by a running parity, tokens by what stands before them, and the indexes stored
  in bursts (`flatten_bits`, writes past the last one included). A mask is the set of its lanes.
* **StructuralScanner**: stage 1 and the minifier of the fallback kernel, byte by byte.
* **TextScanning**: what stage 1 promises, without blocks, and the texts it is held against.
* **StringParsing**: unescaping, a chunk copied at a time, with surrogate pairs, and
  `escape_json_string`. **NumberParsing**: integers, fractions, exponents, the words they
  overflow, and `compute_float_64` with its table of powers as the formula that makes
  it (all 634 rows of the code's tables follow that formula). **AtomParsing**: `true`, `false`, `null`.
* **Pruning**: the compression of a block by tables and overlapping stores.
* **DocumentStream**: `parse_many` with and without its thread: batches, the search for
  the last document of a batch, the trimming of a cut character, the join.
* **ParserMemory**: which buffers exist, and for which length, after any allocation
  that fails, any document or parser that is moved out. **PaddedStrings**: owners of
  buffers under construction, move, swap, failed load. **KernelChoice**: detection,
  forcing and assignment of a kernel by several threads.
* **ParserCallbacks**, **TapeBuilder**: stage 2. The labels of the code are the values of
  `label`, one action each; the callbacks write the tape, whose words keep type, value and
  count. Buffers keep what an earlier text has written.
* **JsonGrammar**: the grammar of JSON over tokens, as rules about the parts of a text, for
  the proofs only. A part is a value if it is in every set that the rules close.
* **DomReading**: elements, iterators of arrays and objects, look-ups, JSON pointers,
  the two printers. **TapeIterator**: `parser::Iterator`, every operation a function from an
  iterator to an answer and the iterator after it. **Navigation**: a client that walks with one.
* **JsonTexts**, **JsonDocuments**: the grammars, and the properties.

The parts that are the same code in several kernels are modelled once; where the kernels
differ (stage 1, chunks of strings, minifier) the property is about both kinds.

The definitions marked *Mutated*, anywhere, are mistakes, one for each property, that no
behaviour uses. Put in the place of the definition they follow, they make
TLC find the property violated.

### Atomicity

A step covers several accesses only where no thread can tell: a thread's
own fields, fields the other threads read only behind a flag or a location that
is not reached yet, and sections under the semaphore that load nothing another
thread stores outside of it. Where that fails, the step is split, as above.
Atomics are sequentially consistent, as the source uses them by default. In
`DocumentStream` the second thread's stage 1 is one step: between its start and its join it
writes only `parser_thread` and `stage1_is_ok_thread`, which the client reads after the join.

## 3. The runs

| Run | Properties | Shows |
|---|---|---|
| `semaphore` | MutualExclusion, NoLostWakeup, ImplementsLock, Progress | four threads, every call, spurious wake-ups |
| `order_book` | TypeOK, Linked, KilledWhenBare, ImplementsLevels, ImplementsFeed | both sides under messages of one or two entries, sides running empty: a map of prices with its best, and a feed as trading takes it |
| `orders` | TypeOK, SlotsRight, Hedged, ExposureBounded, FillsHandled | three executions, in parts or as a whole, and two cancellations against the program's own orders: flags tell the orders, the position is closed and stays small until a volume is lost sight of, every fill is handled unless the semaphore is never given to the thread that waits |
| `quotes` | QuotesUncrossed, CurrTracksTarget, TargetsFollowPrices, DrawnOnce | two messages of one entry or several, all spreads and quotients, an execution as early as the first bid, requests refused in silence: both stream threads raise flags, load and store prices and draw identifiers |
| `rest` | TypeOK, SentInOrder, Drained | both queues under limits and clock |
| `json_texts` | IndexesRight, Utf8Checked, MinifyRight | stage 1 and the minifiers: both kinds of kernel find the tokens, the wrong characters and the same minified text |
| | StringsRight, NumbersRight, FloatNearest, AtomsRight | the scalar parsers against the grammar |
| | StreamedInOrder, StreamWhole | a stream gives the documents in order, without threads always and with them until a boundary misleads it; nothing is refused when batches are large enough |
| | NeverOverrun, KernelRight, PaddedOwned | no write behind a buffer that is there, a kernel the host can run, buffers with one owner |
| `json_documents` | GrammarKept, TapeRight, BuffersFit, TapeLinked | stage 2 accepts exactly the JSON texts, its tape reads back as the value, no buffer is overrun, the words that begin and end a scope lead to each other |
| | OnCourse, MovesRight, PointersRight | an iterator stays on words of the tape it may stand on, moves where it says, finds what a pointer names |

`SlotsRight` is two facts: one live order in a slot at most, and an order that
is open for the program is live at the exchange or on its way.

These runs end in a violation; each shows a disagreement of the code with its
documentation or comments (`PROJECT.json` has the quotations).

| Run | Property | What happens |
|---|---|---|
| `early_fill` | FreshIDs | the first bid fills before the first ask is placed; one identifier is given twice |
| `amend_first` | PriceAsBelieved | an amendment overtakes its order, is refused, and the price stays wrong |
| `hidden_move` | TargetsAlwaysFollow | a message of two entries moves a best price in the first and not in the last: the targets stay |
| `stream_again` | LargeBatchesInOrder | with a second thread and batches larger than any document, a document of the last batch begins where the batch before ended, and is given twice |
| `rest_limits` | WithinLimits | nine messages, a pass that sends two, and the limit of ten is passed by |

More ways in which the code disagrees with what is said of it, seen in these models and
without a run of their own:

* `Hedged` and `ExposureBounded` without `astray`: a position order is given the whole cumulative
  volume of its offer, also the part an earlier position order has closed, and an amendment that comes too
  late has no effect. README.md:18 of the repository has the program react "accordingly to filled orders".
* `CurrTracksTarget` without `unchecked`, with one execution and one message of the book: the target
  moves between its load and the store of the current price. The next message makes it good.
* `SlotsRight` with `Losses = TRUE` (README.md:23 of the repository names this as work to be done).
* `PriceAsBelieved` in a second way, with an execution instead of an amendment: the target moves between
  message and section.
* A parser without some of its buffers that parses nevertheless, against simdjson.h:3445, 3074, 3081,
  2755 and 2763; detection on every call, against simdjson.h:3753-3754 and 3971 and simdjson.cpp:485 and 508; `prev` over
  an array or object that is not the first element, against simdjson.h:4570-4574. Section 5 has them.

Two weaknesses are part of what the properties say, instead of being left out: the program is
killed by a message that deletes the worst bid or inserts one behind it, and when there
is no ask left (`KilledWhenBare` says that nothing else kills it); and the targets
follow the quotient of the message before (`BookFeed`).

### Bounds, and why they are enough

Market maker:

* `semaphore`: four threads, one more than the program has, so that two sleep
  while a third notifies and a fourth barges in. The proofs cover any number.
* `order_book`: five prices, one bid volume, two ask volumes, two entries to a message.
  A side can have a best, a middle and a worst level at once, and each can be inserted and
  deleted in any order, which are all the cases of the code. The volumes give the quotients
  0 and 2; a message of two entries is the shortest whose last one can hide the first.
* `orders`: three executions of an order of two contracts: an offer in two parts and an
  execution of the position order, before, between or after them; two cancellations,
  so that one can hit the order the other caused. The book stands still there.
* `quotes`: spreads of one to three ticks are the cases of
  `update_targ_prices`, 0, 1 and 2 those of the quotient, and two books differ in the quotient alone;
  two messages, so that the second starts from targets the first has left; one execution, at any
  moment from the first bid on, which is what it takes for the two threads to draw identifiers and
  touch a slot at once. A second message can find a slot opened during the first. The proofs cover
  any number of messages and executions.
* `stream_again`: the bounds of `json_texts` with the other kinds of text left out.
* `rest`: limits of two and three, so that both windows close and open again
  within five messages; a pass of two can step over either.
* `MaxFills`, `MaxCancels`, `MaxBookMsgs`, `NewMsgs`, `UpdMsgs` bound what the
  outside does. In `MarketMaker` the message limits are out of reach: `RestService` is about them.

Parser. Widths of the code are constants, scaled down so that borders are crossed within a
short text; a mistake at a border of the code's width is one at the model's.

| Constant | Code | Run | Because |
|---|---|---|---|
| `Lanes` (bytes of a block) | 64 | 4 | `MaxText = 6` gives a full block and a part; a run of backslashes, a string, an atom crosses the border at any lane. A character has four bytes at most, so four lanes are the least that hold one |
| `Burst` (indexes stored at once) | 8 | 2 | none, one or two bursts for a block, with indexes left over |
| `MaxUtf8` | | 5 | every character but the last whole, the last one at any byte across a block |
| `BytesProcessed` (chunk of a string) | 32 | 4, and 1 for the fallback | an escape lies before, across and behind a border |
| `WordBits`, `SignedDigits`, `SwarDigits` | 64, 18, 8 | 10, 2, 2 | a word holds three digits and not four, as 64 bits hold nineteen and not twenty; `MaxNumber = 7` |
| `MantissaBits`, `ExponentBias`, `ExactPower`, `LowestPower`, `LargestPower` | 53, 1023, 22, 325, 308 | 5, 24, 2, 4, 9 | the same relations: a mantissa in a word with room for rounding, exact powers below it; `FloatNearest` tries every word with every power |
| `ExponentLimit` | 2^32 | 100 | an exponent may be absurd within the length of a text |
| `Row` | 8 | 3 | the tables' size; `MaxRows = 4`, a block of two vectors |
| `MaxDepth`, `CountLimit`, `PrintDepth` | 1024, 2^24 - 1, 16 | 4, 2, 2 | the text's own scope and two more are open below the limit; a scope counts to the limit and past it; printing leaves its fixed arrays |
| `Unit`, `Padding` | 64, 32 | 8, 4 | capacities are rounded to `Unit`, a copy writes `Padding` past the end |
| `MaxTokens` | | 9 | the tokens of all texts of a parser together: one text of nine, or several after one another |
| `MaxDocuments`, `MaxBatch` | | 3, 17 | the longest document has eight bytes and a space; batches from one byte to more than two documents |
| `MaxLength`, `DefaultDepth` | , 1024 | 2, 2 | a buffer too small, as large as asked, larger |
| `Callers`, `PaddedNames`, `MaxPadded` | | 2, 3, 2 | a call on its way while another assigns; two strings and one moved between |

`NeverOverrun`, `BuffersFit` and `TapeLinked` are proved for every length and depth, `KernelRight` for
any number of callers, `PaddedOwned` for any number of strings.

### Assumptions

* `QuietStart`, in `orders` and the violations but `early_fill`: the exchange executes nothing before both
  first offers are queued. The code does nothing to ensure that; `early_fill` is what happens else, and
  `quotes` does without.
* The feed (`Insertable`, `Deletable`): prices inserted are not in the book,
  prices deleted or updated are, bids stay below asks,
  and the snapshot lists prices from high to low. A side may run empty.
* `Losses = FALSE`, in all runs but `quotes`: the exchange refuses no new order in the reply
  alone. The code does not read replies, and `SlotsRight` fails without this.
* The orders that are not the program's own (`OtherIDs`) have none of the identifiers the
  program hands out (`OthersApart`). The code asks nobody for that; it counts from one.
* The exchange lists no ask without volume (`AsksPositive`): a level without contracts is a
  deletion in its feed, and the divisor of the quotient is the best ask's volume.
* The trading model has a best price on either side all the time, which `BookMessages`
  shows up to the message that kills the program.
* A stream may be misled by a boundary (`stream.misled`, section 5), with a second thread or without. Without one,
  `StreamedInOrder` is claimed all the same; with one, until then, and `stream_again` shows what comes after.
  `StreamWhole` bounds when that can be.
* `Padding` is a multiple of four, and `Unit` two, three or four times that, as 32 and 64 are
  (`BufferAssumption`). A text that is an empty string would overrun its buffer without the former.
* A client of an iterator that has moved forward goes on that way; one that has copied it
  goes no deeper. One that calls `prev` where the elements before are not all as long as the first (`Strides`), or
  follows a pointer that leads nowhere, does what the code does and is not followed further.
  The facts below say what happens.
* Deadlock is checked in all runs but four. In `order_book` a killed program
  stops; in `json_texts` and `stream_again` a text ends at its bound, a stream at its end; in
  `json_documents` the tokens are used up. In trading the REST thread loops for ever.

### Fairness

* *Semaphore*: a thread inside runs on (weak), and one blocked on the mutex gets it
  if it is free again and again (strong: `std::mutex` promises less on paper, but the
  scheduler of the system starves nobody for ever). Nobody is made to
  call, nothing makes a spurious wake-up happen.
* *Trading*: weak fairness only. Each thread runs on while it has something to do, and enters a section
  if the semaphore stays free. Nothing makes a waiting thread get it from one that takes it back at once:
  `Progress` gives only that *somebody* gets in, and the REST thread gives the semaphore back and
  takes it again in a tight loop. So `FillsHandled` says that the order update thread comes to the end of its messages
  again and again, *or* waits for good although the semaphore is given back again and again. What it rules
  out is that anything else stops it: a semaphore never given back, a location nobody leaves. The
  exchange answers requests and owes no execution.
* *rest*: weak too, and time passes. Nobody else keeps the semaphore there, so the thread gets it.
* The parser has no liveness property: each call is a loop over its input. `StreamedInOrder`
  says instead that a stream that ends without an error has given everything.

## 4. What is proved

For every value of the constants, from the assumptions the modules name, checked by TLAPS:
any number of threads, prices, messages, executions and cancellations, and any bounds. Where a
theorem has a hypothesis of its own, it is one of section 3, it is named below, and it holds
in the run that checks the property; section 3 says how the property fails without it.

Semaphore and arithmetic:

* **MutualExclusionHolds, NoLostWakeupHolds, SemaphoreImplementsLock** (`SemaphoreProofs`).
  `MutualExclusion` is not inductive: nothing in it says that a raised flag
  means nobody is inside. `Inv` adds that the owner of the mutex is the
  one thread at an owning location, and that the flag is down exactly while a
  thread is let in. `NoLostWakeup` is inductive relative to it. The refinement
  has one lemma for the steps that enter (`EnterStep`), one for those that leave
  (`LeaveStep`), and one for the rest, in which `holder` stays (`QuietStep`, `SameHolder`).
* **NonZeroRight, OffersAside** (`PricingProofs`). The shift of `bitwise_non_zero` for
  every width, the least `int` included. From it, in volumes: the bid offer stands away from its position
  price exactly when the asks outweigh the bids, the ask offer exactly when the bids are *twice* the asks. The
  two sides differ because the quotient is an integer and its inverse is 1 or 0. What an infinite quotient
  converts to is a constant of which only is assumed that it is an `int` and not zero (`PricingAssumption`).

Trading:

* **TypesHold** (`MarketMakerProofs`). Types of all variables, that the locations at which a thread
  is about to queue a message have one, and that no order is filled beyond its volume.
  One lemma for each thread and for the exchange (`ObsType`, `OusType`, `RestType`,
  `PostType`, `PutType`, `ExchangeType`), each about the variables that party writes.
* **QuotesHold** (`MarketMakerProofs`). `QuotesUncrossed` speaks of the targets between two
  messages, when all stores are done; it says nothing while they are under way, so it is
  not inductive. `QuotesInv` says of the stores still to be done where they will leave each
  target, and that this place is uncrossed: true when a message puts the list there
  (lemmas about `TargetStores`, by cases of spread and quotient), kept by each store, and
  the property itself when the list is empty. No other thread stores a target.
* **TargetsHold** (`MarketMakerProofs`), of `HistorySpec`, messages of any number of entries. By the same argument:
  `FollowInv` says that the stores still to be done end where the best prices and the quotient of some
  book call for, or that a move is hidden.
* **TracksHold** (`MarketMakerProofs`), of `HistorySpec`, whatever is executed, cancelled or lost. `CurrTracksTarget`
  says nothing while targets move; `TrackInv` adds that an
  open order is at its target *or still on the list to be compared*, or in `unchecked`, and
  that all four are on the list while stores are under way. The step that matters is the one in which the other
  thread raises a flag: it stores a price loaded before, which may be old, and puts the slot in
  `unchecked`; the next message that is read takes out what it is going to compare.
* **DrawnOnceHolds** (`SlotsProofs`), of `HistorySpec`, from `0, 1` not among `OtherIDs`; with a start that is not quiet. Both
  threads may be between drawing an identifier and queuing it. `DrawnInv` says that the identifiers in use are
  counted already, that one the order update thread is about to use is in use only if it is the first ask's (`Drawn`),
  that until the first bid is queued that thread has nothing to draw one for (`Alone`), and that from then until the first
  ask is queued an identifier drawn last is nobody's (`Asks`).
* `IDInv` is the same for a quiet start, where it gives `FreshIDs`: every identifier
  in use is at most `clOrdID_count`; while a thread is
  between drawing an identifier and queuing its order, the last identifier drawn is
  not in use (`LastUnused`) and is the one it carries (`Pending`); and while the
  order book thread starts, the other one is idle with an empty channel
  (`Starts`). It is a part of the next invariant, and not a result of its own.
* **SlotsHold** (`SlotsProofs`), from `QuietStart`, `~Losses`, `OthersApart`; executions come in parts or as
  a whole. `SlotsRight` is silent about the way of an order between program and
  exchange, where everything can cross. `SlotsInv` follows an order: it waits in the queue, or is live at
  the exchange, or is dead there with its last message on the way (`Somewhere`), and all that time the
  flag of its slot is up, or about to be raised by the thread that holds the semaphore
  (`Placed`), and its identifier is the slot's (`QueuedRight`, `LiveRight`). `Told` says that a message
  is about the order its slot has now, and that no message about an order comes
  after its last one; this is what makes the flag go down for the right order. `OwnIDs` and `Counted`
  keep the four slots' identifiers and those of strangers apart.
REST thread:

* **RestTypesHold, SentInOrderHolds** (`RestProofs`). `SentInOrder` compares sequences; `RestInv` says it with
  places: what was sent is the first messages, and message *i* of a queue is the
  *i*-th after the last one sent (`Numbered`), which taking a head and appending at the end keep.

Order book:

* **LinkedHolds** (`BookProofs`). For any number of prices. `Linked` is not inductive: it does not say
  what the head is worth on an empty side, that there is a bid once the bids are read, or where
  the snapshot stands in its list. `BookInv` adds that (`Stage`). Each side by itself is a
  `Chain`; the lemmas `ChainFront`, `ChainBehind`, `ChainEnd`, `ChainDropHead`, `ChainDropBehind`
  say of a chain and the two or three links that change that it is a chain again, and one
  lemma for each action shows that it changes just these.
* **LevelsImplemented** (`BookProofs`). From `BookInv`, each step of the book is one of
  `PriceLevels` or shows nothing: the switch that an insertion or deletion returns is true exactly when the
  best price has moved. `PriceLevels` says nothing of a killed program, so this is about
  the book until then.
* **KilledHolds** (`BookProofs`), from `AsksPositive`. A level that is followed is missing only behind the worst bid:
  by `BookInv` all others have both links, and the scan of an insertion stops at the nearest level
  ahead (`ScanStops`, from a least element of a set of numbers, `LeastOf`), so it never leaves
  the array while there is one. `KillInv` adds that asks in use have a volume and the start of
  the array has none, so the division fails on a side without asks and nowhere else.
* **MessagesTyped, FeedImplemented** (`BookProofs`), from `AsksPositive`. `BookMessages` implements the feed that the
  trading model takes for it. `MessageInv` says that between messages the prices last looked at
  are the current ones; that an update moves no best price; and that after the
  first entry of a message the switch tells whether one has moved. With two
  entries the last one may hide the first, which is `OnEarlierEntry` of `BookFeed`. `EntryTells` is about an
  entry that inserts or deletes, `EndShows` about the end of a message.

Parser:

* **RoomHolds** (`ParserProofs`). For texts of any length and scopes of any depth, and every failure and move, `NeverOverrun`
  looks at a parser when it parses; `RoomInv` says of it at any time that each buffer is missing or as large
  as its capacity promises, and that a tape that is there is as long as the capacity. One lemma for each
  allocation, one for each action. That all buffers are there is not claimed, as it is not so.
* **KernelHolds** (`ParserProofs`). `KernelRight` looks at the kernel of a call; `ChoiceRight` says that a call for which the
  detector has chosen runs what `detect_best_supported` answers, and that is shown to be the first kernel of the build
  that fits the host (`LeastOf`).
* **PaddedHolds** (`ParserProofs`), for any finite set of strings. `Owned` says that pointers and buffers are
  one to one, sizes included, and that each buffer has an owner. Then there are no more buffers than
  strings, and one is free for the next allocation (`BufferLeft`); without that
  `FreshBuffer` might name one in use.
* **BuffersAlwaysFit** (`DocumentProofs`). `BuffersFit` compares what has been written with the buffers' sizes. It
  is not inductive, and counting a word for each byte is not enough: a key and a colon
  are one word, a comma none, a bracket one, a text of one token needs three words. `RoomRight` bounds the
  words by the bytes of the tokens read so far, label by label. The
  worst texts need a word more than the bytes and two; the parity in `Done` (bytes and depth together
  are even whenever that word is needed) shows that such a text has an odd number of bytes, and a capacity is a
  multiple of four (`RoundedUp`). Strings are bounded by five bytes for three of text, plus the padding that a copy
  writes past its end.
* **TapeAlwaysLinked** (`DocumentProofs`). `TapeLinked` is about the finished tape: the word that begins a scope
  holds the place behind its end, the word that ends it the place of its beginning, and scopes nest.
  `ScopesRight` says it of a tape that is being written: the beginnings on the tape are the open ones, one for
  each depth and in the order of depth (`OpenScopes`), and all others have their partner between them and the
  end of the tape (`ClosedScopes`). The words that an earlier text has left beyond
  `current_loc` are there, and the invariant never reads them.
* **BuilderKeepsOn** (`DocumentProofs`). The conjunction of both, with types and depth, one lemma for each of the
  labels' actions. The return address of each scope agrees with its bracket, which is
  what brings `scope_end` to the right label.
* **GrammarDecided** (`DocumentProofs`). For texts of any length, and below any depth limit. A text with which stage 2
  succeeds is JSON; one that it refuses is not, and of the texts that begin with the tokens read by then
  none is (`Hopeless`), unless the depth limit is reached. Soundness and completeness are both
  in this, as a refusal comes at the first token that is wrong. The argument has two parts.
  The grammar (`JsonGrammar`) is stated by rules, and what is derivable is in all pairs of sets closed under
  them, so that an induction on derivations is the choice of a pair of sets, with no recursive operator. Lemmas about it say how
  a value and the items of a scope were derived (`Derivations`), that the grammar is unambiguous (`Determined`), what the
  first item is (`FirstItem`), and which token can come after an item (`NextItem`, `NextContinue`).
  The invariant `TextInv` then says of each open bracket where its items have got to, and that
  every JSON text that begins like the one read has a value there (`Framed`, `Wanted`), and of each label what
  has been read and what is expected next (`InScope`, `TextRight`). One lemma for each kind of token shows that it is kept.
  `GrammarKept` says the same with a verdict computed by a recursive operator, which runs check and no proof can.

Only model-checked:

* `Progress`, `FillsHandled`, `Drained`: liveness under fairness is out of the prover's reach.
* `Hedged` and `ExposureBounded`: three executions and two cancellations, in every order.
* The texts, tapes and walks of the parser (`IndexesRight`, `Utf8Checked`, `MinifyRight`, `StringsRight`,
  `NumbersRight`, `FloatNearest`, `AtomsRight`, `StreamedInOrder`, `StreamWhole`, `TapeRight`,
  `OnCourse`, `MovesRight`, `PointersRight`). What a tape says, what a number is worth and what a text minifies to are
  recursive definitions over data, about which the prover cannot do induction, and
  modules with `RECURSIVE` operators cannot be used from a module with a theorem.
* `GrammarKept` for the same reason; its content is `GrammarDecided`. The run adds that the recursive verdict
  agrees with the program, so with the theorem, on all texts of nine tokens at most.
* `FreshIDs`, `PriceAsBelieved`, `TargetsAlwaysFollow`, `LargeBatchesInOrder`, `WithinLimits` are violated.

## 5. Facts about the parser

Seen while modelling, and part of the definitions; properties are stated so that they are true
of the code as it is. Line numbers in `src/`.

* *Grammar.* A float is taken without a look at the byte after it, an integer is not
  (`NumbersRight`). Half a surrogate pair is accepted (`StringsRight` claims nothing of
  it). `-0` with an exponent beyond 22 loses its sign. A byte glued to a closing quote belongs to
  the string token in the vector kernels, and is refused by the fallback; the fallback leaves a
  control character behind a backslash to stage 2. A character cut at the end of a full last block
  is not seen by stage 1 of the vector kernels. Texts of these kinds are told apart in `TextScanning`.
* *End of a text.* The virtual terminator of stage 2 is `buf[len]`, a NUL only
  because the program parses `std::string`s.
* *Iterator.* `prev` never looks at an element but the first: it strides by the length of that, and
  if it is a scope jumps behind it, again and again if that is not far enough, for ever (simdjson.h:6508-6525). Of
  `[true, null, {"a":1}, [1,2]]` simdjson.h:4570-4574 says that `prev` visits `]`, `}`, `null` and `true`; from the `}` the code goes
  to a word of `{"a":1}`. In `[[], 1, 2]` it never comes back from `2`. `MovesRight` claims `prev` where `Strides` holds. An unsigned number is one word to `prev` and to the
  pointer `-`. A `move_to` that fails puts back location and depth, and not the scopes
  recorded. After `move_forward`, `up` and `rewind` land one word early. `next` at the root steps
  onto the closing word. The limit of a copy is its own depth. `dump_raw_tape` answers false
  for every valid document. `relative_move_to` throws out of `std::stoi` for an index beyond an int.
  `escape_json_string` leaves the stream's fill character changed.
* *Streams.* The documentation promises that an empty input gives no documents and no error; the code gives
  `EMPTY` without threads and `UTF8_ERROR` with them. It asks for batches larger than the
  largest document; up to twice that may be needed. White space beyond a batch
  ends the stream with an error. `find_last_json_buf_idx` answers some index also when there is none, or one within
  a scalar (`misled = "cut"`). The last batch leaves `last_json_buffer_loc` as it was, and a
  document that begins there loads the same batch again, for ever (simdjson.h:6032-6036, `misled = "stale"`), even if
  each batch is larger than any document: `stream_again`.
* *Memory.* "Buffers are large enough to handle any document up to this length" (simdjson.h:3445) is not so when an
  allocation has failed: the capacity or the depth stands although the scopes, the strings of a document allocated anew
  or the file buffer are missing, and the next call writes to null. Nor is it when a parser was moved out: of it
  simdjson.h:3074 and 3081, and of a document 2755 and 2763, say that its "capacity is zeroed", but the numbers are
  copied and stand. `ParserMemory` has all of this; `NeverOverrun` claims that a buffer that is there has
  room, and that the tape is there, as `parse` asks for it anew. Release builds write to a padded buffer that was not allocated.
  The tape has room by its parity alone: the comment at simdjson.h:4833 speaks of `len` + 1 words, the allocation
  rounds `len` + 2 up to a multiple of 64, and a text such as `[7,7,7]` needs `len` + 3. Those texts
  all have an odd length, so the rounding gives the word that is missing.
* *Kernels.* There are two variables `active_implementation` (simdjson.cpp:515 and 595); detection
  stores in one, calls read the other. It is not "automatically initialized on first use to the most advanced implementation" (simdjson.h:3753-3754, 3971), and the
  detector that "detects best supported implementation on first use, and sets it" (simdjson.cpp:485, 508) sets nothing: every call detects
  again, and a change of the environment changes the kernel later too. `KernelChoice` has both variables. `KernelRight`
  claims what detection answers, and leaves out a kernel that the environment forces, which is not held against the host.
* *Padded strings.* A string moved from keeps its size, with a null pointer.

## 6. What is not modelled

* `REST.hpp`: no file includes it, and it calls functions that the semaphore does not have.
* `WebSocketSecure.hpp`, `Auth.hpp`: input and output, a keyed hash; no state of the
  program's own. The order channel stands for what the websocket delivers.
* The text of messages, logging, authentication and subscription; `get_order_vol` but for
  the volume zero, which an exchange refuses (`Losses`).
* The end of the process and its restart. A failed request throws out of the REST thread, an
  identifier that is no number throws out of `std::stoi`; both end the program. Nothing is
  stored, so that a restart is the initial state against an exchange that has the orders
  of the run before under the same small identifiers; the code does nothing about it, and
  nothing could be stated of it but that it goes wrong.
* Of `simdjson`: `double`s inside of documents (a document's numbers are the two kinds of
  words; floats are read in `json_texts`), the slow path behind `compute_float_64`
  (`strtod` of the C library), error messages, `dump`s in hexadecimal, the `noexcept` and exception
  variants of one and the same function, and everything generic that
  instruction sets have in hardware: a carry-less multiplication is the running parity it computes,
  a shuffle is its table.
* The documents' values are not carried over into `OrderBookStream`: which fields a
  message has is external (`OrderChannel`, the feed).

## 7. Plan

Done: the semaphore with its refinement; trading; the REST thread; the order book and the messages over
it with two refinements; the arithmetic; the parser. Every invariant that the runs of the market
maker check is proved but two, and of the parser those about buffers, tape links, kernels and strings, and that
stage 2 decides the grammar. Left, in this order:

1. `Hedged` and `ExposureBounded`: an invariant that reads the position off the slots, what is executed
   and not yet told included, until a volume is lost sight of.
2. The trading model over `BookMessages` itself in place of `BookFeed`; the composition
   is argued here by the refinement, and not stated as a theorem.
3. Of the tape, what it says: `TapeRight` as rules in the way of `JsonGrammar`, so that the values that
   are read back can be shown to be the text's without recursion.
4. Of stage 1, what needs no recursion: the table look-ups of `Utf8Lookup` for single bytes,
   the addition with carry that finds escaped bytes.
