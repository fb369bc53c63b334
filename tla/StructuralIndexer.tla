-------------------------- MODULE StructuralIndexer --------------------------
(***************************************************************************)
(* Stage 1 of the vector kernels of simdjson.cpp: where the tokens of a    *)
(* JSON text begin, found a block of Lanes bytes at a time, and the same   *)
(* masks used to drop the white space of a text.  A mask of a block is the *)
(* set of its lanes whose bit is set, and all that passes from one block   *)
(* to the next is in the record of the scanner.                            *)
(***************************************************************************)
EXTENDS Utf8Lookup, SequencesExt, FiniteSetsExt

CONSTANT Burst  \* the indexes that bit_indexer stores at once: 8 in the code

ASSUME BurstAssumption == Burst \in Nat \ {0}

-----------------------------------------------------------------------------
(***************************************************************************)
(* Masks as integers: a shift, and an addition with its carry.             *)
(***************************************************************************)
bit(flag) == IF flag THEN {0} ELSE {}

shl(mask) == {i + 1 : i \in mask} \cap Lane

\* The integer of a mask, and its lanes in order.
Value  == [mask \in SUBSET Lane |-> MapThenSumSet(LAMBDA i : 2^i, mask)]
Sorted == [mask \in SUBSET Lane |-> SetToSortSeq(mask, <)]

MaskOf(sum) == [result   |-> {i \in Lane : (sum \div 2^i) % 2 = 1},
                overflow |-> sum >= 2^Lanes]

add_overflow(mask1, mask2) == MaskOf(Value[mask1] + Value[mask2])

xor(mask1, mask2) == (mask1 \ mask2) \cup (mask2 \ mask1)

eq(in, byte) == {i \in Lane : in[i] = byte}

\* Every lane with an odd number of lanes of the mask up to itself.
prefix_xor(mask) == {i \in Lane : Cardinality({j \in mask : j <= i}) % 2 = 1}

follows(match, overflow) ==
  [result |-> shl(match) \cup bit(overflow), overflow |-> Lanes - 1 \in match]

-----------------------------------------------------------------------------
(***************************************************************************)
(* The blocks of a text.  A step reads two blocks in the haswell kernel    *)
(* and one in the others, and the last step is filled up with spaces.      *)
(***************************************************************************)
BlocksPerStep(kernel) == IF kernel = "haswell" THEN 2 ELSE 1

BlockCount(kernel, text) ==
  LET step == BlocksPerStep(kernel) * Lanes
  IN  BlocksPerStep(kernel) * ((Len(text) + step - 1) \div step)

Block(text, k) ==
  [i \in Lane |-> IF k * Lanes + i < Len(text) THEN text[k * Lanes + i + 1] ELSE Space]

OverBlocks(kernel, text, Read(_, _), start) ==
  FoldLeft(Read, start, [k \in 1..BlockCount(kernel, text) |-> k - 1])

-----------------------------------------------------------------------------
(***************************************************************************)
(* json_string_scanner and json_scanner.                                   *)
(***************************************************************************)
ScannerStart == [prev_in_string |-> FALSE, prev_escaped |-> FALSE, prev_scalar |-> FALSE]

EvenBits == {i \in Lane : i % 2 = 0}

\* The escaped lanes by where the runs of backslashes end.
Escaped(sequences, follows_escape) ==
  [escaped  |-> xor(EvenBits, shl(sequences.result)) \cap follows_escape,
   overflow |-> sequences.overflow]

\* Mutated find_escaped: a backslash that is itself escaped by the block
\* before counts as one that escapes.
find_escaped_forgetful(backslash, prev_escaped) ==
  LET follows_escape == shl(backslash) \cup bit(prev_escaped)
  IN  Escaped(add_overflow((backslash \ EvenBits) \ follows_escape, backslash), follows_escape)

\* The characters after an odd number of backslashes: a run that begins on an
\* odd lane is cleared by the carry of an addition.
find_escaped(backslash, prev_escaped) ==
  LET escapes        == backslash \ bit(prev_escaped)
      follows_escape == shl(escapes) \cup bit(prev_escaped)
  IN  Escaped(add_overflow((escapes \ EvenBits) \ follows_escape, escapes), follows_escape)

\* The masks of a block and the scanner after it.
Masks(in, class, escape, quote, in_string, prev_scalar) ==
  LET op             == {i \in Lane : in[i] \in class.op}
      whitespace     == {i \in Lane : in[i] \in class.whitespace}
      scalar         == Lane \ (op \cup whitespace)
      follows_scalar == follows(scalar, prev_scalar)
  IN  [structural_start |-> (op \cup (scalar \ follows_scalar.result)) \ xor(in_string, quote),
       whitespace       |-> whitespace \ in_string,
       unescaped        |-> {i \in Lane : in[i] <= 31} \cap in_string,
       scanner          |-> [prev_in_string |-> Lanes - 1 \in in_string,
                             prev_escaped   |-> escape.overflow,
                             prev_scalar    |-> follows_scalar.overflow]]

InString(quote, prev_in_string) ==
  IF prev_in_string THEN Lane \ prefix_xor(quote) ELSE prefix_xor(quote)

ScanQuotes(kernel, in, scanner, escape, quote) ==
  Masks(in, classify(kernel), escape, quote, InString(quote, scanner.prev_in_string),
        scanner.prev_scalar)

ScanEscapes(kernel, in, scanner, escape) ==
  ScanQuotes(kernel, in, scanner, escape, eq(in, Quote) \ escape.escaped)

ScanBlock(kernel, in, scanner) ==
  ScanEscapes(kernel, in, scanner, find_escaped(eq(in, Backslash), scanner.prev_escaped))

-----------------------------------------------------------------------------
(***************************************************************************)
(* bit_indexer: the indexes of a mask are stored Burst at a time, past the *)
(* last of them, and one by one from twice Burst on.                       *)
(***************************************************************************)
Stored(count) == CASE count = 0          -> 0
                   [] count \in 1..Burst -> Burst
                   [] OTHER              -> IF count <= 2 * Burst THEN 2 * Burst ELSE count

write(indexer, idx, bits) ==
  [tail |-> indexer.tail \o [n \in 1..Cardinality(bits) |-> idx + Sorted[bits][n]],
   high |-> Max({indexer.high, Len(indexer.tail) + Stored(Cardinality(bits))})]

(***************************************************************************)
(* json_structural_indexer::index.  Each block's structurals are written   *)
(* while the next block is read.  The parser's indexes are left alone when *)
(* the strings are wrong; a UTF-8 error is reported after they are in.     *)
(***************************************************************************)
IndexerStart ==
  [scanner |-> ScannerStart, checker |-> CheckerStart, prev_structurals |-> {},
   indexer |-> [tail |-> <<>>, high |-> 0], unescaped_chars_error |-> FALSE]

Indexed(s, idx, block, checker) ==
  [scanner |-> block.scanner,
   checker |-> checker,
   prev_structurals |-> block.structural_start,
   indexer |-> write(s.indexer, idx - Lanes, s.prev_structurals),
   unescaped_chars_error |-> s.unescaped_chars_error \/ block.unescaped # {}]

IndexBlock(kernel, in, s, idx) ==
  Indexed(s, idx, ScanBlock(kernel, in, s.scanner), check_next_input(kernel, in, s.checker))

\* What stage 1 answers, the indexes it leaves and how far it stored.
Answer(error, indexes, high) == [error |-> error, indexes |-> indexes, high |-> high]

Finished(text, s, streaming, last, n) ==
  LET ended == IF last.tail[n] = Len(text) THEN last.tail ELSE Append(last.tail, Len(text))
  IN  IF s.scanner.prev_in_string /\ ~streaming THEN Answer("UNCLOSED_STRING", <<>>, last.high)
      ELSE IF s.unescaped_chars_error THEN Answer("UNESCAPED_CHARS", <<>>, last.high)
      ELSE IF n = 0 THEN Answer("EMPTY", <<>>, last.high)
      ELSE IF last.tail[n] > Len(text) THEN Answer("UNEXPECTED_ERROR", <<>>, last.high)
      ELSE Answer(IF s.checker.error THEN "UTF8_ERROR" ELSE "SUCCESS",
                  ended, Max({last.high, Len(ended) + 1}))

FinishWith(text, s, streaming, last) == Finished(text, s, streaming, last, Len(last.tail))

FinishIndex(kernel, text, s, streaming) ==
  FinishWith(text, s, streaming,
             write(s.indexer, (BlockCount(kernel, text) - 1) * Lanes, s.prev_structurals))

Index(kernel, text, streaming) ==
  LET Read(s, k) == IndexBlock(kernel, Block(text, k), s, k * Lanes)
  IN  FinishIndex(kernel, text, OverBlocks(kernel, text, Read, IndexerStart), streaming)

\* The indexers that the other vector kernels compile from the same text.
WestmereIndex(text, streaming) == Index("westmere", text, streaming)
Arm64Index(text, streaming)    == Index("arm64", text, streaming)

\* The slots that parser::allocate gives the indexes of a text of this length.
IndexSlots(capacity) == ((capacity + Lanes - 1) \div Lanes) * Lanes + 2 + (Burst - 1)

-----------------------------------------------------------------------------
(***************************************************************************)
(* json_minifier: the bytes that are not white space between tokens.       *)
(***************************************************************************)
Kept(m, in, block) ==
  [scanner |-> block.scanner,
   dst     |-> m.dst \o [n \in DOMAIN Sorted[Lane \ block.whitespace] |->
                          in[Sorted[Lane \ block.whitespace][n]]]]

Minified(m) == IF m.scanner.prev_in_string THEN [error |-> "UNCLOSED_STRING", dst |-> <<>>]
                                           ELSE [error |-> "SUCCESS", dst |-> m.dst]

Minify(kernel, text) ==
  LET Read(m, k) == Kept(m, Block(text, k), ScanBlock(kernel, Block(text, k), m.scanner))
  IN  Minified(OverBlocks(kernel, text, Read, [scanner |-> ScannerStart, dst |-> <<>>]))

WestmereMinify(text) == Minify("westmere", text)
Arm64Minify(text)    == Minify("arm64", text)
=============================================================================
