------------------------------ MODULE Pruning ------------------------------
(***************************************************************************)
(* How the minifiers of simdjson.cpp drop the masked bytes of a block: by  *)
(* tables that cover a row of lanes each, two rows to a vector, and stores *)
(* of whole vectors that overlap.  The haswell kernel takes four rows at a *)
(* time and stores them as two vectors, so the three kernels store alike.  *)
(* A lane is named by its place in the block, and a byte by its lane.      *)
(***************************************************************************)
EXTENDS Integers, Sequences, FiniteSets, SequencesExt

CONSTANT Row  \* the lanes of a row: 8 in the code

ASSUME RowAssumption == Row \in Nat \ {0}

Zeroed == -1  \* a byte that a shuffle sets to zero

InRow(r) == r * Row..r * Row + Row - 1

count_ones(mask) == Cardinality(mask)

\* thintable_epi8: the lanes of a row that are kept, then the first lane again.
thintable(mask, r) ==
  LET kept == SelectSeq([n \in 1..Row |-> r * Row + n - 1], LAMBDA i : i \notin mask)
  IN  kept \o [n \in 1..Row - Len(kept) |-> r * Row]

\* The rows of pshufb_combine_table: the first row of a vector without its last
\* pop bytes, the second row, and zeros.
pshufb_combine(pop) ==
  [n \in 1..2 * Row |-> IF n <= Row - pop THEN n ELSE IF n + pop <= 2 * Row THEN n + pop
                        ELSE Zeroed]

nearly_pruned(mask, v) == thintable(mask, 2 * v) \o thintable(mask, 2 * v + 1)

\* The bytes of a vector in the order of a row of pshufb_combine_table.
Combined(pruned, compactmask) ==
  [n \in 1..2 * Row |-> IF compactmask[n] = Zeroed THEN Zeroed ELSE pruned[compactmask[n]]]

\* Mutated compress: the rows are put together by the count of the second one.
compress_by_second(mask, v) ==
  Combined(nearly_pruned(mask, v), pshufb_combine(count_ones(mask \cap InRow(2 * v + 1))))

\* The vector stored for vector v of the block.
compress(mask, v) ==
  Combined(nearly_pruned(mask, v), pshufb_combine(count_ones(mask \cap InRow(2 * v))))

\* Where it is stored, from the start of the output.
StoredAt(mask, v) == 2 * Row * v - count_ones(mask \cap 0..2 * Row * v - 1)

\* The output after the first vectors of a block have been stored.
CompressBlock(mask, vectors) ==
  FoldLeft(LAMBDA out, v :
             SubSeq(out, 1, StoredAt(mask, v - 1)) \o compress(mask, v - 1),
           <<>>, [v \in 1..vectors |-> v])
=============================================================================
