----------------------------- MODULE JsonBytes -----------------------------
(***************************************************************************)
(* The bytes of a JSON text and the classes the parser of simdjson.cpp     *)
(* sorts them into, by the table look-ups of its vector kernels and by the *)
(* tables and switches of its scalar code.                                 *)
(***************************************************************************)
EXTENDS Integers, Sequences

Byte == 0..255

Quote      == 34
Comma      == 44
Colon      == 58
Backslash  == 92
OpenArray  == 91
CloseArray == 93
OpenObject == 123
CloseObject == 125
Space      == 32
SmallU     == 117

Operators   == {Comma, Colon, OpenArray, CloseArray, OpenObject, CloseObject}
Whitespaces == {9, 10, 13, Space}

\* The byte may follow a number or one of true, false and null.
is_structural_or_whitespace(b) == b \in Operators \cup Whitespaces

(***************************************************************************)
(* The x64 kernels.  _mm_shuffle_epi8 looks up the low four bits of a byte *)
(* and gives zero for a byte of 128 or more.                               *)
(***************************************************************************)
Shuffle(table, b) == IF b >= 128 THEN 0 ELSE table[(b % 16) + 1]

whitespace_table ==
  <<32, 100, 100, 100, 17, 100, 113, 2, 100, 9, 10, 112, 100, 13, 100, 100>>
op_table == <<44, 125, 0, 0, 192, 0, 0, 0, 0, 0, 0, 0, 0, 0, 58, 123>>

Or32(b) == IF (b \div 32) % 2 = 1 THEN b ELSE b + 32

(***************************************************************************)
(* The arm64 kernel.  Two tables give sets of bits for either half of a    *)
(* byte, and what both have says what the byte is.                         *)
(***************************************************************************)
shuf_lo == <<{4}, {}, {}, {}, {}, {}, {}, {}, {}, {3}, {2, 3}, {0}, {1}, {0, 3}, {}, {}>>
shuf_hi == <<{3}, {}, {1, 4}, {2}, {}, {0}, {}, {0}, {}, {}, {}, {0, 1}, {1}, {0}, {}, {}>>

ArmBits(b) == shuf_lo[(b % 16) + 1] \cap shuf_hi[(b \div 16) + 1]

Kernels == {"haswell", "westmere", "arm64"}

\* json_character_block::classify, for every byte.
ClassX64 ==
  [whitespace |-> {b \in Byte : b = Shuffle(whitespace_table, b)},
   op         |-> {b \in Byte : Or32(b) = Shuffle(op_table, (b - 44) % 256)}]
ClassArm64 ==
  [whitespace |-> {b \in Byte : ArmBits(b) \cap {3, 4} # {}},
   op         |-> {b \in Byte : ArmBits(b) \cap {0, 1, 2} # {}}]

classify(kernel) == IF kernel = "arm64" THEN ClassArm64 ELSE ClassX64

is_ascii(in) == \A i \in DOMAIN in : in[i] < 128

is_continuation(b) == b \in 128..191

\* Whether a byte with these three before it has to continue a character: the
\* x64 kernels take the three reasons together, the arm64 kernel as a parity.
must_be_continuation(kernel, prev1, prev2, prev3) ==
  LET second == prev1 >= 192
      third  == prev2 >= 224
      fourth == prev3 >= 240
  IN  IF kernel = "arm64" THEN (second # third) # fourth
                          ELSE second \/ third \/ fourth
=============================================================================
