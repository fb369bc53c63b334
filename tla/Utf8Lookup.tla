----------------------------- MODULE Utf8Lookup -----------------------------
(***************************************************************************)
(* The UTF-8 checker of the vector kernels (utf8_lookup2_algorithm.h in    *)
(* simdjson.cpp): every byte is judged by itself and the three before it,  *)
(* which may lie in the block before.  A block is a function from          *)
(* 0..Lanes-1 to bytes.                                                    *)
(***************************************************************************)
EXTENDS JsonBytes

CONSTANT Lanes  \* the bytes of a block: 64 in the code

ASSUME LanesAssumption == Lanes \in Nat /\ Lanes > 3 /\ Lanes % 2 = 0

Lane == 0..Lanes - 1

\* The errors that the first twelve bits of a character can show.  Each table
\* gives what four of the bits allow; an error all three allow is there.
CARRY == {"OVERLONG_2", "TOO_LARGE_2"}

byte_2_high(nibble) ==
  CARRY \cup CASE nibble = 8         -> {"OVERLONG_3", "OVERLONG_4"}
               [] nibble = 9         -> {"OVERLONG_3", "TOO_LARGE"}
               [] nibble \in {10, 11} -> {"TOO_LARGE", "SURROGATE"}
               [] OTHER              -> {}

byte_1_high(nibble) ==
  CASE nibble = 12 -> {"OVERLONG_2"}
    [] nibble = 14 -> {"OVERLONG_3", "SURROGATE"}
    [] nibble = 15 -> {"OVERLONG_4", "TOO_LARGE", "TOO_LARGE_2"}
    [] OTHER       -> {}

byte_1_low(nibble) ==
  CASE nibble = 0  -> {"OVERLONG_2", "OVERLONG_3", "OVERLONG_4"}
    [] nibble = 1  -> {"OVERLONG_2"}
    [] nibble \in {2, 3} -> {}
    [] nibble = 4  -> {"TOO_LARGE"}
    [] nibble = 13 -> {"TOO_LARGE_2", "SURROGATE"}
    [] OTHER       -> {"TOO_LARGE_2"}

check_special_cases(byte, prev1) ==
  byte_1_high(prev1 \div 16) \cap byte_1_low(prev1 % 16) \cap byte_2_high(byte \div 16)

check_multibyte_lengths(kernel, byte, prev1, prev2, prev3) ==
  must_be_continuation(kernel, prev1, prev2, prev3) # is_continuation(byte)

\* A character that begins in the last three bytes and is longer than they are.
is_incomplete(in) ==
  \/ in[Lanes - 3] >= 240
  \/ in[Lanes - 2] >= 224
  \/ in[Lanes - 1] >= 192

CheckerStart ==
  [error |-> FALSE, prev_input_block |-> [i \in Lane |-> 0], prev_incomplete |-> FALSE]

\* Mutated check_next_input: a block of ASCII is not held against what the
\* block before left open.
check_next_input_lenient(kernel, in, checker) ==
  IF is_ascii(in) THEN checker
  ELSE [error |-> \/ checker.error
                  \/ \E i \in Lane :
                       LET back(n) == IF i >= n THEN in[i - n]
                                      ELSE checker.prev_input_block[Lanes + i - n]
                       IN  \/ check_special_cases(in[i], back(1)) # {}
                           \/ check_multibyte_lengths(kernel, in[i], back(1), back(2), back(3)),
        prev_input_block |-> in,
        prev_incomplete  |-> is_incomplete(in)]

\* A block of ASCII only shows that the block before was cut short, and leaves
\* the block before that in place.
check_next_input(kernel, in, checker) ==
  IF is_ascii(in)
  THEN [checker EXCEPT !.error = @ \/ checker.prev_incomplete]
  ELSE [error |-> \/ checker.error
                  \/ \E i \in Lane :
                       LET back(n) == IF i >= n THEN in[i - n]
                                      ELSE checker.prev_input_block[Lanes + i - n]
                       IN  \/ check_special_cases(in[i], back(1)) # {}
                           \/ check_multibyte_lengths(kernel, in[i], back(1), back(2), back(3)),
        prev_input_block |-> in,
        prev_incomplete  |-> is_incomplete(in)]
=============================================================================
