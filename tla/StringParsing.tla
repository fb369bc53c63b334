---------------------------- MODULE StringParsing ----------------------------
(***************************************************************************)
(* How stage 2 of simdjson.cpp unescapes a string: it copies BytesProcessed*)
(* bytes at a time, whatever they are, and goes back over what an escape   *)
(* or the closing quote makes of them.                                     *)
(***************************************************************************)
EXTENDS StructuralScanner, FiniteSetsExt, Bitwise

CONSTANT BytesProcessed  \* 32 in the vector kernels; the fallback takes one

ASSUME BytesProcessedAssumption == BytesProcessed \in Nat \ {0}

-----------------------------------------------------------------------------
\* What the byte after a backslash stands for, and zero when it may not be there.
escape_map(b) ==
  CASE b \in {Quote, 47, Backslash} -> b
    [] b = 98  -> 8
    [] b = 102 -> 12
    [] b = 110 -> 10
    [] b = 114 -> 13
    [] b = 116 -> 9
    [] OTHER   -> 0

\* digit_to_val32: the value of a hexadecimal digit, -1 for another byte.
digit_to_val32(b) ==
  CASE b \in 48..57  -> b - 48
    [] b \in 65..70  -> b - 55
    [] b \in 97..102 -> b - 87
    [] OTHER         -> -1

\* 2^32 - 1 in the code: no code point, and its upper half is set.
NoCodePoint == 2^30

hex_to_u32_nocheck(text, idx) ==
  LET digit(n) == digit_to_val32(At(text, idx + n))
  IN  IF \E n \in 0..3 : digit(n) = -1 THEN NoCodePoint
      ELSE 4096 * digit(0) + 256 * digit(1) + 16 * digit(2) + digit(3)

codepoint_to_utf8(cp) ==
  LET tail(n) == ((cp \div 64^n) % 64) + 128
  IN  CASE cp \in 0..127         -> <<cp>>
        [] cp \in 128..2047      -> <<(cp \div 64) + 192, tail(0)>>
        [] cp \in 2048..65535    -> <<(cp \div 4096) + 224, tail(1), tail(0)>>
        [] cp \in 65536..1114111 -> <<(cp \div 262144) + 240, tail(2), tail(1), tail(0)>>
        [] OTHER                 -> <<>>

(***************************************************************************)
(* The code point of two code units.  The unsigned difference from 16^#DC00*)
(* wraps around below it, and the sum with 2^16 then wraps back.           *)
(***************************************************************************)
Joined(unit1, unit2) ==
  LET high == (unit1 - 55296) * 1024
      low  == unit2 - 56320
  IN  IF low >= 0 THEN (high | low) + 65536 ELSE (high % 65536) | (65536 + low)

Refused == [ok |-> FALSE, src |-> 0, bytes |-> <<>>]

\* The escape \u at src: where to go on and the bytes written.
handle_unicode_codepoint(text, src) ==
  LET unit1 == hex_to_u32_nocheck(text, src + 2)
      unit2 == hex_to_u32_nocheck(text, src + 8)
      paired == unit1 \in 55296..56319
      bytes == codepoint_to_utf8(IF paired THEN Joined(unit1, unit2) ELSE unit1)
  IN  IF /\ paired
         /\ \/ At(text, src + 6) # Backslash
            \/ At(text, src + 7) # SmallU
            \/ unit2 = NoCodePoint
      THEN Refused
      ELSE [ok |-> bytes # <<>>, src |-> src + (IF paired THEN 12 ELSE 6), bytes |-> bytes]

-----------------------------------------------------------------------------
(***************************************************************************)
(* backslash_and_quote: what is found among the bytes just copied.         *)
(***************************************************************************)
Found(chunk, text, src, byte) == {n \in 0..chunk - 1 : At(text, src + n) = byte}

\* Mutated has_quote_first: any quote will do, also one behind a backslash.
has_quote_hasty(bs_bits, quote_bits) == quote_bits # {}

has_quote_first(bs_bits, quote_bits) ==
  \E q \in quote_bits : \A b \in bs_bits : q < b

\* The bytes of the string whose quote is at from, and how far the copies reach.
parse_string(chunk, text, from) ==
  LET bytes(src, n) == [i \in 1..n |-> At(text, src + i - 1)]
      RECURSIVE copy(_, _, _)
      copy(src, dst, reach) ==
        LET bs_bits    == Found(chunk, text, src, Backslash)
            quote_bits == Found(chunk, text, src, Quote)
            bs_dist    == Min(bs_bits)
            escape     == At(text, src + bs_dist + 1)
            char       == handle_unicode_codepoint(text, src + bs_dist)
            high       == Max({reach, Len(dst) + chunk})
            wrong      == [ok |-> FALSE, bytes |-> <<>>, high |-> high]
        IN  IF has_quote_first(bs_bits, quote_bits)
            THEN [ok |-> TRUE, bytes |-> dst \o bytes(src, Min(quote_bits)), high |-> high]
            ELSE IF bs_bits = {} THEN copy(src + chunk, dst \o bytes(src, chunk), high)
            ELSE IF escape = SmallU
            THEN IF char.ok THEN copy(char.src, dst \o bytes(src, bs_dist) \o char.bytes, high)
                            ELSE wrong
            ELSE IF escape_map(escape) = 0 THEN wrong
            ELSE copy(src + bs_dist + 2,
                      Append(dst \o bytes(src, bs_dist), escape_map(escape)), high)
  IN  copy(from + 1, <<>>, 0)

-----------------------------------------------------------------------------
\* escape_json_string, by which strings are printed.
escaped_char(b) ==
  LET hex(digit) == digit + (IF digit < 10 THEN 48 ELSE 87)
  IN  CASE b = 8  -> <<Backslash, 98>>
        [] b = 9  -> <<Backslash, 116>>
        [] b = 10 -> <<Backslash, 110>>
        [] b = 12 -> <<Backslash, 102>>
        [] b = 13 -> <<Backslash, 114>>
        [] b \in {Quote, Backslash} -> <<Backslash, b>>
        [] b \in 0..31 \ {8, 9, 10, 12, 13} ->
             <<Backslash, SmallU, 48, 48, hex(b \div 16), hex(b % 16)>>
        [] OTHER -> <<b>>

escape_json_string(bytes) == FoldLeft(LAMBDA out, b : out \o escaped_char(b), <<>>, bytes)
=============================================================================
