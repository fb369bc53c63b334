------------------------------ MODULE JsonTexts ------------------------------
(***************************************************************************)
(* The strings and the numbers that the texts of TextScanning are made of, *)
(* read by the parser and by the grammar of JSON.  A text of characters, of*)
(* tokens, of string pieces, of a number or an atom grows at its end, and  *)
(* so does a mask, row by row, and the text of a stream by whole documents; *)
(* a "float" is one power of ten, held against every word at once.         *)
(***************************************************************************)
EXTENDS DocumentStream, StringParsing, NumberParsing, AtomParsing, Pruning,
        ParserMemory, KernelChoice, PaddedStrings

CONSTANTS MaxPieces,  \* the most pieces of a string
          MaxNumber,  \* the longest text of a number
          MaxRows     \* the rows of a block, the lanes of which are masked

vars == <<kind, text, stream, memory, choice, padded>>

-----------------------------------------------------------------------------
(***************************************************************************)
(* Strings: pieces that are plain, escaped, wrongly escaped, or \u with a  *)
(* code unit next to each border of its ranges.                            *)
(***************************************************************************)
HexDigits(unit) ==
  [n \in 1..4 |-> LET digit == (unit \div 16^(4 - n)) % 16
                  IN  IF digit < 10 THEN digit + 48 ELSE digit + (IF n = 1 THEN 55 ELSE 87)]

CodeUnits ==
  {1, 31, 127, 128, 2047, 2048, 55295, 55296, 56319, 56320, 57343, 57344, 65535}

Pieces ==
  {<<97>>, <<97, 47, 97>>, <<Backslash, Quote>>, <<Backslash, Backslash>>, <<Backslash, 110>>,
   <<Backslash, 120>>, <<Backslash, SmallU, 49, 50>>}
    \cup {<<Backslash, SmallU>> \o HexDigits(unit) : unit \in CodeUnits}

GrowString ==
  /\ kind = "string" /\ Len(text) < MaxPieces
  /\ \E piece \in Pieces : text' = Append(text, piece)
  /\ UNCHANGED kind

\* A string read one character at a time: its bytes, or a reason to refuse it.
Unescaped(t) ==
  LET hex(i) == \A n \in i..i + 3 : n <= Len(t) /\ digit_to_val32(t[n]) >= 0
      unit(i) == hex_to_u32_nocheck(t, i - 1)
      escaped(i) == i + 5 <= Len(t) /\ t[i] = Backslash /\ t[i + 1] = SmallU /\ hex(i + 2)
      RECURSIVE read(_, _)
      read(i, bytes) ==
        IF i > Len(t) THEN [verdict |-> "good", bytes |-> bytes]
        ELSE IF t[i] # Backslash THEN read(i + 1, Append(bytes, t[i]))
        ELSE IF t[i + 1] # SmallU
        THEN IF escape_map(t[i + 1]) = 0 THEN [verdict |-> "bad", bytes |-> <<>>]
             ELSE read(i + 2, Append(bytes, escape_map(t[i + 1])))
        ELSE IF ~hex(i + 2) THEN [verdict |-> "bad", bytes |-> <<>>]
        ELSE IF unit(i + 2) \in 56320..57343 THEN [verdict |-> "lone", bytes |-> <<>>]
        ELSE IF unit(i + 2) \in 55296..56319
        THEN IF ~escaped(i + 6) THEN [verdict |-> "bad", bytes |-> <<>>]
             ELSE IF unit(i + 8) \notin 56320..57343 THEN [verdict |-> "lone", bytes |-> <<>>]
             ELSE read(i + 12, bytes \o codepoint_to_utf8(
                    65536 + 1024 * (unit(i + 2) - 55296) + unit(i + 8) - 56320))
        ELSE read(i + 6, bytes \o codepoint_to_utf8(unit(i + 2)))
  IN  read(1, <<>>)

\* Copying many bytes at a time gives the string that reading it character by
\* character gives, in every kernel, and refuses what is not an escape.  Of half
\* a surrogate pair nothing is claimed.  No copy reaches further than the text
\* itself and one chunk.  Printed and read again the string is the same.
StringsRight ==
  kind = "string" =>
    LET bytes  == FlattenSeq(text)
        quoted == <<Quote>> \o bytes \o <<Quote>>
        read   == Unescaped(bytes)
    IN  \A chunk \in {1, BytesProcessed} :
          LET parsed == parse_string(chunk, quoted, 0)
          IN  /\ read.verdict = "good" =>
                   parsed.ok /\ parsed.bytes = read.bytes /\ Utf8Verdict(parsed.bytes) = "good"
              /\ read.verdict = "bad" => ~parsed.ok
              /\ parsed.high <= Len(bytes) + chunk
              /\ parsed.ok =>
                   parse_string(chunk, Append(<<Quote>> \o escape_json_string(parsed.bytes), Quote),
                                0).bytes = parsed.bytes

-----------------------------------------------------------------------------
(***************************************************************************)
(* Numbers: the grammar of JSON as an automaton that computes the value.   *)
(***************************************************************************)
NumberAlphabet == {Zero, 49, 57, Dot, 101, Minus, Plus, Space, 120}

Grammar(t) ==
  LET Read(s, b) ==
        LET digit   == b - Zero
            go(to)  == [s EXCEPT !.mode = to]
            whole   == [s EXCEPT !.mode = "int", !.digits = 10 * @ + digit]
            part    == [s EXCEPT !.mode = "frac", !.digits = 10 * @ + digit, !.scale = @ - 1]
            raised  == [s EXCEPT !.mode = "exp", !.exp = 10 * @ + digit]
        IN  CASE s.mode = "start" /\ b = Minus -> [go("minus") EXCEPT !.negative = TRUE]
              [] s.mode \in {"start", "minus"} /\ b = Zero -> go("zero")
              [] s.mode \in {"start", "minus", "int"} /\ is_integer(b)
                   /\ ~(s.mode # "int" /\ b = Zero) -> whole
              [] s.mode \in {"zero", "int"} /\ b = Dot -> go("dot")
              [] s.mode \in {"dot", "frac"} /\ is_integer(b) -> part
              [] s.mode \in {"zero", "int", "frac"} /\ b \in {69, 101} -> go("e")
              [] s.mode = "e" /\ b \in {Minus, Plus} ->
                   [go("sign") EXCEPT !.lowered = b = Minus]
              [] s.mode \in {"e", "sign", "exp"} /\ is_integer(b) -> raised
              [] s.mode \in {"zero", "int"} -> 
                   go(IF is_structural_or_whitespace(b) THEN "integer" ELSE "bad")
              [] s.mode \in {"frac", "exp"} -> go("float")
              [] OTHER -> go("bad")
  IN  FoldLeft(Read, [mode |-> "start", negative |-> FALSE, digits |-> 0, scale |-> 0,
                      exp |-> 0, lowered |-> FALSE], t)

GrowNumber ==
  /\ kind = "number" /\ Len(text) < MaxNumber
  /\ Grammar(text).mode \notin {"bad", "integer", "float"}
  /\ \E b \in NumberAlphabet : text' = Append(text, b)
  /\ UNCHANGED kind

\* An integer is accepted when it is one and fits a word, and keeps its value
\* and the type it should have.  A float keeps all its digits and its power of
\* ten, however the words overflow on the way, and is refused when it would be
\* infinite or its exponent is absurd.  Only an integer has to be ended by the
\* byte after it.
NumbersRight ==
  kind = "number" /\ text # <<>> =>
    LET read   == Grammar(text)
        parsed == parse_number(text, 0)
        value  == IF read.negative THEN -read.digits ELSE read.digits
        power  == read.scale + (IF read.lowered THEN -read.exp ELSE read.exp)
    IN  CASE read.mode = "integer" ->
               /\ parsed.ok = (-(Word \div 2) <= value /\ value < Word)
               /\ parsed.ok => /\ parsed.value = value
                               /\ parsed.type = IF value < Word \div 2 THEN "l" ELSE "u"
          [] read.mode \in {"float", "frac", "exp"} ->
               IF parsed.ok
               THEN /\ parsed.type = "d" /\ parsed.i = read.digits /\ parsed.power = power
                    /\ parsed.negative = read.negative \/ read.digits = 0
               ELSE \/ read.exp > ExponentLimit
                    \/ power > LargestPower /\ read.digits > 0
                    \/ power >= 0 /\ read.digits > (Infinity - 1) \div 10^power
          [] OTHER -> ~parsed.ok

-----------------------------------------------------------------------------
GrowFloat ==
  /\ kind = "float" /\ text = <<>>
  /\ \E power \in -LowestPower..LargestPower : text' = <<power>>
  /\ UNCHANGED kind

\* The float made of a word and a power of ten by one or two multiplications of
\* words is the one nearest to their product, and finite, or there is none.
FloatNearest ==
  kind = "float" /\ text # <<>> =>
    LET power == text[1]
    IN  \A i \in 0..Word - 1 :
          LET fast == compute_float_64(power, i)
          IN  fast.success =>
                /\ fast.d = IF power < 0 THEN Rounded(i, 5^(-power), power)
                                         ELSE Rounded(i * 5^power, 1, power)
                /\ fast.d.e + MantissaBits - 1 <= ExponentBias

-----------------------------------------------------------------------------
(***************************************************************************)
(* Atoms, spelled right, wrong or in part and followed by other bytes.     *)
(***************************************************************************)
Atomic == {True, False, Null}

GrowAtom ==
  /\ kind = "atom"
  /\ \E atom \in Atomic :
       IF text = <<>> THEN text' = <<atom[1]>>
       ELSE /\ text[1] = atom[1] /\ Len(text) < Len(atom) + 2
            /\ Spelled(text, 0, SubSeq(atom, 1, Len(text) - 1))
            /\ \E b \in ToSet(atom) \cup {120, Space, Comma} : text' = Append(text, b)
  /\ UNCHANGED kind

\* Within a scope an atom is taken when it is spelled out and ends there; one that
\* is the whole text also when the text ends with it.
AtomsRight ==
  kind = "atom" /\ text # <<>> =>
    LET atom  == AtomOf(text[1])
        ended == \E b \in Operators \cup Whitespaces : IsPrefix(Append(atom, b), text)
    IN  /\ is_valid_atom(text, 0, atom) = ended
        /\ is_valid_root_atom(text, 0, Len(text), atom) = (ended \/ text = atom)

-----------------------------------------------------------------------------
GrowMask ==
  /\ kind = "mask" /\ Len(text) < MaxRows
  /\ \E row \in SUBSET (0..Row - 1) : text' = Append(text, row)
  /\ UNCHANGED kind

\* Minifying gives the same bytes in every kernel; and the overlapping stores of a
\* block leave the bytes that are not masked, in their order, at the beginning of
\* the output.
MinifyRight ==
  /\ MinifyAgrees
  /\ kind = "mask" /\ Len(text) % 2 = 0 =>
       LET mask == {i \in 0..Row * Len(text) - 1 : i % Row \in text[(i \div Row) + 1]}
           kept == SelectSeq([n \in 1..Row * Len(text) |-> n - 1], LAMBDA i : i \notin mask)
       IN  IsPrefix(kept, CompressBlock(mask, Len(text) \div 2))

-----------------------------------------------------------------------------
Kinds == {"json", "utf8", "string", "number", "float", "atom", "mask", "stream",
          "memory", "kernel", "padded"}

Init ==
  /\ kind \in Kinds
  /\ text = <<>> /\ NoStream /\ MemoryInit /\ NoChoice /\ PaddedInit

Grow ==
  /\ GrowJson \/ GrowUtf8 \/ GrowString \/ GrowNumber \/ GrowFloat \/ GrowAtom \/ GrowMask
  /\ UNCHANGED stream

Read == (Grow \/ GrowStream \/ StreamNext) /\ UNCHANGED <<memory, choice, padded>>

SetUp ==
  /\ \/ kind = "memory" /\ MemoryNext /\ UNCHANGED <<choice, padded>>
     \/ kind = "kernel" /\ ChoiceNext /\ UNCHANGED <<memory, padded>>
     \/ kind = "padded" /\ PaddedNext /\ UNCHANGED <<memory, choice>>
  /\ UNCHANGED <<kind, text, stream>>

Next == Read \/ SetUp

Spec == Init /\ [][Next]_vars
=============================================================================
