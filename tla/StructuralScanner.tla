-------------------------- MODULE StructuralScanner --------------------------
(***************************************************************************)
(* Stage 1 and the minifier of the fallback kernel of simdjson.cpp, which  *)
(* walk a text byte by byte.  An idx counts bytes from zero, as in the     *)
(* code, and may pass the end of the text by one.                          *)
(***************************************************************************)
EXTENDS JsonBytes, SequencesExt

\* buf[idx]; the bytes after the text are its zero padding.
At(text, idx) == IF idx < Len(text) THEN text[idx + 1] ELSE 0

Continued(text, idx, count) == \A n \in 1..count : is_continuation(At(text, idx + n))

(***************************************************************************)
(* The bytes a character takes and whether it is wrong.  One that is not   *)
(* continued is passed over by its first byte alone.                       *)
(***************************************************************************)
validate_utf8_character(text, idx) ==
  LET lead   == At(text, idx)
      second == At(text, idx + 1)
      char(length, wrong) ==
        IF idx + length - 1 > Len(text) \/ ~Continued(text, idx, length - 1)
        THEN [next |-> idx + 1, wrong |-> TRUE]
        ELSE [next |-> idx + length, wrong |-> wrong]
  IN  CASE lead \in 128..191 -> [next |-> idx + 1, wrong |-> TRUE]
        [] lead \in 192..223 -> char(2, lead <= 193)
        [] lead \in 224..239 -> char(3, \/ lead = 224 /\ second <= 159
                                        \/ lead = 237 /\ second >= 160)
        [] lead \in 240..255 -> char(4, \/ lead = 240 /\ second <= 143
                                        \/ lead = 244 /\ second >= 144
                                        \/ lead >= 245)

\* From the quote that opens a string to the one that closes it.  The error is
\* the last one met, and the empty string when there is none.
validate_string(text, from, streaming) ==
  LET RECURSIVE walk(_, _)
      walk(idx, error) ==
        LET char == validate_utf8_character(text, idx)
        IN  CASE idx >= Len(text) ->
                   [idx |-> idx, error |-> IF streaming THEN error ELSE "UNCLOSED_STRING"]
              [] idx < Len(text) /\ At(text, idx) = Quote -> [idx |-> idx, error |-> error]
              [] idx < Len(text) /\ At(text, idx) = Backslash -> walk(idx + 2, error)
              [] idx < Len(text) /\ At(text, idx) >= 128 ->
                   walk(char.next, IF char.wrong THEN "UTF8_ERROR" ELSE error)
              [] OTHER ->
                   walk(idx + 1, IF At(text, idx) < 32 THEN "UNESCAPED_CHARS" ELSE error)
  IN  walk(from + 1, "")

\* The last byte of an atom that begins at idx: the next one is white space, an
\* operator or the end.
AtomEnd(text, idx) ==
  CHOOSE last \in idx..Len(text) - 1 :
    /\ \A i \in idx + 1..last : ~is_structural_or_whitespace(At(text, i))
    /\ last + 1 < Len(text) => is_structural_or_whitespace(At(text, last + 1))

Scan(text, streaming) ==
  LET RECURSIVE scan(_, _, _)
      scan(idx, indexes, error) ==
        LET byte   == At(text, idx)
            string == validate_string(text, idx, streaming)
        IN  IF idx >= Len(text) THEN [indexes |-> indexes, error |-> error]
            ELSE CASE byte = Quote ->
                        scan(string.idx + 1, Append(indexes, idx),
                             IF string.error = "" THEN error ELSE string.error)
                   [] byte \in Operators   -> scan(idx + 1, Append(indexes, idx), error)
                   [] byte \in Whitespaces -> scan(idx + 1, indexes, error)
                   [] OTHER -> scan(AtomEnd(text, idx) + 1, Append(indexes, idx), error)
      done == scan(0, <<>>, "SUCCESS")
  IN  IF done.indexes = <<>>
      THEN [error |-> "EMPTY", indexes |-> <<>>, high |-> 0]
      ELSE [error |-> done.error, indexes |-> Append(done.indexes, Len(text)),
            high |-> Len(done.indexes) + 1]

(***************************************************************************)
(* The minifier.  Of the three columns of jump_table the first marks the   *)
(* quote, the second all but the backslash and the third all but white     *)
(* space.  It never reports an error.                                      *)
(***************************************************************************)
jump_table == [b \in Byte |-> <<b = Quote, b # Backslash, b \notin Whitespaces>>]

MinifyScalar(text) ==
  LET Read(m, c) ==
        LET meta  == jump_table[c]
            quote == m.quote # (meta[1] /\ m.nonescape)
        IN  [quote     |-> quote,
             nonescape |-> ~m.nonescape \/ meta[2],
             dst       |-> IF meta[3] \/ quote THEN Append(m.dst, c) ELSE m.dst]
  IN  FoldLeft(Read, [quote |-> FALSE, nonescape |-> TRUE, dst |-> <<>>], text).dst
=============================================================================
