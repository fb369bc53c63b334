---------------------------- MODULE TextScanning ----------------------------
(***************************************************************************)
(* What stage 1 promises, stated without blocks, masks or cursors, and the *)
(* texts it is held against: every JSON-like text, and every sequence of   *)
(* bytes that is UTF-8 but for its end, up to a length.                    *)
(***************************************************************************)
EXTENDS StructuralIndexer, StructuralScanner

CONSTANTS MaxText,  \* the longest text
          MaxUtf8   \* the longest text of characters

VARIABLES kind,  \* what the bytes of the text are taken for
          text

Control == 1

JsonAlphabet == {Quote, Backslash, OpenObject, Space, 97, Control}

-----------------------------------------------------------------------------
(***************************************************************************)
(* Tokens: an operator, a string, or a run of other bytes.  A string that  *)
(* touches such a run, or a backslash in one, makes the text "glued", and  *)
(* then no promise is made of where its tokens begin.                      *)
(***************************************************************************)
Lexed(t) ==
  LET Read(s, i) ==
        LET byte    == t[i]
            go(to)  == [s EXCEPT !.mode = to]
            new(to) == [s EXCEPT !.mode = to, !.starts = Append(@, i - 1)]
        IN  CASE s.mode = "glued"  -> s
              [] s.mode = "escape" -> [go("string") EXCEPT !.escaped = @ \/ byte < 32]
              [] s.mode = "string" ->
                   [go(CASE byte = Quote     -> "closed"
                         [] byte = Backslash -> "escape"
                         [] OTHER            -> "string") EXCEPT !.bare = @ \/ byte < 32]
              [] byte \in Whitespaces /\ s.mode \in {"gap", "closed", "atom"} -> go("gap")
              [] byte \in Operators /\ s.mode \in {"gap", "closed", "atom"}   -> new("gap")
              [] byte = Quote /\ s.mode = "gap" -> new("string")
              [] byte \notin Operators \cup Whitespaces \cup {Quote, Backslash} ->
                   CASE s.mode = "gap"  -> new("atom")
                     [] s.mode = "atom" -> s
                     [] OTHER           -> go("glued")
              [] OTHER -> go("glued")
  IN  FoldLeftDomain(Read, [mode |-> "gap", starts |-> <<>>, bare |-> FALSE, escaped |-> FALSE], t)

\* The well-formed characters of The Unicode Standard, as the comment on the
\* tables of simdjson.cpp lists them: their length by the first byte, zero when
\* no character begins with it, and what the second byte may be.
CharLength(first) ==
  CASE first \in 0..127   -> 1
    [] first \in 194..223 -> 2
    [] first \in 224..239 -> 3
    [] first \in 240..244 -> 4
    [] OTHER              -> 0

SecondBytes(first) ==
  CASE first = 224 -> 160..191
    [] first = 237 -> 128..159
    [] first = 240 -> 144..191
    [] first = 244 -> 128..143
    [] OTHER       -> 128..191

\* "good", "short" when the last character only lacks its end, or "bad".
Utf8Verdict(t) ==
  LET RECURSIVE judge(_)
      judge(i) ==
        IF i > Len(t) THEN "good"
        ELSE LET length == CharLength(t[i])
                 end    == Min({i + length - 1, Len(t)})
                 right(j) == t[j] \in IF j = i + 1 THEN SecondBytes(t[i]) ELSE 128..191
             IN  IF length = 0 \/ \E j \in i + 1..end : ~right(j) THEN "bad"
                 ELSE IF i + length - 1 > Len(t) THEN "short"
                 ELSE judge(i + length)
  IN  judge(1)

\* The bytes that a text of characters is carried on with: after ASCII one for
\* every row of the table of well-formed characters, within a character one for
\* every bound of its second bytes, and few after a whole character.
Utf8Alphabet(t) ==
  CASE Utf8Verdict(t) = "short"           -> {97, 128, 144, 160, 192}
    [] \A i \in DOMAIN t : t[i] < 128   ->
         {97, 128, 192, 194, 224, 225, 237, 240, 241, 244, 245}
    [] OTHER                              -> {97, 128, 194, 240}

\* The text ends within a character, by what its first byte says.
CutShort(t) ==
  \E n \in 1..3 : n <= Len(t) /\ t[Len(t) - n + 1] >= <<192, 224, 240>>[n]

Plain(t) == \A i \in DOMAIN t : t[i] >= 32 /\ t[i] \notin {Quote, Backslash}

-----------------------------------------------------------------------------
\* A JSON text begins with any ASCII byte, a text of characters with any byte.
\* One control character spoils a text for good.
GrowJson ==
  /\ kind = "json" /\ Len(text) < MaxText
  /\ \E b \in IF text = <<>> THEN 0..127 ELSE JsonAlphabet :
       /\ b = Control => \A i \in DOMAIN text : text[i] # Control
       /\ text' = Append(text, b)
  /\ text # <<>> => text[1] \in JsonAlphabet
  /\ UNCHANGED kind

\* A text of characters is some ASCII, as much as a block, and a few bytes more.
\* One that is not UTF-8 is not carried on.
GrowUtf8 ==
  /\ kind = "utf8"
  /\ Utf8Verdict(text) # "bad"
  /\ LET ascii == Cardinality({i \in DOMAIN text : \A j \in 1..i : text[j] < 128})
     IN  ascii <= Lanes /\ Len(text) < ascii + MaxUtf8
  /\ text # <<>> /\ text[1] \notin Utf8Alphabet(<<>>) => Len(text) < 3
  /\ \E b \in IF text = <<>> THEN Byte ELSE Utf8Alphabet(text) : text' = Append(text, b)
  /\ UNCHANGED kind

-----------------------------------------------------------------------------
Answers(streaming) ==
  {Index("haswell", text, streaming), WestmereIndex(text, streaming),
   Arm64Index(text, streaming), Scan(text, streaming)}

\* On a text whose tokens stand apart, all four kernels find exactly the tokens
\* and the end, and refuse a text for the same reasons: the masks, the carries
\* between blocks and the padding of the last one change nothing.  Only a control
\* character after a backslash may be left to stage 2.  Stored in bursts or one by
\* one, the indexes stay within what the parser allocates for the length.
IndexesRight ==
  kind = "json" =>
    LET lexed == Lexed(text)
        open  == lexed.mode \in {"string", "escape"}
    IN  /\ \A answer \in {Index("haswell", text, TRUE), Scan(text, TRUE)} :
             answer.high <= IndexSlots(Len(text))
        /\ lexed.mode # "glued" =>
             \A streaming \in BOOLEAN : \A answer \in Answers(streaming) :
               IF answer.error = "SUCCESS"
               THEN /\ answer.indexes = Append(lexed.starts, Len(text))
                    /\ lexed.starts # <<>> /\ ~lexed.bare /\ (streaming \/ ~open)
               ELSE \/ answer.error = "EMPTY" /\ lexed.starts = <<>>
                    \/ answer.error = "UNCLOSED_STRING" /\ open /\ ~streaming
                    \/ answer.error = "UNESCAPED_CHARS" /\ (lexed.bare \/ lexed.escaped)

\* A text is refused for its characters exactly when they are not UTF-8.  The
\* one thing the vector kernels let through is a character that the end of the
\* last block cuts short.
Utf8Checked ==
  kind = "utf8" /\ Plain(text) =>
    LET quoted == <<Quote>> \o text \o <<Quote>>
        good   == Utf8Verdict(text) = "good"
        refused(answer) == answer.error = "UTF8_ERROR"
    IN  /\ refused(Scan(quoted, FALSE)) = ~good
        /\ \A kernel \in Kernels :
             /\ refused(Index(kernel, quoted, FALSE)) = ~good
             /\ refused(Index(kernel, text, FALSE)) => ~good
             /\ ~good =>
                  \/ refused(Index(kernel, text, FALSE))
                  \/ Len(text) % (BlocksPerStep(kernel) * Lanes) = 0 /\ CutShort(text)

\* Of MinifyRight: the kernels agree when the strings are closed.
MinifyAgrees ==
  kind = "json" =>
    \A minified \in {Minify("haswell", text), WestmereMinify(text), Arm64Minify(text)} :
      minified.error = "SUCCESS" => minified.dst = MinifyScalar(text)
=============================================================================
