--------------------------- MODULE DocumentProofs ---------------------------
(***************************************************************************)
(* Proofs about stage 2 of the parser, for texts of any length and scopes  *)
(* of any depth, on a parser that has read any texts before: first that    *)
(* its buffers fit and the tape is linked, then that it decides the        *)
(* grammar of JSON.                                                        *)
(***************************************************************************)
EXTENDS TapeBuilder, JsonGrammar, FiniteSetTheorems, SequenceTheorems, TLAPS

-----------------------------------------------------------------------------
(***************************************************************************)
(* Capacities.                                                             *)
(***************************************************************************)
LEMMA DivRight ==
  ASSUME NEW a \in Nat, NEW b \in Nat \ {0}
  PROVE  a \div b \in Nat /\ a < b * (a \div b) + b /\ b * (a \div b) <= a
OBVIOUS

LEMMA UnitFours == \E u \in Nat \ {0} : Unit = 4 * u
<1>1. PICK n \in 2..4 : Unit = n * Padding
  BY BufferAssumption
<1>2. PICK m \in Nat : Padding = 4 * m /\ m > 0
  <2>1. Padding = 4 * (Padding \div 4) /\ Padding \div 4 \in Nat /\ Padding \div 4 > 0
    BY BufferAssumption
  <2> QED
    BY <2>1
<1>3. Unit = 4 * (n * m) /\ n * m \in Nat \ {0}
  <2>1. n = 2 \/ n = 3 \/ n = 4
    OBVIOUS
  <2> QED
    BY <1>1, <1>2, <2>1
<1> QED
  BY <1>3

\* A capacity is at least what it was rounded up from, and a multiple of four.
LEMMA RoundedUp ==
  ASSUME NEW n \in Nat
  PROVE  /\ ROUNDUP_N(n) \in Nat /\ n <= ROUNDUP_N(n)
         /\ \E k \in Nat : ROUNDUP_N(n) = 4 * k
<1>1. PICK u \in Nat \ {0} : Unit = 4 * u
  BY UnitFours
<1> DEFINE q == (n + Unit - 1) \div Unit
<1>2. q \in Nat /\ n + Unit - 1 < Unit * q + Unit
  <2>1. n + Unit - 1 \in Nat /\ Unit \in Nat \ {0}
    BY <1>1
  <2> QED
    BY <2>1, DivRight
<1>3. ROUNDUP_N(n) = q * Unit
  BY DEF ROUNDUP_N
<1> HIDE DEF q
<1>4. q * Unit = 4 * (q * u) /\ q * u \in Nat /\ Unit * q = q * Unit
  BY <1>1, <1>2
<1> QED
  BY <1>1, <1>2, <1>3, <1>4

LEMMA RoundedMonotone ==
  ASSUME NEW m \in Nat, NEW n \in Nat, m <= n
  PROVE  ROUNDUP_N(m) <= ROUNDUP_N(n)
<1>1. Unit \in Nat \ {0} /\ m + Unit - 1 \in Nat /\ n + Unit - 1 \in Nat
  BY UnitFours
<1> DEFINE q == (m + Unit - 1) \div Unit
           r == (n + Unit - 1) \div Unit
<1>2. q \in Nat /\ r \in Nat /\ Unit * q <= m + Unit - 1 /\ n + Unit - 1 < Unit * r + Unit
  BY <1>1, DivRight
<1>3. ROUNDUP_N(m) = q * Unit /\ ROUNDUP_N(n) = r * Unit
  BY DEF ROUNDUP_N
<1> HIDE DEF q, r
<1>4. q <= r
  <2> SUFFICES ASSUME q >= r + 1 PROVE FALSE
    BY <1>2
  <2>1. Unit * q >= Unit * (r + 1) /\ Unit * (r + 1) = Unit * r + Unit
    BY <1>1, <1>2
  <2> QED
    BY <1>1, <1>2, <2>1
<1>5. q * Unit <= r * Unit
  BY <1>1, <1>2, <1>4
<1> QED
  BY <1>3, <1>5

\* The tape has a word more than the two beyond the bytes, if their number is odd.
LEMMA TapeRoom ==
  ASSUME NEW len \in Nat
  PROVE  /\ TapeCapacity(len) \in Nat /\ len + 2 <= TapeCapacity(len)
         /\ len % 2 = 1 => len + 3 <= TapeCapacity(len)
<1>1. PICK k \in Nat : TapeCapacity(len) = 4 * k
  BY RoundedUp DEF TapeCapacity
<1>2. len + 2 <= TapeCapacity(len)
  BY RoundedUp DEF TapeCapacity
<1> QED
  BY <1>1, <1>2

LEMMA StringRoom ==
  ASSUME NEW len \in Nat
  PROVE  /\ StringCapacity(len) \in Nat
         /\ \A high \in Nat : 3 * high <= 5 * len + 3 * Padding => high <= StringCapacity(len)
         /\ len = 2 => 4 + Padding <= StringCapacity(len)
         /\ \A more \in Nat : StringCapacity(len) <= StringCapacity(len + more)
<1>1. PICK m \in Nat : Padding = 4 * m
  BY BufferAssumption
<1> DEFINE bytes(n) == ((5 * n) \div 3) + Padding
<1>2. \A n \in Nat : bytes(n) \in Nat
  BY <1>1
<1>3. \A high \in Nat : 3 * high <= 5 * len + 3 * Padding => high <= bytes(len)
  BY <1>1
<1>4. \A more \in Nat : bytes(len) <= bytes(len + more)
  BY <1>1
<1>5. len = 2 => bytes(len) = 3 + Padding
  BY <1>1
<1>6. \A n \in Nat : StringCapacity(n) = ROUNDUP_N(bytes(n))
  BY DEF StringCapacity
<1> HIDE DEF bytes
<1>7. PICK k \in Nat : StringCapacity(len) = 4 * k
  BY <1>2, <1>6, RoundedUp
<1>8. bytes(len) \in Nat /\ StringCapacity(len) \in Nat /\ bytes(len) <= StringCapacity(len)
  BY <1>2, <1>6, RoundedUp
<1>9. \A more \in Nat : StringCapacity(len) <= StringCapacity(len + more)
  <2> TAKE more \in Nat
  <2>1. bytes(len) <= bytes(len + more) /\ len + more \in Nat
    BY <1>4
  <2> QED
    BY <1>2, <1>6, <2>1, RoundedMonotone
<1>10. len = 2 => 4 + Padding <= StringCapacity(len)
  BY <1>1, <1>5, <1>7, <1>8
<1>11. \A high \in Nat : 3 * high <= 5 * len + 3 * Padding => high <= StringCapacity(len)
  BY <1>3, <1>8
<1> QED
  BY <1>8, <1>9, <1>10, <1>11

-----------------------------------------------------------------------------
(***************************************************************************)
(* The bytes of a text.                                                    *)
(***************************************************************************)
LEMMA Widths ==
  /\ \A t \in Tokens \cup {End} : Width(t) \in 0..4 /\ Contents(t) \in 0..1
  /\ \A t \in Strings \cup {RefusedString} : Width(t) = 2 + Contents(t)
  /\ \A t \in Atoms : Width(t) = 4
  /\ Width(End) = 0
  /\ \A t \in Tokens \ (Strings \cup {RefusedString} \cup Atoms) : Width(t) = 1
<1> USE DEF Tokens, Strings, Numbers, Atoms, Refused, RefusedString, End
<1>1. \A t \in Strings \cup {RefusedString} : Width(t) = 2 + Contents(t) /\ Contents(t) \in 0..1
  BY DEF Width, Contents
<1>2. \A t \in Atoms : Width(t) = 4 /\ Contents(t) = 0
  BY DEF Width, Contents
<1>3. Width(End) = 0 /\ Contents(End) = 0
  BY DEF Width, Contents
<1>4. \A t \in Tokens \ (Strings \cup {RefusedString} \cup Atoms) : Width(t) = 1 /\ Contents(t) = 0
  BY DEF Width, Contents
<1>5. Tokens \cup {End} = (Strings \cup {RefusedString}) \cup Atoms \cup {End}
                            \cup (Tokens \ (Strings \cup {RefusedString} \cup Atoms))
  OBVIOUS
<1> USE <1>1, <1>2, <1>3, <1>4
<1> HIDE DEF Tokens, Strings, Numbers, Atoms, Refused, RefusedString, End
<1>6. \A t \in Tokens \cup {End} : Width(t) \in 0..4 /\ Contents(t) \in 0..1
  <2> SUFFICES ASSUME NEW t \in Tokens \cup {End}
               PROVE  Width(t) \in 0..4 /\ Contents(t) \in 0..1
    OBVIOUS
  <2>1. CASE t \in Strings \cup {RefusedString}
    BY <2>1
  <2>2. CASE t \notin Strings \cup {RefusedString}
    BY <1>5, <2>2
  <2> QED
    BY <2>1, <2>2
<1>7. \A t \in Strings \cup {RefusedString} : Width(t) = 2 + Contents(t)
  OBVIOUS
<1>8. \A t \in Tokens \ (Strings \cup {RefusedString} \cup Atoms) : Width(t) = 1
  OBVIOUS
<1> QED
  BY <1>6, <1>7, <1>8

LEMMA BytesOfNone == IsFiniteSet(Bytes(<<>>)) /\ Cardinality(Bytes(<<>>)) = 0
<1>1. Bytes(<<>>) = {}
  BY DEF Bytes
<1> QED
  BY <1>1, FS_EmptySet

LEMMA BytesOfMore ==
  ASSUME NEW ts \in Seq(Tokens \cup {End}), NEW t \in Tokens \cup {End}, IsFiniteSet(Bytes(ts))
  PROVE  /\ IsFiniteSet(Bytes(Append(ts, t)))
         /\ Cardinality(Bytes(Append(ts, t))) = Cardinality(Bytes(ts)) + Width(t)
<1> DEFINE n == Len(ts) + 1
           New(w) == {at \in {n} \X (1..4) : at[2] <= w}
<1>1. Width(t) \in 0..4
  BY Widths
<1>2. Bytes(Append(ts, t)) = Bytes(ts) \cup New(Width(t))
  <2>1. DOMAIN Append(ts, t) = DOMAIN ts \cup {n} /\ n \notin DOMAIN ts
    OBVIOUS
  <2>2. Append(ts, t)[n] = t /\ \A i \in DOMAIN ts : Append(ts, t)[i] = ts[i]
    OBVIOUS
  <2> HIDE DEF n
  <2> QED
    BY <2>1, <2>2 DEF Bytes
<1>3. Bytes(ts) \cap New(Width(t)) = {}
  BY DEF Bytes
<1>4. IsFiniteSet(New(0)) /\ Cardinality(New(0)) = 0
  <2>1. New(0) = {}
    OBVIOUS
  <2> QED
    BY <2>1, FS_EmptySet
<1>5. \A w \in 0..3 : New(w + 1) = New(w) \cup {<<n, w + 1>>} /\ <<n, w + 1>> \notin New(w)
  OBVIOUS
<1> HIDE DEF New
<1>6. \A w \in 0..4 : IsFiniteSet(New(w)) /\ Cardinality(New(w)) = w
  <2>1. ASSUME NEW w \in 0..3, IsFiniteSet(New(w)), Cardinality(New(w)) = w
        PROVE  IsFiniteSet(New(w + 1)) /\ Cardinality(New(w + 1)) = w + 1
    <3>1. New(w + 1) = New(w) \cup {<<n, w + 1>>} /\ <<n, w + 1>> \notin New(w)
      BY <1>5
    <3>2. PICK S, x : S = New(w) /\ x = <<n, w + 1>>
      OBVIOUS
    <3>3. IsFiniteSet(S \cup {x}) /\ Cardinality(S \cup {x}) = Cardinality(S) + 1
      BY <2>1, <3>1, <3>2, FS_AddElement
    <3> QED
      BY <2>1, <3>1, <3>2, <3>3
  <2>2. IsFiniteSet(New(1)) /\ Cardinality(New(1)) = 1
    BY <1>4, <2>1
  <2>3. IsFiniteSet(New(2)) /\ Cardinality(New(2)) = 2
    BY <2>1, <2>2
  <2>4. IsFiniteSet(New(3)) /\ Cardinality(New(3)) = 3
    BY <2>1, <2>3
  <2>5. IsFiniteSet(New(4)) /\ Cardinality(New(4)) = 4
    BY <2>1, <2>4
  <2>6. 0..4 = {0, 1, 2, 3, 4}
    OBVIOUS
  <2> QED
    BY <1>4, <2>2, <2>3, <2>4, <2>5, <2>6
<1>7. Cardinality(Bytes(ts)) \in Nat /\ Cardinality({}) = 0
  BY FS_CardinalityType, FS_EmptySet
<1>8. IsFiniteSet(New(Width(t))) /\ Cardinality(New(Width(t))) = Width(t)
  BY <1>1, <1>6
<1> DEFINE B == Bytes(ts)
           N == New(Width(t))
<1>9. IsFiniteSet(B) /\ IsFiniteSet(N) /\ B \cap N = {}
  BY <1>3, <1>8
<1> HIDE DEF B, N
<1>10. IsFiniteSet(B \cup N) /\ Cardinality(B \cup N) = Cardinality(B) + Cardinality(N) - Cardinality(B \cap N)
  BY <1>9, FS_Union
<1> USE DEF B, N
<1>11. Cardinality(B \cap N) = 0
  BY <1>7, <1>9
<1> HIDE DEF B, N
<1> QED
  BY <1>1, <1>2, <1>7, <1>8, <1>10, <1>11 DEF B, N

-----------------------------------------------------------------------------
(***************************************************************************)
(* The callbacks, by what they do to each field of the parser.             *)
(***************************************************************************)
Scope == [tape_index : Nat, count : Nat]

ScopesOf == [0..MaxDepth - 1 -> Scope]

WordTypes == {"r", "{", "}", "[", "]", "\"", "l", "u"} \cup Numbers \cup Atoms

TapeWord == [type : WordTypes, val : Nat, count : Nat]

\* Every place before the cursor has been written.
TapeType(tape, loc) == \A n \in 0..loc - 1 : n \in DOMAIN tape /\ tape[n] \in TapeWord

ParserOf(tape, loc, buf, str, high, scopes) ==
  [tape |-> tape, current_loc |-> loc, string_buf |-> buf, current_string_buf_loc |-> str,
   string_high |-> high, containing_scope |-> scopes]

ParserType(p) ==
  /\ p = ParserOf(p.tape, p.current_loc, p.string_buf, p.current_string_buf_loc,
                  p.string_high, p.containing_scope)
  /\ p.current_loc \in Nat /\ p.current_string_buf_loc \in Nat /\ p.string_high \in Nat
  /\ p.containing_scope \in ScopesOf
  /\ TapeType(p.tape, p.current_loc)

\* What a word written at the cursor leaves of the tape.
Written(tape, loc, new, word) ==
  /\ new[loc] = word
  /\ \A n \in 0..loc - 1 : new[n] = tape[n]

LEMMA FreshParser == ParserType(NewParser)
<1>1. MaxDepth \in Nat \ {0}
  BY BufferAssumption
<1> QED
  BY <1>1 DEF NewParser, ParserType, ParserOf, TapeType, ScopesOf, Scope

LEMMA ParserMade ==
  ASSUME NEW tape, NEW loc, NEW buf, NEW str, NEW high, NEW scopes,
         NEW p, p = ParserOf(tape, loc, buf, str, high, scopes)
  PROVE  /\ p.tape = tape /\ p.current_loc = loc /\ p.string_buf = buf
         /\ p.current_string_buf_loc = str /\ p.string_high = high /\ p.containing_scope = scopes
         /\ loc \in Nat /\ str \in Nat /\ high \in Nat /\ scopes \in ScopesOf /\ TapeType(tape, loc)
              => ParserType(p)
<1>1. /\ p.tape = tape /\ p.current_loc = loc /\ p.string_buf = buf
      /\ p.current_string_buf_loc = str /\ p.string_high = high /\ p.containing_scope = scopes
  BY DEF ParserOf
<1>2. p = ParserOf(p.tape, p.current_loc, p.string_buf, p.current_string_buf_loc,
                   p.string_high, p.containing_scope)
  BY <1>1
<1> QED
  BY <1>1, <1>2 DEF ParserType

LEMMA ParserParts ==
  ASSUME NEW p, ParserType(p)
  PROVE  \E tape, loc, buf, str, high, scopes :
           /\ p = ParserOf(tape, loc, buf, str, high, scopes)
           /\ p.tape = tape /\ p.current_loc = loc /\ p.string_buf = buf
           /\ p.current_string_buf_loc = str /\ p.string_high = high /\ p.containing_scope = scopes
           /\ loc \in Nat /\ str \in Nat /\ high \in Nat /\ scopes \in ScopesOf /\ TapeType(tape, loc)
BY DEF ParserType

LEMMA InitStage2 ==
  ASSUME NEW p, ParserType(p)
  PROVE  LET q == init_stage2(p)
         IN  /\ ParserType(q)
             /\ q.current_loc = 0 /\ q.current_string_buf_loc = 0 /\ q.string_high = 0
<1>1. PICK tape, loc, buf, str, high, scopes :
        p = ParserOf(tape, loc, buf, str, high, scopes) /\ scopes \in ScopesOf
  BY ParserParts
<1>2. init_stage2(p) = ParserOf(tape, 0, buf, 0, 0, scopes)
  <2>1. PICK q : q = [p EXCEPT !.current_loc = 0]
    OBVIOUS
  <2>2. PICK r : r = [q EXCEPT !.current_string_buf_loc = 0]
    OBVIOUS
  <2>3. init_stage2(p) = [r EXCEPT !.string_high = 0]
    BY <2>1, <2>2 DEF init_stage2
  <2>4. q = ParserOf(tape, 0, buf, str, high, scopes)
    BY <1>1, <2>1 DEF ParserOf
  <2>5. r = ParserOf(tape, 0, buf, 0, high, scopes)
    BY <2>2, <2>4 DEF ParserOf
  <2> QED
    BY <2>3, <2>5 DEF ParserOf
<1>3. TapeType(tape, 0)
  BY DEF TapeType
<1> QED
  BY <1>1, <1>2, <1>3, ParserMade

LEMMA WordWritten ==
  ASSUME NEW p, ParserType(p), NEW type \in WordTypes, NEW val \in Nat
  PROVE  LET q == write_tape(p, type, val)
         IN  /\ ParserType(q)
             /\ q.current_loc = p.current_loc + 1
             /\ Written(p.tape, p.current_loc, q.tape, Word(type, val))
             /\ q.current_string_buf_loc = p.current_string_buf_loc
             /\ q.string_high = p.string_high
             /\ q.containing_scope = p.containing_scope
<1>1. PICK old, loc, buf, str, high, scopes :
        /\ p = ParserOf(old, loc, buf, str, high, scopes)
        /\ p.tape = old /\ p.current_loc = loc /\ p.string_buf = buf
        /\ p.current_string_buf_loc = str /\ p.string_high = high /\ p.containing_scope = scopes
        /\ loc \in Nat /\ str \in Nat /\ high \in Nat /\ scopes \in ScopesOf /\ TapeType(old, loc)
  BY ParserParts
<1>2. PICK word, tape : word = Word(type, val) /\ tape = With(old, loc, word)
  OBVIOUS
<1>3. write_tape(p, type, val) = ParserOf(tape, loc + 1, buf, str, high, scopes)
  <2>1. PICK q : q = [p EXCEPT !.tape = tape]
    OBVIOUS
  <2>2. q = ParserOf(tape, loc, buf, str, high, scopes)
    BY <1>1, <2>1 DEF ParserOf
  <2>3. q.current_loc = loc
    BY <2>2, ParserMade
  <2>4. write_tape(p, type, val) = [q EXCEPT !.current_loc = loc + 1]
    BY <1>1, <1>2, <2>1, <2>3 DEF write_tape
  <2> QED
    BY <2>2, <2>4 DEF ParserOf
<1>4. loc \in Nat /\ TapeType(old, loc)
  BY <1>1
<1>5. \A n \in 0..loc - 1 : n \in DOMAIN old /\ n # loc /\ old[n] \in TapeWord
  BY <1>4 DEF TapeType
<1>6. DOMAIN tape = DOMAIN old \cup {loc}
      /\ \A n \in DOMAIN tape : tape[n] = IF n = loc THEN word ELSE old[n]
  BY <1>2 DEF With
<1>7. tape[loc] = word /\ \A n \in 0..loc - 1 : tape[n] = old[n]
  BY <1>5, <1>6
<1>8. word \in TapeWord
  BY <1>2 DEF Word, TapeWord
<1>9. TapeType(tape, loc + 1)
  <2>1. \A n \in 0..(loc + 1) - 1 : n = loc \/ n \in 0..loc - 1
    BY <1>4
  <2> QED
    BY <1>5, <1>6, <1>7, <1>8, <2>1 DEF TapeType
<1> QED
  BY <1>1, <1>2, <1>3, <1>7, <1>9, ParserMade DEF Written

LEMMA CountUp ==
  ASSUME NEW p, ParserType(p), NEW d \in 0..MaxDepth - 1
  PROVE  LET q == increment_count(p, d)
         IN  /\ ParserType(q)
             /\ q.current_loc = p.current_loc /\ q.tape = p.tape
             /\ q.current_string_buf_loc = p.current_string_buf_loc
             /\ q.string_high = p.string_high
             /\ \A e \in 0..MaxDepth - 1 :
                  /\ q.containing_scope[e].tape_index = p.containing_scope[e].tape_index
                  /\ q.containing_scope[e].count
                       = p.containing_scope[e].count + IF e = d THEN 1 ELSE 0
<1>1. PICK tape, loc, buf, str, high, old :
        /\ p = ParserOf(tape, loc, buf, str, high, old)
        /\ p.tape = tape /\ p.current_loc = loc /\ p.string_buf = buf
        /\ p.current_string_buf_loc = str /\ p.string_high = high /\ p.containing_scope = old
        /\ loc \in Nat /\ str \in Nat /\ high \in Nat /\ old \in ScopesOf /\ TapeType(tape, loc)
  BY ParserParts
<1>2. \A e \in 0..MaxDepth - 1 : old[e] \in Scope
  BY <1>1 DEF ScopesOf
<1>3. PICK i, c : old[d] = [tape_index |-> i, count |-> c] /\ i \in Nat /\ c \in Nat
  BY <1>2 DEF Scope
<1>4. PICK scope, new : scope = [tape_index |-> i, count |-> c + 1] /\ new = [old EXCEPT ![d] = scope]
  OBVIOUS
<1>5. increment_count(p, d) = ParserOf(tape, loc, buf, str, high, new)
  <2>1. [old[d] EXCEPT !.count = @ + 1] = scope
    BY <1>3, <1>4
  <2>2. increment_count(p, d) = [p EXCEPT !.containing_scope = new]
    BY <1>1, <1>4, <2>1 DEF increment_count
  <2> QED
    BY <1>1, <2>2 DEF ParserOf
<1>6. scope \in Scope
  BY <1>3, <1>4 DEF Scope
<1>7. new \in ScopesOf /\ \A e \in 0..MaxDepth - 1 : new[e] = IF e = d THEN scope ELSE old[e]
  BY <1>1, <1>4, <1>6 DEF ScopesOf
<1>8. \A e \in 0..MaxDepth - 1 :
        /\ new[e].tape_index = old[e].tape_index
        /\ new[e].count = old[e].count + IF e = d THEN 1 ELSE 0
  <2> TAKE e \in 0..MaxDepth - 1
  <2>1. CASE e = d
    BY <1>3, <1>4, <1>7, <2>1
  <2>2. CASE e # d
    BY <1>2, <1>7, <2>2 DEF Scope
  <2> QED
    BY <2>1, <2>2
<1> QED
  BY <1>1, <1>5, <1>7, <1>8, ParserMade

LEMMA ScopeBegun ==
  ASSUME NEW p, ParserType(p), NEW d \in 0..MaxDepth - 1, NEW type \in WordTypes
  PROVE  LET q == on_start_scope(p, d, type)
         IN  /\ ParserType(q)
             /\ q.current_loc = p.current_loc + 1
             /\ Written(p.tape, p.current_loc, q.tape, Word(type, 0))
             /\ q.current_string_buf_loc = p.current_string_buf_loc
             /\ q.string_high = p.string_high
             /\ \A e \in 0..MaxDepth - 1 :
                  q.containing_scope[e] = IF e = d THEN [tape_index |-> p.current_loc, count |-> 0]
                                          ELSE p.containing_scope[e]
<1>1. PICK w : w = write_tape(p, type, 0)
  OBVIOUS
<1>2. /\ ParserType(w) /\ w.current_loc = p.current_loc + 1
      /\ Written(p.tape, p.current_loc, w.tape, Word(type, 0))
      /\ w.current_string_buf_loc = p.current_string_buf_loc /\ w.string_high = p.string_high
      /\ w.containing_scope = p.containing_scope
  BY <1>1, WordWritten
<1>3. PICK tape, loc, buf, str, high, scopes :
        /\ w = ParserOf(tape, loc, buf, str, high, scopes)
        /\ w.tape = tape /\ w.current_loc = loc /\ w.string_buf = buf
        /\ w.current_string_buf_loc = str /\ w.string_high = high /\ w.containing_scope = scopes
        /\ loc \in Nat /\ str \in Nat /\ high \in Nat /\ scopes \in ScopesOf /\ TapeType(tape, loc)
  BY <1>2, ParserParts
<1>4. PICK scope, new : scope = [tape_index |-> p.current_loc, count |-> 0]
                          /\ new = [scopes EXCEPT ![d] = scope]
  OBVIOUS
<1>5. on_start_scope(p, d, type) = ParserOf(tape, loc, buf, str, high, new)
  <2>1. on_start_scope(p, d, type) = [w EXCEPT !.containing_scope = new]
    BY <1>1, <1>3, <1>4 DEF on_start_scope
  <2> QED
    BY <1>3, <2>1 DEF ParserOf
<1>6. p.current_loc \in Nat
  BY DEF ParserType
<1>7. scope \in Scope
  BY <1>4, <1>6 DEF Scope
<1>8. new \in ScopesOf /\ \A e \in 0..MaxDepth - 1 : new[e] = IF e = d THEN scope ELSE scopes[e]
  BY <1>3, <1>4, <1>7 DEF ScopesOf
<1>9. PICK q : q = on_start_scope(p, d, type)
  OBVIOUS
<1>10. /\ ParserType(q) /\ q.tape = tape /\ q.current_loc = loc
       /\ q.current_string_buf_loc = str /\ q.string_high = high /\ q.containing_scope = new
  BY <1>3, <1>5, <1>8, <1>9, ParserMade
<1>11. \A e \in 0..MaxDepth - 1 :
         q.containing_scope[e] = IF e = d THEN [tape_index |-> p.current_loc, count |-> 0]
                                 ELSE p.containing_scope[e]
  BY <1>2, <1>3, <1>4, <1>8, <1>10
<1> QED
  BY <1>2, <1>3, <1>9, <1>10, <1>11

LEMMA SmallerOf ==
  ASSUME NEW m \in Nat, NEW n \in Nat
  PROVE  Min({m, n}) = IF m <= n THEN m ELSE n
<1> DEFINE least == IF m <= n THEN m ELSE n
<1>1. least \in {m, n} /\ \A y \in {m, n} : least <= y
  OBVIOUS
<1>2. \A x \in {m, n} : (\A y \in {m, n} : x <= y) => x = least
  OBVIOUS
<1> HIDE DEF least
<1>3. Min({m, n}) \in {m, n} /\ \A y \in {m, n} : Min({m, n}) <= y
  BY <1>1 DEF Min
<1>4. Min({m, n}) = least
  BY <1>2, <1>3
<1> QED
  BY <1>4 DEF least

\* What the end of a scope writes: its own word at the cursor, and the word that
\* began the scope, at place i.
Closed(tape, loc, new, type, i, count) ==
  /\ new[loc] = Word(type, i)
  /\ new[i] = [type |-> tape[i].type, val |-> loc + 1, count |-> count]
  /\ \A n \in 0..loc - 1 : n # i => new[n] = tape[n]

LEMMA ScopeEnded ==
  ASSUME NEW p, ParserType(p), NEW d \in 0..MaxDepth - 1, NEW type \in WordTypes,
         p.containing_scope[d].tape_index < p.current_loc
  PROVE  LET q == on_end_scope(p, d, type)
             scope == p.containing_scope[d]
         IN  /\ ParserType(q)
             /\ q.current_loc = p.current_loc + 1
             /\ Closed(p.tape, p.current_loc, q.tape, type, scope.tape_index,
                       IF scope.count <= CountLimit THEN scope.count ELSE CountLimit)
             /\ q.current_string_buf_loc = p.current_string_buf_loc
             /\ q.string_high = p.string_high
             /\ q.containing_scope = p.containing_scope
<1>1. PICK i, c : i = p.containing_scope[d].tape_index /\ c = p.containing_scope[d].count
  OBVIOUS
<1>2. i \in Nat /\ c \in Nat /\ p.current_loc \in Nat /\ i < p.current_loc /\ CountLimit \in Nat
  BY <1>1, BufferAssumption DEF ParserType, ScopesOf, Scope
<1>3. PICK w, m : w = write_tape(p, type, i) /\ m = IF c <= CountLimit THEN c ELSE CountLimit
  OBVIOUS
<1>4. /\ ParserType(w) /\ w.current_loc = p.current_loc + 1
      /\ Written(p.tape, p.current_loc, w.tape, Word(type, i))
      /\ w.current_string_buf_loc = p.current_string_buf_loc /\ w.string_high = p.string_high
      /\ w.containing_scope = p.containing_scope
  BY <1>2, <1>3, WordWritten
<1>5. PICK tape, loc, buf, str, high, scopes :
        /\ w = ParserOf(tape, loc, buf, str, high, scopes)
        /\ w.tape = tape /\ w.current_loc = loc /\ w.string_buf = buf
        /\ w.current_string_buf_loc = str /\ w.string_high = high /\ w.containing_scope = scopes
        /\ loc \in Nat /\ str \in Nat /\ high \in Nat /\ scopes \in ScopesOf /\ TapeType(tape, loc)
  BY <1>4, ParserParts
<1>6. i \in DOMAIN tape /\ tape[i] \in TapeWord /\ i \in 0..p.current_loc - 1 /\ i \in 0..loc - 1
  BY <1>2, <1>4, <1>5 DEF TapeType
<1>7. PICK old : old = p.tape /\ tape[i] = old[i]
  BY <1>4, <1>5, <1>6 DEF Written
<1>8. PICK ty, v, k : tape[i] = [type |-> ty, val |-> v, count |-> k] /\ ty \in WordTypes
  BY <1>6 DEF TapeWord
<1>9. PICK word, new : word = [type |-> ty, val |-> loc, count |-> m] /\ new = [tape EXCEPT ![i] = word]
  OBVIOUS
<1>10. Min({c, CountLimit}) = m
  BY <1>2, <1>3, SmallerOf
<1>11. end_scope(w, d) = ParserOf(new, loc, buf, str, high, scopes)
  <2>1. scopes[d].tape_index = i /\ scopes[d].count = c
    BY <1>1, <1>4, <1>5
  <2>2. PICK one, first, t : /\ one = [tape[i] EXCEPT !.val = loc]
                             /\ first = [tape EXCEPT ![i] = one] /\ t = [w EXCEPT !.tape = first]
    OBVIOUS
  <2>3. one = [type |-> ty, val |-> loc, count |-> k]
    BY <1>8, <2>2
  <2>4. first[i] = one
    BY <1>6, <2>2
  <2>5. [first EXCEPT ![i] = [first[i] EXCEPT !.count = m]] = new
    <3>1. [first[i] EXCEPT !.count = m] = word
      BY <1>9, <2>3, <2>4
    <3>2. [[tape EXCEPT ![i] = one] EXCEPT ![i] = word] = [tape EXCEPT ![i] = word]
      OBVIOUS
    <3> QED
      BY <1>9, <2>2, <3>1, <3>2
  <2>6. t = ParserOf(first, loc, buf, str, high, scopes)
    BY <1>5, <2>2 DEF ParserOf
  <2>7. t.tape = first
    BY <2>6, ParserMade
  <2>8. end_scope(w, d) = [w EXCEPT !.tape[i].val = loc, !.tape[i].count = m]
    BY <1>5, <1>10, <2>1 DEF end_scope
  <2>9. [w EXCEPT !.tape[i].val = loc] = t
    BY <1>5, <2>2
  <2>10. [w EXCEPT !.tape[i].val = loc, !.tape[i].count = m] = [t EXCEPT !.tape[i].count = m]
    BY <2>9
  <2>11. [t EXCEPT !.tape[i].count = m] = [t EXCEPT !.tape = new]
    BY <2>5, <2>7
  <2> QED
    BY <2>6, <2>8, <2>10, <2>11 DEF ParserOf
<1>12. word \in TapeWord
  BY <1>2, <1>3, <1>5, <1>8, <1>9 DEF TapeWord
<1>13. DOMAIN new = DOMAIN tape /\ \A n \in DOMAIN tape : new[n] = IF n = i THEN word ELSE tape[n]
  BY <1>6, <1>9
<1>14. TapeType(new, loc)
  BY <1>5, <1>12, <1>13 DEF TapeType
<1>15. Closed(old, p.current_loc, new, type, i, m)
  <2>1. \A n \in 0..loc - 1 : n \in DOMAIN tape
    BY <1>5 DEF TapeType
  <2>2. tape[p.current_loc] = Word(type, i) /\ \A n \in 0..p.current_loc - 1 : tape[n] = old[n]
    BY <1>4, <1>5, <1>7 DEF Written
  <2>3. new[p.current_loc] = Word(type, i)
    BY <1>2, <1>4, <1>5, <1>13, <2>1, <2>2
  <2>4. new[i] = [type |-> old[i].type, val |-> p.current_loc + 1, count |-> m]
    BY <1>4, <1>5, <1>6, <1>7, <1>8, <1>9, <1>13
  <2>5. \A n \in 0..p.current_loc - 1 : n # i => new[n] = old[n]
    BY <1>2, <1>4, <1>5, <1>13, <2>1, <2>2
  <2> QED
    BY <2>3, <2>4, <2>5 DEF Closed
<1>16. on_end_scope(p, d, type) = end_scope(w, d)
  BY <1>1, <1>3 DEF on_end_scope
<1> QED
  BY <1>1, <1>3, <1>4, <1>5, <1>7, <1>11, <1>14, <1>15, <1>16, ParserMade

LEMMA AtomWritten ==
  ASSUME NEW p, ParserType(p), NEW t \in Atoms
  PROVE  LET q == on_atom(p, t)
         IN  /\ ParserType(q)
             /\ q.current_loc = p.current_loc + 1
             /\ Written(p.tape, p.current_loc, q.tape, Word(t, 0))
             /\ q.current_string_buf_loc = p.current_string_buf_loc
             /\ q.string_high = p.string_high
             /\ q.containing_scope = p.containing_scope
<1>1. t \in WordTypes
  BY DEF WordTypes
<1> QED
  BY <1>1, WordWritten DEF on_atom

LEMMA NumberWritten ==
  ASSUME NEW p, ParserType(p), NEW t \in Numbers
  PROVE  LET q == on_number(p, t)
         IN  /\ ParserType(q)
             /\ q.current_loc = p.current_loc + 2
             /\ Written(p.tape, p.current_loc, q.tape, Word(IF t = "7" THEN "l" ELSE "u", 0))
             /\ q.tape[p.current_loc + 1] = Word(t, 0)
             /\ q.current_string_buf_loc = p.current_string_buf_loc
             /\ q.string_high = p.string_high
             /\ q.containing_scope = p.containing_scope
<1>1. PICK type : type = (IF t = "7" THEN "l" ELSE "u")
  OBVIOUS
<1>2. type \in WordTypes /\ t \in WordTypes
  BY <1>1 DEF WordTypes
<1>3. PICK w : w = write_tape(p, type, 0)
  OBVIOUS
<1>4. /\ ParserType(w) /\ w.current_loc = p.current_loc + 1
      /\ Written(p.tape, p.current_loc, w.tape, Word(type, 0))
      /\ w.current_string_buf_loc = p.current_string_buf_loc /\ w.string_high = p.string_high
      /\ w.containing_scope = p.containing_scope
  BY <1>2, <1>3, WordWritten
<1>5. PICK q : q = write_tape(w, t, 0)
  OBVIOUS
<1>6. /\ ParserType(q) /\ q.current_loc = w.current_loc + 1
      /\ Written(w.tape, w.current_loc, q.tape, Word(t, 0))
      /\ q.current_string_buf_loc = w.current_string_buf_loc /\ q.string_high = w.string_high
      /\ q.containing_scope = w.containing_scope
  BY <1>2, <1>4, <1>5, WordWritten
<1>7. p.current_loc \in Nat
  BY DEF ParserType
<1>8. Written(p.tape, p.current_loc, q.tape, Word(type, 0))
  BY <1>4, <1>6, <1>7 DEF Written
<1>9. q.current_loc = p.current_loc + 2
  BY <1>4, <1>6, <1>7
<1>10. q.tape[p.current_loc + 1] = Word(t, 0)
  BY <1>4, <1>6 DEF Written
<1>11. on_number(p, t) = q
  BY <1>1, <1>3, <1>5 DEF on_number
<1> QED
  BY <1>1, <1>4, <1>6, <1>8, <1>9, <1>10, <1>11

LEMMA StringBegun ==
  ASSUME NEW p, ParserType(p), NEW t \in Tokens
  PROVE  LET q == on_start_string(p, t)
         IN  /\ ParserType(q)
             /\ q.current_loc = p.current_loc + 1
             /\ Written(p.tape, p.current_loc, q.tape, Word("\"", p.current_string_buf_loc))
             /\ q.current_string_buf_loc = p.current_string_buf_loc
             /\ q.string_high = p.current_string_buf_loc + 4 + Contents(t) + Padding
             /\ q.containing_scope = p.containing_scope
<1>1. PICK w : w = write_tape(p, "\"", p.current_string_buf_loc)
  OBVIOUS
<1>2. /\ p.current_string_buf_loc \in Nat /\ Contents(t) \in Nat /\ Padding \in Nat
      /\ "\"" \in WordTypes
  <2>1. p.current_string_buf_loc \in Nat /\ Padding \in Nat
    BY BufferAssumption DEF ParserType
  <2>2. Contents(t) \in Nat
    BY Widths
  <2>3. "\"" \in WordTypes
    BY DEF WordTypes
  <2> QED
    BY <2>1, <2>2, <2>3
<1>3. /\ ParserType(w) /\ w.current_loc = p.current_loc + 1
      /\ Written(p.tape, p.current_loc, w.tape, Word("\"", p.current_string_buf_loc))
      /\ w.current_string_buf_loc = p.current_string_buf_loc
      /\ w.containing_scope = p.containing_scope
  BY <1>1, <1>2, WordWritten
<1>4. PICK tape, loc, buf, str, high, scopes :
        /\ w = ParserOf(tape, loc, buf, str, high, scopes)
        /\ w.tape = tape /\ w.current_loc = loc /\ w.string_buf = buf
        /\ w.current_string_buf_loc = str /\ w.string_high = high /\ w.containing_scope = scopes
        /\ loc \in Nat /\ str \in Nat /\ high \in Nat /\ scopes \in ScopesOf /\ TapeType(tape, loc)
  BY <1>3, ParserParts
<1>5. PICK top : top = p.current_string_buf_loc + 4 + Contents(t) + Padding
  OBVIOUS
<1>6. top \in Nat
  <2>1. PICK m, c, n : m = p.current_string_buf_loc /\ c = Contents(t) /\ n = Padding
    OBVIOUS
  <2>2. m \in Nat /\ c \in Nat /\ n \in Nat
    BY <1>2, <2>1
  <2>3. top = m + 4 + c + n
    BY <1>5, <2>1
  <2> QED
    BY <2>2, <2>3
<1>7. on_start_string(p, t) = ParserOf(tape, loc, buf, str, top, scopes)
  <2>1. on_start_string(p, t) = [w EXCEPT !.string_high = top]
    BY <1>1, <1>5 DEF on_start_string
  <2> QED
    BY <1>4, <2>1 DEF ParserOf
<1>8. PICK q : q = on_start_string(p, t)
  OBVIOUS
<1>9. /\ ParserType(q) /\ q.tape = tape /\ q.current_loc = loc
      /\ q.current_string_buf_loc = str /\ q.string_high = top /\ q.containing_scope = scopes
  BY <1>4, <1>6, <1>7, <1>8, ParserMade
<1> QED
  BY <1>3, <1>4, <1>5, <1>8, <1>9

LEMMA StringRead ==
  ASSUME NEW p, ParserType(p), NEW t \in Tokens
  PROVE  LET q == parse_string(p, t)
         IN  /\ ParserType(q)
             /\ q.current_loc = p.current_loc + 1
             /\ Written(p.tape, p.current_loc, q.tape, Word("\"", p.current_string_buf_loc))
             /\ q.current_string_buf_loc = p.current_string_buf_loc + 4 + Contents(t) + 1
             /\ q.string_high = p.current_string_buf_loc + 4 + Contents(t) + Padding
             /\ q.containing_scope = p.containing_scope
<1>1. PICK w : w = on_start_string(p, t)
  OBVIOUS
<1>2. /\ ParserType(w) /\ w.current_loc = p.current_loc + 1
      /\ Written(p.tape, p.current_loc, w.tape, Word("\"", p.current_string_buf_loc))
      /\ w.current_string_buf_loc = p.current_string_buf_loc
      /\ w.string_high = p.current_string_buf_loc + 4 + Contents(t) + Padding
      /\ w.containing_scope = p.containing_scope
  BY <1>1, StringBegun
<1>3. PICK tape, loc, buf, str, high, scopes :
        /\ w = ParserOf(tape, loc, buf, str, high, scopes)
        /\ w.tape = tape /\ w.current_loc = loc /\ w.string_buf = buf
        /\ w.current_string_buf_loc = str /\ w.string_high = high /\ w.containing_scope = scopes
        /\ loc \in Nat /\ str \in Nat /\ high \in Nat /\ scopes \in ScopesOf /\ TapeType(tape, loc)
  BY <1>2, ParserParts
<1>4. Contents(t) \in Nat
  BY Widths
<1>5. PICK copied, next : copied = With(buf, str, t) /\ next = str + 4 + Contents(t) + 1
  OBVIOUS
<1>6. next \in Nat
  BY <1>3, <1>4, <1>5
<1>7. parse_string(p, t) = ParserOf(tape, loc, copied, next, high, scopes)
  <2>1. PICK q : q = [w EXCEPT !.string_buf = copied]
    OBVIOUS
  <2>2. q = ParserOf(tape, loc, copied, str, high, scopes)
    BY <1>3, <2>1 DEF ParserOf
  <2>3. q.current_string_buf_loc = str
    BY <2>2, ParserMade
  <2>4. parse_string(p, t) = [q EXCEPT !.current_string_buf_loc = next]
    BY <1>1, <1>3, <1>5, <2>1, <2>3 DEF parse_string, on_end_string
  <2> QED
    BY <2>2, <2>4 DEF ParserOf
<1>8. PICK q : q = parse_string(p, t)
  OBVIOUS
<1>9. /\ ParserType(q) /\ q.tape = tape /\ q.current_loc = loc
      /\ q.current_string_buf_loc = next /\ q.string_high = high /\ q.containing_scope = scopes
  BY <1>3, <1>6, <1>7, <1>8, ParserMade
<1> QED
  BY <1>2, <1>3, <1>5, <1>8, <1>9
-----------------------------------------------------------------------------
(***************************************************************************)
(* What holds at each label.                                               *)
(***************************************************************************)
InArray   == {"array_begin", "array_continue", "main_array_switch"}
InObject  == {"object_begin", "object_key_state", "object_value", "object_continue", "object_next_key"}
Running   == {"first_value", "finish"} \cup InArray \cup InObject
Returns   == {"error", "finish", "array_continue", "object_continue"}
ValueDue  == {"array_begin", "main_array_switch", "object_begin", "object_value", "object_next_key"}
ValueDone == {"array_continue", "object_continue", "finish"}

TypeRight ==
  /\ label \in {"start", "success", "error"} \cup Running
  /\ tokens \in Seq(Tokens \cup {End}) /\ IsFiniteSet(Bytes(tokens))
  /\ depth \in 0..MaxDepth
  /\ ret_address \in [0..MaxDepth - 1 -> Returns]
  /\ ParserType(parser)

DepthRight ==
  /\ label = "start" => depth = 0 /\ tokens = <<>>
  /\ label \in Running => depth \in 1..MaxDepth - 1
  /\ label \in {"first_value", "finish"} => depth = 1
  /\ label \in InArray \cup InObject => depth >= 2
  /\ label = "first_value" => \E t \in Tokens : tokens = <<t>>

Size == Cardinality(Bytes(tokens))

\* By the bytes n of the text so far: the tape and the string buffer have room for
\* what comes next.  A value that may take more words than it has bytes comes at
\* most every other byte, which the parity of the depth keeps count of.
Due(n, d, loc, str)  == loc <= n + 1 /\ (loc = n + 1 => (n + d) % 2 = 1) /\ 3 * str <= 5 * n - 5
Done(n, d, loc, str) == loc <= n + 2 /\ (loc = n + 2 => (n + d) % 2 = 0) /\ (d > 1 => 3 * str <= 5 * n)
Keyed(n, loc, str)   == loc <= n /\ 3 * str <= 5 * n
Over(n, loc)         == loc <= n + 3 /\ (loc = n + 3 => n % 2 = 1)

RoomRight ==
  LET loc == parser.current_loc
      str == parser.current_string_buf_loc
  IN  /\ label = "first_value" => loc = 1 /\ str = 0 /\ parser.string_high = 0
      /\ label \in ValueDue => Due(Size, depth, loc, str)
      /\ label \in ValueDone => Done(Size, depth, loc, str)
      /\ label = "object_key_state" => Keyed(Size, loc, str)
      /\ Stopped => Over(Size, loc)
      /\ label # "start" => parser.string_high <= StringCapacity(Size)

\* The open scopes begin one within the other.
Index(p, d) == p.containing_scope[d].tape_index

Continue(type) == IF type = "{" THEN "object_continue" ELSE "array_continue"

OpenScopes(p, d, ret) ==
  /\ Index(p, 0) = 0
  /\ p.tape[0].type = "r"
  /\ \A e \in 0..d - 1 : Index(p, e) < p.current_loc
  /\ \A e \in 0..d - 1, f \in 0..d - 1 : e < f => Index(p, e) < Index(p, f)
  /\ \A e \in 1..d - 1 :
       /\ p.tape[Index(p, e)].type \in {"{", "["}
       /\ ret[e] = IF e = 1 THEN "finish" ELSE Continue(p.tape[Index(p, e - 1)].type)

IsOpen(p, d, i) == \E e \in 0..d - 1 : Index(p, e) = i

\* Two words that lead to each other.
Pair(tape, i, j) ==
  /\ i < j /\ tape[i].val = j + 1
  /\ tape[j] = Word(Closer(tape[i].type), i)

BeginsOf(p) == {i \in 1..p.current_loc - 1 : p.tape[i].type \in {"{", "["}}
EndsOf(p)   == {j \in 1..p.current_loc - 1 : p.tape[j].type \in {"}", "]"}}

\* The scopes that have ended, which nest among each other and the open ones.
ClosedScopes(p, d) ==
  /\ \A i \in BeginsOf(p) : IsOpen(p, d, i) \/ \E j \in EndsOf(p) : Pair(p.tape, i, j)
  /\ \A j \in EndsOf(p) : \E i \in BeginsOf(p) : Pair(p.tape, i, j) /\ ~IsOpen(p, d, i)
  /\ \A i \in BeginsOf(p), k \in BeginsOf(p) :
       ~IsOpen(p, d, i) /\ ~IsOpen(p, d, k) /\ i < k /\ k < p.tape[i].val
         => p.tape[k].val < p.tape[i].val
  /\ \A i \in BeginsOf(p), e \in 0..d - 1 :
       ~IsOpen(p, d, i) /\ i < Index(p, e) => p.tape[i].val <= Index(p, e)

ScopesRight ==
  label \in Running =>
    /\ OpenScopes(parser, depth, ret_address) /\ ClosedScopes(parser, depth)
    /\ label \in InArray => parser.tape[Index(parser, depth - 1)].type = "["
    /\ label \in InObject => parser.tape[Index(parser, depth - 1)].type = "{"

\* All but the sizes, and all.
Kept == TypeRight /\ DepthRight /\ ScopesRight /\ TapeLinked
IInv == Kept /\ RoomRight

-----------------------------------------------------------------------------
(***************************************************************************)
(* The scopes, through the callbacks.                                      *)
(***************************************************************************)
Leaf(word) == word.type \notin {"{", "[", "}", "]"}

\* Words that neither begin nor end a scope, behind those there were.
OnlyLeaves(p, q) ==
  /\ q.current_loc >= p.current_loc
  /\ \A n \in 0..p.current_loc - 1 : q.tape[n] = p.tape[n]
  /\ \A n \in p.current_loc..q.current_loc - 1 : Leaf(q.tape[n])

SameIndexes(p, q, d) == \A e \in 0..d - 1 : Index(q, e) = Index(p, e)

NewIndex(p, q, d) ==
  \A e \in 0..MaxDepth - 1 : Index(q, e) = IF e = d THEN p.current_loc ELSE Index(p, e)

LEMMA LeafScopes ==
  ASSUME NEW p, NEW q, ParserType(p), ParserType(q), NEW d \in 1..MaxDepth, NEW ret,
         OnlyLeaves(p, q), SameIndexes(p, q, d),
         OpenScopes(p, d, ret), ClosedScopes(p, d)
  PROVE  OpenScopes(q, d, ret) /\ ClosedScopes(q, d)
         /\ q.tape[Index(q, d - 1)] = p.tape[Index(p, d - 1)]
<1>1. p.current_loc \in Nat /\ q.current_loc \in Nat /\ d \in Nat /\ d >= 1
      /\ p.current_loc <= q.current_loc
  <2>1. p.current_loc \in Nat /\ q.current_loc \in Nat
    BY DEF ParserType
  <2>2. p.current_loc <= q.current_loc
    BY <2>1 DEF OnlyLeaves
  <2> QED
    BY <2>1, <2>2, BufferAssumption
<1>2. \A e \in 0..d - 1 : Index(p, e) \in 0..p.current_loc - 1
  <2> TAKE e \in 0..d - 1
  <2>1. e \in 0..MaxDepth - 1 /\ p.containing_scope \in ScopesOf
    BY BufferAssumption DEF ParserType
  <2>2. Index(p, e) \in Nat
    BY <2>1 DEF Index, ScopesOf, Scope
  <2>3. Index(p, e) < p.current_loc
    BY DEF OpenScopes
  <2> QED
    BY <1>1, <2>2, <2>3
<1>3. OpenScopes(q, d, ret) /\ q.tape[Index(q, d - 1)] = p.tape[Index(p, d - 1)]
  <2>1. \A e \in 0..d - 1 : Index(q, e) = Index(p, e) /\ q.tape[Index(q, e)] = p.tape[Index(p, e)]
    BY <1>2 DEF OnlyLeaves, SameIndexes
  <2>2. 0 \in 0..d - 1 /\ d - 1 \in 0..d - 1
    BY <1>1
  <2>3. Index(q, 0) = 0 /\ q.tape[0].type = "r"
    <3>1. Index(p, 0) = 0 /\ p.tape[0].type = "r"
      BY DEF OpenScopes
    <3>2. Index(q, 0) = Index(p, 0) /\ q.tape[Index(q, 0)] = p.tape[Index(p, 0)]
      BY <2>1, <2>2
    <3> QED
      BY <3>1, <3>2
  <2>4. \A e \in 0..d - 1 : Index(q, e) < q.current_loc
    BY <1>1, <1>2, <2>1
  <2>5. \A e \in 0..d - 1, f \in 0..d - 1 : e < f => Index(q, e) < Index(q, f)
    BY <2>1 DEF OpenScopes
  <2>6. \A e \in 1..d - 1 :
          /\ q.tape[Index(q, e)].type \in {"{", "["}
          /\ ret[e] = IF e = 1 THEN "finish" ELSE Continue(q.tape[Index(q, e - 1)].type)
    <3> TAKE e \in 1..d - 1
    <3>1. e \in 0..d - 1 /\ e - 1 \in 0..d - 1
      BY <1>1
    <3> QED
      BY <2>1, <3>1 DEF OpenScopes
  <2> QED
    BY <2>1, <2>2, <2>3, <2>4, <2>5, <2>6 DEF OpenScopes
<1>4. BeginsOf(q) = BeginsOf(p) /\ EndsOf(q) = EndsOf(p)
  <2>1. \A n \in 1..q.current_loc - 1 :
          n \in 1..p.current_loc - 1 \/ n \in p.current_loc..q.current_loc - 1
    BY <1>1
  <2>2. \A n \in 1..p.current_loc - 1 : n \in 1..q.current_loc - 1 /\ n \in 0..p.current_loc - 1
    BY <1>1
  <2> QED
    BY <2>1, <2>2 DEF BeginsOf, EndsOf, OnlyLeaves, Leaf
<1>5. \A i : IsOpen(q, d, i) <=> IsOpen(p, d, i)
  BY DEF IsOpen, SameIndexes
<1>6. \A i \in BeginsOf(p) \cup EndsOf(p) : q.tape[i] = p.tape[i]
  <2> TAKE i \in BeginsOf(p) \cup EndsOf(p)
  <2>1. i \in 1..p.current_loc - 1
    BY DEF BeginsOf, EndsOf
  <2>2. i \in 0..p.current_loc - 1
    BY <1>1, <2>1
  <2> QED
    BY <2>2 DEF OnlyLeaves
<1>7. \A i \in BeginsOf(p), j \in EndsOf(p) : Pair(q.tape, i, j) <=> Pair(p.tape, i, j)
  BY <1>6 DEF Pair
<1>8. ClosedScopes(q, d)
  <2>1. \A i \in BeginsOf(q) : IsOpen(q, d, i) \/ \E j \in EndsOf(q) : Pair(q.tape, i, j)
    BY <1>4, <1>5, <1>7 DEF ClosedScopes
  <2>2. \A j \in EndsOf(q) : \E i \in BeginsOf(q) : Pair(q.tape, i, j) /\ ~IsOpen(q, d, i)
    BY <1>4, <1>5, <1>7 DEF ClosedScopes
  <2>3. \A i \in BeginsOf(q), k \in BeginsOf(q) :
          ~IsOpen(q, d, i) /\ ~IsOpen(q, d, k) /\ i < k /\ k < q.tape[i].val
            => q.tape[k].val < q.tape[i].val
    BY <1>4, <1>5, <1>6 DEF ClosedScopes
  <2>4. \A i \in BeginsOf(q), e \in 0..d - 1 :
          ~IsOpen(q, d, i) /\ i < Index(q, e) => q.tape[i].val <= Index(q, e)
    BY <1>4, <1>5, <1>6 DEF ClosedScopes, SameIndexes
  <2> QED
    BY <2>1, <2>2, <2>3, <2>4 DEF ClosedScopes
<1> QED
  BY <1>3, <1>8

\* Where to go on when the new scope ends.
Returned(p, d, ret, new) ==
  /\ new[d] = IF d = 1 THEN "finish" ELSE Continue(p.tape[Index(p, d - 1)].type)
  /\ \A e \in 1..d - 1 : new[e] = ret[e]

Opening(type) == type \in {"{", "["}

LEMMA ScopeBegins ==
  ASSUME NEW p, NEW q, ParserType(p), ParserType(q), NEW d \in 1..MaxDepth - 1,
         NEW ret, NEW new, Returned(p, d, ret, new), NEW type, Opening(type),
         q.current_loc = p.current_loc + 1,
         Written(p.tape, p.current_loc, q.tape, Word(type, 0)),
         NewIndex(p, q, d),
         OpenScopes(p, d, ret), ClosedScopes(p, d)
  PROVE  OpenScopes(q, d + 1, new) /\ ClosedScopes(q, d + 1)
         /\ q.tape[Index(q, d)].type = type
<1>1. p.current_loc \in Nat /\ d \in Nat /\ d >= 1 /\ d \in 0..MaxDepth - 1 /\ MaxDepth \in Nat
  BY BufferAssumption DEF ParserType
<1>2. \A e \in 0..d - 1 : Index(p, e) \in 0..p.current_loc - 1 /\ e \in 0..MaxDepth - 1 /\ e # d
  <2> TAKE e \in 0..d - 1
  <2>1. e \in 0..MaxDepth - 1 /\ p.containing_scope \in ScopesOf
    BY <1>1 DEF ParserType
  <2>2. Index(p, e) \in Nat
    BY <2>1 DEF Index, ScopesOf, Scope
  <2>3. Index(p, e) < p.current_loc
    BY DEF OpenScopes
  <2> QED
    BY <1>1, <2>1, <2>2, <2>3
<1>3. PICK loc, old, tape : loc = p.current_loc /\ old = p.tape /\ tape = q.tape
  OBVIOUS
<1>4. tape[loc].type = type /\ \A n \in 0..loc - 1 : tape[n] = old[n]
  BY <1>3 DEF Written, Word
<1>5. /\ Index(q, d) = loc
      /\ \A e \in 0..d - 1 : Index(q, e) = Index(p, e) /\ Index(p, e) \in 0..loc - 1
                             /\ tape[Index(q, e)] = old[Index(p, e)]
  BY <1>1, <1>2, <1>3, <1>4 DEF NewIndex
<1>6. \A e \in 0..d : e = d \/ e \in 0..d - 1
  BY <1>1
<1>7. /\ new[d] = IF d = 1 THEN "finish" ELSE Continue(old[Index(p, d - 1)].type)
      /\ \A e \in 1..d - 1 : new[e] = ret[e]
      /\ type \in {"{", "["}
  BY <1>3 DEF Returned, Opening
<1>8. OpenScopes(q, d + 1, new)
  <2>1. Index(q, 0) = 0 /\ tape[0].type = "r"
    <3>1. 0 \in 0..d - 1
      BY <1>1
    <3> QED
      BY <1>3, <1>5, <3>1 DEF OpenScopes
  <2>2. \A e \in 0..d : Index(q, e) < loc + 1
    BY <1>1, <1>3, <1>5, <1>6
  <2>3. \A e \in 0..d, f \in 0..d : e < f => Index(q, e) < Index(q, f)
    <3> TAKE e \in 0..d, f \in 0..d
    <3>1. CASE f = d
      BY <1>1, <1>3, <1>5, <1>6, <3>1
    <3>2. CASE f \in 0..d - 1
      <4>1. e < f => e \in 0..d - 1
        BY <1>1, <3>2
      <4> QED
        BY <1>5, <3>2, <4>1 DEF OpenScopes
    <3> QED
      BY <1>6, <3>1, <3>2
  <2>4. \A e \in 1..d :
          /\ tape[Index(q, e)].type \in {"{", "["}
          /\ new[e] = IF e = 1 THEN "finish" ELSE Continue(tape[Index(q, e - 1)].type)
    <3> TAKE e \in 1..d
    <3>1. e - 1 \in 0..d - 1
      BY <1>1
    <3>2. CASE e = d
      BY <1>3, <1>4, <1>5, <1>7, <3>1, <3>2
    <3>3. CASE e # d
      <4>1. e \in 1..d - 1 /\ e \in 0..d - 1
        BY <1>1, <3>3
      <4> QED
        BY <1>3, <1>5, <1>7, <3>1, <3>3, <4>1 DEF OpenScopes
    <3> QED
      BY <3>2, <3>3
  <2>5. (d + 1) - 1 = d
    BY <1>1
  <2> QED
    BY <1>3, <2>1, <2>2, <2>3, <2>4, <2>5 DEF OpenScopes
<1>9. BeginsOf(q) = BeginsOf(p) \cup {loc} /\ EndsOf(q) = EndsOf(p)
  <2>1. loc >= 1
    <3>1. 0 \in 0..d - 1
      BY <1>1
    <3> QED
      BY <1>1, <1>2, <1>3, <3>1
  <2>2. \A n \in 1..(loc + 1) - 1 : n = loc \/ n \in 1..loc - 1
    BY <1>1, <1>3
  <2>3. loc \in 1..(loc + 1) - 1
        /\ \A n \in 1..loc - 1 : n \in 1..(loc + 1) - 1 /\ tape[n] = old[n]
    BY <1>1, <1>3, <1>4, <2>1
  <2> QED
    BY <1>3, <1>4, <1>7, <2>2, <2>3 DEF BeginsOf, EndsOf
<1>10. \A i : IsOpen(q, d + 1, i) <=> IsOpen(p, d, i) \/ i = loc
  <2>1. (d + 1) - 1 = d /\ d \in 0..d /\ \A e \in 0..d - 1 : e \in 0..d
    BY <1>1
  <2> QED
    BY <1>5, <1>6, <2>1 DEF IsOpen
<1>11. \A i \in BeginsOf(p) \cup EndsOf(p) : tape[i] = old[i] /\ i \in 1..loc - 1 /\ i # loc
  <2> TAKE i \in BeginsOf(p) \cup EndsOf(p)
  <2>1. i \in 1..loc - 1
    BY <1>3 DEF BeginsOf, EndsOf
  <2>2. i \in 0..loc - 1 /\ i # loc
    BY <1>1, <1>3, <2>1
  <2> QED
    BY <1>4, <2>1, <2>2
<1>12. \A i \in BeginsOf(p), j \in EndsOf(p) : Pair(tape, i, j) <=> Pair(old, i, j)
  BY <1>11 DEF Pair
<1>13. ClosedScopes(q, d + 1)
  <2>1. \A i \in BeginsOf(q) : IsOpen(q, d + 1, i) \/ \E j \in EndsOf(q) : Pair(tape, i, j)
    BY <1>3, <1>9, <1>10, <1>12 DEF ClosedScopes
  <2>2. \A j \in EndsOf(q) : \E i \in BeginsOf(q) : Pair(tape, i, j) /\ ~IsOpen(q, d + 1, i)
    BY <1>3, <1>9, <1>10, <1>11, <1>12 DEF ClosedScopes
  <2>3. \A i \in BeginsOf(q) : ~IsOpen(q, d + 1, i) => i \in BeginsOf(p) /\ ~IsOpen(p, d, i)
    BY <1>9, <1>10
  <2>4. \A i \in BeginsOf(q), k \in BeginsOf(q) :
          ~IsOpen(q, d + 1, i) /\ ~IsOpen(q, d + 1, k) /\ i < k /\ k < tape[i].val
            => tape[k].val < tape[i].val
    BY <1>3, <1>11, <2>3 DEF ClosedScopes
  <2>5. \A i \in BeginsOf(p) : ~IsOpen(p, d, i) => tape[i].val <= loc
    <3> SUFFICES ASSUME NEW i \in BeginsOf(p), ~IsOpen(p, d, i) PROVE tape[i].val <= loc
      OBVIOUS
    <3>1. PICK j \in EndsOf(p) : Pair(old, i, j)
      BY <1>3 DEF ClosedScopes
    <3> QED
      BY <1>1, <1>3, <1>11, <3>1 DEF Pair
  <2>6. \A i \in BeginsOf(q), e \in 0..(d + 1) - 1 :
          ~IsOpen(q, d + 1, i) /\ i < Index(q, e) => tape[i].val <= Index(q, e)
    <3> SUFFICES ASSUME NEW i \in BeginsOf(q), NEW e \in 0..(d + 1) - 1,
                        ~IsOpen(q, d + 1, i), i < Index(q, e)
                 PROVE  tape[i].val <= Index(q, e)
      OBVIOUS
    <3>1. CASE e = d
      BY <1>5, <2>3, <2>5, <3>1
    <3>2. CASE e \in 0..d - 1
      BY <1>3, <1>5, <1>11, <2>3, <3>2 DEF ClosedScopes
    <3> QED
      BY <1>1, <3>1, <3>2
  <2> QED
    BY <1>3, <2>1, <2>2, <2>4, <2>6 DEF ClosedScopes
<1> QED
  BY <1>3, <1>4, <1>5, <1>8, <1>13

LEMMA ScopeEnds ==
  ASSUME NEW p, NEW q, ParserType(p), ParserType(q), NEW d \in 2..MaxDepth - 1, NEW ret, NEW count,
         q.current_loc = p.current_loc + 1,
         Closed(p.tape, p.current_loc, q.tape, Closer(p.tape[Index(p, d - 1)].type), Index(p, d - 1), count),
         SameIndexes(p, q, d), OpenScopes(p, d, ret), ClosedScopes(p, d)
  PROVE  /\ OpenScopes(q, d - 1, ret) /\ ClosedScopes(q, d - 1)
         /\ q.tape[Index(q, d - 2)].type = p.tape[Index(p, d - 2)].type
<1>1. p.current_loc \in Nat /\ d \in Nat /\ d >= 2 /\ d - 1 \in 0..d - 1 /\ d - 1 \in 1..d - 1 /\ MaxDepth \in Nat
  <2>1. p.current_loc \in Nat
    BY DEF ParserType
  <2> QED
    BY <2>1, BufferAssumption
<1>2. \A e \in 0..d - 1 : Index(p, e) \in 0..p.current_loc - 1
  <2> TAKE e \in 0..d - 1
  <2>1. e \in 0..MaxDepth - 1
    BY <1>1
  <2>2. Index(p, e) \in Nat
    BY <2>1 DEF Index, ScopesOf, Scope, ParserType
  <2>3. Index(p, e) < p.current_loc
    BY DEF OpenScopes
  <2> QED
    BY <1>1, <2>2, <2>3
<1>3. PICK loc, old, tape, b : loc = p.current_loc /\ old = p.tape /\ tape = q.tape /\ b = Index(p, d - 1)
  OBVIOUS
<1>4. loc \in Nat /\ b \in 0..loc - 1 /\ b # loc
  BY <1>1, <1>2, <1>3
<1>5. old[b].type \in {"{", "["} /\ Closer(old[b].type) \in {"}", "]"}
  BY <1>1, <1>3 DEF OpenScopes, Closer
<1>6. /\ tape[loc] = Word(Closer(old[b].type), b)
      /\ tape[b].type = old[b].type /\ tape[b].val = loc + 1
      /\ \A n \in 0..loc - 1 : n # b => tape[n] = old[n]
  BY <1>3 DEF Closed
<1>7. \A n \in 0..loc - 1 : tape[n].type = old[n].type
  BY <1>6
<1>8. \A e \in 0..d - 2 : /\ Index(q, e) = Index(p, e) /\ Index(p, e) \in 0..loc - 1 /\ Index(p, e) < b
                         /\ tape[Index(q, e)].type = old[Index(p, e)].type
  <2> TAKE e \in 0..d - 2
  <2>1. e \in 0..d - 1 /\ e < d - 1
    BY <1>1
  <2>2. Index(p, e) < Index(p, d - 1)
    BY <1>1, <2>1 DEF OpenScopes
  <2>3. Index(q, e) = Index(p, e)
    BY <2>1 DEF SameIndexes
  <2> QED
    BY <1>2, <1>3, <1>7, <2>1, <2>2, <2>3
<1>9. OpenScopes(q, d - 1, ret)
  <2>1. Index(q, 0) = 0 /\ tape[0].type = "r"
    <3>1. Index(p, 0) = 0 /\ old[0].type = "r"
      BY <1>3 DEF OpenScopes
    <3>2. 0 \in 0..d - 2
      BY <1>1
    <3> QED
      BY <1>8, <3>1, <3>2
  <2>2. \A e \in 0..(d - 1) - 1 : Index(q, e) < q.current_loc
    BY <1>1, <1>3, <1>4, <1>8
  <2>3. \A e \in 0..(d - 1) - 1, f \in 0..(d - 1) - 1 : e < f => Index(q, e) < Index(q, f)
    <3> TAKE e \in 0..(d - 1) - 1, f \in 0..(d - 1) - 1
    <3>1. e \in 0..d - 1 /\ f \in 0..d - 1 /\ e \in 0..d - 2 /\ f \in 0..d - 2
      BY <1>1
    <3> QED
      BY <1>8, <3>1 DEF OpenScopes
  <2>4. \A e \in 1..(d - 1) - 1 :
          /\ tape[Index(q, e)].type \in {"{", "["}
          /\ ret[e] = IF e = 1 THEN "finish" ELSE Continue(tape[Index(q, e - 1)].type)
    <3> TAKE e \in 1..(d - 1) - 1
    <3>1. e \in 1..d - 1 /\ e \in 0..d - 2 /\ e - 1 \in 0..d - 2
      BY <1>1
    <3> QED
      BY <1>3, <1>8, <3>1 DEF OpenScopes
  <2> QED
    BY <1>3, <2>1, <2>2, <2>3, <2>4 DEF OpenScopes
<1>10. BeginsOf(q) = BeginsOf(p) /\ EndsOf(q) = EndsOf(p) \cup {loc} /\ b \in BeginsOf(p)
  <2>1. b >= 1
    <3>1. Index(p, 0) = 0
      BY DEF OpenScopes
    <3>2. 0 \in 0..d - 2
      BY <1>1
    <3> QED
      BY <1>4, <1>8, <3>1, <3>2
  <2>2. \A n \in 1..(loc + 1) - 1 : n = loc \/ n \in 1..loc - 1
    BY <1>4
  <2>3. /\ loc \in 1..(loc + 1) - 1 /\ b \in 1..loc - 1
        /\ \A n \in 1..loc - 1 : n \in 1..(loc + 1) - 1 /\ tape[n].type = old[n].type
    BY <1>4, <1>7, <2>1
  <2>4. tape[loc].type \in {"}", "]"}
    <3>1. tape[loc].type = Closer(old[b].type)
      BY <1>6 DEF Word
    <3> QED
      BY <1>5, <3>1
  <2> QED
    BY <1>3, <1>5, <2>2, <2>3, <2>4 DEF BeginsOf, EndsOf
<1>11. \A i : IsOpen(q, d - 1, i) <=> IsOpen(p, d, i) /\ i # b
  <2>1. \A e \in 0..d - 1 : e = d - 1 \/ e \in 0..d - 2
    BY <1>1
  <2>2. (d - 1) - 1 = d - 2 /\ \A e \in 0..d - 2 : e \in 0..d - 1
    BY <1>1
  <2>3. \A e \in 0..d - 2 : Index(p, e) # b
    BY <1>4, <1>8
  <2> QED
    BY <1>3, <1>8, <2>1, <2>2, <2>3 DEF IsOpen
<1>12. IsOpen(p, d, b)
  BY <1>1, <1>3 DEF IsOpen
<1>13. \A i \in BeginsOf(p) \cup EndsOf(p) :
         i \in 1..loc - 1 /\ i # loc /\ (i # b => tape[i] = old[i])
  <2> TAKE i \in BeginsOf(p) \cup EndsOf(p)
  <2>1. i \in 1..loc - 1
    BY <1>3 DEF BeginsOf, EndsOf
  <2>2. i \in 0..loc - 1 /\ i # loc
    BY <1>4, <2>1
  <2> QED
    BY <1>6, <2>1, <2>2
<1>14. \A j \in EndsOf(p) : j # b
  BY <1>3, <1>5 DEF EndsOf
<1>15. \A i \in BeginsOf(p), j \in EndsOf(p) : i # b => (Pair(tape, i, j) <=> Pair(old, i, j))
  BY <1>13, <1>14 DEF Pair
<1>16. Pair(tape, b, loc)
  BY <1>4, <1>6 DEF Pair
<1>17. \A i \in BeginsOf(p) : ~IsOpen(p, d, i) => \E j \in EndsOf(p) : Pair(old, i, j)
  BY <1>3 DEF ClosedScopes
<1>18. \A i \in BeginsOf(p) : ~IsOpen(p, d, i) => old[i].val <= loc /\ old[i].val \in Nat
  <2> SUFFICES ASSUME NEW i \in BeginsOf(p), ~IsOpen(p, d, i)
               PROVE  old[i].val <= loc /\ old[i].val \in Nat
    OBVIOUS
  <2>1. PICK j \in EndsOf(p) : Pair(old, i, j)
    BY <1>17
  <2>2. j \in 1..loc - 1 /\ old[i].val = j + 1
    BY <1>13, <2>1 DEF Pair
  <2> QED
    BY <1>4, <2>2
<1>19. \A i \in BeginsOf(p) : ~IsOpen(p, d, i) /\ i < b => old[i].val <= b
  BY <1>1, <1>3 DEF ClosedScopes
<1>20. ClosedScopes(q, d - 1)
  <2>1. \A i \in BeginsOf(q) : IsOpen(q, d - 1, i) \/ \E j \in EndsOf(q) : Pair(tape, i, j)
    <3> TAKE i \in BeginsOf(q)
    <3>1. CASE i = b
      BY <1>10, <1>16, <3>1
    <3>2. CASE i # b
      BY <1>10, <1>11, <1>15, <1>17, <3>2
    <3> QED
      BY <3>1, <3>2
  <2>2. \A j \in EndsOf(q) : \E i \in BeginsOf(q) : Pair(tape, i, j) /\ ~IsOpen(q, d - 1, i)
    <3> TAKE j \in EndsOf(q)
    <3>1. CASE j = loc
      BY <1>10, <1>11, <1>16, <3>1
    <3>2. CASE j \in EndsOf(p)
      <4>1. PICK i \in BeginsOf(p) : Pair(old, i, j) /\ ~IsOpen(p, d, i)
        BY <1>3, <3>2 DEF ClosedScopes
      <4> QED
        BY <1>10, <1>11, <1>12, <1>15, <3>2, <4>1
    <3> QED
      BY <1>10, <3>1, <3>2
  <2>3. \A i \in BeginsOf(q) :
          ~IsOpen(q, d - 1, i) => i = b \/ (i # b /\ ~IsOpen(p, d, i) /\ tape[i] = old[i])
    BY <1>10, <1>11, <1>13
  <2>4. ASSUME NEW i \in BeginsOf(q), NEW k \in BeginsOf(q),
               ~IsOpen(q, d - 1, i), ~IsOpen(q, d - 1, k), i < k, k < tape[i].val
        PROVE  tape[k].val < tape[i].val
    <3>1. i \in Nat /\ k \in Nat /\ i \in BeginsOf(p) /\ k \in BeginsOf(p)
      BY <1>10, <1>13
    <3>2. CASE i = b
      <4>1. k # b /\ ~IsOpen(p, d, k) /\ tape[k] = old[k]
        BY <2>3, <2>4, <3>1, <3>2
      <4> QED
        BY <1>4, <1>6, <1>18, <3>1, <3>2, <4>1
    <3>3. CASE i # b /\ k = b
      <4>1. ~IsOpen(p, d, i) /\ tape[i] = old[i]
        BY <2>3, <2>4, <3>3
      <4>2. old[i].val <= b
        BY <1>19, <2>4, <3>1, <3>3, <4>1
      <4> QED
        BY <1>4, <1>18, <2>4, <3>1, <3>3, <4>1, <4>2
    <3>4. CASE i # b /\ k # b
      <4>1. ~IsOpen(p, d, i) /\ tape[i] = old[i] /\ ~IsOpen(p, d, k) /\ tape[k] = old[k]
        BY <2>3, <2>4, <3>4
      <4> QED
        BY <1>3, <2>4, <3>1, <4>1 DEF ClosedScopes
    <3> QED
      BY <3>2, <3>3, <3>4
  <2>5. ASSUME NEW i \in BeginsOf(q), NEW e \in 0..(d - 1) - 1, ~IsOpen(q, d - 1, i), i < Index(q, e)
        PROVE  tape[i].val <= Index(q, e)
    <3>1. e \in 0..d - 2 /\ e \in 0..d - 1
      BY <1>1
    <3>2. i # b
      <4>1. Index(q, e) \in Nat /\ Index(q, e) < b
        BY <1>8, <3>1
      <4> QED
        BY <1>4, <2>5, <4>1
    <3>3. ~IsOpen(p, d, i) /\ tape[i] = old[i] /\ i \in BeginsOf(p)
      BY <1>10, <2>3, <2>5, <3>2
    <3>4. Index(q, e) = Index(p, e)
      BY <1>8, <3>1
    <3> QED
      BY <1>3, <2>5, <3>1, <3>3, <3>4 DEF ClosedScopes
  <2> QED
    BY <1>3, <2>1, <2>2, <2>4, <2>5 DEF ClosedScopes
<1>21. q.tape[Index(q, d - 2)].type = p.tape[Index(p, d - 2)].type
  <2>1. d - 2 \in 0..d - 2
    BY <1>1
  <2> QED
    BY <1>3, <1>8, <2>1
<1> QED
  BY <1>9, <1>20, <1>21

\* The end of the text: with no scope open but its own, all words are linked.
LEMMA RootEnds ==
  ASSUME NEW p, NEW q, ParserType(p), ParserType(q), NEW ret, NEW count,
         q.current_loc = p.current_loc + 1, p.current_loc > 0,
         Closed(p.tape, p.current_loc, q.tape, "r", 0, count),
         OpenScopes(p, 1, ret), ClosedScopes(p, 1)
  PROVE  LET last   == q.current_loc - 1
             Inner  == 1..last - 1
             Begins == {i \in Inner : q.tape[i].type \in {"{", "["}}
         IN  /\ last > 0 /\ q.tape[last] = Word("r", 0)
             /\ q.tape[0].type = "r" /\ q.tape[0].val = last + 1
             /\ \A i \in Begins :
                  /\ q.tape[i].val \in i + 2..last
                  /\ q.tape[q.tape[i].val - 1] = Word(Closer(q.tape[i].type), i)
             /\ \A j \in Inner :
                  q.tape[j].type \in {"}", "]"} =>
                    q.tape[j].val \in Begins /\ q.tape[q.tape[j].val].val = j + 1
             /\ \A i, k \in Begins : i < k /\ k < q.tape[i].val => q.tape[k].val < q.tape[i].val
<1>1. PICK loc, old, tape : loc = p.current_loc /\ old = p.tape /\ tape = q.tape
  OBVIOUS
<1>2. loc \in Nat /\ loc > 0 /\ q.current_loc - 1 = loc
  BY <1>1 DEF ParserType
<1>3. /\ tape[loc] = Word("r", 0) /\ tape[0].type = old[0].type /\ tape[0].val = loc + 1
      /\ \A n \in 0..loc - 1 : n # 0 => tape[n] = old[n]
  BY <1>1 DEF Closed
<1>4. old[0].type = "r" /\ Index(p, 0) = 0
  BY <1>1 DEF OpenScopes
<1>5. \A n \in 1..loc - 1 : tape[n] = old[n] /\ n \in Nat /\ n # 0
  BY <1>2, <1>3
<1> DEFINE Begins == {i \in 1..loc - 1 : tape[i].type \in {"{", "["}}
<1>6. Begins = BeginsOf(p)
  BY <1>1, <1>5 DEF BeginsOf
<1>7. \A i \in BeginsOf(p) : ~IsOpen(p, 1, i) /\ i \in 1..loc - 1
  <2> TAKE i \in BeginsOf(p)
  <2>1. i \in 1..loc - 1
    BY <1>1 DEF BeginsOf
  <2>2. \A e \in 0..1 - 1 : Index(p, e) = 0
    BY <1>4
  <2> QED
    BY <1>5, <2>1, <2>2 DEF IsOpen
<1>8. \A j \in EndsOf(p) : j \in 1..loc - 1
  BY <1>1 DEF EndsOf
<1> HIDE DEF Begins
<1>9. ASSUME NEW i \in Begins
      PROVE  tape[i].val \in i + 2..loc /\ tape[tape[i].val - 1] = Word(Closer(tape[i].type), i)
  <2>1. PICK j \in EndsOf(p) : Pair(old, i, j)
    BY <1>1, <1>6, <1>7 DEF ClosedScopes
  <2>2. tape[i] = old[i] /\ tape[j] = old[j] /\ i \in 1..loc - 1 /\ j \in 1..loc - 1
    BY <1>5, <1>6, <1>7, <1>8
  <2>3. tape[i].val = j + 1 /\ i < j /\ tape[j] = Word(Closer(tape[i].type), i)
    BY <2>1, <2>2 DEF Pair
  <2>4. tape[i].val - 1 = j
    BY <2>2, <2>3
  <2> QED
    BY <1>2, <2>2, <2>3, <2>4
<1>10. ASSUME NEW j \in 1..loc - 1, tape[j].type \in {"}", "]"}
       PROVE  tape[j].val \in Begins /\ tape[tape[j].val].val = j + 1
  <2>1. j \in EndsOf(p)
    BY <1>1, <1>5, <1>10 DEF EndsOf
  <2>2. PICK i \in BeginsOf(p) : Pair(old, i, j)
    BY <1>1, <2>1 DEF ClosedScopes
  <2>3. tape[i] = old[i] /\ tape[j] = old[j]
    BY <1>5, <1>7
  <2>4. tape[j].val = i /\ tape[i].val = j + 1
    BY <2>2, <2>3 DEF Pair, Word
  <2> QED
    BY <1>6, <2>4
<1>11. ASSUME NEW i \in Begins, NEW k \in Begins, i < k, k < tape[i].val
       PROVE  tape[k].val < tape[i].val
  <2>1. tape[i] = old[i] /\ tape[k] = old[k]
    BY <1>5, <1>6, <1>7
  <2> QED
    BY <1>1, <1>6, <1>7, <1>11, <2>1 DEF ClosedScopes
<1> QED
  BY <1>1, <1>2, <1>3, <1>4, <1>9, <1>10, <1>11 DEF Begins

-----------------------------------------------------------------------------
(***************************************************************************)
(* The steps of the machine: what they leave of the parser and the scopes. *)
(***************************************************************************)
LEMMA Letters ==
  /\ \A t \in {"{", "}", "[", "]", ",", ":"} : t \in Tokens /\ Width(t) = 1
  /\ \A t \in Numbers : Width(t) = 1
  /\ Strings \cup Numbers \cup Atoms \cup {RefusedString} \subseteq Tokens
  /\ \A t \in Strings : Width(t) = 2 + Contents(t)
  /\ Width(RefusedString) = 2 /\ Contents(RefusedString) = 0
  /\ \A t \in Atoms : Width(t) = 4
<1> USE DEF Tokens, Strings, Numbers, Atoms, Refused, RefusedString, End
<1>1. \A t \in {"{", "}", "[", "]", ",", ":"} \cup Numbers : t \in Tokens
  OBVIOUS
<1>2. Strings \cup Numbers \cup Atoms \cup {RefusedString} \subseteq Tokens
  OBVIOUS
<1>3. \A t \in {"{", "}", "[", "]", ",", ":"} \cup Numbers :
        t \in Tokens \ (Strings \cup {RefusedString} \cup Atoms)
  OBVIOUS
<1>4. Contents(RefusedString) = 0
  BY DEF Contents
<1> HIDE DEF Tokens, Strings, Numbers, Atoms, Refused, RefusedString, End
<1>5. \A t \in {"{", "}", "[", "]", ",", ":"} \cup Numbers : Width(t) = 1
  BY <1>3, Widths
<1>6. \A t \in Strings \cup {RefusedString} : Width(t) = 2 + Contents(t)
  BY Widths
<1>7. \A t \in Atoms : Width(t) = 4
  BY Widths
<1>8. Width(RefusedString) = 2
  BY <1>4, <1>6
<1> QED
  BY <1>1, <1>2, <1>4, <1>5, <1>6, <1>7, <1>8

LEMMA LetterWidth == ASSUME NEW t \in {"{", "}", "[", "]", ",", ":"} PROVE Width(t) = 1
<1>1. \A x \in {"{", "}", "[", "]", ",", ":"} : Width(x) = 1
  BY Letters
<1> QED
  BY <1>1

LEMMA NumberWidth == ASSUME NEW t \in Numbers PROVE Width(t) = 1
BY Letters

LEMMA AtomWidth == ASSUME NEW t \in Atoms PROVE Width(t) = 4
BY Letters

LEMMA ReadOne ==
  ASSUME TypeRight, NEW t \in Tokens \cup {End}, tokens' = Append(tokens, t)
  PROVE  /\ tokens' \in Seq(Tokens \cup {End}) /\ IsFiniteSet(Bytes(tokens'))
         /\ Size \in Nat /\ Width(t) \in 0..4 /\ Size' = Size + Width(t)
<1>1. tokens \in Seq(Tokens \cup {End}) /\ IsFiniteSet(Bytes(tokens))
  BY DEF TypeRight
<1>2. tokens' \in Seq(Tokens \cup {End})
  BY <1>1
<1>3. IsFiniteSet(Bytes(tokens')) /\ Cardinality(Bytes(tokens')) = Cardinality(Bytes(tokens)) + Width(t)
  BY <1>1, BytesOfMore
<1>4. Cardinality(Bytes(tokens)) \in Nat
  BY <1>1, FS_CardinalityType
<1>5. Width(t) \in 0..4
  BY Widths
<1> QED
  BY <1>2, <1>3, <1>4, <1>5 DEF Size

ReadOn == tokens' \in Seq(Tokens \cup {End}) /\ IsFiniteSet(Bytes(tokens'))

LEMMA GivesUp ==
  ASSUME TypeRight, ReadOn, NEW q, ParserType(q), parser' = q, label' = "error",
         depth' \in 0..MaxDepth, ret_address' \in [0..MaxDepth - 1 -> Returns]
  PROVE  Kept'
<1>1. "error" \notin Running \cup {"start", "success"} /\ label' \in {"start", "success", "error"} \cup Running
  BY DEF Running, InArray, InObject
<1>2. TypeRight'
  BY <1>1 DEF TypeRight, ReadOn
<1>3. DepthRight'
  BY <1>1 DEF DepthRight, Running
<1>4. ScopesRight' /\ TapeLinked'
  BY <1>1 DEF ScopesRight, TapeLinked
<1> QED
  BY <1>2, <1>3, <1>4 DEF Kept

\* Where the machine goes after a value in the innermost of d scopes.
After(p, d) == IF d = 1 THEN "finish" ELSE Continue(p.tape[Index(p, d - 1)].type)

\* The scopes around a value that comes next, in a parser p.
Around(p) ==
  /\ ParserType(p) /\ depth \in 1..MaxDepth - 1
  /\ OpenScopes(p, depth, ret_address) /\ ClosedScopes(p, depth)

\* A label fits the innermost of d scopes.
Fits(l, p, d) ==
  \/ d = 1 /\ l = "finish"
  \/ d > 1 /\ l \in InArray /\ p.tape[Index(p, d - 1)].type = "["
  \/ d > 1 /\ l \in InObject /\ p.tape[Index(p, d - 1)].type = "{"

LEMMA DepthIn ==
  ASSUME NEW d \in 1..MaxDepth - 1
  PROVE  /\ MaxDepth \in Nat /\ d \in Nat /\ d >= 1 /\ d < MaxDepth /\ d + 1 \in 0..MaxDepth
         /\ d \in 0..MaxDepth /\ d \in 1..MaxDepth /\ d \in 0..MaxDepth - 1
         /\ \A e \in 0..d : e \in 0..MaxDepth - 1
         /\ \A e \in 1..d - 1 : e \in 0..MaxDepth - 1 /\ e # d
         /\ ~(d + 1 >= MaxDepth) => d + 1 \in 1..MaxDepth - 1
         /\ d + 1 > 1 /\ (d + 1) - 1 = d
BY BufferAssumption

\* A state of the machine within scopes.
LEMMA GoesOn ==
  ASSUME ReadOn, ParserType(parser'), depth' \in 1..MaxDepth - 1,
         ret_address' \in [0..MaxDepth - 1 -> Returns],
         OpenScopes(parser', depth', ret_address'), ClosedScopes(parser', depth'),
         Fits(label', parser', depth')
  PROVE  Kept'
<1>1. label' \in Running /\ label' \notin {"start", "success", "error", "first_value"}
      /\ (label' = "finish" => label' \notin InArray \cup InObject)
      /\ (label' \in InArray => label' \notin InObject \cup {"finish"})
      /\ (label' \in InObject => label' \notin InArray \cup {"finish"})
  BY DEF Running, InArray, InObject, Fits
<1>2. depth' \in 0..MaxDepth /\ depth' \in Nat
  BY DepthIn
<1>3. TypeRight'
  BY <1>1, <1>2 DEF TypeRight, ReadOn
<1>4. DepthRight'
  <2>1. label' \in {"first_value", "finish"} => depth' = 1
    BY <1>1 DEF Fits
  <2>2. label' \in InArray \cup InObject => depth' >= 2
    <3>1. label' \in InArray \cup InObject => depth' > 1
      BY <1>1 DEF Fits
    <3> QED
      BY <1>2, <3>1
  <2> QED
    BY <1>1, <2>1, <2>2 DEF DepthRight
<1>5. ScopesRight'
  BY <1>1 DEF ScopesRight, Fits
<1>6. TapeLinked'
  BY <1>1 DEF TapeLinked
<1> QED
  BY <1>3, <1>4, <1>5, <1>6 DEF Kept

LEMMA LeafStep ==
  ASSUME TypeRight, ReadOn, NEW p, Around(p), NEW q, ParserType(q), NEW to,
         OnlyLeaves(p, q), SameIndexes(p, q, depth), Goto(to, q),
         Fits(to, p, depth)
  PROVE  Kept'
<1>1. label' = to /\ parser' = q /\ depth' = depth /\ ret_address' = ret_address
  BY DEF Goto
<1>2. depth \in 1..MaxDepth /\ depth' \in 1..MaxDepth - 1 /\ ret_address' \in [0..MaxDepth - 1 -> Returns]
  BY <1>1, DepthIn DEF Around, TypeRight
<1>3. ParserType(p) /\ OpenScopes(p, depth, ret_address) /\ ClosedScopes(p, depth)
  BY DEF Around
<1>4. OpenScopes(q, depth, ret_address) /\ ClosedScopes(q, depth)
      /\ q.tape[Index(q, depth - 1)] = p.tape[Index(p, depth - 1)]
  BY <1>2, <1>3, LeafScopes
<1>5. Fits(to, q, depth)
  BY <1>4 DEF Fits
<1> QED
  BY <1>1, <1>2, <1>4, <1>5, GoesOn

LEMMA BeginStep ==
  ASSUME TypeRight, ReadOn, NEW p, Around(p), NEW type, NEW begin,
         \/ type = "{" /\ begin = "object_begin"
         \/ type = "[" /\ begin = "array_begin",
         StartScope(p, type, depth, After(p, depth), begin)
  PROVE  Kept'
<1>1. PICK q, to, new : /\ q = on_start_scope(p, depth, type) /\ to = After(p, depth)
                        /\ new = [ret_address EXCEPT ![depth] = to]
  OBVIOUS
<1>2. parser' = q /\ ret_address' = new /\ depth' = depth + 1
      /\ label' = IF depth' >= MaxDepth THEN "error" ELSE begin
  BY <1>1 DEF StartScope
<1>3. /\ ParserType(p) /\ depth \in 1..MaxDepth - 1 /\ depth \in 0..MaxDepth - 1 /\ MaxDepth \in Nat
      /\ OpenScopes(p, depth, ret_address) /\ ClosedScopes(p, depth)
  BY DepthIn DEF Around
<1>4. type \in WordTypes /\ Opening(type)
  BY DEF WordTypes, Opening
<1>5. /\ ParserType(q) /\ q.current_loc = p.current_loc + 1
      /\ Written(p.tape, p.current_loc, q.tape, Word(type, 0))
      /\ \A e \in 0..MaxDepth - 1 :
           q.containing_scope[e] = IF e = depth THEN [tape_index |-> p.current_loc, count |-> 0]
                                   ELSE p.containing_scope[e]
  BY <1>1, <1>3, <1>4, ScopeBegun
<1>6. NewIndex(p, q, depth)
  <2>1. p.current_loc = [tape_index |-> p.current_loc, count |-> 0].tape_index
    OBVIOUS
  <2> QED
    BY <1>5, <2>1 DEF NewIndex, Index
<1>7. to \in Returns
  BY <1>1 DEF After, Continue, Returns
<1>8. new \in [0..MaxDepth - 1 -> Returns] /\ Returned(p, depth, ret_address, new)
  <2>1. ret_address \in [0..MaxDepth - 1 -> Returns]
    BY DEF TypeRight
  <2>2. new \in [0..MaxDepth - 1 -> Returns] /\ new[depth] = to
    BY <1>1, <1>3, <1>7, <2>1
  <2>3. \A e \in 1..depth - 1 : new[e] = ret_address[e]
    <3> TAKE e \in 1..depth - 1
    <3>1. e \in 0..MaxDepth - 1 /\ e # depth
      BY <1>3, DepthIn
    <3> QED
      BY <1>1, <2>1, <3>1
  <2> QED
    BY <1>1, <2>2, <2>3 DEF Returned, After
<1>9. OpenScopes(q, depth + 1, new) /\ ClosedScopes(q, depth + 1) /\ q.tape[Index(q, depth)].type = type
  <2>1. /\ ParserType(p) /\ ParserType(q) /\ depth \in 1..MaxDepth - 1
        /\ Returned(p, depth, ret_address, new) /\ Opening(type) /\ q.current_loc = p.current_loc + 1
        /\ Written(p.tape, p.current_loc, q.tape, Word(type, 0)) /\ NewIndex(p, q, depth)
        /\ OpenScopes(p, depth, ret_address) /\ ClosedScopes(p, depth)
    BY <1>3, <1>4, <1>5, <1>6, <1>8
  <2> QED
    BY <2>1, ScopeBegins
<1>10. CASE depth' >= MaxDepth
  <2>1. label' = "error" /\ depth' \in 0..MaxDepth
    BY <1>2, <1>3, <1>10, DepthIn
  <2> QED
    BY <1>2, <1>5, <1>8, <2>1, GivesUp
<1>11. CASE ~(depth' >= MaxDepth)
  <2>1. label' = begin /\ depth' \in 1..MaxDepth - 1 /\ depth' > 1 /\ depth' - 1 = depth
    <3>1. depth + 1 \in 1..MaxDepth - 1 /\ depth + 1 > 1 /\ (depth + 1) - 1 = depth
      <4>1. ~(depth + 1 >= MaxDepth)
        BY <1>2, <1>11
      <4> QED
        BY <1>3, <4>1, DepthIn
    <3> QED
      BY <1>2, <1>11, <3>1
  <2>2. OpenScopes(parser', depth', ret_address') /\ ClosedScopes(parser', depth')
        /\ parser'.tape[Index(parser', depth' - 1)].type = type
    BY <1>2, <1>9, <2>1
  <2>3. Fits(label', parser', depth')
    BY <2>1, <2>2 DEF InArray, InObject, Fits
  <2> QED
    BY <1>2, <1>5, <1>8, <2>1, <2>2, <2>3, GoesOn
<1> QED
  BY <1>10, <1>11

LEMMA ContinueFits ==
  ASSUME NEW p, NEW d \in 1..MaxDepth - 1, NEW ret, OpenScopes(p, d, ret)
  PROVE  Fits(After(p, d), p, d)
<1>1. d = 1 \/ (d > 1 /\ d - 1 \in 1..d - 1)
  BY DepthIn
<1>2. CASE d = 1
  BY <1>2 DEF Fits, After
<1>3. CASE d > 1 /\ d - 1 \in 1..d - 1
  <2>1. p.tape[Index(p, d - 1)].type \in {"{", "["}
    BY <1>3 DEF OpenScopes
  <2>2. After(p, d) = Continue(p.tape[Index(p, d - 1)].type)
    BY <1>3 DEF After
  <2> QED
    BY <1>3, <2>1, <2>2 DEF Fits, Continue, InArray, InObject
<1> QED
  BY <1>1, <1>2, <1>3

LEMMA EndStep ==
  ASSUME TypeRight, ReadOn, Around(parser), depth > 1, NEW type,
         type = Closer(parser.tape[Index(parser, depth - 1)].type), EndScope(type)
  PROVE  Kept'
<1>1. PICK p, q, d, b : /\ p = parser /\ d = depth /\ q = on_end_scope(p, d - 1, type)
                        /\ b = Index(p, d - 1)
  OBVIOUS
<1>2. parser' = q /\ ret_address' = ret_address /\ depth' = d - 1 /\ label' = ret_address[d - 1]
  BY <1>1 DEF EndScope
<1>3. ParserType(p) /\ d \in 1..MaxDepth - 1 /\ OpenScopes(p, d, ret_address) /\ ClosedScopes(p, d)
  BY <1>1 DEF Around
<1>4. /\ d \in 2..MaxDepth - 1 /\ d - 1 \in 0..MaxDepth - 1 /\ d - 1 \in 1..MaxDepth - 1
      /\ d - 1 \in 1..d - 1 /\ d - 1 \in 0..d - 1 /\ (d - 1) - 1 = d - 2
  <2>1. d \in Nat /\ MaxDepth \in Nat /\ d < MaxDepth /\ d > 1
    BY <1>1, <1>3, DepthIn
  <2> QED
    BY <2>1
<1>5. type \in WordTypes
  BY <1>1 DEF Closer, WordTypes
<1>6. p.containing_scope[d - 1].tape_index < p.current_loc
  BY <1>3, <1>4 DEF OpenScopes, Index
<1>7. PICK count : /\ ParserType(q) /\ q.current_loc = p.current_loc + 1
                   /\ Closed(p.tape, p.current_loc, q.tape, type, b, count)
                   /\ q.containing_scope = p.containing_scope
  <2>1. PICK k : k = IF p.containing_scope[d - 1].count <= CountLimit
                     THEN p.containing_scope[d - 1].count ELSE CountLimit
    OBVIOUS
  <2>2. /\ ParserType(q) /\ q.current_loc = p.current_loc + 1
        /\ Closed(p.tape, p.current_loc, q.tape, type, p.containing_scope[d - 1].tape_index, k)
        /\ q.containing_scope = p.containing_scope
    BY <1>1, <1>3, <1>4, <1>5, <1>6, <2>1, ScopeEnded
  <2> QED
    BY <1>1, <2>2 DEF Index
<1>8. SameIndexes(p, q, d)
  BY <1>7 DEF SameIndexes, Index
<1>9. OpenScopes(q, d - 1, ret_address) /\ ClosedScopes(q, d - 1)
      /\ q.tape[Index(q, d - 2)].type = p.tape[Index(p, d - 2)].type
  <2>1. Closed(p.tape, p.current_loc, q.tape, Closer(p.tape[Index(p, d - 1)].type), Index(p, d - 1), count)
    BY <1>1, <1>7
  <2> QED
    BY <1>3, <1>4, <1>7, <1>8, <2>1, ScopeEnds
<1>10. label' = After(q, d - 1)
  <2>1. ret_address[d - 1] = IF d - 1 = 1 THEN "finish" ELSE Continue(p.tape[Index(p, d - 2)].type)
    BY <1>3, <1>4 DEF OpenScopes
  <2> QED
    BY <1>2, <1>4, <1>9, <2>1 DEF After
<1>11. Fits(label', q, d - 1)
  BY <1>4, <1>9, <1>10, ContinueFits
<1>12. ret_address' \in [0..MaxDepth - 1 -> Returns]
  BY <1>2 DEF TypeRight
<1> QED
  BY <1>2, <1>4, <1>7, <1>9, <1>11, <1>12, GoesOn

\* A parser that has only counted, or done nothing.
SameTape(p, q) ==
  /\ q.tape = p.tape /\ q.current_loc = p.current_loc
  /\ q.current_string_buf_loc = p.current_string_buf_loc /\ q.string_high = p.string_high
  /\ \A e \in 0..MaxDepth - 1 : Index(q, e) = Index(p, e)

LEMMA SameScopes ==
  ASSUME NEW p, NEW q, ParserType(p), ParserType(q), SameTape(p, q), NEW d \in 1..MaxDepth - 1
  PROVE  OnlyLeaves(p, q) /\ SameIndexes(p, q, d)
<1>1. SameIndexes(p, q, d)
  <2>1. \A e \in 0..d - 1 : e \in 0..MaxDepth - 1
    BY DepthIn
  <2> QED
    BY <2>1 DEF SameIndexes, SameTape
<1>2. OnlyLeaves(p, q)
  <2>1. p.current_loc \in Nat /\ q.current_loc = p.current_loc /\ q.tape = p.tape
    BY DEF ParserType, SameTape
  <2>2. \A n \in p.current_loc..q.current_loc - 1 : FALSE
    BY <2>1
  <2> QED
    BY <2>1, <2>2 DEF OnlyLeaves
<1> QED
  BY <1>1, <1>2

LEMMA SameAround ==
  ASSUME NEW p, NEW q, Around(p), ParserType(q), SameTape(p, q)
  PROVE  Around(q) /\ q.tape[Index(q, depth - 1)] = p.tape[Index(p, depth - 1)]
<1>1. ParserType(p) /\ depth \in 1..MaxDepth - 1 /\ depth \in 1..MaxDepth
      /\ OpenScopes(p, depth, ret_address) /\ ClosedScopes(p, depth)
  BY DepthIn DEF Around
<1>2. OnlyLeaves(p, q) /\ SameIndexes(p, q, depth)
  BY <1>1, SameScopes
<1>3. OpenScopes(q, depth, ret_address) /\ ClosedScopes(q, depth)
      /\ q.tape[Index(q, depth - 1)] = p.tape[Index(p, depth - 1)]
  BY <1>1, <1>2, LeafScopes
<1> QED
  BY <1>1, <1>3 DEF Around

\* One word more, or two, that are no scope's.
LEMMA LeafWords ==
  ASSUME NEW p, NEW q, ParserType(p), ParserType(q), NEW word,
         Written(p.tape, p.current_loc, q.tape, word), Leaf(word),
         \/ q.current_loc = p.current_loc + 1
         \/ q.current_loc = p.current_loc + 2 /\ Leaf(q.tape[p.current_loc + 1])
  PROVE  OnlyLeaves(p, q)
<1>1. PICK loc, to : loc = p.current_loc /\ to = q.current_loc /\ loc \in Nat
  BY DEF ParserType
<1>2. to = loc + 1 \/ (to = loc + 2 /\ Leaf(q.tape[loc + 1]))
  BY <1>1
<1>3. Leaf(q.tape[loc]) /\ \A n \in 0..loc - 1 : q.tape[n] = p.tape[n]
  BY <1>1 DEF Written
<1>4. \A n \in loc..to - 1 : Leaf(q.tape[n])
  <2>1. CASE to = loc + 1
    <3>1. \A n \in loc..to - 1 : n = loc
      BY <1>1, <2>1
    <3> QED
      BY <1>3, <3>1
  <2>2. CASE to = loc + 2 /\ Leaf(q.tape[loc + 1])
    <3>1. \A n \in loc..to - 1 : n = loc \/ n = loc + 1
      BY <1>1, <2>2
    <3> QED
      BY <1>3, <2>2, <3>1
  <2> QED
    BY <1>2, <2>1, <2>2
<1>5. to >= loc
  BY <1>1, <1>2
<1> QED
  BY <1>1, <1>3, <1>4, <1>5 DEF OnlyLeaves

\* What a string, a number or an atom leaves: no words of scopes, no index moved.
LEMMA LeafRead ==
  ASSUME NEW p, ParserType(p), NEW d \in 1..MaxDepth - 1, NEW t, NEW q,
         \/ t \in Strings /\ q = parse_string(p, t)
         \/ t = RefusedString /\ q = on_start_string(p, t)
         \/ t \in Numbers /\ q = on_number(p, t)
         \/ t \in Atoms /\ q = on_atom(p, t)
  PROVE  ParserType(q) /\ OnlyLeaves(p, q) /\ SameIndexes(p, q, d)
<1>1. q.containing_scope = p.containing_scope => SameIndexes(p, q, d)
  BY DEF SameIndexes, Index
<1>2. CASE t \in Strings /\ q = parse_string(p, t)
  <2>1. PICK word : word = Word("\"", p.current_string_buf_loc)
    OBVIOUS
  <2>2. t \in Tokens
    BY <1>2, Letters
  <2>3. /\ ParserType(q) /\ q.current_loc = p.current_loc + 1
        /\ Written(p.tape, p.current_loc, q.tape, word) /\ q.containing_scope = p.containing_scope
    BY <1>2, <2>1, <2>2, StringRead
  <2>4. Leaf(word)
    BY <2>1 DEF Leaf, Word
  <2> QED
    BY <1>1, <2>3, <2>4, LeafWords
<1>3. CASE t = RefusedString /\ q = on_start_string(p, t)
  <2>1. PICK word : word = Word("\"", p.current_string_buf_loc)
    OBVIOUS
  <2>2. t \in Tokens
    BY <1>3, Letters
  <2>3. /\ ParserType(q) /\ q.current_loc = p.current_loc + 1
        /\ Written(p.tape, p.current_loc, q.tape, word) /\ q.containing_scope = p.containing_scope
    BY <1>3, <2>1, <2>2, StringBegun
  <2>4. Leaf(word)
    BY <2>1 DEF Leaf, Word
  <2> QED
    BY <1>1, <2>3, <2>4, LeafWords
<1>4. CASE t \in Numbers /\ q = on_number(p, t)
  <2>1. PICK word : word = Word(IF t = "7" THEN "l" ELSE "u", 0)
    OBVIOUS
  <2>2. /\ ParserType(q) /\ q.current_loc = p.current_loc + 2
        /\ Written(p.tape, p.current_loc, q.tape, word) /\ q.tape[p.current_loc + 1] = Word(t, 0)
        /\ q.containing_scope = p.containing_scope
    BY <1>4, <2>1, NumberWritten
  <2>3. Leaf(word)
    BY <2>1 DEF Leaf, Word
  <2>4. Leaf(Word(t, 0))
    BY <1>4 DEF Leaf, Word, Numbers
  <2> QED
    BY <1>1, <2>2, <2>3, <2>4, LeafWords
<1>5. CASE t \in Atoms /\ q = on_atom(p, t)
  <2>1. /\ ParserType(q) /\ q.current_loc = p.current_loc + 1
        /\ Written(p.tape, p.current_loc, q.tape, Word(t, 0)) /\ q.containing_scope = p.containing_scope
    BY <1>5, AtomWritten
  <2>2. Leaf(Word(t, 0))
    BY <1>5 DEF Leaf, Word, Atoms
  <2> QED
    BY <1>1, <2>1, <2>2, LeafWords
<1> QED
  BY <1>2, <1>3, <1>4, <1>5

LEMMA StopsHere ==
  ASSUME TypeRight, ReadOn, NEW p, Around(p), NEW q, ParserType(q), Goto("error", q)
  PROVE  Kept'
<1>1. depth \in 0..MaxDepth
  BY DepthIn DEF Around
<1> QED
  BY <1>1, GivesUp DEF Goto, TypeRight

LEMMA ValueStep ==
  ASSUME TypeRight, ReadOn, NEW p, Around(p), NEW t, ParseValue(p, t, After(p, depth))
  PROVE  Kept'
<1>1. ParserType(p) /\ depth \in 1..MaxDepth - 1 /\ Fits(After(p, depth), p, depth)
  BY ContinueFits DEF Around
<1>2. CASE t = "{" /\ StartScope(p, "{", depth, After(p, depth), "object_begin")
  BY <1>2, BeginStep
<1>3. CASE t = "[" /\ StartScope(p, "[", depth, After(p, depth), "array_begin")
  BY <1>3, BeginStep
<1>4. CASE t \in Strings /\ Goto(After(p, depth), parse_string(p, t))
  <2>1. PICK q : q = parse_string(p, t)
    OBVIOUS
  <2>2. ParserType(q) /\ OnlyLeaves(p, q) /\ SameIndexes(p, q, depth)
    BY <1>1, <1>4, <2>1, LeafRead
  <2> QED
    BY <1>1, <1>4, <2>1, <2>2, LeafStep
<1>5. CASE t \in Numbers /\ Goto(After(p, depth), on_number(p, t))
  <2>1. PICK q : q = on_number(p, t)
    OBVIOUS
  <2>2. ParserType(q) /\ OnlyLeaves(p, q) /\ SameIndexes(p, q, depth)
    BY <1>1, <1>5, <2>1, LeafRead
  <2> QED
    BY <1>1, <1>5, <2>1, <2>2, LeafStep
<1>6. CASE t \in Atoms /\ Goto(After(p, depth), on_atom(p, t))
  <2>1. PICK q : q = on_atom(p, t)
    OBVIOUS
  <2>2. ParserType(q) /\ OnlyLeaves(p, q) /\ SameIndexes(p, q, depth)
    BY <1>1, <1>6, <2>1, LeafRead
  <2> QED
    BY <1>1, <1>6, <2>1, <2>2, LeafStep
<1>7. CASE t = RefusedString /\ Goto("error", on_start_string(p, t))
  <2>1. PICK q : q = on_start_string(p, t)
    OBVIOUS
  <2>2. ParserType(q)
    BY <1>1, <1>7, <2>1, LeafRead
  <2> QED
    BY <1>7, <2>1, <2>2, StopsHere
<1>8. CASE Goto("error", p)
  BY <1>1, <1>8, StopsHere
<1> QED
  BY <1>2, <1>3, <1>4, <1>5, <1>6, <1>7, <1>8 DEF ParseValue

LEMMA KeyStep ==
  ASSUME TypeRight, ReadOn, NEW p, Around(p), depth > 1, p.tape[Index(p, depth - 1)].type = "{",
         NEW t, ParseKey(p, t)
  PROVE  Kept'
<1>1. ParserType(p) /\ depth \in 1..MaxDepth - 1 /\ Fits("object_key_state", p, depth)
  BY DEF Around, Fits, InObject
<1>2. CASE t \in Strings /\ Goto("object_key_state", parse_string(p, t))
  <2>1. PICK q : q = parse_string(p, t)
    OBVIOUS
  <2>2. ParserType(q) /\ OnlyLeaves(p, q) /\ SameIndexes(p, q, depth)
    BY <1>1, <1>2, <2>1, LeafRead
  <2> QED
    BY <1>1, <1>2, <2>1, <2>2, LeafStep
<1>3. CASE t = RefusedString /\ Goto("error", on_start_string(p, t))
  <2>1. PICK q : q = on_start_string(p, t)
    OBVIOUS
  <2>2. ParserType(q)
    BY <1>1, <1>3, <2>1, LeafRead
  <2> QED
    BY <1>3, <2>1, <2>2, StopsHere
<1> QED
  BY <1>2, <1>3 DEF ParseKey

LEMMA GotoStep ==
  ASSUME TypeRight, ReadOn, NEW p, Around(p), NEW to, Fits(to, p, depth), Goto(to, p)
  PROVE  Kept'
<1>1. ParserType(p) /\ depth \in 1..MaxDepth - 1 /\ SameTape(p, p)
  BY DEF Around, SameTape
<1>2. OnlyLeaves(p, p) /\ SameIndexes(p, p, depth)
  BY <1>1, SameScopes
<1> QED
  BY <1>1, <1>2, LeafStep

LEMMA CountedRight ==
  ASSUME NEW p, p = parser, Around(p), depth > 1
  PROVE  /\ ParserType(Counted) /\ SameTape(p, Counted) /\ Around(Counted)
         /\ Counted.tape[Index(Counted, depth - 1)] = p.tape[Index(p, depth - 1)]
<1>1. PICK q, d : q = increment_count(p, d) /\ d = depth - 1
  OBVIOUS
<1>2. ParserType(p) /\ d \in 0..MaxDepth - 1 /\ q = Counted
  <2>1. depth \in 1..MaxDepth - 1
    BY DEF Around
  <2>2. depth \in Nat /\ MaxDepth \in Nat /\ depth >= 1 /\ depth < MaxDepth
    BY <2>1, DepthIn
  <2>3. d \in 0..MaxDepth - 1
    BY <1>1, <2>2
  <2> QED
    BY <1>1, <2>3 DEF Around, Counted
<1>3. /\ ParserType(q) /\ q.current_loc = p.current_loc /\ q.tape = p.tape
      /\ q.current_string_buf_loc = p.current_string_buf_loc /\ q.string_high = p.string_high
      /\ \A e \in 0..MaxDepth - 1 : q.containing_scope[e].tape_index = p.containing_scope[e].tape_index
  BY <1>1, <1>2, CountUp
<1>4. SameTape(p, q)
  BY <1>3 DEF SameTape, Index
<1>5. Around(q) /\ q.tape[Index(q, depth - 1)] = p.tape[Index(p, depth - 1)]
  BY <1>3, <1>4, SameAround
<1> QED
  BY <1>2, <1>3, <1>4, <1>5

-----------------------------------------------------------------------------
(***************************************************************************)
(* The steps of the machine: what they write, by the bytes of their token. *)
(***************************************************************************)
LEMMA DueArithmetic ==
  ASSUME NEW n \in Nat, NEW d \in Nat, NEW loc \in Nat, NEW str \in Nat, d > 1, Due(n, d, loc, str)
  PROVE  /\ Due(n + 1, d + 1, loc + 1, str) /\ Done(n + 1, d - 1, loc + 1, str)
         /\ Done(n + 1, d, loc + 2, str) /\ Done(n + 4, d, loc + 1, str)
         /\ \A c \in 0..1 : /\ Done(n + (2 + c), d, loc + 1, str + 4 + c + 1)
                            /\ Keyed(n + (2 + c), loc + 1, str + 4 + c + 1)
         /\ Over(n + 1, loc + 1) /\ Over(n + 2, loc + 1) /\ \A w \in 0..4 : Over(n + w, loc)
<1> USE DEF Due
<1>1. Due(n + 1, d + 1, loc + 1, str)
  OBVIOUS
<1>2. Done(n + 1, d - 1, loc + 1, str)
  BY DEF Done
<1>3. Done(n + 1, d, loc + 2, str)
  BY DEF Done
<1>4. Done(n + 4, d, loc + 1, str)
  BY DEF Done
<1>5. \A c \in 0..1 : Done(n + (2 + c), d, loc + 1, str + 4 + c + 1)
  BY DEF Done
<1>6. \A c \in 0..1 : Keyed(n + (2 + c), loc + 1, str + 4 + c + 1)
  BY DEF Keyed
<1>7. Over(n + 1, loc + 1)
  BY DEF Over
<1>8. Over(n + 2, loc + 1)
  BY DEF Over
<1>9. \A w \in 0..4 : Over(n + w, loc)
  BY DEF Over
<1> QED
  BY <1>1, <1>2, <1>3, <1>4, <1>5, <1>6, <1>7, <1>8, <1>9

LEMMA DoneArithmetic ==
  ASSUME NEW n \in Nat, NEW d \in Nat, NEW loc \in Nat, NEW str \in Nat, Done(n, d, loc, str)
  PROVE  /\ d > 1 => Due(n + 1, d, loc, str) /\ Done(n + 1, d - 1, loc + 1, str)
         /\ d = 1 => Over(n, loc + 1)
         /\ \A w \in 0..4 : Over(n + w, loc)
<1> USE DEF Done
<1>1. d > 1 => Due(n + 1, d, loc, str)
  BY DEF Due
<1>2. d > 1 => Done(n + 1, d - 1, loc + 1, str)
  OBVIOUS
<1>3. d = 1 => Over(n, loc + 1)
  BY DEF Over
<1>4. \A w \in 0..4 : Over(n + w, loc)
  BY DEF Over
<1> QED
  BY <1>1, <1>2, <1>3, <1>4

LEMMA KeyedArithmetic ==
  ASSUME NEW n \in Nat, NEW d \in Nat, NEW loc \in Nat, NEW str \in Nat, Keyed(n, loc, str)
  PROVE  Due(n + 1, d, loc, str) /\ \A w \in 0..4 : Over(n + w, loc)
BY DEF Keyed, Due, Over

LEMMA FirstArithmetic ==
  /\ Due(1, 2, 2, 0) /\ Done(1, 1, 3, 0) /\ Done(4, 1, 2, 0)
  /\ \A c \in 0..1 : Done(2 + c, 1, 2, 0 + 4 + c + 1)
  /\ Over(1, 2) /\ Over(2, 2) /\ \A w \in 0..4 : Over(w, 1)
BY DEF Due, Done, Over

\* The copy of a string, which takes Padding bytes at a time, within the buffer.
LEMMA HighArithmetic ==
  ASSUME NEW n \in Nat, NEW c \in 0..1, NEW str \in Nat,
         3 * str <= 5 * n - 5 \/ (n = 0 /\ str = 0)
  PROVE  str + 4 + c + Padding <= StringCapacity(n + (2 + c))
<1>1. Padding \in Nat /\ n + (2 + c) \in Nat /\ str + 4 + c + Padding \in Nat
  BY BufferAssumption
<1>2. CASE 3 * (str + 4 + c + Padding) <= 5 * (n + (2 + c)) + 3 * Padding
  BY <1>1, <1>2, StringRoom
<1>3. CASE n = 0 /\ str = 0 /\ c = 0
  <2>1. n + (2 + c) = 2 /\ str + 4 + c + Padding = 4 + Padding
    BY <1>1, <1>3
  <2>2. 4 + Padding <= StringCapacity(2)
    BY StringRoom
  <2> QED
    BY <2>1, <2>2
<1>4. 3 * (str + 4 + c + Padding) <= 5 * (n + (2 + c)) + 3 * Padding \/ (n = 0 /\ str = 0 /\ c = 0)
  <2>1. c = 0 \/ c = 1
    OBVIOUS
  <2> QED
    BY <1>1, <2>1
<1> QED
  BY <1>2, <1>3, <1>4

LEMMA Grows ==
  ASSUME NEW n \in Nat, NEW w \in 0..4, NEW high \in Nat, high <= StringCapacity(n)
  PROVE  high <= StringCapacity(n + w)
<1>1. w \in Nat /\ n + w \in Nat
  OBVIOUS
<1>2. StringCapacity(n) \in Nat /\ StringCapacity(n) <= StringCapacity(n + w)
  BY <1>1, StringRoom
<1>3. StringCapacity(n + w) \in Nat
  BY <1>1, StringRoom
<1> QED
  BY <1>2, <1>3

\* What the sizes come to at the label the machine goes to.
Sized(l, n, d, p) ==
  /\ l \in ValueDue => Due(n, d, p.current_loc, p.current_string_buf_loc)
  /\ l \in ValueDone => Done(n, d, p.current_loc, p.current_string_buf_loc)
  /\ l = "object_key_state" => Keyed(n, p.current_loc, p.current_string_buf_loc)
  /\ l \in {"success", "error"} => Over(n, p.current_loc)
  /\ l \notin {"start", "first_value"}
  /\ p.string_high <= StringCapacity(n)

LEMMA SizedRight ==
  ASSUME NEW p, parser' = p, Sized(label', Size', depth', p)
  PROVE  RoomRight'
BY DEF Sized, RoomRight, Stopped

\* A value is due within a scope, or is the whole text.
ValueNext(p, n) ==
  \/ depth > 1 /\ Due(n, depth, p.current_loc, p.current_string_buf_loc)
  \/ n = 0 /\ depth = 1 /\ p.current_loc = 1 /\ p.current_string_buf_loc = 0

Begin(l) == l \in {"object_begin", "array_begin"}

\* A value that comes next, by the token it begins with.
LEMMA ValueSized ==
  ASSUME NEW p, Around(p), NEW n \in Nat, NEW t, NEW to \in ValueDone, ParseValue(p, t, to),
         t \in Tokens \cup {End}, p.string_high <= StringCapacity(n),
         ValueNext(p, n)
  PROVE  Sized(label', n + Width(t), depth', parser')
<1>1. PICK loc, str, high, d : /\ loc = p.current_loc /\ str = p.current_string_buf_loc
                               /\ high = p.string_high /\ d = depth
  OBVIOUS
<1>2. /\ ParserType(p) /\ loc \in Nat /\ str \in Nat /\ high \in Nat /\ high <= StringCapacity(n)
      /\ d \in Nat /\ d \in 0..MaxDepth - 1
  <2>1. ParserType(p) /\ loc \in Nat /\ str \in Nat /\ high \in Nat
    BY <1>1 DEF Around, ParserType
  <2> QED
    BY <1>1, <2>1, DepthIn DEF Around
<1>3. \/ Due(n, d, loc, str) /\ d > 1
      \/ n = 0 /\ d = 1 /\ loc = 1 /\ str = 0
  BY <1>1 DEF ValueNext
<1>4. /\ Due(n + 1, d + 1, loc + 1, str)
      /\ Done(n + 1, d, loc + 2, str) /\ Done(n + 4, d, loc + 1, str)
      /\ \A c \in 0..1 : Done(n + (2 + c), d, loc + 1, str + 4 + c + 1)
      /\ Over(n + 1, loc + 1) /\ Over(n + 2, loc + 1) /\ \A w \in 0..4 : Over(n + w, loc)
  <2>1. CASE Due(n, d, loc, str) /\ d > 1
    BY <1>2, <2>1, DueArithmetic
  <2>2. CASE n = 0 /\ d = 1 /\ loc = 1 /\ str = 0
    <3>1. n + 1 = 1 /\ d + 1 = 2 /\ loc + 1 = 2 /\ loc + 2 = 3 /\ n + 4 = 4 /\ n + 2 = 2
          /\ \A w \in 0..4 : n + w = w
      BY <2>2
    <3>2. \A c \in 0..1 : n + (2 + c) = 2 + c
      BY <2>2
    <3> QED
      BY <2>2, <3>1, <3>2, FirstArithmetic
  <2> QED
    BY <1>3, <2>1, <2>2
<1>5. \A c \in 0..1 : str + 4 + c + Padding <= StringCapacity(n + (2 + c))
  <2>1. 3 * str <= 5 * n - 5 \/ (n = 0 /\ str = 0)
    BY <1>3 DEF Due
  <2> QED
    BY <1>2, <2>1, HighArithmetic
<1>6. \A w \in 0..4 : high <= StringCapacity(n + w)
  BY <1>2, Grows
<1>7. ValueDone \cap (ValueDue \cup {"object_key_state", "success", "error", "start", "first_value"}) = {}
  BY DEF ValueDone, ValueDue
<1>8. ASSUME NEW type, Opening(type), NEW begin, Begin(begin),
             t = type, StartScope(p, type, depth, to, begin)
      PROVE  Sized(label', n + Width(t), depth', parser')
  <2>1. PICK q : q = on_start_scope(p, d, type)
    OBVIOUS
  <2>2. type \in WordTypes
    BY <1>8 DEF Opening, WordTypes
  <2>3. q.current_loc = loc + 1 /\ q.current_string_buf_loc = str /\ q.string_high = high
    <3>1. ParserType(p) /\ d \in 0..MaxDepth - 1
      BY <1>2
    <3>2. ParserType(q) /\ q.current_loc = p.current_loc + 1
          /\ q.current_string_buf_loc = p.current_string_buf_loc /\ q.string_high = p.string_high
      BY <2>1, <2>2, <3>1, ScopeBegun
    <3> QED
      BY <1>1, <3>2
  <2>4. parser' = q /\ depth' = d + 1 /\ label' \in {begin, "error"}
    BY <1>1, <1>8, <2>1 DEF StartScope
  <2>5. Width(t) = 1 /\ 1 \in 0..4
    <3>1. t \in {"{", "}", "[", "]", ",", ":"}
      BY <1>8 DEF Opening
    <3>2. Width(t) = 1
      BY <3>1, LetterWidth, Zenon
    <3> QED
      BY <3>2
  <2>6. /\ label' \notin ValueDone \cup {"object_key_state", "success", "start", "first_value"}
        /\ label' \in ValueDue => label' # "error"
    BY <1>8, <2>4 DEF ValueDone, ValueDue, Begin
  <2> QED
    BY <1>4, <1>6, <2>3, <2>4, <2>5, <2>6 DEF Sized
<1>9. ASSUME NEW q, NEW w \in 0..4, Width(t) = w, Goto(to, q), q.string_high <= StringCapacity(n + w),
             Done(n + w, d, q.current_loc, q.current_string_buf_loc)
      PROVE  Sized(label', n + Width(t), depth', parser')
  BY <1>1, <1>7, <1>9 DEF Sized, Goto
<1>10. ASSUME NEW q, NEW w \in 0..4, Width(t) = w, Goto("error", q), q.string_high <= StringCapacity(n + w),
              Over(n + w, q.current_loc)
       PROVE  Sized(label', n + Width(t), depth', parser')
  BY <1>10 DEF Sized, Goto, ValueDue, ValueDone
<1>11. CASE t = "{" /\ StartScope(p, "{", depth, to, "object_begin")
  BY <1>8, <1>11 DEF Opening, Begin
<1>12. CASE t = "[" /\ StartScope(p, "[", depth, to, "array_begin")
  BY <1>8, <1>12 DEF Opening, Begin
<1>13. CASE t \in Strings /\ Goto(to, parse_string(p, t))
  <2>1. PICK q, c : q = parse_string(p, t) /\ c = Contents(t)
    OBVIOUS
  <2>2. Width(t) = 2 + c /\ c \in 0..1 /\ Width(t) \in 0..4 /\ t \in Tokens
    BY <1>13, <2>1, Letters, Widths
  <2>3. q.current_loc = loc + 1 /\ q.current_string_buf_loc = str + 4 + c + 1
        /\ q.string_high = str + 4 + c + Padding
    BY <1>1, <1>2, <2>1, <2>2, StringRead
  <2> QED
    BY <1>4, <1>5, <1>9, <1>13, <2>1, <2>2, <2>3
<1>14. CASE t \in Numbers /\ Goto(to, on_number(p, t))
  <2>1. PICK q : q = on_number(p, t)
    OBVIOUS
  <2>2. Width(t) = 1 /\ 1 \in 0..4
    BY <1>14, NumberWidth
  <2>3. q.current_loc = loc + 2 /\ q.current_string_buf_loc = str /\ q.string_high = high
    BY <1>1, <1>2, <1>14, <2>1, NumberWritten
  <2> QED
    BY <1>4, <1>6, <1>9, <1>14, <2>1, <2>2, <2>3
<1>15. CASE t \in Atoms /\ Goto(to, on_atom(p, t))
  <2>1. PICK q : q = on_atom(p, t)
    OBVIOUS
  <2>2. Width(t) = 4 /\ 4 \in 0..4
    BY <1>15, AtomWidth
  <2>3. q.current_loc = loc + 1 /\ q.current_string_buf_loc = str /\ q.string_high = high
    BY <1>1, <1>2, <1>15, <2>1, AtomWritten
  <2> QED
    BY <1>4, <1>6, <1>9, <1>15, <2>1, <2>2, <2>3
<1>16. CASE t = RefusedString /\ Goto("error", on_start_string(p, t))
  <2>1. PICK q : q = on_start_string(p, t)
    OBVIOUS
  <2>2. Width(t) = 2 /\ Contents(t) = 0 /\ 2 \in 0..4 /\ t \in Tokens /\ 0 \in 0..1 /\ 2 + 0 = 2
    <3>1. Width(t) = 2 /\ Contents(t) = 0 /\ t \in Tokens
      BY <1>16, Letters
    <3> QED
      BY <3>1
  <2>3. q.current_loc = loc + 1 /\ q.string_high = str + 4 + 0 + Padding
    BY <1>1, <1>2, <2>1, <2>2, StringBegun
  <2>4. q.string_high <= StringCapacity(n + 2)
    BY <1>5, <2>2, <2>3
  <2> QED
    BY <1>4, <1>10, <1>16, <2>1, <2>2, <2>3, <2>4
<1>17. CASE Goto("error", p)
  <2>1. Width(t) \in 0..4
    BY Widths
  <2> QED
    BY <1>1, <1>4, <1>6, <1>10, <1>17, <2>1
<1> QED
  BY <1>11, <1>12, <1>13, <1>14, <1>15, <1>16, <1>17 DEF ParseValue

Ending(type) == type \in {"}", "]"}

\* The end of a scope, due or done.
LEMMA EndSized ==
  ASSUME TypeRight, Around(parser), depth > 1, NEW type, Ending(type), EndScope(type), NEW n \in Nat,
         parser.string_high <= StringCapacity(n),
         \/ Due(n, depth, parser.current_loc, parser.current_string_buf_loc)
         \/ Done(n, depth, parser.current_loc, parser.current_string_buf_loc)
  PROVE  Sized(label', n + 1, depth', parser')
<1>1. PICK p, q, d, loc, str, high :
        /\ p = parser /\ d = depth /\ q = on_end_scope(p, d - 1, type)
        /\ loc = p.current_loc /\ str = p.current_string_buf_loc /\ high = p.string_high
  OBVIOUS
<1>2. parser' = q /\ depth' = d - 1 /\ label' = ret_address[d - 1]
  BY <1>1 DEF EndScope
<1>3. ParserType(p) /\ d \in 1..MaxDepth - 1 /\ OpenScopes(p, d, ret_address)
  BY <1>1 DEF Around
<1>4. loc \in Nat /\ str \in Nat /\ high \in Nat /\ high <= StringCapacity(n)
  BY <1>1, <1>3 DEF ParserType
<1>5. /\ d \in Nat /\ d > 1 /\ d - 1 \in 0..MaxDepth - 1 /\ d - 1 \in 1..d - 1 /\ d - 1 \in 0..d - 1
  <2>1. d \in Nat /\ MaxDepth \in Nat /\ d < MaxDepth /\ d > 1
    BY <1>1, <1>3, DepthIn
  <2> QED
    BY <2>1
<1>6. type \in WordTypes
  BY DEF WordTypes, Ending
<1>7. p.containing_scope[d - 1].tape_index < p.current_loc
  BY <1>3, <1>5 DEF OpenScopes, Index
<1>8. q.current_loc = loc + 1 /\ q.current_string_buf_loc = str /\ q.string_high = high
  <2>1. ParserType(q) /\ q.current_loc = p.current_loc + 1
        /\ q.current_string_buf_loc = p.current_string_buf_loc /\ q.string_high = p.string_high
    BY <1>1, <1>3, <1>5, <1>6, <1>7, ScopeEnded
  <2> QED
    BY <1>1, <2>1
<1>9. ret_address[d - 1] \in ValueDone
  BY <1>3, <1>5 DEF OpenScopes, Continue, ValueDone
<1>10. Done(n + 1, d - 1, loc + 1, str)
  <2>1. CASE Due(n, d, loc, str)
    BY <1>4, <1>5, <2>1, DueArithmetic
  <2>2. CASE Done(n, d, loc, str)
    BY <1>4, <1>5, <2>2, DoneArithmetic
  <2> QED
    BY <1>1, <2>1, <2>2
<1>11. high <= StringCapacity(n + 1)
  <2>1. 1 \in 0..4
    OBVIOUS
  <2> QED
    BY <1>4, <2>1, Grows
<1>12. ValueDone \cap (ValueDue \cup {"object_key_state", "success", "error", "start", "first_value"}) = {}
  BY DEF ValueDone, ValueDue
<1> QED
  BY <1>2, <1>8, <1>9, <1>10, <1>11, <1>12 DEF Sized

\* A key that comes next.
LEMMA KeySized ==
  ASSUME NEW p, Around(p), NEW n \in Nat, NEW t, ParseKey(p, t), p.string_high <= StringCapacity(n),
         depth > 1, Due(n, depth, p.current_loc, p.current_string_buf_loc)
  PROVE  Sized(label', n + Width(t), depth', parser')
<1>1. PICK loc, str, d : loc = p.current_loc /\ str = p.current_string_buf_loc /\ d = depth
  OBVIOUS
<1>2. ParserType(p) /\ loc \in Nat /\ str \in Nat /\ d \in Nat /\ d > 1 /\ Due(n, d, loc, str)
  <2>1. ParserType(p) /\ loc \in Nat /\ str \in Nat
    BY <1>1 DEF Around, ParserType
  <2> QED
    BY <1>1, <2>1, DepthIn DEF Around
<1>3. /\ \A c \in 0..1 : Keyed(n + (2 + c), loc + 1, str + 4 + c + 1)
      /\ Over(n + 2, loc + 1)
  BY <1>2, DueArithmetic
<1>4. \A c \in 0..1 : str + 4 + c + Padding <= StringCapacity(n + (2 + c))
  <2>1. 3 * str <= 5 * n - 5
    BY <1>2 DEF Due
  <2> QED
    BY <1>2, <2>1, HighArithmetic
<1>5. "object_key_state" \notin ValueDue \cup ValueDone /\ "error" \notin ValueDue \cup ValueDone
  BY DEF ValueDue, ValueDone
<1>6. CASE t \in Strings /\ Goto("object_key_state", parse_string(p, t))
  <2>1. PICK q, c : q = parse_string(p, t) /\ c = Contents(t)
    OBVIOUS
  <2>2. Width(t) = 2 + c /\ c \in 0..1 /\ t \in Tokens
    BY <1>6, <2>1, Letters, Widths
  <2>3. q.current_loc = loc + 1 /\ q.current_string_buf_loc = str + 4 + c + 1
        /\ q.string_high = str + 4 + c + Padding
    BY <1>1, <1>2, <2>1, <2>2, StringRead
  <2>4. label' = "object_key_state" /\ parser' = q
    BY <1>6, <2>1 DEF Goto
  <2> QED
    BY <1>3, <1>4, <1>5, <2>2, <2>3, <2>4 DEF Sized
<1>7. CASE t = RefusedString /\ Goto("error", on_start_string(p, t))
  <2>1. PICK q : q = on_start_string(p, t)
    OBVIOUS
  <2>2. Width(t) = 2 /\ Contents(t) = 0 /\ t \in Tokens
    BY <1>7, Letters
  <2>3. q.current_loc = loc + 1 /\ q.string_high = str + 4 + 0 + Padding
    BY <1>1, <1>2, <2>1, <2>2, StringBegun
  <2>4. q.string_high <= StringCapacity(n + 2)
    <3>1. 0 \in 0..1 /\ 2 + 0 = 2
      OBVIOUS
    <3> QED
      BY <1>4, <2>3, <3>1
  <2>5. label' = "error" /\ parser' = q
    BY <1>7, <2>1 DEF Goto
  <2> QED
    BY <1>3, <1>5, <2>2, <2>3, <2>4, <2>5 DEF Sized
<1> QED
  BY <1>6, <1>7 DEF ParseKey

\* An error found at a token, with nothing written.
LEMMA ErrorSized ==
  ASSUME NEW p, ParserType(p), NEW n \in Nat, NEW w \in 0..4, Goto("error", p),
         p.string_high <= StringCapacity(n), Over(n + w, p.current_loc)
  PROVE  Sized(label', n + w, depth', parser')
<1>1. p.string_high \in Nat
  BY DEF ParserType
<1>2. p.string_high <= StringCapacity(n + w)
  BY <1>1, Grows
<1> QED
  BY <1>2 DEF Sized, Goto, ValueDue, ValueDone

-----------------------------------------------------------------------------
(***************************************************************************)
(* The invariant, action by action.                                        *)
(***************************************************************************)
LEMMA HighNat == ASSUME NEW p, Around(p) PROVE p.string_high \in Nat
BY DEF Around, ParserType

\* What the invariant says within scopes, with the token that is read.
LEMMA Within ==
  ASSUME IInv, label \in InArray \cup InObject, NEW t \in Tokens \cup {End}, Advance(t)
  PROVE  /\ TypeRight /\ ReadOn /\ Around(parser) /\ depth > 1 /\ depth \in Nat
         /\ ParserType(parser) /\ parser.current_loc \in Nat /\ parser.current_string_buf_loc \in Nat
         /\ Size \in Nat /\ Width(t) \in 0..4 /\ Size' = Size + Width(t)
         /\ parser.string_high <= StringCapacity(Size)
         /\ label \in InArray => parser.tape[Index(parser, depth - 1)].type = "["
         /\ label \in InObject => parser.tape[Index(parser, depth - 1)].type = "{"
         /\ label \in ValueDue =>
              Due(Size, depth, parser.current_loc, parser.current_string_buf_loc)
         /\ label \in ValueDone =>
              Done(Size, depth, parser.current_loc, parser.current_string_buf_loc)
         /\ label = "object_key_state" => Keyed(Size, parser.current_loc, parser.current_string_buf_loc)
<1>1. TypeRight /\ DepthRight /\ ScopesRight /\ RoomRight
  BY DEF IInv, Kept
<1>2. label \in Running /\ label # "start"
  BY DEF Running, InArray, InObject
<1>3. depth \in 1..MaxDepth - 1 /\ depth >= 2
  BY <1>1, <1>2 DEF DepthRight
<1>4. depth > 1 /\ depth \in Nat
  BY <1>3, DepthIn
<1>5. Around(parser) /\ ParserType(parser)
  BY <1>1, <1>2, <1>3 DEF Around, ScopesRight, TypeRight
<1>6. tokens' = Append(tokens, t)
  BY DEF Advance
<1>7. ReadOn /\ Size \in Nat /\ Width(t) \in 0..4 /\ Size' = Size + Width(t)
  BY <1>1, <1>6, ReadOne DEF ReadOn
<1>8. parser.current_loc \in Nat /\ parser.current_string_buf_loc \in Nat
  BY <1>5 DEF ParserType
<1>9. /\ label \in InArray => parser.tape[Index(parser, depth - 1)].type = "["
      /\ label \in InObject => parser.tape[Index(parser, depth - 1)].type = "{"
  BY <1>1, <1>2 DEF ScopesRight
<1> QED
  BY <1>1, <1>2, <1>4, <1>5, <1>7, <1>8, <1>9 DEF RoomRight

LEMMA Labels ==
  /\ {"array_begin", "main_array_switch"} \subseteq InArray \cap ValueDue
  /\ "array_continue" \in InArray \cap ValueDone
  /\ {"object_begin", "object_value", "object_next_key"} \subseteq InObject \cap ValueDue
  /\ "object_continue" \in InObject \cap ValueDone
  /\ "object_key_state" \in InObject
  /\ Ending("]") /\ Ending("}") /\ Closer("[") = "]" /\ Closer("{") = "}"
  /\ Continue("[") = "array_continue" /\ Continue("{") = "object_continue"
BY DEF InArray, InObject, ValueDue, ValueDone, Ending, Closer, Continue

\* A value within a scope, of the parser or the one that has counted it.
LEMMA ValueInv ==
  ASSUME TypeRight, ReadOn, NEW p, Around(p), depth > 1, NEW n \in Nat,
         NEW t \in Tokens \cup {End}, Size' = n + Width(t),
         Due(n, depth, p.current_loc, p.current_string_buf_loc), p.string_high <= StringCapacity(n),
         NEW to \in ValueDone, to = Continue(p.tape[Index(p, depth - 1)].type), ParseValue(p, t, to)
  PROVE  IInv'
<1>1. to = After(p, depth)
  <2>1. depth # 1
    BY DepthIn DEF Around
  <2> QED
    BY <2>1 DEF After
<1>2. Kept'
  BY <1>1, ValueStep
<1>3. Sized(label', n + Width(t), depth', parser')
  BY ValueSized DEF ValueNext
<1>4. RoomRight'
  BY <1>3, SizedRight
<1> QED
  BY <1>2, <1>4 DEF IInv

LEMMA EndInv ==
  ASSUME TypeRight, ReadOn, Around(parser), depth > 1, Size \in Nat, NEW t, Width(t) = 1,
         Size' = Size + Width(t),
         NEW type, Ending(type), type = Closer(parser.tape[Index(parser, depth - 1)].type),
         parser.string_high <= StringCapacity(Size),
         \/ Due(Size, depth, parser.current_loc, parser.current_string_buf_loc)
         \/ Done(Size, depth, parser.current_loc, parser.current_string_buf_loc),
         EndScope(type)
  PROVE  IInv'
<1>1. Kept'
  BY EndStep
<1>2. Sized(label', Size + 1, depth', parser')
  BY EndSized
<1>3. RoomRight'
  BY <1>2, SizedRight
<1> QED
  BY <1>1, <1>3 DEF IInv

LEMMA ErrorInv ==
  ASSUME TypeRight, ReadOn, Around(parser), NEW n \in Nat, NEW w \in 0..4, Size' = n + w,
         parser.string_high <= StringCapacity(n), Over(n + w, parser.current_loc), Goto("error", parser)
  PROVE  IInv'
<1>1. ParserType(parser)
  BY DEF Around
<1>2. Kept'
  BY <1>1, StopsHere
<1>3. Sized(label', n + w, depth', parser')
  BY <1>1, ErrorSized
<1>4. RoomRight'
  BY <1>3, SizedRight
<1> QED
  BY <1>2, <1>4 DEF IInv

\* A token that only moves on, counted or not.
LEMMA MoveInv ==
  ASSUME TypeRight, ReadOn, NEW p, Around(p), NEW n, Size' = n, NEW to, Fits(to, p, depth), Goto(to, p),
         to \in ValueDue, Due(n, depth, p.current_loc, p.current_string_buf_loc),
         p.string_high <= StringCapacity(n)
  PROVE  IInv'
<1>1. Kept'
  BY GotoStep
<1>2. Sized(label', n, depth', parser')
  BY DEF Sized, Goto, ValueDue, ValueDone
<1>3. RoomRight'
  BY <1>2, SizedRight
<1> QED
  BY <1>1, <1>3 DEF IInv

LEMMA KeyInv ==
  ASSUME TypeRight, ReadOn, NEW p, Around(p), depth > 1, p.tape[Index(p, depth - 1)].type = "{",
         NEW n \in Nat, NEW t, Size' = n + Width(t),
         Due(n, depth, p.current_loc, p.current_string_buf_loc), p.string_high <= StringCapacity(n),
         ParseKey(p, t)
  PROVE  IInv'
<1>1. Kept'
  BY KeyStep
<1>2. Sized(label', n + Width(t), depth', parser')
  BY KeySized
<1>3. RoomRight'
  BY <1>2, SizedRight
<1> QED
  BY <1>1, <1>3 DEF IInv

\* The parser that has counted one more, as far as the steps go by it.
LEMMA CountedWithin ==
  ASSUME Around(parser), depth > 1, NEW n,
         Due(n, depth, parser.current_loc, parser.current_string_buf_loc)
           \/ Done(n, depth, parser.current_loc, parser.current_string_buf_loc),
         parser.string_high <= StringCapacity(n)
  PROVE  /\ Around(Counted) /\ Counted.string_high <= StringCapacity(n)
         /\ Counted.current_loc = parser.current_loc
         /\ Counted.current_string_buf_loc = parser.current_string_buf_loc
         /\ Counted.tape[Index(Counted, depth - 1)].type = parser.tape[Index(parser, depth - 1)].type
<1>1. /\ SameTape(parser, Counted) /\ Around(Counted)
      /\ Counted.tape[Index(Counted, depth - 1)] = parser.tape[Index(parser, depth - 1)]
  BY CountedRight
<1> QED
  BY <1>1 DEF SameTape

LEMMA ArrayBeginInv == IInv /\ ArrayBegin => IInv'
<1> SUFFICES ASSUME IInv, ArrayBegin PROVE IInv'
  OBVIOUS
<1>1. label = "array_begin" /\ label \in InArray /\ label \in ValueDue
  BY Labels DEF ArrayBegin
<1>2. PICK t \in Tokens \cup {End} :
        /\ Advance(t)
        /\ (t = "]" /\ EndScope("]")) \/ (t # "]" /\ ParseValue(Counted, t, "array_continue"))
  BY DEF ArrayBegin
<1>3. /\ TypeRight /\ ReadOn /\ Around(parser) /\ depth > 1 /\ Size \in Nat
      /\ Size' = Size + Width(t) /\ parser.string_high <= StringCapacity(Size)
      /\ parser.tape[Index(parser, depth - 1)].type = "["
      /\ Due(Size, depth, parser.current_loc, parser.current_string_buf_loc)
  BY <1>1, <1>2, Within
<1>4. CASE t = "]" /\ EndScope("]")
  <2>1. Width(t) = 1
    BY <1>4, LetterWidth
  <2> QED
    BY <1>3, <1>4, <2>1, Labels, EndInv
<1>5. CASE ParseValue(Counted, t, "array_continue")
  <2>1. PICK p : p = Counted
    OBVIOUS
  <2>2. /\ Around(p) /\ p.string_high <= StringCapacity(Size)
        /\ Due(Size, depth, p.current_loc, p.current_string_buf_loc)
        /\ p.tape[Index(p, depth - 1)].type = "["
    BY <1>3, <2>1, CountedWithin
  <2> QED
    BY <1>3, <1>5, <2>1, <2>2, Labels, ValueInv
<1> QED
  BY <1>2, <1>4, <1>5

LEMMA ArrayContinueInv == IInv /\ ArrayContinue => IInv'
<1> SUFFICES ASSUME IInv, ArrayContinue PROVE IInv'
  OBVIOUS
<1>1. label = "array_continue" /\ label \in InArray /\ label \in ValueDone
  BY Labels DEF ArrayContinue
<1>2. PICK t \in Tokens \cup {End} :
        /\ Advance(t)
        /\ \/ t = "," /\ Goto("main_array_switch", Counted)
           \/ t = "]" /\ EndScope("]")
           \/ t \notin {",", "]"} /\ Goto("error", parser)
  BY DEF ArrayContinue
<1>3. /\ TypeRight /\ ReadOn /\ Around(parser) /\ depth > 1 /\ depth \in Nat /\ Size \in Nat
      /\ Width(t) \in 0..4 /\ Size' = Size + Width(t) /\ parser.string_high <= StringCapacity(Size)
      /\ parser.tape[Index(parser, depth - 1)].type = "["
      /\ parser.current_loc \in Nat /\ parser.current_string_buf_loc \in Nat
      /\ Done(Size, depth, parser.current_loc, parser.current_string_buf_loc)
  BY <1>1, <1>2, Within
<1>4. CASE t = "," /\ Goto("main_array_switch", Counted)
  <2>1. PICK p, n : p = Counted /\ n = Size + 1
    OBVIOUS
  <2>2. Size' = n
    BY <1>3, <1>4, <2>1, LetterWidth
  <2>3. Due(n, depth, parser.current_loc, parser.current_string_buf_loc)
    BY <1>3, <2>1, DoneArithmetic
  <2>4. parser.string_high <= StringCapacity(n)
    <3>1. parser.string_high \in Nat
      BY <1>3, HighNat
    <3>2. 1 \in 0..4
      OBVIOUS
    <3> QED
      BY <1>3, <2>1, <3>1, <3>2, Grows
  <2>5. /\ Around(p) /\ p.string_high <= StringCapacity(n)
        /\ Due(n, depth, p.current_loc, p.current_string_buf_loc)
        /\ p.tape[Index(p, depth - 1)].type = "["
    BY <1>3, <2>1, <2>3, <2>4, CountedWithin
  <2>6. Fits("main_array_switch", p, depth)
    BY <1>3, <2>5, Labels DEF Fits
  <2> QED
    BY <1>3, <1>4, <2>1, <2>2, <2>5, <2>6, Labels, MoveInv
<1>5. CASE t = "]" /\ EndScope("]")
  <2>1. Width(t) = 1
    BY <1>5, LetterWidth
  <2> QED
    BY <1>3, <1>5, <2>1, Labels, EndInv
<1>6. CASE Goto("error", parser)
  <2>1. PICK w : w = Width(t) /\ w \in 0..4
    BY <1>3
  <2>2. Over(Size + w, parser.current_loc)
    BY <1>3, <2>1, DoneArithmetic
  <2> QED
    BY <1>3, <1>6, <2>1, <2>2, ErrorInv
<1> QED
  BY <1>2, <1>4, <1>5, <1>6

LEMMA MainArraySwitchInv == IInv /\ MainArraySwitch => IInv'
<1> SUFFICES ASSUME IInv, MainArraySwitch PROVE IInv'
  OBVIOUS
<1>1. label = "main_array_switch" /\ label \in InArray /\ label \in ValueDue
  BY Labels DEF MainArraySwitch
<1>2. PICK t \in Tokens \cup {End} : Advance(t) /\ ParseValue(parser, t, "array_continue")
  BY DEF MainArraySwitch
<1>3. /\ TypeRight /\ ReadOn /\ Around(parser) /\ depth > 1 /\ Size \in Nat
      /\ Size' = Size + Width(t) /\ parser.string_high <= StringCapacity(Size)
      /\ parser.tape[Index(parser, depth - 1)].type = "["
      /\ Due(Size, depth, parser.current_loc, parser.current_string_buf_loc)
  BY <1>1, <1>2, Within
<1> QED
  BY <1>2, <1>3, Labels, ValueInv

LEMMA ObjectBeginInv == IInv /\ ObjectBegin => IInv'
<1> SUFFICES ASSUME IInv, ObjectBegin PROVE IInv'
  OBVIOUS
<1>1. label = "object_begin" /\ label \in InObject /\ label \in ValueDue
  BY Labels DEF ObjectBegin
<1>2. PICK t \in Tokens \cup {End} :
        /\ Advance(t)
        /\ \/ ParseKey(Counted, t)
           \/ t = "}" /\ EndScope("}")
           \/ t \notin Strings \cup {RefusedString, "}"} /\ Goto("error", parser)
  BY DEF ObjectBegin
<1>3. /\ TypeRight /\ ReadOn /\ Around(parser) /\ depth > 1 /\ depth \in Nat /\ Size \in Nat
      /\ Width(t) \in 0..4 /\ Size' = Size + Width(t) /\ parser.string_high <= StringCapacity(Size)
      /\ parser.tape[Index(parser, depth - 1)].type = "{"
      /\ parser.current_loc \in Nat /\ parser.current_string_buf_loc \in Nat
      /\ Due(Size, depth, parser.current_loc, parser.current_string_buf_loc)
  BY <1>1, <1>2, Within
<1>4. CASE ParseKey(Counted, t)
  <2>1. PICK p : p = Counted
    OBVIOUS
  <2>2. /\ Around(p) /\ p.string_high <= StringCapacity(Size)
        /\ Due(Size, depth, p.current_loc, p.current_string_buf_loc)
        /\ p.tape[Index(p, depth - 1)].type = "{"
    BY <1>3, <2>1, CountedWithin
  <2> QED
    BY <1>3, <1>4, <2>1, <2>2, KeyInv
<1>5. CASE t = "}" /\ EndScope("}")
  <2>1. Width(t) = 1
    BY <1>5, LetterWidth
  <2> QED
    BY <1>3, <1>5, <2>1, Labels, EndInv
<1>6. CASE Goto("error", parser)
  <2>1. PICK w : w = Width(t) /\ w \in 0..4
    BY <1>3
  <2>2. Over(Size + w, parser.current_loc)
    BY <1>3, <2>1, DueArithmetic
  <2> QED
    BY <1>3, <1>6, <2>1, <2>2, ErrorInv
<1> QED
  BY <1>2, <1>4, <1>5, <1>6

LEMMA ObjectNextKeyInv == IInv /\ ObjectNextKey => IInv'
<1> SUFFICES ASSUME IInv, ObjectNextKey PROVE IInv'
  OBVIOUS
<1>1. label = "object_next_key" /\ label \in InObject /\ label \in ValueDue
  BY Labels DEF ObjectNextKey
<1>2. PICK t \in Tokens \cup {End} :
        Advance(t) /\ (ParseKey(parser, t) \/ Goto("error", parser))
  BY DEF ObjectNextKey
<1>3. /\ TypeRight /\ ReadOn /\ Around(parser) /\ depth > 1 /\ depth \in Nat /\ Size \in Nat
      /\ Width(t) \in 0..4 /\ Size' = Size + Width(t) /\ parser.string_high <= StringCapacity(Size)
      /\ parser.tape[Index(parser, depth - 1)].type = "{"
      /\ parser.current_loc \in Nat /\ parser.current_string_buf_loc \in Nat
      /\ Due(Size, depth, parser.current_loc, parser.current_string_buf_loc)
  BY <1>1, <1>2, Within
<1>4. CASE ParseKey(parser, t)
  BY <1>3, <1>4, KeyInv
<1>5. CASE Goto("error", parser)
  <2>1. PICK w : w = Width(t) /\ w \in 0..4
    BY <1>3
  <2>2. Over(Size + w, parser.current_loc)
    BY <1>3, <2>1, DueArithmetic
  <2> QED
    BY <1>3, <1>5, <2>1, <2>2, ErrorInv
<1> QED
  BY <1>2, <1>4, <1>5

LEMMA ObjectKeyStateInv == IInv /\ ObjectKeyState => IInv'
<1> SUFFICES ASSUME IInv, ObjectKeyState PROVE IInv'
  OBVIOUS
<1>1. label = "object_key_state" /\ label \in InObject
  BY Labels DEF ObjectKeyState
<1>2. PICK t \in Tokens \cup {End} :
        Advance(t) /\ Goto(IF t = ":" THEN "object_value" ELSE "error", parser)
  BY DEF ObjectKeyState
<1>3. /\ TypeRight /\ ReadOn /\ Around(parser) /\ depth > 1 /\ depth \in Nat /\ Size \in Nat
      /\ Width(t) \in 0..4 /\ Size' = Size + Width(t) /\ parser.string_high <= StringCapacity(Size)
      /\ parser.tape[Index(parser, depth - 1)].type = "{"
      /\ parser.current_loc \in Nat /\ parser.current_string_buf_loc \in Nat
      /\ Keyed(Size, parser.current_loc, parser.current_string_buf_loc)
  BY <1>1, <1>2, Within
<1>4. CASE t = ":"
  <2>1. PICK n : n = Size + 1
    OBVIOUS
  <2>2. Size' = n
    BY <1>3, <1>4, <2>1, LetterWidth
  <2>3. Due(n, depth, parser.current_loc, parser.current_string_buf_loc)
    BY <1>3, <2>1, KeyedArithmetic
  <2>4. parser.string_high <= StringCapacity(n)
    <3>1. parser.string_high \in Nat
      BY <1>3, HighNat
    <3>2. 1 \in 0..4
      OBVIOUS
    <3> QED
      BY <1>3, <2>1, <3>1, <3>2, Grows
  <2>5. Fits("object_value", parser, depth) /\ Goto("object_value", parser)
    BY <1>2, <1>3, <1>4, Labels DEF Fits
  <2> QED
    BY <1>3, <2>2, <2>3, <2>4, <2>5, Labels, MoveInv
<1>5. CASE t # ":"
  <2>1. PICK w : w = Width(t) /\ w \in 0..4
    BY <1>3
  <2>2. Over(Size + w, parser.current_loc)
    BY <1>3, <2>1, KeyedArithmetic
  <2>3. Goto("error", parser)
    BY <1>2, <1>5
  <2> QED
    BY <1>3, <2>1, <2>2, <2>3, ErrorInv
<1> QED
  BY <1>4, <1>5

LEMMA ObjectValueInv == IInv /\ ObjectValue => IInv'
<1> SUFFICES ASSUME IInv, ObjectValue PROVE IInv'
  OBVIOUS
<1>1. label = "object_value" /\ label \in InObject /\ label \in ValueDue
  BY Labels DEF ObjectValue
<1>2. PICK t \in Tokens \cup {End} : Advance(t) /\ ParseValue(parser, t, "object_continue")
  BY DEF ObjectValue
<1>3. /\ TypeRight /\ ReadOn /\ Around(parser) /\ depth > 1 /\ Size \in Nat
      /\ Size' = Size + Width(t) /\ parser.string_high <= StringCapacity(Size)
      /\ parser.tape[Index(parser, depth - 1)].type = "{"
      /\ Due(Size, depth, parser.current_loc, parser.current_string_buf_loc)
  BY <1>1, <1>2, Within
<1> QED
  BY <1>2, <1>3, Labels, ValueInv

LEMMA ObjectContinueInv == IInv /\ ObjectContinue => IInv'
<1> SUFFICES ASSUME IInv, ObjectContinue PROVE IInv'
  OBVIOUS
<1>1. label = "object_continue" /\ label \in InObject /\ label \in ValueDone
  BY Labels DEF ObjectContinue
<1>2. PICK t \in Tokens \cup {End} :
        /\ Advance(t)
        /\ \/ t = "," /\ Goto("object_next_key", Counted)
           \/ t = "}" /\ EndScope("}")
           \/ t \notin {",", "}"} /\ Goto("error", parser)
  BY DEF ObjectContinue
<1>3. /\ TypeRight /\ ReadOn /\ Around(parser) /\ depth > 1 /\ depth \in Nat /\ Size \in Nat
      /\ Width(t) \in 0..4 /\ Size' = Size + Width(t) /\ parser.string_high <= StringCapacity(Size)
      /\ parser.tape[Index(parser, depth - 1)].type = "{"
      /\ parser.current_loc \in Nat /\ parser.current_string_buf_loc \in Nat
      /\ Done(Size, depth, parser.current_loc, parser.current_string_buf_loc)
  BY <1>1, <1>2, Within
<1>4. CASE t = "," /\ Goto("object_next_key", Counted)
  <2>1. PICK p, n : p = Counted /\ n = Size + 1
    OBVIOUS
  <2>2. Size' = n
    BY <1>3, <1>4, <2>1, LetterWidth
  <2>3. Due(n, depth, parser.current_loc, parser.current_string_buf_loc)
    BY <1>3, <2>1, DoneArithmetic
  <2>4. parser.string_high <= StringCapacity(n)
    <3>1. parser.string_high \in Nat
      BY <1>3, HighNat
    <3>2. 1 \in 0..4
      OBVIOUS
    <3> QED
      BY <1>3, <2>1, <3>1, <3>2, Grows
  <2>5. /\ Around(p) /\ p.string_high <= StringCapacity(n)
        /\ Due(n, depth, p.current_loc, p.current_string_buf_loc)
        /\ p.tape[Index(p, depth - 1)].type = "{"
    BY <1>3, <2>1, <2>3, <2>4, CountedWithin
  <2>6. Fits("object_next_key", p, depth)
    BY <1>3, <2>5, Labels DEF Fits
  <2> QED
    BY <1>3, <1>4, <2>1, <2>2, <2>5, <2>6, Labels, MoveInv
<1>5. CASE t = "}" /\ EndScope("}")
  <2>1. Width(t) = 1
    BY <1>5, LetterWidth
  <2> QED
    BY <1>3, <1>5, <2>1, Labels, EndInv
<1>6. CASE Goto("error", parser)
  <2>1. PICK w : w = Width(t) /\ w \in 0..4
    BY <1>3
  <2>2. Over(Size + w, parser.current_loc)
    BY <1>3, <2>1, DoneArithmetic
  <2> QED
    BY <1>3, <1>6, <2>1, <2>2, ErrorInv
<1> QED
  BY <1>2, <1>4, <1>5, <1>6

LEMMA RootBegins ==
  ASSUME NEW p, ParserType(p), NEW ret
  PROVE  LET q == on_start_scope(init_stage2(p), 0, "r")
         IN  /\ ParserType(q) /\ OpenScopes(q, 1, ret) /\ ClosedScopes(q, 1)
             /\ q.current_loc = 1 /\ q.current_string_buf_loc = 0 /\ q.string_high = 0
<1>1. PICK i, q : i = init_stage2(p) /\ q = on_start_scope(i, 0, "r")
  OBVIOUS
<1>2. ParserType(i) /\ i.current_loc = 0 /\ i.current_string_buf_loc = 0 /\ i.string_high = 0
  BY <1>1, InitStage2
<1>3. 0 \in 0..MaxDepth - 1 /\ "r" \in WordTypes
  BY BufferAssumption DEF WordTypes
<1>4. /\ ParserType(q) /\ q.current_loc = i.current_loc + 1
      /\ Written(i.tape, i.current_loc, q.tape, Word("r", 0))
      /\ q.current_string_buf_loc = i.current_string_buf_loc /\ q.string_high = i.string_high
      /\ q.containing_scope[0] = [tape_index |-> i.current_loc, count |-> 0]
  BY <1>1, <1>2, <1>3, ScopeBegun
<1>5. q.current_loc = 1 /\ q.tape[0].type = "r" /\ Index(q, 0) = 0
  BY <1>2, <1>4 DEF Written, Word, Index
<1>6. OpenScopes(q, 1, ret)
  <2>1. (\A e \in 0..1 - 1 : e = 0) /\ 1..1 - 1 = {}
    OBVIOUS
  <2> QED
    BY <1>5, <2>1 DEF OpenScopes
<1>7. ClosedScopes(q, 1)
  <2>1. BeginsOf(q) = {} /\ EndsOf(q) = {}
    BY <1>5 DEF BeginsOf, EndsOf
  <2> QED
    BY <2>1 DEF ClosedScopes
<1> QED
  BY <1>1, <1>2, <1>4, <1>5, <1>6, <1>7

LEMMA StartInv == IInv /\ Start => IInv'
<1> SUFFICES ASSUME IInv, Start PROVE IInv'
  OBVIOUS
<1>1. TypeRight /\ label = "start" /\ depth = 0 /\ tokens = <<>>
  BY DEF IInv, Kept, DepthRight, Start
<1>2. PICK t \in Tokens : Advance(t)
  BY DEF Start
<1>3. PICK q, w : q = on_start_scope(init_stage2(parser), 0, "r") /\ w = Width(t)
  OBVIOUS
<1>4. /\ parser' = q /\ depth' = 1 /\ ret_address' = [ret_address EXCEPT ![0] = "finish"]
      /\ label' = IF 1 >= MaxDepth THEN "error" ELSE "first_value"
  BY <1>3 DEF Start, StartScope
<1>5. ParserType(parser) /\ ret_address \in [0..MaxDepth - 1 -> Returns]
  BY <1>1 DEF TypeRight
<1>6. /\ ParserType(q) /\ OpenScopes(q, 1, ret_address') /\ ClosedScopes(q, 1)
      /\ q.current_loc = 1 /\ q.current_string_buf_loc = 0 /\ q.string_high = 0
  BY <1>3, <1>5, RootBegins
<1>7. ReadOn /\ w \in 0..4 /\ Size' = w /\ tokens' = <<t>>
  <2>1. tokens' = Append(tokens, t) /\ t \in Tokens \cup {End}
    BY <1>2 DEF Advance
  <2>2. ReadOn /\ Width(t) \in 0..4 /\ Size' = Size + Width(t)
    BY <1>1, <2>1, ReadOne DEF ReadOn
  <2>3. Size = 0
    BY <1>1, BytesOfNone DEF Size
  <2>4. tokens' = <<t>>
    BY <1>1, <2>1
  <2> QED
    BY <1>3, <2>2, <2>3, <2>4
<1>8. ret_address' \in [0..MaxDepth - 1 -> Returns]
  BY <1>4, <1>5 DEF Returns
<1>9. MaxDepth \in Nat /\ 1 \in 0..MaxDepth
  BY BufferAssumption
<1>10. Kept'
  <2>1. CASE 1 >= MaxDepth
    BY <1>1, <1>4, <1>6, <1>7, <1>8, <1>9, <2>1, GivesUp
  <2>2. CASE ~(1 >= MaxDepth)
    <3>1. 1 \in 1..MaxDepth - 1
      BY <1>9, <2>2
    <3>2. label' = "first_value" /\ label' \in Running /\ label' \notin InArray \cup InObject
      BY <1>4, <2>2 DEF Running, InArray, InObject
    <3>3. TypeRight'
      BY <1>4, <1>6, <1>7, <1>8, <1>9, <3>2 DEF TypeRight, ReadOn
    <3>4. DepthRight'
      BY <1>2, <1>4, <1>7, <3>1, <3>2 DEF DepthRight
    <3>5. ScopesRight'
      BY <1>4, <1>6, <3>2 DEF ScopesRight
    <3>6. TapeLinked'
      BY <3>2 DEF TapeLinked
    <3> QED
      BY <3>3, <3>4, <3>5, <3>6 DEF Kept
  <2> QED
    BY <2>1, <2>2
<1>11. RoomRight'
  <2>1. Over(w, 1)
    BY <1>7, FirstArithmetic
  <2>2. w \in Nat
    BY <1>7
  <2>3. StringCapacity(w) \in Nat
    BY <2>2, StringRoom
  <2>4. 0 <= StringCapacity(w)
    BY <2>3
  <2>5. label' \in {"error", "first_value"}
    BY <1>4
  <2>6. label' \notin ValueDue \cup ValueDone \cup {"start", "object_key_state"}
    BY <2>5 DEF ValueDue, ValueDone
  <2> QED
    BY <1>4, <1>6, <1>7, <2>1, <2>4, <2>6 DEF RoomRight
<1> QED
  BY <1>10, <1>11 DEF IInv

LEMMA FirstValueInv == IInv /\ FirstValue => IInv'
<1> SUFFICES ASSUME IInv, FirstValue PROVE IInv'
  OBVIOUS
<1>1. /\ label = "first_value" /\ TypeRight /\ DepthRight /\ ScopesRight /\ RoomRight
      /\ ParseValue(parser, Last(tokens), "finish") /\ tokens' = tokens
  BY DEF IInv, Kept, FirstValue
<1>2. label \in Running
  BY <1>1 DEF Running
<1>3. PICK t \in Tokens : tokens = <<t>>
  BY <1>1 DEF DepthRight
<1>4. depth \in 1..MaxDepth - 1 /\ depth = 1
  BY <1>1, <1>2 DEF DepthRight
<1>5. Around(parser) /\ After(parser, depth) = "finish" /\ ReadOn
  BY <1>1, <1>2, <1>4 DEF Around, ScopesRight, TypeRight, After, ReadOn
<1>6. ParseValue(parser, t, "finish") /\ t \in Tokens \cup {End}
  <2>1. Last(tokens) = t
    BY <1>3 DEF Last
  <2> QED
    BY <1>1, <2>1
<1>7. Kept'
  BY <1>1, <1>5, <1>6, ValueStep
<1>8. Size' = 0 + Width(t)
  <2>1. <<>> \in Seq(Tokens \cup {End}) /\ tokens' = Append(<<>>, t)
    BY <1>1, <1>3
  <2>2. Cardinality(Bytes(tokens')) = 0 + Width(t)
    BY <1>6, <2>1, BytesOfNone, BytesOfMore
  <2> QED
    BY <2>2 DEF Size
<1>9. parser.current_loc = 1 /\ parser.current_string_buf_loc = 0 /\ parser.string_high = 0
  BY <1>1 DEF RoomRight
<1>10. parser.string_high <= StringCapacity(0) /\ 0 \in Nat /\ "finish" \in ValueDone
  <2>1. StringCapacity(0) \in Nat
    BY StringRoom
  <2>2. 0 <= StringCapacity(0)
    BY <2>1
  <2> QED
    BY <1>9, <2>2 DEF ValueDone
<1>11. ValueNext(parser, 0)
  BY <1>4, <1>9 DEF ValueNext
<1>12. Sized(label', 0 + Width(t), depth', parser')
  BY <1>5, <1>6, <1>10, <1>11, ValueSized
<1>13. RoomRight'
  BY <1>8, <1>12, SizedRight
<1> QED
  BY <1>7, <1>13 DEF IInv

\* The end of the text, where it is read.
LEMMA RootStep ==
  ASSUME TypeRight, ReadOn, Around(parser), depth = 1,
         depth' = depth - 1, parser' = on_end_scope(parser, depth', "r"),
         label' \in {"error", "success"}, ret_address' = ret_address,
         NEW n \in Nat, Size' = n, parser.string_high <= StringCapacity(n),
         Done(n, depth, parser.current_loc, parser.current_string_buf_loc)
  PROVE  IInv'
<1>1. PICK p, q, count :
        /\ p = parser /\ q = on_end_scope(p, 0, "r")
        /\ count = LET c == p.containing_scope[0].count IN IF c <= CountLimit THEN c ELSE CountLimit
  OBVIOUS
<1>2. depth' = 0 /\ parser' = q
  BY <1>1
<1>3. ParserType(p) /\ OpenScopes(p, 1, ret_address) /\ ClosedScopes(p, 1)
      /\ p.current_loc \in Nat /\ p.current_string_buf_loc \in Nat
  BY <1>1 DEF Around, ParserType
<1>4. Index(p, 0) = 0 /\ 0 < p.current_loc
  <2>1. 0 \in 0..1 - 1
    OBVIOUS
  <2> QED
    BY <1>3, <2>1 DEF OpenScopes
<1>5. 0 \in 0..MaxDepth - 1 /\ "r" \in WordTypes /\ 0 \in 0..MaxDepth
  BY BufferAssumption DEF WordTypes
<1>6. /\ ParserType(q) /\ q.current_loc = p.current_loc + 1
      /\ Closed(p.tape, p.current_loc, q.tape, "r", 0, count)
      /\ q.current_string_buf_loc = p.current_string_buf_loc /\ q.string_high = p.string_high
  BY <1>1, <1>3, <1>4, <1>5, ScopeEnded DEF Index
<1>7. Kept'
  <2>1. CASE label' = "error"
    BY <1>2, <1>5, <1>6, <2>1, GivesUp DEF TypeRight
  <2>2. CASE label' = "success"
    <3>1. label' \notin Running \cup {"start"} /\ label' \in {"start", "success", "error"} \cup Running
      BY <2>2 DEF Running, InArray, InObject
    <3>2. TypeRight'
      BY <1>2, <1>5, <1>6, <3>1 DEF TypeRight, ReadOn
    <3>3. DepthRight'
      BY <3>1 DEF DepthRight, Running
    <3>4. ScopesRight'
      BY <3>1 DEF ScopesRight
    <3>5. TapeLinked'
      BY <1>2, <1>3, <1>4, <1>6, RootEnds DEF TapeLinked
    <3> QED
      BY <3>2, <3>3, <3>4, <3>5 DEF Kept
  <2> QED
    BY <2>1, <2>2
<1>8. Over(n, p.current_loc + 1)
  <2>1. PICK loc, str : loc = p.current_loc /\ str = p.current_string_buf_loc
    OBVIOUS
  <2>2. Done(n, 1, loc, str) /\ loc \in Nat /\ str \in Nat
    BY <1>1, <1>3, <2>1
  <2>3. Over(n, loc + 1)
    BY <2>2, DoneArithmetic
  <2> QED
    BY <2>1, <2>3
<1>9. label' \notin ValueDue \cup ValueDone \cup {"start", "first_value", "object_key_state"}
  BY DEF ValueDue, ValueDone
<1>10. RoomRight'
  BY <1>1, <1>2, <1>6, <1>8, <1>9 DEF RoomRight
<1> QED
  BY <1>7, <1>10 DEF IInv

LEMMA FinishInv == IInv /\ Finish => IInv'
<1> SUFFICES ASSUME IInv, Finish PROVE IInv'
  OBVIOUS
<1>1. label = "finish" /\ TypeRight /\ DepthRight /\ ScopesRight /\ RoomRight
  BY DEF IInv, Kept, Finish
<1>2. label \in Running /\ label \in ValueDone /\ label # "start"
  BY <1>1 DEF Running, ValueDone
<1>3. depth \in 1..MaxDepth - 1 /\ depth = 1 /\ depth \in Nat
  BY <1>1, <1>2 DEF DepthRight
<1>4. Around(parser)
  BY <1>1, <1>2, <1>3 DEF Around, ScopesRight, TypeRight
<1>5. parser.current_loc \in Nat /\ parser.current_string_buf_loc \in Nat
      /\ Done(Size, depth, parser.current_loc, parser.current_string_buf_loc)
      /\ parser.string_high <= StringCapacity(Size)
  BY <1>1, <1>2, <1>4 DEF RoomRight, Around, ParserType
<1>6. PICK t \in Tokens \cup {End} :
        /\ Advance(t)
        /\ IF t # End THEN Goto("error", parser)
           ELSE /\ depth' = depth - 1
                /\ parser' = on_end_scope(parser, depth', "r")
                /\ label' = IF depth' # 0 \/ parser'.containing_scope[depth'].tape_index # 0
                            THEN "error" ELSE "success"
                /\ UNCHANGED ret_address
  BY DEF Finish
<1>7. ReadOn /\ Size \in Nat /\ Width(t) \in 0..4 /\ Size' = Size + Width(t)
  BY <1>1, <1>6, ReadOne DEF Advance, ReadOn
<1>8. CASE t # End
  <2>1. PICK w : w = Width(t) /\ w \in 0..4
    BY <1>7
  <2>2. Over(Size + w, parser.current_loc)
    BY <1>3, <1>5, <1>7, <2>1, DoneArithmetic
  <2> QED
    BY <1>1, <1>4, <1>5, <1>6, <1>7, <1>8, <2>1, <2>2, ErrorInv
<1>9. CASE t = End
  <2>1. Width(t) = 0
    BY <1>9, Widths
  <2>2. Size' = Size
    BY <1>7, <2>1
  <2>3. label' \in {"error", "success"} /\ depth' = depth - 1 /\ ret_address' = ret_address
        /\ parser' = on_end_scope(parser, depth', "r")
    BY <1>6, <1>9
  <2> QED
    BY <1>1, <1>3, <1>4, <1>5, <1>7, <2>2, <2>3, RootStep
<1> QED
  BY <1>8, <1>9

LEMMA ParseAgainInv == IInv /\ ParseAgain => IInv'
<1> SUFFICES ASSUME IInv, ParseAgain PROVE IInv'
  OBVIOUS
<1>1. /\ tokens' = <<>> /\ label' = "start" /\ depth' = 0
      /\ ret_address' = ret_address /\ parser' = parser
  BY DEF ParseAgain
<1>2. label' \notin Running \cup ValueDue \cup ValueDone \cup InArray \cup InObject
      /\ label' \notin {"first_value", "finish", "object_key_state", "success", "error"}
  BY <1>1 DEF Running, InArray, InObject, ValueDue, ValueDone
<1>3. ParserType(parser) /\ ret_address \in [0..MaxDepth - 1 -> Returns]
  BY DEF IInv, Kept, TypeRight
<1>4. tokens' \in Seq(Tokens \cup {End}) /\ IsFiniteSet(Bytes(tokens')) /\ 0 \in 0..MaxDepth
  BY <1>1, BytesOfNone, BufferAssumption
<1>5. TypeRight' /\ DepthRight' /\ ScopesRight' /\ TapeLinked'
  <2>1. TypeRight'
    BY <1>1, <1>3, <1>4 DEF TypeRight
  <2>2. DepthRight'
    BY <1>1, <1>2 DEF DepthRight
  <2>3. ScopesRight'
    BY <1>2 DEF ScopesRight
  <2>4. TapeLinked'
    BY <1>2 DEF TapeLinked
  <2> QED
    BY <2>1, <2>2, <2>3, <2>4
<1>6. RoomRight'
  BY <1>1, <1>2 DEF RoomRight, Stopped
<1> QED
  BY <1>5, <1>6 DEF IInv, Kept

LEMMA BuilderInitInv == BuilderInit => IInv
<1> SUFFICES ASSUME BuilderInit PROVE IInv
  OBVIOUS
<1>1. /\ tokens = <<>> /\ label = "start" /\ depth = 0 /\ parser = NewParser
      /\ ret_address = [d \in 0..MaxDepth - 1 |-> "error"]
  BY DEF BuilderInit
<1>2. label \notin Running \cup ValueDue \cup ValueDone \cup InArray \cup InObject
      /\ label \notin {"first_value", "finish", "object_key_state", "success", "error"}
  BY <1>1 DEF Running, InArray, InObject, ValueDue, ValueDone
<1>3. ParserType(parser) /\ ret_address \in [0..MaxDepth - 1 -> Returns]
  BY <1>1, FreshParser DEF Returns
<1>4. tokens \in Seq(Tokens \cup {End}) /\ IsFiniteSet(Bytes(tokens)) /\ 0 \in 0..MaxDepth
  BY <1>1, BytesOfNone, BufferAssumption
<1>5. TypeRight /\ DepthRight /\ ScopesRight /\ TapeLinked
  <2>1. TypeRight
    BY <1>1, <1>3, <1>4 DEF TypeRight
  <2>2. DepthRight
    BY <1>1, <1>2 DEF DepthRight
  <2>3. ScopesRight
    BY <1>2 DEF ScopesRight
  <2>4. TapeLinked
    BY <1>2 DEF TapeLinked
  <2> QED
    BY <2>1, <2>2, <2>3, <2>4
<1>6. RoomRight
  BY <1>1, <1>2 DEF RoomRight, Stopped
<1> QED
  BY <1>5, <1>6 DEF IInv, Kept

LEMMA UnchangedInv == IInv /\ UNCHANGED builderVars => IInv'
<1> SUFFICES ASSUME IInv, UNCHANGED builderVars PROVE IInv'
  OBVIOUS
<1>1. tokens' = tokens /\ label' = label /\ depth' = depth /\ ret_address' = ret_address
      /\ parser' = parser
  BY DEF builderVars
<1>2. TypeRight' /\ DepthRight'
  BY <1>1 DEF IInv, Kept, TypeRight, DepthRight
<1>3. ScopesRight'
  BY <1>1 DEF IInv, Kept, ScopesRight
<1>4. TapeLinked'
  BY <1>1 DEF IInv, Kept, TapeLinked
<1>5. RoomRight'
  BY <1>1 DEF IInv, RoomRight, Size, Stopped
<1> QED
  BY <1>2, <1>3, <1>4, <1>5 DEF IInv, Kept

-----------------------------------------------------------------------------
(***************************************************************************)
(* What stage 2 keeps to, for every text and every parser that is used     *)
(* again.                                                                  *)
(***************************************************************************)
Builder == BuilderInit /\ [][BuilderNext]_builderVars

\* The invariant holds: whatever is read, the open scopes begin one within the other,
\* the closed ones are linked, and the sizes keep to the bytes that have been read.
THEOREM BuilderKeepsOn == Builder => []IInv
<1>1. IInv /\ [BuilderNext]_builderVars => IInv'
  BY StartInv, FirstValueInv, ObjectBeginInv, ObjectKeyStateInv, ObjectValueInv, ObjectContinueInv,
     ObjectNextKeyInv, ArrayBeginInv, ArrayContinueInv, MainArraySwitchInv, FinishInv, ParseAgainInv,
     UnchangedInv
  DEF BuilderNext
<1> QED
  BY <1>1, BuilderInitInv, PTL DEF Builder

\* The tape, the string buffer and the stack of scopes that document::allocate and the
\* parser provide for the length of a text are never written past their ends, for every
\* text however long and deep, even one without white space.
THEOREM BuffersAlwaysFit == Builder => []BuffersFit
<1>1. IInv => BuffersFit
  <2> SUFFICES ASSUME IInv, Size > 0
               PROVE  /\ parser.current_loc <= TapeCapacity(Size)
                      /\ parser.string_high <= StringCapacity(Size)
                      /\ depth <= MaxDepth
    BY DEF BuffersFit, Size
  <2>1. TypeRight /\ DepthRight /\ RoomRight
    BY DEF IInv, Kept
  <2>2. label # "start"
    BY <2>1, BytesOfNone DEF DepthRight, Size
  <2>3. parser.string_high <= StringCapacity(Size)
    BY <2>1, <2>2 DEF RoomRight
  <2>4. depth \in 0..MaxDepth /\ MaxDepth \in Nat
    BY <2>1, BufferAssumption DEF TypeRight
  <2>5. PICK n, loc, str : n = Size /\ loc = parser.current_loc /\ str = parser.current_string_buf_loc
    OBVIOUS
  <2>6. n \in Nat /\ loc \in Nat /\ str \in Nat
    BY <2>1, <2>5, FS_CardinalityType DEF TypeRight, ParserType, Size
  <2>7. loc <= n + 2 \/ Over(n, loc)
    <3>1. loc = 1 => loc <= n + 2
      BY <2>6
    <3>2. Due(n, depth, loc, str) => loc <= n + 2
      BY <2>6 DEF Due
    <3>3. Done(n, depth, loc, str) \/ Keyed(n, loc, str) => loc <= n + 2
      BY <2>6 DEF Done, Keyed
    <3>4. label \in {"first_value", "object_key_state"} \cup ValueDue \cup ValueDone \/ Stopped
      BY <2>1, <2>2 DEF TypeRight, Running, InArray, InObject, ValueDue, ValueDone, Stopped
    <3> QED
      BY <2>1, <2>5, <3>1, <3>2, <3>3, <3>4 DEF RoomRight
  <2>8. loc <= TapeCapacity(n)
    BY <2>6, <2>7, TapeRoom DEF Over
  <2> QED
    BY <2>3, <2>4, <2>5, <2>8
<1> QED
  BY <1>1, BuilderKeepsOn, PTL

\* On the tape of every text that is accepted, the words that begin and end scopes lead
\* to each other and the scopes nest, whatever the parser held before.
THEOREM TapeAlwaysLinked == Builder => []TapeLinked
<1>1. IInv => TapeLinked
  BY DEF IInv, Kept
<1> QED
  BY <1>1, BuilderKeepsOn, PTL

-----------------------------------------------------------------------------
(***************************************************************************)
(* The grammar: what is derivable, read from the rules and back.           *)
(***************************************************************************)
LEMMA ScalarDerived ==
  ASSUME NEW ts, NEW i \in DOMAIN ts, ts[i] \in Scalars
  PROVE  IsValue(ts, i, i + 1)
BY DEF IsValue, Rules

LEMMA BracketsDerived ==
  ASSUME NEW ts, NEW i \in DOMAIN ts, NEW j, ts[i] \in Brackets, Closes(ts, i, j),
         j = i + 1 \/ IsItems(ts, ts[i], i + 1, j)
  PROVE  IsValue(ts, i, j + 1)
<1> SUFFICES ASSUME NEW V, NEW S, Rules(ts, V, S) PROVE <<i, j + 1>> \in V
  BY DEF IsValue
<1>1. j = i + 1 \/ <<ts[i], i + 1, j>> \in S
  BY DEF IsItems
<1>2. j \in DOMAIN ts
  BY DEF Closes
<1> QED
  BY <1>1, <1>2 DEF Rules

LEMMA ItemDerived ==
  ASSUME NEW ts, NEW type \in Brackets, NEW i \in Nat, NEW k \in Nat, IsItem(ts, type, i, k)
  PROVE  IsItems(ts, type, i, k)
BY DEF IsItem, IsItems, IsValue, Rules

LEMMA MoreDerived ==
  ASSUME NEW ts, NEW type \in Brackets, NEW i \in Nat, NEW k \in Nat, NEW j \in DOMAIN ts,
         IsItems(ts, type, i, j), ts[j] = ",", IsItem(ts, type, j + 1, k)
  PROVE  IsItems(ts, type, i, k)
BY DEF IsItem, IsItems, IsValue, Rules

\* What is derivable from a text is derivable from every longer one.
LEMMA DerivedFurther ==
  ASSUME NEW ts \in Texts, NEW more \in Texts, Extends(more, ts)
  PROVE  /\ \A i, k : IsValue(ts, i, k) => IsValue(more, i, k)
         /\ \A type, i, k : IsItems(ts, type, i, k) => IsItems(more, type, i, k)
         /\ \A i : KeyAt(ts, i) => KeyAt(more, i)
<1>1. \A i \in DOMAIN ts : i \in DOMAIN more /\ more[i] = ts[i]
  BY DEF Extends, Texts
<1>2. \A i : KeyAt(ts, i) => KeyAt(more, i)
  BY <1>1 DEF KeyAt
<1>3. ASSUME NEW V, NEW S, Rules(more, V, S) PROVE Rules(ts, V, S)
  <2>1. \A i \in DOMAIN ts : ts[i] \in Scalars => <<i, i + 1>> \in V
    BY <1>1, <1>3 DEF Rules
  <2>2. \A i, j \in DOMAIN ts :
          /\ ts[i] \in Brackets /\ Closes(ts, i, j)
          /\ j = i + 1 \/ <<ts[i], i + 1, j>> \in S
          => <<i, j + 1>> \in V
    BY <1>1, <1>3 DEF Rules, Closes
  <2>3. \A type \in Brackets, i, k \in Nat :
          Headed(ts, type, i) /\ <<ValueOf(type, i), k>> \in V => <<type, i, k>> \in S
    BY <1>2, <1>3 DEF Rules, Headed
  <2>4. \A type \in Brackets, i, k \in Nat, j \in DOMAIN ts :
          /\ <<type, i, j>> \in S /\ ts[j] = ","
          /\ Headed(ts, type, j + 1) /\ <<ValueOf(type, j + 1), k>> \in V
          => <<type, i, k>> \in S
    BY <1>1, <1>2, <1>3 DEF Rules, Headed
  <2> QED
    BY <2>1, <2>2, <2>3, <2>4 DEF Rules
<1>4. \A i, k : IsValue(ts, i, k) => IsValue(more, i, k)
  BY <1>3 DEF IsValue
<1>5. \A type, i, k : IsItems(ts, type, i, k) => IsItems(more, type, i, k)
  BY <1>3 DEF IsItems
<1> QED
  BY <1>2, <1>4, <1>5

\* How a value or the items of a scope come about.
OneValue(ts, i, k) ==
  /\ i \in DOMAIN ts /\ k \in Nat /\ i < k /\ k <= Len(ts) + 1
  /\ \/ ts[i] \in Scalars /\ k = i + 1
     \/ \E j \in DOMAIN ts : /\ k = j + 1 /\ ts[i] \in Brackets /\ Closes(ts, i, j)
                             /\ j = i + 1 \/ IsItems(ts, ts[i], i + 1, j)

OneItems(ts, type, i, k) ==
  /\ i \in DOMAIN ts /\ k \in Nat /\ i < k /\ k <= Len(ts) + 1
  /\ \/ IsItem(ts, type, i, k)
     \/ \E j \in DOMAIN ts : IsItems(ts, type, i, j) /\ ts[j] = "," /\ IsItem(ts, type, j + 1, k)

LEMMA ValuePlace ==
  ASSUME NEW type, NEW i \in Nat
  PROVE  ValueOf(type, i) \in Nat /\ i <= ValueOf(type, i) /\ (type # "{" => ValueOf(type, i) = i)
<1>1. PICK n : n = ValueOf(type, i) /\ (type = "{" => n = i + 2) /\ (type # "{" => n = i)
  BY DEF ValueOf
<1>2. n = i + 2 \/ n = i
  BY <1>1
<1>3. n \in Nat /\ i <= n
  BY <1>2
<1> QED
  BY <1>1, <1>3

LEMMA Between ==
  ASSUME NEW i \in Nat, NEW n \in Nat, NEW k \in Nat
  PROVE  (i <= n /\ n < k => i < k) /\ (i < n /\ n < k => i < k) /\ (i + 1 <= n => i < n)
OBVIOUS

LEMMA Derivations ==
  ASSUME NEW ts \in Texts
  PROVE  /\ \A i, k : IsValue(ts, i, k) => OneValue(ts, i, k)
         /\ \A type, i, k : IsItems(ts, type, i, k) => type \in Brackets /\ OneItems(ts, type, i, k)
<1>1. PICK V : V = {p \in Nat \X Nat : IsValue(ts, p[1], p[2]) /\ OneValue(ts, p[1], p[2])}
  OBVIOUS
<1>2. PICK S : S = {p \in Brackets \X Nat \X Nat :
                      IsItems(ts, p[1], p[2], p[3]) /\ OneItems(ts, p[1], p[2], p[3])}
  OBVIOUS
<1>3. \A i, k : <<i, k>> \in V <=> i \in Nat /\ k \in Nat /\ IsValue(ts, i, k) /\ OneValue(ts, i, k)
  BY <1>1
<1>4. \A type, i, k : <<type, i, k>> \in S <=> type \in Brackets /\ i \in Nat /\ k \in Nat
                                                /\ IsItems(ts, type, i, k) /\ OneItems(ts, type, i, k)
  BY <1>2
<1>5. DOMAIN ts = 1..Len(ts) /\ Len(ts) \in Nat /\ \A i \in DOMAIN ts : i \in Nat /\ i + 1 \in Nat
  BY DEF Texts
<1>6. \A i \in DOMAIN ts : ts[i] \in Scalars => <<i, i + 1>> \in V
  <2> SUFFICES ASSUME NEW i \in DOMAIN ts, ts[i] \in Scalars PROVE <<i, i + 1>> \in V
    OBVIOUS
  <2>1. i \in Nat /\ i + 1 \in Nat /\ i < i + 1 /\ i + 1 <= Len(ts) + 1
    BY <1>5
  <2>2. IsValue(ts, i, i + 1)
    BY ScalarDerived
  <2> QED
    BY <1>3, <2>1, <2>2 DEF OneValue
<1>7. \A i, j \in DOMAIN ts :
        /\ ts[i] \in Brackets /\ Closes(ts, i, j)
        /\ j = i + 1 \/ <<ts[i], i + 1, j>> \in S
        => <<i, j + 1>> \in V
  <2> SUFFICES ASSUME NEW i \in DOMAIN ts, NEW j \in DOMAIN ts, ts[i] \in Brackets, Closes(ts, i, j),
                      j = i + 1 \/ <<ts[i], i + 1, j>> \in S
               PROVE  <<i, j + 1>> \in V
    OBVIOUS
  <2>1. j = i + 1 \/ (IsItems(ts, ts[i], i + 1, j) /\ i + 1 < j)
    BY <1>4 DEF OneItems
  <2>2. i \in Nat /\ j + 1 \in Nat /\ i < j + 1 /\ j + 1 <= Len(ts) + 1
    BY <1>5, <2>1
  <2>3. IsValue(ts, i, j + 1)
    BY <2>1, BracketsDerived
  <2> QED
    BY <1>3, <2>1, <2>2, <2>3 DEF OneValue
<1>8. \A type \in Brackets, i, k \in Nat :
        Headed(ts, type, i) /\ <<ValueOf(type, i), k>> \in V => <<type, i, k>> \in S
  <2> SUFFICES ASSUME NEW type \in Brackets, NEW i \in Nat, NEW k \in Nat,
                      Headed(ts, type, i), <<ValueOf(type, i), k>> \in V
               PROVE  <<type, i, k>> \in S
    OBVIOUS
  <2>1. IsItem(ts, type, i, k) /\ OneValue(ts, ValueOf(type, i), k)
    BY <1>3 DEF IsItem
  <2>2. IsItems(ts, type, i, k)
    BY <2>1, ItemDerived
  <2>3. i \in DOMAIN ts /\ i < k /\ k <= Len(ts) + 1
    <3>1. PICK n : n = ValueOf(type, i)
      OBVIOUS
    <3>2. n \in Nat /\ i <= n /\ (type # "{" => n = i)
      BY <3>1, ValuePlace
    <3>3. n \in DOMAIN ts /\ k \in Nat /\ n < k /\ k <= Len(ts) + 1
      BY <2>1, <3>1 DEF OneValue
    <3>4. i < k
      BY <3>2, <3>3, Between
    <3>5. i \in DOMAIN ts
      BY <2>1, <3>2, <3>3 DEF IsItem, Headed, KeyAt
    <3> QED
      BY <3>3, <3>4, <3>5
  <2> QED
    BY <1>4, <2>1, <2>2, <2>3 DEF OneItems
<1>9. \A type \in Brackets, i, k \in Nat, j \in DOMAIN ts :
        /\ <<type, i, j>> \in S /\ ts[j] = ","
        /\ Headed(ts, type, j + 1) /\ <<ValueOf(type, j + 1), k>> \in V
        => <<type, i, k>> \in S
  <2> SUFFICES ASSUME NEW type \in Brackets, NEW i \in Nat, NEW k \in Nat, NEW j \in DOMAIN ts,
                      <<type, i, j>> \in S, ts[j] = ",",
                      Headed(ts, type, j + 1), <<ValueOf(type, j + 1), k>> \in V
               PROVE  <<type, i, k>> \in S
    OBVIOUS
  <2>1. IsItem(ts, type, j + 1, k) /\ OneValue(ts, ValueOf(type, j + 1), k)
        /\ IsItems(ts, type, i, j) /\ OneItems(ts, type, i, j)
    BY <1>3, <1>4 DEF IsItem
  <2>2. IsItems(ts, type, i, k)
    BY <2>1, MoreDerived
  <2>3. i \in DOMAIN ts /\ i < j
    BY <2>1 DEF OneItems
  <2>4. PICK n : n = ValueOf(type, j + 1)
    OBVIOUS
  <2>5. n < k /\ k <= Len(ts) + 1
    BY <2>1, <2>4 DEF OneValue
  <2>6. j + 1 \in Nat /\ j \in Nat
    BY <1>5
  <2>7. n \in Nat /\ j + 1 <= n
    BY <2>4, <2>6, ValuePlace
  <2>8. i < k
    BY <2>1, <2>3, <2>5, <2>6, <2>7, Between DEF OneValue
  <2> QED
    BY <1>4, <2>1, <2>2, <2>3, <2>5, <2>8 DEF OneItems
<1>10. Rules(ts, V, S)
  BY <1>6, <1>7, <1>8, <1>9 DEF Rules
<1>11. \A i, k : IsValue(ts, i, k) => <<i, k>> \in V
  BY <1>10 DEF IsValue
<1>12. \A type, i, k : IsItems(ts, type, i, k) => <<type, i, k>> \in S
  BY <1>10 DEF IsItems
<1> QED
  BY <1>3, <1>4, <1>11, <1>12

\* The rules hold of the pairs of sets chosen by what they derive.
LEMMA DerivedPlaces ==
  ASSUME NEW ts \in Texts
  PROVE  /\ \A i, k : IsValue(ts, i, k) => i \in Nat /\ k \in Nat /\ i < k
         /\ \A type, i, k : IsItems(ts, type, i, k)
                              => type \in Brackets /\ i \in Nat /\ k \in Nat /\ i < k
         /\ \A i \in DOMAIN ts : i \in Nat /\ i + 1 \in Nat
<1>1. \A i \in DOMAIN ts : i \in Nat /\ i + 1 \in Nat
  BY DEF Texts
<1>2. \A i, k : IsValue(ts, i, k) => i \in Nat /\ k \in Nat /\ i < k
  BY <1>1, Derivations DEF OneValue
<1>3. \A type, i, k : IsItems(ts, type, i, k)
                        => type \in Brackets /\ i \in Nat /\ k \in Nat /\ i < k
  BY <1>1, Derivations DEF OneItems
<1> QED
  BY <1>1, <1>2, <1>3

\* The items of a scope have a first one, and others behind a comma or none.
FirstOf(ts, type, i, k) ==
  \/ IsItem(ts, type, i, k)
  \/ \E j \in DOMAIN ts : IsItem(ts, type, i, j) /\ ts[j] = "," /\ IsItems(ts, type, j + 1, k)

LEMMA FirstItem ==
  ASSUME NEW ts \in Texts
  PROVE  \A type, i, k : IsItems(ts, type, i, k) => FirstOf(ts, type, i, k)
<1>1. PICK V : V = {p \in Nat \X Nat : IsValue(ts, p[1], p[2])}
  OBVIOUS
<1>2. PICK S : S = {p \in Brackets \X Nat \X Nat :
                      IsItems(ts, p[1], p[2], p[3]) /\ FirstOf(ts, p[1], p[2], p[3])}
  OBVIOUS
<1>3. \A i, k : <<i, k>> \in V <=> i \in Nat /\ k \in Nat /\ IsValue(ts, i, k)
  BY <1>1
<1>4. \A type, i, k : <<type, i, k>> \in S <=> type \in Brackets /\ i \in Nat /\ k \in Nat
                                                /\ IsItems(ts, type, i, k) /\ FirstOf(ts, type, i, k)
  BY <1>2
<1>5. \A i \in DOMAIN ts : ts[i] \in Scalars => <<i, i + 1>> \in V
  BY <1>3, DerivedPlaces, ScalarDerived
<1>6. \A i, j \in DOMAIN ts :
        /\ ts[i] \in Brackets /\ Closes(ts, i, j)
        /\ j = i + 1 \/ <<ts[i], i + 1, j>> \in S
        => <<i, j + 1>> \in V
  <2> SUFFICES ASSUME NEW i \in DOMAIN ts, NEW j \in DOMAIN ts, ts[i] \in Brackets, Closes(ts, i, j),
                      j = i + 1 \/ <<ts[i], i + 1, j>> \in S
               PROVE  <<i, j + 1>> \in V
    OBVIOUS
  <2>1. IsValue(ts, i, j + 1)
    BY <1>4, BracketsDerived
  <2> QED
    BY <1>3, <2>1, DerivedPlaces
<1>7. \A type \in Brackets, i, k \in Nat :
        Headed(ts, type, i) /\ <<ValueOf(type, i), k>> \in V => <<type, i, k>> \in S
  <2> SUFFICES ASSUME NEW type \in Brackets, NEW i \in Nat, NEW k \in Nat,
                      Headed(ts, type, i), <<ValueOf(type, i), k>> \in V
               PROVE  <<type, i, k>> \in S
    OBVIOUS
  <2>1. IsItem(ts, type, i, k)
    BY <1>3 DEF IsItem
  <2> QED
    BY <1>4, <2>1, ItemDerived DEF FirstOf
<1>8. \A type \in Brackets, i, k \in Nat, j \in DOMAIN ts :
        /\ <<type, i, j>> \in S /\ ts[j] = ","
        /\ Headed(ts, type, j + 1) /\ <<ValueOf(type, j + 1), k>> \in V
        => <<type, i, k>> \in S
  <2> SUFFICES ASSUME NEW type \in Brackets, NEW i \in Nat, NEW k \in Nat, NEW j \in DOMAIN ts,
                      <<type, i, j>> \in S, ts[j] = ",",
                      Headed(ts, type, j + 1), <<ValueOf(type, j + 1), k>> \in V
               PROVE  <<type, i, k>> \in S
    OBVIOUS
  <2>1. IsItem(ts, type, j + 1, k) /\ IsItems(ts, type, i, j) /\ FirstOf(ts, type, i, j)
    BY <1>3, <1>4 DEF IsItem
  <2>2. IsItems(ts, type, i, k)
    BY <2>1, MoreDerived
  <2>3. CASE IsItem(ts, type, i, j)
    <3>1. IsItems(ts, type, j + 1, k)
      BY <2>1, DerivedPlaces, ItemDerived
    <3> QED
      BY <1>4, <2>2, <2>3, <3>1 DEF FirstOf
  <2>4. ASSUME NEW m \in DOMAIN ts, IsItem(ts, type, i, m), ts[m] = ",", IsItems(ts, type, m + 1, j)
        PROVE  <<type, i, k>> \in S
    <3>1. IsItems(ts, type, m + 1, k)
      BY <2>1, <2>4, DerivedPlaces, MoreDerived
    <3> QED
      BY <1>4, <2>2, <2>4, <3>1 DEF FirstOf
  <2> QED
    BY <2>1, <2>3, <2>4 DEF FirstOf
<1>9. Rules(ts, V, S)
  BY <1>5, <1>6, <1>7, <1>8 DEF Rules
<1>10. \A type, i, k : IsItems(ts, type, i, k) => <<type, i, k>> \in S
  BY <1>9 DEF IsItems
<1> QED
  BY <1>4, <1>10

\* What parts begin with is not what ends or separates them.
LEMMA Kinds ==
  /\ \A t \in Brackets : Closer(t) \notin Scalars \cup Brackets \cup {","}
  /\ "," \notin Scalars \cup Brackets
  /\ Scalars \cap Brackets = {} /\ Strings \subseteq Scalars
  /\ End \notin Scalars \cup Brackets \cup {",", ":"}
  /\ RefusedString \notin Scalars \cup Brackets /\ Refused \notin Scalars \cup Brackets
BY DEF Scalars, Brackets, Closer, Strings, Numbers, Atoms, End, RefusedString, Refused

LEMMA Begun ==
  ASSUME NEW ts \in Texts
  PROVE  /\ \A i, k : IsValue(ts, i, k) => i \in DOMAIN ts /\ ts[i] \in Scalars \cup Brackets
         /\ \A type, i, k : IsItem(ts, type, i, k) => i \in DOMAIN ts /\ ts[i] \in Scalars \cup Brackets
         /\ \A type, i, k : IsItems(ts, type, i, k) => i \in DOMAIN ts /\ ts[i] \in Scalars \cup Brackets
<1>1. \A i, k : IsValue(ts, i, k) => i \in DOMAIN ts /\ ts[i] \in Scalars \cup Brackets
  BY Derivations DEF OneValue
<1>2. \A type, i, k : IsItem(ts, type, i, k) => i \in DOMAIN ts /\ ts[i] \in Scalars \cup Brackets
  <2> SUFFICES ASSUME NEW type, NEW i, NEW k, IsItem(ts, type, i, k)
               PROVE  i \in DOMAIN ts /\ ts[i] \in Scalars \cup Brackets
    OBVIOUS
  <2>1. CASE type = "{"
    BY <2>1, Kinds DEF IsItem, Headed, KeyAt
  <2>2. CASE type # "{"
    <3>1. IsValue(ts, i, k)
      BY <2>2 DEF IsItem, ValueOf
    <3> QED
      BY <1>1, <3>1
  <2> QED
    BY <2>1, <2>2
<1>3. \A type, i, k : IsItems(ts, type, i, k) => i \in DOMAIN ts /\ ts[i] \in Scalars \cup Brackets
  BY <1>2, FirstItem DEF FirstOf
<1> QED
  BY <1>1, <1>2, <1>3

\* A place begins one value at most, and of the items that begin there the more
\* go on where the fewer have a comma.
Same(ts, type, i, j, k) ==
  \/ k = j
  \/ k < j /\ k \in DOMAIN ts /\ ts[k] = ","
  \/ j < k /\ j \in DOMAIN ts /\ ts[j] = "," /\ IsItems(ts, type, j + 1, k)

OnlyValue(ts, i, j)       == \A k : IsValue(ts, i, k) => k = j
OnlyItems(ts, type, i, j) == \A k : IsItems(ts, type, i, k) => Same(ts, type, i, j, k)

LEMMA BracketsOnce ==
  ASSUME NEW ts \in Texts, NEW i \in DOMAIN ts, NEW j \in DOMAIN ts, ts[i] \in Brackets, Closes(ts, i, j),
         j = i + 1 \/ (IsItems(ts, ts[i], i + 1, j) /\ OnlyItems(ts, ts[i], i + 1, j))
  PROVE  OnlyValue(ts, i, j + 1)
<1> SUFFICES ASSUME NEW k, IsValue(ts, i, k) PROVE k = j + 1
  BY DEF OnlyValue
<1>1. PICK m \in DOMAIN ts : /\ k = m + 1 /\ Closes(ts, i, m)
                             /\ m = i + 1 \/ IsItems(ts, ts[i], i + 1, m)
  BY Derivations, Kinds DEF OneValue
<1>2. ts[j] \notin Scalars \cup Brackets \cup {","} /\ ts[m] \notin Scalars \cup Brackets \cup {","}
  BY <1>1, Kinds DEF Closes
<1>3. m = j
  <2>1. CASE j = i + 1 /\ m = i + 1
    BY <2>1
  <2>2. CASE j = i + 1 /\ IsItems(ts, ts[i], i + 1, m)
    BY <1>2, <2>2, Begun
  <2>3. CASE m = i + 1 /\ IsItems(ts, ts[i], i + 1, j)
    BY <1>2, <2>3, Begun
  <2>4. CASE IsItems(ts, ts[i], i + 1, m) /\ OnlyItems(ts, ts[i], i + 1, j)
    BY <1>2, <2>4 DEF OnlyItems, Same
  <2> QED
    BY <1>1, <2>1, <2>2, <2>3, <2>4
<1> QED
  BY <1>1, <1>3

LEMMA ItemOnce ==
  ASSUME NEW ts \in Texts, NEW type \in Brackets, NEW i, NEW j,
         IsItem(ts, type, i, j), OnlyValue(ts, ValueOf(type, i), j)
  PROVE  OnlyItems(ts, type, i, j)
<1> SUFFICES ASSUME NEW k, IsItems(ts, type, i, k) PROVE Same(ts, type, i, j, k)
  BY DEF OnlyItems
<1>1. \A m : IsItem(ts, type, i, m) => m = j
  BY DEF IsItem, OnlyValue
<1>2. CASE IsItem(ts, type, i, k)
  BY <1>1, <1>2 DEF Same
<1>3. CASE \E m \in DOMAIN ts : IsItem(ts, type, i, m) /\ ts[m] = "," /\ IsItems(ts, type, m + 1, k)
  <2>1. j \in DOMAIN ts /\ ts[j] = "," /\ IsItems(ts, type, j + 1, k)
    BY <1>1, <1>3
  <2>2. j \in Nat /\ k \in Nat /\ j + 1 < k
    BY <2>1, DerivedPlaces
  <2>3. j < k
    BY <2>2
  <2> QED
    BY <2>1, <2>3 DEF Same
<1> QED
  BY <1>2, <1>3, FirstItem DEF FirstOf

LEMMA MoreOnce ==
  ASSUME NEW ts \in Texts, NEW type \in Brackets, NEW i, NEW j \in DOMAIN ts, NEW n,
         IsItems(ts, type, i, j), OnlyItems(ts, type, i, j), ts[j] = ",",
         IsItem(ts, type, j + 1, n), OnlyValue(ts, ValueOf(type, j + 1), n), j < n
  PROVE  OnlyItems(ts, type, i, n)
<1> SUFFICES ASSUME NEW k, IsItems(ts, type, i, k) PROVE Same(ts, type, i, n, k)
  BY DEF OnlyItems
<1>1. Same(ts, type, i, j, k)
  BY DEF OnlyItems
<1>2. CASE k = j
  BY <1>2 DEF Same
<1>3. CASE k < j /\ k \in DOMAIN ts /\ ts[k] = ","
  <2>1. k \in Nat /\ j \in Nat /\ n \in Nat
    BY <1>3, DerivedPlaces DEF IsItem
  <2>2. k < n
    BY <1>3, <2>1, Between
  <2> QED
    BY <1>3, <2>2 DEF Same
<1>4. CASE IsItems(ts, type, j + 1, k)
  <2>1. Same(ts, type, j + 1, n, k)
    BY <1>4, ItemOnce DEF OnlyItems
  <2> QED
    BY <2>1 DEF Same
<1> QED
  BY <1>1, <1>2, <1>3, <1>4 DEF Same

LEMMA Determined ==
  ASSUME NEW ts \in Texts
  PROVE  /\ \A i, j : IsValue(ts, i, j) => OnlyValue(ts, i, j)
         /\ \A type, i, j : IsItems(ts, type, i, j) => OnlyItems(ts, type, i, j)
<1>1. PICK V : V = {p \in Nat \X Nat : IsValue(ts, p[1], p[2]) /\ OnlyValue(ts, p[1], p[2])}
  OBVIOUS
<1>2. PICK S : S = {p \in Brackets \X Nat \X Nat :
                      IsItems(ts, p[1], p[2], p[3]) /\ OnlyItems(ts, p[1], p[2], p[3])}
  OBVIOUS
<1>3. \A i, k : <<i, k>> \in V <=> i \in Nat /\ k \in Nat /\ IsValue(ts, i, k) /\ OnlyValue(ts, i, k)
  BY <1>1
<1>4. \A type, i, k : <<type, i, k>> \in S <=> type \in Brackets /\ i \in Nat /\ k \in Nat
                                                /\ IsItems(ts, type, i, k) /\ OnlyItems(ts, type, i, k)
  BY <1>2
<1>5. \A i \in DOMAIN ts : ts[i] \in Scalars => <<i, i + 1>> \in V
  <2> SUFFICES ASSUME NEW i \in DOMAIN ts, ts[i] \in Scalars PROVE <<i, i + 1>> \in V
    OBVIOUS
  <2>1. IsValue(ts, i, i + 1)
    BY ScalarDerived
  <2>2. OnlyValue(ts, i, i + 1)
    BY Derivations, Kinds DEF OnlyValue, OneValue
  <2> QED
    BY <1>3, <2>1, <2>2, DerivedPlaces
<1>6. \A i, j \in DOMAIN ts :
        /\ ts[i] \in Brackets /\ Closes(ts, i, j)
        /\ j = i + 1 \/ <<ts[i], i + 1, j>> \in S
        => <<i, j + 1>> \in V
  <2> SUFFICES ASSUME NEW i \in DOMAIN ts, NEW j \in DOMAIN ts, ts[i] \in Brackets, Closes(ts, i, j),
                      j = i + 1 \/ <<ts[i], i + 1, j>> \in S
               PROVE  <<i, j + 1>> \in V
    OBVIOUS
  <2>1. IsValue(ts, i, j + 1) /\ OnlyValue(ts, i, j + 1)
    BY <1>4, BracketsDerived, BracketsOnce
  <2> QED
    BY <1>3, <2>1, DerivedPlaces
<1>7. \A type \in Brackets, i, k \in Nat :
        Headed(ts, type, i) /\ <<ValueOf(type, i), k>> \in V => <<type, i, k>> \in S
  <2> SUFFICES ASSUME NEW type \in Brackets, NEW i \in Nat, NEW k \in Nat,
                      Headed(ts, type, i), <<ValueOf(type, i), k>> \in V
               PROVE  <<type, i, k>> \in S
    OBVIOUS
  <2>1. IsItem(ts, type, i, k) /\ OnlyValue(ts, ValueOf(type, i), k)
    BY <1>3 DEF IsItem
  <2> QED
    BY <1>4, <2>1, ItemDerived, ItemOnce
<1>8. \A type \in Brackets, i, k \in Nat, j \in DOMAIN ts :
        /\ <<type, i, j>> \in S /\ ts[j] = ","
        /\ Headed(ts, type, j + 1) /\ <<ValueOf(type, j + 1), k>> \in V
        => <<type, i, k>> \in S
  <2> SUFFICES ASSUME NEW type \in Brackets, NEW i \in Nat, NEW k \in Nat, NEW j \in DOMAIN ts,
                      <<type, i, j>> \in S, ts[j] = ",",
                      Headed(ts, type, j + 1), <<ValueOf(type, j + 1), k>> \in V
               PROVE  <<type, i, k>> \in S
    OBVIOUS
  <2>1. /\ IsItem(ts, type, j + 1, k) /\ OnlyValue(ts, ValueOf(type, j + 1), k)
        /\ IsItems(ts, type, i, j) /\ OnlyItems(ts, type, i, j)
    BY <1>3, <1>4 DEF IsItem
  <2>2. j < k
    <3>1. PICK n : n = ValueOf(type, j + 1)
      OBVIOUS
    <3>2. IsValue(ts, n, k) /\ j \in Nat /\ j + 1 \in Nat
      BY <2>1, <3>1, DerivedPlaces DEF IsItem
    <3>3. n \in Nat /\ n < k /\ j + 1 <= n
      BY <3>1, <3>2, ValuePlace, DerivedPlaces
    <3> QED
      BY <3>2, <3>3, Between
  <2> QED
    BY <1>4, <2>1, <2>2, MoreDerived, MoreOnce
<1>9. Rules(ts, V, S)
  BY <1>5, <1>6, <1>7, <1>8 DEF Rules
<1>10. \A i, k : IsValue(ts, i, k) => <<i, k>> \in V
  BY <1>9 DEF IsValue
<1>11. \A type, i, k : IsItems(ts, type, i, k) => <<type, i, k>> \in S
  BY <1>9 DEF IsItems
<1> QED
  BY <1>3, <1>4, <1>10, <1>11

-----------------------------------------------------------------------------
(***************************************************************************)
(* What may come next in a scope of a text that is JSON.                   *)
(***************************************************************************)
\* Where the next item of the scope that begins at i may be, and a value of it.
ItemPlace(ts, i, m) ==
  m = i + 1 \/ \E j \in DOMAIN ts : m = j + 1 /\ ts[j] = "," /\ IsItems(ts, ts[i], i + 1, j)

Leads(ts, i, j) == \E m : ItemPlace(ts, i, m) /\ Headed(ts, ts[i], m) /\ j = ValueOf(ts[i], m)

LEMMA ItemsSoFar ==
  ASSUME NEW ts \in Texts, NEW i \in DOMAIN ts, ts[i] \in Brackets, NEW j, NEW k,
         Leads(ts, i, j), IsValue(ts, j, k)
  PROVE  IsItems(ts, ts[i], i + 1, k)
<1>1. PICK m : ItemPlace(ts, i, m) /\ IsItem(ts, ts[i], m, k)
  BY DEF Leads, IsItem
<1>2. k \in Nat /\ i + 1 \in Nat
  BY DerivedPlaces
<1>3. CASE m = i + 1
  BY <1>1, <1>2, <1>3, ItemDerived
<1>4. ASSUME NEW n \in DOMAIN ts, m = n + 1, ts[n] = ",", IsItems(ts, ts[i], i + 1, n)
      PROVE  IsItems(ts, ts[i], i + 1, k)
  BY <1>1, <1>2, <1>4, MoreDerived
<1> QED
  BY <1>1, <1>3, <1>4 DEF ItemPlace

\* How the value that begins with a bracket ends.
LEMMA Ends ==
  ASSUME NEW ts \in Texts, NEW i \in DOMAIN ts, ts[i] \in Brackets, NEW k, IsValue(ts, i, k)
  PROVE  \E j \in DOMAIN ts : Closes(ts, i, j) /\ (j = i + 1 \/ IsItems(ts, ts[i], i + 1, j))
BY Derivations, Kinds DEF OneValue

LEMMA NextItem ==
  ASSUME NEW ts \in Texts, NEW i \in DOMAIN ts, ts[i] \in Brackets, NEW k, IsValue(ts, i, k),
         NEW m, ItemPlace(ts, i, m)
  PROVE  (m = i + 1 /\ Closes(ts, i, m)) \/ \E n : IsItem(ts, ts[i], m, n)
<1>1. PICK j \in DOMAIN ts : Closes(ts, i, j) /\ (j = i + 1 \/ IsItems(ts, ts[i], i + 1, j))
  BY Ends
<1>2. CASE m = i + 1
  BY <1>1, <1>2, FirstItem DEF FirstOf
<1>3. ASSUME NEW n \in DOMAIN ts, m = n + 1, ts[n] = ",", IsItems(ts, ts[i], i + 1, n)
      PROVE  \E f : IsItem(ts, ts[i], m, f)
  <2>1. ts[j] \notin Scalars \cup Brackets \cup {","}
    BY <1>1, Kinds DEF Closes
  <2>2. IsItems(ts, ts[i], i + 1, j)
    BY <1>1, <1>3, <2>1, Begun
  <2>3. Same(ts, ts[i], i + 1, n, j)
    BY <1>3, <2>2, Determined DEF OnlyItems
  <2>4. IsItems(ts, ts[i], m, j)
    BY <1>3, <2>1, <2>3 DEF Same
  <2> QED
    BY <2>4, FirstItem DEF FirstOf
<1> QED
  BY <1>2, <1>3 DEF ItemPlace

LEMMA NextContinue ==
  ASSUME NEW ts \in Texts, NEW i \in DOMAIN ts, ts[i] \in Brackets, NEW k, IsValue(ts, i, k),
         NEW m, IsItems(ts, ts[i], i + 1, m)
  PROVE  m \in DOMAIN ts /\ (ts[m] = "," \/ Closes(ts, i, m))
<1>1. PICK j \in DOMAIN ts : Closes(ts, i, j) /\ (j = i + 1 \/ IsItems(ts, ts[i], i + 1, j))
  BY Ends
<1>2. ts[j] \notin Scalars \cup Brackets \cup {","}
  BY <1>1, Kinds DEF Closes
<1>3. IsItems(ts, ts[i], i + 1, j)
  BY <1>1, <1>2, Begun
<1>4. Same(ts, ts[i], i + 1, j, m)
  BY <1>3, Determined DEF OnlyItems
<1> QED
  BY <1>1, <1>2, <1>4 DEF Same

-----------------------------------------------------------------------------
(***************************************************************************)
(* What the machine knows of the text it has read, at each label.          *)
(***************************************************************************)
\* Every JSON text that begins like this one has a value at i.
Wanted(ts, i) == \A more \in Texts : Extends(more, ts) /\ IsText(more) => \E k : IsValue(more, i, k)

\* The open brackets, from the outermost: each is a value, or leads to one, of the one
\* around, where the machine goes on when it is closed.
Frame(ts, at, e, to) ==
  /\ at[e] \in DOMAIN ts /\ ts[at[e]] \in Brackets /\ Wanted(ts, at[e])
  /\ e = 1 => at[e] = 1 /\ to = "finish"
  /\ e # 1 => Leads(ts, at[e - 1], at[e]) /\ to = Continue(ts[at[e - 1]])

Framed(ts, at, d, ret) == at \in [Nat -> Nat] /\ \A e \in 1..d - 1 : Frame(ts, at, e, ret[e])

\* Where a label is in the scope that begins at i of a text of n tokens.
InScope(ts, n, l, i) ==
  /\ l \in InArray <=> ts[i] = "["
  /\ l \in {"array_begin", "object_begin"} => i = n
  /\ l \in {"main_array_switch", "object_next_key"} => ts[n] = "," /\ IsItems(ts, ts[i], i + 1, n)
  /\ l = "object_key_state" => ts[n] \in Strings /\ ItemPlace(ts, i, n)
  /\ l = "object_value" => \E m \in DOMAIN ts : m + 1 = n /\ KeyAt(ts, m) /\ ItemPlace(ts, i, m)
  /\ l \in {"array_continue", "object_continue"} => IsItems(ts, ts[i], i + 1, n + 1)

TextRight(ts, l, d, ret) ==
  /\ l = "success" => IsText(ts)
  /\ l = "error" => d >= MaxDepth \/ Hopeless(ts)
  /\ l = "finish" => IsValue(ts, 1, Len(ts) + 1)
  /\ l \in InArray \cup InObject =>
       /\ d \in Nat /\ d > 1
       /\ \E at : Framed(ts, at, d, ret) /\ InScope(ts, Len(ts), l, at[d - 1])

\* A text with one token more.
Longer(ts, t, n, more) ==
  /\ ts \in Texts /\ t \in Tokens \cup {End} /\ more \in Texts
  /\ n = Len(ts) /\ n \in Nat /\ n + 1 \in Nat /\ n # n + 1 /\ Len(more) = n + 1
  /\ DOMAIN more = DOMAIN ts \cup {n + 1} /\ n + 1 \notin DOMAIN ts
  /\ more[n + 1] = t /\ Extends(more, ts)
  /\ \A i \in DOMAIN ts : i \in Nat /\ i # n + 1 /\ more[i] = ts[i]
  /\ \A w \in Texts : Extends(w, more) => Extends(w, ts) /\ n + 1 \in DOMAIN w /\ w[n + 1] = t

LEMMA OneLonger ==
  ASSUME NEW ts \in Texts, NEW t \in Tokens \cup {End}
  PROVE  Longer(ts, t, Len(ts), Append(ts, t))
<1>1. PICK n, more : n = Len(ts) /\ more = Append(ts, t)
  OBVIOUS
<1>2. n \in Nat /\ n + 1 \in Nat /\ n # n + 1
  BY <1>1 DEF Texts
<1>3. more \in Texts /\ Len(more) = n + 1 /\ more[n + 1] = t
  BY <1>1 DEF Texts
<1>4. DOMAIN ts = 1..n /\ DOMAIN more = 1..n + 1
  BY <1>1, <1>3 DEF Texts
<1>5. 1..n + 1 = 1..n \cup {n + 1} /\ n + 1 \notin 1..n /\ \A i \in 1..n : i \in Nat /\ i # n + 1
  BY <1>2
<1>6. \A i \in DOMAIN ts : i \in Nat /\ i # n + 1 /\ more[i] = ts[i]
  BY <1>1, <1>4, <1>5 DEF Texts
<1>7. n <= n + 1
  BY <1>2
<1>8. Extends(more, ts)
  BY <1>1, <1>3, <1>6, <1>7 DEF Extends
<1>9. ASSUME NEW w \in Texts, Extends(w, more)
      PROVE  Extends(w, ts) /\ n + 1 \in DOMAIN w /\ w[n + 1] = t
  <2>1. PICK k : k = Len(w)
    OBVIOUS
  <2>2. k \in Nat /\ DOMAIN w = 1..k
    BY <2>1 DEF Texts
  <2>3. n + 1 <= k
    BY <1>3, <1>9, <2>1 DEF Extends
  <2>4. n + 1 \in 1..k /\ n <= k
    BY <1>2, <2>2, <2>3
  <2>5. \A i \in DOMAIN more : w[i] = more[i]
    BY <1>9 DEF Extends
  <2>6. \A i \in DOMAIN ts : w[i] = ts[i]
    BY <1>4, <1>5, <1>6, <2>5
  <2>7. w[n + 1] = t
    BY <1>3, <1>4, <1>5, <2>5
  <2> QED
    BY <1>1, <2>1, <2>2, <2>4, <2>6, <2>7 DEF Extends
<1> QED
  BY <1>1, <1>2, <1>3, <1>4, <1>5, <1>6, <1>8, <1>9 DEF Longer

\* What is known stays known when a token is read.
LEMMA KnownFurther ==
  ASSUME NEW ts, NEW t, NEW n, NEW more, Longer(ts, t, n, more), NEW i \in DOMAIN ts
  PROVE  /\ more[i] = ts[i] /\ i \in DOMAIN more
         /\ \A j : IsValue(ts, i, j) => IsValue(more, i, j)
         /\ \A m : ItemPlace(ts, i, m) => ItemPlace(more, i, m)
         /\ \A m : IsItems(ts, ts[i], i + 1, m) => IsItems(more, ts[i], i + 1, m)
         /\ KeyAt(ts, i) => KeyAt(more, i)
         /\ \A j : Leads(ts, i, j) => Leads(more, i, j)
         /\ Wanted(ts, i) => Wanted(more, i)
<1>1. /\ ts \in Texts /\ more \in Texts /\ Extends(more, ts) /\ more[i] = ts[i] /\ i \in DOMAIN more
      /\ \A j \in DOMAIN ts : more[j] = ts[j] /\ j \in DOMAIN more
      /\ \A w \in Texts : Extends(w, more) => Extends(w, ts)
  BY DEF Longer
<1>2. /\ \A j, k : IsValue(ts, j, k) => IsValue(more, j, k)
      /\ \A type, j, k : IsItems(ts, type, j, k) => IsItems(more, type, j, k)
      /\ \A j : KeyAt(ts, j) => KeyAt(more, j)
  BY <1>1, DerivedFurther
<1>3. \A m : ItemPlace(ts, i, m) => ItemPlace(more, i, m)
  BY <1>1, <1>2 DEF ItemPlace
<1>4. \A j : Leads(ts, i, j) => Leads(more, i, j)
  BY <1>1, <1>2, <1>3 DEF Leads, Headed
<1>5. Wanted(ts, i) => Wanted(more, i)
  BY <1>1 DEF Wanted
<1> QED
  BY <1>1, <1>2, <1>3, <1>4, <1>5

LEMMA OuterDepth ==
  ASSUME NEW d \in Nat, NEW e \in 1..d - 1
  PROVE  e \in Nat /\ d # e /\ d - 1 \in 1..d - 1 /\ (e # 1 => e - 1 \in 1..d - 1 /\ e - 1 # d)
OBVIOUS

LEMMA FramedFurther ==
  ASSUME NEW ts, NEW t, NEW n, NEW more, Longer(ts, t, n, more), NEW at, NEW d \in Nat, NEW ret,
         Framed(ts, at, d, ret)
  PROVE  Framed(more, at, d, ret)
<1>1. ASSUME NEW e \in 1..d - 1 PROVE Frame(more, at, e, ret[e])
  <2>1. Frame(ts, at, e, ret[e])
    BY DEF Framed
  <2>2. more[at[e]] = ts[at[e]] /\ at[e] \in DOMAIN more /\ Wanted(more, at[e])
    BY <2>1, KnownFurther DEF Frame
  <2>3. ASSUME e # 1
        PROVE  Leads(more, at[e - 1], at[e]) /\ more[at[e - 1]] = ts[at[e - 1]]
    <3>1. PICK f : f = e - 1
      OBVIOUS
    <3>2. f \in 1..d - 1
      BY <2>3, <3>1, OuterDepth
    <3>3. Frame(ts, at, f, ret[f])
      BY <3>2 DEF Framed
    <3>4. at[f] \in DOMAIN ts
      BY <3>3 DEF Frame
    <3>5. Leads(ts, at[f], at[e])
      BY <2>1, <2>3, <3>1 DEF Frame
    <3> QED
      BY <3>1, <3>4, <3>5, KnownFurther
  <2> QED
    BY <2>1, <2>2, <2>3 DEF Frame
<1> QED
  BY <1>1 DEF Framed

\* One more bracket is open, and the machine keeps where to go on behind it.
Opens(ts, t, n, more, at, d, ret, to, new) ==
  /\ Longer(ts, t, n, more) /\ Framed(ts, at, d, ret) /\ d \in Nat \ {0}
  /\ t \in Brackets /\ Wanted(more, n + 1)
  /\ d = 1 => n = 0 /\ to = "finish"
  /\ d # 1 => Leads(more, at[d - 1], n + 1) /\ to = Continue(ts[at[d - 1]])
  /\ new[d] = to /\ \A e \in 1..d - 1 : new[e] = ret[e]

LEMMA FramedMore ==
  ASSUME NEW ts, NEW t, NEW n, NEW more, NEW at, NEW d, NEW ret, NEW to, NEW new,
         Opens(ts, t, n, more, at, d, ret, to, new)
  PROVE  Framed(more, [at EXCEPT ![d] = n + 1], d + 1, new)
<1>0. /\ Longer(ts, t, n, more) /\ Framed(ts, at, d, ret) /\ d \in Nat \ {0}
      /\ t \in Brackets /\ Wanted(more, n + 1)
      /\ d = 1 => n = 0 /\ to = "finish"
      /\ d # 1 => Leads(more, at[d - 1], n + 1) /\ to = Continue(ts[at[d - 1]])
      /\ new[d] = to /\ \A e \in 1..d - 1 : new[e] = ret[e]
  BY DEF Opens
<1>1. PICK on : on = [at EXCEPT ![d] = n + 1]
  OBVIOUS
<1>2. at \in [Nat -> Nat] /\ n + 1 \in Nat /\ d \in Nat
  BY <1>0 DEF Framed, Longer
<1>3. on \in [Nat -> Nat] /\ on[d] = n + 1 /\ \A e \in Nat : e # d => on[e] = at[e]
  BY <1>1, <1>2
<1>4. ASSUME NEW e \in 1..d - 1 PROVE Frame(more, on, e, new[e])
  <2>1. Framed(more, at, d, ret)
    BY <1>0, <1>2, FramedFurther
  <2>2. Frame(more, at, e, ret[e])
    BY <2>1 DEF Framed
  <2>3. e \in Nat /\ e # d /\ (e # 1 => e - 1 \in Nat /\ e - 1 # d)
    BY <1>2, OuterDepth
  <2>4. on[e] = at[e] /\ (e # 1 => on[e - 1] = at[e - 1])
    BY <1>3, <2>3
  <2>5. new[e] = ret[e]
    BY <1>0
  <2> QED
    BY <2>2, <2>4, <2>5 DEF Frame
<1>5. Frame(more, on, d, new[d])
  <2>1. more[n + 1] = t /\ n + 1 \in DOMAIN more
    BY <1>0 DEF Longer
  <2>2. n = 0 => n + 1 = 1
    OBVIOUS
  <2>3. CASE d = 1
    BY <1>0, <1>3, <2>1, <2>2, <2>3 DEF Frame
  <2>4. CASE d # 1
    <3>1. PICK e : e = d - 1
      OBVIOUS
    <3>2. e \in 1..d - 1 /\ e \in Nat /\ e # d
      BY <1>0, <2>4, <3>1
    <3>3. at[e] \in DOMAIN ts
      BY <1>0, <3>2 DEF Framed, Frame
    <3>4. more[at[e]] = ts[at[e]] /\ on[e] = at[e]
      BY <1>0, <1>3, <3>2, <3>3 DEF Longer
    <3>5. Leads(more, at[e], n + 1) /\ to = Continue(ts[at[e]])
      BY <1>0, <2>4, <3>1
    <3>6. Leads(more, on[d - 1], on[d]) /\ to = Continue(more[on[d - 1]])
      BY <1>3, <3>1, <3>4, <3>5
    <3> QED
      BY <1>0, <1>3, <2>1, <2>4, <3>6 DEF Frame
  <2> QED
    BY <2>3, <2>4
<1>6. \A e \in 1..(d + 1) - 1 : e = d \/ e \in 1..d - 1
  BY <1>2
<1> QED
  BY <1>1, <1>3, <1>4, <1>5, <1>6 DEF Framed

\* What each kind of label needs to be known.
LEMMA LabelKinds ==
  /\ "error" \notin InArray \cup InObject \cup {"success", "finish"}
  /\ "finish" \notin InArray \cup InObject \cup {"success", "error"}
  /\ "success" \notin InArray \cup InObject \cup {"finish", "error"}
  /\ \A l \in InArray \cup InObject : l \notin {"success", "error", "finish"}
  /\ InArray \cap InObject = {}
BY DEF InArray, InObject

LEMMA ErrorText ==
  ASSUME NEW ts, NEW d, NEW ret, d >= MaxDepth \/ Hopeless(ts)
  PROVE  TextRight(ts, "error", d, ret)
BY LabelKinds DEF TextRight

LEMMA FinishText ==
  ASSUME NEW ts, NEW d, NEW ret, IsValue(ts, 1, Len(ts) + 1)
  PROVE  TextRight(ts, "finish", d, ret)
BY LabelKinds DEF TextRight

LEMMA ScopeText ==
  ASSUME NEW ts, NEW l \in InArray \cup InObject, NEW d \in Nat, d > 1, NEW ret, NEW at,
         Framed(ts, at, d, ret), InScope(ts, Len(ts), l, at[d - 1])
  PROVE  TextRight(ts, l, d, ret)
BY LabelKinds DEF TextRight

\* The scope that is innermost, of those around the end of a text.
LEMMA Innermost ==
  ASSUME NEW ts, NEW at, NEW d \in Nat, d > 1, NEW ret, Framed(ts, at, d, ret)
  PROVE  /\ at[d - 1] \in DOMAIN ts /\ ts[at[d - 1]] \in Brackets /\ Wanted(ts, at[d - 1])
         /\ Frame(ts, at, d - 1, ret[d - 1])
<1>1. d - 1 \in 1..d - 1
  OBVIOUS
<1>2. Frame(ts, at, d - 1, ret[d - 1])
  BY <1>1 DEF Framed
<1> QED
  BY <1>2 DEF Frame

ContinueLabel(l, type) ==
  /\ l = Continue(type) /\ l \in InArray \cup InObject
  /\ (l \in InArray <=> type = "[")
  /\ l \notin {"array_begin", "object_begin", "main_array_switch", "object_next_key",
               "object_key_state", "object_value"}

LEMMA ContinueLabels == \A type \in Brackets : ContinueLabel(Continue(type), type)
BY DEF ContinueLabel, Continue, Brackets, InArray, InObject

\* A value has been read in a scope.
LEMMA ItemRead ==
  ASSUME NEW more \in Texts, NEW at, NEW d \in Nat, d > 1, NEW ret, Framed(more, at, d, ret),
         NEW j, Leads(more, at[d - 1], j), IsValue(more, j, Len(more) + 1),
         NEW l, l = Continue(more[at[d - 1]])
  PROVE  TextRight(more, l, d, ret)
<1>1. PICK i : i = at[d - 1]
  OBVIOUS
<1>2. i \in DOMAIN more /\ more[i] \in Brackets
  BY <1>1, Innermost
<1>3. IsItems(more, more[i], i + 1, Len(more) + 1)
  BY <1>1, <1>2, ItemsSoFar
<1>4. ContinueLabel(l, more[i])
  BY <1>1, <1>2, ContinueLabels
<1>5. InScope(more, Len(more), l, i)
  BY <1>3, <1>4 DEF InScope, ContinueLabel
<1> QED
  BY <1>1, <1>4, <1>5, ScopeText DEF ContinueLabel

BeginLabel(t) == IF t = "{" THEN "object_begin" ELSE "array_begin"

\* A value is expected where the token is read, and no text goes on with another one.
ValueControl(t, to, d, ret, l2, d2, ret2) ==
  \/ /\ t \in Brackets /\ d2 = d + 1 /\ ret2 = [ret EXCEPT ![d] = to]
     /\ l2 = IF d2 >= MaxDepth THEN "error" ELSE BeginLabel(t)
  \/ t \in Scalars /\ l2 = to /\ d2 = d /\ ret2 = ret
  \/ t \notin Scalars \cup Brackets /\ l2 = "error" /\ d2 = d /\ ret2 = ret

LEMMA NoValue ==
  ASSUME NEW ts, NEW t, NEW n, NEW more, Longer(ts, t, n, more), Wanted(more, n + 1),
         t \notin Scalars \cup Brackets
  PROVE  Hopeless(more)
<1> SUFFICES ASSUME NEW w \in Texts, Extends(w, more), IsText(w) PROVE FALSE
  BY DEF Hopeless
<1>1. PICK k : IsValue(w, n + 1, k)
  BY DEF Wanted
<1>2. w[n + 1] = t
  BY DEF Longer
<1> QED
  BY <1>1, <1>2, Begun

LEMMA BeginLabels ==
  /\ {"object_begin", "array_begin"} \subseteq InArray \cup InObject
  /\ "array_begin" \in InArray /\ "object_begin" \notin InArray
BY DEF InArray, InObject

LEMMA ScopeBeginsText ==
  ASSUME NEW ts, NEW t, NEW n, NEW more, NEW at, NEW d, NEW ret, NEW to, NEW new,
         Opens(ts, t, n, more, at, d, ret, to, new)
  PROVE  TextRight(more, BeginLabel(t), d + 1, new)
<1>1. PICK on : on = [at EXCEPT ![d] = n + 1]
  OBVIOUS
<1>2. Framed(more, on, d + 1, new)
  <2>1. Framed(more, [at EXCEPT ![d] = n + 1], d + 1, new)
    BY FramedMore
  <2> QED
    BY <1>1, <2>1
<1>3. at \in [Nat -> Nat] /\ d \in Nat /\ n + 1 \in Nat /\ d \in Nat \ {0}
  BY DEF Opens, Framed, Longer
<1>4. on[d] = n + 1 /\ (d + 1) - 1 = d /\ d + 1 \in Nat /\ d + 1 > 1
  BY <1>1, <1>3
<1>5. PICK l : l = BeginLabel(t)
  OBVIOUS
<1>6. more[n + 1] = t /\ Len(more) = n + 1
  BY DEF Opens, Longer
<1>7. l \in InArray <=> t = "["
  BY <1>5, BeginLabels DEF Opens, Brackets, BeginLabel
<1>8. InScope(more, n + 1, l, n + 1)
  BY <1>5, <1>6, <1>7 DEF InScope, BeginLabel
<1>9. l \in InArray \cup InObject
  BY <1>5, BeginLabels DEF BeginLabel
<1> QED
  BY <1>2, <1>4, <1>5, <1>6, <1>8, <1>9, ScopeText

LEMMA ValueText ==
  ASSUME NEW ts, NEW t, NEW n, NEW more, Longer(ts, t, n, more), NEW at, NEW d \in Nat, d > 1, NEW ret,
         \A e \in 1..d : e \in DOMAIN ret, Framed(ts, at, d, ret),
         Leads(more, at[d - 1], n + 1), Wanted(more, n + 1),
         NEW to, to = Continue(ts[at[d - 1]]), NEW l2, NEW d2, NEW ret2,
         ValueControl(t, to, d, ret, l2, d2, ret2)
  PROVE  TextRight(more, l2, d2, ret2)
<1>1. more \in Texts /\ Len(more) = n + 1 /\ n + 1 \in DOMAIN more /\ more[n + 1] = t
  BY DEF Longer
<1>2. CASE t \in Brackets
  <2>1. d2 = d + 1 /\ ret2 = [ret EXCEPT ![d] = to]
        /\ l2 = IF d2 >= MaxDepth THEN "error" ELSE BeginLabel(t)
    BY <1>2, Kinds DEF ValueControl
  <2>2. CASE d2 >= MaxDepth
    BY <2>1, <2>2, ErrorText
  <2>3. CASE ~(d2 >= MaxDepth)
    <3>1. d # 1 /\ d \in Nat \ {0}
      OBVIOUS
    <3>2. d \in 1..d /\ \A e \in 1..d - 1 : e # d /\ e \in 1..d
      OBVIOUS
    <3>3. ret2[d] = to /\ \A e \in 1..d - 1 : ret2[e] = ret[e]
      BY <2>1, <3>2
    <3>4. TextRight(more, BeginLabel(t), d + 1, ret2)
      <4>1. Opens(ts, t, n, more, at, d, ret, to, ret2)
        BY <1>2, <3>1, <3>3 DEF Opens
      <4> QED
        BY <4>1, ScopeBeginsText
    <3> QED
      BY <2>1, <2>3, <3>4
  <2> QED
    BY <2>2, <2>3
<1>3. CASE t \in Scalars
  <2>1. l2 = to /\ d2 = d /\ ret2 = ret
    BY <1>3, Kinds DEF ValueControl
  <2>2. IsValue(more, n + 1, Len(more) + 1)
    BY <1>1, <1>3, ScalarDerived
  <2>3. Framed(more, at, d, ret)
    BY FramedFurther
  <2>4. more[at[d - 1]] = ts[at[d - 1]]
    BY Innermost DEF Longer
  <2> QED
    BY <1>1, <2>1, <2>2, <2>3, <2>4, ItemRead
<1>4. CASE t \notin Scalars \cup Brackets
  <2>1. l2 = "error"
    BY <1>4 DEF ValueControl
  <2> QED
    BY <1>4, <2>1, NoValue, ErrorText
<1> QED
  BY <1>2, <1>3, <1>4

\* A token is read in the innermost of d scopes, which begins at i.
Reads(ts, t, n, more, at, d, ret, i) ==
  /\ Longer(ts, t, n, more) /\ Framed(ts, at, d, ret) /\ d \in Nat /\ d > 1 /\ i = at[d - 1]
  /\ \A e \in 1..d : e \in DOMAIN ret

LEMMA ReadIn ==
  ASSUME NEW ts, NEW t, NEW n, NEW more, NEW at, NEW d, NEW ret, NEW i, Reads(ts, t, n, more, at, d, ret, i)
  PROVE  /\ i \in DOMAIN ts /\ ts[i] \in Brackets /\ Wanted(ts, i) /\ i \in Nat
         /\ i \in DOMAIN more /\ more[i] = ts[i]
         /\ n + 1 \in DOMAIN more /\ more[n + 1] = t /\ Len(more) = n + 1 /\ more \in Texts
         /\ Framed(more, at, d, ret) /\ Len(ts) = n /\ n \in Nat
         /\ \A w \in Texts : Extends(w, more) => Extends(w, ts) /\ n + 1 \in DOMAIN w /\ w[n + 1] = t
         /\ \A w \in Texts : Extends(w, more) => \A j \in DOMAIN more : j \in DOMAIN w /\ w[j] = more[j]
<1>1. /\ Longer(ts, t, n, more) /\ Framed(ts, at, d, ret) /\ d \in Nat /\ d > 1 /\ i = at[d - 1]
  BY DEF Reads
<1>2. i \in DOMAIN ts /\ ts[i] \in Brackets /\ Wanted(ts, i)
  BY <1>1, Innermost
<1>3. Framed(more, at, d, ret)
  BY <1>1, FramedFurther
<1>4. \A w \in Texts : Extends(w, more) => Extends(w, ts) /\ n + 1 \in DOMAIN w /\ w[n + 1] = t
  BY <1>1 DEF Longer
<1>5. ASSUME NEW w \in Texts, Extends(w, more), NEW j \in DOMAIN more
      PROVE  j \in DOMAIN w /\ w[j] = more[j]
  <2>1. w[j] = more[j]
    BY <1>5 DEF Extends
  <2>2. CASE j = n + 1
    BY <1>4, <1>5, <2>1, <2>2
  <2>3. CASE j \in DOMAIN ts
    <3>1. ts \in Texts /\ Extends(w, ts)
      BY <1>1, <1>4, <1>5 DEF Longer
    <3>2. PICK k, m : k = Len(w) /\ m = Len(ts)
      OBVIOUS
    <3>3. k \in Nat /\ m \in Nat /\ m <= k /\ DOMAIN w = 1..k /\ DOMAIN ts = 1..m
      BY <3>1, <3>2 DEF Extends, Texts
    <3>4. 1..m \subseteq 1..k
      BY <3>3
    <3> QED
      BY <2>1, <2>3, <3>3, <3>4
  <2> QED
    BY <1>1, <2>2, <2>3 DEF Longer
<1> QED
  BY <1>1, <1>2, <1>3, <1>4, <1>5 DEF Longer

LEMMA EndText ==
  ASSUME NEW ts, NEW t, NEW n, NEW more, NEW at, NEW d, NEW ret, NEW i, Reads(ts, t, n, more, at, d, ret, i),
         t = Closer(ts[i]), i = n \/ IsItems(ts, ts[i], i + 1, n + 1)
  PROVE  TextRight(more, ret[d - 1], d - 1, ret)
<1>1. /\ Longer(ts, t, n, more) /\ Framed(ts, at, d, ret) /\ d \in Nat /\ d > 1 /\ i = at[d - 1]
  BY DEF Reads
<1>2. i \in DOMAIN ts /\ more[i] = ts[i] /\ ts[i] \in Brackets /\ Framed(more, at, d, ret)
      /\ more[n + 1] = t /\ n + 1 \in DOMAIN more /\ Len(more) = n + 1 /\ more \in Texts
      /\ i \in DOMAIN more
  BY ReadIn
<1>3. IsValue(more, i, Len(more) + 1)
  <2>1. Closes(more, i, n + 1)
    BY <1>2 DEF Closes
  <2>2. n + 1 = i + 1 \/ IsItems(more, more[i], i + 1, n + 1)
    BY <1>1, <1>2, KnownFurther
  <2>3. IsValue(more, i, (n + 1) + 1)
    BY <1>2, <2>1, <2>2, BracketsDerived
  <2> QED
    BY <1>2, <2>3
<1>4. PICK e, to : e = d - 1 /\ to = ret[e]
  OBVIOUS
<1>5. e \in Nat /\ (e # 1 => e > 1) /\ \A f \in 1..e - 1 : f \in 1..d - 1
  BY <1>1, <1>4
<1>6. Framed(more, at, e, ret) /\ Frame(more, at, e, to) /\ at[e] = i
  <2>1. e \in 1..d - 1
    BY <1>1, <1>4
  <2> QED
    BY <1>1, <1>2, <1>4, <1>5, <2>1 DEF Framed
<1>7. CASE e = 1
  <2>1. i = 1 /\ to = "finish"
    BY <1>6, <1>7 DEF Frame
  <2> QED
    BY <1>3, <1>4, <2>1, FinishText
<1>8. CASE e # 1
  <2>1. Leads(more, at[e - 1], i) /\ to = Continue(more[at[e - 1]])
    BY <1>6, <1>8 DEF Frame
  <2>2. TextRight(more, to, e, ret)
    BY <1>2, <1>3, <1>5, <1>6, <1>8, <2>1, ItemRead
  <2> QED
    BY <1>4, <2>2
<1> QED
  BY <1>7, <1>8

\* Where an item has to be, if the scope does not end there.
LEMMA ItemWanted ==
  ASSUME NEW ts, NEW t, NEW n, NEW more, NEW at, NEW d, NEW ret, NEW i, Reads(ts, t, n, more, at, d, ret, i),
         NEW m \in DOMAIN more, ItemPlace(ts, i, m), m # i + 1 \/ more[m] # Closer(ts[i]),
         NEW w \in Texts, Extends(w, more), IsText(w)
  PROVE  \E f : IsItem(w, ts[i], m, f)
<1>1. /\ i \in DOMAIN ts /\ ts[i] \in Brackets /\ Wanted(ts, i) /\ i \in DOMAIN more /\ more[i] = ts[i]
      /\ \A j \in DOMAIN more : j \in DOMAIN w /\ w[j] = more[j]
      /\ Extends(w, ts)
  BY ReadIn
<1>2. i \in DOMAIN w /\ w[i] = ts[i] /\ w[m] = more[m]
  BY <1>1
<1>3. PICK k : IsValue(w, i, k)
  BY <1>1 DEF Wanted
<1>4. ItemPlace(w, i, m)
  <2>1. \A j \in DOMAIN ts : j \in DOMAIN more /\ more[j] = ts[j]
    BY DEF Reads, Longer
  <2>2. \A j \in DOMAIN ts : j \in DOMAIN w /\ w[j] = ts[j]
    BY <1>1, <2>1
  <2>3. \A j : IsItems(ts, ts[i], i + 1, j) => IsItems(w, w[i], i + 1, j)
    BY <1>1, <1>2, DerivedFurther DEF Reads, Longer
  <2> QED
    BY <2>2, <2>3 DEF ItemPlace
<1>5. (m = i + 1 /\ Closes(w, i, m)) \/ \E f : IsItem(w, w[i], m, f)
  BY <1>1, <1>2, <1>3, <1>4, NextItem
<1> QED
  BY <1>2, <1>5 DEF Closes

IsArray(t)  == t = "["
IsObject(t) == t = "{"

LEMMA ArrayItemText ==
  ASSUME NEW ts, NEW t, NEW n, NEW more, NEW at, NEW d, NEW ret, NEW i, Reads(ts, t, n, more, at, d, ret, i),
         IsArray(ts[i]), ItemPlace(ts, i, n + 1), n # i \/ t # Closer(ts[i]),
         NEW l2, NEW d2, NEW ret2, ValueControl(t, "array_continue", d, ret, l2, d2, ret2)
  PROVE  TextRight(more, l2, d2, ret2)
<1>1. /\ Longer(ts, t, n, more) /\ Framed(ts, at, d, ret) /\ d \in Nat /\ d > 1 /\ i = at[d - 1]
      /\ \A e \in 1..d : e \in DOMAIN ret
  BY DEF Reads
<1>2. i \in DOMAIN ts /\ i \in Nat /\ n \in Nat /\ more[i] = ts[i] /\ n + 1 \in DOMAIN more /\ more[n + 1] = t
  BY <1>1, ReadIn DEF Longer
<1>3. Leads(more, i, n + 1)
  <2>1. ItemPlace(more, i, n + 1)
    BY <1>1, <1>2, KnownFurther
  <2>2. Headed(more, ts[i], n + 1) /\ ValueOf(ts[i], n + 1) = n + 1
    BY DEF Headed, ValueOf, IsArray
  <2> QED
    BY <1>2, <2>1, <2>2 DEF Leads
<1>4. Wanted(more, n + 1)
  <2> SUFFICES ASSUME NEW w \in Texts, Extends(w, more), IsText(w) PROVE \E k : IsValue(w, n + 1, k)
    BY DEF Wanted
  <2>1. n + 1 # i + 1 \/ more[n + 1] # Closer(ts[i])
    BY <1>2
  <2>2. PICK k : IsItem(w, ts[i], n + 1, k)
    BY <1>2, <2>1, ItemWanted
  <2> QED
    BY <2>2 DEF IsItem, ValueOf, IsArray
<1>5. "array_continue" = Continue(ts[i])
  BY DEF Continue, IsArray
<1> QED
  BY <1>1, <1>3, <1>4, <1>5, ValueText

KeyControl(t, d, ret, l2, d2, ret2) ==
  /\ d2 = d /\ ret2 = ret
  /\ \/ t \in Strings /\ l2 = "object_key_state"
     \/ t \notin Strings /\ l2 = "error"

LEMMA KeyText ==
  ASSUME NEW ts, NEW t, NEW n, NEW more, NEW at, NEW d, NEW ret, NEW i, Reads(ts, t, n, more, at, d, ret, i),
         IsObject(ts[i]), ItemPlace(ts, i, n + 1), n # i \/ t # Closer(ts[i]),
         NEW l2, NEW d2, NEW ret2, KeyControl(t, d, ret, l2, d2, ret2)
  PROVE  TextRight(more, l2, d2, ret2)
<1>0. Longer(ts, t, n, more) /\ d \in Nat /\ d > 1 /\ i = at[d - 1]
  BY DEF Reads
<1>1. /\ i \in DOMAIN ts /\ i \in Nat /\ n \in Nat /\ more[i] = ts[i] /\ Framed(more, at, d, ret)
      /\ n + 1 \in DOMAIN more /\ more[n + 1] = t /\ Len(more) = n + 1 /\ ts[i] \in Brackets
  BY ReadIn
<1>2. d2 = d /\ ret2 = ret
  BY DEF KeyControl
<1>3. CASE t \in Strings
  <2>1. l2 = "object_key_state" /\ l2 \in InObject /\ l2 \notin InArray
    BY <1>3, LabelKinds DEF KeyControl, InObject
  <2>2. ItemPlace(more, i, n + 1)
    BY <1>0, <1>1, KnownFurther
  <2>3. InScope(more, n + 1, l2, i)
    BY <1>1, <1>3, <2>1, <2>2 DEF InScope, IsObject
  <2> QED
    BY <1>0, <1>1, <1>2, <2>1, <2>3, ScopeText
<1>4. CASE t \notin Strings
  <2>1. l2 = "error"
    BY <1>4 DEF KeyControl
  <2>2. ASSUME NEW w \in Texts, Extends(w, more), IsText(w) PROVE FALSE
    <3>1. n + 1 # i + 1 \/ more[n + 1] # Closer(ts[i])
      BY <1>1
    <3>2. PICK k : IsItem(w, ts[i], n + 1, k)
      BY <1>1, <2>2, <3>1, ItemWanted
    <3>3. w[n + 1] \in Strings
      BY <3>2 DEF IsItem, Headed, KeyAt, IsObject
    <3>4. w[n + 1] = t
      BY <1>0, <2>2 DEF Longer
    <3> QED
      BY <1>4, <3>3, <3>4
  <2> QED
    BY <2>1, <2>2, ErrorText DEF Hopeless
<1> QED
  BY <1>3, <1>4

LEMMA ColonText ==
  ASSUME NEW ts, NEW t, NEW n, NEW more, NEW at, NEW d, NEW ret, NEW i, Reads(ts, t, n, more, at, d, ret, i),
         IsObject(ts[i]), ItemPlace(ts, i, n), n \in DOMAIN ts, ts[n] \in Strings,
         NEW l2, l2 = IF t = ":" THEN "object_value" ELSE "error"
  PROVE  TextRight(more, l2, d, ret)
<1>0. Longer(ts, t, n, more) /\ d \in Nat /\ d > 1 /\ i = at[d - 1]
  BY DEF Reads
<1>1. /\ i \in DOMAIN ts /\ i \in Nat /\ n \in Nat /\ more[i] = ts[i] /\ Framed(more, at, d, ret)
      /\ n + 1 \in DOMAIN more /\ more[n + 1] = t /\ Len(more) = n + 1 /\ ts[i] \in Brackets
      /\ n \in DOMAIN more /\ more[n] = ts[n]
  BY <1>0, ReadIn, KnownFurther
<1>2. CASE t = ":"
  <2>1. l2 = "object_value" /\ l2 \in InObject /\ l2 \notin InArray
    BY <1>2, LabelKinds DEF InObject
  <2>2. ItemPlace(more, i, n) /\ KeyAt(more, n)
    BY <1>0, <1>1, <1>2, KnownFurther DEF KeyAt
  <2>3. InScope(more, n + 1, l2, i)
    BY <1>1, <2>1, <2>2 DEF InScope, IsObject
  <2> QED
    BY <1>0, <1>1, <2>1, <2>3, ScopeText
<1>3. CASE t # ":"
  <2>1. l2 = "error"
    BY <1>3
  <2>2. ASSUME NEW w \in Texts, Extends(w, more), IsText(w) PROVE FALSE
    <3>1. more[n] # Closer(ts[i])
      BY <1>1 DEF Closer, Strings
    <3>2. PICK k : IsItem(w, ts[i], n, k)
      BY <1>1, <2>2, <3>1, ItemWanted
    <3>3. w[n + 1] = ":"
      BY <3>2 DEF IsItem, Headed, KeyAt, IsObject
    <3>4. w[n + 1] = t
      BY <1>0, <2>2 DEF Longer
    <3> QED
      BY <1>3, <3>3, <3>4
  <2> QED
    BY <2>1, <2>2, ErrorText DEF Hopeless
<1> QED
  BY <1>2, <1>3

LEMMA MemberText ==
  ASSUME NEW ts, NEW t, NEW n, NEW more, NEW at, NEW d, NEW ret, NEW i, Reads(ts, t, n, more, at, d, ret, i),
         IsObject(ts[i]), NEW m \in DOMAIN ts, m + 1 = n, KeyAt(ts, m), ItemPlace(ts, i, m),
         NEW l2, NEW d2, NEW ret2, ValueControl(t, "object_continue", d, ret, l2, d2, ret2)
  PROVE  TextRight(more, l2, d2, ret2)
<1>1. /\ Longer(ts, t, n, more) /\ Framed(ts, at, d, ret) /\ d \in Nat /\ d > 1 /\ i = at[d - 1]
      /\ \A e \in 1..d : e \in DOMAIN ret
  BY DEF Reads
<1>2. i \in DOMAIN ts /\ i \in Nat /\ n \in Nat /\ more[i] = ts[i] /\ m \in DOMAIN more /\ more[m] = ts[m]
  <2>1. m \in DOMAIN more /\ more[m] = ts[m]
    BY <1>1, KnownFurther
  <2> QED
    BY <2>1, ReadIn
<1>3. ValueOf(ts[i], m) = n + 1
  <2>1. m + 2 = n + 1
    <3>1. m \in Nat
      BY <1>1 DEF Longer
    <3> QED
      BY <1>2, <3>1
  <2> QED
    BY <2>1 DEF ValueOf, IsObject
<1>4. Leads(more, i, n + 1)
  <2>1. ItemPlace(more, i, m) /\ KeyAt(more, m)
    BY <1>1, <1>2, KnownFurther
  <2> QED
    BY <1>2, <1>3, <2>1 DEF Leads, Headed
<1>5. Wanted(more, n + 1)
  <2> SUFFICES ASSUME NEW w \in Texts, Extends(w, more), IsText(w) PROVE \E k : IsValue(w, n + 1, k)
    BY DEF Wanted
  <2>1. more[m] # Closer(ts[i])
    BY <1>2 DEF KeyAt, Closer, Strings
  <2>2. PICK k : IsItem(w, ts[i], m, k)
    BY <1>2, <2>1, ItemWanted
  <2> QED
    BY <1>3, <2>2 DEF IsItem
<1>6. "object_continue" = Continue(ts[i])
  BY DEF Continue, IsObject
<1> QED
  BY <1>1, <1>4, <1>5, <1>6, ValueText

\* Behind an item there is a comma or the scope ends.
CommaLabel(type) == IF type = "{" THEN "object_next_key" ELSE "main_array_switch"

BehindControl(type, t, d, ret, l2, d2, ret2) ==
  \/ t = "," /\ l2 = CommaLabel(type) /\ d2 = d /\ ret2 = ret
  \/ t = Closer(type) /\ d2 = d - 1 /\ l2 = ret[d2] /\ ret2 = ret
  \/ t \notin {",", Closer(type)} /\ l2 = "error" /\ d2 = d /\ ret2 = ret

LEMMA BehindItemText ==
  ASSUME NEW ts, NEW t, NEW n, NEW more, NEW at, NEW d, NEW ret, NEW i, Reads(ts, t, n, more, at, d, ret, i),
         IsItems(ts, ts[i], i + 1, n + 1),
         NEW l2, NEW d2, NEW ret2, BehindControl(ts[i], t, d, ret, l2, d2, ret2)
  PROVE  TextRight(more, l2, d2, ret2)
<1>0. Longer(ts, t, n, more) /\ d \in Nat /\ d > 1 /\ i = at[d - 1]
  BY DEF Reads
<1>1. /\ i \in DOMAIN ts /\ i \in Nat /\ n \in Nat /\ more[i] = ts[i] /\ Framed(more, at, d, ret)
      /\ n + 1 \in DOMAIN more /\ more[n + 1] = t /\ Len(more) = n + 1 /\ ts[i] \in Brackets
  BY ReadIn
<1>2. CASE t = "," /\ l2 = CommaLabel(ts[i]) /\ d2 = d /\ ret2 = ret
  <2>1. /\ l2 \in {"main_array_switch", "object_next_key"} /\ l2 \in InArray \cup InObject
        /\ (l2 \in InArray <=> more[i] = "[")
    BY <1>1, <1>2 DEF CommaLabel, InArray, InObject, Brackets
  <2>2. IsItems(more, more[i], i + 1, n + 1)
    BY <1>0, <1>1, KnownFurther
  <2>3. InScope(more, n + 1, l2, i)
    BY <1>1, <1>2, <2>1, <2>2 DEF InScope
  <2> QED
    BY <1>0, <1>1, <1>2, <2>1, <2>3, ScopeText
<1>3. CASE t = Closer(ts[i]) /\ d2 = d - 1 /\ l2 = ret[d2] /\ ret2 = ret
  BY <1>3, EndText
<1>4. CASE t \notin {",", Closer(ts[i])} /\ l2 = "error"
  <2>1. ASSUME NEW w \in Texts, Extends(w, more), IsText(w) PROVE FALSE
    <3>1. /\ Wanted(ts, i) /\ Extends(w, ts) /\ w[n + 1] = t /\ ts \in Texts
          /\ \A j \in DOMAIN more : j \in DOMAIN w /\ w[j] = more[j]
          /\ i \in DOMAIN more
      BY <1>0, <2>1, ReadIn DEF Longer
    <3>2. i \in DOMAIN w /\ w[i] = ts[i]
      BY <1>1, <3>1
    <3>3. PICK k : IsValue(w, i, k)
      BY <2>1, <3>1 DEF Wanted
    <3>4. IsItems(w, w[i], i + 1, n + 1)
      BY <2>1, <3>1, <3>2, DerivedFurther
    <3>5. w[n + 1] = "," \/ Closes(w, i, n + 1)
      BY <1>1, <2>1, <3>2, <3>3, <3>4, NextContinue
    <3> QED
      BY <1>4, <3>1, <3>2, <3>5 DEF Closes
  <2> QED
    BY <1>4, <2>1, ErrorText DEF Hopeless
<1> QED
  BY <1>2, <1>3, <1>4 DEF BehindControl

\* The value that a text begins with.
LEMMA FirstText ==
  ASSUME NEW t \in Tokens, NEW ret, 1 \in DOMAIN ret,
         NEW l2, NEW d2, NEW ret2, ValueControl(t, "finish", 1, ret, l2, d2, ret2)
  PROVE  TextRight(<<t>>, l2, d2, ret2)
<1>1. PICK ts, more, at : ts = <<>> /\ more = <<t>> /\ at = [e \in Nat |-> 0]
  OBVIOUS
<1>2. Longer(ts, t, 0, more)
  <2>1. ts \in Texts /\ Len(ts) = 0 /\ Append(ts, t) = more
    BY <1>1 DEF Texts
  <2>2. Longer(ts, t, Len(ts), Append(ts, t))
    BY <2>1, OneLonger
  <2> QED
    BY <2>1, <2>2
<1>3. more \in Texts /\ Len(more) = 1 /\ 1 \in DOMAIN more /\ more[1] = t
  BY <1>1 DEF Texts
<1>4. Wanted(more, 0 + 1)
  BY DEF Wanted, IsText
<1>5. CASE t \in Brackets
  <2>1. d2 = 1 + 1 /\ ret2 = [ret EXCEPT ![1] = "finish"]
        /\ l2 = IF d2 >= MaxDepth THEN "error" ELSE BeginLabel(t)
    BY <1>5, Kinds DEF ValueControl
  <2>2. CASE d2 >= MaxDepth
    BY <1>1, <2>1, <2>2, ErrorText
  <2>3. CASE ~(d2 >= MaxDepth)
    <3>1. Framed(ts, at, 1, ret)
      <4>1. 1..1 - 1 = {} /\ at \in [Nat -> Nat]
        BY <1>1
      <4> QED
        BY <4>1 DEF Framed
    <3>2. ret2[1] = "finish" /\ \A e \in 1..1 - 1 : ret2[e] = ret[e]
      BY <2>1
    <3>3. Opens(ts, t, 0, more, at, 1, ret, "finish", ret2)
      BY <1>2, <1>4, <1>5, <3>1, <3>2 DEF Opens
    <3>4. TextRight(more, BeginLabel(t), 1 + 1, ret2)
      BY <3>3, ScopeBeginsText
    <3> QED
      BY <1>1, <2>1, <2>3, <3>4
  <2> QED
    BY <2>2, <2>3
<1>6. CASE t \in Scalars
  <2>1. l2 = "finish"
    BY <1>6, Kinds DEF ValueControl
  <2>2. IsValue(more, 1, Len(more) + 1)
    BY <1>3, <1>6, ScalarDerived
  <2> QED
    BY <1>1, <2>1, <2>2, FinishText
<1>7. CASE t \notin Scalars \cup Brackets
  <2>1. l2 = "error"
    BY <1>7 DEF ValueControl
  <2>2. Hopeless(more)
    BY <1>2, <1>4, <1>7, NoValue
  <2> QED
    BY <1>1, <2>1, <2>2, ErrorText
<1> QED
  BY <1>5, <1>6, <1>7

LEMMA EndOfText ==
  ASSUME NEW ts, NEW t, NEW n, NEW more, Longer(ts, t, n, more), IsValue(ts, 1, n + 1)
  PROVE  IF t = End THEN IsText(more) ELSE Hopeless(more)
<1>1. ts \in Texts /\ more \in Texts /\ Extends(more, ts) /\ n \in Nat /\ Len(more) = n + 1 /\ more[n + 1] = t
  BY DEF Longer
<1>2. CASE t = End
  <2>1. IsValue(more, 1, n + 1) /\ n + 1 > 0
    BY <1>1, DerivedFurther
  <2> QED
    BY <1>1, <1>2, <2>1 DEF IsText
<1>3. CASE t # End
  <2>1. ASSUME NEW w \in Texts, Extends(w, more), IsText(w) PROVE FALSE
    <3>1. Extends(w, ts) /\ w[n + 1] = t
      BY <2>1 DEF Longer
    <3>2. IsValue(w, 1, n + 1)
      BY <1>1, <3>1, DerivedFurther
    <3>3. w[Len(w)] = End /\ IsValue(w, 1, Len(w))
      BY <2>1 DEF IsText
    <3>4. Len(w) = n + 1
      BY <2>1, <3>2, <3>3, Determined DEF OnlyValue
    <3> QED
      BY <1>3, <3>1, <3>3, <3>4
  <2> QED
    BY <1>3, <2>1 DEF Hopeless
<1> QED
  BY <1>2, <1>3

-----------------------------------------------------------------------------
(***************************************************************************)
(* The steps of the machine: what they do to where it is.                  *)
(***************************************************************************)
TextInv == TextRight(tokens, label, depth, ret_address)

LEMMA ValueControlled ==
  ASSUME NEW p, NEW t \in Tokens \cup {End}, NEW to, ParseValue(p, t, to)
  PROVE  ValueControl(t, to, depth, ret_address, label', depth', ret_address')
<1>1. CASE t = "{" /\ StartScope(p, "{", depth, to, "object_begin")
  BY <1>1 DEF StartScope, ValueControl, Brackets, BeginLabel
<1>2. CASE t = "[" /\ StartScope(p, "[", depth, to, "array_begin")
  BY <1>2 DEF StartScope, ValueControl, Brackets, BeginLabel
<1>3. CASE t \in Scalars /\ label' = to /\ UNCHANGED <<depth, ret_address>>
  BY <1>3 DEF ValueControl
<1>4. CASE t \in {"}", "]", ",", ":", Refused, RefusedString, End} /\ label' = "error"
           /\ UNCHANGED <<depth, ret_address>>
  <2>1. t \notin Scalars \cup Brackets
    BY <1>4 DEF Scalars, Brackets, Strings, Numbers, Atoms, Refused, RefusedString, End
  <2> QED
    BY <1>4, <2>1 DEF ValueControl
<1> QED
  BY <1>1, <1>2, <1>3, <1>4 DEF ParseValue, Goto, Scalars

LEMMA KeyControlled ==
  ASSUME NEW p, NEW t,
         ParseKey(p, t) \/ (t \notin Strings /\ Goto("error", p))
  PROVE  KeyControl(t, depth, ret_address, label', depth', ret_address')
<1>1. RefusedString \notin Strings
  BY DEF RefusedString, Strings
<1> QED
  BY <1>1 DEF ParseKey, Goto, KeyControl

LEMMA Reading ==
  ASSUME IInv, TextInv, label \in InArray \cup InObject, NEW t \in Tokens \cup {End}, Advance(t)
  PROVE  \E at, i, n : /\ Reads(tokens, t, n, tokens', at, depth, ret_address, i)
                       /\ InScope(tokens, n, label, i) /\ tokens[i] \in Brackets /\ n \in Nat
                       /\ i \in DOMAIN tokens /\ n = Len(tokens)
<1>1. TypeRight /\ DepthRight
  BY DEF IInv, Kept
<1>2. depth \in 1..MaxDepth - 1 /\ ret_address \in [0..MaxDepth - 1 -> Returns]
  BY <1>1 DEF DepthRight, TypeRight, Running
<1>3. depth \in Nat /\ depth > 1
      /\ \E at : Framed(tokens, at, depth, ret_address) /\ InScope(tokens, Len(tokens), label, at[depth - 1])
  BY DEF TextInv, TextRight
<1>4. PICK at : Framed(tokens, at, depth, ret_address) /\ InScope(tokens, Len(tokens), label, at[depth - 1])
  BY <1>3
<1>5. PICK i, n : i = at[depth - 1] /\ n = Len(tokens)
  OBVIOUS
<1>6. tokens \in Texts /\ tokens' = Append(tokens, t)
  BY <1>1 DEF TypeRight, Texts, Advance
<1>7. Longer(tokens, t, n, tokens')
  BY <1>5, <1>6, OneLonger
<1>8. \A e \in 1..depth : e \in DOMAIN ret_address
  <2>1. MaxDepth \in Nat
    BY BufferAssumption
  <2>2. \A e \in 1..depth : e \in 0..MaxDepth - 1
    BY <1>2, <2>1
  <2> QED
    BY <1>2, <2>2
<1>9. Reads(tokens, t, n, tokens', at, depth, ret_address, i)
  BY <1>3, <1>4, <1>5, <1>7, <1>8 DEF Reads
<1>10. i \in DOMAIN tokens /\ tokens[i] \in Brackets /\ n \in Nat
  BY <1>9, ReadIn
<1> QED
  BY <1>4, <1>5, <1>9, <1>10

LEMMA InArrays ==
  ASSUME NEW ts, NEW n, NEW l, NEW i, InScope(ts, n, l, i), ts[i] \in Brackets
  PROVE  /\ l \in InArray => IsArray(ts[i]) /\ Closer(ts[i]) = "]" /\ CommaLabel(ts[i]) = "main_array_switch"
         /\ l \in InObject => IsObject(ts[i]) /\ Closer(ts[i]) = "}" /\ CommaLabel(ts[i]) = "object_next_key"
BY LabelKinds DEF InScope, Brackets, IsArray, IsObject, Closer, CommaLabel

LEMMA ArrayBeginText == IInv /\ TextInv /\ ArrayBegin => TextInv'
<1> SUFFICES ASSUME IInv, TextInv, ArrayBegin PROVE TextInv'
  OBVIOUS
<1>1. label = "array_begin" /\ label \in InArray
  BY DEF ArrayBegin, InArray
<1>2. PICK t \in Tokens \cup {End} :
        /\ Advance(t)
        /\ (t = "]" /\ EndScope("]")) \/ (t # "]" /\ ParseValue(Counted, t, "array_continue"))
  BY DEF ArrayBegin
<1>3. PICK at, i, n : /\ Reads(tokens, t, n, tokens', at, depth, ret_address, i)
                      /\ InScope(tokens, n, label, i) /\ tokens[i] \in Brackets /\ n \in Nat
  BY <1>1, <1>2, Reading
<1>4. i = n /\ ItemPlace(tokens, i, n + 1)
  BY <1>1, <1>3 DEF InScope, ItemPlace
<1>5. IsArray(tokens[i]) /\ Closer(tokens[i]) = "]"
  BY <1>1, <1>3, InArrays
<1>6. CASE t = "]" /\ EndScope("]")
  <2>1. TextRight(tokens', ret_address[depth - 1], depth - 1, ret_address)
    BY <1>3, <1>4, <1>5, <1>6, EndText
  <2> QED
    BY <1>6, <2>1 DEF EndScope, TextInv
<1>7. CASE t # "]" /\ ParseValue(Counted, t, "array_continue")
  <2>1. ValueControl(t, "array_continue", depth, ret_address, label', depth', ret_address')
    BY <1>7, ValueControlled
  <2>2. t # Closer(tokens[i])
    BY <1>5, <1>7
  <2> QED
    BY <1>3, <1>4, <1>5, <2>1, <2>2, ArrayItemText DEF TextInv
<1> QED
  BY <1>2, <1>6, <1>7

LEMMA BehindComma ==
  ASSUME NEW ts, NEW t, NEW n, NEW more, NEW at, NEW d, NEW ret, NEW i, Reads(ts, t, n, more, at, d, ret, i),
         IsItems(ts, ts[i], i + 1, n)
  PROVE  n # i /\ n \in DOMAIN ts
<1>1. ts \in Texts
  BY DEF Reads, Longer
<1>2. i + 1 < n /\ i \in Nat /\ n \in Nat
  BY <1>1, DerivedPlaces, ReadIn
<1>3. n # i
  BY <1>2
<1>4. n \in DOMAIN ts
  <2>1. Len(ts) = n /\ n > 0
    BY <1>2, ReadIn
  <2> QED
    BY <1>1, <1>2, <2>1 DEF Texts
<1> QED
  BY <1>3, <1>4

LEMMA MainArraySwitchText == IInv /\ TextInv /\ MainArraySwitch => TextInv'
<1> SUFFICES ASSUME IInv, TextInv, MainArraySwitch PROVE TextInv'
  OBVIOUS
<1>1. label = "main_array_switch" /\ label \in InArray
  BY DEF MainArraySwitch, InArray
<1>2. PICK t \in Tokens \cup {End} : Advance(t) /\ ParseValue(parser, t, "array_continue")
  BY DEF MainArraySwitch
<1>3. PICK at, i, n : /\ Reads(tokens, t, n, tokens', at, depth, ret_address, i)
                      /\ InScope(tokens, n, label, i) /\ tokens[i] \in Brackets /\ n \in Nat
  BY <1>1, <1>2, Reading
<1>4. n # i /\ ItemPlace(tokens, i, n + 1)
  <2>1. tokens[n] = "," /\ IsItems(tokens, tokens[i], i + 1, n)
    BY <1>1, <1>3 DEF InScope
  <2>2. n # i /\ n \in DOMAIN tokens
    BY <1>3, <2>1, BehindComma
  <2> QED
    BY <2>1, <2>2 DEF ItemPlace
<1>5. IsArray(tokens[i])
  BY <1>1, <1>3, InArrays
<1>6. ValueControl(t, "array_continue", depth, ret_address, label', depth', ret_address')
  BY <1>2, ValueControlled
<1> QED
  BY <1>3, <1>4, <1>5, <1>6, ArrayItemText DEF TextInv

LEMMA ArrayContinueText == IInv /\ TextInv /\ ArrayContinue => TextInv'
<1> SUFFICES ASSUME IInv, TextInv, ArrayContinue PROVE TextInv'
  OBVIOUS
<1>1. label = "array_continue" /\ label \in InArray
  BY DEF ArrayContinue, InArray
<1>2. PICK t \in Tokens \cup {End} :
        /\ Advance(t)
        /\ \/ t = "," /\ Goto("main_array_switch", Counted)
           \/ t = "]" /\ EndScope("]")
           \/ t \notin {",", "]"} /\ Goto("error", parser)
  BY DEF ArrayContinue
<1>3. PICK at, i, n : /\ Reads(tokens, t, n, tokens', at, depth, ret_address, i)
                      /\ InScope(tokens, n, label, i) /\ tokens[i] \in Brackets /\ n \in Nat
  BY <1>1, <1>2, Reading
<1>4. IsItems(tokens, tokens[i], i + 1, n + 1)
  BY <1>1, <1>3 DEF InScope
<1>5. Closer(tokens[i]) = "]" /\ CommaLabel(tokens[i]) = "main_array_switch"
  BY <1>1, <1>3, InArrays
<1>6. BehindControl(tokens[i], t, depth, ret_address, label', depth', ret_address')
  BY <1>2, <1>5 DEF Goto, EndScope, BehindControl
<1> QED
  BY <1>3, <1>4, <1>6, BehindItemText DEF TextInv

LEMMA ObjectBeginText == IInv /\ TextInv /\ ObjectBegin => TextInv'
<1> SUFFICES ASSUME IInv, TextInv, ObjectBegin PROVE TextInv'
  OBVIOUS
<1>1. label = "object_begin" /\ label \in InObject
  BY DEF ObjectBegin, InObject
<1>2. PICK t \in Tokens \cup {End} :
        /\ Advance(t)
        /\ \/ ParseKey(Counted, t)
           \/ t = "}" /\ EndScope("}")
           \/ t \notin Strings \cup {RefusedString, "}"} /\ Goto("error", parser)
  BY DEF ObjectBegin
<1>3. PICK at, i, n : /\ Reads(tokens, t, n, tokens', at, depth, ret_address, i)
                      /\ InScope(tokens, n, label, i) /\ tokens[i] \in Brackets /\ n \in Nat
  BY <1>1, <1>2, Reading
<1>4. i = n /\ ItemPlace(tokens, i, n + 1)
  BY <1>1, <1>3 DEF InScope, ItemPlace
<1>5. IsObject(tokens[i]) /\ Closer(tokens[i]) = "}"
  BY <1>1, <1>3, InArrays
<1>6. CASE t = "}" /\ EndScope("}")
  <2>1. TextRight(tokens', ret_address[depth - 1], depth - 1, ret_address)
    BY <1>3, <1>4, <1>5, <1>6, EndText
  <2> QED
    BY <1>6, <2>1 DEF EndScope, TextInv
<1>7. CASE ParseKey(Counted, t) \/ (t \notin Strings \cup {RefusedString, "}"} /\ Goto("error", parser))
  <2>1. KeyControl(t, depth, ret_address, label', depth', ret_address')
    BY <1>7, KeyControlled
  <2>2. t # Closer(tokens[i])
    BY <1>5, <1>7 DEF ParseKey, Strings, RefusedString
  <2> QED
    BY <1>3, <1>4, <1>5, <2>1, <2>2, KeyText DEF TextInv
<1> QED
  BY <1>2, <1>6, <1>7

LEMMA ObjectNextKeyText == IInv /\ TextInv /\ ObjectNextKey => TextInv'
<1> SUFFICES ASSUME IInv, TextInv, ObjectNextKey PROVE TextInv'
  OBVIOUS
<1>1. label = "object_next_key" /\ label \in InObject
  BY DEF ObjectNextKey, InObject
<1>2. PICK t \in Tokens \cup {End} :
        /\ Advance(t)
        /\ ParseKey(parser, t) \/ (t \notin Strings \cup {RefusedString} /\ Goto("error", parser))
  BY DEF ObjectNextKey
<1>3. PICK at, i, n : /\ Reads(tokens, t, n, tokens', at, depth, ret_address, i)
                      /\ InScope(tokens, n, label, i) /\ tokens[i] \in Brackets /\ n \in Nat
  BY <1>1, <1>2, Reading
<1>4. n # i /\ ItemPlace(tokens, i, n + 1)
  <2>1. tokens[n] = "," /\ IsItems(tokens, tokens[i], i + 1, n)
    BY <1>1, <1>3 DEF InScope
  <2>2. n # i /\ n \in DOMAIN tokens
    BY <1>3, <2>1, BehindComma
  <2> QED
    BY <2>1, <2>2 DEF ItemPlace
<1>5. IsObject(tokens[i])
  BY <1>1, <1>3, InArrays
<1>6. KeyControl(t, depth, ret_address, label', depth', ret_address')
  BY <1>2, KeyControlled
<1> QED
  BY <1>3, <1>4, <1>5, <1>6, KeyText DEF TextInv

LEMMA ObjectKeyStateText == IInv /\ TextInv /\ ObjectKeyState => TextInv'
<1> SUFFICES ASSUME IInv, TextInv, ObjectKeyState PROVE TextInv'
  OBVIOUS
<1>1. label = "object_key_state" /\ label \in InObject
  BY DEF ObjectKeyState, InObject
<1>2. PICK t \in Tokens \cup {End} :
        Advance(t) /\ Goto(IF t = ":" THEN "object_value" ELSE "error", parser)
  BY DEF ObjectKeyState
<1>3. PICK at, i, n : /\ Reads(tokens, t, n, tokens', at, depth, ret_address, i)
                      /\ InScope(tokens, n, label, i) /\ tokens[i] \in Brackets /\ n \in Nat
                      /\ i \in DOMAIN tokens /\ n = Len(tokens)
  BY <1>1, <1>2, Reading
<1>4. ItemPlace(tokens, i, n) /\ tokens[n] \in Strings
  BY <1>1, <1>3 DEF InScope
<1>5. IsObject(tokens[i])
  BY <1>1, <1>3, InArrays
<1>6. n \in DOMAIN tokens
  <2>1. tokens \in Texts
    BY <1>3 DEF Reads, Longer
  <2> QED
    BY <1>3, <2>1 DEF Texts
<1>7. TextRight(tokens', IF t = ":" THEN "object_value" ELSE "error", depth, ret_address)
  BY <1>3, <1>4, <1>5, <1>6, ColonText
<1> QED
  BY <1>2, <1>7 DEF Goto, TextInv

LEMMA ObjectValueText == IInv /\ TextInv /\ ObjectValue => TextInv'
<1> SUFFICES ASSUME IInv, TextInv, ObjectValue PROVE TextInv'
  OBVIOUS
<1>1. label = "object_value" /\ label \in InObject
  BY DEF ObjectValue, InObject
<1>2. PICK t \in Tokens \cup {End} : Advance(t) /\ ParseValue(parser, t, "object_continue")
  BY DEF ObjectValue
<1>3. PICK at, i, n : /\ Reads(tokens, t, n, tokens', at, depth, ret_address, i)
                      /\ InScope(tokens, n, label, i) /\ tokens[i] \in Brackets /\ n \in Nat
  BY <1>1, <1>2, Reading
<1>4. PICK m \in DOMAIN tokens : m + 1 = n /\ KeyAt(tokens, m) /\ ItemPlace(tokens, i, m)
  BY <1>1, <1>3 DEF InScope
<1>5. IsObject(tokens[i])
  BY <1>1, <1>3, InArrays
<1>6. ValueControl(t, "object_continue", depth, ret_address, label', depth', ret_address')
  BY <1>2, ValueControlled
<1> QED
  BY <1>3, <1>4, <1>5, <1>6, MemberText DEF TextInv

LEMMA ObjectContinueText == IInv /\ TextInv /\ ObjectContinue => TextInv'
<1> SUFFICES ASSUME IInv, TextInv, ObjectContinue PROVE TextInv'
  OBVIOUS
<1>1. label = "object_continue" /\ label \in InObject
  BY DEF ObjectContinue, InObject
<1>2. PICK t \in Tokens \cup {End} :
        /\ Advance(t)
        /\ \/ t = "," /\ Goto("object_next_key", Counted)
           \/ t = "}" /\ EndScope("}")
           \/ t \notin {",", "}"} /\ Goto("error", parser)
  BY DEF ObjectContinue
<1>3. PICK at, i, n : /\ Reads(tokens, t, n, tokens', at, depth, ret_address, i)
                      /\ InScope(tokens, n, label, i) /\ tokens[i] \in Brackets /\ n \in Nat
  BY <1>1, <1>2, Reading
<1>4. IsItems(tokens, tokens[i], i + 1, n + 1)
  BY <1>1, <1>3 DEF InScope
<1>5. Closer(tokens[i]) = "}" /\ CommaLabel(tokens[i]) = "object_next_key"
  BY <1>1, <1>3, InArrays
<1>6. BehindControl(tokens[i], t, depth, ret_address, label', depth', ret_address')
  BY <1>2, <1>5 DEF Goto, EndScope, BehindControl
<1> QED
  BY <1>3, <1>4, <1>6, BehindItemText DEF TextInv

LEMMA StartText == IInv /\ Start => TextInv'
<1> SUFFICES ASSUME IInv, Start PROVE TextInv'
  OBVIOUS
<1>1. depth' = 1 /\ label' = IF depth' >= MaxDepth THEN "error" ELSE "first_value"
  BY DEF Start, StartScope
<1>2. CASE label' = "error"
  BY <1>1, <1>2, ErrorText DEF TextInv
<1>3. CASE label' = "first_value"
  <2>1. "first_value" \notin InArray \cup InObject
    BY DEF InArray, InObject
  <2> QED
    BY <1>3, <2>1 DEF TextInv, TextRight
<1> QED
  BY <1>1, <1>2, <1>3

LEMMA FirstValueText == IInv /\ FirstValue => TextInv'
<1> SUFFICES ASSUME IInv, FirstValue PROVE TextInv'
  OBVIOUS
<1>1. label = "first_value" /\ ParseValue(parser, Last(tokens), "finish") /\ tokens' = tokens
      /\ TypeRight /\ DepthRight
  BY DEF FirstValue, IInv, Kept
<1>2. depth = 1 /\ depth \in 1..MaxDepth - 1 /\ ret_address \in [0..MaxDepth - 1 -> Returns]
  BY <1>1 DEF DepthRight, TypeRight, Running
<1>3. PICK t \in Tokens : tokens = <<t>>
  BY <1>1 DEF DepthRight
<1>4. ParseValue(parser, t, "finish")
  <2>1. Last(tokens) = t
    BY <1>3 DEF Last
  <2> QED
    BY <1>1, <2>1
<1>5. ValueControl(t, "finish", 1, ret_address, label', depth', ret_address')
  <2>1. ValueControl(t, "finish", depth, ret_address, label', depth', ret_address')
    BY <1>4, ValueControlled
  <2> QED
    BY <1>2, <2>1
<1>6. 1 \in DOMAIN ret_address
  <2>1. 1 \in 0..MaxDepth - 1
    BY <1>2, DepthIn
  <2> QED
    BY <1>2, <2>1
<1>7. TextRight(<<t>>, label', depth', ret_address')
  BY <1>5, <1>6, FirstText
<1> QED
  BY <1>1, <1>3, <1>7 DEF TextInv

\* The document is closed with the scope that began it.
LEMMA RootClosed ==
  ASSUME IInv, label = "finish", NEW q, q = on_end_scope(parser, 0, "r")
  PROVE  q.containing_scope[0].tape_index = 0
<1>1. TypeRight /\ DepthRight /\ ScopesRight /\ label \in Running
  BY DEF IInv, Kept, Running
<1>2. depth = 1 /\ depth \in 1..MaxDepth - 1
  BY <1>1 DEF DepthRight
<1>3. ParserType(parser) /\ OpenScopes(parser, 1, ret_address)
  BY <1>1, <1>2 DEF ScopesRight, TypeRight
<1>4. 0 \in 0..MaxDepth - 1 /\ "r" \in WordTypes
  BY BufferAssumption DEF WordTypes
<1>5. Index(parser, 0) = 0 /\ 0 < parser.current_loc
  <2>1. 0 \in 0..1 - 1
    OBVIOUS
  <2> QED
    BY <1>3, <2>1 DEF OpenScopes
<1>6. q.containing_scope = parser.containing_scope
  BY <1>3, <1>4, <1>5, ScopeEnded DEF Index
<1> QED
  BY <1>5, <1>6 DEF Index

LEMMA FinishStepText == IInv /\ TextInv /\ Finish => TextInv'
<1> SUFFICES ASSUME IInv, TextInv, Finish PROVE TextInv'
  OBVIOUS
<1>1. label = "finish" /\ TypeRight /\ DepthRight
  BY DEF Finish, IInv, Kept
<1>2. depth = 1
  BY <1>1 DEF DepthRight
<1>3. PICK t \in Tokens \cup {End} :
        /\ Advance(t)
        /\ IF t # End THEN Goto("error", parser)
           ELSE /\ depth' = depth - 1
                /\ parser' = on_end_scope(parser, depth', "r")
                /\ label' = IF depth' # 0 \/ parser'.containing_scope[depth'].tape_index # 0
                            THEN "error" ELSE "success"
                /\ UNCHANGED ret_address
  BY DEF Finish
<1>4. tokens \in Texts /\ tokens' = Append(tokens, t)
  BY <1>1, <1>3 DEF TypeRight, Texts, Advance
<1>5. Longer(tokens, t, Len(tokens), tokens')
  BY <1>4, OneLonger
<1>6. IsValue(tokens, 1, Len(tokens) + 1)
  BY <1>1 DEF TextInv, TextRight
<1>7. IF t = End THEN IsText(tokens') ELSE Hopeless(tokens')
  BY <1>5, <1>6, EndOfText
<1>8. CASE t # End
  <2>1. label' = "error" /\ Hopeless(tokens')
    BY <1>3, <1>7, <1>8 DEF Goto
  <2> QED
    BY <2>1, ErrorText DEF TextInv
<1>9. CASE t = End
  <2>1. depth' = 0 /\ parser' = on_end_scope(parser, 0, "r")
    BY <1>2, <1>3, <1>9
  <2>2. parser'.containing_scope[0].tape_index = 0
    BY <1>1, <2>1, RootClosed
  <2>3. label' = "success"
    BY <1>3, <1>9, <2>1, <2>2
  <2> QED
    BY <1>7, <1>9, <2>3, LabelKinds DEF TextInv, TextRight
<1> QED
  BY <1>8, <1>9

LEMMA StartedText == ASSUME label = "start" PROVE TextInv
<1>1. "start" \notin InArray \cup InObject
  BY DEF InArray, InObject
<1> QED
  BY <1>1 DEF TextInv, TextRight

LEMMA ParseAgainText == ParseAgain => TextInv'
<1> SUFFICES ASSUME ParseAgain PROVE TextInv'
  OBVIOUS
<1>1. label' = "start" /\ "start" \notin InArray \cup InObject
  BY DEF ParseAgain, InArray, InObject
<1> QED
  BY <1>1 DEF TextInv, TextRight

\* Stage 2 accepts what the grammar derives and nothing else: at success the tokens that
\* were read are a JSON text; at an error the scopes have reached the depth that the
\* parser is allocated for, or no JSON text begins with the tokens that were read.
AcceptsJson ==
  /\ label = "success" => IsText(tokens)
  /\ label = "error" /\ depth < MaxDepth => Hopeless(tokens)

\* Stage 2 decides the grammar: what it accepts is JSON, and what it refuses at a depth
\* that it is allocated for no JSON text begins with.
THEOREM GrammarDecided == Builder => []AcceptsJson
<1>1. BuilderInit => TextInv
  BY StartedText DEF BuilderInit
<1>2. IInv /\ TextInv /\ [BuilderNext]_builderVars => TextInv'
  <2>1. UNCHANGED builderVars /\ TextInv => TextInv'
    BY DEF builderVars, TextInv
  <2> QED
    BY <2>1, StartText, FirstValueText, ObjectBeginText, ObjectKeyStateText, ObjectValueText,
       ObjectContinueText, ObjectNextKeyText, ArrayBeginText, ArrayContinueText, MainArraySwitchText,
       FinishStepText, ParseAgainText
    DEF BuilderNext
<1>3. IInv /\ TextInv => AcceptsJson
  <2> SUFFICES ASSUME IInv, TextInv PROVE AcceptsJson
    OBVIOUS
  <2>1. depth \in 0..MaxDepth /\ MaxDepth \in Nat
    BY BufferAssumption DEF IInv, Kept, TypeRight
  <2>2. ~(depth < MaxDepth /\ depth >= MaxDepth)
    BY <2>1
  <2> QED
    BY <2>2 DEF AcceptsJson, TextInv, TextRight
<1> QED
  BY <1>1, <1>2, <1>3, BuilderKeepsOn, PTL DEF Builder
=============================================================================
