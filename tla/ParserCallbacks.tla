--------------------------- MODULE ParserCallbacks ---------------------------
(***************************************************************************)
(* The parser object of simdjson as its stage 2 uses it: the tape, the     *)
(* string buffer and the open scopes, and the callbacks that write them.   *)
(* Buffers keep what was written before; only the cursors start again.     *)
(***************************************************************************)
EXTENDS Integers, FiniteSetsExt

CONSTANTS MaxDepth,    \* DEFAULT_MAX_DEPTH: 1024 in the code
          CountLimit,  \* the largest count a scope records: 2^24 - 1 in the code
          Unit,        \* what capacities are rounded up to: 64 in the code
          Padding      \* SIMDJSON_PADDING, and the bytes a string copy takes: 32

ASSUME BufferAssumption ==
  /\ MaxDepth \in Nat \ {0} /\ CountLimit \in Nat
  /\ Padding \in Nat \ {0} /\ Padding % 4 = 0 /\ Unit \in {n * Padding : n \in 2..4}

\* Tokens, by the byte they begin with.  A string is refused for its escapes, any
\* other token because it is no value; a text ends with a NUL of its own.
Strings       == {"k", "s"}
RefusedString == "q"
Numbers       == {"7", "8"}
Atoms         == {"t"}
Refused       == "x"
End           == "NUL"
Tokens        == {"{", "}", "[", "]", ",", ":", RefusedString, Refused}
                   \cup Strings \cup Numbers \cup Atoms

Closer(type) == IF type = "{" THEN "}" ELSE "]"

\* The bytes between the quotes, and the fewest bytes a token has in a text.
Contents(t) == IF t = "s" THEN 1 ELSE 0
Width(t)    == CASE t \in Strings \cup {RefusedString} -> Contents(t) + 2
                 [] t \in Atoms                        -> 4
                 [] t = End                            -> 0
                 [] OTHER                              -> 1

-----------------------------------------------------------------------------
\* A parser just allocated, and one that begins stage 2 again.
NewParser ==
  [tape |-> <<>>, current_loc |-> 0, string_buf |-> <<>>, current_string_buf_loc |-> 0,
   string_high |-> 0,
   containing_scope |-> [d \in 0..MaxDepth - 1 |-> [tape_index |-> 0, count |-> 0]]]

init_stage2(p) == [p EXCEPT !.current_loc = 0, !.current_string_buf_loc = 0, !.string_high = 0]

\* A word of the tape is a type with a payload; a scope also counts its members.
Word(type, val) == [type |-> type, val |-> val, count |-> 0]

\* A buffer with x stored at a place, whatever it held there.
With(buffer, place, x) ==
  [n \in DOMAIN buffer \cup {place} |-> IF n = place THEN x ELSE buffer[n]]

write_tape(p, type, val) ==
  [p EXCEPT !.tape = With(@, p.current_loc, Word(type, val)), !.current_loc = @ + 1]

increment_count(p, depth) == [p EXCEPT !.containing_scope[depth].count = @ + 1]

on_start_scope(p, depth, type) ==
  [write_tape(p, type, 0) EXCEPT
     !.containing_scope[depth] = [tape_index |-> p.current_loc, count |-> 0]]

\* The word that began the scope gets the index past its end and the count.
end_scope(p, depth) ==
  LET d == p.containing_scope[depth]
  IN  [p EXCEPT !.tape[d.tape_index].val   = p.current_loc,
                !.tape[d.tape_index].count = Min({d.count, CountLimit})]

\* Mutated on_end_scope: the scope is closed before its last word is written.
on_end_scope_early(p, depth, type) ==
  write_tape(end_scope(p, depth), type, p.containing_scope[depth].tape_index)

on_end_scope(p, depth, type) ==
  end_scope(write_tape(p, type, p.containing_scope[depth].tape_index), depth)

on_atom(p, t) == write_tape(p, t, 0)

\* A number takes a second word, whose bits are its value; 8 stands for those that
\* only an unsigned word holds.
on_number(p, t) == write_tape(write_tape(p, IF t = "7" THEN "l" ELSE "u", 0), t, 0)

\* A string is copied behind four bytes for its length, Padding bytes at a time;
\* its word is written before the copy, whatever comes of that.
on_start_string(p, t) ==
  [write_tape(p, "\"", p.current_string_buf_loc) EXCEPT
     !.string_high = p.current_string_buf_loc + 4 + Contents(t) + Padding]

on_end_string(p, t) ==
  [p EXCEPT !.string_buf = With(@, p.current_string_buf_loc, t),
            !.current_string_buf_loc = @ + 4 + Contents(t) + 1]

parse_string(p, t) == on_end_string(on_start_string(p, t), t)

-----------------------------------------------------------------------------
(***************************************************************************)
(* document::allocate, for the texts of a length.                          *)
(***************************************************************************)
ROUNDUP_N(n) == ((n + Unit - 1) \div Unit) * Unit

\* Mutated TapeCapacity: a word for each byte and one to begin with.
TapeCapacityShort(capacity) == ROUNDUP_N(capacity + 1)

TapeCapacity(capacity) == ROUNDUP_N(capacity + 2)

StringCapacity(capacity) == ROUNDUP_N(((5 * capacity) \div 3) + Padding)
=============================================================================
