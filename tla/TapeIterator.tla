---------------------------- MODULE TapeIterator ----------------------------
(***************************************************************************)
(* parser::Iterator of simdjson.h: a position on the tape and, for every   *)
(* depth down to it, where the scope of that depth starts.  An operation   *)
(* gives an answer and the iterator after it.                              *)
(***************************************************************************)
EXTENDS DomReading

Outcome(found, it) == [found |-> found, it |-> it]

At(it, location, depth) == [it EXCEPT !.location = location, !.depth = depth]

\* Entries below the present depth are written before they are read again.
Settled(it) == [it EXCEPT !.depth_index = Restrict(@, 0..it.depth)]

Entry(location, type) == [start_of_scope |-> location, scope_type |-> type]

get_type(p, it) == tape_ref_type(p, it.location)

tape_length(p) == matching_brace_index(p, 0)

is_object_or_array(type) == type \in {"{", "["}
is_number(type)          == type \in {"l", "u"}

-----------------------------------------------------------------------------
\* An iterator of a parsed document stands on its value.
NewIterator(p) ==
  [location |-> 1, depth |-> 1, max_depth |-> MaxDepth,
   depth_index |-> 0 :> Entry(0, tape_ref_type(p, 0)) @@ 1 :> Entry(1, tape_ref_type(p, 1))]

\* A copy has room for no scope deeper than the present one.
Copied(it) == [Settled(it) EXCEPT !.max_depth = it.depth]

\* One level deeper, to a scope recorded as starting at start.
Entered(p, it, start) ==
  [location |-> it.location + 1, depth |-> it.depth + 1, max_depth |-> it.max_depth,
   depth_index |-> (it.depth + 1) :> Entry(start, get_type(p, it)) @@ it.depth_index]

\* Mutated down: the scope is recorded as starting at its bracket.
down_from_bracket(p, it) ==
  IF is_object_or_array(get_type(p, it)) /\ after_element(p, it.location) # it.location + 2
  THEN Outcome(TRUE, Entered(p, it, it.location))
  ELSE Outcome(FALSE, it)

down(p, it) ==
  IF is_object_or_array(get_type(p, it)) /\ after_element(p, it.location) # it.location + 2
  THEN Outcome(TRUE, Entered(p, it, it.location + 1))
  ELSE Outcome(FALSE, it)

to_start_scope(it) == At(it, it.depth_index[it.depth].start_of_scope, it.depth)

\* Mutated up: the start of the scope is not left for its bracket.
up_half(it) ==
  IF it.depth = 1 THEN Outcome(FALSE, it)
  ELSE Outcome(TRUE, At(it, to_start_scope(it).location, it.depth - 1))

up(it) ==
  IF it.depth = 1 THEN Outcome(FALSE, it)
  ELSE Outcome(TRUE, At(it, to_start_scope(it).location - 1, it.depth - 1))

rewind(it) == At(it, IF it.depth = 1 THEN it.location
                     ELSE it.depth_index[2].start_of_scope - 1, 1)

next(p, it) ==
  LET npos == after_element(p, it.location)
  IN  IF tape_ref_type(p, npos) \in {"]", "}"} THEN Outcome(FALSE, it)
      ELSE Outcome(TRUE, At(it, npos, it.depth))

\* From the start of the scope by strides as long as its first element, an unsigned
\* number counting as one word.  From a first element that is a scope the code jumps
\* behind it, and when that is not yet far enough it jumps there again, for ever.
prev_returns(p, it) ==
  LET start == to_start_scope(it).location
  IN  is_object_or_array(tape_ref_type(p, start)) /\ start # it.location =>
        matching_brace_index(p, start) >= it.location

prev(p, it) ==
  LET start  == to_start_scope(it).location
      first  == tape_ref_type(p, start)
      stride == IF first = "l" THEN 2 ELSE 1
      steps  == IF is_object_or_array(first) THEN 1
                ELSE (it.location - start + stride - 1) \div stride
  IN  IF it.location = start THEN Outcome(FALSE, it)
      ELSE Outcome(TRUE, At(it, start + (steps - 1) * stride, it.depth))

\* The next word of the document, closing brackets and the root's end included.
\* A scope entered this way is recorded as starting at its bracket.
move_forward(p, it) ==
  LET type == get_type(p, it)
  IN  IF it.location + 1 >= tape_length(p) THEN Outcome(FALSE, it)
      ELSE Outcome(TRUE,
             CASE is_object_or_array(type) -> Entered(p, it, it.location)
               [] type \in {"]", "}"}      -> At(it, it.location + 1, it.depth - 1)
               [] is_number(type)          -> At(it, it.location + 2, it.depth)
               [] OTHER                    -> At(it, it.location + 1, it.depth))

move_to_value(it) == At(it, it.location + 1, it.depth)

-----------------------------------------------------------------------------
(***************************************************************************)
(* What an iterator reads where it stands.                                 *)
(***************************************************************************)
get_string(p, it) == get_string_view(p, it.location)

\* The second word of a number, or zero when the tape ends before it.
get_integer(p, it) ==
  IF it.location + 1 >= tape_length(p) THEN "0" ELSE next_tape_value(p, it.location)

get_unsigned_integer(p, it) ==
  IF it.location + 1 >= tape_length(p) THEN "0" ELSE next_tape_value(p, it.location)

\* The text of one word, empty for a word that is no element.
print(p, it) ==
  LET type == get_type(p, it)
  IN  CASE type = "\"" -> get_string(p, it)
        [] type = "l"  -> get_integer(p, it)
        [] type = "u"  -> get_unsigned_integer(p, it)
        [] type \in Atoms \cup {"{", "}", "[", "]"} -> type
        [] OTHER -> ""

-----------------------------------------------------------------------------

\* From a key through its scope to the value of the key asked for.
move_to_key(p, it, key) ==
  LET RECURSIVE from(_)
      from(field) ==
        LET value == move_to_value(field)
        IN  IF get_string_view(p, field.location) = key THEN Outcome(TRUE, value)
            ELSE IF next(p, value).found THEN from(next(p, value).it)
            ELSE Outcome(FALSE, up(value).it)
  IN  IF down(p, it).found THEN from(down(p, it).it) ELSE Outcome(FALSE, it)

move_to_index(p, it, index) ==
  LET RECURSIVE from(_, _)
      from(element, i) ==
        IF i = index THEN Outcome(TRUE, element)
        ELSE IF next(p, element).found THEN from(next(p, element).it, i + 1)
        ELSE Outcome(FALSE, up(element).it)
  IN  IF down(p, it).found THEN from(down(p, it).it, 0) ELSE Outcome(FALSE, it)

-----------------------------------------------------------------------------
\* Behind the last element, a number of the unsigned kind taken as one word.
AppendPosition(p, it) ==
  LET RECURSIVE last(_)
      last(i) == IF next(p, i).found THEN last(next(p, i).it) ELSE i
      end     == last(down(p, it).it)
  IN  At(end, IF get_type(p, end) = "u" THEN end.location + 1
              ELSE after_element(p, end.location), end.depth)

RECURSIVE relative_move_to(_, _, _)
relative_move_to(p, it, pointer) ==
  LET token == Head(pointer)
      onward(moved) == IF moved.found THEN relative_move_to(p, moved.it, Tail(pointer)) ELSE moved
  IN  IF pointer = <<>> THEN Outcome(TRUE, it)
      ELSE CASE get_type(p, it) = "{" -> onward(move_to_key(p, it, Unescaped(token)))
             [] get_type(p, it) = "[" /\ token = "-" ->
                  IF Len(pointer) = 1 /\ down(p, it).found
                  THEN Outcome(TRUE, AppendPosition(p, it)) ELSE Outcome(FALSE, it)
             [] get_type(p, it) = "[" /\ IndexOf(token) >= 0 ->
                  onward(move_to_index(p, it, IndexOf(token)))
             [] OTHER -> Outcome(FALSE, it)

\* A search from the root.  When it fails the position is put back, and not the
\* starts of scopes that the search has overwritten.
move_to(p, it, pointer) ==
  LET searched == relative_move_to(p, rewind(it), pointer)
  IN  IF searched.found THEN searched
      ELSE Outcome(FALSE, [it EXCEPT !.depth_index = searched.it.depth_index])
=============================================================================
