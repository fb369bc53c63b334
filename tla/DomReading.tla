----------------------------- MODULE DomReading -----------------------------
(***************************************************************************)
(* How an element is read off the tape of simdjson.h: iterators of arrays  *)
(* and objects, look-ups, sizes, and the two printers that walk the tape by*)
(* themselves.  A value read is a node: a type, a text and its members, an *)
(* object's members being its keys and values in turn.                     *)
(***************************************************************************)
EXTENDS ParserCallbacks, SequencesExt

CONSTANT PrintDepth  \* MAX_DEPTH of the printer: 16 in the code

Node(type, text, members) == [type |-> type, text |-> text, members |-> members]

\* What a reader that runs off the tape would find.
Astray == Node("astray", "", <<>>)

-----------------------------------------------------------------------------
tape_ref_type(p, i)        == IF i \in DOMAIN p.tape THEN p.tape[i].type ELSE "astray"
matching_brace_index(p, i) == p.tape[i].val
scope_count(p, i)          == p.tape[i].count
get_string_view(p, i)      == p.string_buf[p.tape[i].val]
next_tape_value(p, i)      == p.tape[i + 1].type

after_element(p, i) ==
  CASE tape_ref_type(p, i) \in {"[", "{"} -> matching_brace_index(p, i)
    [] tape_ref_type(p, i) \in {"l", "u"}  -> i + 2
    [] OTHER                              -> i + 1

\* The indexes an iterator visits: the elements of an array, the keys of an object.
Visited(p, i) ==
  LET object == tape_ref_type(p, i) = "{"
      end    == after_element(p, i) - 1
      RECURSIVE walk(_, _)
      walk(json_index, seen) ==
        IF json_index = end THEN seen
        ELSE IF json_index \notin 1..p.current_loc - 1 THEN Append(seen, 0)
        ELSE walk(after_element(p, IF object THEN json_index + 1 ELSE json_index),
                  Append(seen, json_index))
  IN  walk(i + 1, <<>>)

RECURSIVE ValueAt(_, _)
ValueAt(p, i) ==
  LET type == tape_ref_type(p, i)
  IN  CASE type = "\"" -> Node(type, get_string_view(p, i), <<>>)
        [] type \in {"l", "u"} -> Node(type, next_tape_value(p, i), <<>>)
        [] type = "["  -> Node(type, "", [n \in DOMAIN Visited(p, i) |->
                                            ValueAt(p, Visited(p, i)[n])])
        [] type = "{"  ->
             Node(type, "", FlattenSeq([n \in DOMAIN Visited(p, i) |->
                              LET key == Visited(p, i)[n]
                              IN  <<ValueAt(p, key), ValueAt(p, key + 1)>>]))
        [] type \in Atoms -> Node(type, "", <<>>)
        [] OTHER          -> Astray

\* object::at_key: the value of the first field of that name, zero for none.
at_key(p, i, key) ==
  LET fields == SelectSeq(Visited(p, i), LAMBDA f : get_string_view(p, f) = key)
  IN  IF fields = <<>> THEN 0 ELSE Head(fields) + 1

\* array::at, zero when the index is out of bounds.
at(p, i, index) == IF index < Len(Visited(p, i)) THEN Visited(p, i)[index + 1] ELSE 0

-----------------------------------------------------------------------------
(***************************************************************************)
(* JSON pointers, as sequences of reference tokens.  A token is given by   *)
(* its text: an index, one with a zero too many, "-", an escape, a wrong   *)
(* escape, or the empty text.                                              *)
(***************************************************************************)
ReferenceTokens == {"0", "1", "00", "-", "~1", "~2", ""}

IndexOf(token) == CASE token = "0" -> 0 [] token = "1" -> 1 [] OTHER -> -1

\* The key a token stands for, among those of the texts: k is empty, s a slash.
Unescaped(token) == CASE token = ""   -> "k"
                      [] token = "~1" -> "s"
                      [] OTHER        -> token

\* What a look-up gives: an error, or the index of an element.
Element(i, missing) == [error |-> IF i = 0 THEN missing ELSE "SUCCESS", json_index |-> i]
Failure(error)      == [error |-> error, json_index |-> 0]

\* Mutated array_child: a zero too many is read as an index.
array_child_lax(p, i, token, last) ==
  CASE token = "-" -> Failure(IF last THEN "INDEX_OUT_OF_BOUNDS" ELSE "INCORRECT_TYPE")
    [] token \in {"~1", "~2"} -> Failure("INCORRECT_TYPE")
    [] token = "" -> Failure("INVALID_JSON_POINTER")
    [] OTHER -> Element(at(p, i, IF token = "1" THEN 1 ELSE 0), "INDEX_OUT_OF_BOUNDS")

array_child(p, i, token, last) ==
  CASE token = "-" -> Failure(IF last THEN "INDEX_OUT_OF_BOUNDS" ELSE "INCORRECT_TYPE")
    [] token \in {"~1", "~2"} -> Failure("INCORRECT_TYPE")
    [] token \in {"", "00"} -> Failure("INVALID_JSON_POINTER")
    [] OTHER -> Element(at(p, i, IndexOf(token)), "INDEX_OUT_OF_BOUNDS")

object_child(p, i, token) ==
  IF token = "~2" THEN Failure("INVALID_JSON_POINTER")
  ELSE Element(at_key(p, i, Unescaped(token)), "NO_SUCH_FIELD")

\* element::at, for a pointer of at least one token.
RECURSIVE element_at(_, _, _)
element_at(p, i, pointer) ==
  LET token == Head(pointer)
      last  == Len(pointer) = 1
      child == CASE tape_ref_type(p, i) = "{" -> object_child(p, i, token)
                 [] tape_ref_type(p, i) = "[" -> array_child(p, i, token, last)
                 [] OTHER -> Failure("INCORRECT_TYPE")
  IN  IF last \/ child.error # "SUCCESS" THEN child
      ELSE element_at(p, child.json_index, Tail(pointer))

-----------------------------------------------------------------------------
(***************************************************************************)
(* document::dump_raw_tape walks over all words: where it stops, and what  *)
(* it answers.                                                             *)
(***************************************************************************)
dump_raw_tape(p) ==
  LET how_many == matching_brace_index(p, 0)
      RECURSIVE dump(_)
      dump(tape_idx) ==
        IF tape_idx >= how_many THEN [answer |-> TRUE, stop |-> tape_idx]
        ELSE CASE tape_ref_type(p, tape_idx) \in {"l", "u"} ->
                    IF tape_idx + 1 >= how_many THEN [answer |-> FALSE, stop |-> tape_idx]
                    ELSE dump(tape_idx + 2)
               [] tape_ref_type(p, tape_idx) \in {"\"", "[", "]", "{", "}"} \cup Atoms ->
                    dump(tape_idx + 1)
               [] OTHER -> [answer |-> FALSE, stop |-> tape_idx]
  IN  dump(1)

-----------------------------------------------------------------------------
(***************************************************************************)
(* minify<element>::print.  It keeps a stack of PrintDepth scopes and calls*)
(* the printers of arrays and objects for what is deeper, which iterate.   *)
(***************************************************************************)
Joined(texts) == FoldLeftDomain(LAMBDA out, n : out \o (IF n = 1 THEN <<>> ELSE <<",">>) \o texts[n],
                                <<>>, texts)

\* Mutated AfterScope: a scope too deep for the stack is left one word late.
AfterScopeLate(p, i) == matching_brace_index(p, i)

\* Where the printer stands after a scope it has handed on: on its last word.
AfterScope(p, i) == matching_brace_index(p, i) - 1

RECURSIVE Printed(_, _)
Printed(p, start) ==
  LET scalar(i) == IF tape_ref_type(p, i) = "\"" THEN get_string_view(p, i)
                   ELSE IF tape_ref_type(p, i) \in {"l", "u"} THEN next_tape_value(p, i)
                   ELSE tape_ref_type(p, i)
      handed_on(i) ==
        IF tape_ref_type(p, i) = "["
        THEN <<"[">> \o Joined([n \in DOMAIN Visited(p, i) |-> Printed(p, Visited(p, i)[n])])
               \o <<"]">>
        ELSE <<"{">> \o Joined([n \in DOMAIN Visited(p, i) |->
                           <<get_string_view(p, Visited(p, i)[n]), ":">>
                             \o Printed(p, Visited(p, i)[n] + 1)]) \o <<"}">>
      RECURSIVE element(_, _, _, _), ends(_, _, _)
      \* scopes: the types of the open scopes, outermost first
      element(i, scopes, after_value, out) ==
        LET keyed == scopes # <<>> /\ Last(scopes) = "{"
            comma == out \o (IF after_value THEN <<",">> ELSE <<>>)
                         \o (IF keyed THEN <<get_string_view(p, i), ":">> ELSE <<>>)
            j     == IF keyed THEN i + 1 ELSE i
            type  == tape_ref_type(p, j)
        IN  CASE type \in {"[", "{"} ->
                   IF Len(scopes) + 1 >= PrintDepth
                   THEN ends(AfterScope(p, j) + 1, scopes, comma \o handed_on(j))
                   ELSE IF tape_ref_type(p, j + 1) \in {"]", "}"}
                   THEN ends(j + 2, scopes, comma \o <<type, tape_ref_type(p, j + 1)>>)
                   ELSE element(j + 1, Append(scopes, type), FALSE, Append(comma, type))
              [] type \in {"]", "}", "r", "astray"} -> Append(comma, "abort")
              [] OTHER -> ends(IF type \in {"l", "u"} THEN j + 2 ELSE j + 1, scopes,
                               Append(comma, scalar(j)))
      ends(i, scopes, out) ==
        IF scopes = <<>> THEN out
        ELSE IF tape_ref_type(p, i) \in {"]", "}"}
        THEN ends(i + 1, Front(scopes), Append(out, tape_ref_type(p, i)))
        ELSE element(i, scopes, TRUE, out)
  IN  element(start, <<>>, FALSE, <<>>)
=============================================================================
