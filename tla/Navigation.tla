----------------------------- MODULE Navigation -----------------------------
(***************************************************************************)
(* A client that walks a parsed document with an iterator, and what each   *)
(* operation owes it, said of the scopes of the tape as a tree.  A client  *)
(* that has moved forward in document order goes on that way, for the      *)
(* scopes it entered are recorded as starting at their brackets; one with  *)
(* a copy of an iterator goes no deeper.                                   *)
(***************************************************************************)
EXTENDS TapeBuilder, TapeIterator

VARIABLES client,  \* "none", how its client uses the iterator, or "lost" in the end
          walk     \* the iterator

walkVars == <<client, walk>>

-----------------------------------------------------------------------------
(***************************************************************************)
(* The tree: the scopes a word is in, by their brackets, the closing one   *)
(* counted in, and the first words of a scope.                             *)
(***************************************************************************)
Around(i) == {j \in 1..i - 1 : /\ is_object_or_array(parser.tape[j].type)
                               /\ i < parser.tape[j].val}

Parent(i) == Max(Around(i) \cup {0})

\* The values of an array or of the document, the keys and values of an object.
Children(i) ==
  IF i = 0 THEN {1}
  ELSE ToSet(Visited(parser, i))
         \cup (IF parser.tape[i].type = "{" THEN {j + 1 : j \in ToSet(Visited(parser, i))} ELSE {})

Siblings(i) == Children(Parent(i))

\* Behind the last element of an array, where the pointer "-" leads.
AtEnd(i) == parser.tape[i].type = "]"

\* All the words but the second ones of numbers, and the document's own ends.
Places ==
  {i \in 1..parser.current_loc - 2 : parser.tape[i - 1].type \notin {"l", "u"}}

-----------------------------------------------------------------------------
NoWalk == client = "none" /\ walk = <<>>

WalkInit == NoWalk

\* The first text of the parser is walked.
StartWalk ==
  /\ label = "success" /\ client = "none"
  /\ room = MaxTokens
  /\ client' = "tree" /\ walk' = NewIterator(parser)

Move(outcome) == walk' = Settled(outcome.it)

\* The strides of prev are right when the elements before are as long as the first
\* one, or when the first one is a scope and the only one.
Strides(i) ==
  LET before == {j \in Siblings(i) : j < i}
      type   == tape_ref_type(parser, Min(before \cup {i}))
  IN  IF is_object_or_array(type) THEN Cardinality(before) <= 1
      ELSE \A j \in before : after_element(parser, j) = j + (IF type = "l" THEN 2 ELSE 1)

Sideways ==
  /\ client \in {"tree", "copy"}
  /\ \/ Move(up(walk))
     \/ ~AtEnd(walk.location) /\ walk.depth > 1 /\ Move(next(parser, walk))
  /\ UNCHANGED client

\* Where the strides are wrong the client finds itself on any word of the scope, or
\* never comes back.
Backward ==
  /\ client \in {"tree", "copy"}
  /\ ~AtEnd(walk.location) /\ walk.depth > 1
  /\ client' = IF Strides(walk.location) THEN client ELSE "lost"
  /\ IF prev_returns(parser, walk) THEN Move(prev(parser, walk))
     ELSE walk' = Settled(to_start_scope(walk))

\* A key or an index, or just one level.
Deeper ==
  /\ client = "tree"
  /\ \/ Move(down(parser, walk))
     \/ /\ get_type(parser, walk) = "{"
        /\ \E key \in Strings : Move(move_to_key(parser, walk, key))
     \/ /\ get_type(parser, walk) = "["
        /\ \E index \in 0..2 : Move(move_to_index(parser, walk, index))
  /\ UNCHANGED client

\* The pointers of at most two reference tokens.
Pointers == UNION {[1..n -> ReferenceTokens] : n \in 0..2}

\* One that leads nowhere leaves the client where it got to, with scopes recorded that
\* are not around it; one behind an unsigned number at the end of an array leads to
\* the second word of that number.
Point ==
  /\ client = "tree"
  /\ \E pointer \in Pointers :
       LET outcome == move_to(parser, walk, pointer)
       IN  /\ client' = IF /\ outcome.found \/ walk.depth = 1
                          /\ outcome.it.location \in Places
                       THEN client ELSE "lost"
           /\ Move(outcome)

Forward ==
  /\ client \in {"tree", "forward"}
  /\ client' = "forward"
  /\ Move(move_forward(parser, walk))

Copy ==
  /\ client = "tree"
  /\ client' = "copy" /\ walk' = Copied(walk)

Walk ==
  /\ StartWalk \/ Sideways \/ Backward \/ Deeper \/ Point \/ Forward \/ Copy
  /\ UNCHANGED builderVars

-----------------------------------------------------------------------------
\* The tokens of the text that have words of their own.
Elements == SelectSeq(tokens, LAMBDA t : t \notin {",", ":", End})

\* The iterator stands on an element of the scope it believes to be in, and has
\* recorded the start of every scope around it; its depth is that of the text
\* and below the limit the code asserts.  It prints the element that the text has
\* in that place.  Two may lose their way: prev, where the elements before are not all
\* as long as the first one, and a pointer that leads nowhere.
OnCourse ==
  client \notin {"none", "lost"} =>
    LET i      == walk.location
        around == SetToSortSeq(Around(i), <)
    IN  /\ walk.depth = 1 + Len(around) /\ walk.depth < MaxDepth
        /\ client = "forward" => i \in Places \cup {parser.current_loc - 1}
        /\ i \in Places =>
             print(parser, walk) = Elements[Cardinality({j \in Places : j <= i})]
        /\ client # "forward" =>
             /\ i \in Siblings(i) \/ AtEnd(i)
             /\ \A d \in DOMAIN around :
                  walk.depth_index[d + 1] = Entry(around[d] + 1, parser.tape[around[d]].type)

\* The answer is yes with the iterator on the word asked for, or there is none
\* and the iterator stays where it is.
Reaches(outcome, wanted) ==
  outcome.found = (wanted # {}) /\ outcome.it.location \in IF wanted = {} THEN {walk.location}
                                                           ELSE wanted

Known(index) == {index} \ {0}

\* From wherever the client has got to, every operation but prev leads to the word
\* that the tree of the document has in that place, if it has one; and so does prev
\* where the elements before are as long as the first one, or where that is a scope
\* and the only one before.  In [true, null, {"a":1}, [1,2]], of which the comment on
\* prev says that it visits ], }, null and true (simdjson.h:4570-4574), it leads from
\* the } to a word of {"a":1} and not to null, and in [[], 1, 2] it never comes back
\* from 2.
MovesRight ==
  client = "tree" /\ ~AtEnd(walk.location) =>
    LET i      == walk.location
        before == {j \in Siblings(i) : j < i}
        after  == {j \in Siblings(i) : j > i}
        type   == get_type(parser, walk)
    IN  /\ Reaches(up(walk), Known(Parent(i)))
        /\ walk.depth > 1 => Reaches(next(parser, walk), IF after = {} THEN {} ELSE {Min(after)})
        /\ Strides(i) =>
             /\ prev_returns(parser, walk)
             /\ Reaches(prev(parser, walk), IF before = {} THEN {} ELSE {Max(before)})
        /\ Reaches(move_forward(parser, walk),
                   {Min({j \in Places : j > i} \cup {parser.current_loc - 1})})
        /\ ~is_object_or_array(type) => Reaches(down(parser, walk), {})
        /\ is_object_or_array(type) =>
             Reaches(down(parser, walk),
                     IF Children(i) = {} THEN {} ELSE {Min(Children(i))})
        /\ type = "{" => \A key \in Strings :
             Reaches(move_to_key(parser, walk, key), Known(at_key(parser, i, key)))
        /\ type = "[" => \A index \in 0..2 :
             Reaches(move_to_index(parser, walk, index), Known(at(parser, i, index)))
=============================================================================
