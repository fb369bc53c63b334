---------------------------- MODULE JsonDocuments ----------------------------
(***************************************************************************)
(* The grammar of JSON over tokens, and what stage 2 and the readers of its*)
(* tape owe it, for one text after another on the same parser.             *)
(***************************************************************************)
EXTENDS Navigation

(***************************************************************************)
(* Recursive descent: a verdict, the value and the position after it.  The *)
(* verdict is "cut" where the text only lacks its end.                     *)
(***************************************************************************)
Descent(ts) ==
  LET Good(node, to) == [verdict |-> "good", value |-> node, next |-> to]
      Fail(i) == [verdict |-> IF i > Len(ts) THEN "cut" ELSE "bad", value |-> Astray, next |-> i]
      is(i, t) == i <= Len(ts) /\ ts[i] = t
      RECURSIVE value(_), items(_, _), members(_, _)
      value(i) ==
        CASE i > Len(ts)        -> Fail(i)
          [] ts[i] \in Strings -> Good(Node("\"", ts[i], <<>>), i + 1)
          [] ts[i] \in Numbers -> Good(Node(IF ts[i] = "7" THEN "l" ELSE "u", ts[i], <<>>), i + 1)
          [] ts[i] \in Atoms   -> Good(Node(ts[i], "", <<>>), i + 1)
          [] ts[i] = "["       -> IF is(i + 1, "]") THEN Good(Node("[", "", <<>>), i + 2)
                                  ELSE items(i + 1, <<>>)
          [] ts[i] = "{"       -> IF is(i + 1, "}") THEN Good(Node("{", "", <<>>), i + 2)
                                  ELSE members(i + 1, <<>>)
          [] OTHER             -> Fail(i)
      items(i, seen) ==
        LET v   == value(i)
            all == Append(seen, v.value)
        IN  IF v.verdict # "good" THEN v
            ELSE IF is(v.next, ",") THEN items(v.next + 1, all)
            ELSE IF is(v.next, "]") THEN Good(Node("[", "", all), v.next + 1)
            ELSE Fail(v.next)
      members(i, seen) ==
        LET v   == value(i + 2)
            all == seen \o <<Node("\"", ts[i], <<>>), v.value>>
        IN  IF i > Len(ts) \/ ts[i] \notin Strings THEN Fail(i)
            ELSE IF ~is(i + 1, ":") THEN Fail(i + 1)
            ELSE IF v.verdict # "good" THEN v
            ELSE IF is(v.next, ",") THEN members(v.next + 1, all)
            ELSE IF is(v.next, "}") THEN Good(Node("{", "", all), v.next + 1)
            ELSE Fail(v.next)
  IN  value(1)

\* "done" when the text is a value and its end.
Verdict(ts) ==
  LET read == Descent(ts)
  IN  IF read.verdict # "good" THEN read.verdict
      ELSE IF read.next > Len(ts) THEN "cut"
      ELSE IF ts[read.next] = End THEN "done" ELSE "bad"

\* The scopes open at the end of a text, the text's own included.
Nesting(ts) == 1 + Len(SelectSeq(ts, LAMBDA t : t \in {"[", "{"}))
                 - Len(SelectSeq(ts, LAMBDA t : t \in {"]", "}"}))

-----------------------------------------------------------------------------
\* Stage 2 accepts exactly the JSON texts, and gives up at the first token with
\* which no JSON text begins or that opens one scope too many, whatever the
\* texts before have left in the parser.
GrammarKept ==
  label # "first_value" =>
    /\ label = "success" <=> Verdict(tokens) = "done"
    /\ label = "error" <=> Verdict(tokens) = "bad" \/ Nesting(tokens) >= MaxDepth

\* The value read off the tape is the value of the text: with iterators, sizes
\* and look-ups, and printed again.
TapeRight ==
  label = "success" =>
    LET value == Descent(tokens).value
        RECURSIVE right(_, _)
        right(i, node) ==
          LET visited == Visited(parser, i)
              nth(n)  == IF node.type = "[" THEN node.members[n] ELSE node.members[2 * n]
              index(n) == IF node.type = "[" THEN visited[n] ELSE visited[n] + 1
          IN  node.type \in {"[", "{"} =>
                /\ scope_count(parser, i) = Min({Len(visited), CountLimit})
                /\ \A n \in DOMAIN visited : right(index(n), nth(n))
                /\ node.type = "[" => \A n \in DOMAIN visited : at(parser, i, n - 1) = visited[n]
                /\ node.type = "{" =>
                     \A key \in Strings :
                       at_key(parser, i, key) =
                         Min({visited[n] + 1 : n \in {m \in DOMAIN visited :
                                               node.members[2 * m - 1].text = key}} \cup {1000})
                           % 1000
    IN  /\ ValueAt(parser, 1) = value /\ right(1, value) /\ Printed(parser, 1) = Front(tokens)
        /\ dump_raw_tape(parser).stop = parser.current_loc - 1

\* RFC 6901: the values a pointer leads to, none or one.
RECURSIVE Resolved(_, _)
Resolved(node, pointer) ==
  LET token == Head(pointer)
      named == {n \in DOMAIN node.members : n % 2 = 1 /\ node.members[n].text = Unescaped(token)}
      child == IF node.type = "{" THEN IF named = {} THEN {} ELSE {node.members[Min(named) + 1]}
               ELSE {node.members[n] : n \in DOMAIN node.members \cap {IndexOf(token) + 1}}
  IN  IF pointer = <<>> THEN {node}
      ELSE UNION {Resolved(c, Tail(pointer)) : c \in child}

\* Look-ups by pointer, of elements and of iterators wherever they stand, lead to
\* the value that the pointer names, or fail if there is none.  Only an iterator
\* also moves behind the last element of an array.
PointersRight ==
  client = "tree" =>
    \A pointer \in Pointers :
      LET named == Resolved(Descent(tokens).value, pointer)
          moved == move_to(parser, walk, pointer)
          end   == pointer # <<>> /\ Last(pointer) = "-" /\ named = {}
          found == element_at(parser, 1, pointer)
      IN  /\ moved.found /\ ~end => named = {ValueAt(parser, moved.it.location)}
          /\ ~moved.found => named = {} /\ moved.it.location = walk.location
          /\ pointer # <<>> =>
               /\ (found.error = "SUCCESS") = (named # {})
               /\ named # {} => ValueAt(parser, found.json_index) \in named
               /\ moved.found /\ ~end => found.json_index = moved.it.location

-----------------------------------------------------------------------------
vars == <<builderVars, walkVars>>

Init == BuilderInit /\ WalkInit

\* A document lives in its parser: no walk outlasts the next text.
Build == BuilderNext /\ NoWalk /\ UNCHANGED walkVars

Next == Build \/ Walk

Spec == Init /\ [][Next]_vars
=============================================================================
