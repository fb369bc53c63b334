----------------------------- MODULE TapeBuilder -----------------------------
(***************************************************************************)
(* Stage 2 of simdjson.cpp: the machine that walks the tokens of a text and*)
(* writes the tape.  Its states are the labels of the code, one action     *)
(* each; the text is chosen token by token as it is read.  A parser is     *)
(* used for one text after another.                                        *)
(***************************************************************************)
EXTENDS ParserCallbacks, SequencesExt

CONSTANT MaxTokens  \* the tokens of all texts together

VARIABLES room,         \* the tokens that texts may still have
          tokens,       \* the text as far as it has been read
          label,        \* where the machine is
          depth,
          ret_address,  \* where to go on when the scope of a depth ends
          parser

builderVars == <<room, tokens, label, depth, ret_address, parser>>

Advance(t) ==
  /\ t \in IF Len(tokens) < room THEN Tokens \cup {End} ELSE {End}
  /\ tokens' = Append(tokens, t)

Goto(to, p) ==
  /\ label' = to /\ parser' = p
  /\ UNCHANGED <<depth, ret_address>>

-----------------------------------------------------------------------------
\* start_document, start_object and start_array.
StartScope(p, type, d, continue_state, begin) ==
  /\ parser' = on_start_scope(p, d, type)
  /\ ret_address' = [ret_address EXCEPT ![d] = continue_state]
  /\ depth' = d + 1
  /\ label' = IF depth' >= MaxDepth THEN "error" ELSE begin

\* end_object and end_array, and on to the scope around.
EndScope(type) ==
  /\ depth' = depth - 1
  /\ parser' = on_end_scope(parser, depth', type)
  /\ label' = ret_address[depth']
  /\ UNCHANGED ret_address

ParseValue(p, t, continue_state) ==
  \/ t = "{" /\ StartScope(p, "{", depth, continue_state, "object_begin")
  \/ t = "[" /\ StartScope(p, "[", depth, continue_state, "array_begin")
  \/ t \in Strings /\ Goto(continue_state, parse_string(p, t))
  \/ t \in Numbers /\ Goto(continue_state, on_number(p, t))
  \/ t \in Atoms /\ Goto(continue_state, on_atom(p, t))
  \/ t = RefusedString /\ Goto("error", on_start_string(p, t))
  \/ t \in {"}", "]", ",", ":", Refused, End} /\ Goto("error", p)

ParseKey(p, t) ==
  \/ t \in Strings /\ Goto("object_key_state", parse_string(p, t))
  \/ t = RefusedString /\ Goto("error", on_start_string(p, t))

Counted == increment_count(parser, depth - 1)

-----------------------------------------------------------------------------
Start ==
  /\ label = "start"
  /\ \E t \in Tokens : Advance(t)
  /\ StartScope(init_stage2(parser), "r", 0, "finish", "first_value")
  /\ UNCHANGED room

\* A number or an atom that is the whole text is read from a copy that ends with
\* a space, which makes it no different from one within a scope.
FirstValue ==
  /\ label = "first_value"
  /\ ParseValue(parser, Last(tokens), "finish")
  /\ UNCHANGED <<tokens, room>>

ObjectBegin ==
  /\ label = "object_begin"
  /\ \E t \in Tokens \cup {End} :
       /\ Advance(t)
       /\ \/ ParseKey(Counted, t)
          \/ t = "}" /\ EndScope("}")
          \/ t \notin Strings \cup {RefusedString, "}"} /\ Goto("error", parser)
  /\ UNCHANGED room

ObjectKeyState ==
  /\ label = "object_key_state"
  /\ \E t \in Tokens \cup {End} :
       Advance(t) /\ Goto(IF t = ":" THEN "object_value" ELSE "error", parser)
  /\ UNCHANGED room

ObjectValue ==
  /\ label = "object_value"
  /\ \E t \in Tokens \cup {End} : Advance(t) /\ ParseValue(parser, t, "object_continue")
  /\ UNCHANGED room

\* Mutated ObjectContinue: a comma may be followed by the end of the object.
ObjectContinueTrailing ==
  /\ label = "object_continue"
  /\ \E t \in Tokens \cup {End} :
       /\ Advance(t)
       /\ \/ t = "," /\ Goto("object_begin", parser)
          \/ t = "}" /\ EndScope("}")
          \/ t \notin {",", "}"} /\ Goto("error", parser)
  /\ UNCHANGED room

ObjectContinue ==
  /\ label = "object_continue"
  /\ \E t \in Tokens \cup {End} :
       /\ Advance(t)
       /\ \/ t = "," /\ Goto("object_next_key", Counted)
          \/ t = "}" /\ EndScope("}")
          \/ t \notin {",", "}"} /\ Goto("error", parser)
  /\ UNCHANGED room

ObjectNextKey ==
  /\ label = "object_next_key"
  /\ \E t \in Tokens \cup {End} :
       /\ Advance(t)
       /\ \/ ParseKey(parser, t)
          \/ t \notin Strings \cup {RefusedString} /\ Goto("error", parser)
  /\ UNCHANGED room

ArrayBegin ==
  /\ label = "array_begin"
  /\ \E t \in Tokens \cup {End} :
       /\ Advance(t)
       /\ \/ t = "]" /\ EndScope("]")
          \/ t # "]" /\ ParseValue(Counted, t, "array_continue")
  /\ UNCHANGED room

ArrayContinue ==
  /\ label = "array_continue"
  /\ \E t \in Tokens \cup {End} :
       /\ Advance(t)
       /\ \/ t = "," /\ Goto("main_array_switch", Counted)
          \/ t = "]" /\ EndScope("]")
          \/ t \notin {",", "]"} /\ Goto("error", parser)
  /\ UNCHANGED room

MainArraySwitch ==
  /\ label = "main_array_switch"
  /\ \E t \in Tokens \cup {End} : Advance(t) /\ ParseValue(parser, t, "array_continue")
  /\ UNCHANGED room

\* The text has to end where its value does.
Finish ==
  /\ label = "finish"
  /\ \E t \in Tokens \cup {End} :
       /\ Advance(t)
       /\ IF t # End THEN Goto("error", parser)
          ELSE /\ depth' = depth - 1
               /\ parser' = on_end_scope(parser, depth', "r")
               /\ label' = IF depth' # 0 \/ parser'.containing_scope[depth'].tape_index # 0
                           THEN "error" ELSE "success"
               /\ UNCHANGED ret_address
  /\ UNCHANGED room

Stopped == label \in {"success", "error"}

\* The next text for the same parser.
ParseAgain ==
  /\ Stopped /\ Len(tokens) < room
  /\ room' = room - Len(tokens) /\ tokens' = <<>>
  /\ label' = "start" /\ depth' = 0
  /\ UNCHANGED <<ret_address, parser>>

-----------------------------------------------------------------------------
BuilderInit ==
  /\ room = MaxTokens /\ tokens = <<>> /\ label = "start" /\ depth = 0
  /\ ret_address = [d \in 0..MaxDepth - 1 |-> "error"]
  /\ parser = NewParser

BuilderNext ==
  \/ Start \/ FirstValue
  \/ ObjectBegin \/ ObjectKeyState \/ ObjectValue \/ ObjectContinue \/ ObjectNextKey
  \/ ArrayBegin \/ ArrayContinue \/ MainArraySwitch
  \/ Finish \/ ParseAgain

-----------------------------------------------------------------------------
\* The bytes of a text that has no white space.
Bytes(ts) == {at \in (DOMAIN ts) \X (1..4) : at[2] <= Width(ts[at[1]])}

\* No buffer allocated for the length of the text is written past its end, even
\* if the text has no white space at all.
BuffersFit ==
  LET len == Cardinality(Bytes(tokens))
  IN  len > 0 => /\ parser.current_loc <= TapeCapacity(len)
                 /\ parser.string_high <= StringCapacity(len)
                 /\ depth <= MaxDepth

\* On the tape of an accepted text the words that begin and end scopes lead to each
\* other: the first word past the last, each other one that begins a scope past the
\* word of its kind that ends it, which leads back.  Scopes lie within each other or
\* apart.  This is what every iterator that jumps over a scope goes by.
TapeLinked ==
  label = "success" =>
    LET tape   == parser.tape
        last   == parser.current_loc - 1
        Inner  == 1..last - 1
        Begins == {i \in Inner : tape[i].type \in {"{", "["}}
    IN  /\ last > 0 /\ tape[last] = Word("r", 0)
        /\ tape[0].type = "r" /\ tape[0].val = last + 1
        /\ \A i \in Begins :
             /\ tape[i].val \in i + 2..last
             /\ tape[tape[i].val - 1] = Word(Closer(tape[i].type), i)
        /\ \A j \in Inner :
             tape[j].type \in {"}", "]"} => tape[j].val \in Begins /\ tape[tape[j].val].val = j + 1
        /\ \A i, k \in Begins : i < k /\ k < tape[i].val => tape[k].val < tape[i].val
=============================================================================
