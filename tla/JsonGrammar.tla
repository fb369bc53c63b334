---------------------------- MODULE JsonGrammar ----------------------------
(***************************************************************************)
(* The grammar of JSON over the tokens of a text, as rules about its parts.*)
(* A part is from one place up to another, which is not in it.  What is    *)
(* derivable is in every pair of sets that the rules close: V of values, S *)
(* of the items of a scope, which are values in an array, and keys with    *)
(* their values in an object.                                              *)
(***************************************************************************)
EXTENDS ParserCallbacks, Sequences

Scalars  == Strings \cup Numbers \cup Atoms
Brackets == {"[", "{"}

KeyAt(ts, i) ==
  i \in DOMAIN ts /\ ts[i] \in Strings /\ i + 1 \in DOMAIN ts /\ ts[i + 1] = ":"

\* Where the value of an item is, and what an object has before it.
ValueOf(type, i)      == IF type = "{" THEN i + 2 ELSE i
Headed(ts, type, i) == type = "{" => KeyAt(ts, i)

Closes(ts, i, j) == j \in DOMAIN ts /\ ts[j] = Closer(ts[i])

Rules(ts, V, S) ==
  /\ \A i \in DOMAIN ts : ts[i] \in Scalars => <<i, i + 1>> \in V
  /\ \A i, j \in DOMAIN ts :
       /\ ts[i] \in Brackets /\ Closes(ts, i, j)
       /\ j = i + 1 \/ <<ts[i], i + 1, j>> \in S
       => <<i, j + 1>> \in V
  /\ \A type \in Brackets, i, k \in Nat :
       Headed(ts, type, i) /\ <<ValueOf(type, i), k>> \in V => <<type, i, k>> \in S
  /\ \A type \in Brackets, i, k \in Nat, j \in DOMAIN ts :
       /\ <<type, i, j>> \in S /\ ts[j] = ","
       /\ Headed(ts, type, j + 1) /\ <<ValueOf(type, j + 1), k>> \in V
       => <<type, i, k>> \in S

IsValue(ts, i, k)       == \A V, S : Rules(ts, V, S) => <<i, k>> \in V
IsItems(ts, type, i, k) == \A V, S : Rules(ts, V, S) => <<type, i, k>> \in S
IsItem(ts, type, i, k)  == Headed(ts, type, i) /\ IsValue(ts, ValueOf(type, i), k)

\* A JSON text is one value and the end.
IsText(ts) == Len(ts) > 0 /\ ts[Len(ts)] = End /\ IsValue(ts, 1, Len(ts))

Texts == Seq(Tokens \cup {End})

\* Of the texts that begin like this one, none is JSON.
Extends(more, ts) == Len(ts) <= Len(more) /\ \A i \in DOMAIN ts : more[i] = ts[i]
Hopeless(ts)      == \A more \in Texts : Extends(more, ts) => ~IsText(more)
=============================================================================
