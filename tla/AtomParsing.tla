---------------------------- MODULE AtomParsing ----------------------------
(***************************************************************************)
(* How stage 2 of simdjson.cpp checks true, false and null: four bytes are *)
(* compared at once, and the byte after them unless the text ends there.   *)
(***************************************************************************)
EXTENDS StructuralScanner

True  == <<116, 114, 117, 101>>
False == <<102, 97, 108, 115, 101>>
Null  == <<110, 117, 108, 108>>

\* The first byte has been looked at before, that of false is not compared again.
Spelled(text, src, atom) ==
  \A n \in (IF atom = False THEN 2 ELSE 1)..Len(atom) : At(text, src + n - 1) = atom[n]

\* Mutated is_valid_atom: what follows is not looked at.
is_valid_atom_open(text, src, atom) == Spelled(text, src, atom)

is_valid_atom(text, src, atom) ==
  Spelled(text, src, atom) /\ is_structural_or_whitespace(At(text, src + Len(atom)))

\* An atom that is the whole text, of which len bytes are left.
is_valid_root_atom(text, src, len, atom) ==
  \/ len > Len(atom) /\ is_valid_atom(text, src, atom)
  \/ len = Len(atom) /\ Spelled(text, src, atom)

\* The atom that a first byte announces.
AtomOf(byte) == CASE byte = 116 -> True [] byte = 102 -> False [] byte = 110 -> Null
=============================================================================
