---------------------------- MODULE PaddedStrings ----------------------------
(***************************************************************************)
(* padded_string of simdjson.h: strings that own their buffers and hand    *)
(* them on.  A buffer is a number; the heap gives the size it has room for *)
(* beside the padding.  Without memory a debug build leaves a string       *)
(* without a buffer; a release one writes to it and ends.                  *)
(***************************************************************************)
EXTENDS Integers, FiniteSets

CONSTANTS PaddedNames,  \* the strings of the program
          MaxPadded     \* the longest string

VARIABLE padded

Nullptr == 0

\* The numbers of buffers: one for each string, and one for the string being loaded.
Buffers == 1..Cardinality(PaddedNames) + 1

PaddedInit == padded = [strings |-> <<>>, heap |-> <<>>, killed |-> FALSE]

PaddedString(viable_size, data_ptr) == [viable_size |-> viable_size, data_ptr |-> data_ptr]

Alive == DOMAIN padded.strings

\* The function f, with x set to v.
Put(f, x, v) == [y \in DOMAIN f \cup {x} |-> IF y = x THEN v ELSE f[y]]

aligned_free(heap, buffer) == [b \in DOMAIN heap \ {buffer} |-> heap[b]]

FreshBuffer(heap) == CHOOSE b \in Buffers : b \notin DOMAIN heap

-----------------------------------------------------------------------------
Construct ==
  \E name \in PaddedNames \ Alive, length \in 0..MaxPadded :
    LET buffer == FreshBuffer(padded.heap)
    IN  \/ padded' = [padded EXCEPT !.strings = Put(@, name, PaddedString(length, buffer)),
                                    !.heap = Put(@, buffer, length)]
        \/ padded' = [padded EXCEPT !.strings = Put(@, name, PaddedString(length, Nullptr))]
        \/ padded' = [padded EXCEPT !.killed = TRUE]

\* Mutated MovedOut: the source keeps its pointer.
MovedOutShared(strings, source) == strings

\* Moved into a new string the source keeps its size, and nothing to go with it.
MovedOut(strings, source) == [strings EXCEPT ![source].data_ptr = Nullptr]

MoveConstruct ==
  \E name \in PaddedNames \ Alive, source \in Alive :
    padded' = [padded EXCEPT !.strings = Put(MovedOut(@, source), name, @[source])]

\* The source may be the string itself, which is then empty.
MoveAssign ==
  \E name \in Alive, source \in Alive :
    padded' = [padded EXCEPT
      !.heap    = aligned_free(@, padded.strings[name].data_ptr),
      !.strings = [[@ EXCEPT ![name] = padded.strings[source]]
                     EXCEPT ![source] = PaddedString(0, Nullptr)]]

swap ==
  \E name \in Alive, other \in Alive :
    padded' = [padded EXCEPT !.strings[name]  = padded.strings[other],
                             !.strings[other] = padded.strings[name]]

Destroy ==
  \E name \in Alive :
    padded' = [padded EXCEPT !.heap = aligned_free(@, padded.strings[name].data_ptr),
                             !.strings = [n \in Alive \ {name} |-> @[n]]]

\* A file is read into a string of its own, which is moved to the caller; when the
\* reading fails the string goes out of scope with its buffer.
load_padded ==
  \E name \in PaddedNames \ Alive, length \in 0..MaxPadded, read \in BOOLEAN :
    LET buffer == FreshBuffer(padded.heap)
        heap   == Put(padded.heap, buffer, length)
    IN  IF read
        THEN padded' = [padded EXCEPT !.strings = Put(@, name, PaddedString(length, buffer)),
                                      !.heap = heap]
        ELSE padded' \in {[padded EXCEPT !.heap = aligned_free(heap, buffer)],
                          [padded EXCEPT !.killed = TRUE]}

PaddedNext ==
  /\ ~padded.killed
  /\ Construct \/ MoveConstruct \/ MoveAssign \/ swap \/ Destroy \/ load_padded

-----------------------------------------------------------------------------
\* Every buffer on the heap belongs to exactly one string, which has its size, and
\* no string points at a buffer that was freed, whatever was moved, swapped and
\* destroyed, be it a string into itself.
PaddedOwned ==
  /\ \A name \in Alive :
       LET s == padded.strings[name]
       IN  s.data_ptr # Nullptr =>
             s.data_ptr \in DOMAIN padded.heap /\ padded.heap[s.data_ptr] = s.viable_size
  /\ \A buffer \in DOMAIN padded.heap :
       \E name \in Alive : {n \in Alive : padded.strings[n].data_ptr = buffer} = {name}
=============================================================================
