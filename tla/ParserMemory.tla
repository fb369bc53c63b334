---------------------------- MODULE ParserMemory ----------------------------
(***************************************************************************)
(* The buffers of a parser of simdjson.h.  A buffer is given by the length *)
(* (or depth) it was allocated for, which BuffersFit and IndexesRight take *)
(* for enough; any allocation may fail.  A release build writes to a padded*)
(* buffer it has not got, which ends the program.                          *)
(***************************************************************************)
EXTENDS Integers

CONSTANTS MaxLength,    \* the longest text
          DefaultDepth  \* DEFAULT_MAX_DEPTH: 1024 in the code

ASSUME MemoryAssumption == MaxLength \in Nat /\ DefaultDepth \in Nat \ {0}

VARIABLE memory

NoBuffer == -1

\* Beside the state of the code, the text that the last call has gone on to parse.
NewMemory ==
  [max_capacity |-> MaxLength, capacity |-> 0, max_depth |-> 0, loaded_bytes_capacity |-> 0,
   tape |-> NoBuffer, string_buf |-> NoBuffer, structural_indexes |-> NoBuffer,
   containing_scope |-> NoBuffer, ret_address |-> NoBuffer, loaded_bytes |-> NoBuffer,
   answer |-> "UNINITIALIZED", parsed |-> 0, from_file |-> FALSE]

MemoryInit == memory = NewMemory

Fails(p, error)  == [p EXCEPT !.answer = error]
Works(p)         == [p EXCEPT !.answer = "SUCCESS"]
Fine(p)          == p.answer = "SUCCESS"

\* new (std::nothrow)
New(p, buffer, size) == {[p EXCEPT ![buffer] = size], [p EXCEPT ![buffer] = NoBuffer]}

-----------------------------------------------------------------------------
document_allocate(p, capacity) ==
  IF capacity = 0 THEN {Works([p EXCEPT !.string_buf = NoBuffer, !.tape = NoBuffer])}
  ELSE {IF NoBuffer \in {q.string_buf, q.tape} THEN Fails(q, "MEMALLOC") ELSE Works(q) :
          q \in UNION {New(r, "tape", capacity) : r \in New(p, "string_buf", capacity)}}

\* Mutated CapacityBuffers: the old capacity stands while the buffers are replaced.
CapacityBuffersStanding(p, capacity) ==
  UNION {IF ~Fine(q) THEN {q}
         ELSE IF capacity = 0 THEN {[q EXCEPT !.structural_indexes = NoBuffer]}
         ELSE {IF r.structural_indexes = NoBuffer THEN Fails(r, "MEMALLOC")
               ELSE [r EXCEPT !.capacity = capacity] :
                 r \in New(q, "structural_indexes", capacity)} :
           q \in document_allocate(p, capacity)}

\* The capacity is zero until its buffers are there.
CapacityBuffers(p, capacity) ==
  UNION {IF ~Fine(q) THEN {q}
         ELSE IF capacity = 0 THEN {[q EXCEPT !.structural_indexes = NoBuffer]}
         ELSE {IF r.structural_indexes = NoBuffer THEN Fails(r, "MEMALLOC")
               ELSE [r EXCEPT !.capacity = capacity] :
                 r \in New(q, "structural_indexes", capacity)} :
           q \in document_allocate([p EXCEPT !.capacity = 0], capacity)}

\* A depth of zero gives the buffers back; a failure leaves the depth at zero.
DepthBuffers(p, max_depth) ==
  IF max_depth = p.max_depth THEN {p}
  ELSE IF max_depth = 0
  THEN {[p EXCEPT !.max_depth = 0, !.ret_address = NoBuffer, !.containing_scope = NoBuffer]}
  ELSE {IF NoBuffer \in {q.containing_scope, q.ret_address} THEN Fails(q, "MEMALLOC")
        ELSE [q EXCEPT !.max_depth = max_depth] :
          q \in UNION {New(r, "ret_address", max_depth) :
                         r \in New([p EXCEPT !.max_depth = 0], "containing_scope", max_depth)}}

allocate(p, capacity, max_depth) ==
  LET changed == p.capacity # capacity
      first   == IF changed THEN CapacityBuffers(p, capacity)
                 ELSE IF p.tape = NoBuffer THEN document_allocate(p, capacity)
                 ELSE {Works(p)}
  IN  UNION {IF ~Fine(q) \/ (changed /\ capacity = 0) THEN {q} ELSE DepthBuffers(q, max_depth) :
               q \in first}

ensure_capacity(p, desired) ==
  IF desired <= p.capacity /\ p.tape # NoBuffer THEN {Works(p)}
  ELSE IF desired > p.max_capacity THEN {Fails(p, "CAPACITY")}
  ELSE allocate(p, desired, IF p.max_depth > 0 THEN p.max_depth ELSE DefaultDepth)

\* allocate_padded_buffer without memory, in a debug build and in a release one.
Unpadded == {"MEMALLOC", "killed"}

\* A text without padding is copied first.
parse(p, len, realloc_if_needed) ==
  UNION {IF ~Fine(q) THEN {q}
         ELSE {[q EXCEPT !.parsed = len]}
                \cup IF realloc_if_needed THEN {Fails(q, error) : error \in Unpadded} ELSE {} :
           q \in ensure_capacity(p, len)}

read_file(p, len) ==
  LET opened == IF p.loaded_bytes_capacity >= len THEN {Works(p)}
                ELSE {Works([p EXCEPT !.loaded_bytes = len, !.loaded_bytes_capacity = len])}
                       \cup {Fails([p EXCEPT !.loaded_bytes = NoBuffer], error) :
                               error \in Unpadded}
  IN  {Fails(p, "IO_ERROR")} \cup opened \cup {Fails(q, "IO_ERROR") : q \in {r \in opened : Fine(r)}}

load(p, len) == UNION {IF Fine(q) THEN parse([q EXCEPT !.from_file = TRUE], len, FALSE) ELSE {q} :
                         q \in read_file(p, len)}

-----------------------------------------------------------------------------
\* Each call of a client forgets what the call before has parsed.
Anew == [memory EXCEPT !.parsed = 0, !.from_file = FALSE]

Allocate ==
  \E capacity \in 0..MaxLength, max_depth \in {0, 1, DefaultDepth} :
    memory' \in allocate(Anew, capacity, max_depth)

Parse ==
  \E len \in 0..MaxLength, unpadded \in BOOLEAN : memory' \in parse(Anew, len, unpadded)

LoadFile == \E len \in 0..MaxLength : memory' \in load(Anew, len)

SetMaxCapacity ==
  \E max_capacity \in 0..MaxLength : memory' = [Anew EXCEPT !.max_capacity = max_capacity]

\* The document is moved out of the parser, with its two buffers.
TakeDocument == memory' = [Anew EXCEPT !.tape = NoBuffer, !.string_buf = NoBuffer]

\* The parser is moved out of: numbers are only copied.
TakeParser ==
  memory' = [Anew EXCEPT
    !.tape = NoBuffer, !.string_buf = NoBuffer, !.structural_indexes = NoBuffer,
    !.containing_scope = NoBuffer, !.ret_address = NoBuffer, !.loaded_bytes = NoBuffer]

MemoryNext ==
  /\ memory.answer # "killed"
  /\ Allocate \/ Parse \/ LoadFile \/ SetMaxCapacity \/ TakeDocument \/ TakeParser

-----------------------------------------------------------------------------
\* After a failed allocation, or when a document or the parser itself was moved out, a
\* text may be parsed although the strings, the indexes, the scopes or the file have no
\* buffer at all: "Buffers are large enough to handle any document up to this length"
\* (simdjson.h:3445) is too much to say.  But a buffer that is there has room, whatever
\* the sizes, failures and moves before, so that nothing is written behind it; and the
\* tape is always there (simdjson.h:5076-5175).
NeverOverrun ==
  LET room(buffer, size) == memory[buffer] = NoBuffer \/ memory[buffer] >= size
  IN  memory.parsed > 0 =>
        /\ memory.tape >= memory.parsed
        /\ room("string_buf", memory.parsed) /\ room("structural_indexes", memory.parsed)
        /\ room("containing_scope", memory.max_depth) /\ room("ret_address", memory.max_depth)
        /\ memory.from_file => room("loaded_bytes", memory.parsed)
=============================================================================
