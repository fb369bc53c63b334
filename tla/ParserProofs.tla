---------------------------- MODULE ParserProofs ----------------------------
(***************************************************************************)
(* Proofs about what simdjson keeps between calls: a buffer of a parser    *)
(* that is there has room for the text it parses, for texts of any length  *)
(* and scopes of any depth; the kernel that the detector chooses is the    *)
(* best one that the host can run, for any threads; and every padded string*)
(* owns its buffer, for any set of strings.                                *)
(***************************************************************************)
EXTENDS ParserMemory, KernelChoice, PaddedStrings, FiniteSetTheorems, WellFoundedInduction, TLAPS

-----------------------------------------------------------------------------
(***************************************************************************)
(* The buffers of a parser.                                                *)
(***************************************************************************)

Buffer == Nat \cup {NoBuffer}

Answers == {"UNINITIALIZED", "SUCCESS", "MEMALLOC", "CAPACITY", "IO_ERROR", "killed"}

MemoryType(p) ==
  p \in [max_capacity : Nat, capacity : Nat, max_depth : Nat, loaded_bytes_capacity : Nat,
         tape : Buffer, string_buf : Buffer, structural_indexes : Buffer,
         containing_scope : Buffer, ret_address : Buffer, loaded_bytes : Buffer,
         answer : Answers, parsed : Nat, from_file : BOOLEAN]

\* A buffer that is there has the size.
Sized(buffer, size) == buffer = NoBuffer \/ buffer >= size

(***************************************************************************)
(* What each capacity says of its buffers.  It is weaker than what a       *)
(* reader of the code expects, that the buffers of a capacity are there:   *)
(* a failed allocation and a move leave the number behind.                 *)
(***************************************************************************)
TextSound(p) ==
  Sized(p.tape, p.capacity) /\ Sized(p.string_buf, p.capacity)
    /\ Sized(p.structural_indexes, p.capacity)

DepthSound(p) == Sized(p.containing_scope, p.max_depth) /\ Sized(p.ret_address, p.max_depth)

FileSound(p) == Sized(p.loaded_bytes, p.loaded_bytes_capacity)

Sound(p) == MemoryType(p) /\ TextSound(p) /\ DepthSound(p) /\ FileSound(p)

\* What is there for the text, for its scopes, and the rest.
SameText(p, q) ==
  /\ q.capacity = p.capacity
  /\ q.tape = p.tape /\ q.string_buf = p.string_buf
  /\ q.structural_indexes = p.structural_indexes

SameDepth(p, q) ==
  /\ q.max_depth = p.max_depth
  /\ q.containing_scope = p.containing_scope /\ q.ret_address = p.ret_address

SameFile(p, q) ==
  q.loaded_bytes = p.loaded_bytes /\ q.loaded_bytes_capacity = p.loaded_bytes_capacity

SameCall(p, q) == q.parsed = p.parsed /\ q.from_file = p.from_file

\* A parser that may go on to parse a text of this length.
Ready(p, len) == p.capacity >= len /\ p.tape # NoBuffer

-----------------------------------------------------------------------------
\* Setting the answer leaves everything else.
LEMMA Answered ==
  ASSUME NEW p, MemoryType(p), NEW error \in Answers
  PROVE  LET q == Fails(p, error)
         IN  /\ MemoryType(q) /\ q.answer = error
             /\ SameText(p, q) /\ SameDepth(p, q) /\ SameFile(p, q) /\ SameCall(p, q)
             /\ q.max_capacity = p.max_capacity
BY DEF Fails, MemoryType, SameText, SameDepth, SameFile, SameCall

LEMMA FailsSound ==
  ASSUME NEW p, Sound(p), NEW error \in Answers
  PROVE  LET q == Fails(p, error)
         IN  /\ Sound(q) /\ q.answer = error
             /\ SameText(p, q) /\ SameDepth(p, q) /\ SameFile(p, q) /\ SameCall(p, q)
<1> DEFINE q == Fails(p, error)
<1>1. /\ MemoryType(q) /\ q.answer = error
      /\ SameText(p, q) /\ SameDepth(p, q) /\ SameFile(p, q) /\ SameCall(p, q)
  BY Answered DEF Sound
<1> HIDE DEF q
<1>2. Sound(q)
  BY <1>1 DEF Sound, TextSound, DepthSound, FileSound, SameText, SameDepth, SameFile
<1> QED
  BY <1>1, <1>2 DEF q

\* An allocation changes the one buffer.
LEMMA Allocation ==
  ASSUME NEW p, MemoryType(p), NEW size \in Nat
  PROVE  /\ \A q \in New(p, "tape", size) :
              /\ MemoryType(q) /\ q.tape \in {size, NoBuffer} /\ q.string_buf = p.string_buf
              /\ q.structural_indexes = p.structural_indexes /\ q.capacity = p.capacity
              /\ SameDepth(p, q) /\ SameFile(p, q) /\ SameCall(p, q) /\ q.answer = p.answer
         /\ \A q \in New(p, "string_buf", size) :
              /\ MemoryType(q) /\ q.string_buf \in {size, NoBuffer} /\ q.tape = p.tape
              /\ q.structural_indexes = p.structural_indexes /\ q.capacity = p.capacity
              /\ SameDepth(p, q) /\ SameFile(p, q) /\ SameCall(p, q) /\ q.answer = p.answer
         /\ \A q \in New(p, "structural_indexes", size) :
              /\ MemoryType(q) /\ q.structural_indexes \in {size, NoBuffer}
              /\ q.tape = p.tape /\ q.string_buf = p.string_buf /\ q.capacity = p.capacity
              /\ SameDepth(p, q) /\ SameFile(p, q) /\ SameCall(p, q) /\ q.answer = p.answer
         /\ \A q \in New(p, "containing_scope", size) :
              /\ MemoryType(q) /\ q.containing_scope \in {size, NoBuffer}
              /\ q.ret_address = p.ret_address /\ q.max_depth = p.max_depth
              /\ SameText(p, q) /\ SameFile(p, q) /\ SameCall(p, q) /\ q.answer = p.answer
         /\ \A q \in New(p, "ret_address", size) :
              /\ MemoryType(q) /\ q.ret_address \in {size, NoBuffer}
              /\ q.containing_scope = p.containing_scope /\ q.max_depth = p.max_depth
              /\ SameText(p, q) /\ SameFile(p, q) /\ SameCall(p, q) /\ q.answer = p.answer
<1>1. size \in Buffer /\ NoBuffer \in Buffer
  BY DEF Buffer
<1>2. ASSUME NEW q \in New(p, "tape", size)
      PROVE  /\ MemoryType(q) /\ q.tape \in {size, NoBuffer} /\ q.string_buf = p.string_buf
             /\ q.structural_indexes = p.structural_indexes /\ q.capacity = p.capacity
             /\ SameDepth(p, q) /\ SameFile(p, q) /\ SameCall(p, q) /\ q.answer = p.answer
  <2>1. PICK b \in {size, NoBuffer} : q = [p EXCEPT !.tape = b]
    BY DEF New
  <2> QED
    BY <1>1, <2>1 DEF MemoryType, SameDepth, SameFile, SameCall
<1>3. ASSUME NEW q \in New(p, "string_buf", size)
      PROVE  /\ MemoryType(q) /\ q.string_buf \in {size, NoBuffer} /\ q.tape = p.tape
             /\ q.structural_indexes = p.structural_indexes /\ q.capacity = p.capacity
             /\ SameDepth(p, q) /\ SameFile(p, q) /\ SameCall(p, q) /\ q.answer = p.answer
  <2>1. PICK b \in {size, NoBuffer} : q = [p EXCEPT !.string_buf = b]
    BY DEF New
  <2> QED
    BY <1>1, <2>1 DEF MemoryType, SameDepth, SameFile, SameCall
<1>4. ASSUME NEW q \in New(p, "structural_indexes", size)
      PROVE  /\ MemoryType(q) /\ q.structural_indexes \in {size, NoBuffer}
             /\ q.tape = p.tape /\ q.string_buf = p.string_buf /\ q.capacity = p.capacity
             /\ SameDepth(p, q) /\ SameFile(p, q) /\ SameCall(p, q) /\ q.answer = p.answer
  <2>1. PICK b \in {size, NoBuffer} : q = [p EXCEPT !.structural_indexes = b]
    BY DEF New
  <2> QED
    BY <1>1, <2>1 DEF MemoryType, SameDepth, SameFile, SameCall
<1>5. ASSUME NEW q \in New(p, "containing_scope", size)
      PROVE  /\ MemoryType(q) /\ q.containing_scope \in {size, NoBuffer}
             /\ q.ret_address = p.ret_address /\ q.max_depth = p.max_depth
             /\ SameText(p, q) /\ SameFile(p, q) /\ SameCall(p, q) /\ q.answer = p.answer
  <2>1. PICK b \in {size, NoBuffer} : q = [p EXCEPT !.containing_scope = b]
    BY DEF New
  <2> QED
    BY <1>1, <2>1 DEF MemoryType, SameText, SameFile, SameCall
<1>6. ASSUME NEW q \in New(p, "ret_address", size)
      PROVE  /\ MemoryType(q) /\ q.ret_address \in {size, NoBuffer}
             /\ q.containing_scope = p.containing_scope /\ q.max_depth = p.max_depth
             /\ SameText(p, q) /\ SameFile(p, q) /\ SameCall(p, q) /\ q.answer = p.answer
  <2>1. PICK b \in {size, NoBuffer} : q = [p EXCEPT !.ret_address = b]
    BY DEF New
  <2> QED
    BY <1>1, <2>1 DEF MemoryType, SameText, SameFile, SameCall
<1> QED
  BY <1>2, <1>3, <1>4, <1>5, <1>6

\* The two buffers of a document have the capacity, or are missing and the answer says so.
LEMMA DocumentAllocated ==
  ASSUME NEW p, MemoryType(p), NEW capacity \in Nat, NEW q \in document_allocate(p, capacity)
  PROVE  /\ MemoryType(q) /\ q.capacity = p.capacity
         /\ q.structural_indexes = p.structural_indexes
         /\ SameDepth(p, q) /\ SameFile(p, q) /\ SameCall(p, q)
         /\ {q.tape, q.string_buf} \subseteq {capacity, NoBuffer}
         /\ Fine(q) /\ capacity > 0 => q.tape = capacity
<1>1. CASE capacity = 0
  <2> DEFINE z == [p EXCEPT !.string_buf = NoBuffer, !.tape = NoBuffer]
  <2>1. /\ MemoryType(z) /\ z.capacity = p.capacity /\ z.tape = NoBuffer /\ z.string_buf = NoBuffer
        /\ z.structural_indexes = p.structural_indexes
        /\ SameDepth(p, z) /\ SameFile(p, z) /\ SameCall(p, z)
    BY DEF MemoryType, Buffer, SameDepth, SameFile, SameCall
  <2>2. q = Fails(z, "SUCCESS")
    BY <1>1 DEF document_allocate, Works, Fails
  <2> HIDE DEF z
  <2>3. /\ MemoryType(q) /\ SameText(z, q) /\ SameDepth(z, q) /\ SameFile(z, q) /\ SameCall(z, q)
    BY <2>1, <2>2, Answered DEF Answers
  <2> QED
    BY <1>1, <2>1, <2>3 DEF SameText, SameDepth, SameFile, SameCall
<1>2. CASE capacity # 0
  <2>a. PICK r \in New(p, "string_buf", capacity) : \E s \in New(r, "tape", capacity) :
          q = Fails(s, IF NoBuffer \in {s.string_buf, s.tape} THEN "MEMALLOC" ELSE "SUCCESS")
    BY <1>2 DEF document_allocate, Works, Fails
  <2>1. PICK s \in New(r, "tape", capacity) :
          q = Fails(s, IF NoBuffer \in {s.string_buf, s.tape} THEN "MEMALLOC" ELSE "SUCCESS")
    BY <2>a
  <2>2. /\ MemoryType(r) /\ r.string_buf \in {capacity, NoBuffer} /\ r.capacity = p.capacity
        /\ r.structural_indexes = p.structural_indexes
        /\ SameDepth(p, r) /\ SameFile(p, r) /\ SameCall(p, r)
    BY Allocation
  <2>3. /\ MemoryType(s) /\ s.tape \in {capacity, NoBuffer} /\ s.string_buf = r.string_buf
        /\ s.structural_indexes = r.structural_indexes /\ s.capacity = r.capacity
        /\ SameDepth(r, s) /\ SameFile(r, s) /\ SameCall(r, s)
    BY <2>2, Allocation
  <2>4. /\ MemoryType(q) /\ SameText(s, q) /\ SameDepth(s, q) /\ SameFile(s, q) /\ SameCall(s, q)
        /\ q.answer = IF NoBuffer \in {s.string_buf, s.tape} THEN "MEMALLOC" ELSE "SUCCESS"
    BY <2>1, <2>3, Answered DEF Answers
  <2> QED
    BY <2>2, <2>3, <2>4 DEF SameText, SameDepth, SameFile, SameCall, Fine
<1> QED
  BY <1>1, <1>2

\* Whatever fails on the way, a buffer that is there has the capacity that stands.
LEMMA CapacityChanged ==
  ASSUME NEW p, Sound(p), NEW capacity \in Nat, NEW q \in CapacityBuffers(p, capacity)
  PROVE  /\ Sound(q) /\ SameFile(p, q) /\ SameCall(p, q)
         /\ Fine(q) /\ capacity > 0 => Ready(q, capacity)
<1> DEFINE z == [p EXCEPT !.capacity = 0]
<1>1. /\ MemoryType(z) /\ z.capacity = 0 /\ z.structural_indexes = p.structural_indexes
      /\ SameDepth(p, z) /\ SameFile(p, z) /\ SameCall(p, z)
  BY DEF Sound, MemoryType, SameDepth, SameFile, SameCall
<1>2. PICK d \in document_allocate(z, capacity) :
        q \in IF ~Fine(d) THEN {d}
              ELSE IF capacity = 0 THEN {[d EXCEPT !.structural_indexes = NoBuffer]}
              ELSE {IF r.structural_indexes = NoBuffer THEN Fails(r, "MEMALLOC")
                    ELSE [r EXCEPT !.capacity = capacity] :
                      r \in New(d, "structural_indexes", capacity)}
  BY DEF CapacityBuffers
<1> HIDE DEF z
<1>3. /\ MemoryType(d) /\ d.capacity = 0 /\ d.structural_indexes = p.structural_indexes
      /\ SameDepth(z, d) /\ SameFile(z, d) /\ SameCall(z, d)
      /\ {d.tape, d.string_buf} \subseteq {capacity, NoBuffer}
      /\ Fine(d) /\ capacity > 0 => d.tape = capacity
  BY <1>1, <1>2, DocumentAllocated
<1>4. SameDepth(p, d) /\ SameFile(p, d) /\ SameCall(p, d)
  BY <1>1, <1>3 DEF SameDepth, SameFile, SameCall
<1>5. CASE ~Fine(d)
  <2>1. q = d
    BY <1>2, <1>5
  <2> QED
    BY <1>3, <1>4, <1>5, <2>1
       DEF Sound, TextSound, DepthSound, FileSound, Sized, SameDepth, SameFile, MemoryType, Buffer,
           NoBuffer
<1>6. CASE Fine(d) /\ capacity = 0
  <2>1. q = [d EXCEPT !.structural_indexes = NoBuffer]
    BY <1>2, <1>6
  <2>2. /\ MemoryType(q) /\ q.capacity = 0 /\ q.structural_indexes = NoBuffer
        /\ q.tape = d.tape /\ q.string_buf = d.string_buf
        /\ SameDepth(d, q) /\ SameFile(d, q) /\ SameCall(d, q)
    BY <1>3, <2>1 DEF MemoryType, Buffer, SameDepth, SameFile, SameCall
  <2> QED
    BY <1>3, <1>4, <1>6, <2>2
       DEF Sound, TextSound, DepthSound, FileSound, Sized, SameDepth, SameFile, SameCall, MemoryType,
           Buffer, NoBuffer
<1>7. CASE Fine(d) /\ capacity # 0
  <2>1. PICK r \in New(d, "structural_indexes", capacity) :
          q = IF r.structural_indexes = NoBuffer THEN Fails(r, "MEMALLOC")
              ELSE [r EXCEPT !.capacity = capacity]
    BY <1>2, <1>7, Zenon
  <2>2. /\ MemoryType(r) /\ r.structural_indexes \in {capacity, NoBuffer}
        /\ r.tape = d.tape /\ r.string_buf = d.string_buf /\ r.capacity = 0
        /\ SameDepth(d, r) /\ SameFile(d, r) /\ SameCall(d, r) /\ Fine(r)
    BY <1>3, <1>7, Allocation DEF Fine
  <2>3. CASE r.structural_indexes = NoBuffer
    <3>1. /\ MemoryType(q) /\ SameText(r, q) /\ SameDepth(r, q) /\ SameFile(r, q)
          /\ SameCall(r, q) /\ q.answer = "MEMALLOC"
      BY <2>1, <2>2, <2>3, Answered DEF Answers
    <3> QED
      BY <1>3, <1>4, <2>2, <2>3, <3>1
         DEF Sound, TextSound, DepthSound, FileSound, Sized, SameText, SameDepth, SameFile, SameCall,
             Fine, MemoryType, Buffer, NoBuffer
  <2>4. CASE r.structural_indexes # NoBuffer
    <3>1. q = [r EXCEPT !.capacity = capacity]
      BY <2>1, <2>4
    <3>2. /\ MemoryType(q) /\ q.capacity = capacity
          /\ q.structural_indexes = r.structural_indexes
          /\ q.tape = r.tape /\ q.string_buf = r.string_buf
          /\ SameDepth(r, q) /\ SameFile(r, q) /\ SameCall(r, q)
      BY <2>2, <3>1 DEF MemoryType, SameDepth, SameFile, SameCall
    <3>3. TextSound(q) /\ (capacity > 0 => Ready(q, capacity))
      BY <1>3, <1>7, <2>2, <2>4, <3>2 DEF TextSound, Sized, Ready, NoBuffer
    <3> QED
      BY <1>4, <2>2, <3>2, <3>3
         DEF Sound, DepthSound, FileSound, SameDepth, SameFile, SameCall
  <2> QED
    BY <2>3, <2>4
<1> QED
  BY <1>5, <1>6, <1>7

\* A scope that is there has the depth that stands.
LEMMA DepthChanged ==
  ASSUME NEW p, Sound(p), NEW max_depth \in Nat, NEW q \in DepthBuffers(p, max_depth)
  PROVE  Sound(q) /\ SameText(p, q) /\ SameFile(p, q) /\ SameCall(p, q)
<1>1. MemoryType(p)
  BY DEF Sound
<1>2. CASE max_depth = p.max_depth
  BY <1>2 DEF DepthBuffers, SameText, SameFile, SameCall
<1>3. CASE max_depth # p.max_depth /\ max_depth = 0
  <2>1. q = [p EXCEPT !.max_depth = 0, !.ret_address = NoBuffer, !.containing_scope = NoBuffer]
    BY <1>3 DEF DepthBuffers
  <2>2. /\ MemoryType(q) /\ q.ret_address = NoBuffer /\ q.containing_scope = NoBuffer
        /\ SameText(p, q) /\ SameFile(p, q) /\ SameCall(p, q)
    BY <1>1, <2>1 DEF MemoryType, Buffer, SameText, SameFile, SameCall
  <2> QED
    BY <2>2 DEF Sound, TextSound, DepthSound, FileSound, Sized, SameText, SameFile
<1>4. CASE max_depth # p.max_depth /\ max_depth # 0
  <2> DEFINE z == [p EXCEPT !.max_depth = 0]
  <2>a. PICK r \in New(z, "containing_scope", max_depth) :
          \E s \in New(r, "ret_address", max_depth) :
            q = IF NoBuffer \in {s.containing_scope, s.ret_address} THEN Fails(s, "MEMALLOC")
                ELSE [s EXCEPT !.max_depth = max_depth]
    BY <1>4 DEF DepthBuffers
  <2>1. PICK s \in New(r, "ret_address", max_depth) :
          q = IF NoBuffer \in {s.containing_scope, s.ret_address} THEN Fails(s, "MEMALLOC")
              ELSE [s EXCEPT !.max_depth = max_depth]
    BY <2>a
  <2>2. /\ MemoryType(z) /\ z.max_depth = 0
        /\ SameText(p, z) /\ SameFile(p, z) /\ SameCall(p, z)
    BY <1>1 DEF MemoryType, SameText, SameFile, SameCall
  <2> HIDE DEF z
  <2>3. /\ MemoryType(r) /\ r.containing_scope \in {max_depth, NoBuffer} /\ r.max_depth = 0
        /\ SameText(z, r) /\ SameFile(z, r) /\ SameCall(z, r)
    BY <2>2, Allocation
  <2>4. /\ MemoryType(s) /\ s.ret_address \in {max_depth, NoBuffer} /\ s.max_depth = 0
        /\ s.containing_scope = r.containing_scope
        /\ SameText(r, s) /\ SameFile(r, s) /\ SameCall(r, s)
    BY <2>3, Allocation
  <2>5. SameText(p, s) /\ SameFile(p, s) /\ SameCall(p, s)
    BY <2>2, <2>3, <2>4 DEF SameText, SameFile, SameCall
  <2>6. CASE q = Fails(s, "MEMALLOC")
    <3>1. Sound(s)
      BY <2>3, <2>4, <2>5
         DEF Sound, TextSound, DepthSound, FileSound, Sized, SameText, SameFile
    <3>2. Sound(q) /\ SameText(s, q) /\ SameFile(s, q) /\ SameCall(s, q)
      BY <2>6, <3>1, FailsSound DEF Answers
    <3> QED
      BY <2>5, <3>2 DEF SameText, SameFile, SameCall
  <2>7. CASE q = [s EXCEPT !.max_depth = max_depth]
    <3>1. /\ MemoryType(q) /\ q.max_depth = max_depth
          /\ q.containing_scope = s.containing_scope /\ q.ret_address = s.ret_address
          /\ SameText(s, q) /\ SameFile(s, q) /\ SameCall(s, q)
      BY <2>4, <2>7 DEF MemoryType, SameText, SameFile, SameCall
    <3> QED
      BY <2>3, <2>4, <2>5, <3>1
         DEF Sound, TextSound, DepthSound, FileSound, Sized, SameText, SameFile, SameCall
  <2> QED
    BY <2>1, <2>6, <2>7
<1> QED
  BY <1>2, <1>3, <1>4

\* After allocate the parser is sound, whatever has failed, and when nothing has it can
\* go on with a text of that length.
LEMMA Allocated ==
  ASSUME NEW p, Sound(p), NEW capacity \in Nat, NEW max_depth \in Nat,
         NEW q \in allocate(p, capacity, max_depth)
  PROVE  /\ Sound(q) /\ SameFile(p, q) /\ SameCall(p, q)
         /\ Fine(q) /\ capacity > 0 => Ready(q, capacity)
<1> DEFINE changed == p.capacity # capacity
           first == IF changed THEN CapacityBuffers(p, capacity)
                    ELSE IF p.tape = NoBuffer THEN document_allocate(p, capacity)
                    ELSE {Works(p)}
<1>1. PICK r \in first :
        q \in IF ~Fine(r) \/ (changed /\ capacity = 0) THEN {r} ELSE DepthBuffers(r, max_depth)
  BY DEF allocate
<1>2. /\ Sound(r) /\ SameFile(p, r) /\ SameCall(p, r)
      /\ Fine(r) /\ capacity > 0 => Ready(r, capacity)
  <2>1. CASE changed
    BY <1>1, <2>1, CapacityChanged
  <2>2. CASE ~changed /\ p.tape = NoBuffer
    <3>1. /\ MemoryType(r) /\ r.capacity = p.capacity
          /\ r.structural_indexes = p.structural_indexes
          /\ SameDepth(p, r) /\ SameFile(p, r) /\ SameCall(p, r)
          /\ {r.tape, r.string_buf} \subseteq {capacity, NoBuffer}
          /\ Fine(r) /\ capacity > 0 => r.tape = capacity
      BY <1>1, <2>2, DocumentAllocated DEF Sound
    <3>2. TextSound(r) /\ (Fine(r) /\ capacity > 0 => Ready(r, capacity))
      BY <2>2, <3>1 DEF Sound, TextSound, Sized, Ready, NoBuffer
    <3> QED
      BY <3>1, <3>2 DEF Sound, DepthSound, FileSound, SameDepth, SameFile
  <2>3. CASE ~changed /\ p.tape # NoBuffer
    <3>1. r = Fails(p, "SUCCESS")
      BY <1>1, <2>3 DEF Works, Fails
    <3>2. Sound(r) /\ SameText(p, r) /\ SameFile(p, r) /\ SameCall(p, r)
      BY <3>1, FailsSound DEF Answers
    <3> QED
      BY <2>3, <3>2 DEF SameText, Ready
  <2> QED
    BY <2>1, <2>2, <2>3
<1>3. CASE q = r
  BY <1>2, <1>3
<1>4. CASE q \in DepthBuffers(r, max_depth) /\ Fine(r)
  <2>1. Sound(q) /\ SameText(r, q) /\ SameFile(r, q) /\ SameCall(r, q)
    BY <1>2, <1>4, DepthChanged
  <2> QED
    BY <1>2, <1>4, <2>1 DEF SameText, SameFile, SameCall, Ready
<1> QED
  BY <1>1, <1>3, <1>4

LEMMA Ensured ==
  ASSUME NEW p, Sound(p), NEW len \in Nat, NEW q \in ensure_capacity(p, len)
  PROVE  /\ Sound(q) /\ SameFile(p, q) /\ SameCall(p, q)
         /\ Fine(q) /\ len > 0 => Ready(q, len)
<1>1. CASE len <= p.capacity /\ p.tape # NoBuffer
  <2>1. q = Fails(p, "SUCCESS")
    BY <1>1 DEF ensure_capacity, Works, Fails
  <2>2. Sound(q) /\ SameText(p, q) /\ SameFile(p, q) /\ SameCall(p, q)
    BY <2>1, FailsSound DEF Answers
  <2> QED
    BY <1>1, <2>2 DEF SameText, Ready
<1>2. CASE ~(len <= p.capacity /\ p.tape # NoBuffer) /\ len > p.max_capacity
  <2>1. q = Fails(p, "CAPACITY")
    BY <1>2 DEF ensure_capacity
  <2> QED
    BY <2>1, FailsSound DEF Answers, Fine
<1>3. CASE ~(len <= p.capacity /\ p.tape # NoBuffer) /\ ~(len > p.max_capacity)
  <2> DEFINE d == IF p.max_depth > 0 THEN p.max_depth ELSE DefaultDepth
  <2>1. q \in allocate(p, len, d)
    BY <1>3 DEF ensure_capacity
  <2>2. d \in Nat
    BY MemoryAssumption DEF Sound, MemoryType
  <2> HIDE DEF d
  <2> QED
    BY <2>1, <2>2, Allocated
<1> QED
  BY <1>1, <1>2, <1>3

Room(p) ==
  p.parsed > 0 =>
    /\ p.tape >= p.parsed
    /\ Sized(p.string_buf, p.parsed) /\ Sized(p.structural_indexes, p.parsed)
    /\ Sized(p.containing_scope, p.max_depth) /\ Sized(p.ret_address, p.max_depth)
    /\ p.from_file => Sized(p.loaded_bytes, p.parsed)

\* The buffer of a file, if it is there, has room for the file that is parsed.
FileThere(p, len) == p.from_file /\ len > 0 => Sized(p.loaded_bytes, len)

\* Only a parser that is ready goes on to parse.
LEMMA Parsed ==
  ASSUME NEW p, Sound(p), p.parsed = 0, NEW len \in Nat, FileThere(p, len),
         NEW unpadded \in BOOLEAN, NEW q \in parse(p, len, unpadded)
  PROVE  Sound(q) /\ Room(q)
<1>1. PICK r \in ensure_capacity(p, len) :
        q \in IF ~Fine(r) THEN {r}
              ELSE {[r EXCEPT !.parsed = len]}
                     \cup IF unpadded THEN {Fails(r, error) : error \in Unpadded} ELSE {}
  BY DEF parse
<1>2. /\ Sound(r) /\ SameFile(p, r) /\ SameCall(p, r)
      /\ Fine(r) /\ len > 0 => Ready(r, len)
  BY <1>1, Ensured
<1>3. CASE q = r
  BY <1>2, <1>3 DEF SameCall, Room
<1>4. CASE q = [r EXCEPT !.parsed = len] /\ Fine(r)
  <2>1. /\ MemoryType(q) /\ q.parsed = len /\ q.from_file = r.from_file
        /\ SameText(r, q) /\ SameDepth(r, q) /\ SameFile(r, q)
    BY <1>2, <1>4 DEF Sound, MemoryType, SameText, SameDepth, SameFile
  <2>2. Sound(q)
    BY <1>2, <2>1 DEF Sound, TextSound, DepthSound, FileSound, SameText, SameDepth, SameFile
  <2>3. ASSUME len > 0
        PROVE  /\ q.tape >= len /\ Sized(q.string_buf, len) /\ Sized(q.structural_indexes, len)
               /\ q.from_file => Sized(q.loaded_bytes, len)
    <3>1. q.capacity >= len /\ q.tape # NoBuffer
      BY <1>2, <1>4, <2>1, <2>3 DEF Ready, SameText
    <3>2. q.capacity \in Nat /\ {q.tape, q.string_buf, q.structural_indexes} \subseteq Int
      BY <2>1 DEF MemoryType, Buffer, NoBuffer
    <3>3. q.from_file => Sized(q.loaded_bytes, len)
      BY <1>2, <2>1, <2>3 DEF FileThere, SameFile, SameCall
    <3> QED
      BY <2>2, <3>1, <3>2, <3>3 DEF Sound, TextSound, Sized
  <2> QED
    BY <2>1, <2>2, <2>3 DEF Room, Sound, DepthSound
<1>5. ASSUME NEW error \in Unpadded, q = Fails(r, error)
      PROVE  Sound(q) /\ Room(q)
  BY <1>2, <1>5, FailsSound DEF Unpadded, Answers, SameCall, Room
<1> QED
  BY <1>1, <1>3, <1>4, <1>5

\* The buffer of a file that is read, if it is there, has room for it.
LEMMA FileRead ==
  ASSUME NEW p, Sound(p), p.parsed = 0, NEW len \in Nat, NEW q \in read_file(p, len)
  PROVE  Sound(q) /\ q.parsed = 0 /\ (Fine(q) => Sized(q.loaded_bytes, len))
<1> DEFINE opened ==
      IF p.loaded_bytes_capacity >= len THEN {Works(p)}
      ELSE {Works([p EXCEPT !.loaded_bytes = len, !.loaded_bytes_capacity = len])}
             \cup {Fails([p EXCEPT !.loaded_bytes = NoBuffer], error) : error \in Unpadded}
<1>1. ASSUME NEW r \in opened
      PROVE  Sound(r) /\ r.parsed = 0 /\ (Fine(r) => Sized(r.loaded_bytes, len))
  <2>1. CASE p.loaded_bytes_capacity >= len
    <3>1. r = Fails(p, "SUCCESS")
      BY <2>1 DEF Works, Fails
    <3>2. Sound(r) /\ SameFile(p, r) /\ SameCall(p, r)
      BY <3>1, FailsSound DEF Answers
    <3>3. p.loaded_bytes_capacity \in Nat /\ p.loaded_bytes \in Int
      BY DEF Sound, MemoryType, Buffer, NoBuffer
    <3> QED
      BY <2>1, <3>2, <3>3 DEF SameFile, SameCall, Sound, FileSound, Sized
  <2>2. CASE r = Works([p EXCEPT !.loaded_bytes = len, !.loaded_bytes_capacity = len])
    <3> DEFINE z == [p EXCEPT !.loaded_bytes = len, !.loaded_bytes_capacity = len]
    <3>1. /\ MemoryType(z) /\ z.parsed = 0 /\ z.loaded_bytes = len /\ z.loaded_bytes_capacity = len
          /\ SameText(p, z) /\ SameDepth(p, z)
      BY DEF Sound, MemoryType, Buffer, SameText, SameDepth
    <3>2. r = Fails(z, "SUCCESS")
      BY <2>2 DEF Works, Fails
    <3> HIDE DEF z
    <3>3. Sound(z)
      BY <3>1 DEF Sound, TextSound, DepthSound, FileSound, Sized, SameText, SameDepth
    <3>4. Sound(r) /\ SameFile(z, r) /\ SameCall(z, r)
      BY <3>2, <3>3, FailsSound DEF Answers
    <3> QED
      BY <3>1, <3>4 DEF SameFile, SameCall, Sized
  <2>3. ASSUME NEW error \in Unpadded, r = Fails([p EXCEPT !.loaded_bytes = NoBuffer], error)
        PROVE  Sound(r) /\ r.parsed = 0 /\ ~Fine(r)
    <3> DEFINE z == [p EXCEPT !.loaded_bytes = NoBuffer]
    <3>1. /\ MemoryType(z) /\ z.parsed = 0 /\ z.loaded_bytes = NoBuffer
          /\ SameText(p, z) /\ SameDepth(p, z)
      BY DEF Sound, MemoryType, Buffer, SameText, SameDepth
    <3> HIDE DEF z
    <3>2. Sound(z)
      BY <3>1 DEF Sound, TextSound, DepthSound, FileSound, Sized, SameText, SameDepth
    <3>3. r = Fails(z, error)
      BY <2>3 DEF z
    <3>4. Sound(r) /\ SameCall(z, r) /\ r.answer = error
      BY <3>2, <3>3, FailsSound DEF Answers, Unpadded
    <3> QED
      BY <3>1, <3>4 DEF SameCall, Fine, Unpadded
  <2> QED
    BY <2>1, <2>2, <2>3
<1>2. ASSUME NEW r, Sound(r), r.parsed = 0, q = Fails(r, "IO_ERROR")
      PROVE  Sound(q) /\ q.parsed = 0 /\ ~Fine(q)
  BY <1>2, FailsSound DEF Answers, SameCall, Fine
<1>3. \/ q = Fails(p, "IO_ERROR")
      \/ q \in opened
      \/ \E r \in opened : q = Fails(r, "IO_ERROR")
  BY DEF read_file
<1> HIDE DEF opened
<1> QED
  BY <1>1, <1>2, <1>3

LEMMA Loaded ==
  ASSUME NEW p, Sound(p), p.parsed = 0, NEW len \in Nat, NEW q \in load(p, len)
  PROVE  Sound(q) /\ Room(q)
<1>1. PICK r \in read_file(p, len) :
        q \in IF Fine(r) THEN parse([r EXCEPT !.from_file = TRUE], len, FALSE) ELSE {r}
  BY DEF load
<1>2. Sound(r) /\ r.parsed = 0 /\ (Fine(r) => Sized(r.loaded_bytes, len))
  BY <1>1, FileRead
<1>3. CASE ~Fine(r)
  BY <1>1, <1>2, <1>3 DEF Room
<1>4. CASE Fine(r)
  <2> DEFINE z == [r EXCEPT !.from_file = TRUE]
  <2>1. /\ MemoryType(z) /\ z.parsed = 0
        /\ SameText(r, z) /\ SameDepth(r, z) /\ SameFile(r, z)
    BY <1>2 DEF Sound, MemoryType, SameText, SameDepth, SameFile
  <2>2. q \in parse(z, len, FALSE)
    BY <1>1, <1>4
  <2> HIDE DEF z
  <2>3. Sound(z)
    BY <1>2, <2>1 DEF Sound, TextSound, DepthSound, FileSound, SameText, SameDepth, SameFile
  <2>4. FileThere(z, len)
    BY <1>2, <1>4, <2>1 DEF FileThere, SameFile
  <2> QED
    BY <2>1, <2>2, <2>3, <2>4, Parsed
<1> QED
  BY <1>3, <1>4

-----------------------------------------------------------------------------
LEMMA AnewSound ==
  ASSUME Sound(memory)
  PROVE  Sound(Anew) /\ Anew.parsed = 0 /\ ~Anew.from_file
<1>1. /\ MemoryType(Anew) /\ Anew.parsed = 0 /\ Anew.from_file = FALSE
      /\ SameText(memory, Anew) /\ SameDepth(memory, Anew) /\ SameFile(memory, Anew)
  BY DEF Sound, MemoryType, SameText, SameDepth, SameFile, Anew
<1> HIDE DEF Anew
<1> QED
  BY <1>1 DEF Sound, TextSound, DepthSound, FileSound, SameText, SameDepth, SameFile

RoomInv == Sound(memory) /\ Room(memory)

LEMMA RoomStep == RoomInv /\ [MemoryNext]_memory => RoomInv'
<1> SUFFICES ASSUME RoomInv, [MemoryNext]_memory
             PROVE  RoomInv'
  OBVIOUS
<1>0. Sound(Anew) /\ Anew.parsed = 0 /\ ~Anew.from_file /\ MemoryType(Anew)
  BY AnewSound DEF RoomInv, Sound
<1>a. ASSUME Sound(memory'), memory'.parsed = 0
      PROVE  RoomInv'
  BY <1>a DEF RoomInv, Room
<1>1. CASE Allocate
  <2>1. PICK capacity \in 0..MaxLength, max_depth \in {0, 1, DefaultDepth} :
          memory' \in allocate(Anew, capacity, max_depth)
    BY <1>1 DEF Allocate
  <2>2. capacity \in Nat /\ max_depth \in Nat
    BY MemoryAssumption
  <2>3. Sound(memory') /\ memory'.parsed = 0
    BY <1>0, <2>1, <2>2, Allocated DEF SameCall
  <2> QED
    BY <1>a, <2>3
<1>2. CASE Parse
  <2>1. PICK len \in 0..MaxLength, unpadded \in BOOLEAN : memory' \in parse(Anew, len, unpadded)
    BY <1>2 DEF Parse
  <2>2. len \in Nat /\ FileThere(Anew, len)
    BY <1>0, MemoryAssumption DEF FileThere
  <2>3. Sound(memory') /\ Room(memory')
    BY <1>0, <2>1, <2>2, Parsed
  <2> QED
    BY <2>3 DEF RoomInv
<1>3. CASE LoadFile
  <2>1. PICK len \in 0..MaxLength : memory' \in load(Anew, len)
    BY <1>3 DEF LoadFile
  <2>2. len \in Nat
    BY MemoryAssumption
  <2>3. Sound(memory') /\ Room(memory')
    BY <1>0, <2>1, <2>2, Loaded
  <2> QED
    BY <2>3 DEF RoomInv
<1>4. CASE SetMaxCapacity
  <2>1. PICK max_capacity \in 0..MaxLength : memory' = [Anew EXCEPT !.max_capacity = max_capacity]
    BY <1>4 DEF SetMaxCapacity
  <2>2. max_capacity \in Nat
    BY MemoryAssumption
  <2>3. /\ MemoryType(memory') /\ memory'.parsed = 0
        /\ SameText(Anew, memory') /\ SameDepth(Anew, memory') /\ SameFile(Anew, memory')
    BY <1>0, <2>1, <2>2 DEF MemoryType, SameText, SameDepth, SameFile
  <2>4. Sound(memory')
    BY <1>0, <2>3 DEF Sound, TextSound, DepthSound, FileSound, SameText, SameDepth, SameFile
  <2> QED
    BY <1>a, <2>3, <2>4
<1>5. CASE TakeDocument
  <2>1. memory' = [Anew EXCEPT !.tape = NoBuffer, !.string_buf = NoBuffer]
    BY <1>5 DEF TakeDocument
  <2>2. /\ MemoryType(memory') /\ memory'.parsed = 0 /\ memory'.capacity = Anew.capacity
        /\ memory'.tape = NoBuffer /\ memory'.string_buf = NoBuffer
        /\ memory'.structural_indexes = Anew.structural_indexes
        /\ SameDepth(Anew, memory') /\ SameFile(Anew, memory')
    BY <1>0, <2>1 DEF MemoryType, Buffer, SameDepth, SameFile
  <2>3. Sound(memory')
    BY <1>0, <2>2 DEF Sound, TextSound, DepthSound, FileSound, Sized, SameDepth, SameFile
  <2> QED
    BY <1>a, <2>2, <2>3
<1>6. CASE TakeParser
  <2>1. memory' = [Anew EXCEPT
          !.tape = NoBuffer, !.string_buf = NoBuffer, !.structural_indexes = NoBuffer,
          !.containing_scope = NoBuffer, !.ret_address = NoBuffer, !.loaded_bytes = NoBuffer]
    BY <1>6 DEF TakeParser
  <2>2. /\ MemoryType(memory') /\ memory'.parsed = 0
        /\ memory'.tape = NoBuffer /\ memory'.string_buf = NoBuffer
        /\ memory'.structural_indexes = NoBuffer /\ memory'.containing_scope = NoBuffer
        /\ memory'.ret_address = NoBuffer /\ memory'.loaded_bytes = NoBuffer
    BY <1>0, <2>1 DEF MemoryType, Buffer
  <2>3. Sound(memory')
    BY <2>2 DEF Sound, TextSound, DepthSound, FileSound, Sized
  <2> QED
    BY <1>a, <2>2, <2>3
<1>7. CASE memory' = memory
  BY <1>7 DEF RoomInv
<1> QED
  BY <1>1, <1>2, <1>3, <1>4, <1>5, <1>6, <1>7 DEF MemoryNext

\* Whatever the calls of a client, whatever allocations fail and whatever was moved out
\* before, when a text is parsed its tape has room for it, and so has every other buffer
\* that is there (simdjson.h:5076-5175): for texts of any length and scopes of any depth.
\* It does not say that the other buffers are there, for they may be missing.
THEOREM RoomHolds == MemoryInit /\ [][MemoryNext]_memory => []NeverOverrun
<1>1. MemoryInit => RoomInv
  <2> SUFFICES ASSUME memory = NewMemory
               PROVE  RoomInv
    BY DEF MemoryInit
  <2>1. /\ MemoryType(memory) /\ memory.parsed = 0
        /\ memory.tape = NoBuffer /\ memory.string_buf = NoBuffer
        /\ memory.structural_indexes = NoBuffer /\ memory.containing_scope = NoBuffer
        /\ memory.ret_address = NoBuffer /\ memory.loaded_bytes = NoBuffer
    BY MemoryAssumption DEF NewMemory, MemoryType, Buffer, Answers
  <2> QED
    BY <2>1 DEF RoomInv, Room, Sound, TextSound, DepthSound, FileSound, Sized
<1>2. RoomInv => NeverOverrun
  BY DEF RoomInv, Room, NeverOverrun, Sized
<1> QED
  BY <1>1, <1>2, RoomStep, PTL

-----------------------------------------------------------------------------
(***************************************************************************)
(* The kernels.  A call leaves the detector only with the first kernel     *)
(* that fits the host, or with one that the environment names; and nothing *)
(* but the program writes the pointer that calls go through.               *)
(***************************************************************************)
Kernels == {"haswell", "westmere", "arm64", "fallback"}

Targets == Kernels \cup {Detector, Unsupported, NoKernel}

Features == {"NEON", "AVX2", "BMI1", "BMI2", "SSE42", "PCLMULQDQ"}

Fits(c, n) == required_instruction_sets(c.build[n]) \subseteq c.host

CallRight(c, call) ==
  call.at = "running" =>
    /\ call.kernel # Detector
    /\ call.by = "detector" => call.kernel = detect_best_supported(c)

Calls == [at : {"idle", "detecting", "running"}, kernel : Targets,
          by : {"program", "environment", "detector"}]

ChoiceType(c) ==
  c \in [build : Builds, host : SUBSET Features, force : Kernels \cup {"", "typo"},
         killed : BOOLEAN, active_implementation : Targets,
         internal_active_implementation : Targets, calls : [Callers -> Calls]]

ChoiceRight(c) ==
  /\ ChoiceType(c)
  /\ \A t \in Callers : CallRight(c, c.calls[t])

\* A set of numbers that is not empty has a least one.
LEMMA LeastOf ==
  ASSUME NEW T \in SUBSET Nat, T # {}
  PROVE  \E x \in T : \A y \in T : x <= y
<1> DEFINE R == OpToRel(<, Nat)
<1>1. IsWellFoundedOn(R, Nat)
  BY NatLessThanWellFounded, Zenon
<1>2. \A x, y \in Nat : x < y => <<x, y>> \in R
  BY Zenon DEF OpToRel
<1> HIDE DEF R
<1>3. PICK x \in T : \A y \in T : <<y, x>> \notin R
  BY <1>1, WFMin
<1>4. ASSUME NEW y \in T PROVE ~(y < x)
  BY <1>2, <1>3, Zenon
<1>5. \A y \in T : x <= y
  BY <1>4
<1> QED
  BY <1>5

LEMMA BuildKernels ==
  ASSUME NEW build \in Builds
  PROVE  /\ DOMAIN build \subseteq Nat /\ \A n \in DOMAIN build : n >= 1 /\ build[n] \in Kernels
         /\ ToSet(build) \subseteq Kernels
BY DEF Builds, Kernels, ToSet

\* The detector finds the first kernel that fits the host, or the unsupported one.
LEMMA BestDetected ==
  ASSUME NEW c, c.build \in Builds
  PROVE  LET best == detect_best_supported(c)
         IN  /\ best \in Kernels \cup {Unsupported}
             /\ required_instruction_sets(best) \subseteq c.host
             /\ \A n \in DOMAIN c.build : Fits(c, n) => \E k \in 1..n : c.build[k] = best
<1> DEFINE fits == {n \in DOMAIN c.build : required_instruction_sets(c.build[n])
                                             \subseteq detect_supported_architectures(c)}
           best == detect_best_supported(c)
<1>1. /\ DOMAIN c.build \subseteq Nat
      /\ \A n \in DOMAIN c.build : n >= 1 /\ c.build[n] \in Kernels
  BY BuildKernels
<1>2. fits = {n \in DOMAIN c.build : Fits(c, n)}
  <2>1. \A kernel \in Kernels : required_instruction_sets(kernel)
          \subseteq {"NEON", "AVX2", "BMI1", "BMI2", "SSE42", "PCLMULQDQ"}
    BY DEF required_instruction_sets, Kernels
  <2> QED
    BY <1>1, <2>1 DEF Fits, detect_supported_architectures
<1>3. best = IF fits = {} THEN Unsupported ELSE c.build[CHOOSE n \in fits : \A m \in fits : n <= m]
  BY DEF detect_best_supported
<1>4. required_instruction_sets(Unsupported) = {}
  BY DEF required_instruction_sets, Unsupported
<1> HIDE DEF fits, best
<1>5. CASE fits = {}
  BY <1>2, <1>3, <1>4, <1>5 DEF best
<1>6. CASE fits # {}
  <2>1. fits \in SUBSET Nat
    BY <1>1, <1>2
  <2>2. \E n \in fits : \A m \in fits : n <= m
    BY <1>6, <2>1, LeastOf
  <2>3. PICK n \in fits : (\A m \in fits : n <= m) /\ best = c.build[n]
    BY <1>3, <1>6, <2>2
  <2>4. n \in DOMAIN c.build /\ n >= 1 /\ n \in Nat /\ best \in Kernels /\ Fits(c, n)
    BY <1>1, <1>2, <2>3
  <2>5. ASSUME NEW m \in DOMAIN c.build, Fits(c, m) PROVE n \in 1..m
    <3>1. m \in Nat /\ n <= m
      BY <1>1, <1>2, <2>3, <2>5
    <3> QED
      BY <2>4, <3>1
  <2> QED
    BY <2>3, <2>4, <2>5 DEF Fits, best
<1> QED
  BY <1>5, <1>6

LEMMA ChoiceStep ==
  ASSUME ChoiceRight(choice), ~NoChoice, [ChoiceNext]_choice
  PROVE  ChoiceRight(choice')
<1> DEFINE c == choice
           d == choice'
<1>1. /\ ChoiceType(c) /\ c.build \in Builds
      /\ \A t \in Callers : CallRight(c, c.calls[t])
  BY DEF ChoiceRight, ChoiceType
<1>2. ASSUME NEW e, e.build = c.build, e.host = c.host
      PROVE  detect_best_supported(e) = detect_best_supported(c)
  BY <1>2 DEF detect_best_supported, detect_supported_architectures
<1>3. /\ detect_best_supported(c) \in Targets \ {Detector}
      /\ \A name \in Kernels \cup {"", "typo"} : Named(c, name) \in Targets \ {Detector}
  <2>1. detect_best_supported(c) \in Kernels \cup {Unsupported}
    BY <1>1, BestDetected
  <2>2. ToSet(c.build) \subseteq Kernels
    BY <1>1, BuildKernels
  <2> QED
    BY <2>1, <2>2 DEF Named, Targets, Kernels, Unsupported, Detector, NoKernel
\* A step that leaves the calls of the other threads alone.
<1>4. ASSUME ChoiceType(d), d.build = c.build, d.host = c.host,
             NEW t \in Callers, CallRight(c, d.calls[t]),
             \A u \in Callers \ {t} : d.calls[u] = c.calls[u]
      PROVE  ChoiceRight(d)
  BY <1>1, <1>2, <1>4 DEF ChoiceRight, CallRight
<1>5. CASE SetForce
  <2>1. PICK name \in ToSet(c.build) \cup {"", "typo"} : d = [c EXCEPT !.force = name]
    BY <1>5 DEF SetForce
  <2>2. name \in Kernels \cup {"", "typo"}
    BY <1>1, BuildKernels
  <2>3. ChoiceType(d) /\ d.build = c.build /\ d.host = c.host /\ d.calls = c.calls
    BY <1>1, <2>1, <2>2 DEF ChoiceType
  <2> QED
    BY <1>1, <1>2, <2>3 DEF ChoiceRight, CallRight
<1>6. CASE Assign
  <2>1. PICK kernel \in Targets \ {Detector} :
           d = [c EXCEPT !.active_implementation = kernel]
    BY <1>3, <1>6 DEF Assign, Kernels
  <2>2. ChoiceType(d) /\ d.calls = c.calls /\ d.build = c.build /\ d.host = c.host
    BY <1>1, <2>1 DEF ChoiceType
  <2> QED
    BY <1>1, <1>2, <2>2 DEF ChoiceRight, CallRight
<1>7. CASE CallKernel
  <2>1. PICK t \in Callers :
           /\ c.calls[t] = Idle
           /\ d = [c EXCEPT !.calls[t].kernel = c.active_implementation,
                         !.calls[t].at = IF c.active_implementation = Detector
                                         THEN "detecting" ELSE "running"]
    BY <1>7 DEF CallKernel
  <2> DEFINE call == [at |-> IF c.active_implementation = Detector THEN "detecting" ELSE "running",
                      kernel |-> c.active_implementation, by |-> "program"]
  <2>2. call \in Calls /\ d = [c EXCEPT !.calls[t] = call]
    <3>1. c.calls \in [Callers -> Calls] /\ c.calls[t] \in Calls /\ c.active_implementation \in Targets
      BY <1>1 DEF ChoiceType
    <3>2. call \in Calls
      BY <3>1 DEF Calls
    <3>3. PICK x \in Calls : x = c.calls[t]
      BY <3>1
    <3>4. PICK y \in Calls : y = [x EXCEPT !.kernel = c.active_implementation]
      BY <3>1 DEF Calls
    <3>5. call = [y EXCEPT !.at = call.at]
      <4>1. y.kernel = c.active_implementation /\ y.by = "program"
        BY <2>1, <3>3, <3>4 DEF Calls, Idle
      <4>2. PICK a : a = call.at
        OBVIOUS
      <4>3. call = [at |-> a, kernel |-> y.kernel, by |-> y.by]
        BY <4>1, <4>2
      <4> HIDE DEF call
      <4> QED
        BY <4>2, <4>3 DEF Calls
    <3>6. PICK e : ChoiceType(e) /\ e = [c EXCEPT !.calls[t] = y]
      BY <1>1, <3>1 DEF ChoiceType
    <3>7. e = [c EXCEPT !.calls[t].kernel = c.active_implementation]
      BY <1>1, <3>3, <3>4, <3>6 DEF ChoiceType
    <3>8. d = [e EXCEPT !.calls[t].at = call.at]
      BY <1>1, <2>1, <3>7
    <3>9. e.calls[t] = y /\ e.calls \in [Callers -> Calls]
      BY <1>1, <3>6 DEF ChoiceType
    <3>10. d = [e EXCEPT !.calls[t] = call]
      BY <3>5, <3>6, <3>8, <3>9 DEF ChoiceType
    <3>11. d = [c EXCEPT !.calls[t] = call]
      <4>1. PICK f : f = c.calls /\ f \in [Callers -> Calls]
        BY <3>1
      <4>2. [[f EXCEPT ![t] = y] EXCEPT ![t] = call] = [f EXCEPT ![t] = call]
        BY <4>1
      <4>3. e = [c EXCEPT !.calls = [f EXCEPT ![t] = y]] /\ e.calls = [f EXCEPT ![t] = y]
        BY <1>1, <3>6, <4>1 DEF ChoiceType
      <4>4. d = [e EXCEPT !.calls = [f EXCEPT ![t] = call]]
        BY <3>10, <4>2, <4>3
      <4>5. d = [c EXCEPT !.calls = [f EXCEPT ![t] = call]]
        BY <1>1, <4>3, <4>4 DEF ChoiceType
      <4> QED
        BY <4>1, <4>5
    <3> QED
      BY <3>2, <3>11
  <2> HIDE DEF call
  <2>3. /\ ChoiceType(d) /\ d.build = c.build /\ d.host = c.host /\ d.calls[t] = call
        /\ \A u \in Callers \ {t} : d.calls[u] = c.calls[u]
    BY <1>1, <2>2 DEF ChoiceType
  <2>4. CallRight(c, call)
    BY DEF CallRight, call
  <2> QED
    BY <1>4, <2>3, <2>4
<1>8. CASE Detect
  <2>1. PICK t \in Callers, kernel \in Targets \ {Detector}, by \in {"environment", "detector"} :
           /\ by = "detector" => kernel = detect_best_supported(c)
           /\ \/ d = [c EXCEPT !.killed = TRUE]
              \/ d = [set_best(c, kernel) EXCEPT
                        !.calls[t] = [at |-> "running", kernel |-> kernel, by |-> by]]
    <3>1. c.force \in Kernels \cup {"", "typo"}
      BY <1>1 DEF ChoiceType
    <3>2. PICK t \in Callers :
            LET forced == c.force # ""
                kernel == IF forced THEN Named(c, c.force) ELSE detect_best_supported(c)
            IN  d = IF kernel = NoKernel THEN [c EXCEPT !.killed = TRUE]
                    ELSE [set_best(c, kernel) EXCEPT
                            !.calls[t] = [at |-> "running", kernel |-> kernel,
                                          by |-> IF forced THEN "environment" ELSE "detector"]]
      BY <1>8 DEF Detect
    <3> QED
      BY <1>3, <3>1, <3>2
  <2>2. CASE d = [c EXCEPT !.killed = TRUE]
    <3>1. /\ ChoiceType(d) /\ d.build = c.build /\ d.host = c.host /\ d.calls = c.calls
      BY <1>1, <2>2 DEF ChoiceType
    <3> QED
      BY <1>1, <1>2, <3>1 DEF ChoiceRight, CallRight
  <2>3. CASE d # [c EXCEPT !.killed = TRUE]
    <3>1. PICK call \in Calls : call = [at |-> "running", kernel |-> kernel, by |-> by]
      BY DEF Calls
    <3>2. d = [c EXCEPT !.internal_active_implementation = kernel, !.calls[t] = call]
      <4>1. d = [set_best(c, kernel) EXCEPT !.calls[t] = call]
        BY <2>1, <2>3, <3>1
      <4> QED
        BY <1>1, <4>1 DEF set_best, ChoiceType
    <3>3. /\ ChoiceType(d) /\ d.build = c.build /\ d.host = c.host /\ d.calls[t] = call
          /\ \A u \in Callers \ {t} : d.calls[u] = c.calls[u]
      BY <1>1, <3>2 DEF ChoiceType
    <3>4. CallRight(c, call)
      BY <2>1, <3>1 DEF CallRight
    <3> QED
      BY <1>4, <3>3, <3>4
  <2> QED
    BY <2>2, <2>3
<1>9. CASE ReturnFromKernel
  <2>1. PICK t \in Callers : d = [c EXCEPT !.calls[t] = Idle]
    BY <1>9 DEF ReturnFromKernel
  <2>2. Idle \in Calls /\ CallRight(c, Idle)
    BY DEF Idle, Calls, CallRight, Targets
  <2>3. /\ ChoiceType(d) /\ d.build = c.build /\ d.host = c.host /\ d.calls[t] = Idle
        /\ \A u \in Callers \ {t} : d.calls[u] = c.calls[u]
    BY <1>1, <2>1, <2>2 DEF ChoiceType
  <2> QED
    BY <1>4, <2>2, <2>3
<1>10. CASE choice' = choice
  BY <1>10
<1> QED
  BY <1>5, <1>6, <1>7, <1>8, <1>9, <1>10 DEF ChoiceNext, StartProgram

\* Whatever the threads, the environment and the assignments of the program do in
\* between, no call runs in the detector, and one for which the detector has chosen by
\* itself runs the best of the kernels compiled in that the host can run
\* (simdjson.cpp:484-510, 565-592).
THEOREM KernelHolds == NoChoice /\ [][ChoiceNext]_choice => []KernelRight
<1> DEFINE Inv == NoChoice \/ ChoiceRight(choice)
<1>1. ASSUME NoChoice, ChoiceNext PROVE ChoiceRight(choice')
  <2>1. StartProgram
    BY <1>1 DEF ChoiceNext, SetForce, Assign, CallKernel, Detect, ReturnFromKernel, Running
  <2>2. PICK build \in Builds : \E host \in Hosts(build) :
       choice' = [build |-> build, host |-> host, force |-> "", killed |-> FALSE,
                  active_implementation |-> Detector,
                  internal_active_implementation |-> Detector,
                  calls |-> [t \in Callers |-> Idle]]
    BY <2>1 DEF StartProgram
  <2>3. PICK host \in Hosts(build) :
       choice' = [build |-> build, host |-> host, force |-> "", killed |-> FALSE,
                  active_implementation |-> Detector,
                  internal_active_implementation |-> Detector,
                  calls |-> [t \in Callers |-> Idle]]
    BY <2>2
  <2>4. host \in SUBSET Features
    BY DEF Hosts, Features
  <2>5. Idle \in Calls /\ Idle.at = "idle"
    BY DEF Idle, Calls, Targets
  <2> QED
    BY <2>3, <2>4, <2>5 DEF ChoiceRight, ChoiceType, CallRight, Targets
<1>2. Inv /\ [ChoiceNext]_choice => Inv'
  <2>1. CASE NoChoice
    BY <1>1, <2>1 DEF NoChoice
  <2>2. CASE ~NoChoice
    BY <2>2, ChoiceStep
  <2> QED
    BY <2>1, <2>2
<1>3. ASSUME ChoiceRight(choice) PROVE KernelRight
  <2>1. choice.build \in Builds
    BY <1>3 DEF ChoiceRight, ChoiceType
  <2>2. ASSUME NEW t \in Callers, choice.calls[t].at = "running"
        PROVE  /\ choice.calls[t].kernel # Detector
               /\ choice.calls[t].by = "detector" =>
                     choice.calls[t].kernel = detect_best_supported(choice)
    BY <1>3, <2>2 DEF ChoiceRight, CallRight
  <2>3. LET best == detect_best_supported(choice)
        IN  /\ required_instruction_sets(best) \subseteq choice.host
            /\ \A n \in DOMAIN choice.build : Fits(choice, n) => \E k \in 1..n : choice.build[k] = best
    BY <2>1, BestDetected
  <2> QED
    BY <2>1, <2>2, <2>3 DEF KernelRight, Fits
<1>4. Inv => KernelRight
  BY <1>3 DEF KernelRight
<1> QED
  BY <1>2, <1>4, PTL

-----------------------------------------------------------------------------
(***************************************************************************)
(* The strings.  S gives the strings by name and H the buffers on the heap *)
(* with their sizes: every string that points at a buffer owns it, alone,  *)
(* and every buffer has an owner.                                          *)
(***************************************************************************)
Pointers == Buffers \cup {Nullptr}

StringsRight(S) ==
  /\ DOMAIN S \subseteq PaddedNames /\ S = [n \in DOMAIN S |-> S[n]]
  /\ \A n \in DOMAIN S : /\ S[n] = PaddedString(S[n].viable_size, S[n].data_ptr)
                         /\ S[n].data_ptr \in Pointers

HeapRight(H) == DOMAIN H \subseteq Buffers /\ H = [b \in DOMAIN H |-> H[b]]

Owners(S, H) ==
  /\ \A n \in DOMAIN S : S[n].data_ptr # Nullptr =>
       S[n].data_ptr \in DOMAIN H /\ H[S[n].data_ptr] = S[n].viable_size
  /\ \A b \in DOMAIN H : \E n \in DOMAIN S : S[n].data_ptr = b
  /\ \A m, n \in DOMAIN S : S[m].data_ptr = S[n].data_ptr /\ S[m].data_ptr # Nullptr => m = n

Owned(S, H) == StringsRight(S) /\ HeapRight(H) /\ Owners(S, H)

LEMMA BufferNumbers ==
  ASSUME IsFiniteSet(PaddedNames)
  PROVE  /\ Nullptr \notin Buffers /\ IsFiniteSet(Buffers)
         /\ Cardinality(PaddedNames) \in Nat /\ Cardinality(Buffers) = Cardinality(PaddedNames) + 1
<1>1. Cardinality(PaddedNames) \in Nat
  BY FS_CardinalityType
<1>2. /\ IsFiniteSet(1..Cardinality(PaddedNames) + 1)
      /\ Cardinality(1..Cardinality(PaddedNames) + 1) = Cardinality(PaddedNames) + 1
  BY <1>1, FS_Interval
<1> QED
  BY <1>1, <1>2 DEF Buffers, Nullptr

\* There is a buffer left for a new string: each one that is used has an owner.
LEMMA BufferLeft ==
  ASSUME IsFiniteSet(PaddedNames), NEW S, NEW H, Owned(S, H)
  PROVE  FreshBuffer(H) \in Buffers \ DOMAIN H
<1>1. ASSUME Buffers \subseteq DOMAIN H PROVE FALSE
  <2> DEFINE f == [b \in Buffers |-> CHOOSE n \in DOMAIN S : S[n].data_ptr = b]
  <2>1. \A b \in Buffers : f[b] \in DOMAIN S /\ S[f[b]].data_ptr = b
    BY <1>1 DEF Owned, Owners
  <2>2. f \in [Buffers -> PaddedNames]
    BY <2>1 DEF Owned, StringsRight
  <2> HIDE DEF f
  <2>3. Cardinality(PaddedNames) < Cardinality(Buffers)
    BY BufferNumbers
  <2>4. \E b, c \in Buffers : b # c /\ f[b] = f[c]
    BY <2>2, <2>3, BufferNumbers, FS_PigeonHole
  <2> QED
    BY <2>1, <2>4
<1>2. \E b \in Buffers : b \notin DOMAIN H
  BY <1>1
<1> QED
  BY <1>2 DEF FreshBuffer

\* A string with a buffer that was free, and one without.
LEMMA AddString ==
  ASSUME NEW S, NEW H, Owned(S, H), NEW name \in PaddedNames \ DOMAIN S, NEW size,
         NEW b \in Pointers \ DOMAIN H, Nullptr \notin Buffers
  PROVE  LET T == Put(S, name, PaddedString(size, b))
         IN  /\ b # Nullptr => Owned(T, Put(H, b, size))
             /\ b = Nullptr => Owned(T, H)
<1> DEFINE T == Put(S, name, PaddedString(size, b))
           G == Put(H, b, size)
<1>1. /\ DOMAIN T = DOMAIN S \cup {name} /\ T = [n \in DOMAIN T |-> T[n]]
      /\ T[name] = PaddedString(size, b) /\ \A n \in DOMAIN S : T[n] = S[n]
  BY DEF Put
<1>2. /\ DOMAIN G = DOMAIN H \cup {b} /\ G = [c \in DOMAIN G |-> G[c]]
      /\ G[b] = size /\ \A c \in DOMAIN H : G[c] = H[c]
  BY DEF Put
<1> HIDE DEF T, G
<1>3. StringsRight(T)
  BY <1>1 DEF Owned, StringsRight, PaddedString
<1>4. T[name].data_ptr = b /\ T[name].viable_size = size
  BY <1>1 DEF PaddedString
<1>5. \A n \in DOMAIN S : S[n].data_ptr # Nullptr => S[n].data_ptr \in DOMAIN H
  BY DEF Owned, Owners
<1>6. CASE b # Nullptr
  <2>1. HeapRight(G)
    BY <1>2, <1>6 DEF Owned, HeapRight, Pointers
  <2>2. Owners(T, G)
    BY <1>1, <1>2, <1>4, <1>5, <1>6 DEF Owned, Owners
  <2> QED
    BY <1>3, <1>6, <2>1, <2>2 DEF Owned, T, G
<1>7. CASE b = Nullptr
  <2>1. Owners(T, H)
    BY <1>1, <1>4, <1>5, <1>7 DEF Owned, Owners, HeapRight
  <2> QED
    BY <1>3, <1>7, <2>1 DEF Owned, T
<1> QED
  BY <1>6, <1>7

\* A buffer that was taken and given back.
LEMMA TakenBack ==
  ASSUME NEW H, HeapRight(H), NEW b, b \notin DOMAIN H, NEW size
  PROVE  aligned_free(Put(H, b, size), b) = H
<1> DEFINE G == Put(H, b, size)
<1>1. DOMAIN G = DOMAIN H \cup {b} /\ \A c \in DOMAIN H : G[c] = H[c]
  BY DEF Put
<1> HIDE DEF G
<1>2. aligned_free(G, b) = [c \in DOMAIN H |-> H[c]]
  BY <1>1 DEF aligned_free
<1> QED
  BY <1>2 DEF HeapRight, G

\* Moved into a new string.
LEMMA MovedToNew ==
  ASSUME NEW S, NEW H, Owned(S, H), NEW name \in PaddedNames \ DOMAIN S, NEW source \in DOMAIN S,
         Nullptr \notin Buffers
  PROVE  Owned(Put(MovedOut(S, source), name, S[source]), H)
<1> DEFINE M == MovedOut(S, source)
           T == Put(M, name, S[source])
<1>1. /\ DOMAIN M = DOMAIN S /\ M[source] = PaddedString(S[source].viable_size, Nullptr)
      /\ \A n \in DOMAIN S \ {source} : M[n] = S[n]
  <2>1. S[source] = PaddedString(S[source].viable_size, S[source].data_ptr)
    BY DEF Owned, StringsRight
  <2>2. [S[source] EXCEPT !.data_ptr = Nullptr] = PaddedString(S[source].viable_size, Nullptr)
    BY <2>1 DEF PaddedString
  <2> QED
    BY <2>2 DEF MovedOut
<1> HIDE DEF M
<1>2. /\ DOMAIN T = DOMAIN S \cup {name} /\ T = [n \in DOMAIN T |-> T[n]]
      /\ T[name] = S[source] /\ T[source] = PaddedString(S[source].viable_size, Nullptr)
      /\ \A n \in DOMAIN S \ {source} : T[n] = S[n]
  BY <1>1 DEF Put
<1> HIDE DEF T
<1>3. T[source].data_ptr = Nullptr
  BY <1>2 DEF PaddedString
<1>4. StringsRight(T)
  BY <1>2 DEF Owned, StringsRight, PaddedString, Pointers
<1>5. Owners(T, H)
  BY <1>2, <1>3 DEF Owned, Owners, HeapRight
<1> QED
  BY <1>4, <1>5 DEF Owned, T, M

\* Assigned by a move: the buffer of the target is freed, and the source is empty.
LEMMA MovedOver ==
  ASSUME NEW S, NEW H, Owned(S, H), NEW name \in DOMAIN S, NEW source \in DOMAIN S,
         Nullptr \notin Buffers
  PROVE  Owned([[S EXCEPT ![name] = S[source]] EXCEPT ![source] = PaddedString(0, Nullptr)],
               aligned_free(H, S[name].data_ptr))
<1> DEFINE T == [[S EXCEPT ![name] = S[source]] EXCEPT ![source] = PaddedString(0, Nullptr)]
           G == aligned_free(H, S[name].data_ptr)
<1>1. /\ DOMAIN T = DOMAIN S /\ T = [n \in DOMAIN T |-> T[n]]
      /\ T[source] = PaddedString(0, Nullptr)
      /\ name # source => T[name] = S[source]
      /\ \A n \in DOMAIN S \ {name, source} : T[n] = S[n]
  BY DEF Owned, StringsRight
<1>2. /\ DOMAIN G = DOMAIN H \ {S[name].data_ptr} /\ \A b \in DOMAIN G : G[b] = H[b]
      /\ G = [b \in DOMAIN G |-> G[b]]
  BY DEF aligned_free
<1> HIDE DEF T, G
<1>3. T[source].data_ptr = Nullptr
  BY <1>1 DEF PaddedString
<1>4. StringsRight(T)
  BY <1>1 DEF Owned, StringsRight, PaddedString, Pointers
<1>5. HeapRight(G)
  BY <1>2 DEF Owned, HeapRight
<1>6. Owners(T, G)
  BY <1>1, <1>2, <1>3 DEF Owned, Owners, HeapRight
<1> QED
  BY <1>4, <1>5, <1>6 DEF Owned, T, G

LEMMA Swapped ==
  ASSUME NEW S, NEW H, Owned(S, H), NEW name \in DOMAIN S, NEW other \in DOMAIN S
  PROVE  Owned([[S EXCEPT ![name] = S[other]] EXCEPT ![other] = S[name]], H)
<1> DEFINE T == [[S EXCEPT ![name] = S[other]] EXCEPT ![other] = S[name]]
<1>1. /\ DOMAIN T = DOMAIN S /\ T = [n \in DOMAIN T |-> T[n]]
      /\ T[name] = S[other] /\ T[other] = S[name]
      /\ \A n \in DOMAIN S \ {name, other} : T[n] = S[n]
  BY DEF Owned, StringsRight
<1> HIDE DEF T
<1>2. StringsRight(T)
  BY <1>1 DEF Owned, StringsRight
<1>3. Owners(T, H)
  BY <1>1 DEF Owned, Owners
<1> QED
  BY <1>2, <1>3 DEF Owned, T

LEMMA Destroyed ==
  ASSUME NEW S, NEW H, Owned(S, H), NEW name \in DOMAIN S, Nullptr \notin Buffers
  PROVE  Owned([n \in DOMAIN S \ {name} |-> S[n]], aligned_free(H, S[name].data_ptr))
<1> DEFINE T == [n \in DOMAIN S \ {name} |-> S[n]]
           G == aligned_free(H, S[name].data_ptr)
<1>1. /\ DOMAIN G = DOMAIN H \ {S[name].data_ptr} /\ \A b \in DOMAIN G : G[b] = H[b]
      /\ G = [b \in DOMAIN G |-> G[b]]
  BY DEF aligned_free
<1> HIDE DEF G
<1>2. StringsRight(T) /\ HeapRight(G)
  BY <1>1 DEF Owned, StringsRight, HeapRight
<1>3. Owners(T, G)
  BY <1>1 DEF Owned, Owners, HeapRight
<1> QED
  BY <1>2, <1>3 DEF Owned, G

PaddedRecord == padded = [strings |-> padded.strings, heap |-> padded.heap, killed |-> padded.killed]

PaddedRight == PaddedRecord /\ Owned(padded.strings, padded.heap)

LEMMA PaddedStep ==
  ASSUME IsFiniteSet(PaddedNames), PaddedRight, [PaddedNext]_padded
  PROVE  PaddedRight'
<1> DEFINE S == padded.strings
           H == padded.heap
           buffer == FreshBuffer(H)
<1>1. Owned(S, H) /\ PaddedRecord /\ HeapRight(H)
  BY DEF PaddedRight, Owned
<1>2. Nullptr \notin Buffers /\ buffer \in Buffers \ DOMAIN H /\ Nullptr \notin DOMAIN H
  BY <1>1, BufferNumbers, BufferLeft DEF HeapRight
<1>3. ASSUME NEW T, NEW G, Owned(T, G),
             padded' = [padded EXCEPT !.strings = T, !.heap = G]
               \/ padded' = [padded EXCEPT !.heap = G, !.strings = T]
               \/ (G = H /\ padded' = [padded EXCEPT !.strings = T])
               \/ (T = S /\ padded' = [padded EXCEPT !.heap = G])
      PROVE  PaddedRight'
  <2>1. PaddedRecord' /\ padded'.strings = T /\ padded'.heap = G
    BY <1>1, <1>3 DEF PaddedRecord
  <2> QED
    BY <1>3, <2>1 DEF PaddedRight
<1>4. ASSUME padded' = [padded EXCEPT !.killed = TRUE] PROVE PaddedRight'
  <2>1. PaddedRecord' /\ padded'.strings = S /\ padded'.heap = H
    BY <1>1, <1>4 DEF PaddedRecord
  <2> QED
    BY <1>1, <2>1 DEF PaddedRight
<1>5. CASE Construct
  <2>1. PICK name \in PaddedNames \ DOMAIN S, size \in 0..MaxPadded :
           \/ padded' = [padded EXCEPT !.strings = Put(S, name, PaddedString(size, buffer)),
                                       !.heap = Put(H, buffer, size)]
           \/ padded' = [padded EXCEPT !.strings = Put(S, name, PaddedString(size, Nullptr))]
           \/ padded' = [padded EXCEPT !.killed = TRUE]
    BY <1>5 DEF Construct, Alive
  <2>2. /\ Owned(Put(S, name, PaddedString(size, buffer)), Put(H, buffer, size))
        /\ Owned(Put(S, name, PaddedString(size, Nullptr)), H)
    BY <1>1, <1>2, AddString DEF Pointers
  <2> QED
    BY <1>3, <1>4, <2>1, <2>2
<1>6. CASE MoveConstruct
  <2>1. PICK name \in PaddedNames \ DOMAIN S, source \in DOMAIN S :
           padded' = [padded EXCEPT !.strings = Put(MovedOut(S, source), name, S[source])]
    BY <1>6 DEF MoveConstruct, Alive
  <2>2. Owned(Put(MovedOut(S, source), name, S[source]), H)
    BY <1>1, <1>2, MovedToNew
  <2> QED
    BY <1>3, <2>1, <2>2
<1>7. CASE MoveAssign
  <2>1. PICK name \in DOMAIN S, source \in DOMAIN S :
           padded' = [padded EXCEPT
             !.heap    = aligned_free(H, S[name].data_ptr),
             !.strings = [[S EXCEPT ![name] = S[source]] EXCEPT ![source] = PaddedString(0, Nullptr)]]
    BY <1>7 DEF MoveAssign, Alive
  <2> DEFINE T == [[S EXCEPT ![name] = S[source]] EXCEPT ![source] = PaddedString(0, Nullptr)]
             G == aligned_free(H, S[name].data_ptr)
  <2>2. Owned(T, G)
    BY <1>1, <1>2, MovedOver
  <2>3. padded' = [padded EXCEPT !.heap = G, !.strings = T]
    BY <2>1
  <2> HIDE DEF T, G
  <2> QED
    BY <1>3, <2>2, <2>3
<1>8. CASE swap
  <2>1. PICK name \in DOMAIN S, other \in DOMAIN S :
           padded' = [padded EXCEPT !.strings[name] = S[other], !.strings[other] = S[name]]
    BY <1>8 DEF swap, Alive
  <2> DEFINE T == [[S EXCEPT ![name] = S[other]] EXCEPT ![other] = S[name]]
  <2>2. Owned(T, H)
    BY <1>1, Swapped
  <2>3. padded' = [padded EXCEPT !.strings = T]
    <3>1. PICK U : U = [S EXCEPT ![name] = S[other]]
      OBVIOUS
    <3>2. [padded EXCEPT !.strings[name] = S[other]] = [padded EXCEPT !.strings = U]
      BY <3>1
    <3>3. [padded EXCEPT !.strings = U].strings = U
      BY <1>1 DEF PaddedRecord
    <3>4. PICK P : P = [padded EXCEPT !.strings = U]
      OBVIOUS
    <3>5. padded' = [P EXCEPT !.strings[other] = S[name]]
      BY <2>1, <3>2, <3>4
    <3>6. padded' = [P EXCEPT !.strings = T]
      BY <3>1, <3>3, <3>4, <3>5
    <3> HIDE DEF T
    <3> QED
      BY <1>1, <3>4, <3>6 DEF PaddedRecord
  <2> HIDE DEF T
  <2> QED
    BY <1>3, <2>2, <2>3
<1>9. CASE Destroy
  <2>1. PICK name \in DOMAIN S :
           padded' = [padded EXCEPT !.heap = aligned_free(H, S[name].data_ptr),
                                    !.strings = [n \in DOMAIN S \ {name} |-> S[n]]]
    BY <1>9, Zenon DEF Destroy, Alive
  <2> DEFINE T == [n \in DOMAIN S \ {name} |-> S[n]]
             G == aligned_free(H, S[name].data_ptr)
  <2>2. Owned(T, G)
    BY <1>1, <1>2, Destroyed
  <2>3. padded' = [padded EXCEPT !.heap = G, !.strings = T]
    BY <2>1
  <2> HIDE DEF T, G
  <2>4. PaddedRecord' /\ padded'.strings = T /\ padded'.heap = G
    BY <1>1, <2>3 DEF PaddedRecord
  <2> QED
    BY <2>2, <2>4 DEF PaddedRight
<1>10. CASE load_padded
  <2>1. PICK name \in PaddedNames \ DOMAIN S, size \in 0..MaxPadded, read \in BOOLEAN :
           IF read
           THEN padded' = [padded EXCEPT !.strings = Put(S, name, PaddedString(size, buffer)),
                                         !.heap = Put(H, buffer, size)]
           ELSE padded' \in {[padded EXCEPT !.heap = aligned_free(Put(H, buffer, size), buffer)],
                             [padded EXCEPT !.killed = TRUE]}
    BY <1>10, Zenon DEF load_padded, Alive
  <2>2. Owned(Put(S, name, PaddedString(size, buffer)), Put(H, buffer, size))
    BY <1>1, <1>2, AddString DEF Pointers
  <2>3. aligned_free(Put(H, buffer, size), buffer) = H
    BY <1>1, <1>2, TakenBack
  <2>4. CASE read
    <3>1. PICK T, G : T = Put(S, name, PaddedString(size, buffer)) /\ G = Put(H, buffer, size)
      OBVIOUS
    <3>2. padded' = [padded EXCEPT !.strings = T, !.heap = G]
      BY <2>1, <2>4, <3>1
    <3> QED
      BY <1>3, <2>2, <3>1, <3>2
  <2>5. CASE ~read
    <3>1. \/ padded' = [padded EXCEPT !.heap = H]
          \/ padded' = [padded EXCEPT !.killed = TRUE]
      BY <2>1, <2>3, <2>5
    <3>2. CASE padded' = [padded EXCEPT !.heap = H]
      <4>1. PaddedRecord' /\ padded'.strings = S /\ padded'.heap = H
        BY <1>1, <3>2 DEF PaddedRecord
      <4> QED
        BY <1>1, <4>1 DEF PaddedRight
    <3>3. CASE padded' = [padded EXCEPT !.killed = TRUE]
      BY <1>4, <3>3
    <3> QED
      BY <3>1, <3>2, <3>3
  <2> QED
    BY <2>4, <2>5
<1>11. CASE padded' = padded
  BY <1>11 DEF PaddedRight, PaddedRecord
<1> QED
  BY <1>5, <1>6, <1>7, <1>8, <1>9, <1>10, <1>11 DEF PaddedNext

\* Whatever is constructed, moved, swapped, loaded and destroyed, be it a string into
\* itself: every buffer belongs to one string, which has its size, and no string
\* points at a buffer that was freed, for any finite set of strings of any length
\* (simdjson.h:6248-6371).
THEOREM PaddedHolds ==
  ASSUME IsFiniteSet(PaddedNames)
  PROVE  PaddedInit /\ [][PaddedNext]_padded => []PaddedOwned
<1>1. PaddedInit => PaddedRight
  BY DEF PaddedInit, PaddedRight, PaddedRecord, Owned, StringsRight, HeapRight, Owners
<1>2. PaddedRight /\ [PaddedNext]_padded => PaddedRight'
  BY PaddedStep
<1>3. ASSUME PaddedRight PROVE PaddedOwned
  <2> DEFINE S == padded.strings
             H == padded.heap
  <2>1. Owners(S, H)
    BY <1>3 DEF PaddedRight, Owned
  <2>2. Nullptr \notin DOMAIN H
    BY <1>3, BufferNumbers DEF PaddedRight, Owned, HeapRight
  <2>3. ASSUME NEW b \in DOMAIN H
        PROVE  \E n \in DOMAIN S : {m \in DOMAIN S : S[m].data_ptr = b} = {n}
    BY <2>1, <2>2 DEF Owners
  <2> QED
    BY <2>1, <2>3 DEF PaddedOwned, Owners, Alive
<1> QED
  BY <1>1, <1>2, <1>3, PTL
=============================================================================
