--------------------------- MODULE DocumentStream ---------------------------
(***************************************************************************)
(* parser::parse_many: a stream over a text of many documents, batch by    *)
(* batch.  Without threads a batch begins at the last token of the document*)
(* read last; with them a second thread runs stage 1 on the next batch,    *)
(* which begins where find_last_json_buf_idx says.  Buffers are large      *)
(* enough here, and the code of an error of stage 2 is not told apart.     *)
(***************************************************************************)
EXTENDS TextScanning

CONSTANTS MaxDocuments,  \* the most documents of a text
          MaxBatch       \* the largest batch

VARIABLE stream

-----------------------------------------------------------------------------
(***************************************************************************)
(* The documents of a text: one array, one object, a number and a string   *)
(* of a character of two bytes, and a space after them.  Only scalars need *)
(* the space.  The last one may lack its end.                              *)
(***************************************************************************)
Unended == <<OpenArray>>

Containers == {<<OpenArray, 49, CloseArray>>,
               <<OpenObject, Quote, Quote, Colon, OpenArray, CloseArray, CloseObject>>}
Scalars    == {<<49, 49>>, <<Quote, 195, 169, Quote>>}

Written == Containers \cup {Append(doc, Space) : doc \in Containers \cup Scalars} \cup {Unended}

\* The first byte and the last token of every document that has its end, and the
\* places within documents.
From(t, n) == Len(FlattenSeq(SubSeq(t, 1, n - 1)))
Size(doc)  == Len(doc) - (IF Last(doc) = Space THEN 1 ELSE 0)

Documents(t) ==
  [n \in 1..Len(SelectSeq(t, LAMBDA doc : doc # Unended)) |->
     [from |-> From(t, n),
      last |-> From(t, n) + (IF t[n][1] \in Operators THEN Size(t[n]) - 1 ELSE 0)]]

Within(t) == UNION {From(t, n) + 1..From(t, n) + Size(t[n]) - 1 : n \in DOMAIN t}

GrowStream ==
  /\ kind = "stream" /\ stream = <<>> /\ Len(text) < MaxDocuments
  /\ text # <<>> => Last(text) # Unended
  /\ \E doc \in Written : text' = Append(text, doc)
  /\ UNCHANGED <<kind, stream>>

-----------------------------------------------------------------------------
(***************************************************************************)
(* The indexes of a batch, buf[0] being the first byte of the batch.  n is *)
(* n_structural_indexes, the last of them the end of the batch.            *)
(***************************************************************************)
Token(buf, s, n) == At(buf, s[n + 1])

Depth(buf, s, from, to, open, close) ==
  Cardinality({n \in from..to : Token(buf, s, n) = open})
    - Cardinality({n \in from..to : Token(buf, s, n) = close})

\* The first token of a document after another one.
Boundary(buf, s, n) ==
  /\ Token(buf, s, n) \notin {Colon, Comma, CloseObject, CloseArray}
  /\ Token(buf, s, n - 1) \notin {OpenObject, OpenArray, Colon, Comma}

\* Mutated LastDocument: the brackets behind the boundary are not counted.
LastDocumentCut(buf, s, last_i) ==
  Max({n \in 1..last_i : Boundary(buf, s, n)} \cup {0})

LastDocument(buf, s, last_i) ==
  LET i == Max({n \in 1..last_i : Boundary(buf, s, n)} \cup {0})
  IN  IF i > 0 /\ Depth(buf, s, i, last_i, OpenArray, CloseArray) = 0
               /\ Depth(buf, s, i, last_i, OpenObject, CloseObject) = 0
      THEN last_i + 1 ELSE i

find_last_json_buf_idx(buf, size, s, n) ==
  IF n = 0 THEN 0
  ELSE LastDocument(buf, s, IF s[n] = size THEN n - 2 ELSE n - 1)

\* The largest length up to which the text does not end in a character of
\* several bytes.
trimmed_length_safe_utf8(buf, len) ==
  Max({n \in 1..len : buf[n] < 128} \cup {0})

\* Stage 2 from a token on: the token after the document, or none.
None == -1

Document(buf, s, n, from) ==
  LET token(k) == IF k < n - 1 THEN Token(buf, s, k) ELSE 0
      RECURSIVE value(_), items(_), members(_)
      value(k) ==
        CASE token(k) = OpenArray  -> IF token(k + 1) = CloseArray THEN k + 2 ELSE items(k + 1)
          [] token(k) = OpenObject -> IF token(k + 1) = CloseObject THEN k + 2 ELSE members(k + 1)
          [] token(k) \in {Quote, 49} -> k + 1
          [] OTHER -> None
      items(k) ==
        LET next == value(k)
        IN  CASE next # None /\ token(next) = Comma      -> items(next + 1)
              [] next # None /\ token(next) = CloseArray -> next + 1
              [] OTHER -> None
      members(k) ==
        LET next == value(k + 2)
        IN  CASE token(k) # Quote \/ token(k + 1) # Colon \/ next = None -> None
              [] next # None /\ token(next) = Comma       -> members(next + 1)
              [] next # None /\ token(next) = CloseObject -> next + 1
              [] OTHER -> None
  IN  value(from)

-----------------------------------------------------------------------------
(***************************************************************************)
(* The stream: its own fields, the indexes in the parser, what the thread  *)
(* has found.  Beside the code's state stand the text and the batch size it*)
(* was opened with, the documents it has given, and whether it has been    *)
(* misled: by a boundary that is none, because a batch without one, or one *)
(* that ends within a scalar, is answered with some index all the same; or *)
(* by the boundary of the batch before, which the last batch leaves in     *)
(* last_json_buffer_loc, and where a document of it may happen to begin.   *)
(* Of the documents given beyond MaxDocuments one is recorded.             *)
(***************************************************************************)
Opened(t, size, threads) ==
  [bytes |-> FlattenSeq(t), documents |-> Documents(t), within |-> Within(t), asked |-> size,
   threads |-> threads, buf_start |-> 0, next_json |-> 0, load_next_batch |-> TRUE,
   current_buffer_loc |-> 0, last_json_buffer_loc |-> 0, batch_size |-> size,
   error |-> "SUCCESS_AND_HAS_MORE", finished |-> FALSE,
   structural_indexes |-> <<>>, n |-> 0,
   thread |-> "none", ahead |-> Answer("SUCCESS", <<>>, 0),
   given |-> <<>>, misled |-> "no"]

Buf(s) == SubSeq(s.bytes, s.buf_start + 1, Len(s.bytes))

\* Stage 1 of any kernel, with streaming.
stage1(s, from) ==
  Scan(SubSeq(Buf(s), from + 1, from + s.batch_size), TRUE)

Failed(s, error) == [s EXCEPT !.error = error]

Ongoing(s) == s.error = "SUCCESS_AND_HAS_MORE"

Trimmed(s, from, size) ==
  [s EXCEPT !.batch_size = trimmed_length_safe_utf8(SubSeq(Buf(s), from + 1, Len(Buf(s))), size)]

\* Each part of json_parse gives the set of its one outcome, from which the next
\* part goes on.
LastIndex(s) == find_last_json_buf_idx(Buf(s), s.batch_size, s.structural_indexes, s.n)

Scanned(s, answer) ==
  IF answer.error # "SUCCESS" THEN Failed(s, answer.error)
  ELSE [s EXCEPT !.structural_indexes = answer.indexes, !.n = Len(answer.indexes)]

\* Tokens behind the last boundary are left to the next batch.
UpTo(s, index) == IF index = 0 THEN s ELSE [s EXCEPT !.n = index + 1]

UpToLast(s) == {UpTo(s, index) : index \in {IF Ongoing(s) THEN LastIndex(s) ELSE 0}}

ScannedHere(s) ==
  UNION {UpToLast(scanned) : scanned \in {Scanned(s, answer) : answer \in {stage1(s, 0)}}}

FirstBatch(s) == Trimmed(s, 0, Min({s.batch_size, Len(Buf(s))}))

\* load_next_batch without threads.
LoadInTurn(s) ==
  UNION {ScannedHere(batch) :
           batch \in {FirstBatch([s EXCEPT !.buf_start = @ + s.current_buffer_loc,
                                           !.load_next_batch = FALSE])}}

\* With threads the first batch is scanned here, and the others are fetched from
\* the thread that has been joined.
BatchHere(s) == IF s.batch_size = 0 THEN {Failed(s, "UTF8_ERROR")} ELSE ScannedHere(s)

Fetched(s) ==
  LET joined == [s EXCEPT !.thread = "none"]
  IN  {IF s.ahead.error # "SUCCESS" THEN Failed(joined, s.ahead.error)
       ELSE Scanned([joined EXCEPT !.buf_start = @ + s.last_json_buffer_loc], s.ahead)}

Loaded(s) ==
  IF s.thread = "none" THEN UNION {BatchHere(batch) : batch \in {FirstBatch(s)}} ELSE Fetched(s)

\* The thread is given the next batch, from the token of this index on.
Begun(s) == [s EXCEPT !.next_json = 0, !.load_next_batch = FALSE]

Started(s) ==
  IF s.batch_size = 0 THEN Failed(s, "UTF8_ERROR") ELSE [Begun(s) EXCEPT !.thread = "running"]

Ahead(s, index) ==
  LET place  == s.structural_indexes[index + 1]
      placed == [s EXCEPT !.last_json_buffer_loc = place,
                          !.misled = IF index = 0 \/ s.buf_start + place \in s.within
                                     THEN "cut" ELSE @]
  IN  {Started(batch) :
         batch \in {Trimmed(placed, place, Min({s.batch_size, Len(Buf(s)) - place}))}}

LookAhead(s) ==
  IF ~Ongoing(s) THEN {s}
  ELSE IF Len(Buf(s)) = s.batch_size THEN {Begun(s)}
  ELSE UNION {Ahead(s, index) : index \in {LastIndex(s)}}

LoadAhead(s) == UNION {LookAhead(loaded) : loaded \in Loaded(s)}

Load(s) == IF ~s.load_next_batch THEN {s}
           ELSE IF s.threads THEN LoadAhead(s) ELSE LoadInTurn(s)

\* The document that begins at next_json, and where the next one does: with threads
\* at the boundary, without them after the last token of this one.
Given(s, next) ==
  LET document == [from |-> s.buf_start + s.structural_indexes[s.next_json + 1],
                   last |-> s.buf_start + s.structural_indexes[next]]
  IN  [s EXCEPT !.next_json = next,
                !.given = IF Len(@) > MaxDocuments THEN @ ELSE Append(@, document)]

More(s) ==
  LET loc == s.structural_indexes[s.next_json + 1]
      at_boundary == s.threads /\ loc = s.last_json_buffer_loc
  IN  [s EXCEPT !.current_buffer_loc = loc, !.load_next_batch = at_boundary,
                !.misled = IF at_boundary /\ s.thread = "none" THEN "stale" ELSE @]

\* Mutated EndOfBatch: the next batch is read from its first token on.
EndOfBatchFromStart(s) ==
  IF Len(Buf(s)) <= s.batch_size THEN Failed(s, "SUCCESS")
  ELSE [s EXCEPT !.current_buffer_loc = s.structural_indexes[s.next_json],
                 !.next_json = 0, !.load_next_batch = TRUE]

EndOfBatch(s) ==
  IF Len(Buf(s)) <= s.batch_size THEN Failed(s, "SUCCESS")
  ELSE [s EXCEPT !.current_buffer_loc = s.structural_indexes[s.next_json],
                 !.next_json = IF s.threads THEN @ ELSE 1,
                 !.load_next_batch = TRUE]

Parsed(s, next) ==
  IF next = None THEN Failed(s, "TAPE_ERROR")
  ELSE IF next + 1 = s.n THEN EndOfBatch(Given(s, next)) ELSE More(Given(s, next))

stage2(s) ==
  IF ~Ongoing(s) THEN {s}
  ELSE {Parsed(s, next) :
          next \in {Document(Buf(s), s.structural_indexes, s.n, s.next_json)}}

json_parse(s) == UNION {stage2(loaded) : loaded \in Load(s)}

-----------------------------------------------------------------------------
NoStream == stream = <<>>

OpenStream ==
  /\ kind = "stream" /\ NoStream
  /\ \E size \in 1..MaxBatch, threads \in BOOLEAN :
       \E opened \in {Opened(text, size, threads)} : stream' \in json_parse(opened)
  /\ UNCHANGED <<kind, text>>

\* The next step of the iterator, which has to wait for the thread before it can
\* load a batch.
Advance ==
  /\ ~NoStream /\ ~stream.finished
  /\ stream.load_next_batch => stream.thread # "running"
  /\ \/ Ongoing(stream) /\ stream' \in json_parse(stream)
     \/ ~Ongoing(stream) /\ stream' = [stream EXCEPT !.finished = TRUE]
  /\ UNCHANGED <<kind, text>>

ThreadScans ==
  /\ ~NoStream /\ stream.thread = "running"
  /\ stream' = [stream EXCEPT !.thread = "ended",
                              !.ahead = stage1(stream, stream.last_json_buffer_loc)]
  /\ UNCHANGED <<kind, text>>

StreamNext == OpenStream \/ Advance \/ ThreadScans

-----------------------------------------------------------------------------
Longest(t) == Max({Len(t[n]) : n \in DOMAIN t} \cup {0})

\* The documents given are those of the text, each once and in their order, and all
\* of them when there is no error: always without threads, however the text is cut
\* into batches, and with threads until a boundary misleads the stream
\* (simdjson.h:5972-6051).
StreamedInOrder ==
  kind = "stream" /\ ~NoStream /\ (stream.threads => stream.misled = "no") =>
    /\ IsPrefix(stream.given, stream.documents)
    /\ stream.error = "SUCCESS" => stream.given = stream.documents

\* A batch in which two documents have room is large enough: then nothing is
\* refused, unless the text ends in white space, and no array or object is cut.
StreamWhole ==
  kind = "stream" /\ ~NoStream /\ text # <<>> =>
    (stream.asked >= 2 * Longest(text) /\ Last(text) # Unended =>
       /\ stream.misled = "no" /\ Last(Last(text)) # Space =>
            stream.error \in {"SUCCESS", "SUCCESS_AND_HAS_MORE"}
       /\ (\A n \in DOMAIN text : text[n][1] \in Operators) => stream.misled # "cut")

\* "batch_size [...] MUST be larger than the largest document" (simdjson.h:3272): then
\* "the next document" is given by every step, until "every document it contained has
\* been parsed" (simdjson.h:4046-4063).  Of arrays and objects each is given once.
LargeBatchesInOrder ==
  kind = "stream" /\ ~NoStream /\ stream.asked > Longest(text)
    /\ (\A n \in DOMAIN text : text[n] # Unended /\ text[n][1] \in Operators)
  => IsPrefix(stream.given, stream.documents)
=============================================================================
