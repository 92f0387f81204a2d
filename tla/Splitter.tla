------------------------------ MODULE Splitter ------------------------------
(***************************************************************************)
(* Where an input may be cut (crates/rypipe-core/src/decoder.rs). A        *)
(* position is the number of bytes before it, a byte one of a few letters. *)
(* A format says what continues a line, whether there are comment lines,   *)
(* whether records are lines or paragraphs, and which delimiters enclose   *)
(* regions without a boundary.                                             *)
(*                                                                         *)
(* Records is the format itself, as a parser reads it from the front; the  *)
(* code never looks at an input that way, it looks back from a position.   *)
(***************************************************************************)
EXTENDS Naturals, Sequences, FiniteSets, SequencesExt, FiniteSetsExt

CONSTANTS
  MaxSplitChunks,  \* MAX_SPLIT_CHUNKS, 1024 in the code
  Window           \* how far back a region's opener is looked for

ASSUME SplitterAssumption ==
  MaxSplitChunks \in Nat \ {0} /\ Window \in Nat \ {0}

\* A boundary is never at the front of the input.
NoPosition == 0

At(b, p) == b[p + 1]

Newlines(b) == {p \in 0..(Len(b) - 1) : At(b, p) = "LF"}

-----------------------------------------------------------------------------
(* Line ends.                                                              *)

\* The end of the text of the line that the newline nl ends.
TextEnd(b, nl) == IF nl > 0 /\ At(b, nl - 1) = "CR" THEN nl - 1 ELSE nl

\* An escape that is itself escaped does not continue the line.
is_continued_newline(b, nl) ==
  LET end == TextEnd(b, nl)
      run == Max({k \in 0..end : \A i \in (end - k)..(end - 1) : At(b, i) = "ESC"})
  IN run % 2 = 1

\* A plausible slip: the carriage return of a CRLF is taken for the line's text.
continued_crlf(f, b, nl) ==
  f.continuation # "none" /\ nl > 0 /\ At(b, nl - 1) = f.continuation

continued(f, b, nl) ==
  CASE f.continuation = "none" -> FALSE
    [] f.continuation = "ESC"  -> is_continued_newline(b, nl)
    [] OTHER -> LET end == TextEnd(b, nl)
                IN end > 0 /\ At(b, end - 1) = f.continuation

line_start(b, nl) ==
  Max({0} \cup {p + 1 : p \in {q \in Newlines(b) : q < nl}})

is_comment(f, b, nl) ==
  LET start == line_start(b, nl)
  IN f.comments /\ start < nl /\ At(b, start) = "#"

\* The newline nl ends an empty line that is not part of the line before it.
EndsBlankLine(f, b, nl) ==
  LET end == TextEnd(b, nl)
  IN /\ end > 0 /\ At(b, end - 1) = "LF"
     /\ ~continued(f, b, end - 1)
     /\ ~is_comment(f, b, end - 1)

\* A record may end at the newline nl.
IsBoundary(f, b, nl) ==
  /\ ~continued(f, b, nl)
  /\ ~is_comment(f, b, nl)
  /\ f.blank => EndsBlankLine(f, b, nl)

\* The first boundary after from.
find_next_record_boundary(f, b, from) ==
  LET found == {nl \in Newlines(b) : nl >= from /\ IsBoundary(f, b, nl)}
  IN IF found = {} THEN NoPosition ELSE Min(found) + 1

\* The window behind a position holds an opener without its closer.
in_skip_region(f, b, at) ==
  \E r \in f.regions :
    \E p \in (IF at > Window THEN at - Window ELSE 0)..(at - 1) :
      /\ At(b, p) = r[1]
      /\ \A q \in (p + 1)..(at - 1) : At(b, q) # r[2]

-----------------------------------------------------------------------------
(* Split points.                                                           *)

AtMost(a, b) == IF a < b THEN a ELSE b
AtLeast(a, b) == IF a < b THEN b ELSE a

plan_chunk_count_with(bytes, threads, mode, min_chunk_bytes) ==
  LET by_size == bytes \div AtLeast(min_chunk_bytes, 1)
      cap == (IF mode = "Parallel" THEN 16 ELSE 8) * threads
  IN AtMost(AtLeast(AtMost(by_size, cap), threads), MaxSplitChunks)

\* The members of a finite set of numbers in ascending order.
Ascending(S) ==
  CHOOSE s \in [1..Cardinality(S) -> S] :
    \A i, j \in 1..Cardinality(S) : i < j => s[i] < s[j]

default_find_split_points(f, b, max_chunks, min_chunk_bytes) ==
  LET n == plan_chunk_count_with(Len(b), max_chunks, "Parallel", min_chunk_bytes)
      found == {find_next_record_boundary(f, b, (Len(b) \div n) * i) : i \in 1..(n - 1)}
      safe == {p \in found \ {NoPosition} : p > 0 /\ ~in_skip_region(f, b, p)}
  IN IF max_chunks <= 1 \/ b = <<>> THEN <<0, Len(b)>>
     ELSE Ascending({0, Len(b)} \cup safe)

\* Empty ranges are left out.
split_points_to_ranges(points, length) ==
  LET kept == Ascending({i \in 1..(Len(points) - 1) : points[i] < points[i + 1]})
  IN IF Len(points) < 2 THEN << <<0, length>> >>
     ELSE [i \in DOMAIN kept |-> <<points[kept[i]], points[kept[i] + 1]>>]

\* A splitter without any range gets the whole input as one.
Ranges(f, b, max_chunks, min_chunk_bytes) ==
  LET ranges == split_points_to_ranges(
                  default_find_split_points(f, b, max_chunks, min_chunk_bytes), Len(b))
  IN IF ranges = <<>> THEN << <<0, Len(b)>> >> ELSE ranges

-----------------------------------------------------------------------------
(* The format, read from the front. glue: the line goes on with a record   *)
(* begun on the line before. await: the closer of the region we are in.    *)

NothingRead == [recs |-> <<>>, rec |-> <<>>, line |-> <<>>, glue |-> FALSE,
                await |-> "none"]

EndRecord(s) ==
  [s EXCEPT !.recs = IF s.rec = <<>> THEN @ ELSE Append(@, s.rec), !.rec = <<>>]

\* Whether the text of a line says that it goes on.
GoesOn(f, text) ==
  LET escapes == Max({k \in 0..Len(text) :
                        \A i \in (Len(text) - k + 1)..Len(text) : text[i] = "ESC"})
  IN IF f.continuation = "ESC" THEN escapes % 2 = 1
     ELSE text # <<>> /\ Last(text) = f.continuation

EndLine(f, s) ==
  LET text == IF s.line # <<>> /\ Last(s.line) = "CR" THEN Front(s.line) ELSE s.line
      next == [s EXCEPT !.line = <<>>, !.glue = FALSE]
      with == [next EXCEPT !.rec = @ \o text]
  IN CASE f.comments /\ ~s.glue /\ text # <<>> /\ text[1] = "#" -> next
       [] OTHER ->
            IF GoesOn(f, text)
              THEN [next EXCEPT !.rec = @ \o Front(text), !.glue = TRUE]
            ELSE IF ~f.blank THEN EndRecord(with)
            ELSE IF text = <<>> /\ ~s.glue THEN EndRecord(next)
            ELSE [with EXCEPT !.rec = Append(@, "LF")]

ReadByte(f, s, c) ==
  LET plain == [s EXCEPT !.line = Append(@, c)]
      opened == {r \in f.regions : r[1] = c}
  IN IF s.await # "none"
       THEN [plain EXCEPT !.await = IF c = s.await THEN "none" ELSE s.await]
     ELSE IF opened # {} THEN [plain EXCEPT !.await = (CHOOSE r \in opened : TRUE)[2]]
     ELSE IF c = "LF" THEN EndLine(f, s)
     ELSE plain

ReadAll(f, b) ==
  LET read[n \in 0..Len(b)] ==
        IF n = 0 THEN NothingRead ELSE ReadByte(f, read[n - 1], b[n])
  IN read[Len(b)]

\* The records of an input that ends after b.
Records(f, b) ==
  LET s == ReadAll(f, b)
  IN EndRecord(IF s.line = <<>> THEN s ELSE EndLine(f, [s EXCEPT !.await = "none"])).recs

\* No record is open after b.
Complete(f, b) ==
  LET s == ReadAll(f, b) IN s.rec = <<>> /\ s.line = <<>> /\ ~s.glue

\* No region that is open at a newline began further back than the window.
RegionsFit(f, b) ==
  \A nl \in Newlines(b) :
    ReadAll(f, SubSeq(b, 1, nl)).await # "none" =>
      \E p \in 0..(nl - 1) : /\ nl + 1 - p <= Window
                             /\ ReadAll(f, SubSeq(b, 1, p)).await = "none"
=============================================================================
