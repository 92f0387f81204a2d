---------------------------- MODULE RecordStream ----------------------------
(***************************************************************************)
(* The ways an input reaches a parser:                                     *)
(*   - a file is mapped, or decompressed through LimitReader               *)
(*     (crates/rypipe-core/src/input.rs), and split into ranges that are   *)
(*     parsed on their own (Splitter);                                     *)
(*   - a live feed arrives in pieces of any size and is parsed as far as   *)
(*     records are complete (RecordStream in streaming_parser.rs).         *)
(* Whichever it is, the records must be those of the whole input.          *)
(***************************************************************************)
EXTENDS Splitter

CONSTANTS
  Formats,       \* a format, its alphabet and the longest input of each kind
  Limit,         \* the limit on decompressed bytes
  CompactAfter,  \* COMPACT_AFTER: a consumed prefix is dropped from here on
  MaxRead,       \* the longest buffer a reader offers
  MaxChunks      \* the most chunks asked for

ASSUME StreamAssumption ==
  /\ Limit \in Nat /\ CompactAfter \in Nat /\ MaxRead \in Nat /\ MaxChunks \in Nat
  /\ \A k \in Formats : k.longest \in Nat

\* "none" is no byte, and the end of a line neither continues the line nor
\* closes a region (what ends at a line's end is a comment line).
ASSUME FormatAssumption ==
  \A k \in Formats :
    /\ "none" \notin k.alphabet
    /\ k.format.continuation # "LF"
    /\ \A r \in k.format.regions : r[2] \notin {"none", "LF", "CR"}

VARIABLES
  fmt,       \* the format
  input,     \* the whole input
  phase,     \* "new", "mapped", "reading", "read", "split", "stream", "eof", "err",
             \* "over": the limit is exceeded
  taken,     \* bytes of the input read or fed so far
  remaining, \* LimitReader::remaining
  ranges,    \* the ranges of a split input
  buffer, start, eof,   \* RecordStream
  emitted,   \* the records handed to the caller
  consumed   \* history: bytes of the input the parser has consumed

vars == <<fmt, input, phase, taken, remaining, ranges, buffer, start, eof,
          emitted, consumed>>

stream_vars == <<buffer, start, eof, emitted, consumed>>

Init ==
  /\ \E k \in Formats :
       /\ fmt = k.format
       /\ input \in UNION {[1..n -> k.alphabet] : n \in 0..k.longest}
  /\ phase = "new" /\ taken = 0 /\ remaining = Limit /\ ranges = <<>>
  /\ buffer = <<>> /\ start = 0 /\ eof = FALSE
  /\ emitted = <<>> /\ consumed = 0

-----------------------------------------------------------------------------
(* A file: read to its end, then split.                                    *)

\* A file that is not compressed is there in full; a compressed one is read.
open ==
  /\ phase = "new"
  /\ \/ phase' = "mapped" /\ taken' = Len(input)
     \/ phase' = "reading" /\ UNCHANGED taken
  /\ UNCHANGED <<fmt, input, remaining, ranges>> /\ UNCHANGED stream_vars

\* A plausible slip: the reader asks only for what it may return.
allowed_exact(length) == AtMost(remaining, length)

\* LimitReader::read asks for one byte more than it may return, to find out
\* whether there is one. The reader below may return less than asked for.
allowed(length) == AtMost(remaining + 1, length)

read ==
  /\ phase = "reading"
  /\ \E length \in 1..MaxRead : \E n \in 0..AtMost(allowed(length), Len(input) - taken) :
       /\ n = 0 => taken = Len(input) \/ allowed(length) = 0
       /\ IF n > remaining
            THEN /\ phase' = "over" /\ remaining' = 0
                 /\ UNCHANGED taken
            ELSE /\ phase' = IF n = 0 THEN "read" ELSE "reading"
                 /\ remaining' = remaining - n
                 /\ taken' = taken + n
  /\ UNCHANGED <<fmt, input, ranges>> /\ UNCHANGED stream_vars

Split ==
  /\ phase \in {"mapped", "read"}
  /\ \E max_chunks \in 1..MaxChunks : \E min_chunk_bytes \in {0, 2} :
       ranges' = Ranges(fmt, SubSeq(input, 1, taken), max_chunks, min_chunk_bytes)
  /\ phase' = "split"
  /\ UNCHANGED <<fmt, input, taken, remaining>> /\ UNCHANGED stream_vars

-----------------------------------------------------------------------------
(* A live feed.                                                            *)

\* Nothing is fed after finish, which says that no more bytes are coming.
feed ==
  /\ phase \in {"new", "stream"} /\ ~eof
  /\ \E n \in 1..(Len(input) - taken) :
       /\ buffer' = buffer \o SubSeq(input, taken + 1, taken + n)
       /\ taken' = taken + n
  /\ phase' = "stream"
  /\ UNCHANGED <<fmt, input, remaining, ranges, start, eof, emitted, consumed>>

finish ==
  /\ phase \in {"new", "stream"} /\ ~eof /\ taken = Len(input)
  /\ eof' = TRUE /\ phase' = "stream"
  /\ UNCHANGED <<fmt, input, taken, remaining, ranges, buffer, start, emitted, consumed>>

pending == SubSeq(buffer, start + 1, Len(buffer))

\* The parser's contract: every complete record, and the rest at the end.
parse_available(b) ==
  IF eof THEN Len(b)
  ELSE Max({n \in 0..Len(b) : Complete(fmt, SubSeq(b, 1, n))})

\* A plausible slip: only the buffer is compacted.
Compacted_unreset(b, s) ==
  IF s >= Len(b) \/ s >= CompactAfter
    THEN [buffer |-> SubSeq(b, s + 1, Len(b)), start |-> s]
    ELSE [buffer |-> b, start |-> s]

\* The consumed prefix leaves the buffer when it is all of it, or long.
Compacted(b, s) ==
  IF s >= Len(b) \/ s >= CompactAfter
    THEN [buffer |-> SubSeq(b, s + 1, Len(b)), start |-> 0]
    ELSE [buffer |-> b, start |-> s]

parse ==
  /\ phase = "stream"
  /\ LET n == parse_available(pending)
         after == Compacted(buffer, start + n)
     IN /\ emitted' = emitted \o Records(fmt, SubSeq(pending, 1, n))
        /\ consumed' = consumed + n
        /\ buffer' = after.buffer /\ start' = after.start
  /\ phase' = IF eof THEN "eof" ELSE "stream"
  /\ UNCHANGED <<fmt, input, taken, remaining, ranges, eof>>

\* The parser fails after some records: they are out, the buffer is as before.
\* The caller stops there. (A chunk that validate refuses changes nothing.)
parse_fails ==
  /\ phase = "stream" /\ phase' = "err"
  /\ LET records == Records(fmt, SubSeq(pending, 1, parse_available(pending)))
     IN \E n \in 0..Len(records) : emitted' = emitted \o SubSeq(records, 1, n)
  /\ UNCHANGED <<fmt, input, taken, remaining, ranges, buffer, start, eof, consumed>>

Next == open \/ read \/ Split \/ feed \/ finish \/ parse \/ parse_fails

Spec == Init /\ [][Next]_vars

-----------------------------------------------------------------------------
(* Properties.                                                             *)

RangeText(r) == SubSeq(input, r[1] + 1, r[2])

\* The ranges of a split input cover it in order, and parsing each on its own
\* gives the records of the whole: no range begins inside a record, a continued
\* line, a paragraph or a region, as long as no region outgrows the window
\* (Splitter::find_split_points, find_next_record_boundary, in_skip_region).
SplitKeepsRecords ==
  phase = "split" =>
    /\ ranges[1][1] = 0 /\ Last(ranges)[2] = Len(input)
    /\ \A i \in 1..(Len(ranges) - 1) :
         ranges[i][1] < ranges[i][2] /\ ranges[i][2] = ranges[i + 1][1]
    /\ RegionsFit(fmt, input) =>
         FlattenSeq([i \in DOMAIN ranges |-> Records(fmt, RangeText(ranges[i]))])
           = Records(fmt, input)

\* However a feed is cut into pieces and whenever it is parsed, nothing is lost,
\* repeated or torn: the records out and the bytes kept are the bytes fed, and
\* a failure leaves the caller with the first records of the input
\* (RecordStream::feed, parse and its compaction).
StreamKeepsRecords ==
  /\ phase \in {"stream", "eof"} =>
       /\ pending = SubSeq(input, consumed + 1, taken)
       /\ emitted = Records(fmt, SubSeq(input, 1, consumed))
  /\ phase = "eof" => emitted = Records(fmt, input)
  /\ IsPrefix(emitted, Records(fmt, input))

\* A file is read to its end exactly when it is within the limit (LimitReader).
LimitExact ==
  /\ phase = "read" => taken = Len(input) /\ taken <= Limit
  /\ phase = "over" => Len(input) > Limit
=============================================================================
