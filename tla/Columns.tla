------------------------------ MODULE Columns ------------------------------
(***************************************************************************)
(* The storage of one column (crates/rypipe-core/src/columnar.rs): a       *)
(* validity bitmap in words of WordBits bits, an arena of bytes with       *)
(* offsets for strings, an array for scalars, and codes into a dictionary. *)
(*                                                                         *)
(* A string is a sequence of small numbers (its bytes), a scalar is a      *)
(* number, and the text of the scalar n is the string <<n>>.               *)
(***************************************************************************)
EXTENDS Selection, Naturals, Sequences, FiniteSets, SequencesExt

CONSTANTS
  Null,        \* the absent value
  WordBits     \* bits in one word of a bitmap: 8 in the code

\* A value that is absent is neither a number nor a string.
ASSUME ColumnsAssumption ==
  WordBits \in Nat \ {0} /\ Null \notin Nat /\ Null \notin Seq(Nat)

-----------------------------------------------------------------------------
(* ValidityBitmap: bits is the words laid end to end.                      *)

NoBits == [bits |-> <<>>, len |-> 0, null_count |-> 0]

BitsPush(b, valid) ==
  LET room == IF b.len % WordBits = 0
                THEN b.bits \o [i \in 1..WordBits |-> FALSE] ELSE b.bits
  IN [bits |-> [room EXCEPT ![b.len + 1] = @ \/ valid],
      len |-> b.len + 1,
      null_count |-> IF valid THEN b.null_count ELSE b.null_count + 1]

\* A plausible slip: the popped bit stays set.
BitsPop_dirty(b) ==
  IF b.len = 0 THEN b ELSE [b EXCEPT !.len = @ - 1,
    !.null_count = IF b.bits[b.len] THEN @ ELSE @ - 1]

BitsPop(b) ==
  IF b.len = 0 THEN b
  ELSE LET n == b.len - 1
           cleared == [b.bits EXCEPT ![b.len] = FALSE]
       IN [bits |-> IF n % WordBits = 0
                      THEN SubSeq(cleared, 1, Len(cleared) - WordBits)
                      ELSE cleared,
           len |-> n,
           null_count |-> IF b.bits[b.len] THEN b.null_count
                          ELSE b.null_count - 1]

is_valid(b, i) == i <= b.len /\ b.bits[i]

\* Bits pushed one at a time.
BitsPushAll(b, valid) ==
  LET after[i \in 0..Len(valid)] ==
        IF i = 0 THEN b ELSE BitsPush(after[i - 1], valid[i])
  IN after[Len(valid)]

BitsOf(valid) == BitsPushAll(NoBits, valid)

ValidSeq(b) == [i \in 1..b.len |-> is_valid(b, i)]

\* A plausible slip: words are copied whatever the alignment.
BitsAppend_words(a, b) ==
  [bits |-> a.bits \o b.bits, len |-> a.len + b.len,
   null_count |-> a.null_count + b.null_count]

\* Whole words are copied when the end is aligned, and the bits beyond the new
\* end are masked; otherwise the bits are pushed one at a time.
BitsAppend(a, b) ==
  IF a.len % WordBits = 0
    THEN LET len == a.len + b.len
             words == a.bits \o b.bits
         IN [bits |-> [i \in DOMAIN words |-> i <= len /\ words[i]],
             len |-> len, null_count |-> a.null_count + b.null_count]
    ELSE BitsPushAll(a, ValidSeq(b))

BitsSplitOff(b, n) ==
  [drained |-> BitsOf(SubSeq(ValidSeq(b), 1, n)),
   rest |-> BitsOf(SubSeq(ValidSeq(b), n + 1, b.len))]

\* Arrow reads no bitmap at all when the column counts no null.
ArrowValid(b, i) == b.null_count = 0 \/ is_valid(b, i)

-----------------------------------------------------------------------------
(* ColumnBuilder: one record for every variant. Strings use arena and      *)
(* offsets; scalars use vals; a dictionary keeps its codes in vals, its    *)
(* entries in arena and offsets, and the entries' codes in index.          *)

Scalars == {"int64", "float64", "boolean", "date32", "timestamp[s]",
            "timestamp[ms]", "decimal128(2)", "decimal128"}

Kinds == Scalars \cup {"string", "dictionary"}

new_column(kind) ==
  [kind |-> kind, arena |-> <<>>,
   offsets |-> IF kind \in Scalars THEN <<>> ELSE <<0>>,
   vals |-> <<>>, validity |-> NoBits, index |-> <<>>]

len(c) == c.validity.len

\* The i-th string of the arena, i from 1.
Entry(c, i) == SubSeq(c.arena, c.offsets[i] + 1, c.offsets[i + 1])

Entries(c) == [i \in 1..(Len(c.offsets) - 1) |-> Entry(c, i)]

AddEntry(c, s) ==
  [c EXCEPT !.arena = @ \o s, !.offsets = Append(@, Len(c.arena \o s))]

\* The column with s in its dictionary, under the code it had or a new one.
dict_code(c, s) ==
  IF s \in DOMAIN c.index THEN c
  ELSE [AddEntry(c, s) EXCEPT
          !.index = [k \in DOMAIN @ \cup {s} |->
                       IF k = s THEN Len(c.offsets) - 1 ELSE @[k]]]

StrPush(c, s, valid) == [AddEntry(c, s) EXCEPT !.validity = BitsPush(@, valid)]

PrimPush(c, n, valid) ==
  [c EXCEPT !.vals = Append(@, n), !.validity = BitsPush(@, valid)]

PushText(c, s) ==
  IF c.kind = "string"
    THEN StrPush(c, s, TRUE)
    ELSE LET d == dict_code(c, s)
         IN PrimPush(d, d.index[s], TRUE)

PushNull(c) ==
  IF c.kind = "string" THEN StrPush(c, <<>>, FALSE) ELSE PrimPush(c, 0, FALSE)

\* The scalar a text denotes for a column of this kind, or Null.
Parsed(kind, s) ==
  IF Len(s) = 1 /\ (kind = "boolean" => s[1] \in {0, 1}) THEN s[1] ELSE Null

push_str(c, s) ==
  IF c.kind \notin Scalars THEN PushText(c, s)
  ELSE IF Parsed(c.kind, s) = Null THEN PushNull(c)
  ELSE PrimPush(c, Parsed(c.kind, s), TRUE)

\* The kinds of column that take a native value as it is.
Accepting(type) ==
  CASE type = "Int64"     -> {"int64", "float64"}
    [] type = "Float64"   -> {"float64", "int64"}
    [] type = "Bool"      -> {"boolean"}
    [] type = "Date32"    -> {"date32", "int64", "float64"}
    [] type = "Timestamp" -> {"timestamp[s]", "timestamp[ms]", "int64", "float64"}

push_value(c, value) ==
  CASE value.type = "Null" -> PushNull(c)
    [] value.type = "Str"  -> push_str(c, value.v)
    [] OTHER -> IF c.kind \notin Scalars THEN PushText(c, <<value.v>>)
                ELSE IF c.kind \in Accepting(value.type)
                  THEN PrimPush(c, value.v, TRUE)
                ELSE PushNull(c)

StrPop(c) ==
  [c EXCEPT !.validity = BitsPop(@), !.offsets = Front(@),
            !.arena = SubSeq(@, 1, c.offsets[Len(c.offsets) - 1])]

\* A dictionary keeps the entry of a value that is popped.
PrimPop(c) == [c EXCEPT !.validity = BitsPop(@), !.vals = Front(@)]

pop(c) ==
  IF len(c) = 0 THEN c ELSE IF c.kind = "string" THEN StrPop(c) ELSE PrimPop(c)

\* The first n cells of scalars or codes, and the rest.
PrimSplitOff(c, n) ==
  LET bits == BitsSplitOff(c.validity, n)
      Half(v, b) == [c EXCEPT !.vals = v, !.validity = b]
  IN [drained |-> Half(SubSeq(c.vals, 1, n), bits.drained),
      rest |-> Half(SubSeq(c.vals, n + 1, Len(c.vals)), bits.rest)]

\* The offsets of the rest are rebased to its own arena.
StrSplitOff(c, n) ==
  LET bits == BitsSplitOff(c.validity, n)
      cut == c.offsets[n + 1]
      Text(a, o, b) == [c EXCEPT !.arena = a, !.offsets = o, !.validity = b]
  IN [drained |-> Text(SubSeq(c.arena, 1, cut), SubSeq(c.offsets, 1, n + 1),
                       bits.drained),
      rest |-> Text(SubSeq(c.arena, cut + 1, Len(c.arena)),
                    [i \in 1..(Len(c.offsets) - n) |-> c.offsets[n + i] - cut],
                    bits.rest)]

\* The first n cells leave the column; both halves of a dictionary column have
\* the whole dictionary.
split_off(c, n) ==
  IF c.kind = "string" THEN StrSplitOff(c, n) ELSE PrimSplitOff(c, n)

-----------------------------------------------------------------------------
(* What a column means: its cells.                                         *)

\* A code without an entry reads as no value.
CellBy(c, i, valid) ==
  IF ~valid THEN Null
  ELSE CASE c.kind = "string"     -> Entry(c, i)
         [] c.kind = "dictionary" -> IF c.vals[i] + 1 < Len(c.offsets)
                                       THEN Entry(c, c.vals[i] + 1) ELSE Null
         [] OTHER                 -> c.vals[i]

Cells(c) == [i \in 1..len(c) |-> CellBy(c, i, is_valid(c.validity, i))]

\* The cells of the exported array, which trusts null_count.
Exported(c) == [i \in 1..len(c) |-> CellBy(c, i, ArrowValid(c.validity, i))]

\* DictionaryArray::try_new refuses a code beyond the dictionary.
Exportable(c) ==
  c.kind = "dictionary" =>
    \A i \in 1..len(c) :
      ArrowValid(c.validity, i) => c.vals[i] + 1 < Len(c.offsets)

\* A column of another kind with the same cells.
Recoded(c, kind) ==
  LET cells == Cells(c)
      after[i \in 0..Len(cells)] ==
        IF i = 0 THEN new_column(kind)
        ELSE IF cells[i] = Null THEN PushNull(after[i - 1])
        ELSE PushText(after[i - 1], cells[i])
  IN after[Len(cells)]

VariantKeys == Kinds \ {"decimal128(2)", "decimal128"}

\* The kind two columns can share, or "none".
unify_variants(a, b) ==
  CASE a = b -> IF a \in VariantKeys THEN a ELSE "none"
    [] {a, b} = {"int64", "float64"} -> "float64"
    [] {a, b} = {"string", "dictionary"} -> "dictionary"
    [] OTHER -> "none"

promote_to_variant(c, target) ==
  IF c.kind = target THEN c
  ELSE CASE c.kind = "int64"  -> [c EXCEPT !.kind = "float64"]
         [] c.kind = "string" -> Recoded(c, "dictionary")

\* A string column with few distinct values becomes a dictionary.
try_upgrade_to_dict(c, min_rows, cap) ==
  IF c.kind # "string" \/ len(c) < min_rows
     \/ Cardinality(ToSet(Cells(c)) \ {Null}) > cap
    THEN c ELSE Recoded(c, "dictionary")

StrAppend(a, b) ==
  [a EXCEPT !.arena = @ \o b.arena,
            !.offsets = @ \o [i \in 1..(Len(b.offsets) - 1) |->
                                 b.offsets[i + 1] + Len(a.arena)],
            !.validity = BitsAppend(@, b.validity)]

PrimAppend(a, b) ==
  [a EXCEPT !.vals = @ \o b.vals, !.validity = BitsAppend(@, b.validity)]

\* The column with some texts in its dictionary.
Known(c, texts) ==
  LET after[i \in 0..Len(texts)] ==
        IF i = 0 THEN c ELSE dict_code(after[i - 1], texts[i])
  IN after[Len(texts)]

\* b's entries join a's dictionary, then b's codes are translated.
DictAppend(a, b) ==
  LET merged == Known(a, Entries(b))
      translated == [i \in DOMAIN b.vals |->
                       IF is_valid(b.validity, i)
                         THEN merged.index[Entry(b, b.vals[i] + 1)] ELSE 0]
  IN [merged EXCEPT !.vals = @ \o translated,
                    !.validity = BitsPushAll(@, ValidSeq(b.validity))]

\* b's cells after a's; both have the same kind.
extend_owned(a, b) ==
  IF len(a) = 0 THEN b
  ELSE CASE a.kind = "string"     -> StrAppend(a, b)
         [] a.kind = "dictionary" -> DictAppend(a, b)
         [] OTHER                 -> PrimAppend(a, b)

-----------------------------------------------------------------------------
(* Unifying the dictionaries of the chunks (crates/rypipe-core/src/dict.rs *)
(* and the caller in parallel.rs). seed is the first chunk's column.       *)

\* The entries beyond the seed's length, each once, in the chunks' order. The
\* caller leaves the seed's own index empty, so the seed's values are not
\* among the values that are already known.
Overflow(seed, locals) ==
  LET n == Len(Entries(seed))
      fresh == [j \in DOMAIN locals |->
                  SubSeq(Entries(locals[j]), n + 1, Len(Entries(locals[j])))]
  IN Firsts(FlattenSeq(fresh))

unified(seed, locals) ==
  LET extra == Overflow(seed, locals)
      after[i \in 0..Len(extra)] ==
        IF i = 0 THEN [seed EXCEPT !.index = <<>>]
        ELSE AddEntry(after[i - 1], extra[i])
  IN after[Len(extra)]

PositionOf(s, v) == CHOOSE i \in DOMAIN s : s[i] = v

\* A plausible slip: the codes of overflow values start at 0.
remap_unbased(seed, locals, j) ==
  LET extra == Overflow(seed, locals)
      own == Entries(locals[j])
  IN [i \in DOMAIN own |->
        IF own[i] \in ToSet(extra)
          THEN PositionOf(extra, own[i]) - 1 ELSE i - 1]

\* The code of each local entry: the global one of an overflow value, the code
\* it has for any other value.
remap(seed, locals, j) ==
  LET extra == Overflow(seed, locals)
      own == Entries(locals[j])
  IN [i \in DOMAIN own |->
        IF own[i] \in ToSet(extra)
          THEN Len(Entries(seed)) + PositionOf(extra, own[i]) - 1
          ELSE i - 1]

\* The column with its codes remapped and the unified dictionary.
replace_dict(c, dict, map) ==
  LET entries == Entries(dict)
  IN [c EXCEPT
        !.vals = [i \in DOMAIN @ |->
                    IF is_valid(c.validity, i) /\ @[i] + 1 \in DOMAIN map
                      THEN map[@[i] + 1] ELSE @[i]],
        !.arena = dict.arena, !.offsets = dict.offsets,
        !.index = [s \in ToSet(entries) |->
                     CHOOSE i \in 0..(Len(entries) - 1) :
                       /\ entries[i + 1] = s
                       /\ \A k \in (i + 2)..Len(entries) : entries[k] # s]]

-----------------------------------------------------------------------------
(* The representation every operation keeps.                               *)

BitsOK(b) ==
  /\ Len(b.bits) % WordBits = 0
  /\ Len(b.bits) >= b.len /\ Len(b.bits) < b.len + WordBits
  /\ \A i \in (b.len + 1)..Len(b.bits) : ~b.bits[i]
  /\ b.null_count = Cardinality({i \in 1..b.len : ~b.bits[i]})

TextOK(c) ==
  /\ c.offsets[1] = 0
  /\ \A i \in 1..(Len(c.offsets) - 1) : c.offsets[i] <= c.offsets[i + 1]
  /\ c.offsets[Len(c.offsets)] = Len(c.arena)

DictOK(c) ==
  /\ DOMAIN c.index = ToSet(Entries(c))
  /\ \A s \in DOMAIN c.index : Entry(c, c.index[s] + 1) = s
  /\ \A i \in DOMAIN c.vals :
       is_valid(c.validity, i) => c.vals[i] + 1 < Len(c.offsets)

ColumnOK(c) ==
  /\ BitsOK(c.validity)
  /\ IF c.kind = "string" THEN Len(c.offsets) = len(c) + 1 /\ c.vals = <<>>
     ELSE Len(c.vals) = len(c)
  /\ c.kind \notin Scalars => TextOK(c)
  /\ c.kind = "dictionary" => DictOK(c)
=============================================================================
