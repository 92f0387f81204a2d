------------------------------ MODULE Assembly ------------------------------
(***************************************************************************)
(* From rows to record batches. Rows are parsed into table builders, one   *)
(* per chunk, and the builders become batches in one of three ways:        *)
(*   - ParallelExecutor::parse (crates/rypipe-core/src/parallel.rs), which *)
(*     exports every builder as it is, or unifies the chunks' dictionaries *)
(*     first, or merges all builders into one (merge.rs);                  *)
(*   - the spilling sink (spill.rs), which splits batches off one builder, *)
(*     collected and aligned by CollectingConsumer (consumer.rs);          *)
(*   - a caller of the public engines_to_record_batches with builders of   *)
(*     different plans.                                                    *)
(* The specification of all three is the serial table: the accepted rows,  *)
(* in order, with the columns in order of their first appearance.          *)
(***************************************************************************)
EXTENDS Columns

CONSTANTS
  Configs,    \* the plans and inputs to check, one is chosen at the start
  FieldOrder  \* the order in which the fields of a record come

NativeTypes == {"Int64", "Float64", "Bool", "Date32", "Timestamp"}

ValueOK(value) ==
  \/ value.type = "Null"
  \/ value.type = "Str" /\ value.v \in Seq(Nat)
  \/ value.type \in NativeTypes /\ value.v \in Nat

\* Every plan knows the kind of each column. A spilling sink has one builder,
\* and its rows have a column: a batch without any has no rows.
ConfigOK(k) ==
  /\ \E names \in SUBSET ToSet(FieldOrder) :
       /\ k.kinds \in Seq([names -> Kinds])
       /\ k.schema_order \in Seq(names) /\ k.filter_names \subseteq names
  /\ \A value \in k.values : ValueOK(value)
  /\ k.min_fields \in Nat
  /\ k.mode = "spill" =>
       Len(k.kinds) = 1 /\ (k.schema_order = <<>> => k.min_fields > 0)

\* A record has a field at most once.
ASSUME AssemblyAssumption ==
  /\ FieldOrder \in Seq(ToSet(FieldOrder))
  /\ \A i, j \in DOMAIN FieldOrder : FieldOrder[i] = FieldOrder[j] => i = j
  /\ \A k \in Configs : ConfigOK(k)

VARIABLES
  cfg,       \* the chosen plan and bounds
  engines,   \* one table builder per chunk
  state,     \* per chunk: "parsing", "parsed" or "failed"
  batches,   \* the batches made so far
  phase,     \* "parse", "upgraded", "unified", "ok" or "err"
  log        \* history: per chunk, every row with what became of it

vars == <<cfg, engines, state, batches, phase, log>>

Chunks == DOMAIN cfg.kinds

AllNames == UNION {DOMAIN cfg.kinds[c] : c \in Chunks}

\* The rows a parser may produce: some fields, with or without a value.
Rows == UNION {[present -> cfg.values] :
                 present \in {s \in SUBSET AllNames : Cardinality(s) >= cfg.min_fields}}

Projects == cfg.schema_order # <<>>

-----------------------------------------------------------------------------
(* Table builders, reduced to what assembly looks at.                      *)

\* The columns a projection declares before any row.
predeclared ==
  IF Projects
    THEN cfg.schema_order \o Picked(FieldOrder, {i \in DOMAIN FieldOrder :
           FieldOrder[i] \in cfg.filter_names \ ToSet(cfg.schema_order)})
    ELSE <<>>

new_engine(c) ==
  [cols |-> [n \in ToSet(predeclared) |-> new_column(cfg.kinds[c][n])],
   order |-> predeclared, row_count |-> 0, strict_error |-> FALSE]

wants(n) ==
  Projects => n \in ToSet(cfg.schema_order) \cup cfg.filter_names

Nulls(col, n) ==
  LET after[i \in 0..n] == IF i = 0 THEN col ELSE PushNull(after[i - 1])
  IN after[n]

\* The engine with a column for n, null in every row so far.
ensure_column(e, n, kind) ==
  IF n \in DOMAIN e.cols THEN e
  ELSE [e EXCEPT !.cols = [m \in DOMAIN @ \cup {n} |->
                             IF m = n THEN Nulls(new_column(kind), e.row_count)
                             ELSE @[m]],
                 !.order = Append(@, n)]

violates(kind, value) ==
  value.type = "Str" /\ kind \in Scalars /\ Parsed(kind, value.v) = Null

PutField(e, n, kind, value) ==
  LET with == ensure_column(e, n, kind)
  IN [with EXCEPT !.cols[n] = push_value(@, value),
                  !.strict_error = @ \/ (cfg.strict /\ violates(kind, value))]

\* The cells of one row's fields, the row not yet ended.
PutFields(e, c, row) ==
  LET after[i \in 0..Len(FieldOrder)] ==
        IF i = 0 THEN e
        ELSE LET n == FieldOrder[i]
             IN IF n \in DOMAIN row /\ wants(n)
                  THEN PutField(after[i - 1], n, cfg.kinds[c][n], row[n])
                  ELSE after[i - 1]
  IN after[Len(FieldOrder)]

FillMissing(e) ==
  [e EXCEPT !.cols = [n \in DOMAIN @ |-> IF len(@[n]) = e.row_count
                                            THEN PushNull(@[n]) ELSE @[n]]]

\* A plausible slip: only the columns the row wrote are popped.
PopRow_short(e) ==
  [e EXCEPT !.cols = [n \in DOMAIN @ |->
     IF @[n].validity.bits[len(@[n])] THEN pop(@[n]) ELSE @[n]]]

\* Every column gives up the cell of a row the filter rejects at its end.
PopRow(e) == [e EXCEPT !.cols = [n \in DOMAIN @ |-> pop(@[n])]]

Popped(col, n) ==
  LET after[i \in 0..n] == IF i = 0 THEN col ELSE pop(after[i - 1])
  IN after[n]

\* A row that is never ended leaves cells beyond row_count.
normalize(e) ==
  [e EXCEPT !.cols = [n \in DOMAIN @ |-> Popped(@[n], len(@[n]) - e.row_count)]]

-----------------------------------------------------------------------------
(* Exporting builders.                                                     *)

auto_dict_upgrade(e) ==
  IF ~cfg.auto_dict THEN e
  ELSE [e EXCEPT !.cols = [n \in DOMAIN @ |->
          try_upgrade_to_dict(@[n], cfg.dict_min_rows, cfg.dict_cap)]]

Failed == [ok |-> FALSE, batches |-> <<>>]

Batch(order, rows, cols) == [order |-> order, rows |-> rows, cols |-> cols]

Column(col) == [kind |-> col.kind, cells |-> Exported(col)]

NullArray(kind, rows) == [kind |-> kind, cells |-> [i \in 1..rows |-> Null]]

\* A filter made of comparisons between columns is applied to every batch
\* again. The rows already satisfy it, but it needs both of its columns.
apply_compare_filter(order) ==
  cfg.compare_filter => cfg.filter_names \subseteq ToSet(order)

\* TableBuilder::finish: one batch; a projection emits its columns only, and
\* without any column the batch is empty.
finish(e) ==
  LET n == auto_dict_upgrade(normalize(e))
      order == IF Projects THEN cfg.schema_order ELSE n.order
  IN IF e.strict_error \/ \E m \in ToSet(order) : ~Exportable(n.cols[m])
       THEN Failed
     ELSE [ok |-> TRUE,
           batches |-> <<Batch(order, IF order = <<>> THEN 0 ELSE n.row_count,
                               [m \in ToSet(order) |-> Column(n.cols[m])])>>]

FirstAppearance(orders) == Firsts(FlattenSeq(orders))

Having(es, n) == Picked(es, {i \in DOMAIN es : n \in DOMAIN es[i].cols})

\* The common kind of column n over the engines that have it.
target(es, n) ==
  LET with == Having(es, n)
      common[i \in 1..Len(with)] ==
        IF i = 1 THEN with[1].cols[n].kind
        ELSE LET before == common[i - 1]
             IN IF before = "none" THEN before
                ELSE unify_variants(before, with[i].cols[n].kind)
  IN common[Len(with)]

\* Promoting to the unified kind can fail only for a dictionary or a float
\* that another unification already excludes.
engines_to_record_batches(es) ==
  LET live == Picked([i \in DOMAIN es |-> normalize(es[i])],
                     {i \in DOMAIN es : es[i].row_count > 0})
      order == FirstAppearance([i \in DOMAIN live |-> live[i].order])
      kind == [n \in ToSet(order) |-> target(live, n)]
      promoted(e, n) == promote_to_variant(e.cols[n], kind[n])
      exported(e) ==
        Batch(order, e.row_count,
          [n \in ToSet(order) |->
             IF n \in DOMAIN e.cols THEN Column(promoted(e, n))
             ELSE NullArray(kind[n], e.row_count)])
  IN IF \/ \E i \in DOMAIN es : es[i].strict_error
        \/ \E n \in ToSet(order) : kind[n] = "none"
        \/ \E i \in DOMAIN live : \E n \in DOMAIN live[i].cols :
             ~Exportable(promoted(live[i], n))
        \/ order # <<>> /\ ~apply_compare_filter(order)
       THEN Failed
     ELSE [ok |-> TRUE,
           batches |-> IF order = <<>> THEN <<>>
                       ELSE [i \in DOMAIN live |-> exported(live[i])]]

\* Every chunk agrees with the first on the kind of the columns it has.
schemas_consistent(es) ==
  \A e \in ToSet(Tail(es)) : \A n \in DOMAIN e.cols \cap DOMAIN es[1].cols :
    e.cols[n].kind = es[1].cols[n].kind

-----------------------------------------------------------------------------
(* The merge path: the builders are appended to one.                       *)

\* A merge that failed stays failed.
extend(a, b) ==
  LET m == normalize(b)
      widened[i \in 0..Len(m.order)] ==
        IF i = 0 THEN normalize(a)
        ELSE ensure_column(widened[i - 1], m.order[i], b.planned[m.order[i]])
      with == widened[Len(m.order)]
      kind(n) == IF with.cols[n].kind = m.cols[n].kind THEN m.cols[n].kind
                 ELSE unify_variants(with.cols[n].kind, m.cols[n].kind)
      joined(n) == IF n \in DOMAIN m.cols
                     THEN extend_owned(promote_to_variant(with.cols[n], kind(n)),
                                       promote_to_variant(m.cols[n], kind(n)))
                     ELSE Nulls(with.cols[n], m.row_count)
  IN IF \/ a.conflict
        \/ \E n \in DOMAIN m.cols : kind(n) = "none"
       THEN [a EXCEPT !.conflict = TRUE]
     ELSE [with EXCEPT !.cols = [n \in DOMAIN @ |-> joined(n)],
                       !.row_count = @ + m.row_count,
                       !.strict_error = @ \/ b.strict_error]

Merged ==
  LET base == new_engine(1)
      Wrap(e, c) == [cols |-> e.cols, order |-> e.order, row_count |-> e.row_count,
                     strict_error |-> e.strict_error, conflict |-> FALSE,
                     planned |-> cfg.kinds[c]]
      upto[c \in {0} \cup Chunks] ==
        IF c = 0 THEN Wrap(base, 1) ELSE extend(upto[c - 1], Wrap(engines[c], c))
  IN upto[Len(engines)]

-----------------------------------------------------------------------------
(* The dictionary path: one column's dictionaries are unified.             *)

IsDict(e, n) == n \in DOMAIN e.cols /\ e.cols[n].kind = "dictionary"

\* Columns whose dictionaries differ from the first chunk's.
Differing ==
  LET order == engines[1].order
      Differs(n) == /\ IsDict(engines[1], n)
                    /\ \E e \in ToSet(engines) :
                         /\ IsDict(e, n)
                         /\ Entries(e.cols[n]) # Entries(engines[1].cols[n])
  IN Picked(order, {i \in DOMAIN order : Differs(order[i])})

\* Only the first of them is unified. The remap tables are those of the chunks
\* that have the column, but are paired with all chunks in order.
Unified ==
  LET n == Differing[1]
      seed == engines[1].cols[n]
      having == Having(engines, n)
      locals == [i \in DOMAIN having |-> having[i].cols[n]]
      dict == unified(seed, locals)
  IN [c \in Chunks |->
        IF IsDict(engines[c], n) /\ c <= Len(locals)
          THEN [engines[c] EXCEPT
                  !.cols[n] = replace_dict(@, dict, remap(seed, locals, c))]
          ELSE engines[c]]

-----------------------------------------------------------------------------
(* The states.                                                             *)

Init ==
  /\ cfg \in Configs
  /\ engines = [c \in Chunks |-> new_engine(c)]
  /\ state = [c \in Chunks |-> "parsing"]
  /\ batches = <<>>
  /\ phase = "parse"
  /\ log = [c \in Chunks |-> <<>>]

\* A comparison of two fields holds only when both have a value.
NonNull(row) == {n \in DOMAIN row : row[n].type # "Null"}

Log(c, row, fate) ==
  log' = [log EXCEPT ![c] = Append(@, [vals |-> row, fate |-> fate])]

\* The sink spills before the decoder goes on.
SpillDue ==
  cfg.mode = "spill" /\ engines[1].row_count >= cfg.rows_per_batch

\* A worker parses one whole row of its chunk; the filter keeps or rejects it.
ParseRow(c) ==
  /\ phase = "parse" /\ state[c] = "parsing" /\ ~SpillDue
  /\ Len(log[c]) < cfg.max_rows
  /\ \E row \in Rows :
       LET whole == FillMissing(PutFields(engines[c], c, row))
       IN \/ /\ cfg.compare_filter => cfg.filter_names \subseteq NonNull(row)
             /\ engines' = [engines EXCEPT ![c] =
                              [whole EXCEPT !.row_count = @ + 1]]
             /\ Log(c, row, "accepted")
          \/ /\ cfg.filtered
             /\ engines' = [engines EXCEPT ![c] = PopRow(whole)]
             /\ Log(c, row, "rejected")
  /\ UNCHANGED <<cfg, state, batches, phase>>

\* The chunk ends, perhaps inside a row.
EndChunk(c) ==
  /\ phase = "parse" /\ state[c] = "parsing" /\ ~SpillDue
  /\ state' = [state EXCEPT ![c] = "parsed"]
  /\ \/ UNCHANGED <<engines, log>>
     \/ /\ cfg.partial
        /\ \E row \in Rows :
             /\ engines' = [engines EXCEPT ![c] = PutFields(@, c, row)]
             /\ Log(c, row, "partial")
  /\ UNCHANGED <<cfg, batches, phase>>

\* validate or parse_chunk fails, or the worker panics.
ChunkFails(c) ==
  /\ phase = "parse" /\ state[c] = "parsing" /\ cfg.chunks_fail
  /\ state' = [state EXCEPT ![c] = "failed"]
  /\ UNCHANGED <<cfg, engines, batches, phase, log>>

\* A plausible slip: chunks that failed are left out.
AllParsed_failed ==
  phase = "parse" /\ \A c \in Chunks : state[c] # "parsing"

AllParsed == phase = "parse" /\ \A c \in Chunks : state[c] = "parsed"

Conclude(r) ==
  /\ batches' = r.batches
  /\ phase' = IF r.ok THEN "ok" ELSE "err"
  /\ UNCHANGED <<cfg, engines, state, log>>

\* Every chunk is parsed before the first error is returned.
CollectFails ==
  /\ phase = "parse"
  /\ \A c \in Chunks : state[c] # "parsing"
  /\ \E c \in Chunks : state[c] = "failed"
  /\ Conclude(Failed)

\* No automatic dictionaries, or a caller with builders of its own.
ExportChunks ==
  /\ AllParsed
  /\ \/ cfg.mode = "parallel" /\ ~cfg.auto_dict /\ schemas_consistent(engines)
     \/ cfg.mode = "direct"
  /\ Conclude(engines_to_record_batches(engines))

UpgradeChunks ==
  /\ AllParsed /\ cfg.mode = "parallel" /\ cfg.auto_dict
  /\ engines' = [c \in Chunks |-> auto_dict_upgrade(engines[c])]
  /\ phase' = "upgraded"
  /\ UNCHANGED <<cfg, state, batches, log>>

UnifyDictionaries ==
  /\ phase = "upgraded" /\ schemas_consistent(engines) /\ Differing # <<>>
  /\ engines' = Unified
  /\ phase' = "unified"
  /\ UNCHANGED <<cfg, state, batches, log>>

ExportUnified ==
  /\ \/ phase = "unified"
     \/ phase = "upgraded" /\ schemas_consistent(engines) /\ Differing = <<>>
  /\ Conclude(engines_to_record_batches(engines))

MergeChunks ==
  /\ \/ phase = "upgraded"
     \/ AllParsed /\ cfg.mode = "parallel" /\ ~cfg.auto_dict
     \/ AllParsed /\ cfg.mode = "extend"
  /\ cfg.mode = "parallel" => ~schemas_consistent(engines)
  /\ LET r == finish(Merged)
     IN Conclude(IF Merged.conflict \/ ~r.ok \/ ~apply_compare_filter(r.batches[1].order)
                   THEN Failed ELSE r)

\* The sink splits its rows off as one batch, also below rows_per_batch when
\* the columns are large; the rest keeps the columns.
SpillRows ==
  /\ phase = "parse" /\ cfg.mode = "spill"
  /\ engines[1].row_count > 0
  /\ LET e == engines[1]
         parts == [n \in DOMAIN e.cols |-> split_off(e.cols[n], e.row_count)]
         part == [e EXCEPT !.cols = [n \in DOMAIN @ |-> parts[n].drained],
                           !.strict_error = FALSE]
     IN /\ batches' = batches \o finish(part).batches
        /\ engines' = [engines EXCEPT
             ![1].cols = [n \in DOMAIN @ |-> parts[n].rest],
             ![1].row_count = 0]
  /\ UNCHANGED <<cfg, state, phase, log>>

\* CollectingConsumer::finish: one schema for all batches. A text column that
\* is a dictionary in some batches becomes plain text in all.
Aligned ==
  LET order == FirstAppearance([i \in DOMAIN batches |-> batches[i].order])
      kinds(n) == {b.cols[n].kind : b \in {c \in ToSet(batches) : n \in DOMAIN c.cols}}
      kind(n) == IF kinds(n) = {"string", "dictionary"} THEN "string"
                 ELSE CHOOSE k \in kinds(n) : TRUE
      aligned(b) == Batch(order, b.rows, [n \in ToSet(order) |->
                      IF n \in DOMAIN b.cols THEN [b.cols[n] EXCEPT !.kind = kind(n)]
                      ELSE NullArray(kind(n), b.rows)])
  IN [i \in DOMAIN batches |-> aligned(batches[i])]

\* finish_run: the last batch is out; a strict violation surfaces only now.
CollectBatches ==
  /\ AllParsed /\ cfg.mode = "spill" /\ engines[1].row_count = 0
  /\ Conclude(IF engines[1].strict_error THEN Failed
              ELSE [ok |-> TRUE, batches |-> Aligned])

Next ==
  \/ \E c \in Chunks : ParseRow(c) \/ EndChunk(c) \/ ChunkFails(c)
  \/ CollectFails
  \/ ExportChunks
  \/ UpgradeChunks
  \/ UnifyDictionaries
  \/ ExportUnified
  \/ MergeChunks
  \/ SpillRows
  \/ CollectBatches

Spec == Init /\ [][Next]_vars

-----------------------------------------------------------------------------
(* The serial table.                                                       *)

\* What a value becomes in a column of this kind.
Meaning(kind, value) ==
  CASE value.type = "Null" -> Null
    [] value.type = "Str"  -> IF kind \in Scalars THEN Parsed(kind, value.v)
                              ELSE value.v
    [] OTHER -> IF kind \notin Scalars THEN <<value.v>>
                ELSE IF kind \in Accepting(value.type) THEN value.v ELSE Null

Accepted(c) ==
  Picked(log[c], {i \in DOMAIN log[c] : log[c][i].fate = "accepted"})

\* The accepted cells of column n in chunk c.
SerialCells(c, n) ==
  [i \in DOMAIN Accepted(c) |->
     LET row == Accepted(c)[i].vals
     IN IF n \in DOMAIN row THEN Meaning(cfg.kinds[c][n], row[n]) ELSE Null]

Serial(n) == FlattenSeq([c \in Chunks |-> SerialCells(c, n)])

FieldsOf(row) ==
  Picked(FieldOrder, {i \in DOMAIN FieldOrder : FieldOrder[i] \in DOMAIN row})

\* The columns the rows of some chunks brought, in order of first appearance.
OrderOf(chunks) ==
  LET rows == FlattenSeq(Picked(log, {c \in DOMAIN log : log[c] \in chunks}))
  IN IF Projects THEN cfg.schema_order
     ELSE FirstAppearance([i \in DOMAIN rows |-> FieldsOf(rows[i].vals)])

SerialOrder == OrderOf(ToSet(log))

\* The same without the chunks that have no accepted row.
LiveOrder ==
  OrderOf({l \in ToSet(log) : \E i \in DOMAIN l : l[i].fate = "accepted"})

\* The cells of column n in the batches so far.
InBatches(n) ==
  FlattenSeq([i \in DOMAIN batches |->
    LET b == batches[i]
    IN IF n \in DOMAIN b.cols THEN b.cols[n].cells
       ELSE [j \in 1..b.rows |-> Null]])

Spilled(n) == IF cfg.mode = "spill" /\ phase # "ok" THEN InBatches(n) ELSE <<>>

\* The batches of a projection do not have the columns only its filter needs.
Emits(n) == Projects => n \in ToSet(cfg.schema_order)

Holds(c, n) ==
  LET col == engines[c].cols[n]
      held == SubSeq(Cells(col), 1, engines[c].row_count)
  IN IF cfg.mode = "spill" THEN Emits(n) => Spilled(n) \o held = SerialCells(c, n)
     ELSE held = SerialCells(c, n)

BuildersHold ==
  \A c \in Chunks : \A n \in DOMAIN engines[c].cols : Holds(c, n)

-----------------------------------------------------------------------------
(* Properties.                                                             *)

\* Every column of every builder keeps its representation: offsets, arena and
\* bitmap agree, no bit is set beyond the end, null_count is exact, and the
\* index of a dictionary is the inverse of its entries.
RepresentationOK ==
  \A c \in Chunks : \A n \in DOMAIN engines[c].cols :
    ColumnOK(engines[c].cols[n])

\* Rejected rows, partial rows, columns that appear late, dictionary upgrades
\* and split-off batches leave exactly the accepted cells in every builder
\* (TableBuilder, ColumnBuilder).
CellsKept == phase \in {"parse", "upgraded"} => BuildersHold

\* The batches are the serial table: every accepted row once and in order,
\* every cell with its value, the columns in order of first appearance (with
\* or without the chunks that have no accepted row) and none missing that an
\* accepted row has a value for. When the dictionary unification
\* changed a builder's cells, nothing is promised.
ResultIsSerial ==
  phase = "ok" /\ (cfg.mode = "parallel" => BuildersHold) =>
    LET order == IF batches = <<>> THEN <<>> ELSE batches[1].order
    IN /\ \A n \in ToSet(order) : InBatches(n) = Serial(n)
       /\ \E all \in {SerialOrder, LiveOrder} :
            order = Picked(all, {i \in DOMAIN all : all[i] \in ToSet(order)})
       /\ \A n \in ToSet(SerialOrder) \ ToSet(order) :
            \A i \in DOMAIN Serial(n) : Serial(n)[i] = Null
       /\ \A i \in DOMAIN batches : batches[i].order = order

\* A chunk that failed, a strict violation in any row and kinds that cannot be
\* reconciled are errors, and nothing else is.
ErrorsExact ==
  LET failed == \E c \in Chunks : state[c] = "failed"
      strict == \E c \in Chunks : engines[c].strict_error
      conflict ==
        \E c, d \in Chunks :
          \E n \in DOMAIN engines[c].cols \cap DOMAIN engines[d].cols :
            /\ unify_variants(cfg.kinds[c][n], cfg.kinds[d][n]) = "none"
            /\ cfg.mode = "direct" => engines[c].row_count > 0
                                      /\ engines[d].row_count > 0
  IN /\ phase = "ok"  => ~(failed \/ strict \/ conflict)
     /\ phase = "err" => failed \/ strict \/ conflict \/ ~BuildersHold

\* Unifying dictionaries changes no cell (unify_dictionaries says "Seed codes
\* are 0..seed.len(), overflow are seed.len().."; docs/why-python.md promises
\* "bit-identical results across read_bytes (Rust), read_bytes_par").
UnificationKeepsCells == phase = "unified" => BuildersHold

\* Dictionaries that agree with the first chunk's as far as both go are unified
\* without a change to any cell, whatever they hold beyond it.
PrefixesUnify ==
  [][phase' = "unified" /\ phase = "upgraded" =>
       LET n == Differing[1]
           all == {Entries(e.cols[n]) : e \in ToSet(engines)}
       IN (\A e \in ToSet(engines) : IsDict(e, n)) /\
          (\A d \in all : IsPrefix(d, Entries(engines[1].cols[n]))
                          \/ IsPrefix(Entries(engines[1].cols[n]), d))
          => BuildersHold']_vars

-----------------------------------------------------------------------------
(* Plans whose errors can be foretold.                                     *)

\* There is a chunk; the chunks of a parallel run have one plan; decimals are
\* left out, which no two builders can share; and the fields that a filter
\* compares are projected, so that every batch has them.
PlainPlan(k) ==
  /\ k.kinds # <<>>
  /\ \A c \in DOMAIN k.kinds : \A n \in DOMAIN k.kinds[c] : k.kinds[c][n] \in VariantKeys
  /\ k.mode = "parallel" => \A c, d \in DOMAIN k.kinds : k.kinds[c] = k.kinds[d]
  /\ k.compare_filter =>
       k.schema_order # <<>> /\ k.filter_names \subseteq ToSet(k.schema_order)

PlainPlans == \A k \in Configs : PlainPlan(k)
=============================================================================
