---------------------------- MODULE TableBuilder ----------------------------
(***************************************************************************)
(* The columnar sink of crates/rypipe-core/src/engine/table_builder.rs.    *)
(* A decoder feeds it rows, one field at a time; the builder resolves the  *)
(* field's column, applies the row filter, and appends to columns that     *)
(* must all stay equally long.  With a filter it either buffers the row    *)
(* until the predicate is decided, or, when the predicate column comes     *)
(* late, pushes every value and pops the row again if it is rejected.      *)
(*                                                                         *)
(* Names and values are small sets; a value is kept as it is, except that  *)
(* one that does not parse into its column's declared type becomes null.   *)
(* Slots are numbered from 1 and the row being built is row_count + 1.     *)
(***************************************************************************)
EXTENDS Integers, Sequences, FiniteSets, SequencesExt

CONSTANTS
  Null,    \* Value::Null, and an empty cell
  Configs  \* each a plan, a frozen schema, a decoder and an input

\* What a builder is created with, how its decoder calls it, and the bounds of
\* the input.
ConfigFields ==
  {"names", "values", "field_map", "drop_fields", "schema_order", "filter",
   "field_types", "dictionary_columns", "unparsable", "std_unparsable",
   "strict_types", "frozen", "frozen_order",
   "memory_limited", "api", "short_circuits", "uses_slots", "unique_fields",
   "partial_rows", "max_fields", "max_rows"}

Apis == {"put_field", "put_field_resolved", "resolve_and_put"}

\* FieldType.  Timestamps differ by their unit, decimals compare at any scale.
TextTypes == {"String", "Dictionary"}
NumberTypes == {"Int64", "Float64"}
TimeTypes == {"Date32", "Timestamp(s)", "Timestamp(ms)", "Timestamp(us)", "Timestamp(ns)"}
FieldTypes == TextTypes \cup NumberTypes \cup TimeTypes \cup {"Boolean", "Decimal128"}

\* The types with parsers of their own: which texts they refuse is a choice.
ParsedTypes == NumberTypes \cup TimeTypes \cup {"Decimal128"}

\* TypedValue: what the values of a column compare as.
kind(type) ==
  CASE type \in TextTypes -> "Str" [] type \in NumberTypes -> "Number" [] OTHER -> type

Kinds == {kind(type) : type \in FieldTypes}

\* FilterPredicate: a filter is its nodes in postorder.  A leaf has its fields and
\* the set of tuples of their values that satisfy it, or that fail it if it is
\* Negated.  Test stands for every test of one field's text: StartsWith, EndsWith,
\* ArithmeticCompare, Strip, Lower, Upper, Replace, Length, Contains, Regex.
\* A comparison has such a set for each kind of values.  Compare has two fields;
\* CompareLiteral has one, and a literal that is converted and compared with it.
Comparisons == {"Compare", "CompareLiteral"}

LeafOps == {"Equal", "NotEqual", "Test", "In", "NotIn", "NotField", "IsNull"}
             \cup Comparisons

Negated == {"NotEqual", "NotIn"}

Connectives == {"And", "Or", "Not"}

\* The text of an explicit null.
NullText == "Null"

\* No column: the name of a dropped field.
NoName == "(dropped)"

ASSUME ConfigAssumption ==
  \A c \in Configs :
    /\ DOMAIN c = ConfigFields /\ NoName \notin c.names
    /\ DOMAIN c.field_map \subseteq c.names
    /\ \A f \in DOMAIN c.field_map : c.field_map[f] \in c.names
    /\ c.drop_fields \subseteq c.names /\ c.dictionary_columns \subseteq c.names
    /\ DOMAIN c.field_types \subseteq c.names
    /\ \A col \in DOMAIN c.field_types : c.field_types[col] \in FieldTypes
    /\ c.schema_order \in Seq(c.names) /\ c.frozen_order \in Seq(c.names)
    /\ DOMAIN c.unparsable = ParsedTypes /\ DOMAIN c.std_unparsable = NumberTypes
    /\ c.frozen \in {"none", "exact", "partial"}
    /\ c.frozen = "none" <=> c.frozen_order = <<>>
    /\ c.api \in Apis
    /\ {c.strict_types, c.memory_limited, c.short_circuits, c.uses_slots,
        c.unique_fields, c.partial_rows} \subseteq BOOLEAN
    /\ c.max_fields \in Nat /\ c.max_rows \in Nat
    /\ c.filter \in Seq(ToSet(c.filter))
    /\ \A i \in DOMAIN c.filter : LET node == c.filter[i] IN
         /\ node.op \in LeafOps \cup Connectives \cup {"Always"}
         /\ node.op \in Connectives => node.a \in 1..(i - 1)
         /\ node.op \in {"And", "Or"} => node.b \in 1..(i - 1)
         /\ node.op = "Always" => node.keep \in BOOLEAN
         /\ node.op \in LeafOps => node.fields \in Seq(c.names) \ {<<>>}
         /\ node.op \in LeafOps \ {"Compare"} => Len(node.fields) = 1
         /\ node.op \in Comparisons =>
              /\ DOMAIN node.values = Kinds
              /\ \A k \in Kinds : \A operands \in node.values[k] :
                   {Null, NullText} \cap ToSet(operands) = {}
         /\ node.op = "CompareLiteral" => "literal" \in DOMAIN node

VARIABLE config  \* the builder's configuration

Names == config.names                   \* field and column names
Values == config.values                 \* what a decoder may put
field_map == config.field_map           \* plan: renames
drop_fields == config.drop_fields       \* plan: dropped output names
schema_order == config.schema_order     \* plan: the projection, or <<>>
Filter == config.filter                 \* plan: nodes in postorder, or <<>>
field_types == config.field_types       \* plan: the declared columns' types
dictionary_columns == config.dictionary_columns  \* plan: further dictionaries
Unparsable == config.unparsable         \* texts that a column cannot parse
StdUnparsable == config.std_unparsable  \* numbers that str::parse cannot
StrictTypes == config.strict_types      \* plan.strict_types
Frozen == config.frozen                 \* "none", "exact" or "partial"
FrozenOrder == config.frozen_order      \* the frozen schema's columns
MemoryLimited == config.memory_limited  \* memory_limit.is_some()
Api == config.api                       \* how the decoder puts fields
ShortCircuits == config.short_circuits  \* it honours row_rejected etc.
UsesSlots == config.uses_slots          \* it uses expect_slot
UniqueFields == config.unique_fields    \* a row sets a column once
PartialRows == config.partial_rows      \* input may end inside a row
MaxFields == config.max_fields          \* bound: fields per row
MaxRows == config.max_rows              \* bound: rows

-----------------------------------------------------------------------------
(* The execution plan.                                                     *)

HasFilter == Filter # <<>>

ren(raw) == IF raw \in DOMAIN field_map THEN field_map[raw] ELSE raw

Leaves == {i \in DOMAIN Filter : Filter[i].op \in LeafOps}

filter_references(col) ==
  \E i \in Leaves : \E field \in ToSet(Filter[i].fields) : ren(field) = col

\* Rename first, then drop, then schema projection.
resolve_field(raw) ==
  LET col == ren(raw)
  IN IF \/ col \in drop_fields
        \/ /\ schema_order # <<>>
           /\ col \notin ToSet(schema_order)
           /\ ~filter_references(col)
       THEN NoName ELSE col

\* No rename, drop or projection: resolve_and_put takes a path of its own.
PlainPlan == field_map = <<>> /\ drop_fields = {} /\ schema_order = <<>>

\* The column of a predicate's field; a dropped one keeps its own name.
PredName(field) == LET col == resolve_field(field) IN IF col = NoName THEN field ELSE col

\* collect_predicate_field_names: the fields of the filter, in its order.
predicate_fields ==
  LET upto[i \in 0..Len(Filter)] ==
        IF i = 0 THEN <<>>
        ELSE upto[i - 1] \o (IF i \in Leaves THEN Filter[i].fields ELSE <<>>)
  IN upto[Len(Filter)]

pred_names == {PredName(field) : field \in UNION {ToSet(Filter[i].fields) : i \in Leaves}}

\* The predicate mask: built with the first buffered field, extended with every
\* column that is born later.
is_predicate_slot(order, slot) == order[slot] \in pred_names

AddName(names, name) ==
  IF name \in ToSet(names) THEN names ELSE Append(names, name)

\* The names with those of extra that are new and not excluded, in order.
Added(names, extra, excluded) ==
  LET upto[i \in 0..Len(extra)] ==
        IF i = 0 THEN names
        ELSE IF extra[i] \in excluded THEN upto[i - 1]
        ELSE AddName(upto[i - 1], extra[i])
  IN upto[Len(extra)]

\* predeclare_schema_columns: the projection, then what the filter needs.
predeclared ==
  IF schema_order = <<>> THEN <<>>
  ELSE LET pred == [k \in DOMAIN predicate_fields |-> PredName(predicate_fields[k])]
       IN Added(<<>>, schema_order \o pred, drop_fields)

\* compute_wanted_mask: the columns that exist before any schema is frozen.
wanted_mask == DOMAIN predeclared

column_type(col) ==
  IF col \in DOMAIN field_types THEN field_types[col]
  ELSE IF col \in dictionary_columns THEN "Dictionary" ELSE "String"

\* The text is no value of the type: bool::from_str, lexical::parse, parse_date32,
\* parse_timestamp, parse_decimal128.
Refuses(type, text) ==
  \/ type = "Boolean" /\ text \notin {"true", "false"}
  \/ type \in ParsedTypes /\ text \in Unparsable[type]

\* The same where numbers are read with str::parse.
StdRefuses(type, text) ==
  IF type \in NumberTypes THEN text \in StdUnparsable[type] ELSE Refuses(type, text)

\* What a column stores of a value.
Cell(col, v) == IF Refuses(column_type(col), v) THEN Null ELSE v

-----------------------------------------------------------------------------
(* Predicates.                                                             *)

\* A leaf that is no comparison, on the value of its field.
Holds(leaf, operands) == operands \in leaf.values <=> leaf.op \notin Negated

kinds(cols) == {kind(column_type(col)) : col \in cols}

\* eval_predicate on a field that has no value in the buffer (yet).
MissingState(leaf) ==
  CASE leaf.op \in {"Equal", "NotEqual", "Test"} \cup Comparisons -> "Undecided"
    [] leaf.op = "In" -> "Fail"
    [] leaf.op \in {"NotIn", "NotField", "IsNull"} -> "Pass"

Verdict(pass) == IF pass THEN "Pass" ELSE "Fail"

AndState(a, b) ==
  IF "Fail" \in {a, b} THEN "Fail"
  ELSE IF {a, b} = {"Pass"} THEN "Pass" ELSE "Undecided"

NotState(a) ==
  CASE a = "Pass" -> "Fail" [] a = "Fail" -> "Pass" [] OTHER -> a

OrState(a, b) == NotState(AndState(NotState(a), NotState(b)))

\* The value of the whole tree, from the value of each leaf.
EvalTree(leafState) ==
  LET value[i \in DOMAIN Filter] ==
        LET node == Filter[i]
        IN CASE node.op = "And" -> AndState(value[node.a], value[node.b])
             [] node.op = "Or" -> OrState(value[node.a], value[node.b])
             [] node.op = "Not" -> NotState(value[node.a])
             [] node.op = "Always" -> Verdict(node.keep)
             [] OTHER -> leafState[i]
  IN value[Len(Filter)]

\* How a literal for a stored boolean column may be spelt.
Spellings(v) ==
  IF v = "true" THEN {"true", "True", "TRUE"} ELSE {"false", "False", "FALSE"}

\* The literal as a value of the stored column's type, if it is one.
typed_from_literal(type, literal) ==
  CASE type \in TextTypes -> {literal}
    [] type = "Boolean" -> {v \in {"true", "false"} : literal \in Spellings(v)}
    [] type \in TimeTypes -> IF StdRefuses("Int64", literal) THEN {} ELSE {literal}
    [] OTHER -> IF StdRefuses(type, literal) THEN {} ELSE {literal}

\* compare_typed: values of one kind compare, whatever their columns' types.
StoredHolds(leaf, operands) ==
  LET cols == {ren(field) : field \in ToSet(leaf.fields)}
  IN \/ leaf.op \notin Comparisons /\ Holds(leaf, operands)
     \/ /\ leaf.op = "Compare"
        /\ \E k \in Kinds : kinds(cols) = {k} /\ operands \in leaf.values[k]
     \/ /\ leaf.op = "CompareLiteral"
        /\ \E col \in cols : \E v \in typed_from_literal(column_type(col), leaf.literal) :
             Append(operands, v) \in leaf.values[kind(column_type(col))]

\* FilterPredicate::check on a whole row: the meaning of the filter.
CheckLeaf(leaf, row) ==
  IF \E field \in ToSet(leaf.fields) : row[ren(field)] = Null
    THEN leaf.op \in Negated \cup {"NotField", "IsNull"}
    ELSE StoredHolds(leaf, [k \in DOMAIN leaf.fields |-> row[ren(leaf.fields[k])]])

check(row) ==
  HasFilter => EvalTree([i \in DOMAIN Filter |-> Verdict(CheckLeaf(Filter[i], row))]) = "Pass"

-----------------------------------------------------------------------------
VARIABLES
  pc,                 \* "idle" between rows, "row" inside one, "finished"
  columns,            \* the cells of every column
  column_order,       \* their names
  row_count,          \* committed rows
  row_dirty,          \* slots that received a value in this row
  fields,             \* RowBuffer: the buffered value of some slots
  state,              \* RowBuffer: what the predicate says so far
  direct,             \* RowBuffer: it has passed, values are pushed directly
  predicate_ordinal,  \* RowBuffer: slot of the first predicate field, or 0
  buffer_worthwhile,  \* RowBuffer: the predicate does not come late
  unknown_error,      \* a field outside an exact frozen schema was put
  strict_error,       \* "none", "types" or "memory"
  ordinal_expect,     \* learned layout: a slot and a name per ordinal
  current_ordinal,    \* next ordinal to learn
  rows_accepted,      \* since the last batch
  rows_rejected,
  emitted,            \* rows handed on in split-off batches and by finish
  result,             \* "none", "ok" or "err": what finish returned
  row_in,             \* history: the fields the input offers in this row
  expected,           \* history: the rows that satisfy the filter
  ended,              \* history: rows ended
  reported,           \* history: rows reported with a finished batch
  lossy               \* history: a put value was lost

table_vars == <<columns, column_order, row_count, row_dirty>>
buffer_vars == <<fields, state, direct, predicate_ordinal>>
error_vars == <<unknown_error, strict_error, lossy>>
layout_vars == <<ordinal_expect, current_ordinal>>
count_vars == <<rows_accepted, rows_rejected>>
output_vars == <<emitted, reported, result>>
input_vars == <<row_in, expected, ended>>

vars == <<config, pc, table_vars, buffer_vars, buffer_worthwhile, error_vars,
          layout_vars, count_vars, output_vars, input_vars>>

Ordinals == 0..(MaxFields - 1)

NoSlot == [slot |-> 0, name |-> NoName]

initial_order == Added(predeclared, FrozenOrder, {})

Init ==
  /\ config \in Configs
  /\ pc = "idle"
  /\ column_order = initial_order
  /\ columns = [i \in DOMAIN initial_order |-> <<>>]
  /\ row_count = 0
  /\ row_dirty = {}
  /\ fields = <<>>
  /\ state = "Undecided"
  /\ direct = FALSE
  /\ predicate_ordinal = 0
  /\ buffer_worthwhile = TRUE
  /\ unknown_error = FALSE
  /\ strict_error = "none"
  /\ ordinal_expect = [o \in Ordinals |-> NoSlot]
  /\ current_ordinal = 0
  /\ rows_accepted = 0
  /\ rows_rejected = 0
  /\ emitted = <<>>
  /\ result = "none"
  /\ row_in = <<>>
  /\ expected = <<>>
  /\ ended = 0
  /\ reported = 0
  /\ lossy = FALSE

-----------------------------------------------------------------------------
(* Columns.                                                                *)

known(col) == col \in ToSet(column_order)

SlotOf(col) == CHOOSE i \in DOMAIN column_order : column_order[i] = col

\* A field that an exact frozen schema does not have.
unknown(col) == Frozen = "exact" /\ ~known(col)

\* ensure_column_idx: an existing slot, the dummy first slot for an unknown
\* field, or a new column at the end.
ensure_column_idx(col) ==
  IF known(col) THEN SlotOf(col)
  ELSE IF Frozen = "exact" THEN 1 ELSE Len(columns) + 1

\* A plausible slip: a column born in an accepted row forgets that this row
\* is already counted.
backfill_counted == row_count

\* The rows a new column has missed; the row that is already counted but still
\* being filled is not one of them.
backfill == IF direct THEN row_count - 1 ELSE row_count

WithColumn(col) ==
  IF known(col) \/ Frozen = "exact" THEN columns
  ELSE Append(columns, [r \in 1..backfill |-> Null])

WithName(col) ==
  IF known(col) \/ Frozen = "exact" THEN column_order ELSE Append(column_order, col)

\* A plausible slip: off by one, the last committed value is popped.
PushCell_popping(cells, count, cell) ==
  Append(IF cells # <<>> /\ Len(cells) >= count THEN Front(cells) ELSE cells, cell)

\* Last write wins: a value beyond the committed rows is replaced.
PushCell(cells, count, cell) ==
  Append(IF Len(cells) > count THEN Front(cells) ELSE cells, cell)

\* Null-fill every column the row did not set.
NullFill(cols, dirty) ==
  [i \in DOMAIN cols |-> IF i \in dirty THEN cols[i] ELSE Append(cols[i], Null)]

\* A strict-types violation is remembered, the first one only.
record_strict_violation(col, v) ==
  strict_error' = IF StrictTypes /\ strict_error = "none" /\ Cell(col, v) # v
                    THEN "types" ELSE strict_error

\* reserve_memory answers false for ever once the budget was exceeded.
Refused == strict_error = "memory"

-----------------------------------------------------------------------------
(* Putting a field.                                                        *)

\* The field's position in its row, as the decoder counts it.
ordinal == Len(row_in)

\* What the builder expects after the decoder found another name at this
\* ordinal and called layout_broken.
layout_broken ==
  IF UsesSlots THEN [ordinal_expect EXCEPT ![ordinal] = NoSlot] ELSE ordinal_expect

\* push_field_resolved: straight into the column.  The first row also learns
\* which slot and name to expect at this ordinal.
PushField(col, v) ==
  /\ IF unknown(col)
       THEN /\ unknown_error' = TRUE
            /\ ordinal_expect' = layout_broken
            /\ UNCHANGED <<table_vars, strict_error, current_ordinal>>
       ELSE LET slot == ensure_column_idx(col)
            IN /\ columns' = [WithColumn(col) EXCEPT
                                ![slot] = PushCell(@, row_count, Cell(col, v))]
               /\ column_order' = WithName(col)
               /\ row_dirty' = row_dirty \cup {slot}
               /\ record_strict_violation(col, v)
               /\ ordinal_expect' =
                    IF row_count = 0
                      THEN [layout_broken EXCEPT ![current_ordinal] =
                              [slot |-> slot, name |-> col]]
                      ELSE layout_broken
               /\ current_ordinal' = current_ordinal + 1
               /\ UNCHANGED <<row_count, unknown_error>>
  /\ UNCHANGED <<buffer_vars, count_vars>>

\* A buffered CompareLiteral converts numbers and booleans; anything else stays text.
ConvertedTypes == NumberTypes \cup {"Boolean"}

ComparesText(leaf, type) == leaf.op = "CompareLiteral" /\ type \notin ConvertedTypes

\* get_buffered_str gives an explicit null of a text column as its debug text; a
\* comparison takes any explicit null for a value that satisfies nothing, except
\* one of decimals, to which it is no value.
TakesNull(leaf, type) ==
  IF leaf.op \in Comparisons THEN ~(leaf.op = "Compare" /\ type = "Decimal128")
  ELSE type \in TextTypes

\* What a leaf sees of a value: comparisons parse as the columns do, the other
\* leaves read numbers with str::parse.
Seen(leaf, col, raw) ==
  LET type == column_type(col)
  IN IF raw = Null THEN (IF TakesNull(leaf, type) THEN NullText ELSE Null)
     ELSE IF ComparesText(leaf, type) THEN raw
     ELSE IF leaf.op \in Comparisons THEN Cell(col, raw)
     ELSE IF StdRefuses(type, raw) THEN Null ELSE raw

\* get_buffered_value: what a leaf sees of its field, if anything.
Operand(leaf, field, order, values) ==
  {Seen(leaf, order[i], values[i]) :
     i \in {j \in DOMAIN values : order[j] = resolve_field(field)}} \ {Null}

\* A plausible slip: only columns of the same type compare.
Compatible_unpromoted(cols) == \A a, b \in cols : column_type(a) = column_type(b)

\* Columns whose buffered values compare: numbers, decimals, or of the same type.
Compatible(cols) ==
  \/ kinds(cols) \in {{"Number"}, {"Decimal128"}}
  \/ \A a, b \in cols : column_type(a) = column_type(b)

\* The literal of a buffered comparison, if it can be read.
buffered_literal(type, literal) ==
  IF type \in ConvertedTypes /\ Refuses(type, literal) THEN {} ELSE {literal}

\* The columns that a leaf looks for in the buffer.
LeafColumns(leaf) == {PredName(field) : field \in ToSet(leaf.fields)}

LiteralMissing(leaf) ==
  /\ leaf.op = "CompareLiteral"
  /\ \E col \in LeafColumns(leaf) : buffered_literal(column_type(col), leaf.literal) = {}

\* A leaf on buffered values.  Two texts compare only if neither column is declared.
BufferedHolds(leaf, operands) ==
  LET cols == LeafColumns(leaf)
  IN \/ leaf.op \notin Comparisons /\ Holds(leaf, operands)
     \/ /\ leaf.op = "Compare"
        /\ \E k \in Kinds : kinds(cols) = {k} /\ operands \in leaf.values[k]
        /\ kinds(cols) = {"Str"} => cols \cap DOMAIN field_types = {}
     \/ /\ leaf.op = "CompareLiteral"
        /\ \E col \in cols : \E v \in buffered_literal(column_type(col), leaf.literal) :
             LET type == column_type(col)
             IN Append(operands, v) \in
                  leaf.values[IF ComparesText(leaf, type) THEN "Str" ELSE kind(type)]

\* eval_predicate on a leaf: without a value of each field, or without a literal, it
\* keeps its own verdict on missing fields.
BufferedLeaf(leaf, order, values) ==
  IF leaf.op = "Compare" /\ ~Compatible(LeafColumns(leaf)) THEN "Fail"
  ELSE IF \/ LiteralMissing(leaf)
          \/ \E field \in ToSet(leaf.fields) : Operand(leaf, field, order, values) = {}
    THEN MissingState(leaf)
  ELSE Verdict(BufferedHolds(leaf, [k \in DOMAIN leaf.fields |->
                 CHOOSE v \in Operand(leaf, leaf.fields[k], order, values) : TRUE]))

eval_predicate(order, values) ==
  EvalTree([i \in DOMAIN Filter |-> BufferedLeaf(Filter[i], order, values)])

\* eval_predicate_with_null: at the end of the row a missing field is null.
NullLeaf(leaf, order, values) ==
  LET s == BufferedLeaf(leaf, order, values)
  IN IF s # "Undecided" THEN s ELSE Verdict(leaf.op = "NotEqual")

evaluate_against_null ==
  EvalTree([i \in DOMAIN Filter |-> NullLeaf(Filter[i], column_order, fields)])

\* drain_buffered(true) moves the buffered values into their columns.
Drained(cols, names, values) ==
  [i \in DOMAIN cols |->
     IF i \in DOMAIN values
       THEN PushCell(cols[i], row_count, Cell(names[i], values[i])) ELSE cols[i]]

\* A plausible slip: the early commit also happens on a mere non-failure.
PassesEarly_unless_failed(s) ==
  Api = "resolve_and_put" /\ PlainPlan /\ s # "Fail"

\* Only resolve_and_put, and only under a plain plan, commits a row early.
PassesEarly(s) == Api = "resolve_and_put" /\ PlainPlan /\ s = "Pass"

\* The buffered path.  A field outside an exact schema is an error; put_field
\* reports it once only and then falls through to the dummy slot.
BufferField(col, v) ==
  /\ ordinal_expect' = layout_broken
  /\ UNCHANGED <<rows_rejected, current_ordinal>>
  /\ IF unknown(col) /\ (Api = "put_field" => ~unknown_error)
    THEN /\ unknown_error' = TRUE
         /\ UNCHANGED <<table_vars, buffer_vars, strict_error, rows_accepted>>
    ELSE LET slot == ensure_column_idx(col)
             cols == WithColumn(col)
             order == WithName(col)
             values == [i \in DOMAIN fields \cup {slot} |->
                          IF i = slot THEN v ELSE fields[i]]
             is_pred == is_predicate_slot(order, slot)
             verdict == IF is_pred THEN eval_predicate(order, values) ELSE state
             commit == is_pred /\ PassesEarly(verdict)
         IN /\ column_order' = order
            /\ record_strict_violation(order[slot], v)
            /\ predicate_ordinal' =
                 IF is_pred /\ predicate_ordinal = 0 THEN slot ELSE predicate_ordinal
            /\ columns' = IF commit THEN Drained(cols, order, values) ELSE cols
            /\ row_dirty' = IF commit THEN row_dirty \cup DOMAIN values ELSE row_dirty
            /\ fields' = IF commit THEN <<>> ELSE values
            /\ state' = IF commit THEN "Undecided" ELSE verdict
            /\ direct' = (direct \/ commit)
            /\ row_count' = IF commit THEN row_count + 1 ELSE row_count
            /\ rows_accepted' = IF commit THEN rows_accepted + 1 ELSE rows_accepted
            /\ UNCHANGED unknown_error

\* Without a filter, with a late predicate, or once the row has passed.
PushesDirectly == ~HasFilter \/ ~buffer_worthwhile \/ direct

row_rejected == HasFilter /\ state = "Fail"

\* Every wanted column has a value in this row.
row_satisfied == wanted_mask # {} /\ wanted_mask \subseteq row_dirty

\* The decoder jumps to the end of the row.
Skips == ShortCircuits /\ (row_rejected \/ row_satisfied)

\* The name bytes match what the builder expects at this ordinal.
SlotMatches(raw) ==
  UsesSlots /\ ordinal_expect[ordinal] # NoSlot /\ ordinal_expect[ordinal].name = raw

\* The input offers a further field of the row.
Offer(raw, v) ==
  /\ pc = "row"
  /\ Len(row_in) < MaxFields
  /\ UniqueFields => \A i \in DOMAIN row_in : ren(row_in[i].raw) # ren(raw)
  /\ row_in' = Append(row_in, [raw |-> raw, value |-> v])
  /\ UNCHANGED <<pc, buffer_worthwhile, expected, ended, output_vars>>

\* The decoder never sees the fields it jumps over.
SkipField(raw, v) ==
  /\ Offer(raw, v)
  /\ Skips
  /\ UNCHANGED <<table_vars, buffer_vars, error_vars, layout_vars, count_vars>>

\* put_field, put_field_resolved or resolve_and_put; they differ in when they
\* resolve the name and in what BufferField does.
PutField(raw, v) ==
  LET col == resolve_field(raw)
  IN /\ Offer(raw, v)
     /\ ~Refused /\ ~Skips /\ ~SlotMatches(raw)
     /\ lossy' = (lossy \/ (col # NoName /\ (\/ unknown(col)
                                             \/ StrictTypes /\ Cell(col, v) # v)))
     /\ \/ /\ col = NoName
           /\ ordinal_expect' = layout_broken
           /\ UNCHANGED <<table_vars, buffer_vars, unknown_error, strict_error,
                          current_ordinal, count_vars>>
        \/ col # NoName /\ PushesDirectly /\ PushField(col, v)
        \/ col # NoName /\ ~PushesDirectly /\ BufferField(col, v)

\* put_field_at or put_str_at on the slot the builder expects.
PutFieldAt(raw, v) ==
  LET slot == ordinal_expect[ordinal].slot
      col == column_order[slot]
  IN /\ Offer(raw, v)
     /\ ~Refused /\ ~Skips /\ SlotMatches(raw)
     /\ columns' = [columns EXCEPT ![slot] = PushCell(@, row_count, Cell(col, v))]
     /\ row_dirty' = row_dirty \cup {slot}
     /\ record_strict_violation(col, v)
     /\ lossy' = (lossy \/ (StrictTypes /\ Cell(col, v) # v))
     /\ UNCHANGED <<column_order, row_count, buffer_vars, unknown_error,
                    layout_vars, count_vars>>

-----------------------------------------------------------------------------
(* Rows.                                                                   *)

\* The predicate's slot is at or beyond 4/5 of the columns.  predicate_ordinal
\* counts from 1 here, so the code's ordinal is one less.
PredicateIsLate ==
  LET ncols == IF Frozen # "none" THEN Len(FrozenOrder)
               ELSE IF schema_order # <<>> THEN Len(schema_order)
               ELSE Len(columns)
  IN predicate_ordinal # 0 /\ predicate_ordinal - 1 >= (ncols * 4) \div 5

begin_row ==
  /\ pc = "idle"
  /\ ended < MaxRows
  /\ ~Refused
  /\ pc' = "row"
  /\ row_in' = <<>>
  /\ current_ordinal' = 0
  /\ buffer_worthwhile' = (buffer_worthwhile /\ ~(row_count > 0 /\ PredicateIsLate))
  /\ fields' = <<>>
  /\ state' = "Undecided"
  /\ direct' = FALSE
  /\ UNCHANGED <<table_vars, predicate_ordinal, error_vars, ordinal_expect,
                 count_vars, output_vars, expected, ended>>

\* The row the input offered: the last value of every kept column.
RowOf(offered) ==
  [col \in Names |->
     LET writes == {i \in DOMAIN offered : resolve_field(offered[i].raw) = col}
     IN IF writes = {} THEN Null
        ELSE Cell(col, offered[CHOOSE i \in writes : \A j \in writes : j <= i].value)]

\* Row r of the given columns.
TableRow(cols, order, r) ==
  [col \in Names |->
     IF col \in ToSet(order)
       THEN cols[CHOOSE i \in DOMAIN order : order[i] = col][r] ELSE Null]

\* finish exports the columns of the schema projection, if there is one.
Wanted == IF schema_order = <<>> THEN Names ELSE ToSet(schema_order) \ drop_fields

Project(row) == [col \in Names |-> IF col \in Wanted THEN row[col] ELSE Null]

\* The row is over: what the input offered becomes history.
RowEnds ==
  /\ pc = "row"
  /\ pc' = "idle"
  /\ ended' = ended + 1
  /\ expected' = IF check(RowOf(row_in)) THEN Append(expected, Project(RowOf(row_in)))
                 ELSE expected
  /\ UNCHANGED <<column_order, predicate_ordinal, buffer_worthwhile, error_vars,
                 layout_vars, output_vars, row_in>>

\* A plausible slip: rejected rows are not counted.
Count_accepted_only(keep) ==
  /\ row_count' = row_count + (IF keep THEN 1 ELSE 0)
  /\ rows_accepted' = rows_accepted + (IF keep THEN 1 ELSE 0)
  /\ UNCHANGED rows_rejected

\* The row is committed or rejected.
Count(keep) ==
  /\ row_count' = row_count + (IF keep THEN 1 ELSE 0)
  /\ rows_accepted' = rows_accepted + (IF keep THEN 1 ELSE 0)
  /\ rows_rejected' = rows_rejected + (IF keep THEN 0 ELSE 1)

\* finish_row: null-fill, check the filter on the stored row, pop on reject.
finish_row ==
  LET cols == NullFill(columns, row_dirty)
      keep == check(TableRow(cols, column_order, row_count + 1))
  IN /\ columns' = IF keep THEN cols ELSE [i \in DOMAIN cols |-> Front(cols[i])]
     /\ row_dirty' = {}
     /\ Count(keep)
     /\ UNCHANGED <<fields, state, direct>>

\* A plausible slip: the row is counted once more at its end.
null_fill_missing_counting ==
  /\ columns' = NullFill(columns, row_dirty)
  /\ row_dirty' = {}
  /\ Count(TRUE)
  /\ UNCHANGED <<fields, state, direct>>

\* null_fill_missing: the row was accepted and counted when it passed.
null_fill_missing ==
  /\ columns' = NullFill(columns, row_dirty)
  /\ row_dirty' = {}
  /\ UNCHANGED <<row_count, count_vars, fields, state, direct>>

\* A predicate that is still open is decided with its missing fields null.
FinalState == IF state = "Undecided" THEN evaluate_against_null ELSE state

\* drain_buffered at the end of the row.
drain_buffered ==
  LET keep == FinalState = "Pass"
      dirty == row_dirty \cup DOMAIN fields
  IN /\ columns' = IF keep THEN NullFill(Drained(columns, column_order, fields), dirty)
                   ELSE columns
     /\ row_dirty' = {}
     /\ Count(keep)
     /\ fields' = <<>>
     /\ state' = "Undecided"
     /\ UNCHANGED direct

end_row ==
  /\ RowEnds
  /\ ~Refused
  /\ \/ (~HasFilter \/ ~buffer_worthwhile) /\ finish_row
     \/ HasFilter /\ buffer_worthwhile /\ direct /\ null_fill_missing
     \/ HasFilter /\ buffer_worthwhile /\ ~direct /\ drain_buffered

\* The strict memory budget is or was exceeded: the error is recorded if it is
\* the first, and the call has no other effect.
Refuse ==
  /\ MemoryLimited
  /\ strict_error' = IF strict_error = "none" THEN "memory" ELSE strict_error
  /\ \/ pc = "idle" /\ ended < MaxRows /\ pc' = "row" /\ row_in' = <<>> /\ UNCHANGED ended
     \/ pc = "row" /\ pc' = "idle" /\ ended' = ended + 1 /\ UNCHANGED row_in
     \/ /\ pc = "row" /\ Len(row_in) < MaxFields
        /\ \E raw \in Names, v \in Values :
             row_in' = Append(row_in, [raw |-> raw, value |-> v])
        /\ UNCHANGED <<pc, ended>>
  /\ lossy' = TRUE
  /\ UNCHANGED <<table_vars, buffer_vars, buffer_worthwhile, unknown_error,
                 layout_vars, count_vars, output_vars, expected>>

-----------------------------------------------------------------------------
(* Batches.                                                                *)

\* The rows of a finished batch: a schema projection leaves the filter's own
\* columns out.
TableRows(cols, count) ==
  [r \in 1..count |-> Project(TableRow(cols, column_order, r))]

\* RecordBatch::try_new wants exported columns of one length; a table without
\* columns is an empty batch, whatever its row count.
exported == {i \in DOMAIN column_order : column_order[i] \in Wanted}

Exports(cols) ==
  column_order = <<>> \/ Cardinality({Len(cols[i]) : i \in exported}) = 1

Batch(cols) ==
  IF column_order = <<>> THEN <<>>
  ELSE TableRows(cols, Len(cols[CHOOSE i \in exported : TRUE]))

\* normalize: values beyond the committed rows are popped.
Normalized == [i \in DOMAIN columns |->
                 SubSeq(columns[i], 1, Min({row_count, Len(columns[i])}))]

\* What a split-off batch of the first rows leaves in a column.
Remainder(cells, count) == SubSeq(cells, count + 1, Len(cells))

\* split_off(row_count) between rows, as a spilling sink does, and the batch
\* is finished at once; it takes the row counts along.  Only a row cut short by
\* a memory refusal leaves a column with fewer cells than row_count.  Blank rows
\* that come before any column exists are lost: a batch without columns has none.
split_off ==
  /\ pc = "idle"
  /\ row_count > 0
  /\ \A i \in DOMAIN columns : Len(columns[i]) >= row_count
  /\ exported # {} \/ column_order = <<>>
  /\ expected' = IF column_order = <<>> THEN <<>> ELSE expected
  /\ emitted' = emitted \o Batch(Normalized)
  /\ reported' = reported + rows_accepted + rows_rejected
  /\ columns' = [i \in DOMAIN columns |-> Remainder(columns[i], row_count)]
  /\ row_count' = 0
  /\ row_dirty' = {}
  /\ rows_accepted' = 0
  /\ rows_rejected' = 0
  /\ UNCHANGED <<pc, column_order, buffer_vars, buffer_worthwhile, error_vars,
                 layout_vars, result, row_in, ended>>

\* A plausible slip: finish forgets the fields an exact schema does not have.
FinishFails_types_only == strict_error # "none"

\* prepare_finish returns the recorded error, if any.
FinishFails == unknown_error \/ strict_error # "none"

\* The last batch; the input may also have ended inside a row.  A recorded
\* error is taken, and a strict budget may be exceeded even without one.
finish ==
  /\ pc = "idle" \/ (PartialRows /\ pc = "row")
  /\ pc' = "finished"
  /\ UNCHANGED <<column_order, row_count, buffer_vars, buffer_worthwhile, lossy,
                 layout_vars, count_vars, input_vars>>
  /\ \/ /\ FinishFails \/ MemoryLimited
        /\ result' = "err"
        /\ unknown_error' = FALSE
        /\ strict_error' = IF unknown_error THEN strict_error ELSE "none"
        /\ UNCHANGED <<columns, row_dirty, emitted, reported>>
     \/ /\ ~FinishFails
        /\ columns' = Normalized
        /\ row_dirty' = {}
        /\ reported' = reported + rows_accepted + rows_rejected
        /\ result' = IF Exports(Normalized) THEN "ok" ELSE "err"
        /\ emitted' = IF Exports(Normalized) THEN emitted \o Batch(Normalized)
                      ELSE emitted
        /\ UNCHANGED <<unknown_error, strict_error>>

Done == pc = "finished" /\ UNCHANGED vars

\* The configuration of a builder never changes.
Fixed == UNCHANGED config

Next ==
  \/ begin_row /\ Fixed
  \/ \E raw \in Names, v \in Values : PutField(raw, v) /\ Fixed
  \/ \E raw \in Names, v \in Values : PutFieldAt(raw, v) /\ Fixed
  \/ \E raw \in Names, v \in Values : SkipField(raw, v) /\ Fixed
  \/ end_row /\ Fixed
  \/ Refuse /\ Fixed
  \/ split_off /\ Fixed
  \/ finish /\ Fixed
  \/ Done

Spec == Init /\ [][Next]_vars

-----------------------------------------------------------------------------
(* Properties.                                                             *)

Cells == Values \cup {Null}

\* Types of the builder's state.
TypeOK ==
  /\ config \in Configs
  /\ pc \in {"idle", "row", "finished"}
  /\ columns \in Seq(Seq(Cells))
  /\ column_order \in Seq(Names)
  /\ row_count \in 0..(IF pc = "idle" THEN ended ELSE ended + 1)
  /\ row_dirty \subseteq DOMAIN columns
  /\ DOMAIN fields \subseteq DOMAIN columns
  /\ state \in {"Undecided", "Pass", "Fail"}
  /\ {direct, buffer_worthwhile, unknown_error, lossy} \subseteq BOOLEAN
  /\ predicate_ordinal \in 0..Len(columns)
  /\ strict_error \in {"none", "types", "memory"}
  /\ current_ordinal \in Nat
  /\ result \in {"none", "ok", "err"}

NoError == ~unknown_error /\ strict_error = "none"

\* Between rows every column has exactly one cell per committed row, whichever
\* of its paths the builder took and whenever the column was born.
Aligned ==
  pc = "idle" /\ NoError => \A i \in DOMAIN columns : Len(columns[i]) = row_count

\* All rows so far, in split-off batches and in the columns.
Table == IF pc = "finished" THEN emitted ELSE emitted \o TableRows(columns, row_count)

\* The table is the sequence of offered rows that satisfy the filter, each with
\* the last value of each kept column: buffering, early commits, pop on reject,
\* short-circuits, learned slots and splits make no difference.
TableExact ==
  (pc = "idle" \/ result = "ok") /\ NoError /\ column_order # <<>> => Table = expected

\* Every ended row is counted once, as accepted or as rejected.
RowsAccounted ==
  pc = "idle" /\ NoError => reported + rows_accepted + rows_rejected = ended

\* "data loss would otherwise be silent": if a value had no column in an exact
\* schema, did not parse under strict types, or was refused for want of memory,
\* then finish fails.
LossReported == result = "ok" => ~lossy

\* No step but split_off changes a cell of a committed row.
CommittedStable ==
  [][row_count' # 0 \/ row_count = 0 =>
       \A i \in DOMAIN columns : \A r \in 1..row_count :
         r \in DOMAIN columns[i] => columns'[i][r] = columns[i][r]]_vars

\* push_field: "applying last-write-wins within the current uncommitted row".
\* When the filter kept the right number of rows, each holds the last value
\* offered for each column.
LastWriteWins ==
  pc = "idle" /\ NoError /\ Len(Table) = Len(expected) => Table = expected

\* The filter keeps exactly the rows that satisfy it.
FilterExact == pc = "idle" /\ NoError => Len(Table) = Len(expected)

-----------------------------------------------------------------------------
(* Configurations whose table is exact, whatever the input.                *)

\* resolve_and_put may commit a row before it ends.
CommitsEarly(c) ==
  /\ c.filter # <<>> /\ c.api = "resolve_and_put"
  /\ c.field_map = <<>> /\ c.drop_fields = {} /\ c.schema_order = <<>>

\* Leaves that wait for their fields.
WaitingOps == {"Equal", "NotEqual", "Test"} \cup Comparisons

\* The name of a field's column, if it is kept, and its type.
ColumnOf(c, field) == IF field \in DOMAIN c.field_map THEN c.field_map[field] ELSE field

TypeOf(c, field) ==
  LET col == ColumnOf(c, field)
  IN IF col \in DOMAIN c.field_types THEN c.field_types[col]
     ELSE IF col \in c.dictionary_columns THEN "Dictionary" ELSE "String"

\* The leaf's fields are not read and compared in two ways.  A row in the buffer and
\* a stored one disagree about a comparison of texts in columns of two types or of a
\* declared type; a literal for a date, a timestamp or a decimal; a boolean literal
\* in upper case; a number that one of the two number parsers refuses.
ReadsAlike(c, leaf) ==
  LET types == {TypeOf(c, field) : field \in ToSet(leaf.fields)}
      texts == IF leaf.op = "CompareLiteral" THEN {leaf.literal}
               ELSE IF leaf.op = "Compare" THEN {} ELSE c.values
  IN /\ leaf.op = "Compare" /\ types \subseteq TextTypes =>
          /\ \A a, b \in types : a = b
          /\ \A field \in ToSet(leaf.fields) : ColumnOf(c, field) \notin DOMAIN c.field_types
     /\ leaf.op = "CompareLiteral" =>
          /\ types \subseteq TextTypes \cup ConvertedTypes
          /\ "Boolean" \in types => leaf.literal \notin {"True", "TRUE", "False", "FALSE"}
     /\ \A type \in types \cap NumberTypes : \A text \in texts :
          text \in c.unparsable[type] <=> text \in c.std_unparsable[type]

\* The table need not be exact where the builder decides before the end of a row
\* and a field may come twice, or a leaf does not wait for its field; where an
\* explicit null is taken for text that a filter looks for; where a slot is learned
\* under a name that is itself renamed; where a row committed early is cut short;
\* where a leaf reads a buffered row differently from a stored one.
ExactConfig(c) ==
  /\ \A i \in DOMAIN c.filter : c.filter[i].op \in LeafOps => ReadsAlike(c, c.filter[i])
  /\ CommitsEarly(c) \/ (c.short_circuits /\ (c.filter # <<>> \/ c.schema_order # <<>>)) =>
       c.unique_fields
  /\ CommitsEarly(c) \/ c.short_circuits =>
       \A i \in DOMAIN c.filter : c.filter[i].op \in LeafOps => c.filter[i].op \in WaitingOps
  /\ Null \in c.values =>
       \A i \in DOMAIN c.filter : c.filter[i].op \in LeafOps \ Comparisons =>
         /\ \A operands \in c.filter[i].values : NullText \notin ToSet(operands)
         /\ c.filter[i].op \in {"NotField", "IsNull"} =>
              \A field \in ToSet(c.filter[i].fields) : TypeOf(c, field) \notin TextTypes
  /\ c.uses_slots =>
       \A raw \in c.names : ColumnOf(c, ColumnOf(c, raw)) = ColumnOf(c, raw)
  /\ ~ (c.partial_rows /\ CommitsEarly(c))

ExactConfigs == \A c \in Configs : ExactConfig(c)
=============================================================================
