--------------------------- MODULE MCTableBuilder ---------------------------
(* Configurations for TableBuilder's runs.                                 *)
EXTENDS TableBuilder

\* z is another raw name of y.
Alias == [f \in {"z"} |-> "y"]

Leaf(op, field, values) ==
  [op |-> op, fields |-> <<field>>, values |-> {<<v>> : v \in values}]

\* x = "1"
EqualX == <<Leaf("Equal", "x", {"1"})>>

\* x = "1" and not (y = "1")
BothFields == <<Leaf("Equal", "x", {"1"}), Leaf("Equal", "y", {"1"}),
                [op |-> "Not", a |-> 2], [op |-> "And", a |-> 1, b |-> 3]>>

\* (x != "1" and y in ("1")) or y is null
AnyLeaf == <<Leaf("NotEqual", "x", {"1"}), Leaf("In", "y", {"1"}),
             [op |-> "And", a |-> 1, b |-> 2], Leaf("IsNull", "y", {}),
             [op |-> "Or", a |-> 3, b |-> 4]>>

\* x = "1" and y not in ("1")
NotInY == <<Leaf("Equal", "x", {"1"}), Leaf("NotIn", "y", {"1"}),
            [op |-> "And", a |-> 1, b |-> 2]>>

\* The pairs are the same for every kind of values that is compared.
Compare(field_a, field_b, pairs) ==
  [op |-> "Compare", fields |-> <<field_a, field_b>>, values |-> [k \in Kinds |-> pairs]]

\* Pairs of a value and the literal, as they are compared.
CompareLiteral(field, literal, pairs) ==
  [op |-> "CompareLiteral", fields |-> <<field>>, literal |-> literal,
   values |-> [k \in Kinds |-> pairs]]

SameText == {<<v, v>> : v \in {"1", "2"}}

\* not (x > y), or x = z, where x and y are numbers and z is not
TwoFields == <<Compare("x", "y", {<<"2", "1">>}), [op |-> "Not", a |-> 1],
               Compare("x", "z", SameText),
               [op |-> "Or", a |-> 2, b |-> 3]>>

\* x < y and not (x >= 2)
EarlyFields == <<Compare("x", "y", {<<"1", "2">>}), CompareLiteral("x", "2", {<<"2", "2">>}),
                 [op |-> "Not", a |-> 2], [op |-> "And", a |-> 1, b |-> 3]>>

\* x is the boolean true, however the literal spells it
IsTrue(literal) == <<CompareLiteral("x", literal, {<<"true", "true">>})>>

\* No text but the given ones fails to parse.
Fails(types, texts) == [t \in types |-> texts]

\* Two columns, two values, a plain plan and a decoder without refinements.
Plain ==
  [names |-> {"x", "y"}, values |-> {"1", "2"}, field_map |-> <<>>,
   drop_fields |-> {}, schema_order |-> <<>>, filter |-> <<>>,
   field_types |-> <<>>, dictionary_columns |-> {},
   unparsable |-> Fails(ParsedTypes, {"bad"}),
   std_unparsable |-> Fails(NumberTypes, {"bad"}),
   strict_types |-> FALSE, frozen |-> "none",
   frozen_order |-> <<>>, memory_limited |-> FALSE, api |-> "put_field",
   short_circuits |-> FALSE, uses_slots |-> FALSE, unique_fields |-> FALSE,
   partial_rows |-> FALSE, max_fields |-> 2, max_rows |-> 2]

\* Rows buffered until they end: any leaf, duplicate fields, explicit nulls,
\* values that do not parse, and a frozen schema of some of the columns.
Buffered ==
  [Plain EXCEPT !.names = {"x", "y", "z"}, !.values = {"1", "2", Null},
                !.filter = AnyLeaf, !.field_types = [f \in {"y"} |-> "Int64"],
                !.unparsable = Fails(ParsedTypes, {"2"}),
                !.std_unparsable = Fails(NumberTypes, {"2"}),
                !.frozen = "partial", !.frozen_order = <<"z">>,
                !.max_fields = 3]

\* Rows committed before they end, columns born inside them, the switch to
\* pop-on-reject, a decoder that short-circuits.
Early ==
  [Plain EXCEPT !.names = {"x", "y", "z"}, !.filter = BothFields,
                !.api = "resolve_and_put", !.short_circuits = TRUE,
                !.unique_fields = TRUE, !.max_fields = 3, !.max_rows = 3]

\* A projection with an alias and a dropped column, learned slots, and an
\* input that may end inside a row.
Projected ==
  [Plain EXCEPT !.names = {"x", "y", "z", "w"}, !.field_map = Alias,
                !.drop_fields = {"w"}, !.schema_order = <<"x", "y", "w">>,
                !.api = "put_field_resolved",
                !.short_circuits = TRUE, !.uses_slots = TRUE,
                !.unique_fields = TRUE, !.partial_rows = TRUE,
                !.max_fields = 3]

\* An exact frozen schema, strict types and a strict memory budget.
Guarded ==
  [Plain EXCEPT !.filter = EqualX, !.field_types = [f \in {"x"} |-> "Float64"],
                !.unparsable = Fails(ParsedTypes, {"2"}),
                !.std_unparsable = Fails(NumberTypes, {"2"}),
                !.strict_types = TRUE, !.frozen = "exact",
                !.frozen_order = <<"x">>, !.memory_limited = TRUE,
                !.partial_rows = TRUE]

\* Two fields compared in a buffered row: overwritten, null, not a number,
\* missing, two types of number, or a number and a text.
Compared ==
  [Plain EXCEPT !.values = {"1", "2", "bad", Null}, !.filter = TwoFields,
                !.names = {"x", "y", "z"},
                !.field_types = [f \in {"x", "y"} |-> IF f = "x" THEN "Int64" ELSE "Float64"],
                !.max_fields = 3, !.max_rows = 1]

\* Two fields compared in rows committed before they end.
EarlyCompared ==
  [Plain EXCEPT !.names = {"x", "y", "z"}, !.values = {"1", "2", Null},
                !.filter = EarlyFields, !.api = "resolve_and_put",
                !.short_circuits = TRUE, !.unique_fields = TRUE, !.max_fields = 3]

\* The filter compares a projected column with one outside the projection.
ProjectedCompared ==
  [EarlyCompared EXCEPT !.api = "put_field_resolved", !.schema_order = <<"z", "x">>,
                        !.short_circuits = FALSE, !.unique_fields = FALSE]

\* Numbers of two types compared, buffered in the first row and stored in the second.
Numbers ==
  [Compared EXCEPT !.values = {"1", "2"}, !.filter = <<Compare("x", "y", {<<"2", "1">>})>>,
                   !.frozen = "partial", !.frozen_order = <<"z">>,
                   !.unique_fields = TRUE, !.max_rows = 2]

\* A boolean literal compared with a buffered, then with a stored column.
Flags ==
  [Plain EXCEPT !.values = {"true", "false", "bad"}, !.filter = IsTrue("true"),
                !.field_types = [f \in {"x"} |-> "Boolean"]]

\* Two dictionary columns compared, buffered and then stored.
Labels ==
  [Numbers EXCEPT !.field_types = <<>>, !.dictionary_columns = {"x", "y"},
                  !.filter = <<Compare("x", "y", SameText)>>]

Sound == {Buffered, Early, Projected, Guarded, Compared, EarlyCompared, ProjectedCompared,
          Numbers, Flags, Labels}

ASSUME SoundAssumption == \A c \in Sound : ExactConfig(c)

\* A filter one of whose leaves passes as long as its field is missing.
OpenLeaf ==
  {[Plain EXCEPT !.filter = NotInY, !.api = "resolve_and_put", !.unique_fields = TRUE]}

\* Duplicate fields after an early commit.
Duplicates ==
  {[Plain EXCEPT !.filter = EqualX, !.api = "resolve_and_put", !.max_fields = 3]}

\* Filters that keep other rows once rows are stored: a boolean literal in upper case,
\* a dictionary compared with a string column, two declared string columns, a date
\* compared with a literal that is no number, and a number that only str::parse reads.
TwoReadings ==
  {[Flags EXCEPT !.filter = IsTrue("True")],
   [Labels EXCEPT !.dictionary_columns = {"x"}],
   [Numbers EXCEPT !.field_types = [f \in {"x", "y"} |-> "String"],
                   !.filter = <<Compare("x", "y", SameText)>>],
   [Plain EXCEPT !.field_types = [f \in {"x"} |-> "Date32"],
                 !.filter = <<CompareLiteral("x", "1", SameText)>>,
                 !.std_unparsable = Fails(NumberTypes, {"1", "2"})],
   [Plain EXCEPT !.field_types = [f \in {"x"} |-> "Int64"], !.filter = EqualX,
                 !.unparsable = Fails(ParsedTypes, {"1"})]}

ASSUME TwoReadingsAssumption == \A c \in TwoReadings : ~ExactConfig(c)
=============================================================================
