----------------------------- MODULE MCAssembly -----------------------------
(* Configurations for Assembly's runs.                                     *)
EXTENDS Assembly

Fields == <<"x", "y", "f">>

Str(s) == [type |-> "Str", v |-> s]

A == Str(<<1>>)
B == Str(<<2, 1>>)
Empty == Str(<<>>)
Number(type) == [type |-> type, v |-> 1]
Nothing == [type |-> "Null"]

Both(x, y) == [n \in {"x", "y"} |-> IF n = "x" THEN x ELSE y]

OnlyX(kind) == [n \in {"x"} |-> kind]

Base ==
  [mode |-> "parallel", kinds |-> <<>>, values |-> {A}, strict |-> FALSE,
   filtered |-> FALSE, partial |-> FALSE, chunks_fail |-> FALSE,
   auto_dict |-> FALSE, dict_min_rows |-> 2, dict_cap |-> 2,
   schema_order |-> <<>>, filter_names |-> {}, compare_filter |-> FALSE,
   rows_per_batch |-> 2, max_rows |-> 2, min_fields |-> 0]

\* One row a chunk, and everything that can go wrong with it.
Typed ==
  [Base EXCEPT !.kinds = <<Both("int64", "string"), Both("int64", "string")>>,
               !.values = {A, B}, !.strict = TRUE, !.filtered = TRUE,
               !.partial = TRUE, !.chunks_fail = TRUE, !.max_rows = 1]

\* Columns that appear in any chunk, at any row.
Ragged ==
  [Base EXCEPT !.kinds = <<Both("string", "int64"), Both("string", "int64"),
                           Both("string", "int64")>>]

\* Builders of different plans, exported or merged by their owner.
Mixed ==
  [Base EXCEPT !.kinds = <<Both("int64", "string"), Both("float64", "dictionary")>>,
               !.values = {A, Number("Int64")}, !.mode = "direct"]

Clash ==
  [Base EXCEPT !.kinds = <<Both("string", "boolean"), Both("dictionary", "string")>>,
               !.values = {A, Number("Bool")}, !.mode = "extend"]

\* Automatic dictionaries: every combination of upgraded and plain chunks.
Dictionaries ==
  [Base EXCEPT !.kinds = <<OnlyX("string"), OnlyX("string")>>,
               !.values = {A, B}, !.auto_dict = TRUE, !.max_rows = 3]

ThreeDictionaries ==
  [Base EXCEPT !.kinds = <<OnlyX("string"), OnlyX("string"), OnlyX("string")>>,
               !.values = {A, B}, !.auto_dict = TRUE, !.dict_min_rows = 1]

\* Batches split off one builder. A batch of rows without any field has no
\* column, hence no rows: every row here has a field.
Spill ==
  [Base EXCEPT !.kinds = <<Both("string", "date32")>>, !.mode = "spill",
               !.values = {A, Empty}, !.auto_dict = TRUE, !.filtered = TRUE,
               !.partial = TRUE, !.max_rows = 3,
               !.dict_cap = 1, !.min_fields = 1]

\* The same of a projection whose filter needs one more column.
SpillProjected ==
  [Spill EXCEPT !.kinds = <<[n \in {"x", "y", "f"} |-> "string"]>>, !.values = {A},
                !.schema_order = <<"y", "x">>, !.filter_names = {"f"},
                !.max_rows = 2, !.min_fields = 0]

\* A projection against the order of appearance, with a comparison.
Projected ==
  [Base EXCEPT !.kinds = <<Both("int64", "int64"), Both("int64", "int64")>>,
               !.values = {A, Nothing}, !.schema_order = <<"y", "x">>, !.filter_names = {"x", "y"},
               !.filtered = TRUE, !.compare_filter = TRUE]

Checked == {Typed, Ragged, Mixed, [Mixed EXCEPT !.mode = "extend"], Clash,
            [Clash EXCEPT !.mode = "direct"], Dictionaries, ThreeDictionaries,
            Spill, SpillProjected, Projected}

Unifying == {Dictionaries}

\* All of them are plans that the theorem about errors speaks of.
ASSUME PlainAssumption == PlainPlans
=============================================================================
