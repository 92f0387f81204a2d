--------------------------- MODULE MCSchemaCache ---------------------------
(* Small inputs, and sampled ones that differ only where nothing is hashed. *)
EXTENDS SchemaCache, TLC

SomeInputs ==
  {<<"a", "b">>, <<"a", "c">>, <<"b", "!", "a">>, <<"a", "P">>, <<"!">>,
   <<"a", "a", "a", "a", "b">>, <<"a", "a", "a", "a", "c">>}

NoNames == [f \in {} |-> f]

SomePlans ==
  {[field_map |-> NoNames, drop_fields |-> {}, schema_order |-> <<>>],
   [field_map |-> "a" :> "c", drop_fields |-> {"b"}, schema_order |-> <<>>],
   [field_map |-> NoNames, drop_fields |-> {}, schema_order |-> <<"a">>]}

Exchangeable == Permutations(Runs)
=============================================================================
