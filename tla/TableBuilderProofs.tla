-------------------------- MODULE TableBuilderProofs --------------------------
(***************************************************************************)
(* Proofs about TableBuilder, for every plan, schema, decoder and input:   *)
(* the types of its state, the columns of one length, committed rows that  *)
(* stay, losses that are reported, rows that are counted, and a table that *)
(* is exactly the filtered input.                                          *)
(***************************************************************************)
EXTENDS TableBuilder, Induction, FiniteSetTheorems, SequenceTheorems, TLAPS

-----------------------------------------------------------------------------
(* The configuration.                                                      *)

\* What a filter's nodes are.
NodeOK(i) ==
  LET node == Filter[i]
  IN /\ node.op \in LeafOps \cup Connectives \cup {"Always"}
     /\ node.op \in Connectives => node.a \in 1..(i - 1)
     /\ node.op \in {"And", "Or"} => node.b \in 1..(i - 1)
     /\ node.op = "Always" => node.keep \in BOOLEAN
     /\ node.op \in LeafOps => node.fields \in Seq(Names) \ {<<>>}

(* ConfigAssumption, of the configuration in use.                           *)
LEMMA ConfigFacts ==
  ASSUME config \in Configs
  PROVE  /\ \A raw \in Names : ren(raw) \in Names
         /\ schema_order \in Seq(Names) /\ FrozenOrder \in Seq(Names)
         /\ Frozen \in {"none", "exact", "partial"}
         /\ Frozen = "none" <=> FrozenOrder = <<>>
         /\ MaxFields \in Nat /\ MaxRows \in Nat
         /\ {StrictTypes, MemoryLimited, ShortCircuits, UsesSlots,
             UniqueFields, PartialRows} \subseteq BOOLEAN
         /\ Api \in Apis
         /\ Filter \in Seq(ToSet(Filter))
         /\ \A i \in DOMAIN Filter : NodeOK(i)
<1> DEFINE c == config
<1>1. /\ DOMAIN c.field_map \subseteq c.names
      /\ \A f \in DOMAIN c.field_map : c.field_map[f] \in c.names
      /\ c.schema_order \in Seq(c.names) /\ c.frozen_order \in Seq(c.names)
      /\ c.frozen \in {"none", "exact", "partial"}
      /\ c.frozen = "none" <=> c.frozen_order = <<>>
      /\ c.api \in Apis
      /\ {c.strict_types, c.memory_limited, c.short_circuits, c.uses_slots,
          c.unique_fields, c.partial_rows} \subseteq BOOLEAN
      /\ c.max_fields \in Nat /\ c.max_rows \in Nat
      /\ c.filter \in Seq(ToSet(c.filter))
  BY ConfigAssumption
<1>2. \A i \in DOMAIN c.filter : LET node == c.filter[i] IN
         /\ node.op \in LeafOps \cup Connectives \cup {"Always"}
         /\ node.op \in Connectives => node.a \in 1..(i - 1)
         /\ node.op \in {"And", "Or"} => node.b \in 1..(i - 1)
         /\ node.op = "Always" => node.keep \in BOOLEAN
         /\ node.op \in LeafOps => node.fields \in Seq(c.names) \ {<<>>}
  BY ConfigAssumption
<1>3. \A i \in DOMAIN Filter : NodeOK(i)
  BY <1>2 DEF NodeOK, Filter, Names
<1>4. \A raw \in Names : ren(raw) \in Names
  BY <1>1 DEF ren, Names, field_map
<1> QED
  BY <1>1, <1>3, <1>4 DEF Names, schema_order, FrozenOrder, Frozen, MaxFields, MaxRows, StrictTypes,
     MemoryLimited, ShortCircuits, UsesSlots, UniqueFields, PartialRows, Api, Filter

(* Nothing that is defined by the configuration ever changes.               *)
LEMMA ConfigFixed ==
  ASSUME Fixed
  PROVE  UNCHANGED <<Names, Values, Cells, HasFilter, StrictTypes, Frozen, FrozenOrder,
                     MemoryLimited, Api, UniqueFields, UsesSlots, MaxFields, Ordinals, PlainPlan>>
BY DEF Fixed, Names, Values, Cells, HasFilter, StrictTypes, Frozen, FrozenOrder, MemoryLimited, Api,
       UniqueFields, UsesSlots, MaxFields, Ordinals, PlainPlan, Filter, field_map, drop_fields,
       schema_order

\* No element twice.
Distinct(s) == \A i, j \in DOMAIN s : s[i] = s[j] => i = j

\* The second sequence begins with the first.
Begins(s, t) == \A i \in DOMAIN s : i \in DOMAIN t /\ t[i] = s[i]

(* A sequence with all the positions of another is at least as long.         *)
LEMMA LongerSequence ==
  ASSUME NEW S, NEW s \in Seq(S), NEW T, NEW t \in Seq(T), DOMAIN s \subseteq DOMAIN t
  PROVE  /\ DOMAIN s = 1..Len(s) /\ DOMAIN t = 1..Len(t)
         /\ Len(s) <= Len(t)
<1>1. DOMAIN s = 1..Len(s) /\ Len(s) \in Nat /\ DOMAIN t = 1..Len(t) /\ Len(t) \in Nat
  BY LenProperties
<1>2. Len(s) = 0 \/ Len(s) \in DOMAIN t
  BY <1>1
<1> QED
  BY <1>1, <1>2

(* A name is added to a list of names once.                                 *)
LEMMA AddNameFacts ==
  ASSUME NEW N, NEW s \in Seq(N), NEW x \in N
  PROVE  /\ AddName(s, x) \in Seq(N)
         /\ ToSet(AddName(s, x)) = ToSet(s) \cup {x}
         /\ Distinct(s) => Distinct(AddName(s, x))
         /\ Begins(s, AddName(s, x))
<1>1. CASE x \in ToSet(s)
  BY <1>1 DEF AddName, Begins
<1>2. CASE x \notin ToSet(s)
  <2>1. /\ Append(s, x) \in Seq(N) /\ Len(Append(s, x)) = Len(s) + 1
        /\ \A i \in 1..Len(s) : Append(s, x)[i] = s[i]
        /\ Append(s, x)[Len(s) + 1] = x
    BY AppendProperties
  <2>2. DOMAIN s = 1..Len(s) /\ DOMAIN Append(s, x) = 1..(Len(s) + 1) /\ Len(s) \in Nat
    BY <2>1, LenProperties
  <2>3. ToSet(Append(s, x)) = ToSet(s) \cup {x}
    BY <2>1, <2>2 DEF ToSet
  <2>4. Distinct(s) => Distinct(Append(s, x))
    BY <2>1, <2>2, <1>2 DEF ToSet, Distinct
  <2>5. Begins(s, Append(s, x))
    BY <2>1, <2>2 DEF Begins
  <2> QED
    BY <2>1, <2>3, <2>4, <2>5, <1>2 DEF AddName
<1> QED
  BY <1>1, <1>2

(* Added keeps the names and appends the others, once each.                 *)
LEMMA AddedFacts ==
  ASSUME NEW N, NEW names \in Seq(N), NEW extra \in Seq(N), NEW excluded
  PROVE  /\ Added(names, extra, excluded) \in Seq(N)
         /\ ToSet(Added(names, extra, excluded)) = ToSet(names) \cup (ToSet(extra) \ excluded)
         /\ Distinct(names) => Distinct(Added(names, extra, excluded))
         /\ Begins(names, Added(names, extra, excluded))
<1> DEFINE top == Len(extra)
           One(i, s) == IF extra[i] \in excluded THEN s ELSE AddName(s, extra[i])
           Eqn(u) == u = [i \in 0..top |-> IF i = 0 THEN names ELSE One(i, u[i - 1])]
           V == Seq(N)
           step == [i \in 1..top |-> [s \in V |-> One(i, s)]]
<1>1. top \in Nat /\ names \in V /\ \A i \in 1..top : extra[i] \in N
  BY LenProperties, ElementOfSeq
<1>2. \A i \in 1..top : \A s \in V : One(i, s) \in V
  BY <1>1, AddNameFacts
<1>3. step \in Steps(top, V)
  <2> HIDE DEF V, One
  <2> QED
    BY <1>2 DEF Steps
<1> HIDE DEF step, top, V, One
<1>4. PICK f : Iteration(f, top, V, names, step)
  BY <1>1, <1>3, IterationExists
<1>5. /\ f \in [0..top -> V] /\ f[0] = names
      /\ \A i \in 1..top : f[i] = step[i][f[i - 1]]
  BY <1>4 DEF Iteration
<1>6. \A i \in 1..top : f[i] = One(i, f[i - 1])
  <2>1. ASSUME NEW i \in 1..top
        PROVE  f[i - 1] \in V
    BY <1>1, <1>5
  <2> QED
    BY <2>1, <1>5 DEF step
<1>7. Eqn(f)
  BY <1>1, <1>5, <1>6
<1> DEFINE upto == CHOOSE u : Eqn(u)
<1>8. Eqn(upto)
  BY <1>7
<1>9. Added(names, extra, excluded) = upto[top]
  BY DEF Added, top, One
<1> HIDE DEF upto
<1>10. upto[0] = names /\ \A i \in 1..top : upto[i] = One(i, upto[i - 1])
  BY <1>1, <1>8
<1> DEFINE Seen_(i) == {extra[j] : j \in 1..i} \ excluded
           S == {i \in Nat : /\ upto[i] \in Seq(N)
                             /\ ToSet(upto[i]) = ToSet(names) \cup Seen_(i)
                             /\ Distinct(names) => Distinct(upto[i])
                             /\ Begins(names, upto[i])}
<1>11. 0 \in S
  BY <1>10, <1>1 DEF V, Begins
<1>12. ASSUME NEW k \in Nat, k < top, k \in S
       PROVE  k + 1 \in S
  <2>1. k + 1 \in 1..top /\ extra[k + 1] \in N /\ upto[k + 1] = One(k + 1, upto[k])
    BY <1>1, <1>10, <1>12
  <2>2. 1..(k + 1) = 1..k \cup {k + 1}
    BY <1>12
  <2>3. Seen_(k + 1) = Seen_(k) \cup ({extra[k + 1]} \ excluded)
    BY <2>2
  <2>4. CASE extra[k + 1] \in excluded
    BY <2>1, <2>3, <2>4, <1>12 DEF One
  <2>5. CASE extra[k + 1] \notin excluded
    <3>1. upto[k + 1] = AddName(upto[k], extra[k + 1])
      BY <2>1, <2>5 DEF One
    <3> HIDE DEF Seen_
    <3>2. /\ upto[k + 1] \in Seq(N)
          /\ ToSet(upto[k + 1]) = ToSet(upto[k]) \cup {extra[k + 1]}
          /\ Distinct(upto[k]) => Distinct(upto[k + 1])
          /\ Begins(upto[k], upto[k + 1])
      <4> DEFINE t == upto[k]
      <4>1. t \in Seq(N) /\ extra[k + 1] \in N
        BY <2>1, <1>12
      <4> HIDE DEF t
      <4>2. /\ AddName(t, extra[k + 1]) \in Seq(N)
            /\ ToSet(AddName(t, extra[k + 1])) = ToSet(t) \cup {extra[k + 1]}
            /\ Distinct(t) => Distinct(AddName(t, extra[k + 1]))
            /\ Begins(t, AddName(t, extra[k + 1]))
        BY <4>1, AddNameFacts
      <4> QED
        BY <3>1, <4>2 DEF t
    <3>3. Begins(names, upto[k + 1])
      BY <3>2, <1>12 DEF Begins
    <3> QED
      BY <3>2, <3>3, <2>3, <2>5, <1>12
  <2> QED
    BY <2>4, <2>5
<1> HIDE DEF S
<1>13. top \in S
  <2>1. \A k \in 0..top : k \in S
    BY <1>1, <1>11, <1>12, IntervalInduction
  <2> QED
    BY <2>1, <1>1
<1>14. Seen_(top) = ToSet(extra) \ excluded
  BY DEF top, ToSet
<1> USE DEF S
<1> QED
  BY <1>9, <1>13, <1>14

LEMMA ConcatElements ==
  ASSUME NEW N, NEW s \in Seq(N), NEW t \in Seq(N)
  PROVE  ToSet(s \o t) = ToSet(s) \cup ToSet(t)
<1>1. /\ Len(s) \in Nat /\ Len(t) \in Nat /\ DOMAIN s = 1..Len(s) /\ DOMAIN t = 1..Len(t)
      /\ DOMAIN (s \o t) = 1..(Len(s) + Len(t))
  BY LenProperties, ConcatProperties
<1>2. ASSUME NEW i \in 1..(Len(s) + Len(t))
      PROVE  (s \o t)[i] = IF i <= Len(s) THEN s[i] ELSE t[i - Len(s)]
  BY ConcatProperties
<1>3. ToSet(s \o t) \subseteq ToSet(s) \cup ToSet(t)
  <2>1. ASSUME NEW i \in 1..(Len(s) + Len(t))
        PROVE  (s \o t)[i] \in ToSet(s) \cup ToSet(t)
    <3>1. CASE i <= Len(s)
      BY <1>1, <1>2, <3>1 DEF ToSet
    <3>2. CASE i > Len(s)
      <4>1. i - Len(s) \in 1..Len(t)
        BY <1>1, <3>2
      <4> QED
        BY <1>1, <1>2, <3>2, <4>1 DEF ToSet
    <3> QED
      BY <1>1, <3>1, <3>2
  <2> QED
    BY <1>1, <2>1 DEF ToSet
<1>4. ASSUME NEW i \in 1..Len(s)
      PROVE  s[i] \in ToSet(s \o t)
  <2>1. i \in 1..(Len(s) + Len(t)) /\ i <= Len(s)
    BY <1>1
  <2> QED
    BY <1>1, <1>2, <2>1 DEF ToSet
<1>5. ASSUME NEW i \in 1..Len(t)
      PROVE  t[i] \in ToSet(s \o t)
  <2>1. /\ Len(s) + i \in 1..(Len(s) + Len(t)) /\ ~ Len(s) + i <= Len(s)
        /\ (Len(s) + i) - Len(s) = i
    BY <1>1
  <2> QED
    BY <1>1, <1>2, <2>1 DEF ToSet
<1> QED
  BY <1>1, <1>3, <1>4, <1>5 DEF ToSet

(* The fields of the filter are names, and it has those of every leaf.      *)
LEMMA PredicateFieldsType ==
  ASSUME config \in Configs
  PROVE  /\ predicate_fields \in Seq(Names)
         /\ \A i \in Leaves : ToSet(Filter[i].fields) \subseteq ToSet(predicate_fields)
<1> DEFINE top == Len(Filter)
           One(i, s) == s \o (IF i \in Leaves THEN Filter[i].fields ELSE <<>>)
           Eqn(u) == u = [i \in 0..top |-> IF i = 0 THEN <<>> ELSE One(i, u[i - 1])]
           V == Seq(Names)
           step == [i \in 1..top |-> [s \in V |-> One(i, s)]]
<1>1. /\ top \in Nat /\ <<>> \in V
      /\ \A i \in 1..top : i \in Leaves => Filter[i].fields \in V
  BY ConfigFacts, LenProperties DEF Leaves, NodeOK
<1>2. \A i \in 1..top : \A s \in V : One(i, s) \in V
  BY <1>1, ConcatProperties
<1>3. step \in Steps(top, V)
  <2> HIDE DEF V, One
  <2> QED
    BY <1>2 DEF Steps
<1> HIDE DEF step, top, V, One
<1>4. PICK f : Iteration(f, top, V, <<>>, step)
  BY <1>1, <1>3, IterationExists
<1>5. /\ f \in [0..top -> V] /\ f[0] = <<>>
      /\ \A i \in 1..top : f[i] = step[i][f[i - 1]]
  BY <1>4 DEF Iteration
<1>6. \A i \in 1..top : f[i] = One(i, f[i - 1])
  <2>1. ASSUME NEW i \in 1..top
        PROVE  f[i - 1] \in V
    BY <1>1, <1>5
  <2> QED
    BY <2>1, <1>5 DEF step
<1>7. Eqn(f)
  BY <1>1, <1>5, <1>6
<1> DEFINE upto == CHOOSE u : Eqn(u)
<1>8. Eqn(upto)
  BY <1>7
<1>9. predicate_fields = upto[top]
  BY DEF predicate_fields, top, One
<1> HIDE DEF upto
<1>10. upto[0] = <<>> /\ \A i \in 1..top : upto[i] = One(i, upto[i - 1])
  BY <1>1, <1>8
<1> DEFINE S == {i \in Nat : /\ upto[i] \in V
                             /\ \A j \in 1..i : j \in Leaves =>
                                  ToSet(Filter[j].fields) \subseteq ToSet(upto[i])}
<1>11. 0 \in S
  BY <1>10, <1>1
<1>12. ASSUME NEW k \in Nat, k < top, k \in S
       PROVE  k + 1 \in S
  <2>1. k + 1 \in 1..top /\ upto[k + 1] = One(k + 1, upto[k]) /\ upto[k] \in V
    BY <1>1, <1>10, <1>12
  <2> DEFINE s == upto[k]
             t == IF k + 1 \in Leaves THEN Filter[k + 1].fields ELSE <<>>
  <2>2. s \in Seq(Names) /\ t \in Seq(Names) /\ upto[k + 1] = s \o t
    BY <2>1, <1>1 DEF One, V
  <2>3. ToSet(upto[k + 1]) = ToSet(s) \cup ToSet(t)
    <3> HIDE DEF s, t
    <3> QED
      BY <2>2, ConcatElements
  <2>4. ASSUME NEW j \in 1..(k + 1), j \in Leaves
        PROVE  ToSet(Filter[j].fields) \subseteq ToSet(upto[k + 1])
    <3>1. CASE j \in 1..k
      BY <1>12, <2>3, <2>4, <3>1
    <3>2. CASE j = k + 1
      BY <2>3, <2>4, <3>2
    <3> QED
      BY <3>1, <3>2
  <2> QED
    BY <2>1, <2>4, <1>2
<1> HIDE DEF S
<1>13. \A k \in 0..top : k \in S
  BY <1>1, <1>11, <1>12, IntervalInduction
<1>14. top \in S
  BY <1>13, <1>1
<1>15. Leaves \subseteq 1..top
  BY ConfigFacts, LenProperties DEF Leaves, top
<1> QED
  BY <1>9, <1>14, <1>15 DEF S, V

(* A column is a name.                                                      *)
LEMMA ResolvedNames ==
  ASSUME config \in Configs, NEW raw \in Names
  PROVE  resolve_field(raw) \in Names \cup {NoName} /\ PredName(raw) \in Names
BY ConfigFacts DEF resolve_field, PredName

(* The columns a builder starts with.                                       *)
LEMMA InitialOrder ==
  ASSUME config \in Configs
  PROVE  /\ initial_order \in Seq(Names)
         /\ Distinct(initial_order)
         /\ Frozen = "exact" => initial_order # <<>>
         /\ Begins(predeclared, initial_order)
         /\ schema_order # <<>> => \A raw \in Names :
              resolve_field(raw) = NoName \/ resolve_field(raw) \in ToSet(predeclared)
         /\ schema_order = <<>> => predeclared = <<>>
<1> DEFINE pred == [k \in DOMAIN predicate_fields |-> PredName(predicate_fields[k])]
<1>1. /\ predeclared \in Seq(Names) /\ Distinct(predeclared)
      /\ schema_order # <<>> =>
           /\ ToSet(predeclared) = (ToSet(schema_order) \cup ToSet(pred)) \ drop_fields
  <2>0. <<>> \in Seq(Names) /\ Distinct(<<>>)
    BY EmptySeq DEF Distinct
  <2>1. CASE schema_order = <<>>
    BY <2>0, <2>1 DEF predeclared
  <2>2. CASE schema_order # <<>>
    <3>1. pred \in Seq(Names)
      <4>1. Len(predicate_fields) \in Nat /\ DOMAIN predicate_fields = 1..Len(predicate_fields)
        BY PredicateFieldsType, LenProperties
      <4>2. \A k \in 1..Len(predicate_fields) : PredName(predicate_fields[k]) \in Names
        BY PredicateFieldsType, ElementOfSeq, ResolvedNames
      <4> QED
        BY <4>1, <4>2, IsASeq
    <3>2. predeclared = Added(<<>>, schema_order \o pred, drop_fields)
      BY <2>2 DEF predeclared
    <3> HIDE DEF pred
    <3>3. schema_order \o pred \in Seq(Names)
      BY <3>1, ConfigFacts, ConcatProperties
    <3>4. ToSet(schema_order \o pred) = ToSet(schema_order) \cup ToSet(pred)
      BY <3>1, ConfigFacts, ConcatElements
    <3>5. ToSet(<<>>) = {}
      BY DEF ToSet
    <3> DEFINE all == schema_order \o pred
    <3>6. /\ predeclared \in Seq(Names) /\ Distinct(predeclared)
          /\ ToSet(predeclared) = ToSet(all) \ drop_fields
      <4> HIDE DEF all
      <4>1. /\ Added(<<>>, all, drop_fields) \in Seq(Names)
            /\ ToSet(Added(<<>>, all, drop_fields)) = ToSet(<<>>) \cup (ToSet(all) \ drop_fields)
            /\ Distinct(Added(<<>>, all, drop_fields))
        <5> DEFINE none == <<>>
        <5>1. all \in Seq(Names) /\ none \in Seq(Names) /\ Distinct(none)
          BY <2>0, <3>3 DEF all
        <5> HIDE DEF none
        <5>2. /\ Added(none, all, drop_fields) \in Seq(Names)
              /\ ToSet(Added(none, all, drop_fields)) = ToSet(none) \cup (ToSet(all) \ drop_fields)
              /\ Distinct(Added(none, all, drop_fields))
          BY <5>1, AddedFacts
        <5> QED
          BY <5>2 DEF none
      <4> QED
        BY <3>2, <3>5, <4>1 DEF all
    <3> QED
      BY <2>2, <3>4, <3>6
  <2> QED
    BY <2>1, <2>2
<1>2. FrozenOrder \in Seq(Names)
  BY ConfigFacts
<1>3. /\ initial_order \in Seq(Names) /\ Distinct(initial_order)
      /\ ToSet(FrozenOrder) \ {} \subseteq ToSet(initial_order)
      /\ Begins(predeclared, initial_order)
  BY <1>1, <1>2, AddedFacts DEF initial_order
<1>4. ASSUME Frozen = "exact"
      PROVE  initial_order # <<>>
  <2>1. FrozenOrder # <<>>
    BY <1>4, ConfigFacts
  <2>2. FrozenOrder[1] \in ToSet(FrozenOrder)
    BY <1>2, <2>1, EmptySeq, LenProperties DEF ToSet
  <2>3. FrozenOrder[1] \in ToSet(initial_order)
    BY <1>3, <2>2
  <2>4. DOMAIN initial_order # {}
    BY <2>3 DEF ToSet
  <2> QED
    BY <2>4
<1>5. ASSUME schema_order # <<>>, NEW raw \in Names, resolve_field(raw) # NoName
      PROVE  resolve_field(raw) \in ToSet(predeclared)
  <2> DEFINE col == resolve_field(raw)
  <2>1. /\ col = ren(raw) /\ col \notin drop_fields
        /\ col \in ToSet(schema_order) \/ filter_references(col)
    BY <1>5 DEF resolve_field
  <2>2. CASE filter_references(col)
    <3>0. PICK i \in Leaves : \E field \in ToSet(Filter[i].fields) : ren(field) = col
      BY <2>2 DEF filter_references
    <3>1. PICK field \in ToSet(Filter[i].fields) : ren(field) = col
      BY <3>0
    <3>2. PredName(field) = col
      BY <2>1, <2>2, <3>1, <1>5 DEF PredName, resolve_field
    <3>3. field \in ToSet(predicate_fields)
      BY <3>1, PredicateFieldsType
    <3>4. col \in ToSet(pred)
      BY <3>2, <3>3 DEF ToSet
    <3> QED
      BY <1>1, <1>5, <2>1, <3>4
  <2> QED
    BY <1>1, <1>5, <2>1, <2>2
<1>6. schema_order = <<>> => predeclared = <<>>
  BY DEF predeclared
<1> QED
  BY <1>3, <1>4, <1>5, <1>6

-----------------------------------------------------------------------------
(* The value of a filter.                                                  *)

States == {"Undecided", "Pass", "Fail"}

\* The equations of the tree: a node from the nodes before it.
NodeValue(i, value, leafState) ==
  LET node == Filter[i]
  IN CASE node.op = "And" -> AndState(value[node.a], value[node.b])
       [] node.op = "Or" -> OrState(value[node.a], value[node.b])
       [] node.op = "Not" -> NotState(value[node.a])
       [] node.op = "Always" -> Verdict(node.keep)
       [] OTHER -> leafState[i]

(* A node's value depends on the nodes before it.                           *)
LEMMA NodeLocal ==
  ASSUME config \in Configs, NEW i \in DOMAIN Filter, NEW f, NEW g, NEW leafState,
         \A j \in 1..(i - 1) : f[j] = g[j]
  PROVE  NodeValue(i, f, leafState) = NodeValue(i, g, leafState)
<1> DEFINE node == Filter[i]
<1>1. /\ node.op \in Connectives => node.a \in 1..(i - 1)
      /\ node.op \in {"And", "Or"} => node.b \in 1..(i - 1)
  BY ConfigFacts DEF NodeOK
<1>2. CASE node.op \in {"And", "Or"}
  <2>1. f[node.a] = g[node.a] /\ f[node.b] = g[node.b]
    BY <1>1, <1>2 DEF Connectives
  <2> QED
    BY <2>1 DEF NodeValue
<1>3. CASE node.op = "Not"
  <2>1. f[node.a] = g[node.a]
    BY <1>1, <1>3 DEF Connectives
  <2> QED
    BY <2>1, <1>3 DEF NodeValue
<1>4. CASE node.op \notin {"And", "Or", "Not"}
  BY <1>4 DEF NodeValue
<1> QED
  BY <1>2, <1>3, <1>4

(* The equations have a solution, and it is the one EvalTree takes.         *)
LEMMA TreeValue ==
  ASSUME config \in Configs, NEW leafState
  PROVE  \E value : /\ \A i \in DOMAIN Filter : value[i] = NodeValue(i, value, leafState)
                    /\ EvalTree(leafState) = value[Len(Filter)]
<1> DEFINE top == Len(Filter)
           Upto(k, f) == \A i \in 1..k : f[i] = NodeValue(i, f, leafState)
           S == {k \in Nat : k <= top => \E f : Upto(k, f)}
<1>1. top \in Nat /\ DOMAIN Filter = 1..top
  BY ConfigFacts, LenProperties
<1> HIDE DEF top
<1>2. 0 \in S
  OBVIOUS
<1>3. ASSUME NEW k \in Nat, k \in S
      PROVE  k + 1 \in S
  <2>1. SUFFICES ASSUME k + 1 <= top PROVE \E f : Upto(k + 1, f)
    OBVIOUS
  <2>2. PICK f : Upto(k, f)
    BY <1>1, <1>3, <2>1
  <2> DEFINE g == [i \in 1..(k + 1) |-> IF i <= k THEN f[i] ELSE NodeValue(k + 1, f, leafState)]
  <2>3. /\ \A i \in 1..k : g[i] = f[i]
        /\ g[k + 1] = NodeValue(k + 1, f, leafState)
    OBVIOUS
  <2> HIDE DEF g
  <2>4. ASSUME NEW i \in 1..(k + 1)
        PROVE  g[i] = NodeValue(i, g, leafState)
    <3>1. i \in DOMAIN Filter
      BY <1>1, <2>1
    <3>2. \A j \in 1..(i - 1) : f[j] = g[j]
      BY <2>3
    <3>3. NodeValue(i, f, leafState) = NodeValue(i, g, leafState)
      BY <3>1, <3>2, NodeLocal
    <3>4. g[i] = NodeValue(i, f, leafState)
      BY <2>2, <2>3
    <3> QED
      BY <3>3, <3>4
  <2> QED
    BY <2>4
<1> HIDE DEF S
<1>4. top \in S
  BY <1>1, <1>2, <1>3, NatSetInduction
<1> USE DEF S
<1>5. PICK f : Upto(top, f)
  BY <1>1, <1>4
<1> DEFINE Eqn(v) == v = [i \in DOMAIN Filter |-> NodeValue(i, v, leafState)]
           h == [i \in DOMAIN Filter |-> f[i]]
<1>6. \A i \in DOMAIN Filter : h[i] = f[i]
  OBVIOUS
<1> HIDE DEF h
<1>7. \A i \in DOMAIN Filter : h[i] = NodeValue(i, h, leafState)
  <2> TAKE i \in DOMAIN Filter
  <2>1. \A j \in 1..(i - 1) : h[j] = f[j]
    BY <1>1, <1>6
  <2>2. NodeValue(i, h, leafState) = NodeValue(i, f, leafState)
    BY <2>1, NodeLocal
  <2> QED
    BY <2>2, <1>1, <1>5, <1>6
<1>8. Eqn(h)
  <2>1. h = [i \in DOMAIN Filter |-> h[i]]
    BY DEF h
  <2> QED
    BY <2>1, <1>7
<1> DEFINE value == CHOOSE v : Eqn(v)
<1>9. Eqn(value)
  BY <1>8
<1>10. EvalTree(leafState) = value[top]
  BY DEF EvalTree, NodeValue, top
<1> HIDE DEF value
<1> QED
  BY <1>9, <1>10 DEF top

(* The value of a filter is a state.                                        *)
LEMMA TreeState ==
  ASSUME config \in Configs, HasFilter, NEW leafState,
         \A i \in Leaves : leafState[i] \in States
  PROVE  EvalTree(leafState) \in States
<1>1. PICK value : /\ \A i \in DOMAIN Filter : value[i] = NodeValue(i, value, leafState)
                   /\ EvalTree(leafState) = value[Len(Filter)]
  BY TreeValue
<1>2. Len(Filter) \in Nat \ {0} /\ DOMAIN Filter = 1..Len(Filter)
  BY ConfigFacts, LenProperties, EmptySeq DEF HasFilter
<1> DEFINE S == {k \in Nat : k \in DOMAIN Filter => value[k] \in States}
<1>3. ASSUME NEW k \in Nat, \A j \in 0..(k - 1) : j \in S
      PROVE  k \in S
  <2>1. SUFFICES ASSUME k \in DOMAIN Filter PROVE value[k] \in States
    OBVIOUS
  <2> DEFINE node == Filter[k]
  <2>2. NodeOK(k)
    BY <2>1, ConfigFacts
  <2>3. \A j \in 1..(k - 1) : value[j] \in States
    BY <1>2, <1>3, <2>1
  <2>4. value[k] = NodeValue(k, value, leafState)
    BY <1>1, <2>1
  <2>5. CASE node.op \in {"And", "Or"}
    <3>1. value[node.a] \in States /\ value[node.b] \in States
      BY <2>2, <2>3, <2>5 DEF NodeOK, Connectives
    <3> QED
      BY <2>4, <2>5, <3>1 DEF NodeValue, AndState, OrState, NotState, States
  <2>6. CASE node.op = "Not"
    <3>1. value[node.a] \in States
      BY <2>2, <2>3, <2>6 DEF NodeOK, Connectives
    <3> QED
      BY <2>4, <2>6, <3>1 DEF NodeValue, NotState, States
  <2>7. CASE node.op = "Always"
    BY <2>4, <2>7 DEF NodeValue, Verdict, States
  <2>8. CASE node.op \in LeafOps
    <3>1. k \in Leaves
      BY <2>1, <2>8 DEF Leaves
    <3> QED
      BY <2>4, <2>8, <3>1 DEF NodeValue, LeafOps, Comparisons
  <2> QED
    BY <2>2, <2>5, <2>6, <2>7, <2>8 DEF NodeOK, Connectives
<1> HIDE DEF S
<1>4. Nat \subseteq S
  BY <1>3, CompleteInduction
<1> QED
  BY <1>1, <1>2, <1>4 DEF S

(* So the filter's verdict on a row, buffered or ended, is a state.         *)
LEMMA PredicateStates ==
  ASSUME config \in Configs, HasFilter, NEW order, NEW values
  PROVE  eval_predicate(order, values) \in States /\ evaluate_against_null \in States
<1>1. ASSUME NEW i \in Leaves, NEW o, NEW b
      PROVE  BufferedLeaf(Filter[i], o, b) \in States /\ NullLeaf(Filter[i], o, b) \in States
  <2>1. Filter[i].op \in LeafOps
    BY DEF Leaves
  <2>2. MissingState(Filter[i]) \in States
    BY <2>1 DEF MissingState, LeafOps, Comparisons, States
  <2>3. BufferedLeaf(Filter[i], o, b) \in States
    BY <2>2 DEF BufferedLeaf, Verdict, States
  <2> QED
    BY <2>3 DEF NullLeaf, Verdict, States
<1>2. Leaves \subseteq DOMAIN Filter
  BY DEF Leaves
<1> DEFINE buffered == [i \in DOMAIN Filter |-> BufferedLeaf(Filter[i], order, values)]
           final == [i \in DOMAIN Filter |-> NullLeaf(Filter[i], column_order, fields)]
<1>3. \A i \in Leaves : buffered[i] \in States /\ final[i] \in States
  BY <1>1, <1>2
<1>4. eval_predicate(order, values) = EvalTree(buffered) /\ evaluate_against_null = EvalTree(final)
  BY DEF eval_predicate, evaluate_against_null
<1> HIDE DEF buffered, final
<1> QED
  BY <1>3, <1>4, TreeState

-----------------------------------------------------------------------------
(* Columns.                                                                *)

\* What a new column starts with.
Backfilled == [r \in 1..backfill |-> Null]

\* The columns and their names.
TableType ==
  /\ columns \in Seq(Seq(Cells))
  /\ column_order \in Seq(Names)
  /\ Len(columns) = Len(column_order)
  /\ Distinct(column_order)
  /\ Frozen = "exact" => columns # <<>>
  /\ row_dirty \subseteq DOMAIN columns
  /\ row_count \in Nat
  /\ direct \in BOOLEAN

(* Every cell of a table is a cell.                                         *)
LEMMA CellType ==
  ASSUME NEW col, NEW v \in Values
  PROVE  Cell(col, v) \in Cells
BY DEF Cell, Cells

\* Pushing a value: the committed cells stay, the value is the last cell.
PushedTo(cells, count, cell, new) ==
  /\ Len(new) = IF Len(cells) > count THEN Len(cells) ELSE Len(cells) + 1
  /\ \A r \in 1..count : r <= Len(cells) => new[r] = cells[r]
  /\ new[Len(new)] = cell

LEMMA PushCellFacts ==
  ASSUME NEW V, NEW cells \in Seq(V), NEW count \in Nat, NEW cell \in V
  PROVE  /\ PushCell(cells, count, cell) \in Seq(V)
         /\ PushedTo(cells, count, cell, PushCell(cells, count, cell))
<1> USE DEF PushedTo
<1>1. CASE Len(cells) > count
  <2>1. /\ Front(cells) \in Seq(V) /\ Len(Front(cells)) = Len(cells) - 1
        /\ \A r \in 1..count : Front(cells)[r] = cells[r]
    <3> DEFINE top == Len(cells) - 1
    <3>1. top \in Nat /\ 1 \in 1..(Len(cells) + 1) /\ top \in 0..Len(cells) /\ count <= top
      BY <1>1, LenProperties
    <3>2. Front(cells) = SubSeq(cells, 1, top)
      BY DEF Front
    <3> HIDE DEF top
    <3>3. /\ SubSeq(cells, 1, top) \in Seq(V)
          /\ Len(SubSeq(cells, 1, top)) = IF 1 <= top THEN top - 1 + 1 ELSE 0
          /\ \A i \in 1..(top - 1 + 1) : SubSeq(cells, 1, top)[i] = cells[1 + i - 1]
      BY <3>1, SubSeqProperties
    <3>4. Len(SubSeq(cells, 1, top)) = top /\ \A i \in 1..top : SubSeq(cells, 1, top)[i] = cells[i]
      BY <3>1, <3>3
    <3> QED
      BY <3>1, <3>2, <3>3, <3>4 DEF top
  <2>2. PushCell(cells, count, cell) = Append(Front(cells), cell)
    BY <1>1 DEF PushCell
  <2> HIDE DEF Front
  <2>3. Len(cells) \in Nat
    BY LenProperties
  <2> QED
    BY <1>1, <2>1, <2>2, <2>3, AppendProperties
<1>2. CASE ~ (Len(cells) > count)
  BY <1>2, LenProperties, AppendProperties DEF PushCell
<1> QED
  BY <1>1, <1>2

(* A new column is null in every row it has missed.                         *)
LEMMA BackfilledFacts ==
  ASSUME row_count \in Nat, direct \in BOOLEAN
  PROVE  /\ Backfilled \in Seq(Cells)
         /\ Len(Backfilled) = IF backfill < 0 THEN 0 ELSE backfill
         /\ \A r \in 1..Len(Backfilled) : Backfilled[r] = Null
<1>1. backfill \in Nat \/ backfill = -1
  BY DEF backfill
<1>2. CASE backfill \in Nat
  BY <1>2, IsASeq DEF Backfilled, Cells
<1>3. CASE backfill = -1
  <2>1. Backfilled = [r \in 1..0 |-> Null]
    BY <1>3 DEF Backfilled
  <2> QED
    BY <1>3, <2>1, IsASeq
<1> QED
  BY <1>1, <1>2, <1>3

\* Every column keeps its slot, and a new one comes last.
Ensured(cols, order, slot) ==
  /\ cols \in Seq(Seq(Cells)) /\ order \in Seq(Names)
  /\ Len(cols) = Len(order)
  /\ \A i \in 1..Len(columns) : cols[i] = columns[i] /\ order[i] = column_order[i]
  /\ \/ Len(cols) = Len(columns)
     \/ /\ Len(cols) = Len(columns) + 1
        /\ slot = Len(columns) + 1
        /\ cols[slot] = Backfilled
  /\ Distinct(order)
  /\ slot \in 1..Len(cols)

(* ensure_column_idx, and the name of the slot it answers.                  *)
LEMMA EnsureColumn ==
  ASSUME TableType, NEW col \in Names
  PROVE  /\ Ensured(WithColumn(col), WithName(col), ensure_column_idx(col))
         /\ ~unknown(col) => WithName(col)[ensure_column_idx(col)] = col
<1>1. /\ columns \in Seq(Seq(Cells)) /\ column_order \in Seq(Names)
      /\ Len(columns) = Len(column_order) /\ Distinct(column_order)
  BY DEF TableType
<1>2. /\ Len(columns) \in Nat /\ DOMAIN columns = 1..Len(columns)
      /\ DOMAIN column_order = 1..Len(columns)
  BY <1>1, LenProperties
<1>3. CASE known(col)
  <2>1. SlotOf(col) \in DOMAIN column_order /\ column_order[SlotOf(col)] = col
    BY <1>3 DEF known, SlotOf, ToSet
  <2>2. /\ WithColumn(col) = columns /\ WithName(col) = column_order
        /\ ensure_column_idx(col) = SlotOf(col)
    BY <1>3 DEF WithColumn, WithName, ensure_column_idx
  <2>3. Ensured(columns, column_order, SlotOf(col))
    BY <1>1, <1>2, <2>1 DEF Ensured
  <2> QED
    BY <2>1, <2>2, <2>3
<1>4. CASE ~known(col) /\ Frozen = "exact"
  <2>1. /\ WithColumn(col) = columns /\ WithName(col) = column_order
        /\ ensure_column_idx(col) = 1 /\ unknown(col)
    BY <1>4 DEF WithColumn, WithName, ensure_column_idx, unknown
  <2>2. Len(columns) # 0
    BY <1>1, <1>4, EmptySeq DEF TableType
  <2>3. Ensured(columns, column_order, 1)
    BY <1>1, <1>2, <2>2 DEF Ensured
  <2> QED
    BY <2>1, <2>3
<1>5. CASE ~known(col) /\ Frozen # "exact"
  <2>1. /\ WithColumn(col) = Append(columns, Backfilled)
        /\ WithName(col) = AddName(column_order, col)
        /\ AddName(column_order, col) = Append(column_order, col)
        /\ ensure_column_idx(col) = Len(columns) + 1
    BY <1>5 DEF WithColumn, WithName, ensure_column_idx, Backfilled, AddName, known
  <2> DEFINE cols == Append(columns, Backfilled)
             order == Append(column_order, col)
             slot == Len(columns) + 1
  <2>2. Backfilled \in Seq(Cells)
    BY BackfilledFacts DEF TableType
  <2>3. Distinct(AddName(column_order, col))
    <3>1. Distinct(column_order) => Distinct(AddName(column_order, col))
      BY <1>1, AddNameFacts
    <3> QED
      BY <1>1, <3>1
  <2>4. /\ cols \in Seq(Seq(Cells)) /\ Len(cols) = slot
        /\ \A i \in 1..Len(columns) : cols[i] = columns[i]
        /\ cols[slot] = Backfilled
    <3> DEFINE S == Seq(Cells)
    <3>1. columns \in Seq(S) /\ Backfilled \in S
      BY <1>1, <2>2
    <3> HIDE DEF S
    <3>2. /\ cols \in Seq(S) /\ Len(cols) = slot
          /\ \A i \in 1..Len(columns) : cols[i] = columns[i]
          /\ cols[slot] = Backfilled
      BY <3>1, AppendProperties
    <3> QED
      BY <3>2 DEF S
  <2>5. /\ order \in Seq(Names) /\ Len(order) = slot
        /\ \A i \in 1..Len(columns) : order[i] = column_order[i]
        /\ order[slot] = col
    BY <1>1, AppendProperties
  <2>6. Distinct(order)
    BY <2>1, <2>3
  <2> HIDE DEF cols, order
  <2>7. Ensured(cols, order, slot)
    BY <1>2, <2>4, <2>5, <2>6 DEF Ensured
  <2> USE DEF cols, order
  <2> QED
    BY <2>1, <2>5, <2>7
<1> QED
  BY <1>3, <1>4, <1>5

(* Null-filling appends a null to the columns the row did not set.          *)
LEMMA NullFillFacts ==
  ASSUME NEW cols \in Seq(Seq(Cells)), NEW dirty
  PROVE  /\ NullFill(cols, dirty) \in Seq(Seq(Cells))
         /\ Len(NullFill(cols, dirty)) = Len(cols)
         /\ \A i \in 1..Len(cols) :
              /\ i \in dirty => NullFill(cols, dirty)[i] = cols[i]
              /\ i \notin dirty => NullFill(cols, dirty)[i] = Append(cols[i], Null)
<1>1. Len(cols) \in Nat /\ DOMAIN cols = 1..Len(cols)
  BY LenProperties
<1>2. \A i \in 1..Len(cols) : cols[i] \in Seq(Cells) /\ Append(cols[i], Null) \in Seq(Cells)
  BY ElementOfSeq, AppendProperties DEF Cells
<1> DEFINE new == NullFill(cols, dirty)
<1>3. /\ new = [i \in 1..Len(cols) |-> IF i \in dirty THEN cols[i] ELSE Append(cols[i], Null)]
      /\ \A i \in 1..Len(cols) : (IF i \in dirty THEN cols[i] ELSE Append(cols[i], Null)) \in Seq(Cells)
  BY <1>1, <1>2 DEF NullFill
<1>4. new \in Seq(Seq(Cells)) /\ Len(new) = Len(cols)
  BY <1>1, <1>3, IsASeq
<1> QED
  BY <1>3, <1>4

(* Draining moves every buffered value into its column.                     *)
LEMMA DrainedFacts ==
  ASSUME NEW cols \in Seq(Seq(Cells)), NEW names, NEW values, row_count \in Nat,
         \A i \in DOMAIN values : values[i] \in Values
  PROVE  /\ Drained(cols, names, values) \in Seq(Seq(Cells))
         /\ Len(Drained(cols, names, values)) = Len(cols)
         /\ \A i \in 1..Len(cols) :
              /\ i \in DOMAIN values =>
                   Drained(cols, names, values)[i] =
                     PushCell(cols[i], row_count, Cell(names[i], values[i]))
              /\ i \notin DOMAIN values => Drained(cols, names, values)[i] = cols[i]
<1>1. Len(cols) \in Nat /\ DOMAIN cols = 1..Len(cols)
  BY LenProperties
<1> DEFINE new == Drained(cols, names, values)
           one(i) == IF i \in DOMAIN values
                       THEN PushCell(cols[i], row_count, Cell(names[i], values[i])) ELSE cols[i]
<1>2. \A i \in 1..Len(cols) : one(i) \in Seq(Cells)
  <2> TAKE i \in 1..Len(cols)
  <2>1. cols[i] \in Seq(Cells)
    BY ElementOfSeq
  <2>2. CASE i \in DOMAIN values
    BY <2>1, <2>2, CellType, PushCellFacts
  <2> QED
    BY <2>1, <2>2
<1>3. new = [i \in 1..Len(cols) |-> one(i)]
  BY <1>1 DEF Drained
<1>4. new \in Seq(Seq(Cells)) /\ Len(new) = Len(cols)
  BY <1>1, <1>2, <1>3, IsASeq
<1> QED
  BY <1>3, <1>4

-----------------------------------------------------------------------------
(* What a put does to the table, whichever way it takes.                   *)

\* A value is pushed into one slot of the columns.
Pushes(cols, order, slot, cell) ==
  /\ Ensured(cols, order, slot)
  /\ cell \in Cells
  /\ columns' \in Seq(Seq(Cells)) /\ Len(columns') = Len(cols)
  /\ \A i \in 1..Len(cols) :
       columns'[i] = IF i = slot THEN PushCell(cols[i], row_count, cell) ELSE cols[i]
  /\ column_order' = order
  /\ row_dirty' = row_dirty \cup {slot}
  /\ UNCHANGED <<row_count, direct>>

(* Replacing one column.                                                    *)
LEMMA PushedColumn ==
  ASSUME TableType, NEW cols, NEW order, NEW slot, NEW cell \in Cells,
         Ensured(cols, order, slot),
         columns' = [cols EXCEPT ![slot] = PushCell(@, row_count, cell)],
         column_order' = order, row_dirty' = row_dirty \cup {slot},
         UNCHANGED <<row_count, direct>>
  PROVE  Pushes(cols, order, slot, cell)
<1> DEFINE S == Seq(Cells)
           new == PushCell(cols[slot], row_count, cell)
<1>1. cols \in Seq(S) /\ slot \in 1..Len(cols)
  BY DEF Ensured
<1>2. new \in S
  <2>1. cols[slot] \in Seq(Cells)
    BY <1>1, ElementOfSeq
  <2> QED
    BY <2>1, PushCellFacts DEF TableType
<1> HIDE DEF S
<1>3. columns' = [cols EXCEPT ![slot] = new]
  OBVIOUS
<1>4. /\ columns' \in Seq(S) /\ Len(columns') = Len(cols)
      /\ \A i \in 1..Len(cols) : columns'[i] = IF i = slot THEN new ELSE cols[i]
  <2> HIDE DEF new
  <2> QED
    BY <1>1, <1>2, <1>3, ExceptSeq
<1> QED
  BY <1>4 DEF Pushes, S

(* push_field_resolved.                                                     *)
LEMMA PushFieldPushes ==
  ASSUME TableType, NEW col \in Names, NEW v \in Values, ~unknown(col), PushField(col, v)
  PROVE  Pushes(WithColumn(col), WithName(col), ensure_column_idx(col), Cell(col, v))
<1> DEFINE slot == ensure_column_idx(col)
<1>1. Ensured(WithColumn(col), WithName(col), slot)
  BY EnsureColumn
<1>2. Cell(col, v) \in Cells
  BY CellType
<1>3. /\ columns' = [WithColumn(col) EXCEPT ![slot] = PushCell(@, row_count, Cell(col, v))]
      /\ column_order' = WithName(col) /\ row_dirty' = row_dirty \cup {slot}
      /\ UNCHANGED <<row_count, direct>>
  BY DEF PushField, buffer_vars
<1> HIDE DEF slot
<1>4. Pushes(WithColumn(col), WithName(col), slot, Cell(col, v))
  BY <1>1, <1>2, <1>3, PushedColumn
<1> QED
  BY <1>4 DEF slot

\* A value is buffered, or the row is committed with it.
Buffers(cols, order, slot, values) ==
  /\ Ensured(cols, order, slot)
  /\ DOMAIN values = DOMAIN fields \cup {slot}
  /\ \A i \in DOMAIN values : values[i] \in Values
  /\ column_order' = order
  /\ \/ /\ columns' = cols /\ fields' = values
        /\ UNCHANGED <<row_dirty, row_count, direct>>
     \/ /\ columns' = Drained(cols, order, values) /\ fields' = <<>>
        /\ row_dirty' = row_dirty \cup DOMAIN values
        /\ row_count' = row_count + 1 /\ direct'
        /\ Api = "resolve_and_put" /\ PlainPlan

(* A pushed value leaves a table.                                           *)
LEMMA PushesType ==
  ASSUME TableType, Fixed, NEW cols, NEW order, NEW slot, NEW cell,
         Pushes(cols, order, slot, cell)
  PROVE  TableType' /\ DOMAIN columns \subseteq DOMAIN columns'
<1>1. /\ Ensured(cols, order, slot) /\ column_order' = order /\ Len(columns') = Len(cols)
      /\ columns' \in Seq(Seq(Cells))
      /\ row_dirty' = row_dirty \cup {slot} /\ UNCHANGED <<row_count, direct>>
  BY DEF Pushes
<1>2. /\ order \in Seq(Names) /\ Len(cols) = Len(order) /\ Distinct(order)
      /\ slot \in 1..Len(cols) /\ Len(cols) \in {Len(columns), Len(columns) + 1}
  BY <1>1 DEF Ensured
<1>3. /\ DOMAIN columns = 1..Len(columns) /\ DOMAIN columns' = 1..Len(cols)
      /\ Len(columns) \in Nat /\ Len(cols) \in Nat
  BY <1>1, LenProperties DEF TableType
<1>4. DOMAIN columns \subseteq DOMAIN columns'
  BY <1>2, <1>3
<1>5. row_dirty' \subseteq DOMAIN columns'
  BY <1>1, <1>2, <1>3, <1>4 DEF TableType
<1>6. columns' # <<>>
  BY <1>2, <1>3
<1>7. UNCHANGED <<Names, Cells, Frozen>>
  BY ConfigFixed
<1> QED
  BY <1>1, <1>2, <1>4, <1>5, <1>6, <1>7 DEF TableType

(* So does a buffered value, and a row that is committed before it ends.    *)
LEMMA BuffersType ==
  ASSUME TableType, Fixed, DOMAIN fields \subseteq DOMAIN columns,
         NEW cols, NEW order, NEW slot, NEW values, Buffers(cols, order, slot, values)
  PROVE  /\ TableType'
         /\ DOMAIN columns \subseteq DOMAIN columns'
         /\ DOMAIN fields' \subseteq DOMAIN columns'
         /\ slot \in DOMAIN columns'
<1>1. /\ Ensured(cols, order, slot) /\ column_order' = order
      /\ DOMAIN values = DOMAIN fields \cup {slot}
      /\ \A i \in DOMAIN values : values[i] \in Values
  BY DEF Buffers
<1>0. cols \in Seq(Seq(Cells))
  BY <1>1 DEF Ensured
<1>2. /\ order \in Seq(Names) /\ Len(cols) = Len(order) /\ Distinct(order)
      /\ slot \in 1..Len(cols) /\ Len(cols) \in {Len(columns), Len(columns) + 1}
  BY <1>1 DEF Ensured
<1>3. DOMAIN columns = 1..Len(columns) /\ Len(columns) \in Nat
  BY LenProperties DEF TableType
<1>12. Len(cols) \in Nat
  BY <1>0, LenProperties
<1>13. Len(columns) <= Len(cols) /\ Len(cols) # 0
  BY <1>2, <1>3, <1>12
<1>4. /\ Drained(cols, order, values) \in Seq(Seq(Cells))
      /\ Len(Drained(cols, order, values)) = Len(cols)
  BY <1>0, <1>1, DrainedFacts DEF TableType
<1>5. columns' \in Seq(Seq(Cells)) /\ Len(columns') = Len(cols)
  BY <1>0, <1>4 DEF Buffers
<1>6. DOMAIN columns' = 1..Len(cols)
  BY <1>5, LenProperties
<1>7. DOMAIN columns \subseteq DOMAIN columns' /\ DOMAIN values \subseteq DOMAIN columns'
  <2>1. 1..Len(columns) \subseteq 1..Len(cols)
    BY <1>3, <1>12, <1>13
  <2> QED
    BY <1>1, <1>2, <1>3, <1>6, <2>1
<1>8. /\ row_dirty' \subseteq DOMAIN columns' /\ DOMAIN fields' \subseteq DOMAIN columns'
      /\ row_count' \in Nat /\ direct' \in BOOLEAN
  <2>1. row_dirty \subseteq DOMAIN columns /\ row_count \in Nat /\ direct \in BOOLEAN
    BY DEF TableType
  <2>2. CASE UNCHANGED <<row_dirty, row_count, direct>> /\ fields' = values
    BY <1>7, <2>1, <2>2
  <2>3. CASE /\ fields' = <<>> /\ row_dirty' = row_dirty \cup DOMAIN values
             /\ row_count' = row_count + 1 /\ direct'
    <3>1. DOMAIN fields' = {}
      BY <2>3
    <3> QED
      BY <1>7, <2>1, <2>3, <3>1
  <2> QED
    BY <2>2, <2>3 DEF Buffers
<1>9. columns' # <<>>
  <2>1. Len(columns') # 0
    BY <1>5, <1>13
  <2> QED
    BY <2>1
<1>10. UNCHANGED <<Names, Cells, Frozen>>
  BY ConfigFixed
<1>11. TableType'
  BY <1>1, <1>2, <1>5, <1>8, <1>9, <1>10 DEF TableType
<1> QED
  BY <1>2, <1>6, <1>7, <1>8, <1>11

-----------------------------------------------------------------------------
(* Types.                                                                  *)

\* The row buffer; only under a plain plan does a row pass early.
BufferType ==
  /\ DOMAIN fields \subseteq DOMAIN columns
  /\ \A i \in DOMAIN fields : fields[i] \in Values
  /\ state \in States
  /\ buffer_worthwhile \in BOOLEAN
  /\ predicate_ordinal \in 0..Len(columns)
  /\ direct => HasFilter /\ buffer_worthwhile /\ Api = "resolve_and_put" /\ PlainPlan

\* The learned layout names existing columns.
LayoutType ==
  /\ DOMAIN ordinal_expect = Ordinals
  /\ \A o \in Ordinals : ordinal_expect[o] # NoSlot =>
       /\ ordinal_expect[o].slot \in DOMAIN columns
       /\ ordinal_expect[o].name = column_order[ordinal_expect[o].slot]
  /\ current_ordinal \in Nat

\* The input, and how many of its rows can have been committed.
InputType ==
  /\ row_in \in Seq([raw : Names, value : Values])
  /\ ended \in Nat
  /\ row_count <= IF pc = "finished" \/ (pc = "row" /\ direct) THEN ended + 1 ELSE ended

ErrorType ==
  /\ {unknown_error, lossy} \subseteq BOOLEAN
  /\ strict_error \in {"none", "types", "memory"}
  /\ result \in {"none", "ok", "err"}

\* The inductive form of TypeOK.
TypeInv ==
  /\ config \in Configs
  /\ pc \in {"idle", "row", "finished"}
  /\ TableType
  /\ BufferType
  /\ LayoutType
  /\ InputType
  /\ ErrorType

(* The buffered path, without the error of an exact schema.                 *)
LEMMA BufferFieldBuffers ==
  ASSUME TypeInv, NEW col \in Names, NEW v \in Values, HasFilter, BufferField(col, v),
         unknown(col) => Api = "put_field" /\ unknown_error
  PROVE  /\ Buffers(WithColumn(col), WithName(col), ensure_column_idx(col),
                    [i \in DOMAIN fields \cup {ensure_column_idx(col)} |->
                       IF i = ensure_column_idx(col) THEN v ELSE fields[i]])
         /\ record_strict_violation(WithName(col)[ensure_column_idx(col)], v)
         /\ state' \in States
         /\ predicate_ordinal' \in {predicate_ordinal, ensure_column_idx(col)}
         /\ UNCHANGED unknown_error
<1> DEFINE slot == ensure_column_idx(col)
           order == WithName(col)
           values == [i \in DOMAIN fields \cup {slot} |-> IF i = slot THEN v ELSE fields[i]]
           verdict == IF is_predicate_slot(order, slot) THEN eval_predicate(order, values)
                      ELSE state
           commit == is_predicate_slot(order, slot) /\ PassesEarly(verdict)
<1>1. /\ column_order' = order
      /\ record_strict_violation(order[slot], v)
      /\ predicate_ordinal' \in {predicate_ordinal, slot}
      /\ columns' = IF commit THEN Drained(WithColumn(col), order, values) ELSE WithColumn(col)
      /\ row_dirty' = IF commit THEN row_dirty \cup DOMAIN values ELSE row_dirty
      /\ fields' = IF commit THEN <<>> ELSE values
      /\ state' = IF commit THEN "Undecided" ELSE verdict
      /\ direct' = (direct \/ commit)
      /\ row_count' = IF commit THEN row_count + 1 ELSE row_count
      /\ UNCHANGED unknown_error
  BY DEF BufferField
<1>2. Ensured(WithColumn(col), order, slot)
  BY EnsureColumn DEF TypeInv
<1>3. DOMAIN values = DOMAIN fields \cup {slot} /\ \A i \in DOMAIN values : values[i] \in Values
  BY DEF TypeInv, BufferType
<1>4. state' \in States
  <2>1. verdict \in States
    BY PredicateStates DEF TypeInv, BufferType
  <2> HIDE DEF verdict
  <2> QED
    BY <1>1, <2>1 DEF States
<1>5. commit => Api = "resolve_and_put" /\ PlainPlan
  BY DEF PassesEarly
<1>6. direct \in BOOLEAN
  BY DEF TypeInv, TableType
<1> HIDE DEF slot, order, values, commit
<1>7. Buffers(WithColumn(col), order, slot, values)
  BY <1>1, <1>2, <1>3, <1>5, <1>6 DEF Buffers
<1> USE DEF slot, order, values
<1> QED
  BY <1>1, <1>4, <1>7

(* layout_broken keeps the layout's shape, whatever columns are added.      *)
LEMMA BrokenLayout ==
  ASSUME TypeInv, Len(row_in) < MaxFields
  PROVE  /\ DOMAIN layout_broken = Ordinals /\ ordinal \in Ordinals
         /\ \A o \in Ordinals : layout_broken[o] \in {ordinal_expect[o], NoSlot}
<1>1. ordinal \in Ordinals
  BY ConfigFacts, LenProperties DEF ordinal, Ordinals, TypeInv, InputType
<1> QED
  BY <1>1 DEF layout_broken, TypeInv, LayoutType

\* The columns keep their slots and names.
ColumnsKept ==
  /\ DOMAIN columns \subseteq DOMAIN columns'
  /\ \A i \in DOMAIN columns : column_order'[i] = column_order[i]

(* Forgetting expectations keeps a layout.                                  *)
LEMMA KeptLayout ==
  ASSUME TypeInv, Fixed, ColumnsKept, DOMAIN ordinal_expect' = Ordinals,
         \A o \in Ordinals : ordinal_expect'[o] \in {ordinal_expect[o], NoSlot},
         current_ordinal' \in Nat
  PROVE  LayoutType'
BY ConfigFixed DEF TypeInv, LayoutType, ColumnsKept, NoSlot

(* The input of a put.                                                      *)
LEMMA OfferFacts ==
  ASSUME TypeInv, Fixed, NEW raw \in Names, NEW v \in Values, Offer(raw, v)
  PROVE  /\ pc = "row" /\ Len(row_in) < MaxFields
         /\ UNCHANGED <<pc, buffer_worthwhile, ended, result>>
         /\ row_in' \in Seq([raw : Names, value : Values])
         /\ Len(row_in') = Len(row_in) + 1
         /\ \A i \in 1..Len(row_in) : row_in'[i] = row_in[i]
         /\ row_in'[Len(row_in')] = [raw |-> raw, value |-> v]
<1> DEFINE S == [raw : Names, value : Values]
           x == [raw |-> raw, value |-> v]
<1>1. x \in S /\ row_in \in Seq(S) /\ row_in' = Append(row_in, x)
  BY DEF Offer, TypeInv, InputType
<1>2. /\ pc = "row" /\ Len(row_in) < MaxFields
      /\ UNCHANGED <<pc, buffer_worthwhile, ended, result>>
  BY DEF Offer, output_vars
<1> HIDE DEF S, x
<1>3. /\ row_in' \in Seq(S) /\ Len(row_in') = Len(row_in) + 1
      /\ \A i \in 1..Len(row_in) : row_in'[i] = row_in[i]
      /\ row_in'[Len(row_in) + 1] = x
  BY <1>1, AppendProperties
<1> QED
  BY <1>2, <1>3 DEF S, x

\* What a put leaves of the errors.
ErrorsPut ==
  /\ unknown_error' \in {unknown_error, TRUE}
  /\ lossy' \in BOOLEAN
  /\ strict_error' \in {strict_error, "types"}

(* The input after a put, once the counts are known.                        *)
LEMMA PutInputType ==
  ASSUME TypeInv, Fixed, NEW raw \in Names, NEW v \in Values, Offer(raw, v), ErrorsPut,
         \/ UNCHANGED <<row_count, direct>>
         \/ row_count' = row_count + 1 /\ ~direct /\ direct'
  PROVE  InputType' /\ ErrorType' /\ config' \in Configs /\ pc' = "row"
<1>1. /\ pc = "row" /\ UNCHANGED <<pc, ended, result>>
      /\ row_in' \in Seq([raw : Names, value : Values])
  BY OfferFacts
<1>2. UNCHANGED <<Names, Values>> /\ config' = config
  BY ConfigFixed DEF Fixed
<1>3. /\ ended \in Nat /\ row_count \in Nat /\ direct \in BOOLEAN
      /\ row_count <= IF direct THEN ended + 1 ELSE ended
  BY <1>1 DEF TypeInv, InputType, TableType
<1>4. row_count' <= IF direct' THEN ended' + 1 ELSE ended'
  BY <1>1, <1>3
<1>5. InputType'
  BY <1>1, <1>2, <1>3, <1>4 DEF InputType
<1>6. ErrorType'
  BY <1>1 DEF ErrorsPut, TypeInv, ErrorType
<1> QED
  BY <1>1, <1>2, <1>5, <1>6 DEF TypeInv

(* put_field, put_field_resolved and resolve_and_put keep the types.        *)
LEMMA PutFieldType ==
  ASSUME TypeInv, Fixed, NEW raw \in Names, NEW v \in Values, PutField(raw, v)
  PROVE  TypeInv'
<1> DEFINE col == resolve_field(raw)
<1>1. /\ Offer(raw, v)
      /\ \/ /\ col = NoName
            /\ ordinal_expect' = layout_broken
            /\ UNCHANGED <<table_vars, buffer_vars, unknown_error, strict_error, current_ordinal>>
         \/ col # NoName /\ PushesDirectly /\ PushField(col, v)
         \/ col # NoName /\ ~PushesDirectly /\ BufferField(col, v)
  BY DEF PutField
<1>2. /\ pc = "row" /\ Len(row_in) < MaxFields
      /\ UNCHANGED <<pc, buffer_worthwhile, ended, result>>
  BY <1>1, OfferFacts
<1>3. lossy' \in BOOLEAN
  BY DEF PutField
<1>4. /\ DOMAIN layout_broken = Ordinals
      /\ \A o \in Ordinals : layout_broken[o] \in {ordinal_expect[o], NoSlot}
  BY <1>2, BrokenLayout
<1>5. col # NoName => col \in Names
  BY ResolvedNames DEF TypeInv
<1>6. UNCHANGED <<Names, Values, Cells, HasFilter, Frozen, Api, PlainPlan, Ordinals>>
  BY ConfigFixed
<1>7. current_ordinal \in Nat
  BY DEF TypeInv, LayoutType
<1> HIDE DEF col
<1>8. CASE UNCHANGED <<table_vars, buffer_vars, current_ordinal>> /\ ordinal_expect' = layout_broken
           /\ ErrorsPut
  <2>1. TableType'
    BY <1>6, <1>8 DEF TypeInv, TableType, table_vars, buffer_vars
  <2>2. BufferType'
    BY <1>2, <1>6, <1>8 DEF TypeInv, BufferType, table_vars, buffer_vars
  <2>3. ColumnsKept
    BY <1>8 DEF ColumnsKept, table_vars
  <2>4. LayoutType'
    BY <1>4, <1>7, <1>8, <2>3, KeptLayout
  <2>5. UNCHANGED <<row_count, direct>>
    BY <1>8 DEF table_vars, buffer_vars
  <2> QED
    BY <1>1, <1>8, <2>1, <2>2, <2>4, <2>5, PutInputType DEF TypeInv
<1>9. CASE col # NoName /\ PushesDirectly /\ PushField(col, v) /\ ~unknown(col)
  <2> DEFINE slot == ensure_column_idx(col)
  <2>1. Pushes(WithColumn(col), WithName(col), slot, Cell(col, v))
    BY <1>5, <1>9, PushFieldPushes DEF TypeInv
  <2>2. TableType' /\ DOMAIN columns \subseteq DOMAIN columns'
    BY <2>1, PushesType DEF TypeInv
  <2>3. /\ UNCHANGED <<buffer_vars, row_count, unknown_error>> /\ column_order' = WithName(col)
        /\ record_strict_violation(col, v)
        /\ current_ordinal' = current_ordinal + 1
        /\ ordinal_expect' =
             IF row_count = 0
               THEN [layout_broken EXCEPT ![current_ordinal] = [slot |-> slot, name |-> col]]
               ELSE layout_broken
    BY <1>9 DEF PushField
  <2>4. ErrorsPut
    BY <1>3, <2>3 DEF ErrorsPut, record_strict_violation
  <2>5. /\ \A i \in 1..Len(columns) : column_order'[i] = column_order[i]
        /\ slot \in DOMAIN columns' /\ column_order'[slot] = col
    <3>1. Ensured(WithColumn(col), WithName(col), slot) /\ WithName(col)[slot] = col
      BY <1>5, <1>9, EnsureColumn DEF TypeInv
    <3>2. /\ slot \in 1..Len(WithColumn(col))
          /\ \A i \in 1..Len(columns) : WithName(col)[i] = column_order[i]
      BY <3>1 DEF Ensured
    <3>3. DOMAIN columns' = 1..Len(WithColumn(col))
      BY <2>1, LenProperties DEF Pushes
    <3> QED
      BY <2>3, <3>1, <3>2, <3>3
  <2>6. DOMAIN columns = 1..Len(columns) /\ Len(columns) <= Len(columns')
    <3>1. columns \in Seq(Seq(Cells)) /\ columns' \in Seq(Seq(Cells'))
      BY <2>2 DEF TypeInv, TableType
    <3> QED
      BY <2>2, <3>1, LongerSequence
  <2>7. BufferType'
    <3>1. DOMAIN fields' \subseteq DOMAIN columns' /\ predicate_ordinal' \in 0..Len(columns')
      BY <2>2, <2>3, <2>6 DEF TypeInv, BufferType, buffer_vars, TableType
    <3> QED
      BY <1>2, <1>6, <2>3, <3>1 DEF TypeInv, BufferType, buffer_vars
  <2>8. ColumnsKept
    BY <2>2, <2>5, <2>6 DEF ColumnsKept
  <2>9. LayoutType'
    <3> HIDE DEF slot
    <3>1. CASE ordinal_expect' = layout_broken
      BY <1>4, <1>7, <2>3, <2>8, <3>1, KeptLayout
    <3>2. CASE ordinal_expect' = [layout_broken EXCEPT ![current_ordinal] =
                                                      [slot |-> slot, name |-> col]]
      <4>1. DOMAIN ordinal_expect' = Ordinals' /\ current_ordinal' \in Nat
        BY <1>4, <1>6, <1>7, <2>3, <3>2
      <4>2. ASSUME NEW o \in Ordinals, ordinal_expect'[o] # NoSlot
            PROVE  /\ ordinal_expect'[o].slot \in DOMAIN columns'
                   /\ ordinal_expect'[o].name = column_order'[ordinal_expect'[o].slot]
        <5>1. CASE o = current_ordinal
          <6>1. ordinal_expect'[o] = [slot |-> slot, name |-> col]
            BY <1>4, <3>2, <4>2, <5>1
          <6> QED
            BY <6>1, <2>5
        <5>2. CASE o # current_ordinal
          <6>1. ordinal_expect'[o] = ordinal_expect[o] /\ ordinal_expect[o] # NoSlot
            BY <1>4, <3>2, <4>2, <5>2
          <6>2. /\ ordinal_expect[o].slot \in DOMAIN columns
                /\ ordinal_expect[o].name = column_order[ordinal_expect[o].slot]
            BY <6>1 DEF TypeInv, LayoutType
          <6> QED
            BY <6>1, <6>2, <2>8 DEF ColumnsKept
        <5> QED
          BY <5>1, <5>2
      <4> QED
        BY <1>6, <4>1, <4>2 DEF LayoutType
    <3> QED
      BY <2>3, <3>1, <3>2
  <2>10. UNCHANGED <<row_count, direct>>
    BY <2>3 DEF buffer_vars
  <2> QED
    BY <1>1, <2>2, <2>4, <2>7, <2>9, <2>10, PutInputType DEF TypeInv
<1>10. CASE /\ col # NoName /\ ~PushesDirectly /\ BufferField(col, v)
            /\ unknown(col) => Api = "put_field" /\ unknown_error
  <2> DEFINE slot == ensure_column_idx(col)
             values == [i \in DOMAIN fields \cup {slot} |-> IF i = slot THEN v ELSE fields[i]]
  <2>1. HasFilter /\ buffer_worthwhile /\ ~direct
    BY <1>10 DEF PushesDirectly
  <2>2. /\ Buffers(WithColumn(col), WithName(col), slot, values)
        /\ record_strict_violation(WithName(col)[slot], v)
        /\ state' \in States
        /\ predicate_ordinal' \in {predicate_ordinal, slot}
        /\ UNCHANGED unknown_error
    BY <1>5, <1>10, <2>1, BufferFieldBuffers
  <2>3. ordinal_expect' = layout_broken /\ UNCHANGED current_ordinal
    BY <1>10 DEF BufferField
  <2> HIDE DEF slot, values
  <2>4. /\ TableType' /\ DOMAIN columns \subseteq DOMAIN columns'
        /\ DOMAIN fields' \subseteq DOMAIN columns' /\ slot \in DOMAIN columns'
    BY <2>2, BuffersType DEF TypeInv, BufferType
  <2>5. ErrorsPut
    BY <1>3, <2>2 DEF ErrorsPut, record_strict_violation
  <2>6. /\ DOMAIN columns = 1..Len(columns) /\ Len(columns) <= Len(columns')
        /\ DOMAIN columns' = 1..Len(columns')
    <3>1. columns \in Seq(Seq(Cells)) /\ columns' \in Seq(Seq(Cells'))
      BY <2>4 DEF TypeInv, TableType
    <3> QED
      BY <2>4, <3>1, LongerSequence
  <2>7. BufferType'
    <3>1. predicate_ordinal' \in 0..Len(columns')
      BY <2>2, <2>4, <2>6 DEF TypeInv, BufferType, TableType
    <3>2. \A i \in DOMAIN fields' : fields'[i] \in Values
      BY <2>2 DEF Buffers
    <3>3. direct' => Api = "resolve_and_put" /\ PlainPlan
      BY <2>1, <2>2 DEF Buffers
    <3> QED
      BY <1>2, <1>6, <2>1, <2>2, <2>4, <3>1, <3>2, <3>3 DEF TypeInv, BufferType
  <2>8. ColumnsKept
    <3>1. \A i \in 1..Len(columns) : column_order'[i] = column_order[i]
      BY <2>2 DEF Buffers, Ensured
    <3> QED
      BY <2>4, <2>6, <3>1 DEF ColumnsKept
  <2>9. LayoutType'
    BY <1>4, <1>7, <2>3, <2>8, KeptLayout
  <2>10. \/ UNCHANGED <<row_count, direct>>
         \/ row_count' = row_count + 1 /\ ~direct /\ direct'
    BY <2>1, <2>2 DEF Buffers
  <2> QED
    BY <1>1, <2>4, <2>5, <2>7, <2>9, <2>10, PutInputType DEF TypeInv
<1>11. CASE /\ col # NoName /\ ~PushesDirectly /\ BufferField(col, v)
            /\ unknown(col) /\ (Api = "put_field" => ~unknown_error)
  BY <1>3, <1>8, <1>11 DEF BufferField, ErrorsPut
<1>12. CASE col # NoName /\ PushesDirectly /\ PushField(col, v) /\ unknown(col)
  BY <1>3, <1>8, <1>12 DEF PushField, ErrorsPut
<1>13. CASE /\ col = NoName
            /\ ordinal_expect' = layout_broken
            /\ UNCHANGED <<table_vars, buffer_vars, unknown_error, strict_error, current_ordinal>>
  BY <1>3, <1>8, <1>13 DEF ErrorsPut
<1>14. unknown_error \in BOOLEAN
  BY DEF TypeInv, ErrorType
<1> QED
  BY <1>1, <1>9, <1>10, <1>11, <1>12, <1>13, <1>14

(* put_field_at and put_str_at: the slot is the named column's.             *)
LEMMA PutFieldAtPushes ==
  ASSUME TypeInv, Fixed, NEW raw \in Names, NEW v \in Values, PutFieldAt(raw, v)
  PROVE  \E slot \in 1..Len(columns) :
           /\ column_order[slot] = raw
           /\ ordinal_expect[ordinal] # NoSlot
           /\ Pushes(columns, column_order, slot, Cell(raw, v))
           /\ record_strict_violation(raw, v)
           /\ lossy' = (lossy \/ (StrictTypes /\ Cell(raw, v) # v))
<1> DEFINE slot == ordinal_expect[ordinal].slot
           col == column_order[slot]
<1>1. Offer(raw, v) /\ SlotMatches(raw)
  BY DEF PutFieldAt
<1>2. ordinal \in Ordinals
  BY <1>1, OfferFacts, BrokenLayout
<1>3. slot \in DOMAIN columns /\ col = raw /\ ordinal_expect[ordinal] # NoSlot
  BY <1>1, <1>2 DEF SlotMatches, TypeInv, LayoutType
<1>4. /\ DOMAIN columns = 1..Len(columns) /\ columns \in Seq(Seq(Cells))
      /\ column_order \in Seq(Names) /\ Len(columns) = Len(column_order) /\ Distinct(column_order)
  BY LenProperties DEF TypeInv, TableType
<1>5. /\ columns' = [columns EXCEPT ![slot] = PushCell(@, row_count, Cell(col, v))]
      /\ row_dirty' = row_dirty \cup {slot}
      /\ record_strict_violation(col, v)
      /\ lossy' = (lossy \/ (StrictTypes /\ Cell(col, v) # v))
      /\ UNCHANGED <<column_order, row_count, direct>>
  BY DEF PutFieldAt, buffer_vars
<1> HIDE DEF slot, col
<1>6. Ensured(columns, column_order, slot)
  BY <1>3, <1>4 DEF Ensured
<1>7. Pushes(columns, column_order, slot, Cell(col, v))
  BY <1>5, <1>6, CellType, PushedColumn DEF TypeInv
<1> USE DEF col
<1> QED
  BY <1>3, <1>4, <1>5, <1>7

LEMMA PutFieldAtType ==
  ASSUME TypeInv, Fixed, NEW raw \in Names, NEW v \in Values, PutFieldAt(raw, v)
  PROVE  TypeInv'
<1>1. PICK slot \in 1..Len(columns) : /\ Pushes(columns, column_order, slot, Cell(raw, v))
                                      /\ record_strict_violation(raw, v)
                                      /\ lossy' = (lossy \/ (StrictTypes /\ Cell(raw, v) # v))
  BY PutFieldAtPushes
<1>2. Offer(raw, v) /\ UNCHANGED <<buffer_vars, unknown_error, layout_vars>>
  BY DEF PutFieldAt
<1>3. TableType' /\ DOMAIN columns \subseteq DOMAIN columns'
  BY <1>1, PushesType DEF TypeInv
<1>4. column_order' = column_order /\ UNCHANGED <<row_count, direct>> /\ Len(columns') = Len(columns)
  BY <1>1 DEF Pushes
<1>5. UNCHANGED <<Values, HasFilter, Api, PlainPlan, Ordinals>>
  BY ConfigFixed
<1>6. BufferType'
  <2>1. UNCHANGED <<buffer_vars, buffer_worthwhile>>
    BY <1>2, OfferFacts
  <2>2. predicate_ordinal' \in 0..Len(columns') /\ DOMAIN fields' \subseteq DOMAIN columns'
    BY <1>3, <1>4, <2>1 DEF TypeInv, BufferType, buffer_vars
  <2> QED
    BY <1>5, <2>1, <2>2 DEF TypeInv, BufferType, buffer_vars
<1>7. LayoutType'
  <2>1. UNCHANGED <<ordinal_expect, current_ordinal>>
    BY <1>2 DEF layout_vars
  <2> QED
    BY <2>1, <1>3, <1>4, <1>5, KeptLayout DEF TypeInv, LayoutType, ColumnsKept
<1>8. ErrorsPut
  BY <1>1, <1>2 DEF ErrorsPut, record_strict_violation
<1> QED
  BY <1>2, <1>3, <1>4, <1>6, <1>7, <1>8, PutInputType DEF TypeInv

LEMMA SkipFieldType ==
  ASSUME TypeInv, Fixed, NEW raw \in Names, NEW v \in Values, SkipField(raw, v)
  PROVE  TypeInv'
<1>1. Offer(raw, v) /\ UNCHANGED <<table_vars, buffer_vars, error_vars, layout_vars>>
  BY DEF SkipField
<1>2. UNCHANGED <<Names, Values, Cells, HasFilter, Frozen, Api, PlainPlan, Ordinals>>
  BY ConfigFixed
<1>3. TableType'
  BY <1>1, <1>2 DEF TypeInv, TableType, table_vars, buffer_vars
<1>4. BufferType'
  BY <1>1, <1>2, OfferFacts DEF TypeInv, BufferType, table_vars, buffer_vars
<1>5. LayoutType'
  BY <1>1, <1>2 DEF TypeInv, LayoutType, table_vars, layout_vars
<1>6. ErrorsPut /\ UNCHANGED <<row_count, direct>>
  BY <1>1 DEF ErrorsPut, error_vars, table_vars, buffer_vars, TypeInv, ErrorType
<1> QED
  BY <1>1, <1>3, <1>4, <1>5, <1>6, PutInputType DEF TypeInv

(* A column cut at its end.                                                 *)
LEMMA CutColumnFacts ==
  ASSUME NEW V, NEW cells \in Seq(V), NEW top \in Int, top <= Len(cells)
  PROVE  /\ SubSeq(cells, 1, top) \in Seq(V)
         /\ Len(SubSeq(cells, 1, top)) = IF top < 0 THEN 0 ELSE top
         /\ \A r \in 1..top : SubSeq(cells, 1, top)[r] = cells[r]
<1>1. \A r \in 1..top : cells[r] \in V
  BY LenProperties
<1>2. /\ SubSeq(cells, 1, top) \in Seq(V)
      /\ Len(SubSeq(cells, 1, top)) = IF 1 <= top THEN top - 1 + 1 ELSE 0
      /\ \A i \in 1..(top - 1 + 1) : SubSeq(cells, 1, top)[i] = cells[1 + i - 1]
  BY <1>1, SubSeqProperties
<1> QED
  BY <1>2

\* Every column loses its last cell.
Popped(cols) == [i \in DOMAIN cols |-> Front(cols[i])]

LEMMA PoppedFacts ==
  ASSUME NEW cols \in Seq(Seq(Cells))
  PROVE  /\ Popped(cols) \in Seq(Seq(Cells))
         /\ Len(Popped(cols)) = Len(cols)
         /\ \A i \in 1..Len(cols) :
              /\ Len(cols[i]) > 0 => Len(Popped(cols)[i]) = Len(cols[i]) - 1
              /\ \A r \in 1..(Len(cols[i]) - 1) : Popped(cols)[i][r] = cols[i][r]
<1>1. Len(cols) \in Nat /\ DOMAIN cols = 1..Len(cols)
  BY LenProperties
<1>2. \A i \in 1..Len(cols) :
        /\ Front(cols[i]) \in Seq(Cells)
        /\ Len(cols[i]) > 0 => Len(Front(cols[i])) = Len(cols[i]) - 1
        /\ \A r \in 1..(Len(cols[i]) - 1) : Front(cols[i])[r] = cols[i][r]
  <2> TAKE i \in 1..Len(cols)
  <2> DEFINE cells == cols[i]
             top == Len(cells) - 1
  <2>1. cells \in Seq(Cells)
    BY ElementOfSeq
  <2> HIDE DEF cells
  <2>2. top \in Int /\ top <= Len(cells)
    BY <2>1, LenProperties
  <2>3. Len(cells) > 0 => ~ top < 0
    BY <2>1, LenProperties
  <2> HIDE DEF top
  <2>4. /\ SubSeq(cells, 1, top) \in Seq(Cells)
        /\ Len(SubSeq(cells, 1, top)) = IF top < 0 THEN 0 ELSE top
        /\ \A r \in 1..top : SubSeq(cells, 1, top)[r] = cells[r]
    BY <2>1, <2>2, CutColumnFacts
  <2>5. Front(cells) = SubSeq(cells, 1, top)
    BY DEF Front, top
  <2>6. /\ Front(cells) \in Seq(Cells)
        /\ Len(cells) > 0 => Len(Front(cells)) = top
        /\ \A r \in 1..top : Front(cells)[r] = cells[r]
    BY <2>3, <2>4, <2>5
  <2> QED
    BY <2>6 DEF cells, top
<1>3. Popped(cols) = [i \in 1..Len(cols) |-> Front(cols[i])]
  BY <1>1 DEF Popped
<1>4. Popped(cols) \in Seq(Seq(Cells)) /\ Len(Popped(cols)) = Len(cols)
  BY <1>1, <1>2, <1>3
<1> QED
  BY <1>2, <1>3, <1>4

(* normalize and split_off cut every column at the committed rows.          *)
LEMMA NormalizedFacts ==
  ASSUME TableType
  PROVE  /\ Normalized \in Seq(Seq(Cells))
         /\ Len(Normalized) = Len(columns)
         /\ \A i \in 1..Len(columns) :
              /\ Len(Normalized[i]) = IF Len(columns[i]) < row_count THEN Len(columns[i])
                                      ELSE row_count
              /\ \A r \in 1..Len(Normalized[i]) : Normalized[i][r] = columns[i][r]
<1>1. columns \in Seq(Seq(Cells)) /\ row_count \in Nat
  BY DEF TableType
<1>2. Len(columns) \in Nat /\ DOMAIN columns = 1..Len(columns)
  BY <1>1, LenProperties
<1> DEFINE cut(i) == SubSeq(columns[i], 1, Min({row_count, Len(columns[i])}))
<1>3. \A i \in 1..Len(columns) :
        /\ cut(i) \in Seq(Cells)
        /\ Len(cut(i)) = IF Len(columns[i]) < row_count THEN Len(columns[i]) ELSE row_count
        /\ \A r \in 1..Len(cut(i)) : cut(i)[r] = columns[i][r]
  <2> TAKE i \in 1..Len(columns)
  <2> DEFINE cells == columns[i]
             top == Min({row_count, Len(cells)})
             low == IF Len(cells) < row_count THEN Len(cells) ELSE row_count
  <2>1. cells \in Seq(Cells)
    BY <1>1, ElementOfSeq
  <2> HIDE DEF cells
  <2>2. Len(cells) \in Nat
    BY <2>1, LenProperties
  <2>3. low \in Nat /\ low <= Len(cells)
    BY <1>1, <2>2
  <2>4. low \in {row_count, Len(cells)} /\ \A y \in {row_count, Len(cells)} : low <= y
    BY <1>1, <2>2
  <2>5. \A x \in {row_count, Len(cells)} :
           (\A y \in {row_count, Len(cells)} : x <= y) => x = low
    BY <1>1, <2>2
  <2>6. top = low
    <3> HIDE DEF low
    <3> QED
      BY <2>4, <2>5 DEF Min
  <2> HIDE DEF top, low
  <2>7. /\ SubSeq(cells, 1, low) \in Seq(Cells) /\ Len(SubSeq(cells, 1, low)) = low
        /\ \A r \in 1..low : SubSeq(cells, 1, low)[r] = cells[r]
    BY <2>1, <2>3, CutColumnFacts
  <2> QED
    BY <2>6, <2>7 DEF cells, top, low
<1>4. Normalized = [i \in 1..Len(columns) |-> cut(i)]
  BY <1>2 DEF Normalized
<1> HIDE DEF cut
<1>5. Normalized \in Seq(Seq(Cells)) /\ Len(Normalized) = Len(columns)
  BY <1>2, <1>3, <1>4
<1> QED
  BY <1>3, <1>4, <1>5

LEMMA RemainderFacts ==
  ASSUME TableType
  PROVE  /\ [i \in DOMAIN columns |-> Remainder(columns[i], row_count)] \in Seq(Seq(Cells))
         /\ Len([i \in DOMAIN columns |-> Remainder(columns[i], row_count)]) = Len(columns)
         /\ \A i \in 1..Len(columns) :
              Len(columns[i]) >= row_count =>
                Len(Remainder(columns[i], row_count)) = Len(columns[i]) - row_count
<1>1. columns \in Seq(Seq(Cells)) /\ row_count \in Nat
  BY DEF TableType
<1>2. Len(columns) \in Nat /\ DOMAIN columns = 1..Len(columns)
  BY <1>1, LenProperties
<1>3. \A i \in 1..Len(columns) :
        /\ Remainder(columns[i], row_count) \in Seq(Cells)
        /\ Len(columns[i]) >= row_count =>
             Len(Remainder(columns[i], row_count)) = Len(columns[i]) - row_count
  <2> TAKE i \in 1..Len(columns)
  <2> DEFINE cells == columns[i]
             low == row_count + 1
  <2>1. cells \in Seq(Cells)
    BY <1>1, ElementOfSeq
  <2> HIDE DEF cells
  <2>2. Len(cells) \in Nat /\ low \in Int /\ \A r \in low..Len(cells) : cells[r] \in Cells
    BY <1>1, <2>1, LenProperties
  <2> HIDE DEF low
  <2>3. /\ SubSeq(cells, low, Len(cells)) \in Seq(Cells)
        /\ Len(SubSeq(cells, low, Len(cells))) =
             IF low <= Len(cells) THEN Len(cells) - low + 1 ELSE 0
    BY <2>2, SubSeqProperties
  <2>4. Remainder(cells, row_count) = SubSeq(cells, low, Len(cells))
    BY DEF Remainder, low
  <2>5. Remainder(cells, row_count) \in Seq(Cells)
    BY <2>3, <2>4
  <2>6. Len(cells) >= row_count => Len(Remainder(cells, row_count)) = Len(cells) - row_count
    BY <1>1, <2>2, <2>3, <2>4 DEF low
  <2> QED
    BY <2>5, <2>6 DEF cells
<1>4. DOMAIN columns = 1..Len(columns)
  BY <1>2
<1> QED
  BY <1>2, <1>3

\* A step that ends a row, or the table: no column comes or goes.
SameColumns ==
  /\ columns' \in Seq(Seq(Cells)) /\ Len(columns') = Len(columns)
  /\ UNCHANGED <<column_order, ordinal_expect, predicate_ordinal>>
  /\ current_ordinal' \in Nat
  /\ row_dirty' \subseteq DOMAIN columns
  /\ DOMAIN fields' \subseteq DOMAIN columns /\ \A i \in DOMAIN fields' : fields'[i] \in Values
  /\ state' \in States /\ row_count' \in Nat
  /\ \/ UNCHANGED <<direct, buffer_worthwhile>>
     \/ direct' = FALSE /\ buffer_worthwhile' \in BOOLEAN

LEMMA SameColumnsType ==
  ASSUME TypeInv, Fixed, SameColumns
  PROVE  TableType' /\ BufferType' /\ LayoutType'
<1>1. /\ columns' \in Seq(Seq(Cells)) /\ Len(columns') = Len(columns) /\ columns \in Seq(Seq(Cells))
      /\ UNCHANGED <<column_order, ordinal_expect, predicate_ordinal>>
      /\ row_dirty' \subseteq DOMAIN columns /\ DOMAIN fields' \subseteq DOMAIN columns
  BY DEF SameColumns, TypeInv, TableType
<1>2. DOMAIN columns' = DOMAIN columns
  BY <1>1, LenProperties
<1>3. UNCHANGED <<Names, Values, Cells, HasFilter, Frozen, Api, PlainPlan, Ordinals>>
  BY ConfigFixed
<1>5. direct' \in BOOLEAN /\ buffer_worthwhile' \in BOOLEAN
  BY DEF SameColumns, TypeInv, TableType, BufferType
<1>6. columns = <<>> <=> columns' = <<>>
  BY <1>1, <1>2
<1>7. TableType'
  BY <1>1, <1>2, <1>3, <1>5, <1>6 DEF SameColumns, TypeInv, TableType
<1>8. predicate_ordinal' \in 0..Len(columns')
  BY <1>1 DEF TypeInv, BufferType
<1>9. BufferType'
  BY <1>1, <1>2, <1>3, <1>5, <1>8 DEF SameColumns, TypeInv, BufferType
<1>10. LayoutType'
  BY <1>1, <1>2, <1>3 DEF SameColumns, TypeInv, LayoutType
<1> QED
  BY <1>7, <1>9, <1>10

(* What end_row does to the columns, on each of its three paths.            *)
LEMMA EndRowColumns ==
  ASSUME TypeInv, end_row
  PROVE  /\ columns' \in Seq(Seq(Cells)) /\ Len(columns') = Len(columns)
         /\ row_dirty' = {}
<1>1. columns \in Seq(Seq(Cells)) /\ row_count \in Nat
      /\ \A i \in DOMAIN fields : fields[i] \in Values
  BY DEF TypeInv, TableType, BufferType
<1>2. NullFill(columns, row_dirty) \in Seq(Seq(Cells))
      /\ Len(NullFill(columns, row_dirty)) = Len(columns)
  BY <1>1, NullFillFacts
<1>3. CASE finish_row
  <2> DEFINE cols == NullFill(columns, row_dirty)
  <2>1. columns' \in {cols, Popped(cols)} /\ row_dirty' = {}
    BY <1>3 DEF finish_row, Popped
  <2> HIDE DEF cols
  <2>2. cols \in Seq(Seq(Cells)) /\ Len(cols) = Len(columns)
    BY <1>2 DEF cols
  <2>3. Popped(cols) \in Seq(Seq(Cells)) /\ Len(Popped(cols)) = Len(cols)
    BY <2>2, PoppedFacts
  <2> QED
    BY <2>1, <2>2, <2>3
<1>4. CASE null_fill_missing
  BY <1>2, <1>4 DEF null_fill_missing
<1>5. CASE drain_buffered
  <2> DEFINE drained == Drained(columns, column_order, fields)
             dirty == row_dirty \cup DOMAIN fields
  <2>1. columns' \in {NullFill(drained, dirty), columns} /\ row_dirty' = {}
    BY <1>5 DEF drain_buffered
  <2>2. drained \in Seq(Seq(Cells)) /\ Len(drained) = Len(columns)
    BY <1>1, DrainedFacts
  <2> HIDE DEF drained, dirty
  <2>3. NullFill(drained, dirty) \in Seq(Seq(Cells)) /\ Len(NullFill(drained, dirty)) = Len(drained)
    BY <2>2, NullFillFacts
  <2> QED
    BY <1>1, <2>1, <2>2, <2>3
<1> QED
  BY <1>3, <1>4, <1>5 DEF end_row

LEMMA EndRowType ==
  ASSUME TypeInv, Fixed, end_row
  PROVE  TypeInv'
<1>1. /\ pc = "row" /\ pc' = "idle" /\ ended' = ended + 1
      /\ UNCHANGED <<column_order, predicate_ordinal, buffer_worthwhile, error_vars,
                     layout_vars, result, row_in, config>>
  BY DEF end_row, RowEnds, output_vars, Fixed
<1>2. /\ UNCHANGED direct
      /\ row_count' \in Nat
      /\ row_count' <= ended'
      /\ fields' \in {fields, <<>>} /\ state' \in {state, "Undecided"}
  <2>1. row_count \in Nat /\ ended \in Nat /\ row_count <= IF direct THEN ended + 1 ELSE ended
    BY <1>1 DEF TypeInv, TableType, InputType
  <2>2. direct => HasFilter /\ buffer_worthwhile
    BY DEF TypeInv, BufferType
  <2>3. CASE (~HasFilter \/ ~buffer_worthwhile) /\ finish_row
    BY <1>1, <2>1, <2>2, <2>3 DEF finish_row, Count
  <2>4. CASE null_fill_missing
    BY <1>1, <2>1, <2>4 DEF null_fill_missing
  <2>5. CASE ~direct /\ drain_buffered
    BY <1>1, <2>1, <2>5 DEF drain_buffered, Count
  <2> QED
    BY <2>3, <2>4, <2>5 DEF end_row
<1>3. DOMAIN fields' \subseteq DOMAIN fields /\ \A i \in DOMAIN fields' : fields'[i] \in Values
  <2>1. CASE fields' = fields
    BY <2>1 DEF TypeInv, BufferType
  <2>2. CASE fields' = <<>>
    <3>1. DOMAIN fields' = {}
      BY <2>2
    <3> QED
      BY <3>1
  <2> QED
    BY <1>2, <2>1, <2>2
<1>4. SameColumns
  BY <1>1, <1>2, <1>3, EndRowColumns
  DEF SameColumns, TypeInv, BufferType, LayoutType, layout_vars, States
<1>5. TableType' /\ BufferType' /\ LayoutType'
  BY <1>4, SameColumnsType
<1>6. InputType'
  BY <1>1, <1>2, ConfigFixed DEF TypeInv, InputType
<1>7. ErrorType'
  BY <1>1 DEF TypeInv, ErrorType, error_vars
<1> QED
  BY <1>1, <1>5, <1>6, <1>7 DEF TypeInv

LEMMA BeginRowType ==
  ASSUME TypeInv, Fixed, begin_row
  PROVE  TypeInv'
<1>1. /\ pc = "idle" /\ pc' = "row" /\ row_in' = <<>> /\ current_ordinal' = 0
      /\ buffer_worthwhile' = (buffer_worthwhile /\ ~(row_count > 0 /\ PredicateIsLate))
      /\ fields' = <<>> /\ state' = "Undecided" /\ direct' = FALSE
      /\ UNCHANGED <<table_vars, predicate_ordinal, error_vars, ordinal_expect, result, ended, config>>
  BY DEF begin_row, output_vars, Fixed
<1>2. DOMAIN fields' = {}
  BY <1>1
<1>3. /\ columns \in Seq(Seq(Cells)) /\ row_dirty \subseteq DOMAIN columns /\ row_count \in Nat
  BY DEF TypeInv, TableType
<1>4. SameColumns
  BY <1>1, <1>2, <1>3 DEF SameColumns, table_vars, States
<1>5. TableType' /\ BufferType' /\ LayoutType'
  BY <1>4, SameColumnsType
<1>6. InputType'
  <2>1. row_in' \in Seq([raw : Names', value : Values'])
    BY <1>1, EmptySeq
  <2> QED
    BY <1>1, <2>1 DEF TypeInv, InputType, table_vars
<1>7. ErrorType'
  BY <1>1 DEF TypeInv, ErrorType, error_vars
<1> QED
  BY <1>1, <1>5, <1>6, <1>7 DEF TypeInv

LEMMA RefuseType ==
  ASSUME TypeInv, Fixed, Refuse
  PROVE  TypeInv'
<1>1. /\ strict_error' \in {strict_error, "memory"} /\ lossy' = TRUE
      /\ UNCHANGED <<table_vars, buffer_vars, buffer_worthwhile, unknown_error, layout_vars,
                     result, config>>
  BY DEF Refuse, output_vars, Fixed
<1>2. /\ columns \in Seq(Seq(Cells)) /\ row_dirty \subseteq DOMAIN columns /\ row_count \in Nat
  BY DEF TypeInv, TableType
<1>3. SameColumns
  BY <1>1, <1>2 DEF SameColumns, table_vars, buffer_vars, layout_vars, TypeInv, BufferType, LayoutType
<1>4. TableType' /\ BufferType' /\ LayoutType'
  BY <1>3, SameColumnsType
<1>5. ErrorType'
  BY <1>1 DEF TypeInv, ErrorType
<1>6. UNCHANGED <<Names, Values>>
  BY ConfigFixed
<1>7. row_in \in Seq([raw : Names, value : Values]) /\ ended \in Nat
  BY DEF TypeInv, InputType
<1>8. CASE pc = "idle" /\ pc' = "row" /\ row_in' = <<>> /\ UNCHANGED ended
  <2>1. row_in' \in Seq([raw : Names', value : Values'])
    BY <1>8, EmptySeq
  <2> QED
    BY <1>1, <1>2, <1>4, <1>5, <1>7, <1>8, <2>1 DEF TypeInv, InputType, table_vars
<1>9. CASE pc = "row" /\ pc' = "idle" /\ ended' = ended + 1 /\ UNCHANGED row_in
  <2>1. row_count' <= ended'
    BY <1>1, <1>2, <1>7, <1>9 DEF TypeInv, InputType, TableType, table_vars
  <2> QED
    BY <1>1, <1>4, <1>5, <1>6, <1>7, <1>9, <2>1 DEF TypeInv, InputType
<1>10. CASE /\ pc = "row"
            /\ \E raw \in Names, v \in Values :
                 row_in' = Append(row_in, [raw |-> raw, value |-> v])
            /\ UNCHANGED <<pc, ended>>
  <2>1. row_in' \in Seq([raw : Names, value : Values])
    <3>1. PICK raw \in Names, v \in Values : row_in' = Append(row_in, [raw |-> raw, value |-> v])
      BY <1>10
    <3> DEFINE S == [raw : Names, value : Values]
               x == [raw |-> raw, value |-> v]
    <3>2. x \in S /\ row_in \in Seq(S) /\ row_in' = Append(row_in, x)
      BY <1>7, <3>1
    <3> HIDE DEF S, x
    <3>3. row_in' \in Seq(S)
      BY <3>2, AppendProperties
    <3> QED
      BY <3>3 DEF S
  <2> QED
    BY <1>1, <1>4, <1>5, <1>6, <1>10, <2>1 DEF TypeInv, InputType, table_vars, buffer_vars
<1> QED
  BY <1>8, <1>9, <1>10 DEF Refuse

LEMMA SplitOffType ==
  ASSUME TypeInv, Fixed, split_off
  PROVE  TypeInv'
<1>1. /\ pc = "idle" /\ row_count' = 0 /\ row_dirty' = {}
      /\ columns' = [i \in DOMAIN columns |-> Remainder(columns[i], row_count)]
      /\ UNCHANGED <<pc, column_order, buffer_vars, buffer_worthwhile, error_vars, layout_vars,
                     result, row_in, ended, config>>
  BY DEF split_off, Fixed
<1>2. columns' \in Seq(Seq(Cells)) /\ Len(columns') = Len(columns)
  BY <1>1, RemainderFacts DEF TypeInv
<1>3. SameColumns
  BY <1>1, <1>2 DEF SameColumns, buffer_vars, layout_vars, TypeInv, BufferType, LayoutType
<1>4. TableType' /\ BufferType' /\ LayoutType'
  BY <1>3, SameColumnsType
<1>5. InputType'
  BY <1>1, ConfigFixed DEF TypeInv, InputType
<1>6. ErrorType'
  BY <1>1 DEF TypeInv, ErrorType, error_vars
<1> QED
  BY <1>1, <1>4, <1>5, <1>6 DEF TypeInv

LEMMA FinishType ==
  ASSUME TypeInv, Fixed, finish
  PROVE  TypeInv'
<1>1. /\ pc \in {"idle", "row"} /\ pc' = "finished"
      /\ columns' \in {columns, Normalized} /\ row_dirty' \in {row_dirty, {}}
      /\ unknown_error' \in {unknown_error, FALSE} /\ strict_error' \in {strict_error, "none"}
      /\ result' \in {"ok", "err"}
      /\ UNCHANGED <<column_order, row_count, buffer_vars, buffer_worthwhile, lossy, layout_vars,
                     row_in, ended, config>>
  BY DEF finish, Fixed, input_vars
<1>2. columns \in Seq(Seq(Cells)) /\ row_dirty \subseteq DOMAIN columns /\ row_count \in Nat
  BY DEF TypeInv, TableType
<1>3. columns' \in Seq(Seq(Cells)) /\ Len(columns') = Len(columns)
  <2>1. Normalized \in Seq(Seq(Cells)) /\ Len(Normalized) = Len(columns)
    BY NormalizedFacts DEF TypeInv
  <2> QED
    BY <1>1, <1>2, <2>1
<1>4. row_dirty' \subseteq DOMAIN columns
  BY <1>1, <1>2
<1>5. SameColumns
  BY <1>1, <1>2, <1>3, <1>4 DEF SameColumns, buffer_vars, layout_vars, TypeInv, BufferType, LayoutType
<1>6. TableType' /\ BufferType' /\ LayoutType'
  BY <1>5, SameColumnsType
<1>7. row_count' <= ended' + 1 /\ ended' \in Nat
  BY <1>1, <1>2 DEF TypeInv, InputType
<1>8. InputType'
  <2>1. row_in' \in Seq([raw : Names', value : Values'])
    BY <1>1, ConfigFixed DEF TypeInv, InputType
  <2>2. pc' = "finished"
    BY <1>1
  <2> QED
    BY <1>7, <2>1, <2>2 DEF InputType
<1>9. ErrorType'
  BY <1>1 DEF TypeInv, ErrorType
<1> QED
  BY <1>1, <1>6, <1>8, <1>9 DEF TypeInv

LEMMA InitType == Init => TypeInv
<1> SUFFICES ASSUME Init PROVE TypeInv
  OBVIOUS
<1>1. /\ config \in Configs /\ pc = "idle" /\ column_order = initial_order
      /\ columns = [i \in DOMAIN initial_order |-> <<>>]
      /\ row_count = 0 /\ row_dirty = {} /\ fields = <<>> /\ state = "Undecided" /\ direct = FALSE
      /\ predicate_ordinal = 0 /\ buffer_worthwhile = TRUE
      /\ ordinal_expect = [o \in Ordinals |-> NoSlot] /\ current_ordinal = 0
      /\ row_in = <<>> /\ ended = 0
      /\ unknown_error = FALSE /\ strict_error = "none" /\ lossy = FALSE /\ result = "none"
  BY DEF Init
<1>2. /\ initial_order \in Seq(Names) /\ Distinct(initial_order)
      /\ Frozen = "exact" => initial_order # <<>>
  BY <1>1, InitialOrder
<1>3. Len(initial_order) \in Nat /\ DOMAIN initial_order = 1..Len(initial_order)
  BY <1>2, LenProperties
<1>4. <<>> \in Seq(Cells) /\ <<>> \in Seq([raw : Names, value : Values])
  BY EmptySeq
<1>5. columns \in Seq(Seq(Cells)) /\ Len(columns) = Len(initial_order)
  BY <1>1, <1>3, <1>4
<1>6. initial_order # <<>> => columns # <<>>
  <2>1. initial_order # <<>> => Len(initial_order) # 0
    BY <1>2, EmptySeq
  <2> QED
    BY <1>5, <2>1
<1>7. TableType
  BY <1>1, <1>2, <1>5, <1>6 DEF TableType
<1>8. BufferType
  <2>1. DOMAIN fields = {} /\ predicate_ordinal \in 0..Len(columns)
    BY <1>1, <1>3, <1>5
  <2> QED
    BY <1>1, <2>1 DEF BufferType, States
<1>9. LayoutType
  BY <1>1 DEF LayoutType
<1>10. InputType
  BY <1>1, <1>4 DEF InputType
<1> QED
  BY <1>1, <1>7, <1>8, <1>9, <1>10 DEF TypeInv, ErrorType

LEMMA StepType ==
  ASSUME TypeInv, [Next]_vars
  PROVE  TypeInv'
<1>1. CASE begin_row /\ Fixed
  BY <1>1, BeginRowType
<1>2. ASSUME NEW raw \in Names, NEW v \in Values, PutField(raw, v) /\ Fixed
      PROVE  TypeInv'
  BY <1>2, PutFieldType
<1>3. ASSUME NEW raw \in Names, NEW v \in Values, PutFieldAt(raw, v) /\ Fixed
      PROVE  TypeInv'
  BY <1>3, PutFieldAtType
<1>4. ASSUME NEW raw \in Names, NEW v \in Values, SkipField(raw, v) /\ Fixed
      PROVE  TypeInv'
  BY <1>4, SkipFieldType
<1>5. CASE end_row /\ Fixed
  BY <1>5, EndRowType
<1>6. CASE Refuse /\ Fixed
  BY <1>6, RefuseType
<1>7. CASE split_off /\ Fixed
  BY <1>7, SplitOffType
<1>8. CASE finish /\ Fixed
  BY <1>8, FinishType
<1>9. CASE UNCHANGED vars
  <2>1. UNCHANGED <<Names, Values, Cells, HasFilter, Frozen, Api, PlainPlan, Ordinals>>
    BY <1>9, ConfigFixed DEF vars, Fixed
  <2> QED
    BY <1>9, <2>1 DEF vars, table_vars, buffer_vars, error_vars, layout_vars, output_vars, input_vars,
       TypeInv, TableType, BufferType, LayoutType, InputType, ErrorType
<1> QED
  BY <1>1, <1>2, <1>3, <1>4, <1>5, <1>6, <1>7, <1>8, <1>9 DEF Next, Done

(* The types of the builder's state: a slot number always names a column,   *)
(* and the committed rows are at most the rows begun (TableBuilder).        *)
THEOREM BuilderTypeCorrect == Spec => []TypeOK
<1>1. TypeInv => TypeOK
  <2> SUFFICES ASSUME TypeInv PROVE TypeOK
    OBVIOUS
  <2>1. row_count \in 0..(IF pc = "idle" THEN ended ELSE ended + 1)
    <3>1. row_count \in Nat /\ ended \in Nat /\ pc \in {"idle", "row", "finished"}
      BY DEF TypeInv, TableType, InputType
    <3> QED
      BY <3>1 DEF TypeInv, InputType
  <2> QED
    BY <2>1 DEF TypeOK, TypeInv, TableType, BufferType, LayoutType, ErrorType, States
<1>2. TypeInv /\ [Next]_vars => TypeInv'
  BY StepType
<1> QED
  BY <1>1, <1>2, InitType, PTL DEF Spec

-----------------------------------------------------------------------------
(* Losses are reported.                                                    *)

\* A lost value leaves an error behind until finish takes it.
LossInv ==
  /\ lossy /\ pc # "finished" => unknown_error \/ strict_error # "none"
  /\ pc # "finished" => result = "none"
  /\ result = "ok" => ~lossy

LEMMA StepLoss ==
  ASSUME TypeInv, LossInv, [Next]_vars
  PROVE  LossInv'
<1> USE DEF LossInv, Fixed
<1>1. CASE begin_row /\ Fixed
  BY <1>1 DEF begin_row, error_vars, output_vars
<1>2. ASSUME NEW raw \in Names, NEW v \in Values, PutField(raw, v) /\ Fixed
      PROVE  LossInv'
  <2> DEFINE col == resolve_field(raw)
             bad == StrictTypes /\ Cell(col, v) # v
  <2>1. /\ pc = "row" /\ pc' = "row" /\ UNCHANGED result
        /\ lossy' = (lossy \/ (col # NoName /\ (unknown(col) \/ bad)))
    BY <1>2 DEF PutField, Offer, output_vars
  <2>2. col # NoName => col \in Names
    BY ResolvedNames DEF TypeInv
  <2> HIDE DEF col
  <2>3. /\ unknown_error => unknown_error'
        /\ strict_error # "none" => strict_error' # "none"
    BY <1>2 DEF PutField, PushField, BufferField, record_strict_violation
  <2>4. ASSUME col # NoName, unknown(col)
        PROVE  unknown_error'
    BY <1>2, <2>4 DEF PutField, PushField, BufferField, col
  <2>5. ASSUME col # NoName, ~unknown(col), bad
        PROVE  strict_error' # "none"
    <3>1. WithName(col)[ensure_column_idx(col)] = col
      BY <2>2, <2>5, EnsureColumn DEF TypeInv
    <3>2. record_strict_violation(col, v)
      BY <1>2, <2>5, <3>1 DEF PutField, PushField, BufferField, col
    <3> QED
      BY <2>5, <3>2 DEF record_strict_violation
  <2> QED
    BY <2>1, <2>3, <2>4, <2>5
<1>3. ASSUME NEW raw \in Names, NEW v \in Values, PutFieldAt(raw, v) /\ Fixed
      PROVE  LossInv'
  BY <1>3 DEF PutFieldAt, Offer, record_strict_violation, output_vars
<1>4. ASSUME NEW raw \in Names, NEW v \in Values, SkipField(raw, v) /\ Fixed
      PROVE  LossInv'
  BY <1>4 DEF SkipField, Offer, error_vars, output_vars
<1>5. CASE end_row /\ Fixed
  BY <1>5 DEF end_row, RowEnds, error_vars, output_vars
<1>6. CASE Refuse /\ Fixed
  BY <1>6 DEF Refuse, output_vars
<1>7. CASE split_off /\ Fixed
  BY <1>7 DEF split_off, error_vars
<1>8. CASE finish /\ Fixed
  BY <1>8 DEF finish, FinishFails
<1>9. CASE UNCHANGED vars
  BY <1>9 DEF vars, error_vars, output_vars
<1> QED
  BY <1>1, <1>2, <1>3, <1>4, <1>5, <1>6, <1>7, <1>8, <1>9 DEF Next, Done

(* A field outside an exact schema, a value that does not parse under       *)
(* strict types and a call refused for want of memory all make finish fail  *)
(* (prepare_finish): no value is lost without an error.                     *)
THEOREM EveryLossReported == Spec => []LossReported
<1>1. Init => LossInv
  BY DEF Init, LossInv
<1>2. LossInv => LossReported
  BY DEF LossInv, LossReported
<1>3. Spec => []TypeInv
  BY InitType, StepType, PTL DEF Spec
<1> QED
  BY <1>1, <1>2, <1>3, StepLoss, PTL DEF Spec

-----------------------------------------------------------------------------
(* Committed rows stay.                                                    *)

\* Once the memory budget refused a call of a row that is committed early, every
\* later call is refused.  A violation of strict types that came first would hide
\* it: the next row would then begin with the refused row's columns too short.
RefusalsLatch ==
  \A c \in Configs :
    ~ /\ c.memory_limited /\ c.strict_types
      /\ c.filter # <<>> /\ c.api = "resolve_and_put"
      /\ c.field_map = <<>> /\ c.drop_fields = {} /\ c.schema_order = <<>>

One(b) == IF b THEN 1 ELSE 0

\* A column has a cell for every row before the current one, and one more if this
\* row has set it.
Filled == \A i \in 1..Len(columns) : Len(columns[i]) >= backfill + One(i \in row_dirty)

\* And between rows it has one for every committed row.
FilledInv ==
  /\ strict_error = "types" => StrictTypes
  /\ Filled
  /\ pc = "idle" /\ direct /\ ~Refused =>
       row_dirty = {} /\ \A i \in 1..Len(columns) : Len(columns[i]) >= row_count

\* The step leaves the cells of committed rows alone.
Stable ==
  \A i \in 1..Len(columns) : \A r \in 1..row_count :
    r <= Len(columns[i]) => columns'[i][r] = columns[i][r]

LEMMA ColumnLens ==
  ASSUME TableType
  PROVE  /\ Len(columns) \in Nat /\ DOMAIN columns = 1..Len(columns)
         /\ \A i \in 1..Len(columns) :
              /\ columns[i] \in Seq(Cells)
              /\ Len(columns[i]) \in Nat /\ DOMAIN columns[i] = 1..Len(columns[i])
<1>1. columns \in Seq(Seq(Cells))
  BY DEF TableType
<1>2. \A i \in 1..Len(columns) : columns[i] \in Seq(Cells)
  BY <1>1, ElementOfSeq
<1> QED
  BY <1>1, <1>2, LenProperties

(* A column after ensure_column_idx: as it was, or new.                     *)
LEMMA EnsuredColumns ==
  ASSUME TableType, NEW cols, NEW order, NEW slot, Ensured(cols, order, slot)
  PROVE  /\ Len(cols) \in Nat /\ Len(columns) <= Len(cols)
         /\ \A i \in 1..Len(cols) : cols[i] \in Seq(Cells) /\ Len(cols[i]) \in Nat
         /\ \A i \in 1..Len(columns) : cols[i] = columns[i] /\ i <= Len(cols)
         /\ \A i \in 1..Len(cols) : i <= Len(columns) \/ (i = slot /\ cols[i] = Backfilled)
<1>1. cols \in Seq(Seq(Cells))
  BY DEF Ensured
<1>2. \A i \in 1..Len(cols) : cols[i] \in Seq(Cells)
  BY <1>1, ElementOfSeq
<1>3. \A i \in 1..Len(cols) : Len(cols[i]) \in Nat
  BY <1>2, LenProperties
<1>4. Len(cols) \in Nat
  BY <1>1, LenProperties
<1>5. Len(columns) \in Nat
  BY ColumnLens
<1>6. /\ \A i \in 1..Len(columns) : cols[i] = columns[i]
      /\ \/ Len(cols) = Len(columns)
         \/ Len(cols) = Len(columns) + 1 /\ slot = Len(columns) + 1 /\ cols[slot] = Backfilled
  BY DEF Ensured
<1> QED
  BY <1>2, <1>3, <1>4, <1>5, <1>6

(* A column once it exists, new or not, has the rows it has missed.         *)
LEMMA EnsuredFilled ==
  ASSUME TableType, Filled, NEW cols, NEW order, NEW slot, Ensured(cols, order, slot)
  PROVE  \A i \in 1..Len(cols) : Len(cols[i]) >= backfill + One(i \in row_dirty)
<1> TAKE i \in 1..Len(cols)
<1>1. CASE i <= Len(columns)
  <2>1. i \in 1..Len(columns) /\ cols[i] = columns[i]
    BY <1>1, EnsuredColumns, ColumnLens
  <2> QED
    BY <2>1 DEF Filled
<1>2. CASE cols[i] = Backfilled /\ ~ (i <= Len(columns))
  <2>1. i \notin row_dirty
    BY <1>2, ColumnLens DEF TableType
  <2>2. row_count \in Nat /\ direct \in BOOLEAN
    BY DEF TableType
  <2>3. backfill \in Int /\ Len(Backfilled) >= backfill
    BY <2>2, BackfilledFacts DEF backfill
  <2> QED
    BY <1>2, <2>1, <2>3 DEF One
<1> QED
  BY <1>1, <1>2, EnsuredColumns

(* A value pushed into a column.                                            *)
LEMMA PushesFilled ==
  ASSUME TableType, Filled, NEW cols, NEW order, NEW slot, NEW cell,
         Pushes(cols, order, slot, cell)
  PROVE  Filled' /\ Stable
<1>1. /\ Ensured(cols, order, slot) /\ cell \in Cells /\ Len(columns') = Len(cols)
      /\ \A i \in 1..Len(cols) :
           columns'[i] = IF i = slot THEN PushCell(cols[i], row_count, cell) ELSE cols[i]
      /\ row_dirty' = row_dirty \cup {slot} /\ UNCHANGED <<row_count, direct>>
  BY DEF Pushes
<1>2. row_count \in Nat /\ direct \in BOOLEAN /\ backfill \in Int /\ backfill <= row_count
      /\ backfill' = backfill
  BY <1>1 DEF TableType, backfill
<1>3. ASSUME NEW i \in 1..Len(cols)
      PROVE  /\ Len(PushCell(cols[i], row_count, cell)) >= row_count + 1
                \/ Len(PushCell(cols[i], row_count, cell)) = Len(cols[i]) + 1
             /\ \A r \in 1..row_count :
                  r <= Len(cols[i]) => PushCell(cols[i], row_count, cell)[r] = cols[i][r]
  <2>1. cols[i] \in Seq(Cells) /\ Len(cols[i]) \in Nat
    BY <1>1, EnsuredColumns
  <2>2. /\ Len(PushCell(cols[i], row_count, cell)) =
             IF Len(cols[i]) > row_count THEN Len(cols[i]) ELSE Len(cols[i]) + 1
        /\ \A r \in 1..row_count :
             r <= Len(cols[i]) => PushCell(cols[i], row_count, cell)[r] = cols[i][r]
    <3> DEFINE cells == cols[i]
    <3>1. cells \in Seq(Cells) /\ row_count \in Nat /\ cell \in Cells
      BY <1>1, <1>2, <2>1
    <3> HIDE DEF cells
    <3>2. PushedTo(cells, row_count, cell, PushCell(cells, row_count, cell))
      BY <3>1, PushCellFacts
    <3> QED
      BY <3>2 DEF cells, PushedTo
  <2> QED
    BY <1>2, <2>1, <2>2
<1>4. \A i \in 1..Len(cols) : Len(cols[i]) >= backfill + One(i \in row_dirty) /\ Len(cols[i]) \in Nat
  BY <1>1, EnsuredFilled, EnsuredColumns
<1>5. Filled'
  <2> SUFFICES ASSUME NEW i \in 1..Len(cols)
               PROVE  Len(columns'[i]) >= backfill + One(i \in row_dirty \cup {slot})
    BY <1>1, <1>2 DEF Filled
  <2>1. CASE i = slot
    <3>1. /\ columns'[i] = PushCell(cols[i], row_count, cell)
          /\ Len(columns'[i]) >= row_count + 1 \/ Len(columns'[i]) = Len(cols[i]) + 1
      BY <1>1, <1>3, <2>1
    <3>2. Len(cols[i]) >= backfill /\ Len(cols[i]) \in Nat
      BY <1>2, <1>4 DEF One
    <3>3. Len(columns'[i]) >= backfill + 1
      BY <1>2, <3>1, <3>2
    <3> QED
      BY <1>2, <2>1, <3>3 DEF One
  <2>2. CASE i # slot
    BY <1>1, <1>4, <2>2 DEF One
  <2> QED
    BY <2>1, <2>2
<1>6. Stable
  <2> SUFFICES ASSUME NEW i \in 1..Len(columns), NEW r \in 1..row_count, r <= Len(columns[i])
               PROVE  columns'[i][r] = columns[i][r]
    BY DEF Stable
  <2>1. i \in 1..Len(cols) /\ cols[i] = columns[i]
    BY <1>1, EnsuredColumns, ColumnLens
  <2> QED
    BY <1>1, <1>3, <2>1
<1> QED
  BY <1>5, <1>6

(* A value buffered, or a row committed with it.                            *)
LEMMA BuffersFilled ==
  ASSUME TableType, Filled, ~direct, NEW cols, NEW order, NEW slot, NEW values,
         Buffers(cols, order, slot, values)
  PROVE  Filled' /\ Stable
<1>1. /\ Ensured(cols, order, slot)
      /\ \A i \in DOMAIN values : values[i] \in Values
  BY DEF Buffers
<1>2. row_count \in Nat /\ backfill = row_count /\ cols \in Seq(Seq(Cells))
  BY <1>1 DEF TableType, backfill, Ensured
<1>3. \A i \in 1..Len(cols) : Len(cols[i]) >= backfill + One(i \in row_dirty) /\ Len(cols[i]) \in Nat
  BY <1>1, EnsuredFilled, EnsuredColumns
<1>4. CASE columns' = cols /\ UNCHANGED <<row_dirty, row_count, direct>>
  <2>1. Filled'
    BY <1>3, <1>4 DEF Filled, backfill
  <2>2. Stable
    BY <1>1, <1>4, EnsuredColumns DEF Stable
  <2> QED
    BY <2>1, <2>2
<1>5. CASE /\ columns' = Drained(cols, order, values) /\ row_dirty' = row_dirty \cup DOMAIN values
           /\ row_count' = row_count + 1 /\ direct'
  <2>1. /\ Len(columns') = Len(cols)
        /\ \A i \in 1..Len(cols) :
             /\ i \in DOMAIN values =>
                  columns'[i] = PushCell(cols[i], row_count, Cell(order[i], values[i]))
             /\ i \notin DOMAIN values => columns'[i] = cols[i]
    BY <1>1, <1>2, <1>5, DrainedFacts
  <2>2. ASSUME NEW i \in 1..Len(cols)
        PROVE  /\ i \in DOMAIN values => Len(columns'[i]) >= row_count + 1
               /\ \A r \in 1..row_count : r <= Len(cols[i]) => columns'[i][r] = cols[i][r]
    <3>0. cols[i] \in Seq(Cells)
      BY <1>1, EnsuredColumns
    <3>1. Len(cols[i]) \in Nat /\ Len(cols[i]) >= row_count
      <4>1. row_count \in Nat /\ backfill = row_count
        BY <1>2
      <4> QED
        BY <4>1, <1>3 DEF One
    <3>2. CASE i \in DOMAIN values
      <4> DEFINE cell == Cell(order[i], values[i])
      <4>1. cell \in Cells
        BY <1>1, <3>2, CellType
      <4>2. columns'[i] = PushCell(cols[i], row_count, cell)
        BY <2>1, <3>2
      <4> DEFINE cells == cols[i]
      <4>3. cells \in Seq(Cells) /\ row_count \in Nat
        BY <1>2, <3>0
      <4> HIDE DEF cell, cells
      <4>4. PushedTo(cells, row_count, cell, PushCell(cells, row_count, cell))
        BY <4>1, <4>3, PushCellFacts
      <4>5. columns'[i] = PushCell(cells, row_count, cell) /\ Len(cells) \in Nat /\ Len(cells) >= row_count
        BY <3>1, <4>2 DEF cells
      <4>6. Len(columns'[i]) >= row_count + 1
        BY <4>3, <4>4, <4>5 DEF PushedTo
      <4> QED
        BY <4>4, <4>5, <4>6 DEF cells, PushedTo
    <3>3. CASE i \notin DOMAIN values
      BY <2>1, <3>3
    <3> QED
      BY <3>2, <3>3
  <2>3. Filled'
    <3>1. backfill' = row_count
      BY <1>2, <1>5 DEF backfill
    <3> SUFFICES ASSUME NEW i \in 1..Len(cols)
                 PROVE  Len(columns'[i]) >= row_count + One(i \in row_dirty \cup DOMAIN values)
      BY <1>5, <2>1, <3>1 DEF Filled
    <3>2. CASE i \in DOMAIN values
      BY <1>2, <2>2, <3>2 DEF One
    <3>3. CASE i \notin DOMAIN values
      BY <1>2, <1>3, <2>1, <3>3 DEF One
    <3> QED
      BY <3>2, <3>3
  <2>4. Stable
    <3> SUFFICES ASSUME NEW i \in 1..Len(columns), NEW r \in 1..row_count, r <= Len(columns[i])
                 PROVE  columns'[i][r] = columns[i][r]
      BY DEF Stable
    <3>1. i \in 1..Len(cols) /\ cols[i] = columns[i]
      BY <1>1, EnsuredColumns, ColumnLens
    <3> QED
      BY <2>2, <3>1
  <2> QED
    BY <2>3, <2>4
<1> QED
  BY <1>4, <1>5 DEF Buffers

(* Null-filling a column that has its cells.                                *)
LEMMA NullFillFilled ==
  ASSUME NEW cols \in Seq(Seq(Cells)), NEW dirty, NEW low \in Int,
         \A i \in 1..Len(cols) : Len(cols[i]) >= low + One(i \in dirty)
  PROVE  /\ NullFill(cols, dirty) \in Seq(Seq(Cells))
         /\ Len(NullFill(cols, dirty)) = Len(cols)
         /\ \A i \in 1..Len(cols) :
              /\ NullFill(cols, dirty)[i] \in Seq(Cells)
              /\ Len(NullFill(cols, dirty)[i]) >= low + 1
              /\ \A r \in 1..Len(cols[i]) : NullFill(cols, dirty)[i][r] = cols[i][r]
<1> DEFINE new == NullFill(cols, dirty)
<1>1. /\ new \in Seq(Seq(Cells)) /\ Len(new) = Len(cols)
      /\ \A i \in 1..Len(cols) : /\ i \in dirty => new[i] = cols[i]
                                 /\ i \notin dirty => new[i] = Append(cols[i], Null)
  BY NullFillFacts
<1> HIDE DEF new
<1>2. ASSUME NEW i \in 1..Len(cols)
      PROVE  /\ new[i] \in Seq(Cells)
             /\ Len(new[i]) >= low + 1
             /\ \A r \in 1..Len(cols[i]) : new[i][r] = cols[i][r]
  <2>1. cols[i] \in Seq(Cells) /\ Null \in Cells
    BY ElementOfSeq DEF Cells
  <2>2. Len(cols[i]) \in Nat
    BY <2>1, LenProperties
  <2>3. CASE i \in dirty
    <3>1. Len(cols[i]) >= low + 1
      BY <2>3 DEF One
    <3> QED
      BY <1>1, <2>1, <2>3, <3>1
  <2>4. CASE i \notin dirty
    <3>1. Len(cols[i]) >= low
      BY <2>4 DEF One
    <3>2. new[i] = Append(cols[i], Null)
      BY <1>1, <2>4
    <3>3. /\ new[i] \in Seq(Cells) /\ Len(new[i]) = Len(cols[i]) + 1
          /\ \A r \in 1..Len(cols[i]) : new[i][r] = cols[i][r]
      BY <2>1, <3>2, AppendProperties
    <3> QED
      BY <2>2, <3>1, <3>3
  <2> QED
    BY <2>3, <2>4
<1> QED
  BY <1>1, <1>2 DEF new

(* The buffered values of a row that is kept at its end.                    *)
LEMMA DrainedFilled ==
  ASSUME TypeInv, Filled, ~direct
  PROVE  LET drained == Drained(columns, column_order, fields)
         IN /\ drained \in Seq(Seq(Cells)) /\ Len(drained) = Len(columns)
            /\ \A i \in 1..Len(columns) :
                 /\ Len(drained[i]) >= row_count + One(i \in row_dirty \cup DOMAIN fields)
                 /\ \A r \in 1..row_count : r <= Len(columns[i]) =>
                      r <= Len(drained[i]) /\ drained[i][r] = columns[i][r]
<1> DEFINE drained == Drained(columns, column_order, fields)
<1>1. /\ columns \in Seq(Seq(Cells)) /\ row_count \in Nat /\ backfill = row_count
      /\ \A i \in DOMAIN fields : fields[i] \in Values
  BY DEF TypeInv, TableType, BufferType, backfill
<1>2. /\ drained \in Seq(Seq(Cells)) /\ Len(drained) = Len(columns)
      /\ \A i \in 1..Len(columns) :
           /\ i \in DOMAIN fields =>
                drained[i] = PushCell(columns[i], row_count, Cell(column_order[i], fields[i]))
           /\ i \notin DOMAIN fields => drained[i] = columns[i]
  BY <1>1, DrainedFacts
<1> HIDE DEF drained
<1>3. ASSUME NEW i \in 1..Len(columns)
      PROVE  /\ Len(drained[i]) >= row_count + One(i \in row_dirty \cup DOMAIN fields)
             /\ \A r \in 1..row_count : r <= Len(columns[i]) =>
                  r <= Len(drained[i]) /\ drained[i][r] = columns[i][r]
  <2> DEFINE cells == columns[i]
  <2>1. cells \in Seq(Cells) /\ Len(cells) \in Nat
    BY ColumnLens DEF TypeInv
  <2>2. row_count \in Nat /\ Len(cells) >= row_count + One(i \in row_dirty)
    BY <1>1 DEF Filled
  <2> HIDE DEF cells
  <2>3. CASE i \in DOMAIN fields
    <3> DEFINE cell == Cell(column_order[i], fields[i])
    <3>1. cell \in Cells
      BY <1>1, <2>3, CellType
    <3>2. drained[i] = PushCell(cells, row_count, cell)
      BY <1>2, <2>3 DEF cells
    <3> HIDE DEF cell
    <3>3. PushedTo(cells, row_count, cell, drained[i])
      BY <2>1, <2>2, <3>1, <3>2, PushCellFacts
    <3>4. Len(drained[i]) >= row_count + 1 /\ Len(drained[i]) >= Len(cells)
      BY <2>1, <2>2, <3>3 DEF PushedTo, One
    <3>5. \A r \in 1..row_count : r <= Len(cells) => drained[i][r] = cells[r]
      BY <3>3 DEF PushedTo
    <3>6. \A r \in 1..row_count : r <= Len(cells) => r <= Len(drained[i])
      BY <2>1, <2>2, <3>3 DEF PushedTo
    <3> QED
      BY <2>3, <3>4, <3>5, <3>6 DEF One, cells
  <2>4. CASE i \notin DOMAIN fields
    <3>1. drained[i] = cells
      BY <1>2, <2>4 DEF cells
    <3> QED
      BY <2>2, <2>4, <3>1 DEF One, cells
  <2> QED
    BY <2>3, <2>4
<1> QED
  BY <1>2, <1>3 DEF drained

(* Every committed row has its cell in every column at the end of a row.    *)
LEMMA EndRowFilled ==
  ASSUME TypeInv, Filled, end_row
  PROVE  /\ Stable
         /\ \A i \in 1..Len(columns') : Len(columns'[i]) >= row_count'
<1>1. /\ columns \in Seq(Seq(Cells)) /\ row_count \in Nat /\ direct \in BOOLEAN
      /\ direct => HasFilter /\ buffer_worthwhile
  BY DEF TypeInv, TableType, BufferType
<1>2. \A i \in 1..Len(columns) : Len(columns[i]) \in Nat
  BY ColumnLens DEF TypeInv
<1> DEFINE cols == NullFill(columns, row_dirty)
<1>3. ASSUME NEW low \in {row_count - 1, row_count}, low = backfill
      PROVE  /\ cols \in Seq(Seq(Cells))
             /\ Len(cols) = Len(columns)
             /\ \A i \in 1..Len(columns) :
                  /\ cols[i] \in Seq(Cells)
                  /\ Len(cols[i]) >= low + 1
                  /\ \A r \in 1..Len(columns[i]) : cols[i][r] = columns[i][r]
  <2>1. low \in Int
    BY <1>1
  <2>2. \A i \in 1..Len(columns) : Len(columns[i]) >= low + One(i \in row_dirty)
    BY <1>3 DEF Filled
  <2> QED
    BY <1>1, <2>1, <2>2, NullFillFilled
<1>4. CASE ~direct /\ finish_row
  <2>1. backfill = row_count
    BY <1>4 DEF backfill
  <2>2. /\ cols \in Seq(Seq(Cells)) /\ Len(cols) = Len(columns)
        /\ \A i \in 1..Len(columns) :
             /\ cols[i] \in Seq(Cells) /\ Len(cols[i]) >= row_count + 1
             /\ \A r \in 1..Len(columns[i]) : cols[i][r] = columns[i][r]
    BY <1>3, <2>1
  <2>3. \/ columns' = cols /\ row_count' = row_count + 1
        \/ columns' = Popped(cols) /\ row_count' = row_count + 0
    BY <1>4 DEF finish_row, Count, Popped
  <2> HIDE DEF cols
  <2>4. ASSUME NEW i \in 1..Len(columns)
        PROVE  /\ Len(cols[i]) \in Nat /\ Len(cols[i]) >= row_count + 1
               /\ \A r \in 1..Len(columns[i]) : cols[i][r] = columns[i][r]
    BY <2>2, LenProperties
  <2>5. Len(columns') = Len(columns)
    BY <2>2, <2>3, PoppedFacts
  <2>6. ASSUME NEW i \in 1..Len(columns)
        PROVE  /\ Len(columns'[i]) >= row_count'
               /\ \A r \in 1..row_count : r <= Len(columns[i]) => columns'[i][r] = columns[i][r]
    <3>1. Len(columns[i]) \in Nat /\ row_count \in Nat
      BY <1>1, <1>2
    <3>2. CASE columns' = cols /\ row_count' = row_count + 1
      BY <2>4, <3>1, <3>2
    <3>3. CASE columns' = Popped(cols) /\ row_count' = row_count + 0
      <4>1. /\ Len(cols[i]) > 0 => Len(columns'[i]) = Len(cols[i]) - 1
            /\ \A r \in 1..(Len(cols[i]) - 1) : columns'[i][r] = cols[i][r]
        <5>1. i \in 1..Len(cols) /\ cols \in Seq(Seq(Cells))
          BY <2>2
        <5>2. /\ Len(cols[i]) > 0 => Len(Popped(cols)[i]) = Len(cols[i]) - 1
              /\ \A r \in 1..(Len(cols[i]) - 1) : Popped(cols)[i][r] = cols[i][r]
          BY ONLY <5>1, PoppedFacts
        <5> QED
          BY ONLY <3>3, <5>2
      <4>2. Len(columns'[i]) >= row_count'
        BY <2>4, <3>1, <3>3, <4>1
      <4>3. ASSUME NEW r \in 1..row_count, r <= Len(columns[i])
            PROVE  columns'[i][r] = columns[i][r]
        <5>1. r \in 1..(Len(cols[i]) - 1) /\ r \in 1..Len(columns[i])
          BY <2>4, <3>1, <4>3
        <5>2. columns'[i][r] = cols[i][r]
          BY <4>1, <5>1
        <5>3. cols[i][r] = columns[i][r]
          BY <2>4, <5>1
        <5> QED
          BY <5>2, <5>3
      <4> QED
        BY <4>2, <4>3
    <3> QED
      BY <2>3, <3>2, <3>3
  <2> QED
    BY <2>5, <2>6 DEF Stable
<1>5. CASE direct /\ null_fill_missing
  <2>1. backfill = row_count - 1 /\ columns' = cols /\ row_count' = row_count
    BY <1>5 DEF backfill, null_fill_missing
  <2>2. /\ Len(cols) = Len(columns)
        /\ \A i \in 1..Len(columns) :
             /\ Len(cols[i]) >= row_count - 1 + 1
             /\ \A r \in 1..Len(columns[i]) : cols[i][r] = columns[i][r]
    BY <1>3, <2>1
  <2> HIDE DEF cols
  <2> QED
    BY <1>1, <1>2, <2>1, <2>2 DEF Stable
<1>6. CASE ~direct /\ drain_buffered
  <2> DEFINE drained == Drained(columns, column_order, fields)
             dirty == row_dirty \cup DOMAIN fields
             new == NullFill(drained, dirty)
  <2>1. \/ columns' = new /\ row_count' = row_count + 1
        \/ columns' = columns /\ row_count' = row_count + 0
    BY <1>6 DEF drain_buffered, Count
  <2>2. /\ drained \in Seq(Seq(Cells)) /\ Len(drained) = Len(columns)
        /\ \A i \in 1..Len(columns) :
             /\ Len(drained[i]) >= row_count + One(i \in dirty)
             /\ \A r \in 1..row_count : r <= Len(columns[i]) =>
                  r <= Len(drained[i]) /\ drained[i][r] = columns[i][r]
    BY <1>6, DrainedFilled
  <2> HIDE DEF drained, dirty
  <2>3. CASE columns' = new /\ row_count' = row_count + 1
    <3>1. /\ Len(new) = Len(drained)
          /\ \A i \in 1..Len(drained) :
               /\ Len(new[i]) >= row_count + 1
               /\ \A r \in 1..Len(drained[i]) : new[i][r] = drained[i][r]
      BY <1>1, <2>2, NullFillFilled
    <3> HIDE DEF new
    <3>2. ASSUME NEW i \in 1..Len(columns), NEW r \in 1..row_count, r <= Len(columns[i])
          PROVE  columns'[i][r] = columns[i][r]
      <4>1. drained[i] \in Seq(Cells)
        BY <2>2, ElementOfSeq
      <4>2. Len(drained[i]) \in Nat
        BY <4>1, LenProperties
      <4>3. r \in 1..Len(drained[i]) /\ drained[i][r] = columns[i][r]
        BY <1>1, <2>2, <3>2, <4>2
      <4> QED
        BY <2>2, <2>3, <3>1, <4>3
    <3> QED
      BY <2>2, <2>3, <3>1, <3>2 DEF Stable
  <2>4. CASE columns' = columns /\ row_count' = row_count + 0
    <3>1. \A i \in 1..Len(columns) : Len(columns[i]) >= row_count + One(i \in row_dirty)
      BY <1>6 DEF Filled, backfill
    <3>2. \A i \in 1..Len(columns) : Len(columns[i]) >= row_count
      BY <1>1, <1>2, <3>1 DEF One
    <3> QED
      BY <1>1, <2>4, <3>2 DEF Stable
  <2> QED
    BY <2>1, <2>3, <2>4
<1> QED
  BY <1>1, <1>4, <1>5, <1>6 DEF end_row

LEMMA LatchOfConfig ==
  ASSUME RefusalsLatch, config \in Configs
  PROVE  ~ (MemoryLimited /\ StrictTypes /\ HasFilter /\ Api = "resolve_and_put" /\ PlainPlan)
BY DEF RefusalsLatch, MemoryLimited, StrictTypes, HasFilter, Filter, Api, PlainPlan, field_map, drop_fields,
       schema_order

(* The invariant and the property of one step.                              *)
LEMMA StepFilled ==
  ASSUME RefusalsLatch, TypeInv, FilledInv, [Next]_vars
  PROVE  FilledInv' /\ (row_count' # 0 \/ row_count = 0 => Stable)
<1>1. /\ Len(columns) \in Nat /\ row_count \in Nat /\ direct \in BOOLEAN
      /\ \A i \in 1..Len(columns) : Len(columns[i]) \in Nat
  BY ColumnLens DEF TypeInv, TableType
<1>2. CASE begin_row /\ Fixed
  <2>1. /\ pc = "idle" /\ pc' = "row" /\ ~Refused /\ direct' = FALSE
        /\ UNCHANGED <<table_vars, strict_error, StrictTypes>>
    BY <1>2, ConfigFixed DEF begin_row, error_vars
  <2>2. \A i \in 1..Len(columns) : Len(columns[i]) >= row_count + One(i \in row_dirty)
    <3>1. CASE direct
      BY <1>1, <2>1, <3>1 DEF FilledInv, One
    <3>2. CASE ~direct
      BY <3>2 DEF FilledInv, Filled, backfill
    <3> QED
      BY <3>1, <3>2
  <2>3. Filled'
    BY <2>1, <2>2 DEF Filled, backfill, table_vars
  <2>4. Stable
    BY <2>1 DEF Stable, table_vars
  <2> QED
    BY <2>1, <2>3, <2>4 DEF FilledInv
<1>3. ASSUME NEW raw \in Names, NEW v \in Values, PutField(raw, v), Fixed
      PROVE  FilledInv' /\ Stable
  <2> DEFINE col == resolve_field(raw)
  <2>1. pc = "row" /\ pc' = "row"
    BY <1>3 DEF PutField, Offer
  <2>2. col # NoName => col \in Names
    BY ResolvedNames DEF TypeInv
  <2>3. StrictTypes' = StrictTypes
    BY <1>3, ConfigFixed
  <2>4. strict_error' = "types" => StrictTypes
    BY <1>3 DEF PutField, PushField, BufferField, record_strict_violation, FilledInv
  <2> HIDE DEF col
  <2>5. ASSUME UNCHANGED <<table_vars, direct>>
        PROVE  Filled' /\ Stable
    BY <2>5 DEF FilledInv, Filled, Stable, backfill, table_vars
  <2>6. ASSUME col # NoName, PushField(col, v), ~unknown(col)
        PROVE  Filled' /\ Stable
    BY <2>2, <2>6, PushFieldPushes, PushesFilled DEF TypeInv, FilledInv
  <2>7. ASSUME col # NoName, ~PushesDirectly, BufferField(col, v),
               unknown(col) => Api = "put_field" /\ unknown_error
        PROVE  Filled' /\ Stable
    <3>1. HasFilter /\ ~direct
      BY <2>7 DEF PushesDirectly
    <3>2. \E values : Buffers(WithColumn(col), WithName(col), ensure_column_idx(col), values)
      BY <2>2, <2>7, <3>1, BufferFieldBuffers
    <3> QED
      BY <3>1, <3>2, BuffersFilled DEF TypeInv, FilledInv
  <2>8. unknown_error \in BOOLEAN
    BY DEF TypeInv, ErrorType
  <2>9. Filled' /\ Stable
    <3>1. CASE col = NoName
      BY <1>3, <2>5, <3>1 DEF PutField, col, buffer_vars
    <3>2. CASE col # NoName /\ PushesDirectly /\ PushField(col, v)
      BY <2>5, <2>6, <3>2 DEF PushField, buffer_vars
    <3>3. CASE col # NoName /\ ~PushesDirectly /\ BufferField(col, v)
      BY <2>5, <2>7, <2>8, <3>3 DEF BufferField, buffer_vars
    <3> QED
      BY <1>3, <3>1, <3>2, <3>3 DEF PutField, col
  <2> QED
    BY <2>1, <2>3, <2>4, <2>9 DEF FilledInv
<1>4. ASSUME NEW raw \in Names, NEW v \in Values, PutFieldAt(raw, v), Fixed
      PROVE  FilledInv' /\ Stable
  <2>1. pc' = "row" /\ UNCHANGED StrictTypes
    BY <1>4, ConfigFixed DEF PutFieldAt, Offer
  <2>2. strict_error' = "types" => StrictTypes
    BY <1>4 DEF PutFieldAt, record_strict_violation, FilledInv
  <2>3. PICK slot : Pushes(columns, column_order, slot, Cell(raw, v))
    BY <1>4, PutFieldAtPushes
  <2>4. Filled' /\ Stable
    BY <2>3, PushesFilled DEF TypeInv, FilledInv
  <2> QED
    BY <2>1, <2>2, <2>4 DEF FilledInv
<1>5. ASSUME NEW raw \in Names, NEW v \in Values, SkipField(raw, v), Fixed
      PROVE  FilledInv' /\ Stable
  <2>1. pc' = "row" /\ UNCHANGED <<StrictTypes, table_vars, direct, strict_error>>
    BY <1>5, ConfigFixed DEF SkipField, Offer, buffer_vars, error_vars
  <2> QED
    BY <2>1 DEF FilledInv, Filled, Stable, backfill, table_vars
<1>6. CASE end_row /\ Fixed
  <2>1. Stable /\ \A i \in 1..Len(columns') : Len(columns'[i]) >= row_count'
    BY <1>6, EndRowFilled DEF FilledInv
  <2>2. row_dirty' = {} /\ UNCHANGED <<StrictTypes, strict_error>>
    BY <1>6, EndRowColumns, ConfigFixed DEF end_row, RowEnds, error_vars
  <2>3. row_count' \in Nat /\ direct' \in BOOLEAN
    BY <1>6, EndRowType DEF TypeInv, TableType
  <2>4. Filled'
    <3> SUFFICES ASSUME NEW i \in 1..Len(columns')
                 PROVE  Len(columns'[i]) >= backfill' + One(i \in row_dirty')
      BY DEF Filled
    <3>1. columns'[i] \in Seq(Cells')
      BY <1>6, EndRowType, ColumnLens, EndRowColumns, ElementOfSeq, ConfigFixed
    <3>2. Len(columns'[i]) \in Nat /\ Len(columns'[i]) >= row_count'
      BY <2>1, <3>1, LenProperties
    <3> QED
      BY <2>2, <2>3, <3>2 DEF One, backfill
  <2> QED
    BY <2>1, <2>2, <2>4 DEF FilledInv
<1>7. CASE Refuse /\ Fixed
  <2>1. UNCHANGED <<table_vars, direct, StrictTypes>>
    BY <1>7, ConfigFixed DEF Refuse, buffer_vars
  <2>2. strict_error' = IF strict_error = "none" THEN "memory" ELSE strict_error
    BY <1>7 DEF Refuse
  <2>3. pc' = "idle" /\ direct' => Refused'
    <3>1. ~ (strict_error = "types" /\ direct)
      BY <1>7, LatchOfConfig DEF Refuse, FilledInv, TypeInv, BufferType
    <3>2. strict_error \in {"none", "types", "memory"}
      BY DEF TypeInv, ErrorType
    <3> QED
      BY <2>1, <2>2, <3>1, <3>2 DEF Refused
  <2>4. Filled' /\ Stable
    BY <2>1 DEF FilledInv, Filled, Stable, backfill, table_vars
  <2> QED
    BY <2>1, <2>2, <2>3, <2>4 DEF FilledInv
<1>8. CASE split_off /\ Fixed
  <2>1. /\ row_count > 0 /\ row_count' = 0 /\ row_dirty' = {}
        /\ columns' = [i \in DOMAIN columns |-> Remainder(columns[i], row_count)]
        /\ UNCHANGED <<strict_error, StrictTypes>>
    BY <1>8, ConfigFixed DEF split_off, error_vars
  <2>2. /\ columns' \in Seq(Seq(Cells)) /\ Len(columns') = Len(columns)
    BY <2>1, RemainderFacts DEF TypeInv
  <2>3. \A i \in 1..Len(columns') : columns'[i] \in Seq(Cells)
    BY <2>2, ElementOfSeq
  <2>4. \A i \in 1..Len(columns') : Len(columns'[i]) \in Nat
    BY <2>3, LenProperties
  <2>5. backfill' \in {0, -1}
    BY <2>1 DEF backfill
  <2>6. \A i \in 1..Len(columns') : Len(columns'[i]) >= 0 /\ Len(columns'[i]) >= backfill' + 0
    BY <2>4, <2>5
  <2>7. Filled'
    BY <2>1, <2>6 DEF Filled, One
  <2> QED
    BY <1>1, <2>1, <2>6, <2>7 DEF FilledInv
<1>9. CASE finish /\ Fixed
  <2>1. /\ pc' = "finished" /\ strict_error' \in {strict_error, "none"}
        /\ UNCHANGED <<row_count, direct, StrictTypes>>
        /\ \/ UNCHANGED <<columns, row_dirty>>
           \/ columns' = Normalized /\ row_dirty' = {}
    BY <1>9, ConfigFixed DEF finish, buffer_vars
  <2>2. CASE UNCHANGED <<columns, row_dirty>>
    BY <2>1, <2>2 DEF FilledInv, Filled, Stable, backfill
  <2>3. CASE columns' = Normalized /\ row_dirty' = {}
    <3>1. /\ Len(columns') = Len(columns)
          /\ \A i \in 1..Len(columns) :
               /\ Len(columns'[i]) = IF Len(columns[i]) < row_count THEN Len(columns[i]) ELSE row_count
               /\ \A r \in 1..Len(columns'[i]) : columns'[i][r] = columns[i][r]
      BY <2>3, NormalizedFacts DEF TypeInv
    <3>2. Stable
      BY <1>1, <3>1 DEF Stable
    <3>3. ASSUME NEW i \in 1..Len(columns)
          PROVE  Len(columns'[i]) >= backfill
      <4>1. Len(columns[i]) >= backfill + One(i \in row_dirty)
        BY DEF FilledInv, Filled
      <4> QED
        BY <1>1, <3>1, <4>1 DEF One, backfill
    <3>4. backfill \in Int /\ backfill' = backfill
      BY <1>1, <2>1 DEF backfill
    <3>5. Filled'
      BY <2>3, <3>1, <3>3, <3>4 DEF Filled, One
    <3> QED
      BY <2>1, <3>2, <3>5 DEF FilledInv
  <2> QED
    BY <2>1, <2>2, <2>3
<1>10. CASE UNCHANGED vars
  <2>1. UNCHANGED <<pc, table_vars, direct, strict_error, StrictTypes>>
    BY <1>10, ConfigFixed DEF vars, buffer_vars, error_vars, Fixed
  <2> QED
    BY <2>1 DEF FilledInv, Filled, Stable, Refused, backfill, table_vars
<1> QED
  BY <1>2, <1>3, <1>4, <1>5, <1>6, <1>7, <1>8, <1>9, <1>10 DEF Next, Done

(* No step but split_off changes a cell of a committed row: a value put     *)
(* twice, an early commit, a row popped on reject, a column born late and a *)
(* refused call all leave the rows before alone.                            *)
THEOREM CommittedRowsStay ==
  ASSUME RefusalsLatch
  PROVE  Spec => CommittedStable
<1>1. Init => FilledInv
  <2> SUFFICES ASSUME Init PROVE FilledInv
    OBVIOUS
  <2>1. TypeInv /\ row_count = 0 /\ row_dirty = {} /\ direct = FALSE /\ strict_error = "none"
    BY InitType DEF Init
  <2>2. \A i \in 1..Len(columns) : Len(columns[i]) \in Nat
    BY <2>1, ColumnLens DEF TypeInv
  <2> QED
    BY <2>1, <2>2 DEF FilledInv, Filled, backfill, One
<1>2. ASSUME TypeInv, FilledInv, [Next]_vars
      PROVE  FilledInv' /\ (row_count' # 0 \/ row_count = 0 => Stable)
  BY <1>2, StepFilled
<1>3. ASSUME TypeInv, row_count' # 0 \/ row_count = 0 => Stable
      PROVE  row_count' # 0 \/ row_count = 0 =>
               \A i \in DOMAIN columns : \A r \in 1..row_count :
                 r \in DOMAIN columns[i] => columns'[i][r] = columns[i][r]
  BY <1>3, ColumnLens DEF Stable, TypeInv
<1>4. TypeInv /\ FilledInv /\ [Next]_vars =>
        [row_count' # 0 \/ row_count = 0 =>
           \A i \in DOMAIN columns : \A r \in 1..row_count :
             r \in DOMAIN columns[i] => columns'[i][r] = columns[i][r]]_vars
  BY <1>2, <1>3
<1>5. TypeInv /\ FilledInv /\ [Next]_vars => TypeInv' /\ FilledInv'
  BY <1>2, StepType
<1> QED
  BY <1>1, <1>4, <1>5, InitType, PTL DEF Spec, CommittedStable

-----------------------------------------------------------------------------
(* Columns of one length.                                                  *)

\* A decoder whose rows may be committed early sets a column once per row.  With
\* a duplicate field after an early commit the row's column would get two cells.
EarlyRowsUnique ==
  \A c \in Configs : CommitsEarly(c) => c.unique_fields

\* A column has exactly a cell for every row before the current one, and one more
\* if this row has set it.
Exact == \A i \in 1..Len(columns) : Len(columns[i]) = backfill + One(i \in row_dirty)

Buffering == HasFilter /\ buffer_worthwhile

\* The slots are columns of fields that the input has offered in this row.
Offered(slots) ==
  \A i \in slots : \E j \in 1..Len(row_in) : row_in[j].raw = column_order[i]

\* Inside a row: nothing is pushed while the row is buffered, the row that passed
\* early is counted, and under a plain plan every slot set was offered.
InRow ==
  /\ Exact
  /\ direct => row_count >= 1
  /\ Buffering /\ ~direct => row_dirty = {}
  /\ PlainPlan => Offered(row_dirty \cup DOMAIN fields)

\* Between rows every column is as long as the table; a builder that buffers has
\* learned no layout.
AlignInv ==
  NoError /\ pc # "finished" =>
    /\ Buffering => \A o \in Ordinals : ordinal_expect[o] = NoSlot
    /\ pc = "idle" => row_dirty = {} /\ \A i \in 1..Len(columns) : Len(columns[i]) = row_count
    /\ pc = "row" => InRow

LEMMA UniqueOfConfig ==
  ASSUME EarlyRowsUnique, config \in Configs,
         HasFilter, Api = "resolve_and_put", PlainPlan
  PROVE  UniqueFields
BY DEF EarlyRowsUnique, CommitsEarly, UniqueFields, HasFilter, Filter, Api, PlainPlan, field_map, drop_fields, schema_order

(* Under a plain plan a field's column has its name.                        *)
LEMMA PlainNames ==
  ASSUME PlainPlan, NEW raw \in Names
  PROVE  ren(raw) = raw /\ resolve_field(raw) = raw
<1>1. DOMAIN field_map = {} /\ drop_fields = {} /\ schema_order = <<>>
  BY DEF PlainPlan
<1>2. ren(raw) = raw
  BY <1>1 DEF ren
<1> QED
  BY <1>1, <1>2 DEF resolve_field

\* The columns keep their names.
NamesStay == \A i \in 1..Len(columns) : column_order'[i] = column_order[i]

\* All but the column of a field that is being put.
Besides(raw, slots, more) == \A i \in more : i \in slots \/ column_order'[i] = raw

\* Offered, in the next state.
OfferedNext(slots) ==
  \A i \in slots : \E j \in 1..Len(row_in') : row_in'[j].raw = column_order'[i]

(* A field is offered; what was offered before still is.                    *)
LEMMA OfferedStill ==
  ASSUME TypeInv, Fixed, NEW raw \in Names, NEW v \in Values, Offer(raw, v),
         NEW slots, slots \subseteq 1..Len(columns), Offered(slots), NamesStay,
         NEW more, Besides(raw, slots, more)
  PROVE  OfferedNext(more)
<1> USE DEF NamesStay, Besides, OfferedNext
<1>1. /\ Len(row_in) \in Nat /\ Len(row_in') = Len(row_in) + 1
      /\ \A j \in 1..Len(row_in) : row_in'[j] = row_in[j]
      /\ row_in'[Len(row_in')].raw = raw
  <2>1. Len(row_in) \in Nat
    BY LenProperties DEF TypeInv, InputType
  <2>2. /\ Len(row_in') = Len(row_in) + 1
        /\ \A j \in 1..Len(row_in) : row_in'[j] = row_in[j]
        /\ row_in'[Len(row_in')] = [raw |-> raw, value |-> v]
    BY OfferFacts
  <2> QED
    BY <2>1, <2>2
<1> TAKE i \in more
<1>2. CASE i \in slots
  <2>1. PICK j \in 1..Len(row_in) : row_in[j].raw = column_order[i]
    BY <1>2 DEF Offered
  <2>2. column_order'[i] = column_order[i]
    BY <1>2
  <2>3. j \in 1..Len(row_in') /\ row_in'[j] = row_in[j]
    BY <1>1
  <2> QED
    BY <2>1, <2>2, <2>3
<1>3. CASE column_order'[i] = raw
  <2>1. Len(row_in') \in 1..Len(row_in')
    BY <1>1
  <2> QED
    BY <1>1, <1>3, <2>1
<1> QED
  BY <1>2, <1>3

(* A column after ensure_column_idx has exactly the rows it has missed.     *)
LEMMA EnsuredExact ==
  ASSUME TableType, Exact, direct => row_count >= 1,
         NEW cols, NEW order, NEW slot, Ensured(cols, order, slot)
  PROVE  \A i \in 1..Len(cols) : Len(cols[i]) = backfill + One(i \in row_dirty)
<1> TAKE i \in 1..Len(cols)
<1>1. CASE i <= Len(columns)
  <2>1. i \in 1..Len(columns) /\ cols[i] = columns[i]
    BY <1>1, EnsuredColumns, ColumnLens
  <2> QED
    BY <2>1 DEF Exact
<1>2. CASE cols[i] = Backfilled /\ ~ (i <= Len(columns))
  <2>1. i \notin row_dirty
    BY <1>2, ColumnLens DEF TableType
  <2>2. row_count \in Nat /\ direct \in BOOLEAN
    BY DEF TableType
  <2>3. backfill \in Nat /\ Len(Backfilled) = backfill
    BY <2>2, BackfilledFacts DEF backfill
  <2> QED
    BY <1>2, <2>1, <2>3 DEF One
<1> QED
  BY <1>1, <1>2, EnsuredColumns

(* A value pushed into a column that the row has not set, or that no row    *)
(* committed early.                                                         *)
LEMMA PushesExact ==
  ASSUME TableType, Exact, direct => row_count >= 1,
         NEW cols, NEW order, NEW slot, NEW cell, Pushes(cols, order, slot, cell),
         direct => slot \notin row_dirty
  PROVE  Exact'
<1>1. /\ Ensured(cols, order, slot) /\ cell \in Cells /\ Len(columns') = Len(cols)
      /\ \A i \in 1..Len(cols) :
           columns'[i] = IF i = slot THEN PushCell(cols[i], row_count, cell) ELSE cols[i]
      /\ row_dirty' = row_dirty \cup {slot} /\ UNCHANGED <<row_count, direct>>
  BY DEF Pushes
<1>2. row_count \in Nat /\ direct \in BOOLEAN /\ backfill' = backfill
      /\ backfill = IF direct THEN row_count - 1 ELSE row_count
  BY <1>1 DEF TableType, backfill
<1> SUFFICES ASSUME NEW i \in 1..Len(cols)
             PROVE  Len(columns'[i]) = backfill + One(i \in row_dirty \cup {slot})
  BY <1>1, <1>2 DEF Exact
<1> DEFINE cells == cols[i]
<1>3. cells \in Seq(Cells) /\ Len(cells) = backfill + One(i \in row_dirty)
  BY <1>1, EnsuredColumns, EnsuredExact
<1> HIDE DEF cells
<1>4. CASE i = slot
  <2>1. columns'[i] = PushCell(cells, row_count, cell)
    BY <1>1, <1>4 DEF cells
  <2>2. PushedTo(cells, row_count, cell, columns'[i])
    BY <1>1, <1>2, <1>3, <2>1, PushCellFacts
  <2>3. Len(columns'[i]) = IF Len(cells) > row_count THEN Len(cells) ELSE Len(cells) + 1
    BY <2>2 DEF PushedTo
  <2>4. Len(cells) = backfill + One(i \in row_dirty)
    BY <1>3
  <2>5. CASE direct
    BY <1>2, <1>4, <2>3, <2>4, <2>5 DEF One
  <2>6. CASE ~direct
    BY <1>2, <1>4, <2>3, <2>4, <2>6 DEF One
  <2> QED
    BY <2>5, <2>6
<1>5. CASE i # slot
  BY <1>1, <1>3, <1>5 DEF One, cells
<1> QED
  BY <1>4, <1>5

(* A value buffered, or a row committed with it.                            *)
LEMMA BuffersExact ==
  ASSUME TableType, Exact, ~direct, row_dirty = {},
         NEW cols, NEW order, NEW slot, NEW values, Buffers(cols, order, slot, values)
  PROVE  Exact'
<1>1. Ensured(cols, order, slot) /\ \A i \in DOMAIN values : values[i] \in Values
  BY DEF Buffers
<1>2. row_count \in Nat /\ backfill = row_count
  BY DEF TableType, backfill
<1>3. \A i \in 1..Len(cols) : Len(cols[i]) = row_count /\ cols[i] \in Seq(Cells)
  BY <1>1, <1>2, EnsuredExact, EnsuredColumns DEF One
<1>4. CASE columns' = cols /\ UNCHANGED <<row_dirty, row_count, direct>>
  <2>1. \A i \in 1..Len(cols) : Len(cols[i]) = backfill + One(i \in row_dirty)
    BY <1>1, EnsuredExact
  <2> QED
    BY <1>4, <2>1 DEF Exact, backfill
<1>5. CASE /\ columns' = Drained(cols, order, values) /\ row_dirty' = row_dirty \cup DOMAIN values
           /\ row_count' = row_count + 1 /\ direct'
  <2>1. /\ Len(columns') = Len(cols)
        /\ \A i \in 1..Len(cols) :
             /\ i \in DOMAIN values =>
                  columns'[i] = PushCell(cols[i], row_count, Cell(order[i], values[i]))
             /\ i \notin DOMAIN values => columns'[i] = cols[i]
    <3>1. cols \in Seq(Seq(Cells))
      BY <1>1 DEF Ensured
    <3> QED
      BY <1>1, <1>2, <1>5, <3>1, DrainedFacts
  <2>2. backfill' = row_count
    BY <1>2, <1>5 DEF backfill
  <2> SUFFICES ASSUME NEW i \in 1..Len(cols)
               PROVE  Len(columns'[i]) = row_count + One(i \in DOMAIN values)
    BY <1>5, <2>1, <2>2 DEF Exact
  <2> DEFINE cells == cols[i]
  <2>3. cells \in Seq(Cells) /\ Len(cells) = row_count
    BY <1>3
  <2>4. CASE i \in DOMAIN values
    <3> DEFINE cell == Cell(order[i], values[i])
    <3>1. cell \in Cells /\ columns'[i] = PushCell(cells, row_count, cell)
      BY <1>1, <2>1, <2>4, CellType
    <3> HIDE DEF cell, cells
    <3>2. PushedTo(cells, row_count, cell, columns'[i])
      BY <1>2, <2>3, <3>1, PushCellFacts
    <3> QED
      BY <1>2, <2>3, <2>4, <3>2 DEF PushedTo, One
  <2>5. CASE i \notin DOMAIN values
    BY <1>2, <2>1, <2>3, <2>5 DEF One
  <2> QED
    BY <2>4, <2>5
<1> QED
  BY <1>4, <1>5 DEF Buffers

\* As many cells as rows, and one more in the columns that the row has set.
Even(cols, low, dirty) == \A i \in 1..Len(cols) : Len(cols[i]) = low + One(i \in dirty)

(* Null-filling the other columns makes them equally long.                  *)
LEMMA NullFillExact ==
  ASSUME NEW cols \in Seq(Seq(Cells)), NEW dirty, NEW low \in Int, Even(cols, low, dirty)
  PROVE  /\ Len(NullFill(cols, dirty)) = Len(cols)
         /\ \A i \in 1..Len(cols) : Len(NullFill(cols, dirty)[i]) = low + 1
<1> DEFINE new == NullFill(cols, dirty)
<1>1. /\ Len(new) = Len(cols)
      /\ \A i \in 1..Len(cols) : /\ i \in dirty => new[i] = cols[i]
                                 /\ i \notin dirty => new[i] = Append(cols[i], Null)
  BY NullFillFacts
<1> HIDE DEF new
<1>2. ASSUME NEW i \in 1..Len(cols)
      PROVE  Len(new[i]) = low + 1
  <2>1. CASE i \in dirty
    BY <1>1, <2>1 DEF One, Even
  <2>2. CASE i \notin dirty
    <3>1. Len(cols[i]) = low
      BY <2>2 DEF One, Even
    <3>2. cols[i] \in Seq(Cells) /\ Null \in Cells
      BY ElementOfSeq DEF Cells
    <3>3. Len(Append(cols[i], Null)) = Len(cols[i]) + 1
      BY <3>2, AppendProperties
    <3> QED
      BY <1>1, <2>2, <3>1, <3>3
  <2> QED
    BY <2>1, <2>2
<1> QED
  BY <1>1, <1>2 DEF new

(* The end of a row leaves every column as long as the table.               *)
LEMMA EndRowExact ==
  ASSUME TypeInv, InRow, end_row
  PROVE  \A i \in 1..Len(columns') : Len(columns'[i]) = row_count'
<1>1. /\ row_count \in Nat /\ direct \in BOOLEAN
      /\ direct => Buffering
  BY DEF TypeInv, TableType, BufferType, Buffering
<1>2. \A i \in 1..Len(columns) : Len(columns[i]) \in Nat /\ columns[i] \in Seq(Cells)
  BY ColumnLens DEF TypeInv
<1>3. columns \in Seq(Seq(Cells))
  BY DEF TypeInv, TableType
<1> DEFINE cols == NullFill(columns, row_dirty)
<1>5. /\ Len(cols) = Len(columns)
      /\ \A i \in 1..Len(columns) : Len(cols[i]) = backfill + 1
  <2>1. backfill \in Int
    BY <1>1 DEF backfill
  <2>2. Even(columns, backfill, row_dirty)
    BY DEF InRow, Exact, Even
  <2> QED
    BY <1>3, <2>1, <2>2, NullFillExact
<1>6. CASE ~direct /\ finish_row
  <2>1. \/ columns' = cols /\ row_count' = row_count + 1
        \/ columns' = Popped(cols) /\ row_count' = row_count + 0
    BY <1>6 DEF finish_row, Count, Popped
  <2>2. \A i \in 1..Len(columns) : Len(cols[i]) = row_count + 1
    BY <1>5, <1>6 DEF backfill
  <2>3. cols \in Seq(Seq(Cells))
    BY <1>3, NullFillFacts
  <2> HIDE DEF cols
  <2>4. CASE columns' = cols /\ row_count' = row_count + 1
    BY <1>5, <2>2, <2>4
  <2>5. CASE columns' = Popped(cols) /\ row_count' = row_count + 0
    <3>1. /\ Len(columns') = Len(cols)
          /\ \A i \in 1..Len(cols) : Len(cols[i]) > 0 => Len(columns'[i]) = Len(cols[i]) - 1
      BY <2>3, <2>5, PoppedFacts
    <3>2. row_count' = row_count
      BY <1>1, <2>5
    <3> QED
      BY <1>1, <1>5, <2>2, <3>1, <3>2
  <2> QED
    BY <2>1, <2>4, <2>5
<1>7. CASE direct /\ null_fill_missing
  <2>1. backfill = row_count - 1 /\ columns' = cols /\ row_count' = row_count
    BY <1>7 DEF backfill, null_fill_missing
  <2> HIDE DEF cols
  <2> QED
    BY <1>1, <1>5, <2>1
<1>8. CASE Buffering /\ ~direct /\ drain_buffered
  <2> DEFINE drained == Drained(columns, column_order, fields)
             dirty == row_dirty \cup DOMAIN fields
             new == NullFill(drained, dirty)
  <2>1. \/ columns' = new /\ row_count' = row_count + 1
        \/ columns' = columns /\ row_count' = row_count + 0
    BY <1>8 DEF drain_buffered, Count
  <2>2. /\ row_dirty = {}
        /\ \A i \in 1..Len(columns) : Len(columns[i]) = row_count
    BY <1>1, <1>8 DEF InRow, Exact, backfill, One
  <2>3. CASE columns' = new /\ row_count' = row_count + 1
    <3>1. \A i \in DOMAIN fields : fields[i] \in Values
      BY DEF TypeInv, BufferType
    <3>2. /\ drained \in Seq(Seq(Cells)) /\ Len(drained) = Len(columns)
          /\ \A i \in 1..Len(columns) :
               /\ i \in DOMAIN fields =>
                    drained[i] = PushCell(columns[i], row_count, Cell(column_order[i], fields[i]))
               /\ i \notin DOMAIN fields => drained[i] = columns[i]
      BY <1>1, <1>3, <3>1, DrainedFacts
    <3> HIDE DEF drained
    <3>3. ASSUME NEW i \in 1..Len(columns)
          PROVE  Len(drained[i]) = row_count + One(i \in dirty)
      <4> DEFINE cells == columns[i]
      <4>1. cells \in Seq(Cells) /\ Len(cells) = row_count
        BY <1>2, <2>2
      <4>2. CASE i \in DOMAIN fields
        <5> DEFINE cell == Cell(column_order[i], fields[i])
        <5>1. cell \in Cells /\ drained[i] = PushCell(cells, row_count, cell)
          BY <3>1, <3>2, <4>2, CellType
        <5> HIDE DEF cell, cells
        <5>2. PushedTo(cells, row_count, cell, drained[i])
          BY <1>1, <4>1, <5>1, PushCellFacts
        <5> QED
          BY <1>1, <4>1, <4>2, <5>2 DEF PushedTo, One
      <4>3. CASE i \notin DOMAIN fields
        BY <1>1, <2>2, <3>2, <4>1, <4>3 DEF One
      <4> QED
        BY <4>2, <4>3
    <3> HIDE DEF dirty
    <3>4. Len(new) = Len(drained) /\ \A i \in 1..Len(drained) : Len(new[i]) = row_count + 1
      <4>1. row_count \in Int /\ drained \in Seq(Seq(Cells))
        BY <1>1, <3>2
      <4>2. Even(drained, row_count, dirty)
        BY <3>2, <3>3 DEF Even
      <4> QED
        BY <4>1, <4>2, NullFillExact
    <3> HIDE DEF new
    <3> QED
      BY <2>3, <3>2, <3>4
  <2>4. CASE columns' = columns /\ row_count' = row_count + 0
    BY <1>1, <2>2, <2>4
  <2> QED
    BY <2>1, <2>3, <2>4
<1> QED
  BY <1>1, <1>6, <1>7, <1>8 DEF end_row, Buffering

(* A put: the layout, and the slots it sets.                                *)
LEMMA PutAligned ==
  ASSUME EarlyRowsUnique, TypeInv, AlignInv, Fixed, NEW raw \in Names, NEW v \in Values,
         PutField(raw, v), NoError'
  PROVE  AlignInv'
<1> DEFINE col == resolve_field(raw)
<1>1. /\ Offer(raw, v) /\ pc = "row" /\ pc' = "row" /\ Len(row_in) < MaxFields
      /\ UNCHANGED buffer_worthwhile
      /\ UniqueFields => \A j \in DOMAIN row_in : ren(row_in[j].raw) # ren(raw)
  BY DEF PutField, Offer
<1>2. /\ unknown_error => unknown_error'
      /\ strict_error' = "none" => strict_error = "none"
  BY DEF PutField, PushField, BufferField, record_strict_violation
<1>3. NoError
  BY <1>2 DEF NoError
<1>4. /\ Buffering => \A o \in Ordinals : ordinal_expect[o] = NoSlot
      /\ InRow
  BY <1>1, <1>3 DEF AlignInv
<1>5. \A o \in Ordinals : layout_broken[o] \in {ordinal_expect[o], NoSlot}
  BY <1>1, BrokenLayout
<1>6. UNCHANGED <<HasFilter, PlainPlan, Ordinals>>
  BY ConfigFixed
<1>7. /\ col # NoName => col \in Names
      /\ PlainPlan => col = raw
  BY ResolvedNames, PlainNames DEF TypeInv
<1>8. /\ row_dirty \subseteq 1..Len(columns) /\ DOMAIN fields \subseteq 1..Len(columns)
      /\ DOMAIN row_in = 1..Len(row_in) /\ row_in \in Seq([raw : Names, value : Values])
  BY LenProperties DEF TypeInv, TableType, BufferType, InputType
<1> HIDE DEF col
<1>9. CASE col = NoName
  <2>1. UNCHANGED <<table_vars, fields, direct>> /\ ordinal_expect' = layout_broken
    BY <1>9 DEF PutField, col, buffer_vars
  <2>2. Exact'
    BY <1>4, <2>1 DEF InRow, Exact, table_vars, backfill
  <2>3. PlainPlan => Offered(row_dirty \cup DOMAIN fields)'
    <3> SUFFICES ASSUME PlainPlan PROVE Offered(row_dirty \cup DOMAIN fields)'
      OBVIOUS
    <3> DEFINE slots == row_dirty \cup DOMAIN fields
    <3>1. slots \subseteq 1..Len(columns) /\ Offered(slots)
      BY <1>4, <1>8 DEF InRow
    <3>2. NamesStay /\ Besides(raw, slots, slots)
      BY <2>1 DEF table_vars, NamesStay, Besides
    <3>3. slots' = slots
      BY <2>1 DEF table_vars
    <3> HIDE DEF slots
    <3>4. OfferedNext(slots)
      BY <1>1, <3>1, <3>2, OfferedStill
    <3>5. Offered(slots)'
      BY <3>3, <3>4 DEF Offered, OfferedNext
    <3> QED
      BY <3>5 DEF slots
  <2> QED
    BY <1>1, <1>4, <1>5, <1>6, <2>1, <2>2, <2>3 DEF AlignInv, InRow, Buffering, table_vars
<1>10. CASE col # NoName /\ PushesDirectly /\ PushField(col, v)
  <2> DEFINE slot == ensure_column_idx(col)
  <2>1. ~unknown(col)
    BY <1>10 DEF PushField, NoError
  <2>2. /\ Pushes(WithColumn(col), WithName(col), slot, Cell(col, v))
        /\ WithName(col)[slot] = col
    BY <1>7, <1>10, <2>1, PushFieldPushes, EnsureColumn DEF TypeInv
  <2>3. /\ row_count' = row_count /\ row_dirty' = row_dirty \cup {slot}
        /\ UNCHANGED <<fields, direct>> /\ column_order' = WithName(col)
        /\ row_count # 0 => ordinal_expect' = layout_broken
    BY <1>10, <2>1 DEF PushField, buffer_vars
  <2>4. Buffering => direct
    BY <1>10 DEF PushesDirectly, Buffering
  <2>5. direct => row_count >= 1 /\ row_count # 0
    BY <1>4 DEF InRow, TypeInv, TableType
  <2>6. Ensured(WithColumn(col), WithName(col), slot)
    BY <2>2 DEF Pushes
  <2>7. NamesStay
    BY <2>3, <2>6 DEF Ensured, NamesStay
  <2> HIDE DEF slot
  <2>8. direct => slot \notin row_dirty
    <3> SUFFICES ASSUME direct, slot \in row_dirty PROVE FALSE
      OBVIOUS
    <3>1. HasFilter /\ Api = "resolve_and_put" /\ PlainPlan
      BY DEF TypeInv, BufferType
    <3>2. UniqueFields
      BY <3>1, UniqueOfConfig DEF TypeInv
    <3>3. column_order[slot] = raw
      BY <1>7, <1>8, <2>2, <2>3, <2>7, <3>1 DEF NamesStay
    <3>4. PICK j \in 1..Len(row_in) : row_in[j].raw = raw
      BY <1>4, <3>1, <3>3 DEF InRow, Offered
    <3> QED
      BY <1>1, <1>8, <3>2, <3>4
  <2>9. Exact'
    BY <1>4, <2>2, <2>5, <2>8, PushesExact DEF TypeInv, InRow
  <2>10. PlainPlan => Offered(row_dirty \cup DOMAIN fields)'
    <3> SUFFICES ASSUME PlainPlan PROVE Offered(row_dirty \cup DOMAIN fields)'
      OBVIOUS
    <3> DEFINE slots == row_dirty \cup DOMAIN fields
               more == slots \cup {slot}
    <3>1. slots \subseteq 1..Len(columns) /\ Offered(slots)
      BY <1>4, <1>8 DEF InRow
    <3>2. slots' = more
      BY <2>3
    <3>3. column_order'[slot] = raw
      BY <1>7, <2>2, <2>3
    <3>4. Besides(raw, slots, more)
      BY <3>3 DEF Besides
    <3> HIDE DEF slots, more
    <3>5. OfferedNext(more)
      BY <1>1, <2>7, <3>1, <3>4, OfferedStill
    <3>6. Offered(slots)'
      BY <3>2, <3>5 DEF Offered, OfferedNext
    <3> QED
      BY <3>6 DEF slots
  <2> QED
    BY <1>1, <1>4, <1>5, <1>6, <2>3, <2>4, <2>5, <2>9, <2>10 DEF AlignInv, InRow, Buffering
<1>11. CASE col # NoName /\ ~PushesDirectly /\ BufferField(col, v)
  <2> DEFINE slot == ensure_column_idx(col)
             values == [i \in DOMAIN fields \cup {slot} |-> IF i = slot THEN v ELSE fields[i]]
  <2>1. ~unknown(col)
    BY <1>3, <1>11 DEF BufferField, NoError
  <2>2. Buffering /\ ~direct
    BY <1>11 DEF PushesDirectly, Buffering
  <2>3. /\ Buffers(WithColumn(col), WithName(col), slot, values)
        /\ WithName(col)[slot] = col
    BY <1>7, <1>11, <2>1, <2>2, BufferFieldBuffers, EnsureColumn DEF TypeInv, Buffering
  <2>4. ordinal_expect' = layout_broken
    BY <1>11 DEF BufferField
  <2>5. row_dirty = {}
    BY <1>4, <2>2 DEF InRow
  <2> HIDE DEF slot, values
  <2>6. Exact'
    BY <1>4, <2>2, <2>3, <2>5, BuffersExact DEF TypeInv, InRow
  <2>7. /\ column_order' = WithName(col) /\ DOMAIN values = DOMAIN fields \cup {slot}
        /\ \/ fields' = values /\ UNCHANGED <<row_dirty, row_count, direct>>
           \/ fields' = <<>> /\ row_dirty' = row_dirty \cup DOMAIN values
              /\ row_count' = row_count + 1 /\ direct'
    BY <2>3 DEF Buffers
  <2>8. Ensured(WithColumn(col), WithName(col), slot)
    BY <2>3 DEF Buffers
  <2>9. NamesStay
    BY <2>7, <2>8 DEF Ensured, NamesStay
  <2>10. row_dirty' \cup DOMAIN fields' = DOMAIN fields \cup {slot}
    <3>1. DOMAIN <<>> = {}
      OBVIOUS
    <3> QED
      BY <2>5, <2>7, <3>1
  <2>11. PlainPlan => Offered(row_dirty \cup DOMAIN fields)'
    <3> SUFFICES ASSUME PlainPlan PROVE Offered(row_dirty \cup DOMAIN fields)'
      OBVIOUS
    <3> DEFINE slots == row_dirty \cup DOMAIN fields
               more == slots \cup {slot}
    <3>1. slots \subseteq 1..Len(columns) /\ Offered(slots)
      BY <1>4, <1>8 DEF InRow
    <3>2. slots' = more
      BY <2>5, <2>10
    <3>3. column_order'[slot] = raw
      BY <1>7, <2>3, <2>7
    <3>4. Besides(raw, slots, more)
      BY <3>3 DEF Besides
    <3> HIDE DEF slots, more
    <3>5. OfferedNext(more)
      BY <1>1, <2>9, <3>1, <3>4, OfferedStill
    <3>6. Offered(slots)'
      BY <3>2, <3>5 DEF Offered, OfferedNext
    <3> QED
      BY <3>6 DEF slots
  <2>12. direct' => row_count' >= 1
    <3>1. row_count \in Nat
      BY DEF TypeInv, TableType
    <3>2. CASE UNCHANGED direct
      BY <2>2, <3>2
    <3>3. CASE row_count' = row_count + 1
      BY <3>1, <3>3
    <3> QED
      BY <2>7, <3>2, <3>3
  <2>13. ~direct' => row_dirty' = {}
    BY <2>5, <2>7
  <2> QED
    BY <1>1, <1>4, <1>5, <1>6, <2>4, <2>6, <2>11, <2>12, <2>13 DEF AlignInv, InRow, Buffering
<1> QED
  BY <1>9, <1>10, <1>11 DEF PutField, col

(* A put at the slot the builder has learned: no row is buffered then.      *)
LEMMA PutFieldAtAligned ==
  ASSUME TypeInv, AlignInv, Fixed, NEW raw \in Names, NEW v \in Values,
         PutFieldAt(raw, v), NoError'
  PROVE  AlignInv'
<1>1. /\ Offer(raw, v) /\ pc = "row" /\ pc' = "row"
      /\ UNCHANGED <<fields, direct, buffer_worthwhile, ordinal_expect, unknown_error>>
      /\ ordinal \in Ordinals
  <2>1. Offer(raw, v)
    BY DEF PutFieldAt
  <2>2. ordinal \in Ordinals
    BY <2>1, OfferFacts, BrokenLayout
  <2> QED
    BY <2>1, <2>2 DEF PutFieldAt, Offer, buffer_vars, layout_vars
<1>2. strict_error' = "none" => strict_error = "none"
  BY DEF PutFieldAt, record_strict_violation
<1>3. NoError
  BY <1>1, <1>2 DEF NoError
<1>4. /\ Buffering => \A o \in Ordinals : ordinal_expect[o] = NoSlot
      /\ InRow
  BY <1>1, <1>3 DEF AlignInv
<1>5. UNCHANGED <<HasFilter, PlainPlan, Ordinals>>
  BY ConfigFixed
<1>6. PICK slot \in 1..Len(columns) :
        /\ column_order[slot] = raw
        /\ ordinal_expect[ordinal] # NoSlot
        /\ Pushes(columns, column_order, slot, Cell(raw, v))
  BY PutFieldAtPushes
<1>7. ~Buffering /\ ~direct
  BY <1>1, <1>4, <1>6 DEF TypeInv, BufferType, Buffering
<1>8. Exact'
  BY <1>4, <1>6, <1>7, PushesExact DEF TypeInv, InRow
<1>9. /\ row_dirty' = row_dirty \cup {slot} /\ column_order' = column_order
      /\ UNCHANGED row_count
  BY <1>6 DEF Pushes
<1>10. PlainPlan => Offered(row_dirty \cup DOMAIN fields)'
  <2> SUFFICES ASSUME PlainPlan PROVE Offered(row_dirty \cup DOMAIN fields)'
    OBVIOUS
  <2> DEFINE slots == row_dirty \cup DOMAIN fields
             more == slots \cup {slot}
  <2>1. slots \subseteq 1..Len(columns) /\ Offered(slots)
    <3>1. row_dirty \subseteq 1..Len(columns) /\ DOMAIN fields \subseteq 1..Len(columns)
      BY LenProperties DEF TypeInv, TableType, BufferType
    <3> QED
      BY <1>4, <3>1 DEF InRow
  <2>2. slots' = more
    BY <1>1, <1>9
  <2>3. NamesStay /\ Besides(raw, slots, more)
    BY <1>6, <1>9 DEF NamesStay, Besides
  <2> HIDE DEF slots, more
  <2>4. OfferedNext(more)
    BY <1>1, <2>1, <2>3, OfferedStill
  <2>5. Offered(slots)'
    BY <2>2, <2>4 DEF Offered, OfferedNext
  <2> QED
    BY <2>5 DEF slots
<1> QED
  BY <1>1, <1>4, <1>5, <1>7, <1>8, <1>9, <1>10 DEF AlignInv, InRow, Buffering

(* A field that the decoder jumps over changes nothing but the input.       *)
LEMMA SkipAligned ==
  ASSUME TypeInv, AlignInv, Fixed, NEW raw \in Names, NEW v \in Values, SkipField(raw, v)
  PROVE  AlignInv'
<1>1. /\ Offer(raw, v) /\ pc = "row" /\ pc' = "row"
      /\ UNCHANGED <<columns, column_order, row_count, row_dirty, fields, direct,
                     buffer_worthwhile, ordinal_expect, unknown_error, strict_error>>
  BY DEF SkipField, Offer, table_vars, buffer_vars, layout_vars, error_vars
<1>2. UNCHANGED <<HasFilter, PlainPlan, Ordinals>>
  BY ConfigFixed
<1>3. PlainPlan /\ Offered(row_dirty \cup DOMAIN fields) => Offered(row_dirty \cup DOMAIN fields)'
  <2> SUFFICES ASSUME Offered(row_dirty \cup DOMAIN fields)
               PROVE  Offered(row_dirty \cup DOMAIN fields)'
    OBVIOUS
  <2> DEFINE slots == row_dirty \cup DOMAIN fields
  <2>1. slots \subseteq 1..Len(columns) /\ Offered(slots)
    BY LenProperties DEF TypeInv, TableType, BufferType
  <2>2. NamesStay /\ Besides(raw, slots, slots)
    BY <1>1 DEF NamesStay, Besides
  <2>3. slots' = slots
    BY <1>1
  <2> HIDE DEF slots
  <2>4. OfferedNext(slots)
    BY <1>1, <2>1, <2>2, OfferedStill
  <2>5. Offered(slots)'
    BY <2>3, <2>4 DEF Offered, OfferedNext
  <2> QED
    BY <2>5 DEF slots
<1>4. Exact' = Exact
  BY <1>1 DEF Exact, backfill
<1> QED
  BY <1>1, <1>2, <1>3, <1>4 DEF AlignInv, InRow, Buffering, NoError

(* Between rows: a row begins, or the table is split off.                   *)
LEMMA BeginAligned ==
  ASSUME TypeInv, AlignInv, Fixed, begin_row
  PROVE  AlignInv'
<1>1. /\ pc = "idle" /\ pc' = "row" /\ direct' = FALSE /\ fields' = <<>>
      /\ buffer_worthwhile' => buffer_worthwhile
      /\ UNCHANGED <<columns, column_order, row_count, row_dirty, ordinal_expect,
                     unknown_error, strict_error>>
  BY DEF begin_row, table_vars, error_vars
<1>2. UNCHANGED <<HasFilter, PlainPlan, Ordinals>>
  BY ConfigFixed
<1> SUFFICES ASSUME NoError
             PROVE  /\ Buffering => \A o \in Ordinals : ordinal_expect[o] = NoSlot
                    /\ InRow'
  BY <1>1, <1>2 DEF AlignInv, NoError, Buffering
<1>3. /\ Buffering => \A o \in Ordinals : ordinal_expect[o] = NoSlot
      /\ row_dirty = {} /\ \A i \in 1..Len(columns) : Len(columns[i]) = row_count
  BY <1>1 DEF AlignInv
<1>4. backfill' = row_count /\ row_count \in Nat
  BY <1>1 DEF backfill, TypeInv, TableType
<1>5. Exact'
  BY <1>1, <1>3, <1>4 DEF Exact, One
<1>6. Offered(row_dirty \cup DOMAIN fields)'
  <2>1. row_dirty' = {} /\ DOMAIN fields' = {}
    BY <1>1, <1>3
  <2> QED
    BY <2>1 DEF Offered
<1> QED
  BY <1>1, <1>3, <1>5, <1>6 DEF InRow

LEMMA SplitAligned ==
  ASSUME TypeInv, AlignInv, Fixed, split_off
  PROVE  AlignInv'
<1>1. /\ pc = "idle" /\ pc' = "idle" /\ row_dirty' = {} /\ row_count' = 0
      /\ columns' = [i \in DOMAIN columns |-> Remainder(columns[i], row_count)]
      /\ UNCHANGED <<buffer_worthwhile, ordinal_expect, unknown_error, strict_error>>
  BY DEF split_off, error_vars, layout_vars
<1>2. UNCHANGED <<HasFilter, Ordinals>>
  BY ConfigFixed
<1> SUFFICES ASSUME NoError
             PROVE  /\ Buffering => \A o \in Ordinals : ordinal_expect[o] = NoSlot
                    /\ \A i \in 1..Len(columns') : Len(columns'[i]) = 0
  BY <1>1, <1>2 DEF AlignInv, NoError, Buffering
<1>3. /\ Buffering => \A o \in Ordinals : ordinal_expect[o] = NoSlot
      /\ \A i \in 1..Len(columns) : Len(columns[i]) = row_count
  BY <1>1 DEF AlignInv
<1> DEFINE new == [i \in DOMAIN columns |-> Remainder(columns[i], row_count)]
<1>4. /\ Len(new) = Len(columns) /\ row_count \in Nat
      /\ \A i \in 1..Len(columns) :
           Len(columns[i]) >= row_count => Len(new[i]) = Len(columns[i]) - row_count
  BY LenProperties, RemainderFacts DEF TypeInv, TableType
<1> HIDE DEF new
<1>5. columns' = new
  BY <1>1 DEF new
<1> QED
  BY <1>3, <1>4, <1>5

(* The end of a row.                                                        *)
LEMMA EndAligned ==
  ASSUME TypeInv, AlignInv, Fixed, end_row
  PROVE  AlignInv'
<1>1. /\ pc = "row" /\ pc' = "idle"
      /\ UNCHANGED <<buffer_worthwhile, ordinal_expect, unknown_error, strict_error>>
  BY DEF end_row, RowEnds, error_vars, layout_vars
<1>2. row_dirty' = {}
  BY DEF end_row, finish_row, null_fill_missing, drain_buffered
<1>3. UNCHANGED <<HasFilter, Ordinals>>
  BY ConfigFixed
<1> SUFFICES ASSUME NoError
             PROVE  /\ Buffering => \A o \in Ordinals : ordinal_expect[o] = NoSlot
                    /\ \A i \in 1..Len(columns') : Len(columns'[i]) = row_count'
  BY <1>1, <1>2, <1>3 DEF AlignInv, NoError, Buffering
<1>4. /\ Buffering => \A o \in Ordinals : ordinal_expect[o] = NoSlot
      /\ InRow
  BY <1>1 DEF AlignInv
<1> QED
  BY <1>4, EndRowExact

LEMMA StepAligned ==
  ASSUME EarlyRowsUnique, TypeInv, AlignInv, [Next]_vars
  PROVE  AlignInv'
<1> SUFFICES ASSUME NoError' PROVE AlignInv'
  BY DEF AlignInv
<1>1. CASE begin_row /\ Fixed
  BY <1>1, BeginAligned
<1>2. ASSUME NEW raw \in Names, NEW v \in Values, PutField(raw, v) /\ Fixed
      PROVE  AlignInv'
  BY <1>2, PutAligned
<1>3. ASSUME NEW raw \in Names, NEW v \in Values, PutFieldAt(raw, v) /\ Fixed
      PROVE  AlignInv'
  BY <1>3, PutFieldAtAligned
<1>4. ASSUME NEW raw \in Names, NEW v \in Values, SkipField(raw, v) /\ Fixed
      PROVE  AlignInv'
  BY <1>4, SkipAligned
<1>5. CASE end_row /\ Fixed
  BY <1>5, EndAligned
<1>6. CASE Refuse /\ Fixed
  BY <1>6 DEF Refuse, NoError
<1>7. CASE split_off /\ Fixed
  BY <1>7, SplitAligned
<1>8. CASE finish /\ Fixed
  BY <1>8 DEF finish, AlignInv
<1>9. CASE UNCHANGED vars
  <2>1. UNCHANGED <<pc, columns, column_order, row_count, row_dirty, fields, direct, row_in,
                    buffer_worthwhile, ordinal_expect, unknown_error, strict_error, config>>
    BY <1>9 DEF vars, table_vars, buffer_vars, layout_vars, error_vars, input_vars
  <2>2. UNCHANGED <<HasFilter, PlainPlan, Ordinals>>
    BY <2>1, ConfigFixed DEF Fixed
  <2> QED
    BY <2>1, <2>2 DEF AlignInv, InRow, Exact, backfill, Offered, Buffering, NoError
<1> QED
  BY <1>1, <1>2, <1>3, <1>4, <1>5, <1>6, <1>7, <1>8, <1>9 DEF Next, Done

LEMMA InitAligned == Init => AlignInv
<1> SUFFICES ASSUME Init PROVE AlignInv
  OBVIOUS
<1>1. /\ pc = "idle" /\ row_dirty = {} /\ row_count = 0 /\ columns = [i \in DOMAIN initial_order |-> <<>>]
      /\ ordinal_expect = [o \in Ordinals |-> NoSlot]
  BY DEF Init
<1>2. \A i \in 1..Len(columns) : Len(columns[i]) = 0
  <2>1. DOMAIN columns = 1..Len(columns)
    BY InitType, LenProperties DEF TypeInv, TableType
  <2> QED
    BY <1>1, <2>1
<1> QED
  BY <1>1, <1>2 DEF AlignInv

(* Between rows every column has exactly one cell per committed row: pushed *)
(* or buffered, committed early or popped, null-filled or backfilled        *)
(* (finish_row, drain_buffered, null_fill_missing, backfill_rows).  A       *)
(* decoder whose rows can pass early must not set a column twice in a row.  *)
THEOREM ColumnsAligned ==
  ASSUME EarlyRowsUnique
  PROVE  Spec => []Aligned
<1>1. TypeInv /\ AlignInv => Aligned
  BY LenProperties DEF AlignInv, Aligned, TypeInv, TableType
<1>2. TypeInv /\ AlignInv /\ [Next]_vars => TypeInv' /\ AlignInv'
  BY StepType, StepAligned
<1> QED
  BY <1>1, <1>2, InitType, InitAligned, PTL DEF Spec

-----------------------------------------------------------------------------
(* Every row is counted.                                                    *)

\* A row that passed early is counted before it ends.
AlreadyCounted == pc = "row" /\ direct

\* Until an error is recorded the counts are those of the rows ended and of the
\* row that passed early; only a buffering builder lets a row pass early.
CountInv ==
  /\ ended \in Nat /\ reported \in Nat /\ rows_accepted \in Nat /\ rows_rejected \in Nat
  /\ strict_error = "none" /\ pc # "finished" =>
       reported + rows_accepted + rows_rejected = ended + (IF AlreadyCounted THEN 1 ELSE 0)
  /\ strict_error = "none" /\ AlreadyCounted => HasFilter /\ buffer_worthwhile

(* A put changes no count, unless the row passes with it.                   *)
LEMMA PutCounts ==
  ASSUME CountInv, NEW raw, NEW v, PutField(raw, v), UNCHANGED config
  PROVE  CountInv'
<1> DEFINE col == resolve_field(raw)
<1>1. /\ pc = "row" /\ UNCHANGED <<pc, buffer_worthwhile, ended, reported, HasFilter>>
  BY DEF PutField, Offer, output_vars, HasFilter, Filter
<1>2. strict_error' = "none" => strict_error = "none"
  BY DEF PutField, PushField, BufferField, record_strict_violation, table_vars
<1>3. CASE col = NoName \/ PushesDirectly
  <2>1. UNCHANGED <<direct, rows_accepted, rows_rejected>>
    BY <1>3 DEF PutField, PushField, buffer_vars, count_vars
  <2> QED
    BY <1>1, <1>2, <2>1 DEF CountInv, AlreadyCounted
<1>4. CASE col # NoName /\ ~PushesDirectly
  <2>1. HasFilter /\ buffer_worthwhile /\ ~direct
    BY <1>4 DEF PushesDirectly
  <2>2. /\ UNCHANGED rows_rejected
        /\ \/ ~direct' /\ UNCHANGED rows_accepted
           \/ direct' /\ rows_accepted' = rows_accepted + 1
    <3>1. BufferField(col, v)
      BY <1>4 DEF PutField
    <3>2. \/ UNCHANGED <<direct, rows_accepted>>
          \/ \E commit : /\ direct' = (direct \/ commit)
                         /\ rows_accepted' = IF commit THEN rows_accepted + 1 ELSE rows_accepted
      BY <3>1 DEF BufferField, buffer_vars
    <3>3. UNCHANGED rows_rejected
      BY <3>1 DEF BufferField
    <3>4. CASE UNCHANGED <<direct, rows_accepted>>
      BY <2>1, <3>3, <3>4
    <3>5. ASSUME NEW commit,
                 direct' = (direct \/ commit),
                 rows_accepted' = IF commit THEN rows_accepted + 1 ELSE rows_accepted
          PROVE  \/ ~direct' /\ UNCHANGED rows_accepted
                 \/ direct' /\ rows_accepted' = rows_accepted + 1
      BY <2>1, <3>5
    <3> QED
      BY <3>2, <3>3, <3>4, <3>5
  <2> QED
    BY <1>1, <1>2, <2>1, <2>2 DEF CountInv, AlreadyCounted
<1> QED
  BY <1>3, <1>4

(* The end of a row counts it, unless it passed early.                      *)
LEMMA EndCounts ==
  ASSUME CountInv, end_row, UNCHANGED config
  PROVE  CountInv'
<1>1. /\ pc = "row" /\ pc' = "idle" /\ ended' = ended + 1
      /\ UNCHANGED <<strict_error, reported>>
  BY DEF end_row, RowEnds, error_vars, output_vars
<1>2. ASSUME NEW keep, Count(keep)
      PROVE  /\ rows_accepted' + rows_rejected' = rows_accepted + rows_rejected + 1
             /\ rows_accepted' \in Nat /\ rows_rejected' \in Nat
  BY <1>2 DEF Count, CountInv
<1>3. CASE (~HasFilter \/ ~buffer_worthwhile) /\ finish_row
  BY <1>1, <1>2, <1>3 DEF finish_row, CountInv, AlreadyCounted
<1>4. CASE HasFilter /\ buffer_worthwhile /\ direct /\ null_fill_missing
  BY <1>1, <1>4 DEF null_fill_missing, count_vars, CountInv, AlreadyCounted
<1>5. CASE HasFilter /\ buffer_worthwhile /\ ~direct /\ drain_buffered
  BY <1>1, <1>2, <1>5 DEF drain_buffered, CountInv, AlreadyCounted
<1> QED
  BY <1>3, <1>4, <1>5 DEF end_row

LEMMA StepCounts ==
  ASSUME CountInv, [Next]_vars
  PROVE  CountInv'
<1> USE DEF CountInv, AlreadyCounted, Fixed
<1>1. CASE begin_row /\ Fixed
  BY <1>1 DEF begin_row, error_vars, count_vars, output_vars
<1>2. ASSUME NEW raw \in Names, NEW v \in Values, PutField(raw, v) /\ Fixed
      PROVE  CountInv'
  BY <1>2, PutCounts
<1>3. ASSUME NEW raw \in Names, NEW v \in Values, PutFieldAt(raw, v) /\ Fixed
      PROVE  CountInv'
  BY <1>3 DEF PutFieldAt, Offer, record_strict_violation, buffer_vars, count_vars, output_vars,
              HasFilter, Filter
<1>4. ASSUME NEW raw \in Names, NEW v \in Values, SkipField(raw, v) /\ Fixed
      PROVE  CountInv'
  BY <1>4 DEF SkipField, Offer, buffer_vars, error_vars, count_vars, output_vars, HasFilter, Filter
<1>5. CASE end_row /\ Fixed
  BY <1>5, EndCounts
<1>6. CASE Refuse /\ Fixed
  BY <1>6 DEF Refuse, count_vars, output_vars
<1>7. CASE split_off /\ Fixed
  BY <1>7 DEF split_off, error_vars, buffer_vars
<1>8. CASE finish /\ Fixed
  BY <1>8 DEF finish, count_vars, input_vars
<1>9. CASE UNCHANGED vars
  BY <1>9 DEF vars, buffer_vars, error_vars, count_vars, output_vars, input_vars, HasFilter, Filter
<1> QED
  BY <1>1, <1>2, <1>3, <1>4, <1>5, <1>6, <1>7, <1>8, <1>9 DEF Next, Done

(* Every ended row is counted once, as accepted or as rejected, whichever   *)
(* path it took through the builder and however batches are split off       *)
(* (rows_accepted and rows_rejected of the builder).                        *)
THEOREM EveryRowCounted == Spec => []RowsAccounted
<1>1. Init => CountInv
  BY DEF Init, CountInv, AlreadyCounted
<1>2. CountInv => RowsAccounted
  BY DEF CountInv, RowsAccounted, AlreadyCounted, NoError
<1>3. CountInv /\ [Next]_vars => CountInv'
  BY StepCounts
<1> QED
  BY <1>1, <1>2, <1>3, PTL DEF Spec

-----------------------------------------------------------------------------
(* The table is exact (TableExact): the committed rows are the rows of the *)
(* input that satisfy the filter, each with the last value of each kept    *)
(* column.                                                                 *)

-----------------------------------------------------------------------------
(* ExactConfig, of the configuration in use.                                *)

\* A decision can fall before the row has ended.
DecidesEarly == HasFilter /\ (ShortCircuits \/ (Api = "resolve_and_put" /\ PlainPlan))

\* ReadsAlike, of a leaf of the configuration in use.
Alike(leaf) ==
  LET cols == {ren(field) : field \in ToSet(leaf.fields)}
      texts == IF leaf.op = "CompareLiteral" THEN {leaf.literal}
               ELSE IF leaf.op = "Compare" THEN {} ELSE Values
  IN /\ leaf.op = "Compare" /\ (\A col \in cols : column_type(col) \in TextTypes) =>
          /\ \A a, b \in cols : column_type(a) = column_type(b)
          /\ cols \cap DOMAIN field_types = {}
     /\ leaf.op = "CompareLiteral" => \A col \in cols :
          /\ column_type(col) \in TextTypes \cup ConvertedTypes
          /\ column_type(col) = "Boolean" =>
               leaf.literal \notin {"True", "TRUE", "False", "FALSE"}
     /\ \A col \in cols : column_type(col) \in NumberTypes => \A text \in texts :
          text \in Unparsable[column_type(col)] <=> text \in StdUnparsable[column_type(col)]

LEMMA ExactFacts ==
  ASSUME ExactConfigs, config \in Configs
  PROVE  /\ \A i \in Leaves : Alike(Filter[i])
         /\ DecidesEarly \/ (ShortCircuits /\ schema_order # <<>>) => UniqueFields
         /\ DecidesEarly => \A i \in Leaves : Filter[i].op \in WaitingOps
         /\ Null \in Values => \A i \in Leaves : Filter[i].op \notin Comparisons =>
              /\ \A operands \in Filter[i].values : NullText \notin ToSet(operands)
              /\ Filter[i].op \in {"NotField", "IsNull"} =>
                   \A field \in ToSet(Filter[i].fields) : column_type(ren(field)) \notin TextTypes
         /\ UsesSlots => \A raw \in Names : ren(ren(raw)) = ren(raw)
         /\ ~ (PartialRows /\ HasFilter /\ Api = "resolve_and_put" /\ PlainPlan)
<1> DEFINE c == config
<1>1. ExactConfig(c)
  BY DEF ExactConfigs
<1>2. CommitsEarly(c) <=> HasFilter /\ Api = "resolve_and_put" /\ PlainPlan
  BY DEF CommitsEarly, HasFilter, Filter, Api, PlainPlan, field_map, drop_fields, schema_order
<1>3. \A field : ColumnOf(c, field) = ren(field)
  BY DEF ColumnOf, ren, field_map
<1>8. \A field : TypeOf(c, field) = column_type(ren(field))
  BY <1>3 DEF TypeOf, column_type, field_types, dictionary_columns
<1> HIDE DEF CommitsEarly, ColumnOf
<1>4. /\ CommitsEarly(c) \/ (ShortCircuits /\ (HasFilter \/ schema_order # <<>>)) => UniqueFields
      /\ ~ (PartialRows /\ CommitsEarly(c))
  BY <1>1 DEF ExactConfig, ShortCircuits, HasFilter, Filter, schema_order, UniqueFields, PartialRows
<1>5. CommitsEarly(c) \/ ShortCircuits => \A i \in Leaves : Filter[i].op \in WaitingOps
  BY <1>1 DEF ExactConfig, ShortCircuits, Filter, Leaves
<1>6. Null \in Values => \A i \in Leaves : Filter[i].op \notin Comparisons =>
        /\ \A operands \in Filter[i].values : NullText \notin ToSet(operands)
        /\ Filter[i].op \in {"NotField", "IsNull"} =>
             \A field \in ToSet(Filter[i].fields) : column_type(ren(field)) \notin TextTypes
  BY <1>1, <1>8 DEF ExactConfig, Values, Filter, Leaves
<1>9. ASSUME NEW i \in Leaves PROVE Alike(Filter[i])
  <2> DEFINE leaf == Filter[i]
  <2>1. ReadsAlike(c, leaf)
    BY <1>1 DEF ExactConfig, Filter, Leaves
  <2> HIDE DEF leaf, c
  <2>2. {TypeOf(c, field) : field \in ToSet(leaf.fields)}
          = {column_type(ren(field)) : field \in ToSet(leaf.fields)}
    BY <1>8
  <2>3. \A field \in ToSet(leaf.fields) : ColumnOf(c, field) = ren(field)
    BY <1>3
  <2>4. /\ c.field_types = field_types /\ c.values = Values
        /\ c.unparsable = Unparsable /\ c.std_unparsable = StdUnparsable
    BY DEF c, field_types, Values, Unparsable, StdUnparsable
  <2> QED
    BY <2>1, <2>2, <2>3, <2>4 DEF ReadsAlike, Alike, leaf
<1>7. UsesSlots => \A raw \in Names : ren(ren(raw)) = ren(raw)
  BY <1>1, <1>3 DEF ExactConfig, UsesSlots, Names
<1> QED
  BY <1>2, <1>4, <1>5, <1>6, <1>7, <1>9 DEF DecidesEarly

(* The names of a configuration and the fields of its leaves.               *)
LEMMA LeafFacts ==
  ASSUME config \in Configs
  PROVE  /\ NoName \notin Names
         /\ \A i \in Leaves :
              /\ i \in DOMAIN Filter /\ Filter[i].op \in LeafOps
              /\ Filter[i].fields \in Seq(Names) \ {<<>>}
              /\ Filter[i].op # "Compare" => Len(Filter[i].fields) = 1
         /\ \A i \in Leaves : Filter[i].op \in Comparisons => \A k \in Kinds :
              \A operands \in Filter[i].values[k] : NullText \notin ToSet(operands)
         /\ drop_fields \subseteq Names
         /\ \A col : column_type(col) \in FieldTypes
<1> DEFINE c == config
<1>1. /\ NoName \notin c.names
      /\ c.drop_fields \subseteq c.names
      /\ \A col \in DOMAIN c.field_types : c.field_types[col] \in FieldTypes
  BY ConfigAssumption
<1>2. \A i \in DOMAIN c.filter : LET node == c.filter[i] IN
        /\ node.op \in LeafOps => node.fields \in Seq(c.names) \ {<<>>}
        /\ node.op \in LeafOps \ {"Compare"} => Len(node.fields) = 1
        /\ node.op \in Comparisons => \A k \in Kinds : \A operands \in node.values[k] :
             {Null, NullText} \cap ToSet(operands) = {}
  BY ConfigAssumption
<1>3. \A i \in Leaves : i \in DOMAIN Filter /\ Filter[i].op \in LeafOps
  BY DEF Leaves
<1>4. \A col : column_type(col) \in FieldTypes
  BY <1>1 DEF column_type, field_types, FieldTypes, TextTypes
<1> QED
  BY <1>1, <1>2, <1>3, <1>4 DEF Names, Filter, drop_fields

-----------------------------------------------------------------------------
(* A filter on part of a row.                                              *)

Decided == {"Pass", "Fail"}

(* Once decided, a filter does not change its mind when open leaves close.  *)
LEMMA TreeRefined ==
  ASSUME config \in Configs, HasFilter, NEW f, NEW g,
         \A i \in Leaves : f[i] \in States /\ g[i] \in States,
         \A i \in Leaves : f[i] # "Undecided" => g[i] = f[i]
  PROVE  EvalTree(f) # "Undecided" => EvalTree(g) = EvalTree(f)
<1>1. PICK u : /\ \A i \in DOMAIN Filter : u[i] = NodeValue(i, u, f)
               /\ EvalTree(f) = u[Len(Filter)]
  BY TreeValue
<1>2. PICK v : /\ \A i \in DOMAIN Filter : v[i] = NodeValue(i, v, g)
               /\ EvalTree(g) = v[Len(Filter)]
  BY TreeValue
<1>3. Len(Filter) \in Nat \ {0} /\ DOMAIN Filter = 1..Len(Filter)
  BY ConfigFacts, LenProperties, EmptySeq DEF HasFilter
<1> DEFINE Agree(k) == /\ u[k] \in States /\ v[k] \in States
                       /\ u[k] # "Undecided" => v[k] = u[k]
           S == {k \in Nat : k \in DOMAIN Filter => Agree(k)}
<1>4. ASSUME NEW k \in Nat, \A j \in 0..(k - 1) : j \in S
      PROVE  k \in S
  <2>1. SUFFICES ASSUME k \in DOMAIN Filter PROVE Agree(k)
    OBVIOUS
  <2> DEFINE node == Filter[k]
  <2>2. NodeOK(k)
    BY <2>1, ConfigFacts
  <2>3. \A j \in 1..(k - 1) : Agree(j)
    BY <1>3, <1>4, <2>1
  <2>4. u[k] = NodeValue(k, u, f) /\ v[k] = NodeValue(k, v, g)
    BY <1>1, <1>2, <2>1
  <2>5. CASE node.op = "And"
    <3>1. Agree(node.a) /\ Agree(node.b)
      BY <2>2, <2>3, <2>5 DEF NodeOK, Connectives
    <3>2. u[k] = AndState(u[node.a], u[node.b]) /\ v[k] = AndState(v[node.a], v[node.b])
      BY <2>4, <2>5 DEF NodeValue
    <3> QED
      BY <3>1, <3>2 DEF AndState, States
  <2>6. CASE node.op = "Or"
    <3>1. Agree(node.a) /\ Agree(node.b)
      BY <2>2, <2>3, <2>6 DEF NodeOK, Connectives
    <3>2. u[k] = OrState(u[node.a], u[node.b]) /\ v[k] = OrState(v[node.a], v[node.b])
      BY <2>4, <2>6 DEF NodeValue
    <3> QED
      BY <3>1, <3>2 DEF OrState, NotState, AndState, States
  <2>7. CASE node.op = "Not"
    <3>1. Agree(node.a)
      BY <2>2, <2>3, <2>7 DEF NodeOK, Connectives
    <3>2. u[k] = NotState(u[node.a]) /\ v[k] = NotState(v[node.a])
      BY <2>4, <2>7 DEF NodeValue
    <3> QED
      BY <3>1, <3>2 DEF NotState, States
  <2>8. CASE node.op = "Always"
    BY <2>4, <2>8 DEF NodeValue, Verdict, States
  <2>9. CASE node.op \in LeafOps
    <3>1. k \in Leaves
      BY <2>1, <2>9 DEF Leaves
    <3>2. u[k] = f[k] /\ v[k] = g[k]
      BY <2>4, <2>9 DEF NodeValue, LeafOps, Comparisons
    <3> QED
      BY <3>1, <3>2
  <2> QED
    BY <2>2, <2>5, <2>6, <2>7, <2>8, <2>9 DEF NodeOK, Connectives
<1> HIDE DEF S
<1>5. Nat \subseteq S
  BY <1>4, CompleteInduction
<1> QED
  BY <1>1, <1>2, <1>3, <1>5 DEF S

(* A filter is decided when its leaves are.                                 *)
LEMMA TreeDecided ==
  ASSUME config \in Configs, HasFilter, NEW f, \A i \in Leaves : f[i] \in Decided
  PROVE  EvalTree(f) \in Decided
<1>1. PICK u : /\ \A i \in DOMAIN Filter : u[i] = NodeValue(i, u, f)
               /\ EvalTree(f) = u[Len(Filter)]
  BY TreeValue
<1>2. Len(Filter) \in Nat \ {0} /\ DOMAIN Filter = 1..Len(Filter)
  BY ConfigFacts, LenProperties, EmptySeq DEF HasFilter
<1> DEFINE S == {k \in Nat : k \in DOMAIN Filter => u[k] \in Decided}
<1>3. ASSUME NEW k \in Nat, \A j \in 0..(k - 1) : j \in S
      PROVE  k \in S
  <2>1. SUFFICES ASSUME k \in DOMAIN Filter PROVE u[k] \in Decided
    OBVIOUS
  <2> DEFINE node == Filter[k]
  <2>2. NodeOK(k)
    BY <2>1, ConfigFacts
  <2>3. \A j \in 1..(k - 1) : u[j] \in Decided
    BY <1>2, <1>3, <2>1
  <2>4. u[k] = NodeValue(k, u, f)
    BY <1>1, <2>1
  <2>5. CASE node.op \in {"And", "Or"}
    <3>1. u[node.a] \in Decided /\ u[node.b] \in Decided
      BY <2>2, <2>3, <2>5 DEF NodeOK, Connectives
    <3> QED
      BY <2>4, <2>5, <3>1 DEF NodeValue, AndState, OrState, NotState, Decided
  <2>6. CASE node.op = "Not"
    <3>1. u[node.a] \in Decided
      BY <2>2, <2>3, <2>6 DEF NodeOK, Connectives
    <3> QED
      BY <2>4, <2>6, <3>1 DEF NodeValue, NotState, Decided
  <2>7. CASE node.op = "Always"
    BY <2>4, <2>7 DEF NodeValue, Verdict, Decided
  <2>8. CASE node.op \in LeafOps
    <3>1. k \in Leaves
      BY <2>1, <2>8 DEF Leaves
    <3> QED
      BY <2>4, <2>8, <3>1 DEF NodeValue, LeafOps, Comparisons
  <2> QED
    BY <2>2, <2>5, <2>6, <2>7, <2>8 DEF NodeOK, Connectives
<1> HIDE DEF S
<1>4. Nat \subseteq S
  BY <1>3, CompleteInduction
<1> QED
  BY <1>1, <1>2, <1>4 DEF S

-----------------------------------------------------------------------------
(* What a leaf sees of a row, by the names of the columns.                 *)

\* The values of some columns, as the input offered them.
Raws(r) ==
  /\ DOMAIN r \subseteq Names \ drop_fields
  /\ \A col \in DOMAIN r : r[col] \in Values

\* A row buffer with a slot for each column, named for it.
ByName == [col \in Names |-> col]

\* The columns' cells of such a row.
RowFrom(r) == [col \in Names |-> IF col \in DOMAIN r THEN Cell(col, r[col]) ELSE Null]

LeafOn(i, r) == BufferedLeaf(Filter[i], ByName, r)

\* The filter's verdict on the values so far.
TreeOn(r) == eval_predicate(ByName, r)

\* A leaf's field names a column, unless it is dropped.
LEMMA LeafField ==
  ASSUME config \in Configs, NEW i \in Leaves, NEW field \in ToSet(Filter[i].fields),
         NEW r, Raws(r)
  PROVE  /\ ren(field) \in DOMAIN r => resolve_field(field) = ren(field) /\ PredName(field) = ren(field)
         /\ ren(field) \notin DOMAIN r => resolve_field(field) \notin DOMAIN r
         /\ ren(field) \in Names
<1>1. filter_references(ren(field))
  BY DEF filter_references
<1>2. Filter[i].fields \in Seq(Names) /\ NoName \notin Names
  BY LeafFacts
<1>3. field \in Names
  BY <1>2, LenProperties, ElementOfSeq DEF ToSet
<1>4. ren(field) \in Names
  BY <1>3, ConfigFacts
<1>5. resolve_field(field) = IF ren(field) \in drop_fields THEN NoName ELSE ren(field)
  BY <1>1 DEF resolve_field
<1> QED
  BY <1>2, <1>4, <1>5 DEF Raws, PredName

(* What a leaf sees of a field's value, if anything.                        *)
LEMMA OperandByName ==
  ASSUME NEW r, DOMAIN r \subseteq Names, NEW leaf, NEW field
  PROVE  Operand(leaf, field, ByName, r) =
           IF resolve_field(field) \in DOMAIN r
             THEN {Seen(leaf, resolve_field(field), r[resolve_field(field)])} \ {Null}
             ELSE {}
<1> DEFINE col == resolve_field(field)
<1>1. \A j \in DOMAIN r : ByName[j] = j
  BY DEF ByName
<1>2. {j \in DOMAIN r : ByName[j] = col} = IF col \in DOMAIN r THEN {col} ELSE {}
  BY <1>1
<1> HIDE DEF col
<1>3. Operand(leaf, field, ByName, r) =
        {Seen(leaf, ByName[i], r[i]) : i \in {j \in DOMAIN r : ByName[j] = col}} \ {Null}
  BY DEF Operand, col
<1>4. CASE col \in DOMAIN r
  BY <1>1, <1>2, <1>3, <1>4 DEF col
<1>5. CASE col \notin DOMAIN r
  BY <1>2, <1>3, <1>5 DEF col
<1> QED
  BY <1>4, <1>5

\* A leaf that misses neither a field nor its literal, and what it makes of them.
Complete(i, r) ==
  /\ ~LiteralMissing(Filter[i])
  /\ \A field \in ToSet(Filter[i].fields) : Operand(Filter[i], field, ByName, r) # {}

Operands(i, r) ==
  [k \in DOMAIN Filter[i].fields |->
     CHOOSE v \in Operand(Filter[i], Filter[i].fields[k], ByName, r) : TRUE]

CompatibleLeaf(i) == Filter[i].op = "Compare" => Compatible(LeafColumns(Filter[i]))

LEMMA LeafCases ==
  ASSUME NEW i, NEW r
  PROVE  LeafOn(i, r) = IF ~CompatibleLeaf(i) THEN "Fail"
                        ELSE IF ~Complete(i, r) THEN MissingState(Filter[i])
                        ELSE Verdict(BufferedHolds(Filter[i], Operands(i, r)))
BY DEF LeafOn, BufferedLeaf, CompatibleLeaf, Complete, Operands

LEMMA LeafState ==
  ASSUME NEW i \in Leaves, NEW r
  PROVE  LeafOn(i, r) \in States /\ NullLeaf(Filter[i], ByName, r) \in Decided
<1>1. Filter[i].op \in LeafOps
  BY DEF Leaves
<1>2. MissingState(Filter[i]) \in States
  BY <1>1 DEF MissingState, LeafOps, Comparisons, States
<1>3. LeafOn(i, r) \in States
  BY <1>2 DEF LeafOn, BufferedLeaf, Verdict, States
<1> QED
  BY <1>3 DEF NullLeaf, LeafOn, Verdict, States, Decided

(* Once its fields have come, a leaf that waits for them keeps its verdict. *)
LEMMA LeafGrows ==
  ASSUME config \in Configs, NEW i \in Leaves, Filter[i].op \in WaitingOps,
         NEW r, NEW more, DOMAIN r \subseteq DOMAIN more, DOMAIN more \subseteq Names,
         \A col \in DOMAIN r : more[col] = r[col],
         LeafOn(i, r) # "Undecided"
  PROVE  LeafOn(i, more) = LeafOn(i, r)
<1>1. MissingState(Filter[i]) = "Undecided"
  BY DEF MissingState, WaitingOps, Comparisons
<1>2. CASE ~CompatibleLeaf(i)
  BY <1>2, LeafCases
<1>3. CASE CompatibleLeaf(i)
  <2>1. Complete(i, r)
    BY <1>1, <1>3, LeafCases
  <2>2. ASSUME NEW field \in ToSet(Filter[i].fields)
        PROVE  Operand(Filter[i], field, ByName, more) = Operand(Filter[i], field, ByName, r)
    <3>1. resolve_field(field) \in DOMAIN r
      BY <2>1, OperandByName DEF Complete
    <3> QED
      BY <3>1, OperandByName
  <2>3. Complete(i, more)
    BY <2>1, <2>2 DEF Complete
  <2>4. \A k \in DOMAIN Filter[i].fields : Filter[i].fields[k] \in ToSet(Filter[i].fields)
    BY DEF ToSet
  <2>5. Operands(i, more) = Operands(i, r)
    BY <2>2, <2>4 DEF Operands
  <2> QED
    BY <1>3, <2>1, <2>3, <2>5, LeafCases
<1> QED
  BY <1>2, <1>3

(* The kinds of values and the types they come from.                         *)
LEMMA KindFacts ==
  ASSUME NEW type \in FieldTypes
  PROVE  /\ kind(type) \in Kinds
         /\ kind(type) = "Str" <=> type \in TextTypes
         /\ kind(type) = "Number" <=> type \in NumberTypes
         /\ type \notin TextTypes \cup NumberTypes => kind(type) = type
         /\ type \in TextTypes => ~(\E text : Refuses(type, text))
<1>1. kind(type) \in Kinds
  BY DEF Kinds
<1> QED
  BY <1>1 DEF kind, FieldTypes, TextTypes, NumberTypes, TimeTypes, Refuses, ParsedTypes

(* Two buffered values that do not compare do not compare when stored.       *)
LEMMA StoredCompatible ==
  ASSUME NEW leaf, leaf.op = "Compare", Alike(leaf), config \in Configs,
         NEW cols, cols = {ren(field) : field \in ToSet(leaf.fields)},
         NEW k \in Kinds, kinds(cols) = {k}
  PROVE  /\ Compatible(cols)
         /\ k = "Str" => cols \cap DOMAIN field_types = {}
<1>1. \A col \in cols : column_type(col) \in FieldTypes /\ kind(column_type(col)) = k
  BY LeafFacts DEF kinds
<1>2. CASE k = "Str"
  <2>1. \A col \in cols : column_type(col) \in TextTypes
    BY <1>1, <1>2, KindFacts
  <2> QED
    BY <1>2, <2>1 DEF Alike, Compatible
<1>3. CASE k = "Number"
  BY <1>3 DEF Compatible
<1>4. CASE k \notin {"Str", "Number"}
  <2>1. \A col \in cols : column_type(col) = k
    BY <1>1, <1>4, KindFacts
  <2> QED
    BY <1>4, <2>1 DEF Compatible
<1> QED
  BY <1>2, <1>3, <1>4

(* A literal that a column's type can be compared with is read the same in   *)
(* the buffer and on a stored row.                                           *)
LEMMA LiteralAlike ==
  ASSUME NEW type \in TextTypes \cup ConvertedTypes, NEW literal,
         type = "Boolean" => literal \notin {"True", "TRUE", "False", "FALSE"},
         type \in NumberTypes => (literal \in Unparsable[type] <=> literal \in StdUnparsable[type])
  PROVE  typed_from_literal(type, literal) = buffered_literal(type, literal)
<1>1. CASE type \in TextTypes
  <2>1. typed_from_literal(type, literal) = {literal}
    BY <1>1 DEF typed_from_literal, TextTypes, TimeTypes
  <2>2. type \notin ConvertedTypes
    BY <1>1 DEF ConvertedTypes, TextTypes, NumberTypes
  <2> QED
    BY <2>1, <2>2 DEF buffered_literal
<1>2. CASE type = "Boolean"
  <2>1. typed_from_literal(type, literal) = {v \in {"true", "false"} : literal \in Spellings(v)}
    BY <1>2 DEF typed_from_literal, TextTypes, TimeTypes
  <2>2. buffered_literal(type, literal) = IF literal \in {"true", "false"} THEN {literal} ELSE {}
    BY <1>2 DEF buffered_literal, ConvertedTypes, Refuses, ParsedTypes, NumberTypes, TimeTypes
  <2> QED
    BY <1>2, <2>1, <2>2 DEF Spellings
<1>3. CASE type \in NumberTypes
  <2>1. typed_from_literal(type, literal) = IF literal \in StdUnparsable[type] THEN {} ELSE {literal}
    BY <1>3 DEF typed_from_literal, StdRefuses, NumberTypes, TextTypes, TimeTypes
  <2>2. buffered_literal(type, literal) = IF literal \in Unparsable[type] THEN {} ELSE {literal}
    BY <1>3 DEF buffered_literal, ConvertedTypes, Refuses, ParsedTypes, NumberTypes
  <2> QED
    BY <1>3, <2>1, <2>2
<1> QED
  BY <1>1, <1>2, <1>3 DEF ConvertedTypes

(* On the same values of the same columns, a leaf holds in the buffer if it  *)
(* holds on a stored row.                                                    *)
LEMMA HoldsAlike ==
  ASSUME config \in Configs, NEW leaf, leaf.op \in LeafOps, Alike(leaf), NEW operands,
         LeafColumns(leaf) = {ren(field) : field \in ToSet(leaf.fields)}
  PROVE  BufferedHolds(leaf, operands) <=> StoredHolds(leaf, operands)
<1> DEFINE cols == LeafColumns(leaf)
<1>1. cols = {ren(field) : field \in ToSet(leaf.fields)}
  OBVIOUS
<1> HIDE DEF cols
<1>2. CASE leaf.op \notin Comparisons
  BY <1>2 DEF BufferedHolds, StoredHolds, Comparisons
<1>3. CASE leaf.op = "Compare"
  <2>1. \A k \in Kinds : kinds(cols) = {k} /\ k = "Str" => cols \cap DOMAIN field_types = {}
    BY <1>1, <1>3, StoredCompatible
  <2>2. BufferedHolds(leaf, operands) <=>
          /\ \E k \in Kinds : kinds(cols) = {k} /\ operands \in leaf.values[k]
          /\ kinds(cols) = {"Str"} => cols \cap DOMAIN field_types = {}
    BY <1>3 DEF BufferedHolds, Comparisons, cols
  <2>3. StoredHolds(leaf, operands) <=>
          \E k \in Kinds : kinds(cols) = {k} /\ operands \in leaf.values[k]
    BY <1>1, <1>3 DEF StoredHolds, Comparisons
  <2>4. \A k : kinds(cols) = {k} /\ kinds(cols) = {"Str"} => k = "Str"
    OBVIOUS
  <2> QED
    BY <2>1, <2>2, <2>3, <2>4
<1>4. CASE leaf.op = "CompareLiteral"
  <2>1. ASSUME NEW col \in cols
        PROVE  /\ typed_from_literal(column_type(col), leaf.literal)
                    = buffered_literal(column_type(col), leaf.literal)
               /\ (IF ComparesText(leaf, column_type(col)) THEN "Str"
                   ELSE kind(column_type(col))) = kind(column_type(col))
    <3>1. /\ column_type(col) \in TextTypes \cup ConvertedTypes
          /\ column_type(col) = "Boolean" =>
               leaf.literal \notin {"True", "TRUE", "False", "FALSE"}
          /\ column_type(col) \in NumberTypes =>
               (leaf.literal \in Unparsable[column_type(col)]
                  <=> leaf.literal \in StdUnparsable[column_type(col)])
      BY <1>1, <1>4 DEF Alike
    <3>2. column_type(col) \in FieldTypes
      BY LeafFacts
    <3> QED
      BY <1>4, <3>1, <3>2, LiteralAlike, KindFacts DEF ComparesText
  <2>2. BufferedHolds(leaf, operands) <=>
          \E col \in cols : \E v \in buffered_literal(column_type(col), leaf.literal) :
             Append(operands, v) \in
               leaf.values[IF ComparesText(leaf, column_type(col)) THEN "Str"
                           ELSE kind(column_type(col))]
    BY <1>4 DEF BufferedHolds, Comparisons, cols
  <2>3. StoredHolds(leaf, operands) <=>
          \E col \in cols : \E v \in typed_from_literal(column_type(col), leaf.literal) :
             Append(operands, v) \in leaf.values[kind(column_type(col))]
    BY <1>1, <1>4 DEF StoredHolds, Comparisons
  <2> QED
    BY <2>1, <2>2, <2>3
<1> QED
  BY <1>2, <1>3, <1>4 DEF Comparisons

(* What a leaf sees of a value is what the column stores of it, except that  *)
(* it may take an explicit null for a text.                                  *)
LEMMA SeenAlike ==
  ASSUME config \in Configs, NEW leaf, leaf.op \in LeafOps, Alike(leaf),
         NEW field \in ToSet(leaf.fields), NEW v \in Values
  PROVE  LET col == ren(field)
         IN Seen(leaf, col, v) =
              IF v = Null /\ TakesNull(leaf, column_type(col)) THEN NullText ELSE Cell(col, v)
<1> DEFINE col == ren(field)
           type == column_type(col)
<1>1. type \in FieldTypes
  BY LeafFacts
<1>2. col \in {ren(f) : f \in ToSet(leaf.fields)}
  OBVIOUS
<1>3. /\ leaf.op = "CompareLiteral" => type \in TextTypes \cup ConvertedTypes
      /\ leaf.op \notin Comparisons /\ type \in NumberTypes =>
           (v \in Unparsable[type] <=> v \in StdUnparsable[type])
  BY <1>2 DEF Alike, Comparisons
<1>4. Cell(col, v) = IF Refuses(type, v) THEN Null ELSE v
  BY DEF Cell
<1>5. Seen(leaf, col, v) =
        IF v = Null THEN (IF TakesNull(leaf, type) THEN NullText ELSE Null)
        ELSE IF ComparesText(leaf, type) THEN v
        ELSE IF leaf.op \in Comparisons THEN Cell(col, v)
        ELSE IF StdRefuses(type, v) THEN Null ELSE v
  BY DEF Seen
<1> HIDE DEF col, type
<1>6. CASE v = Null
  BY <1>4, <1>5, <1>6 DEF col, type
<1>7. CASE v # Null /\ ComparesText(leaf, type)
  <2>1. ~Refuses(type, v)
    BY <1>1, <1>3, <1>7, KindFacts DEF ComparesText
  <2> QED
    BY <1>4, <1>5, <1>7, <2>1 DEF col, type
<1>8. CASE v # Null /\ leaf.op \in Comparisons /\ ~ComparesText(leaf, type)
  BY <1>5, <1>8 DEF col, type
<1>9. CASE v # Null /\ leaf.op \notin Comparisons
  <2>1. StdRefuses(type, v) <=> Refuses(type, v)
    BY <1>3, <1>9 DEF StdRefuses, Refuses, ParsedTypes, NumberTypes
  <2>2. ~ComparesText(leaf, type)
    BY <1>9 DEF ComparesText, Comparisons
  <2> QED
    BY <1>4, <1>5, <1>9, <2>1, <2>2 DEF col, type
<1> QED
  BY <1>6, <1>7, <1>8, <1>9

\* What the history is made of.
IsSequence(s) == s \in Seq(ToSet(s))

LEMMA SequenceOf ==
  ASSUME NEW S, NEW s \in Seq(S)
  PROVE  IsSequence(s)
<1>1. Len(s) \in Nat /\ DOMAIN s = 1..Len(s)
  BY LenProperties
<1>2. s = [i \in 1..Len(s) |-> s[i]]
  BY <1>1
<1>3. \A i \in 1..Len(s) : s[i] \in ToSet(s)
  BY <1>1 DEF ToSet
<1>4. s \in [1..Len(s) -> ToSet(s)]
  BY <1>2, <1>3
<1> QED
  BY <1>1, <1>4, SeqDef DEF IsSequence

(* A comparison with an explicit null does not hold.                         *)
LEMMA NullFails ==
  ASSUME config \in Configs, NEW i \in Leaves, Filter[i].op \in Comparisons,
         NEW operands, NEW n \in Nat, DOMAIN operands = 1..n, IsSequence(operands),
         NullText \in ToSet(operands)
  PROVE  ~BufferedHolds(Filter[i], operands)
<1> DEFINE leaf == Filter[i]
<1>1. \A k \in Kinds : \A tuple \in leaf.values[k] : NullText \notin ToSet(tuple)
  BY LeafFacts
<1>2. PICK k \in DOMAIN operands : operands[k] = NullText
  BY DEF ToSet
<1>3. \A v : NullText \in ToSet(Append(operands, v))
  <2> SUFFICES ASSUME NEW v PROVE NullText \in ToSet(Append(operands, v))
    OBVIOUS
  <2>1. k \in DOMAIN Append(operands, v) /\ Append(operands, v)[k] = NullText
    <3>1. operands \in Seq(ToSet(operands) \cup {v})
      <4>1. operands \in Seq(ToSet(operands)) /\ ToSet(operands) \subseteq ToSet(operands) \cup {v}
        BY DEF IsSequence
      <4> QED
        BY <4>1, SeqMonotonic
    <3>2. Len(operands) \in Nat /\ k \in 1..Len(operands)
      BY <1>2, <3>1, LenProperties
    <3> QED
      BY <1>2, <3>1, <3>2, AppendProperties
  <2> QED
    BY <2>1 DEF ToSet
<1>4. \A col : column_type(col) \in FieldTypes /\ kind(column_type(col)) \in Kinds
  BY LeafFacts, KindFacts
<1>5. "Str" \in Kinds
  <2>1. "String" \in FieldTypes /\ "String" \in TextTypes
    BY DEF FieldTypes, TextTypes
  <2> QED
    BY <2>1, KindFacts
<1> HIDE DEF leaf
<1> QED
  BY <1>1, <1>3, <1>4, <1>5 DEF BufferedHolds, leaf

(* At the end of the row, a leaf gives the verdict of the filter's meaning:  *)
(* what eval_predicate makes of the buffered texts is what check makes of    *)
(* the stored values.                                                        *)
LEMMA LeafChecks ==
  ASSUME ExactConfigs, config \in Configs, NEW i \in Leaves, NEW r, Raws(r)
  PROVE  NullLeaf(Filter[i], ByName, r) = Verdict(CheckLeaf(Filter[i], RowFrom(r)))
<1> DEFINE leaf == Filter[i]
           row == RowFrom(r)
           flds == ToSet(leaf.fields)
           stored == [k \in DOMAIN leaf.fields |-> row[ren(leaf.fields[k])]]
           IfMissing == leaf.op \in Negated \cup {"NotField", "IsNull"}
<1>1. /\ leaf.op \in LeafOps /\ leaf.fields \in Seq(Names) \ {<<>>}
      /\ leaf.op # "Compare" => Len(leaf.fields) = 1
      /\ \A col \in DOMAIN r : col \in Names /\ r[col] \in Values
      /\ Alike(leaf)
  BY LeafFacts, ExactFacts DEF Raws
<1>2. \A k \in DOMAIN leaf.fields : leaf.fields[k] \in flds
  BY DEF ToSet
<1>3. ASSUME NEW field \in flds
      PROVE  /\ ren(field) \in DOMAIN r => PredName(field) = ren(field)
             /\ ren(field) \in DOMAIN r =>
                  Operand(leaf, field, ByName, r) = {Seen(leaf, ren(field), r[ren(field)])} \ {Null}
             /\ ren(field) \notin DOMAIN r => Operand(leaf, field, ByName, r) = {}
             /\ row[ren(field)] = IF ren(field) \in DOMAIN r
                                    THEN Cell(ren(field), r[ren(field)]) ELSE Null
             /\ ren(field) \in DOMAIN r =>
                  Seen(leaf, ren(field), r[ren(field)]) =
                    IF r[ren(field)] = Null /\ TakesNull(leaf, column_type(ren(field)))
                      THEN NullText ELSE Cell(ren(field), r[ren(field)])
  <2>1. ren(field) \in Names
    BY LeafField
  <2>2. row[ren(field)] = IF ren(field) \in DOMAIN r
                                    THEN Cell(ren(field), r[ren(field)]) ELSE Null
    BY <2>1 DEF RowFrom
  <2>3. ren(field) \in DOMAIN r =>
          Seen(leaf, ren(field), r[ren(field)]) =
            IF r[ren(field)] = Null /\ TakesNull(leaf, column_type(ren(field)))
              THEN NullText ELSE Cell(ren(field), r[ren(field)])
    BY <1>1, SeenAlike
  <2> QED
    BY <1>1, <2>2, <2>3, LeafField, OperandByName
<1>4. NullLeaf(leaf, ByName, r) =
        IF LeafOn(i, r) # "Undecided" THEN LeafOn(i, r) ELSE Verdict(leaf.op = "NotEqual")
  BY DEF NullLeaf, LeafOn
<1> HIDE DEF row, flds, stored
<1>5. CheckLeaf(leaf, row) =
        IF \E field \in flds : row[ren(field)] = Null THEN IfMissing ELSE StoredHolds(leaf, stored)
  BY DEF CheckLeaf, flds, stored
<1>6. LeafColumns(leaf) = {PredName(field) : field \in flds}
  BY DEF LeafColumns, flds
<1>7. (\A field \in flds : row[ren(field)] # Null) =>
        LeafColumns(leaf) = {ren(field) : field \in flds}
  BY <1>3, <1>6
<1>8. CASE ~CompatibleLeaf(i)
  <2>1. leaf.op = "Compare" /\ ~Compatible(LeafColumns(leaf))
    BY <1>8 DEF CompatibleLeaf
  <2>2. ~IfMissing
    BY <2>1 DEF Negated
  <2>3. LeafOn(i, r) = "Fail"
    BY <1>8, LeafCases
  <2>4. CASE \A field \in flds : row[ren(field)] # Null
    <3>1. \A k \in Kinds : kinds({ren(field) : field \in flds}) # {k}
      BY <1>1, <1>7, <2>1, <2>4, StoredCompatible DEF flds
    <3>2. ~StoredHolds(leaf, stored)
      BY <2>1, <3>1 DEF StoredHolds, Comparisons, flds
    <3> QED
      BY <1>4, <1>5, <2>3, <2>4, <3>2 DEF Verdict, row
  <2>5. CASE \E field \in flds : row[ren(field)] = Null
    BY <1>4, <1>5, <2>2, <2>3, <2>5 DEF Verdict, row
  <2> QED
    BY <2>4, <2>5
<1>9. CASE CompatibleLeaf(i) /\ LiteralMissing(leaf)
  <2>1. leaf.op = "CompareLiteral"
    BY <1>9 DEF LiteralMissing
  <2>2. ~IfMissing
    BY <2>1 DEF Negated
  <2>3. LeafOn(i, r) = "Undecided"
    BY <1>9, <2>1, LeafCases DEF Complete, MissingState, Comparisons
  <2>4. NullLeaf(leaf, ByName, r) = "Fail"
    BY <1>4, <2>1, <2>3 DEF Verdict
  <2>5. CASE \A field \in flds : row[ren(field)] # Null
    <3>1. LeafColumns(leaf) = {ren(field) : field \in ToSet(leaf.fields)}
      BY <1>7, <2>5 DEF flds
    <3>2. BufferedHolds(leaf, stored) <=> StoredHolds(leaf, stored)
      BY <1>1, <3>1, HoldsAlike
    <3>3. \A a, b \in LeafColumns(leaf) : a = b
      <4>1. Len(leaf.fields) = 1 /\ leaf.fields \in Seq(Names)
        BY <1>1, <2>1
      <4>2. DOMAIN leaf.fields = {1}
        BY <4>1, LenProperties
      <4>3. flds = {leaf.fields[1]}
        BY <4>2 DEF flds, ToSet
      <4> QED
        BY <1>6, <4>3
    <3>4. \A col \in LeafColumns(leaf) : buffered_literal(column_type(col), leaf.literal) = {}
      BY <1>9, <3>3 DEF LiteralMissing
    <3>5. ~BufferedHolds(leaf, stored)
      BY <2>1, <3>4 DEF BufferedHolds, Comparisons
    <3> QED
      BY <1>5, <2>4, <2>5, <3>2, <3>5 DEF Verdict, row
  <2>6. CASE \E field \in flds : row[ren(field)] = Null
    BY <1>5, <2>2, <2>4, <2>6 DEF Verdict, row
  <2> QED
    BY <2>5, <2>6
<1>10. CASE CompatibleLeaf(i) /\ ~LiteralMissing(leaf) /\ ~Complete(i, r)
  <2>1. PICK field \in flds : Operand(leaf, field, ByName, r) = {}
    BY <1>10 DEF Complete, flds
  <2>2. row[ren(field)] = Null
    <3>1. CASE ren(field) \notin DOMAIN r
      BY <1>3, <3>1
    <3>2. CASE ren(field) \in DOMAIN r
      <4>1. Seen(leaf, ren(field), r[ren(field)]) = Null
        BY <1>3, <2>1, <3>2
      <4>2. Cell(ren(field), r[ren(field)]) = Null
        BY <1>3, <3>2, <4>1 DEF Cell
      <4> QED
        BY <1>3, <3>2, <4>2
    <3> QED
      BY <3>1, <3>2
  <2>3. CheckLeaf(leaf, row) = IfMissing
    BY <1>5, <2>2
  <2>4. LeafOn(i, r) = MissingState(leaf)
    BY <1>10, LeafCases
  <2>5. NullLeaf(leaf, ByName, r) = Verdict(IfMissing)
    BY <1>1, <1>4, <2>4 DEF MissingState, Verdict, LeafOps, Comparisons, Negated
  <2> QED
    BY <2>3, <2>5 DEF row
<1>11. CASE CompatibleLeaf(i) /\ Complete(i, r)
  <2>1. ASSUME NEW field \in flds
        PROVE  /\ ren(field) \in DOMAIN r
               /\ Seen(leaf, ren(field), r[ren(field)]) # Null
               /\ Operand(leaf, field, ByName, r) = {Seen(leaf, ren(field), r[ren(field)])}
    <3>1. Operand(leaf, field, ByName, r) # {}
      BY <1>11 DEF Complete, flds
    <3> QED
      BY <1>3, <3>1
  <2>2. LeafOn(i, r) = Verdict(BufferedHolds(leaf, Operands(i, r)))
    BY <1>11, LeafCases
  <2>3. NullLeaf(leaf, ByName, r) = Verdict(BufferedHolds(leaf, Operands(i, r)))
    BY <1>4, <2>2 DEF Verdict
  <2>4. Operands(i, r) =
          [k \in DOMAIN leaf.fields |->
             Seen(leaf, ren(leaf.fields[k]), r[ren(leaf.fields[k])])]
    BY <1>2, <2>1 DEF Operands
  <2>5. CASE \A field \in flds : row[ren(field)] # Null
    <3>1. \A field \in flds : Seen(leaf, ren(field), r[ren(field)]) = row[ren(field)]
      BY <1>3, <2>1, <2>5 DEF Cell
    <3>2. Operands(i, r) = stored
      BY <1>2, <2>4, <3>1 DEF stored
    <3>3. LeafColumns(leaf) = {ren(field) : field \in ToSet(leaf.fields)}
      BY <1>7, <2>5 DEF flds
    <3>4. CheckLeaf(leaf, row) <=> BufferedHolds(leaf, Operands(i, r))
      BY <1>1, <1>5, <2>5, <3>2, <3>3, HoldsAlike
    <3> QED
      BY <2>3, <3>4 DEF row, Verdict
  <2>6. CASE \E field \in flds : row[ren(field)] = Null
    <3>1. PICK field \in flds : row[ren(field)] = Null
      BY <2>6
    <3> DEFINE col == ren(field)
    <3>2. /\ col \in DOMAIN r /\ Cell(col, r[col]) = Null
          /\ Seen(leaf, col, r[col]) # Null
      BY <1>3, <2>1, <3>1
    <3>3. /\ r[col] = Null /\ TakesNull(leaf, column_type(col))
          /\ Seen(leaf, col, r[col]) = NullText
      BY <1>3, <3>2
    <3>4. Null \in Values
      BY <1>1, <3>2, <3>3
    <3>5. PICK k \in DOMAIN leaf.fields : leaf.fields[k] = field
      BY DEF flds, ToSet
    <3>6. NullText \in ToSet(Operands(i, r))
      BY <2>4, <3>3, <3>5 DEF ToSet
    <3>7. CASE leaf.op \in Comparisons
      <4>1. /\ Len(leaf.fields) \in Nat /\ DOMAIN Operands(i, r) = 1..Len(leaf.fields)
            /\ IsSequence(Operands(i, r))
        <5>1. Len(leaf.fields) \in Nat /\ DOMAIN leaf.fields = 1..Len(leaf.fields)
          BY <1>1, LenProperties
        <5>2. DOMAIN Operands(i, r) = 1..Len(leaf.fields)
          BY <2>4, <5>1
        <5>3. Operands(i, r) \in [1..Len(leaf.fields) -> ToSet(Operands(i, r))]
          BY <2>4, <5>1, <5>2 DEF ToSet
        <5>4. Operands(i, r) \in Seq(ToSet(Operands(i, r)))
          BY <5>1, <5>3, SeqDef
        <5> QED
          BY <5>1, <5>2, <5>4 DEF IsSequence
      <4>2. ~BufferedHolds(leaf, Operands(i, r))
        BY <3>6, <3>7, <4>1, NullFails
      <4>3. ~IfMissing
        BY <3>7 DEF Comparisons, Negated
      <4> QED
        BY <1>5, <2>3, <3>1, <4>2, <4>3 DEF row, Verdict
    <3>8. CASE leaf.op \notin Comparisons
      <4>1. column_type(col) \in TextTypes
        BY <3>3, <3>8 DEF TakesNull
      <4>2. Operands(i, r) \notin leaf.values
        BY <3>4, <3>6, <3>8, ExactFacts
      <4>3. leaf.op \notin {"NotField", "IsNull"}
        BY <3>4, <3>8, <4>1, ExactFacts DEF flds
      <4>4. BufferedHolds(leaf, Operands(i, r)) <=> Holds(leaf, Operands(i, r))
        BY <3>8 DEF BufferedHolds, Comparisons
      <4>5. Holds(leaf, Operands(i, r)) = IfMissing
        BY <4>2, <4>3 DEF Holds, Negated
      <4> QED
        BY <1>5, <2>3, <3>1, <4>4, <4>5 DEF row, Verdict
    <3> QED
      BY <3>7, <3>8
  <2> QED
    BY <2>5, <2>6
<1> QED
  BY <1>8, <1>9, <1>10, <1>11

LeafStates(r) == [i \in DOMAIN Filter |-> BufferedLeaf(Filter[i], ByName, r)]

(* A decision that falls early stands: the rest of the row cannot change it. *)
LEMMA TreeGrows ==
  ASSUME ExactConfigs, config \in Configs, DecidesEarly,
         NEW r, NEW more, DOMAIN r \subseteq DOMAIN more, DOMAIN more \subseteq Names,
         \A col \in DOMAIN r : more[col] = r[col],
         TreeOn(r) # "Undecided"
  PROVE  TreeOn(more) = TreeOn(r)
<1>1. TreeOn(r) = EvalTree(LeafStates(r)) /\ TreeOn(more) = EvalTree(LeafStates(more))
  BY DEF TreeOn, eval_predicate, LeafStates
<1>2. ASSUME NEW i \in Leaves
      PROVE  /\ LeafStates(r)[i] \in States /\ LeafStates(more)[i] \in States
             /\ LeafStates(r)[i] # "Undecided" => LeafStates(more)[i] = LeafStates(r)[i]
  <2>1. LeafStates(r)[i] = LeafOn(i, r) /\ LeafStates(more)[i] = LeafOn(i, more)
    BY DEF Leaves, LeafStates, LeafOn
  <2>2. Filter[i].op \in WaitingOps
    BY ExactFacts
  <2> QED
    BY <2>1, <2>2, LeafState, LeafGrows
<1>3. HasFilter
  BY DEF DecidesEarly
<1> QED
  BY <1>1, <1>2, <1>3, TreeRefined

NullTree(r) == EvalTree([i \in DOMAIN Filter |-> NullLeaf(Filter[i], ByName, r)])

(* The verdict at the end of the row is the meaning of the filter, and so is *)
(* a verdict reached before.                                                 *)
LEMMA TreeChecks ==
  ASSUME ExactConfigs, config \in Configs, HasFilter, NEW r, Raws(r)
  PROVE  /\ check(RowFrom(r)) <=> NullTree(r) = "Pass"
         /\ TreeOn(r) # "Undecided" => (check(RowFrom(r)) <=> TreeOn(r) = "Pass")
<1> DEFINE f == [i \in DOMAIN Filter |-> NullLeaf(Filter[i], ByName, r)]
           g == [i \in DOMAIN Filter |-> Verdict(CheckLeaf(Filter[i], RowFrom(r)))]
<1>1. ASSUME NEW i \in Leaves
      PROVE  /\ f[i] \in Decided /\ g[i] = f[i] /\ f[i] \in States /\ LeafStates(r)[i] \in States
             /\ LeafStates(r)[i] # "Undecided" => f[i] = LeafStates(r)[i]
  <2>1. /\ f[i] = NullLeaf(Filter[i], ByName, r)
        /\ g[i] = Verdict(CheckLeaf(Filter[i], RowFrom(r)))
        /\ LeafStates(r)[i] = LeafOn(i, r)
    BY DEF Leaves, LeafStates, LeafOn
  <2>2. LeafOn(i, r) # "Undecided" => NullLeaf(Filter[i], ByName, r) = LeafOn(i, r)
    BY DEF NullLeaf, LeafOn
  <2>3. Decided \subseteq States
    BY DEF Decided, States
  <2> HIDE DEF f, g
  <2> QED
    BY <2>1, <2>2, <2>3, LeafState, LeafChecks
<1>2. /\ NullTree(r) = EvalTree(f) /\ TreeOn(r) = EvalTree(LeafStates(r))
      /\ check(RowFrom(r)) <=> EvalTree(g) = "Pass"
  BY DEF NullTree, TreeOn, eval_predicate, LeafStates, check
<1> HIDE DEF f, g
<1>3. EvalTree(f) \in Decided
  BY <1>1, TreeDecided
<1>4. EvalTree(f) # "Undecided" => EvalTree(g) = EvalTree(f)
  BY <1>1, TreeRefined
<1>5. EvalTree(LeafStates(r)) # "Undecided" => EvalTree(f) = EvalTree(LeafStates(r))
  BY <1>1, TreeRefined
<1> QED
  BY <1>2, <1>3, <1>4, <1>5 DEF Decided

-----------------------------------------------------------------------------
(* What the input has offered in a row.                                    *)

Entries == [raw : Names, value : Values]

Writes(offered, col) == {i \in DOMAIN offered : resolve_field(offered[i].raw) = col}

LastOf(offered, col) ==
  CHOOSE i \in Writes(offered, col) : \A j \in Writes(offered, col) : j <= i

\* The last value offered for each kept column.
RawOf(offered) ==
  [col \in {c \in Names : Writes(offered, c) # {}} |-> offered[LastOf(offered, col)].value]

raws == RawOf(row_in)

\* The filter's verdict on the fields offered so far.
said == TreeOn(raws)

LEMMA LastWriteFacts ==
  ASSUME NEW offered \in Seq(Entries), NEW col, Writes(offered, col) # {}
  PROVE  /\ LastOf(offered, col) \in Writes(offered, col)
         /\ \A j \in Writes(offered, col) : j <= LastOf(offered, col)
<1>1. Len(offered) \in Nat /\ Writes(offered, col) \subseteq 0..Len(offered)
  BY LenProperties DEF Writes
<1>2. \E i \in Writes(offered, col) : \A j \in Writes(offered, col) : j <= i
  BY <1>1, GreatestNat
<1> QED
  BY <1>2 DEF LastOf

(* The values a row is offered belong to kept columns.                      *)
LEMMA RawType ==
  ASSUME config \in Configs, NEW offered \in Seq(Entries)
  PROVE  Raws(RawOf(offered)) /\ RowOf(offered) = RowFrom(RawOf(offered))
<1> DEFINE r == RawOf(offered)
<1>1. NoName \notin Names /\ DOMAIN r = {c \in Names : Writes(offered, c) # {}}
  BY LeafFacts DEF RawOf
<1>2. ASSUME NEW col \in DOMAIN r
      PROVE  col \notin drop_fields /\ r[col] \in Values
  <2>1. LastOf(offered, col) \in Writes(offered, col)
    BY <1>1, LastWriteFacts
  <2>2. offered[LastOf(offered, col)] \in Entries
    BY <2>1, ElementOfSeq, LenProperties DEF Writes
  <2>3. resolve_field(offered[LastOf(offered, col)].raw) = col /\ col # NoName
    BY <1>1, <2>1 DEF Writes
  <2>4. col \notin drop_fields
    BY <2>3 DEF resolve_field
  <2> QED
    BY <1>1, <2>2, <2>4 DEF RawOf, Entries
<1>3. ASSUME NEW col \in Names
      PROVE  RowOf(offered)[col] = RowFrom(r)[col]
  BY <1>1 DEF RowOf, RowFrom, RawOf, LastOf, Writes
<1>4. RowOf(offered) = [col \in Names |-> RowOf(offered)[col]]
  BY DEF RowOf
<1>5. RowFrom(r) = [col \in Names |-> RowFrom(r)[col]]
  BY DEF RowFrom
<1>6. RowOf(offered) = RowFrom(r)
  BY <1>3, <1>4, <1>5
<1> QED
  BY <1>1, <1>2, <1>6 DEF Raws

\* A further value is put into a row.
With(r, col, v) == [c \in DOMAIN r \cup {col} |-> IF c = col THEN v ELSE r[c]]

(* A dropped field changes nothing, any other overwrites its column.        *)
LEMMA RawAppend ==
  ASSUME config \in Configs, NEW offered \in Seq(Entries), NEW more \in Seq(Entries),
         NEW raw \in Names, NEW v \in Values,
         Len(more) = Len(offered) + 1, \A i \in 1..Len(offered) : more[i] = offered[i],
         more[Len(more)] = [raw |-> raw, value |-> v]
  PROVE  RawOf(more) = IF resolve_field(raw) = NoName THEN RawOf(offered)
                       ELSE With(RawOf(offered), resolve_field(raw), v)
<1> DEFINE col == resolve_field(raw)
           last == Len(more)
<1>1. /\ Len(offered) \in Nat /\ last \in Nat
      /\ DOMAIN offered = 1..Len(offered) /\ DOMAIN more = 1..Len(offered) \cup {last}
      /\ last = Len(offered) + 1
  BY LenProperties
<1>2. col \in Names \cup {NoName} /\ NoName \notin Names
  BY ResolvedNames, LeafFacts
<1> HIDE DEF col
<1>3. Writes(more, col) = Writes(offered, col) \cup {last}
  BY <1>1 DEF Writes, col
<1>4. \A c : c # col => Writes(more, c) = Writes(offered, c)
  BY <1>1 DEF Writes, col
<1>5. ASSUME NEW c, c # col, Writes(offered, c) # {}
      PROVE  more[LastOf(more, c)].value = offered[LastOf(offered, c)].value
  <2>1. LastOf(more, c) = LastOf(offered, c)
    BY <1>4, <1>5 DEF LastOf
  <2>2. LastOf(offered, c) \in Writes(offered, c)
    BY <1>5, LastWriteFacts
  <2>3. LastOf(offered, c) \in 1..Len(offered)
    BY <1>1, <2>2 DEF Writes
  <2> QED
    BY <2>1, <2>3
<1>6. more[LastOf(more, col)].value = v
  <2>1. /\ LastOf(more, col) \in Writes(more, col)
        /\ \A j \in Writes(more, col) : j <= LastOf(more, col)
    BY <1>3, LastWriteFacts
  <2>2. LastOf(more, col) \in 1..last /\ last <= LastOf(more, col)
    BY <1>1, <1>3, <2>1 DEF Writes
  <2>3. LastOf(more, col) = last
    BY <1>1, <2>2
  <2> QED
    BY <2>3
<1> DEFINE D(o) == {c \in Names : Writes(o, c) # {}}
<1>7. RawOf(more) = [c \in D(more) |-> more[LastOf(more, c)].value]
      /\ RawOf(offered) = [c \in D(offered) |-> offered[LastOf(offered, c)].value]
  BY DEF RawOf
<1>8. D(more) = D(offered) \cup (IF col = NoName THEN {} ELSE {col})
  BY <1>2, <1>3, <1>4
<1>9. CASE col = NoName
  <2>1. \A c \in D(offered) : c # col
    BY <1>2, <1>9
  <2> HIDE DEF D
  <2>2. \A c \in D(offered) : more[LastOf(more, c)].value = offered[LastOf(offered, c)].value
    BY <1>5, <2>1 DEF D
  <2> QED
    BY <1>7, <1>8, <1>9, <2>2 DEF col
<1>10. CASE col # NoName
  <2>1. \A c \in D(offered) : c # col =>
          more[LastOf(more, c)].value = offered[LastOf(offered, c)].value
    BY <1>5
  <2> HIDE DEF D
  <2>2. RawOf(more) = With(RawOf(offered), col, v)
    BY <1>6, <1>7, <1>8, <1>10, <2>1 DEF With
  <2> QED
    BY <1>10, <2>2 DEF col
<1> QED
  BY <1>9, <1>10

-----------------------------------------------------------------------------
(* A row in the buffer and a row in the columns.                           *)

\* The buffer holds the values of the row.
Represents(order, values, r) ==
  /\ \A i \in DOMAIN values : order[i] \in DOMAIN r /\ values[i] = r[order[i]]
  /\ \A col \in DOMAIN r : \E i \in DOMAIN values : order[i] = col

(* The filter sees the same in the buffer as in the row.                    *)
LEMMA SeenInBuffer ==
  ASSUME NEW order, NEW values, NEW r, DOMAIN r \subseteq Names, Represents(order, values, r)
  PROVE  /\ eval_predicate(order, values) = TreeOn(r)
         /\ EvalTree([i \in DOMAIN Filter |-> NullLeaf(Filter[i], order, values)]) = NullTree(r)
<1>1. ASSUME NEW leaf, NEW field
      PROVE  Operand(leaf, field, order, values) = Operand(leaf, field, ByName, r)
  <2> DEFINE col == resolve_field(field)
             at == {j \in DOMAIN values : order[j] = col}
             seen == {Seen(leaf, order[i], values[i]) : i \in at}
  <2>1. Operand(leaf, field, order, values) = seen \ {Null}
    BY DEF Operand
  <2>2. Operand(leaf, field, ByName, r) =
          IF col \in DOMAIN r THEN {Seen(leaf, col, r[col])} \ {Null} ELSE {}
    BY OperandByName
  <2> HIDE DEF col
  <2>3. \A i \in at : col \in DOMAIN r /\ Seen(leaf, order[i], values[i]) = Seen(leaf, col, r[col])
    BY DEF Represents
  <2>4. col \in DOMAIN r => at # {}
    BY DEF Represents
  <2>5. CASE col \in DOMAIN r
    <3>1. seen = {Seen(leaf, col, r[col])}
      BY <2>3, <2>4, <2>5
    <3> QED
      BY <2>1, <2>2, <2>5, <3>1
  <2>6. CASE col \notin DOMAIN r
    <3>1. at = {}
      BY <2>3, <2>6
    <3>2. seen = {}
      BY <3>1
    <3> QED
      BY <2>1, <2>2, <2>6, <3>2
  <2> QED
    BY <2>5, <2>6
<1>2. ASSUME NEW leaf
      PROVE  BufferedLeaf(leaf, order, values) = BufferedLeaf(leaf, ByName, r)
  <2>1. (\E field \in ToSet(leaf.fields) : Operand(leaf, field, order, values) = {})
          <=> (\E field \in ToSet(leaf.fields) : Operand(leaf, field, ByName, r) = {})
    BY <1>1
  <2>2. [k \in DOMAIN leaf.fields |->
           CHOOSE v \in Operand(leaf, leaf.fields[k], order, values) : TRUE]
          = [k \in DOMAIN leaf.fields |->
               CHOOSE v \in Operand(leaf, leaf.fields[k], ByName, r) : TRUE]
    BY <1>1
  <2> QED
    BY <2>1, <2>2 DEF BufferedLeaf
<1>3. ASSUME NEW leaf
      PROVE  NullLeaf(leaf, order, values) = NullLeaf(leaf, ByName, r)
  BY <1>2 DEF NullLeaf
<1> QED
  BY <1>2, <1>3 DEF TreeOn, eval_predicate, NullTree

(* A value the filter does not mention does not change its verdict.         *)
LEMMA SeenBeside ==
  ASSUME config \in Configs, HasFilter, NEW r, DOMAIN r \subseteq Names,
         NEW col \in Names, NEW v, col \notin pred_names, TreeOn(r) # "Undecided"
  PROVE  TreeOn(With(r, col, v)) = TreeOn(r)
<1> DEFINE more == With(r, col, v)
<1>1. /\ DOMAIN more = DOMAIN r \cup {col} /\ \A c \in DOMAIN r : c # col => more[c] = r[c]
      /\ col # NoName
  BY LeafFacts DEF With
<1> HIDE DEF more
<1>2. ASSUME NEW i \in Leaves
      PROVE  LeafOn(i, more) = LeafOn(i, r)
  <2>1. ASSUME NEW field \in ToSet(Filter[i].fields)
        PROVE  Operand(Filter[i], field, ByName, more) = Operand(Filter[i], field, ByName, r)
    <3>1. PredName(field) \in pred_names
      BY DEF pred_names
    <3>2. resolve_field(field) # col
      BY <1>1, <3>1 DEF PredName
    <3>3. DOMAIN more \subseteq Names
      BY <1>1
    <3> QED
      BY <1>1, <3>2, <3>3, OperandByName
  <2>2. \A k \in DOMAIN Filter[i].fields : Filter[i].fields[k] \in ToSet(Filter[i].fields)
    BY DEF ToSet
  <2>3. Complete(i, more) <=> Complete(i, r)
    BY <2>1 DEF Complete
  <2>4. Operands(i, more) = Operands(i, r)
    BY <2>1, <2>2 DEF Operands
  <2> QED
    BY <2>3, <2>4, LeafCases
<1>3. TreeOn(r) = EvalTree(LeafStates(r)) /\ TreeOn(more) = EvalTree(LeafStates(more))
  BY DEF TreeOn, eval_predicate, LeafStates
<1>4. \A i \in Leaves : LeafStates(r)[i] = LeafOn(i, r) /\ LeafStates(more)[i] = LeafOn(i, more)
  BY DEF Leaves, LeafStates, LeafOn
<1>5. EvalTree(LeafStates(more)) = EvalTree(LeafStates(r))
  BY <1>2, <1>3, <1>4, LeafState, TreeRefined
<1> QED
  BY <1>3, <1>5 DEF more

-----------------------------------------------------------------------------
(* The rows of a table.                                                    *)

RowsIn(cols, order, count) == [k \in 1..count |-> Project(TableRow(cols, order, k))]

\* The names of a table's columns.
Heading(order) == order \in Seq(Names) /\ Distinct(order)

\* The second table has the first count rows of the first, with new columns null.
Extended(cols, order, more, longer, count) ==
  /\ \A i \in DOMAIN order : /\ i \in DOMAIN longer /\ longer[i] = order[i]
                             /\ \A k \in 1..count : more[i][k] = cols[i][k]
  /\ \A i \in DOMAIN longer : i \in DOMAIN order \/ \A k \in 1..count : more[i][k] = Null

LEMMA RowCell ==
  ASSUME NEW order, Heading(order), NEW i \in DOMAIN order, NEW cols, NEW k
  PROVE  order[i] \in Names /\ TableRow(cols, order, k)[order[i]] = cols[i][k]
<1>1. order[i] \in Names /\ order[i] \in ToSet(order)
  BY ElementOfSeq, LenProperties DEF Heading, ToSet
<1>2. (CHOOSE j \in DOMAIN order : order[j] = order[i]) = i
  BY DEF Heading, Distinct
<1> QED
  BY <1>1, <1>2 DEF TableRow

LEMMA RowNoCell ==
  ASSUME NEW order, NEW col \in Names, \A i \in DOMAIN order : order[i] # col, NEW cols, NEW k
  PROVE  TableRow(cols, order, k)[col] = Null
BY DEF TableRow, ToSet

(* Rows are equal when their cells are.                                     *)
LEMMA RowByCells ==
  ASSUME NEW order, Heading(order), NEW cols, NEW k, NEW row, row = [col \in Names |-> row[col]],
         \A i \in DOMAIN order : cols[i][k] = row[order[i]],
         \A col \in Names : (\A i \in DOMAIN order : order[i] # col) => row[col] = Null
  PROVE  TableRow(cols, order, k) = row
<1> DEFINE t == TableRow(cols, order, k)
<1>1. t = [col \in Names |-> t[col]]
  BY DEF TableRow
<1>2. ASSUME NEW col \in Names
      PROVE  t[col] = row[col]
  <2>1. CASE \E i \in DOMAIN order : order[i] = col
    BY <2>1, RowCell
  <2>2. CASE \A i \in DOMAIN order : order[i] # col
    BY <2>2, RowNoCell
  <2> QED
    BY <2>1, <2>2
<1> HIDE DEF t
<1>3. t = row
  BY <1>1, <1>2
<1> QED
  BY <1>3 DEF t

(* A new column and new cells leave the earlier rows as they were.          *)
LEMMA SameRows ==
  ASSUME NEW order, Heading(order), NEW longer, Heading(longer), NEW cols, NEW more,
         NEW count, Extended(cols, order, more, longer, count)
  PROVE  RowsIn(more, longer, count) = RowsIn(cols, order, count)
<1>1. ASSUME NEW k \in 1..count
      PROVE  TableRow(more, longer, k) = TableRow(cols, order, k)
  <2> DEFINE row == TableRow(cols, order, k)
  <2>1. row = [col \in Names |-> row[col]]
    BY DEF TableRow
  <2>2. ASSUME NEW i \in DOMAIN longer
        PROVE  more[i][k] = row[longer[i]]
    <3>1. CASE i \in DOMAIN order
      <4>1. row[order[i]] = cols[i][k]
        BY <3>1, RowCell
      <4> QED
        BY <3>1, <4>1 DEF Extended
    <3>2. CASE i \notin DOMAIN order
      <4>1. \A j \in DOMAIN order : order[j] # longer[i]
        BY <3>2 DEF Extended, Heading, Distinct
      <4>2. longer[i] \in Names
        BY RowCell
      <4>3. row[longer[i]] = Null
        BY <4>1, <4>2, RowNoCell
      <4> QED
        BY <3>2, <4>3 DEF Extended
    <3> QED
      BY <3>1, <3>2
  <2>3. ASSUME NEW col \in Names, \A i \in DOMAIN longer : longer[i] # col
        PROVE  row[col] = Null
    <3>1. \A i \in DOMAIN order : order[i] # col
      BY <2>3 DEF Extended
    <3> QED
      BY <3>1, RowNoCell
  <2> HIDE DEF row
  <2>4. TableRow(more, longer, k) = row
    BY <2>1, <2>2, <2>3, RowByCells
  <2> QED
    BY <2>4 DEF row
<1> QED
  BY <1>1 DEF RowsIn

\* The cells of row k hold the values of the row, in the slots that are dirty.
Stored(cols, order, dirty, k, r) ==
  /\ \A i \in dirty : /\ i \in DOMAIN order /\ order[i] \in DOMAIN r
                      /\ cols[i][k] = Cell(order[i], r[order[i]])
  /\ \A col \in DOMAIN r : \E i \in dirty : order[i] = col

\* A table with low rows whose dirty slots have a cell more.
Ragged(cols, order, low, dirty) ==
  /\ Heading(order) /\ cols \in Seq(Seq(Cells)) /\ Len(cols) = Len(order)
  /\ low \in Nat /\ Even(cols, low, dirty)

LEMMA RaggedLens ==
  ASSUME NEW cols, NEW order, NEW low, NEW dirty, Ragged(cols, order, low, dirty)
  PROVE  /\ Len(cols) \in Nat /\ DOMAIN order = 1..Len(cols) /\ DOMAIN cols = 1..Len(cols)
         /\ \A i \in 1..Len(cols) : /\ cols[i] \in Seq(Cells)
                                    /\ Len(cols[i]) = IF i \in dirty THEN low + 1 ELSE low
<1>1. Len(cols) \in Nat /\ DOMAIN order = 1..Len(cols) /\ DOMAIN cols = 1..Len(cols)
  BY LenProperties DEF Ragged, Heading
<1>2. \A i \in 1..Len(cols) : cols[i] \in Seq(Cells)
  BY ElementOfSeq DEF Ragged
<1> QED
  BY <1>1, <1>2 DEF Ragged, Even, One

(* Null-filling closes the row.                                             *)
LEMMA FilledCells ==
  ASSUME NEW cols, NEW order, NEW low, NEW dirty, Ragged(cols, order, low, dirty),
         NEW i \in 1..Len(cols)
  PROVE  /\ NullFill(cols, dirty)[i] \in Seq(Cells)
         /\ Len(NullFill(cols, dirty)[i]) = low + 1
         /\ \A k \in 1..low : NullFill(cols, dirty)[i][k] = cols[i][k]
         /\ NullFill(cols, dirty)[i][low + 1] = IF i \in dirty THEN cols[i][low + 1] ELSE Null
<1> DEFINE cells == cols[i]
           new == NullFill(cols, dirty)[i]
<1>1. cells \in Seq(Cells) /\ Len(cells) = IF i \in dirty THEN low + 1 ELSE low
  BY RaggedLens
<1>2. cols \in Seq(Seq(Cells)) /\ low \in Nat
  BY DEF Ragged
<1>3. Null \in Cells
  BY DEF Cells
<1>4. (i \in dirty => new = cells) /\ (i \notin dirty => new = Append(cells, Null))
  BY <1>2, NullFillFacts
<1> HIDE DEF cells, new
<1>5. /\ new \in Seq(Cells) /\ Len(new) = low + 1
      /\ \A k \in 1..low : new[k] = cells[k]
      /\ new[low + 1] = IF i \in dirty THEN cells[low + 1] ELSE Null
  <2>1. CASE i \in dirty
    BY <1>1, <1>4, <2>1
  <2>2. CASE i \notin dirty
    <3>1. /\ new \in Seq(Cells) /\ Len(new) = Len(cells) + 1
          /\ \A k \in 1..Len(cells) : new[k] = cells[k]
          /\ new[Len(cells) + 1] = Null
      BY <1>1, <1>3, <1>4, <2>2, AppendProperties
    <3> QED
      BY <1>1, <1>2, <2>2, <3>1
  <2> QED
    BY <2>1, <2>2
<1> QED
  BY <1>5 DEF cells, new

LEMMA RowsSequence ==
  ASSUME NEW cols, NEW order, NEW count \in Nat
  PROVE  IsSequence(RowsIn(cols, order, count)) /\ Len(RowsIn(cols, order, count)) = count
<1> DEFINE t == RowsIn(cols, order, count)
           S == {t[k] : k \in 1..count}
<1>1. t \in [1..count -> S]
  BY DEF RowsIn
<1> HIDE DEF S
<1>2. t \in Seq(S)
  BY <1>1, SeqDef
<1> QED
  BY <1>1, <1>2, SequenceOf, LenProperties

LEMMA ConcatFacts ==
  ASSUME NEW s, IsSequence(s), NEW t, IsSequence(t), NEW x
  PROVE  /\ Append(s \o t, x) = s \o Append(t, x)
         /\ IsSequence(s \o t)
         /\ s \o <<>> = s
         /\ s = <<>> => s \o t = t
<1> DEFINE S == ToSet(s) \cup ToSet(t) \cup {x}
<1>1. s \in Seq(S) /\ t \in Seq(S) /\ x \in S
  <2>1. s \in Seq(ToSet(s)) /\ t \in Seq(ToSet(t))
    BY DEF IsSequence
  <2>2. ToSet(s) \subseteq S /\ ToSet(t) \subseteq S
    OBVIOUS
  <2> HIDE DEF S
  <2> QED
    BY <2>1, <2>2, SeqMonotonic DEF S
<1> HIDE DEF S
<1>2. Append(s \o t, x) = s \o Append(t, x)
  BY <1>1
<1>3. s \o t \in Seq(S)
  BY <1>1
<1>4. s \o <<>> = s /\ (s = <<>> => s \o t = t)
  BY <1>1
<1> QED
  BY <1>2, <1>3, <1>4, SequenceOf

(* A sequence that is another with one element more.                        *)
LEMMA AppendIs ==
  ASSUME NEW t, IsSequence(t), NEW u, IsSequence(u), Len(u) = Len(t) + 1,
         \A k \in 1..Len(t) : u[k] = t[k]
  PROVE  u = Append(t, u[Len(u)])
<1> DEFINE S == ToSet(t) \cup ToSet(u)
<1>0. t \in Seq(S) /\ u \in Seq(S)
  <2>1. t \in Seq(ToSet(t)) /\ u \in Seq(ToSet(u))
    BY DEF IsSequence
  <2>2. ToSet(t) \subseteq S /\ ToSet(u) \subseteq S
    OBVIOUS
  <2> HIDE DEF S
  <2> QED
    BY <2>1, <2>2, SeqMonotonic
<1> HIDE DEF S
<1>1. Len(t) \in Nat /\ DOMAIN t = 1..Len(t) /\ DOMAIN u = 1..Len(u)
  BY <1>0, LenProperties
<1>2. u[Len(u)] \in S
  BY <1>0, <1>1
<1> DEFINE a == Append(t, u[Len(u)])
<1>3. a \in Seq(S) /\ Len(a) = Len(t) + 1 /\ a[Len(t) + 1] = u[Len(u)]
      /\ \A k \in 1..Len(t) : a[k] = t[k]
  BY <1>0, <1>1, <1>2, AppendProperties
<1> HIDE DEF a
<1>4. \A k \in 1..Len(u) : a[k] = u[k]
  BY <1>1, <1>3
<1>5. u = a
  BY <1>0, <1>3, <1>4, SeqEqual
<1> QED
  BY <1>5 DEF a

(* A row that is closed is the row of the input, and the rows before it stay, *)
(* whether it is kept or popped.                                              *)
LEMMA RowClosed ==
  ASSUME NEW cols, NEW order, NEW low, NEW dirty, Ragged(cols, order, low, dirty),
         NEW r, DOMAIN r \subseteq Names, Stored(cols, order, dirty, low + 1, r)
  PROVE  /\ TableRow(NullFill(cols, dirty), order, low + 1) = RowFrom(r)
         /\ RowsIn(Popped(NullFill(cols, dirty)), order, low) = RowsIn(cols, order, low)
         /\ RowsIn(NullFill(cols, dirty), order, low + 1)
              = Append(RowsIn(cols, order, low), Project(RowFrom(r)))
<1> DEFINE new == NullFill(cols, dirty)
           row == RowFrom(r)
<1>1. /\ Heading(order) /\ low \in Nat /\ DOMAIN order = 1..Len(cols)
      /\ cols \in Seq(Seq(Cells)) /\ Len(cols) \in Nat
  BY RaggedLens DEF Ragged
<1>2. new \in Seq(Seq(Cells)) /\ Len(new) = Len(cols)
  BY <1>1, NullFillFacts
<1>3. ASSUME NEW i \in 1..Len(cols)
      PROVE  /\ Len(new[i]) = low + 1
             /\ \A k \in 1..low : new[i][k] = cols[i][k]
             /\ new[i][low + 1] = IF i \in dirty THEN cols[i][low + 1] ELSE Null
  BY FilledCells
<1> HIDE DEF new
<1>4. TableRow(new, order, low + 1) = row
  <2>1. row = [col \in Names |-> row[col]]
    BY DEF RowFrom
  <2>2. ASSUME NEW i \in DOMAIN order
        PROVE  new[i][low + 1] = row[order[i]]
    <3>1. order[i] \in Names
      BY <1>1, RowCell
    <3>2. CASE i \in dirty
      BY <1>1, <1>3, <3>1, <3>2 DEF Stored, RowFrom
    <3>3. CASE i \notin dirty
      <4>1. order[i] \notin DOMAIN r
        BY <1>1, <3>3 DEF Stored, Heading, Distinct
      <4> QED
        BY <1>1, <1>3, <3>1, <3>3, <4>1 DEF RowFrom
    <3> QED
      BY <3>2, <3>3
  <2>3. ASSUME NEW col \in Names, \A i \in DOMAIN order : order[i] # col
        PROVE  row[col] = Null
    BY <2>3 DEF Stored, RowFrom
  <2> DEFINE k == low + 1
  <2>4. \A i \in DOMAIN order : new[i][k] = row[order[i]]
    BY <2>2
  <2> HIDE DEF row, k
  <2>5. \A col \in Names : (\A i \in DOMAIN order : order[i] # col) => row[col] = Null
    BY <2>3
  <2>6. Heading(order)
    BY <1>1
  <2>7. TableRow(new, order, k) = row
    BY <2>1, <2>4, <2>5, <2>6, RowByCells
  <2> QED
    BY <2>7 DEF k
<1>5. RowsIn(new, order, low) = RowsIn(cols, order, low)
  <2>1. Extended(cols, order, new, order, low)
    BY <1>1, <1>3 DEF Extended
  <2> QED
    BY <1>1, <2>1, SameRows
<1>6. RowsIn(Popped(new), order, low) = RowsIn(new, order, low)
  <2>1. ASSUME NEW i \in 1..Len(cols), NEW k \in 1..low
        PROVE  Popped(new)[i][k] = new[i][k]
    <3>1. Len(new[i]) - 1 = low
      BY <1>1, <1>3
    <3> QED
      BY <1>2, <3>1, PoppedFacts
  <2>2. Extended(new, order, Popped(new), order, low)
    BY <1>1, <2>1 DEF Extended
  <2> QED
    BY <1>1, <2>2, SameRows
<1>7. RowsIn(new, order, low + 1) = Append(RowsIn(new, order, low), Project(row))
  <2> DEFINE t == RowsIn(new, order, low)
             u == RowsIn(new, order, low + 1)
             S == {u[k] : k \in 1..(low + 1)}
  <2>1. /\ u = [k \in 1..(low + 1) |-> Project(TableRow(new, order, k))]
        /\ t = [k \in 1..low |-> Project(TableRow(new, order, k))]
    BY DEF RowsIn
  <2>2. u[low + 1] = Project(row)
    BY <1>1, <1>4, <2>1
  <2>3. IsSequence(t) /\ Len(t) = low
    BY <1>1, RowsSequence
  <2>4. IsSequence(u) /\ Len(u) = low + 1
    BY <1>1, RowsSequence
  <2>5. \A k \in 1..low : u[k] = t[k]
    BY <1>1, <2>1
  <2> HIDE DEF t, u, row
  <2>6. u = Append(t, u[Len(u)])
    <3>1. Len(u) = Len(t) + 1 /\ \A k \in 1..Len(t) : u[k] = t[k]
      BY <2>3, <2>4, <2>5
    <3> QED
      BY <2>3, <2>4, <3>1, AppendIs
  <2>7. u = Append(t, Project(row))
    BY <2>2, <2>4, <2>6
  <2> QED
    BY <2>7 DEF t, u
<1> QED
  BY <1>4, <1>5, <1>6, <1>7 DEF new, row

-----------------------------------------------------------------------------
(* The inductive invariant.                                                *)

\* The row is in the buffer, not yet in the columns.
Held == Buffering /\ ~direct

\* The rest of the row is jumped over.
Skipping == ShortCircuits /\ state = "Fail"

HeldRow == Represents(column_order, fields, raws)

StoredRow == Stored(columns, column_order, row_dirty, backfill + 1, raws)

RowHeld ==
  /\ ~Skipping => HeldRow
  /\ state # "Undecided" => state = said

RowPushed ==
  /\ state = "Undecided"
  /\ StoredRow
  /\ direct => said = "Pass"

RowsDone == IF pc = "row" THEN backfill ELSE row_count

DoneTable == RowsIn(columns, column_order, RowsDone)

\* A learned name is the name of a kept column.
LearnedNames ==
  UsesSlots => \A o \in Ordinals : ordinal_expect[o] # NoSlot =>
    resolve_field(ordinal_expect[o].name) = ordinal_expect[o].name

\* The rows so far are right.
OutputExact ==
  /\ IsSequence(emitted)
  /\ column_order = <<>> => emitted = <<>>
  /\ expected = emitted \o DoneTable

\* The row being read is where it should be.
RowExact == pc = "row" => IF Held THEN RowHeld ELSE RowPushed

RowsExact ==
  /\ LearnedNames
  /\ Begins(predeclared, column_order)
  /\ OutputExact
  /\ RowExact

ExactInv ==
  /\ pc = "finished" /\ result = "ok" /\ column_order # <<>> => emitted = expected
  /\ NoError /\ pc # "finished" => RowsExact

(* The operators above in the next state.                                   *)
LEMMA NextRaws ==
  ASSUME Fixed
  PROVE  raws' = RawOf(row_in') /\ said' = TreeOn(raws')
<1>1. raws' = RawOf(row_in')
  BY DEF Fixed, raws, RawOf, LastOf, Writes, resolve_field, ren, field_map, drop_fields,
         schema_order, filter_references, Leaves, Filter, Names
<1>2. said' = TreeOn(raws')
  BY DEF Fixed, said, TreeOn, ByName, eval_predicate, EvalTree, BufferedLeaf, BufferedHolds,
         LiteralMissing, LeafColumns, buffered_literal, Operand, Seen, TakesNull, ComparesText,
         Cell, Refuses, StdRefuses, column_type, kinds, Holds, MissingState, Compatible,
         PredName, field_types, dictionary_columns, Unparsable, StdUnparsable, resolve_field,
         ren, field_map, drop_fields, schema_order, filter_references, Leaves, Filter, Names
<1> QED
  BY <1>1, <1>2

LEMMA NextRows ==
  ASSUME Fixed
  PROVE  /\ HeldRow' <=> Represents(column_order', fields', raws')
         /\ StoredRow' <=> Stored(columns', column_order', row_dirty', backfill' + 1, raws')
         /\ DoneTable' = RowsIn(columns', column_order', RowsDone')
<1>1. HeldRow' <=> Represents(column_order', fields', raws')
  BY DEF HeldRow, Represents
<1>2. StoredRow' <=> Stored(columns', column_order', row_dirty', backfill' + 1, raws')
  BY DEF Fixed, StoredRow, Stored, Cell, Refuses, column_type, field_types, dictionary_columns,
         Unparsable
<1>3. DoneTable' = RowsIn(columns', column_order', RowsDone')
  BY DEF Fixed, DoneTable, RowsIn, Project, TableRow, Wanted, Names, schema_order, drop_fields
<1> QED
  BY <1>1, <1>2, <1>3

LEMMA NextPlan ==
  ASSUME Fixed
  PROVE  /\ (predeclared)' = predeclared
         /\ UNCHANGED <<HasFilter, ShortCircuits, schema_order, UsesSlots, Ordinals, pred_names>>
         /\ (ordinal_expect' = ordinal_expect => (LearnedNames' <=> LearnedNames))
<1>1. (predeclared)' = predeclared
  BY DEF Fixed, predeclared, Added, AddName, predicate_fields, PredName, resolve_field, ren,
         field_map, drop_fields, schema_order, filter_references, Leaves, Filter
<1>2. UNCHANGED <<HasFilter, ShortCircuits, schema_order, UsesSlots, Ordinals, pred_names>>
  BY DEF Fixed, HasFilter, ShortCircuits, UsesSlots, Ordinals, MaxFields, pred_names, PredName,
         resolve_field, ren, field_map, drop_fields, schema_order, filter_references, Leaves, Filter
<1>3. ordinal_expect' = ordinal_expect => (LearnedNames' <=> LearnedNames)
  BY DEF Fixed, LearnedNames, UsesSlots, Ordinals, MaxFields, resolve_field, ren,
         field_map, drop_fields, schema_order, filter_references, Leaves, Filter
<1> QED
  BY <1>1, <1>2, <1>3

-----------------------------------------------------------------------------
(* What a put does to the rows.                                            *)

\* A table that is ready for a further cell.
Ready(cols, order, low) ==
  /\ Heading(order) /\ cols \in Seq(Seq(Cells)) /\ Len(cols) = Len(order)
  /\ low \in Int /\ low <= row_count
  /\ \A i \in 1..Len(cols) : Len(cols[i]) >= low

LEMMA ReadyLens ==
  ASSUME NEW cols, NEW order, NEW low, Ready(cols, order, low)
  PROVE  /\ Len(cols) \in Nat /\ DOMAIN order = 1..Len(cols) /\ DOMAIN cols = 1..Len(cols)
         /\ \A i \in 1..Len(cols) : cols[i] \in Seq(Cells) /\ Len(cols[i]) \in Nat
<1>1. Len(cols) \in Nat /\ DOMAIN order = 1..Len(cols) /\ DOMAIN cols = 1..Len(cols)
  BY LenProperties DEF Ready, Heading
<1>2. \A i \in 1..Len(cols) : cols[i] \in Seq(Cells)
  BY ElementOfSeq DEF Ready
<1>3. \A i \in 1..Len(cols) : Len(cols[i]) \in Nat
  BY <1>2, LenProperties
<1> QED
  BY <1>1, <1>2, <1>3

LEMMA TableReady ==
  ASSUME TableType, Filled
  PROVE  Ready(columns, column_order, backfill)
<1>1. row_count \in Nat /\ direct \in BOOLEAN
  BY DEF TableType
<1>2. backfill \in Int /\ backfill <= row_count
  BY <1>1 DEF backfill
<1>3. ASSUME NEW i \in 1..Len(columns)
      PROVE  Len(columns[i]) >= backfill
  <2>1. Len(columns[i]) >= backfill + One(i \in row_dirty)
    BY DEF Filled
  <2>2. Len(columns[i]) \in Nat
    BY ColumnLens
  <2>3. One(i \in row_dirty) \in {0, 1}
    BY DEF One
  <2> QED
    BY <1>2, <2>1, <2>2, <2>3
<1> QED
  BY <1>2, <1>3 DEF Ready, Heading, TableType

(* A new column is null in the rows it has missed.                          *)
LEMMA EnsuredRows ==
  ASSUME TableType, Filled, NEW cols, NEW order, NEW slot, Ensured(cols, order, slot)
  PROVE  /\ Ready(cols, order, backfill)
         /\ RowsIn(cols, order, backfill) = RowsIn(columns, column_order, backfill)
<1>1. Ready(columns, column_order, backfill)
  BY TableReady
<1>2. /\ Len(columns) \in Nat /\ DOMAIN column_order = 1..Len(columns)
      /\ Heading(column_order) /\ backfill \in Int /\ backfill <= row_count
  BY <1>1, ReadyLens DEF Ready
<1>3. /\ Heading(order) /\ Len(cols) = Len(order) /\ cols \in Seq(Seq(Cells))
  BY DEF Ensured, Heading
<1>4. DOMAIN order = 1..Len(cols)
  BY <1>3, LenProperties DEF Heading
<1>5. /\ Len(cols) \in Nat /\ Len(columns) <= Len(cols)
      /\ \A i \in 1..Len(columns) : cols[i] = columns[i] /\ i <= Len(cols)
      /\ \A i \in 1..Len(cols) : i <= Len(columns) \/ (i = slot /\ cols[i] = Backfilled)
  BY EnsuredColumns
<1>6. \A i \in 1..Len(columns) : order[i] = column_order[i]
  BY DEF Ensured
<1>7. /\ Len(Backfilled) = IF backfill < 0 THEN 0 ELSE backfill
      /\ \A k \in 1..Len(Backfilled) : Backfilled[k] = Null
  BY BackfilledFacts DEF TableType
<1>8. Extended(columns, column_order, cols, order, backfill)
  <2>1. ASSUME NEW i \in 1..Len(cols), i \notin 1..Len(columns), NEW k \in 1..backfill
        PROVE  cols[i][k] = Null
    <3>1. cols[i] = Backfilled
      BY <1>5, <2>1
    <3>2. k \in 1..Len(Backfilled)
      BY <1>2, <1>7
    <3> QED
      BY <1>7, <3>1, <3>2
  <2>2. \A i \in 1..Len(columns) : i \in 1..Len(cols) /\ order[i] = column_order[i] /\ cols[i] = columns[i]
    BY <1>5, <1>6
  <2> QED
    BY <1>2, <1>4, <2>1, <2>2 DEF Extended
<1>9. Ready(cols, order, backfill)
  <2>1. ASSUME NEW i \in 1..Len(cols)
        PROVE  Len(cols[i]) >= backfill
    <3>1. CASE i <= Len(columns)
      <4>1. i \in 1..Len(columns)
        BY <1>2, <3>1
      <4> QED
        BY <1>1, <1>5, <4>1 DEF Ready
    <3>2. CASE ~ i <= Len(columns)
      <4>1. cols[i] = Backfilled
        BY <1>5, <3>2
      <4> QED
        BY <1>2, <1>7, <4>1
    <3> QED
      BY <3>1, <3>2
  <2> QED
    BY <1>2, <1>3, <2>1 DEF Ready
<1> QED
  BY <1>2, <1>3, <1>8, <1>9, SameRows

(* Values that are pushed leave the rows before alone.                      *)
LEMMA PushedRows ==
  ASSUME NEW cols, NEW order, row_count \in Nat, Ready(cols, order, backfill), NEW new,
         \A i \in 1..Len(cols) :
           new[i] = cols[i] \/ \E cell \in Cells : new[i] = PushCell(cols[i], row_count, cell)
  PROVE  RowsIn(new, order, backfill) = RowsIn(cols, order, backfill)
<1>1. /\ DOMAIN order = 1..Len(cols) /\ backfill \in Int /\ backfill <= row_count
      /\ Heading(order) /\ \A i \in 1..Len(cols) : Len(cols[i]) >= backfill
  BY ReadyLens DEF Ready
<1>2. ASSUME NEW i \in 1..Len(cols), NEW k \in 1..backfill
      PROVE  new[i][k] = cols[i][k]
  <2>1. CASE new[i] = cols[i]
    BY <2>1
  <2>2. CASE \E cell \in Cells : new[i] = PushCell(cols[i], row_count, cell)
    <3>1. PICK cell \in Cells : new[i] = PushCell(cols[i], row_count, cell)
      BY <2>2
    <3>2. cols[i] \in Seq(Cells) /\ Len(cols[i]) \in Nat
      BY ReadyLens
    <3> DEFINE cells == cols[i]
    <3>3. k \in 1..row_count /\ k <= Len(cells)
      BY <1>1, <3>2
    <3>4. PushedTo(cells, row_count, cell, PushCell(cells, row_count, cell))
      BY <3>2, PushCellFacts
    <3>5. new[i] = PushCell(cells, row_count, cell)
      BY <3>1
    <3> HIDE DEF cells
    <3>6. new[i][k] = cells[k]
      BY <3>3, <3>4, <3>5 DEF PushedTo
    <3> QED
      BY <3>6 DEF cells
  <2> QED
    BY <1>2, <2>1, <2>2
<1>3. Extended(cols, order, new, order, backfill)
  BY <1>1, <1>2 DEF Extended
<1> QED
  BY <1>1, <1>3, SameRows

(* A cell in the column of a field stores its value.                        *)
LEMMA StoredPush ==
  ASSUME NEW order, Heading(order), NEW slot \in DOMAIN order, NEW v,
         NEW cols, NEW longer, NEW new, NEW dirty, NEW k, NEW r,
         Stored(cols, longer, dirty, k, r),
         \A i \in dirty : i \in DOMAIN order /\ order[i] = longer[i],
         \A i \in dirty : i # slot => new[i][k] = cols[i][k],
         new[slot][k] = Cell(order[slot], v)
  PROVE  Stored(new, order, dirty \cup {slot}, k, With(r, order[slot], v))
<1> DEFINE col == order[slot]
           more == With(r, col, v)
<1>1. /\ DOMAIN more = DOMAIN r \cup {col} /\ more[col] = v
      /\ \A c \in DOMAIN r : c # col => more[c] = r[c]
  BY DEF With
<1>2. ASSUME NEW i \in dirty, i # slot
      PROVE  order[i] # col
  BY <1>2 DEF Heading, Distinct
<1> HIDE DEF more
<1>3. ASSUME NEW i \in dirty \cup {slot}
      PROVE  /\ i \in DOMAIN order /\ order[i] \in DOMAIN more
             /\ new[i][k] = Cell(order[i], more[order[i]])
  <2>1. CASE i = slot
    BY <1>1, <2>1
  <2>2. CASE i # slot
    <3>1. i \in dirty /\ order[i] # col
      BY <1>2, <1>3, <2>2
    <3>2. order[i] \in DOMAIN r /\ cols[i][k] = Cell(order[i], r[order[i]])
      BY <3>1 DEF Stored
    <3> QED
      BY <1>1, <2>2, <3>1, <3>2
  <2> QED
    BY <2>1, <2>2
<1>4. ASSUME NEW c \in DOMAIN more
      PROVE  \E i \in dirty \cup {slot} : order[i] = c
  <2>1. CASE c = col
    BY <2>1
  <2>2. CASE c # col
    <3>1. PICK i \in dirty : longer[i] = c
      BY <1>1, <2>2 DEF Stored
    <3> QED
      BY <3>1
  <2> QED
    BY <2>1, <2>2
<1>5. Stored(new, order, dirty \cup {slot}, k, more)
  BY <1>3, <1>4 DEF Stored
<1> QED
  BY <1>5 DEF more

(* A slot of the buffer holds the value of a field.                         *)
LEMMA RepresentsPut ==
  ASSUME NEW order, Heading(order), NEW slot \in DOMAIN order, NEW v, NEW longer,
         NEW values, NEW r, Represents(longer, values, r),
         \A i \in DOMAIN values : i \in DOMAIN order /\ order[i] = longer[i]
  PROVE  Represents(order, [i \in DOMAIN values \cup {slot} |-> IF i = slot THEN v ELSE values[i]],
                    With(r, order[slot], v))
<1> DEFINE col == order[slot]
           more == With(r, col, v)
           held == [i \in DOMAIN values \cup {slot} |-> IF i = slot THEN v ELSE values[i]]
<1>1. /\ DOMAIN more = DOMAIN r \cup {col} /\ more[col] = v
      /\ \A c \in DOMAIN r : c # col => more[c] = r[c]
  BY DEF With
<1>2. ASSUME NEW i \in DOMAIN values, i # slot
      PROVE  order[i] # col
  BY <1>2 DEF Heading, Distinct
<1>3. /\ DOMAIN held = DOMAIN values \cup {slot} /\ held[slot] = v
      /\ \A i \in DOMAIN values : i # slot => held[i] = values[i]
  OBVIOUS
<1> HIDE DEF more, held
<1>4. ASSUME NEW i \in DOMAIN held
      PROVE  order[i] \in DOMAIN more /\ held[i] = more[order[i]]
  <2>1. CASE i = slot
    BY <1>1, <1>3, <2>1
  <2>2. CASE i # slot
    <3>1. i \in DOMAIN values /\ order[i] # col
      BY <1>2, <1>3, <1>4, <2>2
    <3>2. order[i] \in DOMAIN r /\ values[i] = r[order[i]]
      BY <3>1 DEF Represents
    <3> QED
      BY <1>1, <1>3, <2>2, <3>1, <3>2
  <2> QED
    BY <2>1, <2>2
<1>5. ASSUME NEW c \in DOMAIN more
      PROVE  \E i \in DOMAIN held : order[i] = c
  <2>1. CASE c = col
    BY <1>3, <2>1
  <2>2. CASE c # col
    <3>1. PICK i \in DOMAIN values : longer[i] = c
      BY <1>1, <2>2 DEF Represents
    <3> QED
      BY <1>3, <3>1
  <2> QED
    BY <2>1, <2>2
<1>6. Represents(order, held, more)
  BY <1>4, <1>5 DEF Represents
<1> QED
  BY <1>6 DEF more, held

(* A buffered row that moves into the columns is stored there.              *)
LEMMA DrainedStored ==
  ASSUME NEW order, NEW values, NEW r, Represents(order, values, r),
         DOMAIN values \subseteq DOMAIN order, NEW new, NEW k,
         \A i \in DOMAIN values : new[i][k] = Cell(order[i], values[i])
  PROVE  Stored(new, order, DOMAIN values, k, r)
BY DEF Represents, Stored

-----------------------------------------------------------------------------
(* Putting a field.                                                        *)

(* What an offered field adds to the row.                                   *)
LEMMA OfferRaws ==
  ASSUME TypeInv, Fixed, NEW raw \in Names, NEW v \in Values, Offer(raw, v)
  PROVE  /\ raws' = IF resolve_field(raw) = NoName THEN raws
                    ELSE With(raws, resolve_field(raw), v)
         /\ Raws(raws) /\ DOMAIN raws \subseteq Names
         /\ UniqueFields /\ resolve_field(raw) # NoName => resolve_field(raw) \notin DOMAIN raws
<1> DEFINE col == resolve_field(raw)
<1>1. config \in Configs /\ row_in \in Seq(Entries)
  BY DEF TypeInv, InputType, Entries
<1>2. raws' = RawOf(row_in')
  BY NextRaws
<1>3. /\ row_in' \in Seq(Entries) /\ Len(row_in') = Len(row_in) + 1
      /\ \A i \in 1..Len(row_in) : row_in'[i] = row_in[i]
      /\ row_in'[Len(row_in')] = [raw |-> raw, value |-> v]
  BY OfferFacts DEF Entries
<1>4. RawOf(row_in') = IF col = NoName THEN RawOf(row_in) ELSE With(RawOf(row_in), col, v)
  <2> DEFINE more == row_in'
  <2>1. /\ more \in Seq(Entries) /\ Len(more) = Len(row_in) + 1
        /\ \A i \in 1..Len(row_in) : more[i] = row_in[i]
        /\ more[Len(more)] = [raw |-> raw, value |-> v]
    BY <1>3
  <2> HIDE DEF more
  <2>2. RawOf(more) = IF col = NoName THEN RawOf(row_in) ELSE With(RawOf(row_in), col, v)
    BY <1>1, <2>1, RawAppend
  <2> QED
    BY <2>2 DEF more
<1>5. Raws(raws)
  BY <1>1, RawType DEF raws
<1>6. ASSUME UniqueFields, col # NoName, col \in DOMAIN raws
      PROVE  FALSE
  <2>1. Writes(row_in, col) # {}
    BY <1>6 DEF raws, RawOf
  <2>2. PICK i \in DOMAIN row_in : resolve_field(row_in[i].raw) = col
    BY <2>1 DEF Writes
  <2>3. ren(row_in[i].raw) = col /\ ren(raw) = col
    BY <1>6, <2>2 DEF resolve_field
  <2> QED
    BY <1>6, <2>3 DEF Offer
<1> QED
  BY <1>2, <1>4, <1>5, <1>6 DEF raws, Raws

(* A verdict that can cut the row short stands.                             *)
LEMMA SaidStays ==
  ASSUME ExactConfigs, TypeInv, Fixed, NEW raw \in Names, NEW v \in Values, Offer(raw, v),
         DecidesEarly, said # "Undecided"
  PROVE  said' = said
<1> DEFINE col == resolve_field(raw)
<1>1. config \in Configs /\ UniqueFields
  BY ExactFacts DEF TypeInv
<1>2. said' = TreeOn(raws')
  BY NextRaws
<1>3. CASE col = NoName
  BY <1>2, <1>3, OfferRaws DEF said
<1>4. CASE col # NoName
  <2> DEFINE more == With(raws, col, v)
  <2>1. raws' = more /\ DOMAIN raws \subseteq Names /\ col \notin DOMAIN raws
    BY <1>1, <1>4, OfferRaws
  <2>2. col \in Names
    BY <1>1, <1>4, ResolvedNames
  <2>3. /\ DOMAIN raws \subseteq DOMAIN more /\ DOMAIN more \subseteq Names
        /\ \A c \in DOMAIN raws : more[c] = raws[c]
    BY <2>1, <2>2 DEF With
  <2> HIDE DEF more
  <2>4. TreeOn(more) = TreeOn(raws)
    BY <1>1, <2>3, TreeGrows DEF said
  <2> QED
    BY <1>2, <2>1, <2>4 DEF said
<1> QED
  BY <1>3, <1>4

(* Columns that are born after the predeclared ones.                        *)
LEMMA EnsuredHeading ==
  ASSUME TypeInv, Fixed, NEW cols, NEW order, NEW slot, Ensured(cols, order, slot),
         column_order' = order, Begins(predeclared, column_order)
  PROVE  Begins(predeclared, column_order)' /\ column_order' # <<>>
<1>1. DOMAIN column_order = 1..Len(columns) /\ Len(columns) \in Nat
  BY ColumnLens, LenProperties DEF TypeInv, TableType
<1>2. /\ DOMAIN order = 1..Len(cols) /\ Len(columns) <= Len(cols) /\ Len(cols) \in Nat
      /\ slot \in 1..Len(cols)
      /\ \A i \in 1..Len(columns) : order[i] = column_order[i]
  <2>1. DOMAIN order = 1..Len(order)
    BY LenProperties DEF Ensured
  <2> QED
    BY <2>1, EnsuredColumns DEF Ensured, TypeInv
<1>3. Begins(predeclared, order)
  BY <1>1, <1>2 DEF Begins
<1>4. (predeclared)' = predeclared
  BY NextPlan
<1>5. order # <<>>
  BY <1>2
<1> QED
  BY <1>3, <1>4, <1>5 DEF Begins

LEMMA KeptOutput ==
  ASSUME Fixed, OutputExact, pc = "row", pc' = "row", UNCHANGED <<expected, emitted>>,
         column_order' # <<>> \/ UNCHANGED column_order,
         RowsIn(columns', column_order', backfill') = RowsIn(columns, column_order, backfill)
  PROVE  OutputExact'
<1>1. DoneTable' = DoneTable
  <2>1. RowsDone' = backfill' /\ RowsDone = backfill
    BY DEF RowsDone
  <2> QED
    BY <2>1, NextRows DEF DoneTable
<1>2. IsSequence(emitted)'
  BY DEF OutputExact, IsSequence, ToSet
<1> QED
  BY <1>1, <1>2 DEF OutputExact

(* A value that is pushed.                                                  *)
LEMMA PushExact ==
  ASSUME ExactConfigs, TypeInv, Fixed, RowsExact, NEW raw \in Names, NEW v \in Values,
         Offer(raw, v), resolve_field(raw) # NoName, ~Held, Exact, Exact',
         direct => row_count >= 1 /\ DecidesEarly,
         NEW cols, NEW order, NEW slot,
         Pushes(cols, order, slot, Cell(resolve_field(raw), v)), order[slot] = resolve_field(raw),
         UNCHANGED <<fields, state, direct>>
  PROVE  Begins(predeclared, column_order)' /\ OutputExact' /\ RowExact'
<1> DEFINE col == resolve_field(raw)
           cell == Cell(col, v)
           k == backfill + 1
<1>1. pc = "row" /\ UNCHANGED <<pc, buffer_worthwhile, emitted, expected>>
  BY DEF Offer, output_vars
<1>2. /\ TableType /\ row_count \in Nat /\ direct \in BOOLEAN
      /\ Ensured(cols, order, slot) /\ column_order' = order
      /\ UNCHANGED <<row_count, direct>> /\ cell \in Cells
      /\ row_dirty' = row_dirty \cup {slot}
  BY DEF TypeInv, TableType, Pushes
<1>3. Filled
  <2>1. \A i \in 1..Len(columns) : Len(columns[i]) \in Nat
    BY <1>2, ColumnLens
  <2> QED
    BY <2>1 DEF Exact, Filled
<1>4. backfill' = backfill /\ backfill \in Nat
  BY <1>2 DEF backfill
<1>5. /\ Ready(cols, order, backfill)
      /\ RowsIn(cols, order, backfill) = RowsIn(columns, column_order, backfill)
  BY <1>2, <1>3, EnsuredRows
<1>6. \A i \in 1..Len(cols) :
        columns'[i] = IF i = slot THEN PushCell(cols[i], row_count, cell) ELSE cols[i]
  BY DEF Pushes
<1>7. RowsIn(columns', order, backfill) = RowsIn(cols, order, backfill)
  <2> DEFINE new == columns'
  <2>1. \A i \in 1..Len(cols) :
          new[i] = cols[i] \/ \E c \in Cells : new[i] = PushCell(cols[i], row_count, c)
    BY <1>2, <1>6
  <2> HIDE DEF new
  <2>2. RowsIn(new, order, backfill) = RowsIn(cols, order, backfill)
    BY <1>2, <1>5, <2>1, PushedRows
  <2> QED
    BY <2>2 DEF new
<1>8. Begins(predeclared, column_order)' /\ column_order' # <<>>
  BY <1>2, EnsuredHeading DEF RowsExact
<1>9. OutputExact'
  BY <1>1, <1>2, <1>4, <1>5, <1>7, <1>8, KeptOutput DEF RowsExact
<1>10. columns'[slot][k] = cell
  <2>1. slot \in 1..Len(cols) /\ Len(columns') = Len(cols)
    BY <1>2 DEF Ensured, Pushes
  <2>2. Len(columns'[slot]) = backfill' + One(slot \in row_dirty')
    BY <2>1 DEF Exact
  <2>3. Len(columns'[slot]) = k
    BY <1>2, <1>4, <2>2 DEF One
  <2> DEFINE cells == cols[slot]
  <2>4. cells \in Seq(Cells)
    BY <1>5, <2>1, ReadyLens
  <2>5. columns'[slot] = PushCell(cells, row_count, cell)
    BY <1>6, <2>1
  <2> HIDE DEF cells
  <2>6. columns'[slot][Len(columns'[slot])] = cell
    BY <1>2, <2>4, <2>5, PushCellFacts DEF PushedTo
  <2> QED
    BY <2>3, <2>6
<1>11. ASSUME NEW i \in row_dirty
       PROVE  /\ i \in DOMAIN order /\ order[i] = column_order[i]
              /\ i # slot => columns'[i][k] = columns[i][k]
  <2>1. i \in 1..Len(columns)
    BY <1>2, ColumnLens DEF TableType
  <2>2. cols[i] = columns[i] /\ i \in 1..Len(cols)
    BY <1>2, <2>1, EnsuredColumns
  <2>3. DOMAIN order = 1..Len(cols)
    BY <1>5, ReadyLens
  <2> QED
    BY <1>2, <1>6, <2>1, <2>2, <2>3 DEF Ensured
<1>12. ~Held' /\ RowPushed
  <2>1. HasFilter' = HasFilter
    BY NextPlan
  <2> QED
    BY <1>1, <1>2, <2>1 DEF Held, Buffering, RowsExact, RowExact
<1>13. StoredRow'
  <2>1. raws' = With(raws, col, v)
    BY OfferRaws
  <2>2. Stored(columns, column_order, row_dirty, k, raws)
    BY <1>12 DEF RowPushed, StoredRow
  <2>3. slot \in DOMAIN order /\ Heading(order)
    BY <1>5, ReadyLens, <1>2 DEF Ready, Ensured
  <2> DEFINE new == columns'
  <2>4. /\ \A i \in row_dirty : i \in DOMAIN order /\ order[i] = column_order[i]
        /\ \A i \in row_dirty : i # slot => new[i][k] = columns[i][k]
        /\ new[slot][k] = Cell(order[slot], v)
    BY <1>10, <1>11
  <2> HIDE DEF new, k
  <2>5. Stored(new, order, row_dirty \cup {slot}, k, With(raws, order[slot], v))
    BY <2>2, <2>3, <2>4, StoredPush
  <2>6. Stored(columns', column_order', row_dirty', backfill' + 1, raws')
    BY <1>2, <1>4, <2>1, <2>5 DEF new, k
  <2> QED
    BY <2>6, NextRows
<1>14. direct' => said' = "Pass"
  BY <1>2, <1>12, SaidStays DEF RowPushed
<1>15. RowExact'
  BY <1>12, <1>13, <1>14 DEF RowExact, RowPushed
<1> QED
  BY <1>8, <1>9, <1>15

\* The buffer with a further value.
Holding(slot, v) == [i \in DOMAIN fields \cup {slot} |-> IF i = slot THEN v ELSE fields[i]]

\* What the predicate says of it.
VerdictOn(order, slot, values) ==
  IF is_predicate_slot(order, slot) THEN eval_predicate(order, values) ELSE state

Commits(order, slot, values) ==
  is_predicate_slot(order, slot) /\ PassesEarly(VerdictOn(order, slot, values))

(* What BufferField does with a known column, part by part.                 *)
LEMMA BufferFieldParts ==
  ASSUME TypeInv, NEW col \in Names, NEW v \in Values, BufferField(col, v), ~unknown(col),
         NEW cols, NEW order, NEW slot, NEW values,
         cols = WithColumn(col), order = WithName(col), slot = ensure_column_idx(col),
         values = Holding(slot, v)
  PROVE  /\ Ensured(cols, order, slot) /\ order[slot] = col
         /\ column_order' = order
         /\ DOMAIN values = DOMAIN fields \cup {slot} /\ \A i \in DOMAIN values : values[i] \in Values
         /\ IF Commits(order, slot, values)
              THEN /\ columns' = Drained(cols, order, values) /\ state' = "Undecided"
                   /\ row_dirty' = row_dirty \cup DOMAIN values
                   /\ direct' /\ row_count' = row_count + 1
              ELSE /\ columns' = cols /\ fields' = values
                   /\ state' = VerdictOn(order, slot, values)
                   /\ UNCHANGED <<row_dirty, direct, row_count>>
<1>1. Ensured(cols, order, slot) /\ order[slot] = col
  BY EnsureColumn DEF TypeInv
<1>2. DOMAIN values = DOMAIN fields \cup {slot} /\ \A i \in DOMAIN values : values[i] \in Values
  BY DEF Holding, TypeInv, BufferType
<1>3. values = [i \in DOMAIN fields \cup {slot} |-> IF i = slot THEN v ELSE fields[i]]
  BY DEF Holding
<1>4. /\ column_order' = order
      /\ IF Commits(order, slot, values)
           THEN /\ columns' = Drained(cols, order, values) /\ state' = "Undecided"
                /\ row_dirty' = row_dirty \cup DOMAIN values
                /\ direct' /\ row_count' = row_count + 1
           ELSE /\ columns' = cols /\ fields' = values
                /\ state' = VerdictOn(order, slot, values)
                /\ row_dirty' = row_dirty /\ row_count' = row_count /\ (direct' <=> direct)
  BY <1>3 DEF BufferField, Commits, VerdictOn
<1>5. direct \in BOOLEAN /\ direct' \in BOOLEAN
  BY <1>4 DEF TypeInv, TableType, BufferField
<1> QED
  BY <1>1, <1>2, <1>4, <1>5

(* A value that is buffered, and a row that is committed with it.           *)
LEMMA BufferExact ==
  ASSUME ExactConfigs, TypeInv, Fixed, RowsExact, NEW raw \in Names, NEW v \in Values,
         Offer(raw, v), resolve_field(raw) # NoName, Held, ~Skips, row_dirty = {}, Exact, Exact',
         ~unknown(resolve_field(raw)), BufferField(resolve_field(raw), v)
  PROVE  Begins(predeclared, column_order)' /\ OutputExact' /\ RowExact'
<1> DEFINE col == resolve_field(raw)
<1>1. /\ pc = "row" /\ UNCHANGED <<pc, buffer_worthwhile, emitted, expected>>
      /\ config \in Configs /\ HasFilter /\ ~direct /\ TableType /\ row_count \in Nat
  BY DEF Offer, output_vars, Held, Buffering, TypeInv, TableType
<1>2. col \in Names
  BY <1>1, ResolvedNames
<1>3. PICK cols, order, slot, values : /\ cols = WithColumn(col) /\ order = WithName(col)
                                       /\ slot = ensure_column_idx(col)
                                       /\ values = Holding(slot, v)
  OBVIOUS
<1>4. /\ Ensured(cols, order, slot) /\ order[slot] = col
      /\ column_order' = order
      /\ DOMAIN values = DOMAIN fields \cup {slot} /\ \A i \in DOMAIN values : values[i] \in Values
      /\ IF Commits(order, slot, values)
           THEN /\ columns' = Drained(cols, order, values) /\ state' = "Undecided"
                /\ row_dirty' = row_dirty \cup DOMAIN values
                /\ direct' /\ row_count' = row_count + 1
           ELSE /\ columns' = cols /\ fields' = values
                /\ state' = VerdictOn(order, slot, values)
                /\ UNCHANGED <<row_dirty, direct, row_count>>
  BY <1>2, <1>3, BufferFieldParts
<1>5. Filled
  <2>1. \A i \in 1..Len(columns) : Len(columns[i]) \in Nat
    BY <1>1, ColumnLens
  <2> QED
    BY <2>1 DEF Exact, Filled
<1>6. backfill = row_count /\ backfill' = row_count
  BY <1>1, <1>4 DEF backfill
<1>7. /\ Ready(cols, order, backfill)
      /\ RowsIn(cols, order, backfill) = RowsIn(columns, column_order, backfill)
  BY <1>1, <1>4, <1>5, EnsuredRows
<1>8. /\ Len(cols) \in Nat /\ DOMAIN order = 1..Len(cols) /\ Heading(order)
      /\ slot \in DOMAIN order /\ cols \in Seq(Seq(Cells))
  <2>1. Heading(order) /\ slot \in 1..Len(cols) /\ cols \in Seq(Seq(Cells))
    BY <1>4, <1>7 DEF Ready, Ensured
  <2> QED
    BY <1>7, <2>1, ReadyLens
<1>9. Begins(predeclared, column_order)' /\ column_order' # <<>>
  BY <1>4, EnsuredHeading DEF RowsExact
<1>10. \A i \in DOMAIN fields : i \in DOMAIN order /\ order[i] = column_order[i]
  <2>1. ASSUME NEW i \in DOMAIN fields
        PROVE  i \in DOMAIN order /\ order[i] = column_order[i]
    <3>1. i \in 1..Len(columns)
      BY <1>1, ColumnLens DEF TypeInv, BufferType
    <3>2. i \in 1..Len(cols)
      BY <1>1, <1>4, <3>1, EnsuredColumns
    <3> QED
      BY <1>4, <1>8, <3>1, <3>2 DEF Ensured
  <2> QED
    BY <2>1
<1>11. /\ raws' = With(raws, col, v) /\ Raws(raws) /\ DOMAIN raws \subseteq Names
       /\ said' = TreeOn(raws')
  BY OfferRaws, NextRaws
<1>12. DOMAIN raws' \subseteq Names
  BY <1>2, <1>11 DEF With
<1>13. HeldRow /\ (state # "Undecided" => state = said)
  <2>1. ~Skipping
    BY <1>1 DEF Skips, row_rejected, Skipping
  <2> QED
    BY <1>1, <2>1 DEF RowsExact, RowExact, RowHeld
<1>14. Represents(order, values, raws')
  <2>1. Represents(column_order, fields, raws)
    BY <1>13 DEF HeldRow
  <2>2. Represents(order, [i \in DOMAIN fields \cup {slot} |-> IF i = slot THEN v ELSE fields[i]],
                   With(raws, order[slot], v))
    BY <1>8, <1>10, <2>1, RepresentsPut
  <2> QED
    BY <1>3, <1>4, <1>11, <2>2 DEF Holding
<1>15. LET verdict == VerdictOn(order, slot, values)
       IN (verdict # "Undecided" => verdict = said')
  <2>1. CASE is_predicate_slot(order, slot)
    <3> DEFINE r == raws'
    <3>1. DOMAIN r \subseteq Names /\ Represents(order, values, r)
      BY <1>12, <1>14
    <3> HIDE DEF r
    <3>2. eval_predicate(order, values) = TreeOn(r)
      BY <3>1, SeenInBuffer
    <3> QED
      BY <1>11, <2>1, <3>2 DEF VerdictOn, r
  <2>2. CASE ~is_predicate_slot(order, slot)
    <3>1. col \notin pred_names
      BY <1>4, <2>2 DEF is_predicate_slot
    <3>2. VerdictOn(order, slot, values) = state
      BY <2>2 DEF VerdictOn
    <3>3. said # "Undecided" => TreeOn(With(raws, col, v)) = said
      BY <1>1, <1>2, <1>11, <3>1, SeenBeside DEF said
    <3> QED
      BY <1>11, <1>13, <3>2, <3>3
  <2> QED
    BY <2>1, <2>2
<1>16. HasFilter' /\ buffer_worthwhile' = buffer_worthwhile /\ buffer_worthwhile
  BY <1>1, NextPlan DEF Held, Buffering
<1>17. CASE ~Commits(order, slot, values)
  <2>1. OutputExact'
    BY <1>1, <1>4, <1>6, <1>7, <1>9, <1>17, KeptOutput DEF RowsExact
  <2>2. Held'
    BY <1>1, <1>4, <1>16, <1>17 DEF Held, Buffering
  <2>3. HeldRow'
    BY <1>4, <1>14, <1>17, NextRows
  <2>4. state' # "Undecided" => state' = said'
    BY <1>4, <1>15, <1>17
  <2>5. RowExact'
    BY <2>2, <2>3, <2>4 DEF RowExact, RowHeld
  <2> QED
    BY <1>9, <2>1, <2>5
<1>18. CASE Commits(order, slot, values)
  <2>1. /\ columns' = Drained(cols, order, values) /\ state' = "Undecided"
        /\ row_dirty' = DOMAIN values /\ direct'
    BY <1>4, <1>18
  <2>2. /\ Len(Drained(cols, order, values)) = Len(cols)
        /\ \A i \in 1..Len(cols) :
              /\ i \in DOMAIN values =>
                   Drained(cols, order, values)[i] =
                     PushCell(cols[i], row_count, Cell(order[i], values[i]))
              /\ i \notin DOMAIN values => Drained(cols, order, values)[i] = cols[i]
    <3>1. \A i \in DOMAIN values : values[i] \in Values
      BY <1>4
    <3>2. cols \in Seq(Seq(Cells)) /\ row_count \in Nat
      BY <1>1, <1>8
    <3> QED
      BY ONLY <3>1, <3>2, DrainedFacts
  <2> DEFINE new == Drained(cols, order, values)
             k == backfill + 1
  <2> HIDE DEF new
  <2>3. /\ Len(new) = Len(cols)
        /\ \A i \in 1..Len(cols) :
              /\ i \in DOMAIN values => new[i] = PushCell(cols[i], row_count, Cell(order[i], values[i]))
              /\ i \notin DOMAIN values => new[i] = cols[i]
    BY <2>2 DEF new
  <2>4. DOMAIN values \subseteq DOMAIN order
    BY <1>4, <1>8, <1>10
  <2>5. \A i \in DOMAIN values : Cell(order[i], values[i]) \in Cells
    BY <1>4, CellType
  <2>6. RowsIn(new, order, backfill) = RowsIn(cols, order, backfill)
    <3>1. \A i \in 1..Len(cols) :
            new[i] = cols[i] \/ \E c \in Cells : new[i] = PushCell(cols[i], row_count, c)
      BY <2>3, <2>5
    <3> QED
      BY <1>1, <1>7, <3>1, PushedRows
  <2>7. OutputExact'
    <3>1. RowsIn(columns', column_order', backfill') = RowsIn(columns, column_order, backfill)
      BY <1>4, <1>6, <1>7, <2>1, <2>6 DEF new
    <3> QED
      BY <1>1, <1>9, <3>1, KeptOutput DEF RowsExact
  <2>8. ASSUME NEW i \in DOMAIN values
        PROVE  new[i][k] = Cell(order[i], values[i])
    <3> DEFINE cells == cols[i]
               cell == Cell(order[i], values[i])
    <3>1. i \in 1..Len(cols)
      BY <1>8, <2>4
    <3>2. cells \in Seq(Cells) /\ cell \in Cells
      BY <1>7, <2>5, <3>1, ReadyLens
    <3>3. new[i] = PushCell(cells, row_count, cell)
      BY <2>3, <3>1
    <3>4. Len(new[i]) = k
      <4>1. Len(columns') = Len(cols) /\ i \in row_dirty'
        BY <2>1, <2>3 DEF new
      <4>2. Len(columns'[i]) = backfill' + One(i \in row_dirty')
        BY <3>1, <4>1 DEF Exact
      <4> QED
        BY <1>6, <2>1, <4>1, <4>2 DEF One, new
    <3> HIDE DEF cells, cell
    <3>5. new[i][Len(new[i])] = cell
      BY <1>1, <3>2, <3>3, PushCellFacts DEF PushedTo
    <3> QED
      BY <3>4, <3>5 DEF cell
  <2>9. StoredRow'
    <3> DEFINE r == raws'
    <3>1. Represents(order, values, r)
      BY <1>14
    <3> HIDE DEF r, k
    <3>2. Stored(new, order, DOMAIN values, k, r)
      BY <2>4, <2>8, <3>1, DrainedStored
    <3>3. Stored(columns', column_order', row_dirty', backfill' + 1, raws')
      BY <1>4, <1>6, <2>1, <3>2 DEF new, r, k
    <3> QED
      BY <3>3, NextRows
  <2>10. said' = "Pass"
    <3>1. VerdictOn(order, slot, values) = "Pass"
      BY <1>18 DEF Commits, PassesEarly
    <3> QED
      BY <1>15, <3>1
  <2>11. ~Held'
    BY <2>1 DEF Held
  <2>12. RowExact'
    BY <2>1, <2>9, <2>10, <2>11 DEF RowExact, RowPushed
  <2> QED
    BY <1>9, <2>7, <2>12
<1> QED
  BY <1>17, <1>18

LearnedIn(expect) ==
  UsesSlots => \A o \in Ordinals : expect[o] # NoSlot =>
    resolve_field(expect[o].name) = expect[o].name

(* A name that is learned is that of a column, which resolves to itself.    *)
LEMMA LearnedStill ==
  ASSUME ExactConfigs, config \in Configs, Fixed, LearnedNames, NEW raw \in Names,
         \A o \in Ordinals :
           \/ ordinal_expect'[o] \in {ordinal_expect[o], NoSlot}
           \/ resolve_field(raw) # NoName /\ ordinal_expect'[o].name = resolve_field(raw)
  PROVE  LearnedNames'
<1> DEFINE col == resolve_field(raw)
<1>1. LearnedNames' <=> LearnedIn(ordinal_expect')
  BY DEF Fixed, LearnedNames, LearnedIn, UsesSlots, Ordinals, MaxFields, resolve_field, ren,
         field_map, drop_fields, schema_order, filter_references, Leaves, Filter
<1>2. UsesSlots /\ col # NoName => resolve_field(col) = col
  <2> SUFFICES ASSUME UsesSlots, col # NoName PROVE resolve_field(col) = col
    OBVIOUS
  <2>1. ren(ren(raw)) = ren(raw)
    BY ExactFacts
  <2>2. col = ren(raw)
    BY DEF resolve_field
  <2> QED
    BY <2>1, <2>2 DEF resolve_field
<1> HIDE DEF col
<1>3. LearnedIn(ordinal_expect')
  BY <1>2 DEF LearnedNames, LearnedIn, col
<1> QED
  BY <1>1, <1>3

LEMMA EarlyOfExact ==
  ASSUME ExactConfigs
  PROVE  EarlyRowsUnique
BY DEF ExactConfigs, ExactConfig, CommitsEarly, EarlyRowsUnique

(* An early commit is a decision before the end of the row.                 *)
LEMMA DirectDecides ==
  ASSUME TypeInv, direct
  PROVE  DecidesEarly /\ Held = FALSE
BY DEF TypeInv, BufferType, DecidesEarly, Held

LEMMA PutFieldExact ==
  ASSUME ExactConfigs, TypeInv, AlignInv, ExactInv, Fixed, NEW raw \in Names, NEW v \in Values,
         PutField(raw, v), NoError'
  PROVE  ExactInv'
<1> DEFINE col == resolve_field(raw)
<1>1. /\ Offer(raw, v) /\ pc = "row" /\ pc' = "row" /\ Len(row_in) < MaxFields /\ ~Skips
      /\ UNCHANGED <<buffer_worthwhile, emitted, expected>>
  BY DEF PutField, Offer, output_vars
<1>2. /\ unknown_error => unknown_error'
      /\ strict_error' = "none" => strict_error = "none"
  BY DEF PutField, PushField, BufferField, record_strict_violation
<1>3. NoError
  BY <1>2 DEF NoError
<1>4. InRow /\ RowsExact
  BY <1>1, <1>3 DEF AlignInv, ExactInv
<1>5. Exact'
  <2>1. AlignInv'
    BY EarlyOfExact, PutAligned
  <2> QED
    BY <1>1, <2>1 DEF AlignInv, InRow
<1>6. config \in Configs /\ \A o \in Ordinals : layout_broken[o] \in {ordinal_expect[o], NoSlot}
  BY <1>1, BrokenLayout DEF TypeInv
<1> SUFFICES RowsExact'
  BY <1>1 DEF ExactInv
<1>7. CASE col = NoName
  <2>1. /\ UNCHANGED <<columns, column_order, row_count, row_dirty, fields, state, direct>>
        /\ ordinal_expect' = layout_broken
    BY <1>7 DEF PutField, table_vars, buffer_vars
  <2>2. raws' = raws /\ said' = said
    BY <1>1, <1>7, OfferRaws, NextRaws DEF said
  <2>3. LearnedNames'
    BY <1>4, <1>6, <2>1, LearnedStill DEF RowsExact
  <2>4. Begins(predeclared, column_order)'
    BY <1>4, <2>1, NextPlan DEF RowsExact, Begins
  <2>5. backfill' = backfill
    BY <2>1 DEF backfill
  <2>6. OutputExact'
    <3>1. RowsIn(columns', column_order', backfill') = RowsIn(columns, column_order, backfill)
      BY <2>1, <2>5
    <3> QED
      BY <1>1, <1>4, <2>1, <3>1, KeptOutput DEF RowsExact
  <2>7. (HeldRow' <=> HeldRow) /\ (StoredRow' <=> StoredRow)
    BY <2>1, <2>2, <2>5, NextRows DEF HeldRow, StoredRow
  <2>8. UNCHANGED <<HasFilter, ShortCircuits>>
    BY NextPlan
  <2>9. RowExact'
    BY <1>1, <1>4, <2>1, <2>2, <2>7, <2>8
       DEF RowsExact, RowExact, RowHeld, RowPushed, Held, Buffering, Skipping
  <2> QED
    BY <2>3, <2>4, <2>6, <2>9 DEF RowsExact
<1>8. CASE col # NoName /\ PushesDirectly /\ PushField(col, v)
  <2> DEFINE slot == ensure_column_idx(col)
  <2>1. ~unknown(col)
    BY <1>8 DEF PushField, NoError
  <2>2. /\ Pushes(WithColumn(col), WithName(col), slot, Cell(col, v))
        /\ WithName(col)[slot] = col
    <3>1. col \in Names
      BY <1>6, <1>8, ResolvedNames
    <3> QED
      BY <1>8, <2>1, <3>1, PushFieldPushes, EnsureColumn DEF TypeInv
  <2>3. ~Held /\ UNCHANGED <<fields, state, direct>>
    BY <1>8 DEF PushField, PushesDirectly, Held, Buffering, buffer_vars
  <2>4. direct => row_count >= 1 /\ DecidesEarly
    BY <1>4, DirectDecides DEF InRow
  <2>5. LearnedNames'
    <3>1. \/ ordinal_expect' = layout_broken
          \/ ordinal_expect' = [layout_broken EXCEPT ![current_ordinal] =
                                  [slot |-> slot, name |-> col]]
      BY <1>8, <2>1 DEF PushField
    <3>2. DOMAIN layout_broken = Ordinals
      BY <1>1, BrokenLayout
    <3>3. \A o \in Ordinals : \/ ordinal_expect'[o] \in {ordinal_expect[o], NoSlot}
                              \/ ordinal_expect'[o].name = col
      <4> HIDE DEF col, slot
      <4> QED
        BY <1>6, <3>1, <3>2
    <3> QED
      BY <1>4, <1>6, <1>8, <3>3, LearnedStill DEF RowsExact
  <2>6. Begins(predeclared, column_order)' /\ OutputExact' /\ RowExact'
    <3> HIDE DEF slot
    <3> QED
      BY <1>1, <1>4, <1>5, <1>8, <2>2, <2>3, <2>4, PushExact DEF InRow
  <2> QED
    BY <2>5, <2>6 DEF RowsExact
<1>9. CASE col # NoName /\ ~PushesDirectly /\ BufferField(col, v)
  <2>1. ~unknown(col)
    BY <1>3, <1>9 DEF BufferField, NoError
  <2>2. Held /\ row_dirty = {} /\ ordinal_expect' = layout_broken
    BY <1>4, <1>9 DEF PushesDirectly, Held, Buffering, InRow, BufferField
  <2>3. LearnedNames'
    BY <1>4, <1>6, <2>2, LearnedStill DEF RowsExact
  <2>4. Begins(predeclared, column_order)' /\ OutputExact' /\ RowExact'
    BY <1>1, <1>4, <1>5, <1>9, <2>1, <2>2, BufferExact DEF InRow
  <2> QED
    BY <2>3, <2>4 DEF RowsExact
<1> QED
  BY <1>7, <1>8, <1>9 DEF PutField

(* A put at a learned slot is a push into the column of its own name.       *)
LEMMA PutFieldAtExact ==
  ASSUME ExactConfigs, TypeInv, AlignInv, ExactInv, Fixed, NEW raw \in Names, NEW v \in Values,
         PutFieldAt(raw, v), NoError'
  PROVE  ExactInv'
<1>1. /\ Offer(raw, v) /\ pc = "row" /\ pc' = "row" /\ SlotMatches(raw) /\ Len(row_in) < MaxFields
      /\ UNCHANGED <<fields, state, direct, buffer_worthwhile, ordinal_expect, unknown_error>>
  BY DEF PutFieldAt, Offer, buffer_vars, layout_vars
<1>2. strict_error' = "none" => strict_error = "none"
  BY DEF PutFieldAt, record_strict_violation
<1>3. NoError
  BY <1>1, <1>2 DEF NoError
<1>4. InRow /\ RowsExact /\ (Buffering => \A o \in Ordinals : ordinal_expect[o] = NoSlot)
  BY <1>1, <1>3 DEF AlignInv, ExactInv
<1>5. Exact'
  <2>1. AlignInv'
    BY PutFieldAtAligned
  <2> QED
    BY <1>1, <2>1 DEF AlignInv, InRow
<1>6. ordinal \in Ordinals
  BY <1>1, BrokenLayout
<1>7. PICK slot \in 1..Len(columns) :
        /\ column_order[slot] = raw
        /\ ordinal_expect[ordinal] # NoSlot
        /\ Pushes(columns, column_order, slot, Cell(raw, v))
  BY PutFieldAtPushes
<1>8. ~Held /\ ~direct
  BY <1>4, <1>6, <1>7 DEF TypeInv, BufferType, Held, Buffering
<1>9. resolve_field(raw) = raw
  BY <1>1, <1>4, <1>6 DEF SlotMatches, RowsExact, LearnedNames
<1>10. raw # NoName
  BY LeafFacts DEF TypeInv
<1>11. Begins(predeclared, column_order)' /\ OutputExact' /\ RowExact'
  BY <1>1, <1>4, <1>5, <1>7, <1>8, <1>9, <1>10, PushExact DEF InRow
<1>12. LearnedNames'
  BY <1>1, <1>4, NextPlan DEF RowsExact
<1> QED
  BY <1>1, <1>11, <1>12 DEF ExactInv, RowsExact

(* A field the decoder jumps over: of a row that is rejected, or whose      *)
(* wanted columns all have their values.                                    *)
LEMMA SkipExact ==
  ASSUME ExactConfigs, TypeInv, AlignInv, ExactInv, Fixed, NEW raw \in Names, NEW v \in Values,
         SkipField(raw, v)
  PROVE  ExactInv'
<1> DEFINE col == resolve_field(raw)
<1>1. /\ Offer(raw, v) /\ pc = "row" /\ pc' = "row" /\ Skips
      /\ UNCHANGED <<columns, column_order, row_count, row_dirty, fields, state, direct,
                     buffer_worthwhile, ordinal_expect, emitted, expected,
                     unknown_error, strict_error>>
  BY DEF SkipField, Offer, table_vars, buffer_vars, layout_vars, error_vars, output_vars
<1> SUFFICES ASSUME NoError PROVE RowsExact'
  BY <1>1 DEF ExactInv, NoError
<1>2. InRow /\ RowsExact
  BY <1>1 DEF AlignInv, ExactInv
<1>3. config \in Configs /\ ShortCircuits
  BY <1>1 DEF TypeInv, Skips
<1>4. backfill' = backfill
  BY <1>1 DEF backfill
<1>5. UNCHANGED <<HasFilter, ShortCircuits>>
  BY NextPlan
<1>6. LearnedNames' /\ Begins(predeclared, column_order)'
  BY <1>1, <1>2, NextPlan DEF RowsExact, Begins
<1>7. OutputExact'
  <2>1. RowsIn(columns', column_order', backfill') = RowsIn(columns, column_order, backfill)
    BY <1>1, <1>4
  <2> QED
    BY <1>1, <1>2, <2>1, KeptOutput DEF RowsExact
<1>8. RowExact'
  <2>1. CASE row_rejected
    <3>1. Held /\ state = "Fail" /\ state = said
      BY <1>1, <1>2, <2>1 DEF row_rejected, RowsExact, RowExact, RowHeld, RowPushed
    <3>2. DecidesEarly
      BY <1>3, <2>1 DEF row_rejected, DecidesEarly
    <3>3. said' = said
      BY <1>1, <3>1, <3>2, SaidStays
    <3>4. Held' /\ Skipping' /\ state' = said'
      BY <1>1, <1>3, <1>5, <3>1, <3>3 DEF Held, Buffering, Skipping
    <3> QED
      BY <3>4 DEF RowExact, RowHeld
  <2>2. CASE row_satisfied
    <3>1. ~Held
      BY <1>2, <2>2 DEF row_satisfied, InRow, Held
    <3>2. RowPushed
      BY <1>1, <1>2, <3>1 DEF RowsExact, RowExact
    <3>3. col = NoName
      <4> SUFFICES ASSUME col # NoName PROVE FALSE
        OBVIOUS
      <4>1. schema_order # <<>>
        <5>1. predeclared # <<>>
          BY <2>2 DEF row_satisfied, wanted_mask
        <5> QED
          BY <1>3, <5>1, InitialOrder
      <4>2. UniqueFields
        BY <1>3, <4>1, ExactFacts
      <4>3. PICK i \in DOMAIN predeclared : predeclared[i] = col
        BY <1>3, <4>1, InitialOrder DEF ToSet
      <4>4. i \in row_dirty /\ column_order[i] = col
        BY <1>2, <2>2, <4>3 DEF row_satisfied, wanted_mask, RowsExact, Begins
      <4>5. col \in DOMAIN raws
        BY <3>2, <4>4 DEF RowPushed, StoredRow, Stored
      <4> QED
        BY <1>1, <4>2, <4>5, OfferRaws
    <3>4. raws' = raws /\ said' = said
      BY <1>1, <3>3, OfferRaws, NextRaws DEF said
    <3>5. StoredRow' <=> StoredRow
      BY <1>1, <1>4, <3>4, NextRows DEF StoredRow
    <3> QED
      BY <1>1, <1>5, <3>1, <3>2, <3>4, <3>5 DEF RowExact, RowPushed, Held, Buffering
  <2> QED
    BY <1>1, <2>1, <2>2 DEF Skips
<1> QED
  BY <1>6, <1>7, <1>8 DEF RowsExact

-----------------------------------------------------------------------------
(* Rows and batches.                                                       *)

(* A row begins with nothing in it.                                         *)
LEMMA BeginExact ==
  ASSUME TypeInv, AlignInv, ExactInv, Fixed, begin_row
  PROVE  ExactInv'
<1>1. /\ pc = "idle" /\ pc' = "row" /\ direct' = FALSE /\ fields' = <<>> /\ row_in' = <<>>
      /\ state' = "Undecided"
      /\ UNCHANGED <<columns, column_order, row_count, row_dirty, ordinal_expect,
                     unknown_error, strict_error, emitted, expected>>
  BY DEF begin_row, table_vars, error_vars, output_vars
<1> SUFFICES ASSUME NoError PROVE RowsExact'
  BY <1>1 DEF ExactInv, NoError
<1>2. RowsExact /\ row_dirty = {}
  BY <1>1 DEF AlignInv, ExactInv
<1>3. LearnedNames' /\ Begins(predeclared, column_order)'
  BY <1>1, <1>2, NextPlan DEF RowsExact, Begins
<1>4. backfill' = row_count
  BY <1>1 DEF backfill
<1>5. DoneTable' = DoneTable
  <2>1. RowsDone' = row_count /\ RowsDone = row_count
    BY <1>1, <1>4 DEF RowsDone
  <2> QED
    BY <1>1, <2>1, NextRows DEF DoneTable
<1>6. OutputExact'
  BY <1>1, <1>2, <1>5 DEF RowsExact, OutputExact, IsSequence, ToSet
<1>7. DOMAIN raws' = {}
  <2>1. raws' = RawOf(row_in')
    BY NextRaws
  <2>2. DOMAIN row_in' = {}
    BY <1>1
  <2>3. \A col : Writes(row_in', col) = {}
    BY <2>2 DEF Writes
  <2>4. DOMAIN RawOf(row_in') = {}
    BY <2>3 DEF RawOf
  <2> QED
    BY <2>1, <2>4
<1>8. HeldRow' /\ StoredRow'
  <2> DEFINE r == raws'
  <2>1. DOMAIN r = {}
    BY <1>7
  <2> HIDE DEF r
  <2>2. DOMAIN fields' = {} /\ row_dirty' = {}
    BY <1>1, <1>2
  <2>3. Represents(column_order', fields', r)
    BY <2>1, <2>2 DEF Represents
  <2>4. Stored(columns', column_order', row_dirty', backfill' + 1, r)
    BY <2>1, <2>2 DEF Stored
  <2> QED
    BY <2>3, <2>4, NextRows DEF r
<1>9. RowExact'
  BY <1>1, <1>8 DEF RowExact, RowHeld, RowPushed
<1> QED
  BY <1>3, <1>6, <1>9 DEF RowsExact

(* A buffered row, moved into the columns.                                  *)
LEMMA DrainedRow ==
  ASSUME TypeInv, Exact, ~direct, row_dirty = {}, HeldRow, NEW new,
         new = Drained(columns, column_order, fields)
  PROVE  /\ Ragged(new, column_order, row_count, DOMAIN fields)
         /\ Stored(new, column_order, DOMAIN fields, row_count + 1, raws)
         /\ RowsIn(new, column_order, row_count) = RowsIn(columns, column_order, row_count)
<1>1. /\ TableType /\ row_count \in Nat /\ backfill = row_count
      /\ \A i \in DOMAIN fields : fields[i] \in Values
      /\ DOMAIN fields \subseteq 1..Len(columns)
  BY LenProperties DEF TypeInv, TableType, BufferType, backfill
<1>2. \A i \in 1..Len(columns) : columns[i] \in Seq(Cells) /\ Len(columns[i]) = row_count
  BY <1>1, ColumnLens DEF Exact, One
<1>3. columns \in Seq(Seq(Cells)) /\ Len(columns) \in Nat
  BY <1>1, ColumnLens DEF TableType
<1>4. /\ new \in Seq(Seq(Cells)) /\ Len(new) = Len(columns)
      /\ \A i \in 1..Len(columns) :
           /\ i \in DOMAIN fields =>
                new[i] = PushCell(columns[i], row_count, Cell(column_order[i], fields[i]))
           /\ i \notin DOMAIN fields => new[i] = columns[i]
  BY <1>1, <1>3, DrainedFacts
<1>5. \A i \in DOMAIN fields : Cell(column_order[i], fields[i]) \in Cells
  BY <1>1, CellType
<1>6. ASSUME NEW i \in DOMAIN fields
      PROVE  Len(new[i]) = row_count + 1 /\ new[i][row_count + 1] = Cell(column_order[i], fields[i])
  <2> DEFINE cells == columns[i]
             cell == Cell(column_order[i], fields[i])
  <2>1. cells \in Seq(Cells) /\ Len(cells) = row_count /\ cell \in Cells
    BY <1>1, <1>2, <1>5
  <2>2. new[i] = PushCell(cells, row_count, cell)
    BY <1>1, <1>4
  <2> HIDE DEF cells, cell
  <2>3. PushedTo(cells, row_count, cell, new[i])
    BY <1>1, <2>1, <2>2, PushCellFacts
  <2>4. Len(new[i]) = row_count + 1 /\ new[i][row_count + 1] = cell
    BY <1>1, <2>1, <2>3 DEF PushedTo
  <2> QED
    BY <2>4 DEF cell
<1>7. Ragged(new, column_order, row_count, DOMAIN fields)
  <2>1. ASSUME NEW i \in 1..Len(new)
        PROVE  Len(new[i]) = row_count + One(i \in DOMAIN fields)
    <3>1. CASE i \in DOMAIN fields
      BY <1>6, <3>1 DEF One
    <3>2. CASE i \notin DOMAIN fields
      BY <1>1, <1>2, <1>4, <3>2 DEF One
    <3> QED
      BY <3>1, <3>2
  <2>2. Heading(column_order) /\ Len(new) = Len(column_order)
    BY <1>1, <1>4 DEF TableType, Heading
  <2> QED
    BY <1>1, <1>4, <2>1, <2>2 DEF Ragged, Even
<1>8. DOMAIN column_order = 1..Len(columns)
  BY <1>4, <1>7, RaggedLens
<1>9. Stored(new, column_order, DOMAIN fields, row_count + 1, raws)
  <2> DEFINE k == row_count + 1
  <2>1. \A i \in DOMAIN fields : new[i][k] = Cell(column_order[i], fields[i])
    BY <1>6
  <2>2. DOMAIN fields \subseteq DOMAIN column_order
    BY <1>1, <1>8
  <2> HIDE DEF k
  <2>3. Stored(new, column_order, DOMAIN fields, k, raws)
    BY <2>1, <2>2, DrainedStored DEF HeldRow
  <2> QED
    BY <2>3 DEF k
<1>10. RowsIn(new, column_order, row_count) = RowsIn(columns, column_order, row_count)
  <2>1. Ready(columns, column_order, backfill)
    <3>1. \A i \in 1..Len(columns) : Len(columns[i]) >= row_count
      BY <1>1, <1>2
    <3> QED
      BY <1>1, <1>3, <3>1 DEF Ready, Heading, TableType
  <2>2. \A i \in 1..Len(columns) :
          new[i] = columns[i] \/ \E cell \in Cells : new[i] = PushCell(columns[i], row_count, cell)
    BY <1>4, <1>5
  <2>3. RowsIn(new, column_order, backfill) = RowsIn(columns, column_order, backfill)
    BY <1>1, <2>1, <2>2, PushedRows
  <2> QED
    BY <1>1, <2>3
<1> QED
  BY <1>7, <1>9, <1>10

(* The rows after a row that is over.                                       *)
LEMMA RowsAfter ==
  ASSUME Fixed, OutputExact, pc = "row", pc' = "idle", UNCHANGED <<column_order, emitted>>,
         backfill \in Nat, NEW row,
         \/ /\ expected' = Append(expected, Project(row))
            /\ RowsIn(columns', column_order, row_count')
                 = Append(RowsIn(columns, column_order, backfill), Project(row))
         \/ /\ expected' = expected
            /\ RowsIn(columns', column_order, row_count') = RowsIn(columns, column_order, backfill)
  PROVE  OutputExact'
<1> DEFINE done == RowsIn(columns, column_order, backfill)
<1>1. DoneTable = done
  BY DEF DoneTable, RowsDone
<1>2. DoneTable' = RowsIn(columns', column_order, row_count')
  <2>1. RowsDone' = row_count'
    BY DEF RowsDone
  <2> QED
    BY <2>1, NextRows
<1>3. expected = emitted \o done /\ IsSequence(emitted) /\ IsSequence(done)
  BY <1>1, RowsSequence DEF OutputExact
<1> HIDE DEF done
<1>4. Append(emitted \o done, Project(row)) = emitted \o Append(done, Project(row))
  BY <1>3, ConcatFacts
<1>5. expected' = emitted \o DoneTable'
  BY <1>2, <1>3, <1>4 DEF done
<1>6. IsSequence(emitted)'
  BY DEF OutputExact, IsSequence, ToSet
<1> QED
  BY <1>5, <1>6 DEF OutputExact

(* The end of a row: kept or popped, already committed, or drained.         *)
LEMMA EndExact ==
  ASSUME ExactConfigs, TypeInv, AlignInv, ExactInv, Fixed, end_row
  PROVE  ExactInv'
<1>1. /\ pc = "row" /\ pc' = "idle"
      /\ UNCHANGED <<column_order, ordinal_expect, unknown_error, strict_error, emitted>>
  BY DEF end_row, RowEnds, error_vars, layout_vars, output_vars
<1> SUFFICES ASSUME NoError PROVE RowsExact'
  BY <1>1 DEF ExactInv, NoError
<1>2. InRow /\ RowsExact
  BY <1>1 DEF AlignInv, ExactInv
<1>3. LearnedNames' /\ Begins(predeclared, column_order)' /\ RowExact'
  BY <1>1, <1>2, NextPlan DEF RowsExact, Begins, RowExact
<1>4. /\ config \in Configs /\ row_in \in Seq(Entries)
      /\ row_count \in Nat /\ direct \in BOOLEAN
      /\ (direct => Buffering) /\ (Buffering => HasFilter)
  BY DEF TypeInv, InputType, Entries, TableType, BufferType, Buffering
<1> DEFINE row == RowOf(row_in)
<1>5. /\ row = RowFrom(raws) /\ Raws(raws) /\ DOMAIN raws \subseteq Names
  BY <1>4, RawType DEF raws, Raws
<1>6. expected' = IF check(row) THEN Append(expected, Project(row)) ELSE expected
  BY DEF end_row, RowEnds
<1>7. backfill \in Nat
  <2>1. direct => row_count >= 1
    BY <1>2 DEF InRow
  <2>2. CASE direct
    <3>1. row_count - 1 \in Nat
      BY <1>4, <2>1, <2>2
    <3> QED
      BY <2>2, <3>1 DEF backfill
  <2>3. CASE ~direct
    BY <1>4, <2>3 DEF backfill
  <2> QED
    BY <1>4, <2>2, <2>3
<1> DEFINE done == RowsIn(columns, column_order, backfill)
           filled == NullFill(columns, row_dirty)
<1>8. ASSUME ~Held
      PROVE  /\ TableRow(filled, column_order, backfill + 1) = row
             /\ RowsIn(Popped(filled), column_order, backfill) = done
             /\ RowsIn(filled, column_order, backfill + 1) = Append(done, Project(row))
  <2>1. Ragged(columns, column_order, backfill, row_dirty)
    BY <1>2, <1>7 DEF Ragged, Heading, TypeInv, TableType, InRow, Exact, Even
  <2>2. Stored(columns, column_order, row_dirty, backfill + 1, raws)
    BY <1>1, <1>2, <1>8 DEF RowsExact, RowExact, RowPushed, StoredRow
  <2> HIDE DEF row
  <2> QED
    BY <1>5, <2>1, <2>2, RowClosed
<1> HIDE DEF row, done, filled
<1>9. SUFFICES \/ /\ check(row) /\ RowsIn(columns', column_order, row_count') = Append(done, Project(row))
               \/ /\ ~check(row) /\ RowsIn(columns', column_order, row_count') = done
  <2>1. OutputExact'
    BY <1>1, <1>2, <1>6, <1>7, <1>9, RowsAfter DEF RowsExact, done
  <2> QED
    BY <1>3, <2>1 DEF RowsExact
<1>10. CASE (~HasFilter \/ ~buffer_worthwhile) /\ finish_row
  <2>1. ~Held /\ backfill = row_count
    BY <1>4, <1>10 DEF Held, Buffering, backfill
  <2>2. LET keep == check(TableRow(filled, column_order, row_count + 1))
        IN /\ columns' = IF keep THEN filled ELSE Popped(filled)
           /\ row_count' = row_count + (IF keep THEN 1 ELSE 0)
    BY <1>10 DEF finish_row, Count, filled, Popped
  <2>3. TableRow(filled, column_order, row_count + 1) = row
    BY <1>8, <2>1
  <2>4. CASE check(row)
    <3>1. columns' = filled /\ row_count' = row_count + 1
      BY <2>2, <2>3, <2>4
    <3> QED
      BY <1>8, <2>1, <2>4, <3>1
  <2>5. CASE ~check(row)
    <3>1. columns' = Popped(filled) /\ row_count' = row_count + 0
      BY <2>2, <2>3, <2>5
    <3>2. row_count + 0 = row_count
      BY <1>4
    <3> QED
      BY <1>8, <2>1, <2>5, <3>1, <3>2
  <2> QED
    BY <2>4, <2>5
<1>11. CASE direct /\ null_fill_missing
  <2>1. ~Held /\ said = "Pass"
    BY <1>1, <1>2, <1>11 DEF Held, RowsExact, RowExact, RowPushed
  <2>2. check(row)
    BY <1>4, <1>5, <1>11, <2>1, TreeChecks DEF said
  <2>3. columns' = filled /\ row_count' = backfill + 1
    <3>1. columns' = filled /\ row_count' = row_count /\ backfill = row_count - 1
      BY <1>11 DEF null_fill_missing, backfill, filled
    <3> QED
      BY <1>4, <3>1
  <2> QED
    BY <1>8, <2>1, <2>2, <2>3
<1>12. CASE Buffering /\ ~direct /\ drain_buffered
  <2> DEFINE keep == FinalState = "Pass"
             drained == Drained(columns, column_order, fields)
  <2>1. Held /\ HasFilter /\ row_dirty = {} /\ backfill = row_count
    BY <1>2, <1>12 DEF Held, Buffering, InRow, backfill
  <2>2. RowHeld
    BY <1>1, <1>2, <2>1 DEF RowsExact, RowExact
  <2>3. check(row) <=> keep
    <3>1. CASE state = "Undecided"
      <4>1. HeldRow
        BY <2>2, <3>1 DEF RowHeld, Skipping
      <4>2. FinalState = NullTree(raws)
        BY <1>5, <3>1, <4>1, SeenInBuffer DEF FinalState, evaluate_against_null, HeldRow
      <4> QED
        BY <1>4, <1>5, <2>1, <4>2, TreeChecks
    <3>2. CASE state # "Undecided"
      <4>1. FinalState = TreeOn(raws) /\ TreeOn(raws) # "Undecided"
        BY <2>2, <3>2 DEF RowHeld, FinalState, said
      <4> QED
        BY <1>4, <1>5, <2>1, <4>1, TreeChecks
    <3> QED
      BY <3>1, <3>2
  <2>4. CASE keep
    <3>1. HeldRow
      BY <2>2, <2>4 DEF RowHeld, Skipping, FinalState
    <3>2. /\ Ragged(drained, column_order, row_count, DOMAIN fields)
          /\ Stored(drained, column_order, DOMAIN fields, row_count + 1, raws)
          /\ RowsIn(drained, column_order, row_count) = RowsIn(columns, column_order, row_count)
      BY <1>2, <1>12, <2>1, <3>1, DrainedRow DEF InRow
    <3>3. columns' = NullFill(drained, row_dirty \cup DOMAIN fields) /\ row_count' = row_count + 1
      BY <1>12, <2>4 DEF drain_buffered, Count
    <3>4. row_dirty \cup DOMAIN fields = DOMAIN fields
      BY <2>1
    <3> HIDE DEF drained
    <3>5. RowsIn(NullFill(drained, DOMAIN fields), column_order, row_count + 1)
            = Append(RowsIn(drained, column_order, row_count), Project(RowFrom(raws)))
      BY <1>5, <3>2, RowClosed
    <3> QED
      BY <1>5, <2>1, <2>3, <2>4, <3>2, <3>3, <3>4, <3>5 DEF done
  <2>5. CASE ~keep
    <3>1. columns' = columns /\ row_count' = row_count + 0
      BY <1>12, <2>5 DEF drain_buffered, Count
    <3>2. row_count + 0 = row_count
      BY <1>4
    <3> QED
      BY <2>1, <2>3, <2>5, <3>1, <3>2 DEF done
  <2> QED
    BY <2>4, <2>5
<1> QED
  BY <1>4, <1>10, <1>11, <1>12 DEF end_row, Buffering

-----------------------------------------------------------------------------
(* Batches and the end.                                                     *)

(* A batch of the rows in the columns completes the output: normalize only  *)
(* cuts cells of rows that are not committed.                               *)
LEMMA BatchRows ==
  ASSUME TypeInv, OutputExact, RowsDone = row_count,
         \A i \in 1..Len(columns) : Len(columns[i]) >= row_count,
         column_order # <<>>, exported # {}
  PROVE  emitted \o Batch(Normalized) = expected
<1> DEFINE new == Normalized
           slot == CHOOSE i \in exported : TRUE
<1>1. /\ Heading(column_order) /\ row_count \in Nat
      /\ Len(columns) = Len(column_order) /\ Len(columns) \in Nat
      /\ DOMAIN column_order = 1..Len(columns)
  BY LenProperties DEF TypeInv, TableType, Heading
<1>2. \A i \in 1..Len(columns) : /\ Len(columns[i]) \in Nat
                                 /\ Len(new[i]) = IF Len(columns[i]) < row_count
                                                  THEN Len(columns[i]) ELSE row_count
                                 /\ \A r \in 1..Len(new[i]) : new[i][r] = columns[i][r]
  BY ColumnLens, NormalizedFacts DEF TypeInv
<1> HIDE DEF new
<1>3. \A i \in 1..Len(columns) :
        Len(new[i]) = row_count /\ \A r \in 1..row_count : new[i][r] = columns[i][r]
  BY <1>1, <1>2
<1>4. slot \in 1..Len(columns)
  BY <1>1 DEF exported
<1> HIDE DEF slot
<1>5. Extended(columns, column_order, new, column_order, row_count)
  BY <1>1, <1>3 DEF Extended
<1>6. RowsIn(new, column_order, row_count) = DoneTable
  BY <1>1, <1>5, SameRows DEF DoneTable
<1>7. Batch(new) = RowsIn(new, column_order, Len(new[slot]))
  BY DEF Batch, TableRows, RowsIn, slot
<1>8. Batch(new) = DoneTable
  BY <1>3, <1>4, <1>6, <1>7
<1> QED
  BY <1>8 DEF OutputExact, new

LEMMA SplitExact ==
  ASSUME TypeInv, AlignInv, ExactInv, Fixed, split_off
  PROVE  ExactInv'
<1>1. /\ pc = "idle" /\ pc' = "idle" /\ row_count' = 0
      /\ emitted' = emitted \o Batch(Normalized)
      /\ expected' = IF column_order = <<>> THEN <<>> ELSE expected
      /\ exported # {} \/ column_order = <<>>
      /\ UNCHANGED <<column_order, ordinal_expect, unknown_error, strict_error>>
  BY DEF split_off, layout_vars, error_vars
<1> SUFFICES ASSUME NoError PROVE RowsExact'
  BY <1>1 DEF ExactInv, NoError
<1>2. RowsExact /\ \A i \in 1..Len(columns) : Len(columns[i]) = row_count
  BY <1>1 DEF AlignInv, ExactInv
<1>3. LearnedNames' /\ Begins(predeclared, column_order)' /\ RowExact'
  BY <1>1, <1>2, NextPlan DEF RowsExact, Begins, RowExact
<1>4. row_count \in Nat /\ RowsDone = row_count /\ OutputExact
  BY <1>1, <1>2 DEF TypeInv, TableType, RowsDone, RowsExact
<1>5. DoneTable' = <<>>
  <2>1. DoneTable' = RowsIn(columns', column_order', 0)
    BY <1>1, NextRows DEF RowsDone
  <2> DEFINE t == RowsIn(columns', column_order', 0)
  <2>2. IsSequence(t) /\ Len(t) = 0
    BY RowsSequence
  <2> HIDE DEF t
  <2>3. t = <<>>
    BY <2>2, EmptySeq DEF IsSequence
  <2> QED
    BY <2>1, <2>3 DEF t
<1>6. emitted' = expected' /\ IsSequence(emitted')
  <2>1. CASE column_order = <<>>
    <3>1. emitted' = <<>>
      BY <1>1, <1>4, <2>1 DEF Batch, OutputExact
    <3> QED
      BY <1>1, <2>1, <3>1, EmptySeq, SequenceOf
  <2>2. CASE column_order # <<>>
    <3>1. emitted' = expected
      BY <1>1, <1>2, <1>4, <2>2, BatchRows
    <3>2. IsSequence(emitted) /\ IsSequence(DoneTable)
      BY <1>4, RowsSequence DEF OutputExact, DoneTable
    <3>3. IsSequence(emitted \o DoneTable)
      BY <3>2, ConcatFacts
    <3> QED
      BY <1>1, <1>4, <2>2, <3>1, <3>3 DEF OutputExact
  <2> QED
    BY <2>1, <2>2
<1>7. emitted' \o <<>> = emitted'
  <2>1. IsSequence(<<>>)
    BY EmptySeq, SequenceOf
  <2> QED
    BY <1>6, <2>1, ConcatFacts
<1>8. OutputExact'
  <2>1. IsSequence(emitted)'
    BY <1>6 DEF IsSequence, ToSet
  <2>2. column_order' = <<>> => emitted' = <<>>
    BY <1>1, <1>6
  <2> QED
    BY <1>5, <1>6, <1>7, <2>1, <2>2 DEF OutputExact
<1> QED
  BY <1>3, <1>8 DEF RowsExact

(* The end: an input that stops inside a row leaves that row out.           *)
LEMMA FinishExact ==
  ASSUME ExactConfigs, TypeInv, AlignInv, ExactInv, Fixed, finish
  PROVE  ExactInv'
<1>1. /\ pc = "idle" \/ (PartialRows /\ pc = "row")
      /\ pc' = "finished" /\ UNCHANGED <<column_order, expected>>
  BY DEF finish, input_vars
<1> SUFFICES ASSUME result' = "ok", column_order # <<>> PROVE emitted' = expected
  BY <1>1 DEF ExactInv
<1>2. /\ ~FinishFails /\ Exports(Normalized)
      /\ emitted' = emitted \o Batch(Normalized)
  BY DEF finish
<1>3. RowsExact
  BY <1>1, <1>2 DEF FinishFails, NoError, ExactInv
<1>4. exported # {}
  <2> SUFFICES ASSUME exported = {} PROVE FALSE
    OBVIOUS
  <2> DEFINE lens == {Len(Normalized[i]) : i \in exported}
  <2>1. Cardinality(lens) = 1
    BY <1>2 DEF Exports
  <2>2. lens = {}
    OBVIOUS
  <2> HIDE DEF lens
  <2> QED
    BY <2>1, <2>2, FS_EmptySet
<1>5. row_count \in Nat /\ (direct => DecidesEarly) /\ \A i \in 1..Len(columns) : Len(columns[i]) \in Nat
  BY ColumnLens, DirectDecides DEF TypeInv, TableType
<1>6. RowsDone = row_count /\ \A i \in 1..Len(columns) : Len(columns[i]) >= row_count
  <2>1. CASE pc = "idle"
    BY <1>2, <1>5, <2>1 DEF FinishFails, NoError, AlignInv, RowsDone
  <2>2. CASE PartialRows /\ pc = "row"
    <3>1. ~direct
      BY <2>2, ExactFacts DEF TypeInv, BufferType
    <3>2. Exact
      BY <1>2, <2>2 DEF FinishFails, NoError, AlignInv, InRow
    <3> QED
      BY <1>5, <2>2, <3>1, <3>2 DEF Exact, One, backfill, RowsDone
  <2> QED
    BY <1>1, <2>1, <2>2
<1> QED
  BY <1>2, <1>3, <1>4, <1>6, BatchRows DEF RowsExact

-----------------------------------------------------------------------------
(* The theorem.                                                             *)

LEMMA InitExact == Init => ExactInv
<1> SUFFICES ASSUME Init PROVE ExactInv
  OBVIOUS
<1>1. /\ config \in Configs /\ pc = "idle" /\ column_order = initial_order
      /\ row_count = 0 /\ emitted = <<>> /\ expected = <<>>
      /\ ordinal_expect = [o \in Ordinals |-> NoSlot]
  BY DEF Init
<1>2. LearnedNames
  BY <1>1 DEF LearnedNames
<1>3. Begins(predeclared, column_order)
  BY <1>1, InitialOrder
<1>4. IsSequence(<<>>)
  BY EmptySeq, SequenceOf
<1>5. DoneTable = <<>>
  <2>1. DoneTable = RowsIn(columns, column_order, 0)
    BY <1>1 DEF DoneTable, RowsDone
  <2> DEFINE t == RowsIn(columns, column_order, 0)
  <2>2. IsSequence(t) /\ Len(t) = 0
    BY RowsSequence
  <2> HIDE DEF t
  <2>3. t = <<>>
    BY <2>2, EmptySeq DEF IsSequence
  <2> QED
    BY <2>1, <2>3 DEF t
<1>6. OutputExact
  BY <1>1, <1>4, <1>5, ConcatFacts DEF OutputExact
<1> QED
  BY <1>1, <1>2, <1>3, <1>6 DEF ExactInv, RowsExact, RowExact

LEMMA StillExact ==
  ASSUME ExactInv, UNCHANGED vars
  PROVE  ExactInv'
<1>1. /\ Fixed
      /\ UNCHANGED <<pc, result, columns, column_order, row_count, row_dirty, fields, state,
                     direct, row_in, buffer_worthwhile, ordinal_expect, unknown_error,
                     strict_error, emitted, expected>>
  BY DEF vars, Fixed, table_vars, buffer_vars, layout_vars, error_vars, input_vars, output_vars
<1> SUFFICES ASSUME RowsExact PROVE RowsExact'
  BY <1>1 DEF ExactInv, NoError
<1>2. LearnedNames' /\ Begins(predeclared, column_order)'
  BY <1>1, NextPlan DEF RowsExact, Begins
<1>3. /\ backfill' = backfill /\ RowsDone' = RowsDone /\ raws' = raws
      /\ (Held' <=> Held) /\ (Skipping' <=> Skipping)
  BY <1>1, NextRaws, NextPlan DEF backfill, RowsDone, raws, RawOf, Held, Buffering, Skipping
<1>4. said' = said
  BY <1>1, <1>3, NextRaws DEF said
<1>5. (HeldRow' <=> HeldRow) /\ (StoredRow' <=> StoredRow) /\ DoneTable' = DoneTable
  BY <1>1, <1>3, NextRows DEF HeldRow, StoredRow, DoneTable
<1>6. RowExact'
  BY <1>1, <1>3, <1>4, <1>5 DEF RowsExact, RowExact, RowHeld, RowPushed
<1>7. OutputExact'
  BY <1>1, <1>5 DEF RowsExact, OutputExact, IsSequence, ToSet
<1> QED
  BY <1>2, <1>6, <1>7 DEF RowsExact

LEMMA StepExact ==
  ASSUME ExactConfigs, TypeInv, AlignInv, ExactInv, [Next]_vars
  PROVE  ExactInv'
<1>1. CASE begin_row /\ Fixed
  BY <1>1, BeginExact
<1>2. ASSUME NEW raw \in Names, NEW v \in Values, PutField(raw, v) /\ Fixed
      PROVE  ExactInv'
  <2>1. CASE NoError'
    BY <1>2, <2>1, PutFieldExact
  <2>2. CASE ~NoError'
    BY <1>2, <2>2 DEF PutField, Offer, ExactInv
  <2> QED
    BY <2>1, <2>2
<1>3. ASSUME NEW raw \in Names, NEW v \in Values, PutFieldAt(raw, v) /\ Fixed
      PROVE  ExactInv'
  <2>1. CASE NoError'
    BY <1>3, <2>1, PutFieldAtExact
  <2>2. CASE ~NoError'
    BY <1>3, <2>2 DEF PutFieldAt, Offer, ExactInv
  <2> QED
    BY <2>1, <2>2
<1>4. ASSUME NEW raw \in Names, NEW v \in Values, SkipField(raw, v) /\ Fixed
      PROVE  ExactInv'
  BY <1>4, SkipExact
<1>5. CASE end_row /\ Fixed
  BY <1>5, EndExact
<1>6. CASE Refuse /\ Fixed
  BY <1>6 DEF Refuse, NoError, ExactInv
<1>7. CASE split_off /\ Fixed
  BY <1>7, SplitExact
<1>8. CASE finish /\ Fixed
  BY <1>8, FinishExact
<1>9. CASE UNCHANGED vars
  BY <1>9, StillExact
<1> QED
  BY <1>1, <1>2, <1>3, <1>4, <1>5, <1>6, <1>7, <1>8, <1>9 DEF Next, Done

(* The table is the rows of the input that satisfy the filter, in order,    *)
(* each with the last value of each kept column: it makes no difference     *)
(* that put_resolved holds a row in the buffer or commits it as soon as     *)
(* eval_predicate passes, that finish_row pops a rejected row, that         *)
(* drain_buffered replays the buffer, that put_field_at skips the name of   *)
(* a learned layout, that the decoder jumps over a row that has failed, or  *)
(* that split_off and finish cut the table into batches.                    *)
THEOREM TableIsExact ==
  ASSUME ExactConfigs
  PROVE  Spec => []TableExact
<1>1. Init => TypeInv /\ LossInv /\ AlignInv /\ ExactInv
  <2>1. Init => LossInv
    BY DEF Init, LossInv
  <2> QED
    BY <2>1, InitType, InitAligned, InitExact
<1>2. /\ TypeInv /\ LossInv /\ AlignInv /\ ExactInv /\ [Next]_vars
      => TypeInv' /\ LossInv' /\ AlignInv' /\ ExactInv'
  BY EarlyOfExact, StepType, StepLoss, StepAligned, StepExact
<1>3. TypeInv /\ LossInv /\ ExactInv => TableExact
  <2> SUFFICES ASSUME TypeInv, LossInv, ExactInv, pc = "idle" \/ result = "ok", NoError,
                      column_order # <<>>
               PROVE  Table = expected
    BY DEF TableExact
  <2>1. CASE pc = "finished"
    BY <2>1 DEF Table, ExactInv
  <2>2. CASE pc # "finished"
    <3>1. pc = "idle"
      BY <2>2 DEF LossInv
    <3>2. OutputExact /\ RowsDone = row_count
      BY <3>1 DEF ExactInv, RowsExact, RowsDone
    <3>3. TableRows(columns, row_count) = DoneTable
      BY <3>2 DEF TableRows, DoneTable, RowsIn
    <3> QED
      BY <2>2, <3>2, <3>3 DEF Table, OutputExact
  <2> QED
    BY <2>1, <2>2
<1> QED
  BY <1>1, <1>2, <1>3, PTL DEF Spec

=============================================================================
