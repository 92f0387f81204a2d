-------------------------- MODULE SchemaCacheProofs --------------------------
(***************************************************************************)
(* Proofs about SchemaCache for any number of runs, all inputs and plans   *)
(* and every limit of the cache.                                           *)
(***************************************************************************)
EXTENDS SchemaCache, FiniteSetTheorems, SequenceTheorems, TLAPS

PcStates == {"idle", "start", "discover", "insert", "done"}

TypeInv ==
  /\ job \in [Runs -> Jobs \cup {NoJob}]
  /\ pc \in [Runs -> PcStates]
  /\ DOMAIN order = Runs
  /\ DOMAIN schema = Runs

\* A discovery of some input with this signature may find these fields.
FoundFor(fields, key) ==
  \E b \in Inputs : layout_signature(b) = key /\ fields \in Discovered(b)

\* An entry is what an input with its signature has led to.
CacheInv == \A key \in DOMAIN cache : FoundFor(cache[key], key)

\* A run is at work on a job, and discovers only without declared columns.
PhaseInv ==
  \A r \in Runs :
    /\ pc[r] # "idle" => job[r] \in Jobs
    /\ pc[r] \in {"discover", "insert"} => job[r].plan.schema_order = <<>>

\* What a run has found is its layout's, and its schema what its plan makes of it.
OrderInv ==
  \A r \in Runs :
    pc[r] = "insert" \/ (pc[r] = "done" /\ job[r].plan.schema_order = <<>> /\ order[r] # <<>>) =>
      /\ FoundFor(order[r], layout_signature(job[r].input))
      /\ schema[r] = from_discovered(order[r], job[r].plan)

BoundInv == IsFiniteSet(DOMAIN cache) /\ Cardinality(DOMAIN cache) <= SchemaCacheCap

IInv == TypeInv /\ CacheInv /\ PhaseInv /\ OrderInv /\ BoundInv

-----------------------------------------------------------------------------
(* The signature tells inputs apart that are scanned in full.               *)

LEMMA SignatureOfLength ==
  ASSUME NEW a \in Inputs, NEW b \in Inputs, layout_signature(a) = layout_signature(b)
  PROVE  Len(a) = Len(b)
  BY DEF layout_signature

(* All of a small input is hashed.                                          *)
LEMMA SignatureOfSmall ==
  ASSUME NEW b \in Inputs, Len(b) < FullScan
  PROVE  layout_signature(b) = <<Len(b), [i \in 1..1 |-> b]>>
<1>1. b \in Seq(STRING) /\ Len(b) \in Nat
  BY SchemaCacheAssumption
<1> DEFINE start(i) == ((Len(b) - Len(b)) * i) \div 1
<1>2. layout_signature(b)
        = <<Len(b), [i \in 1..1 |-> SubSeq(b, start(i - 1) + 1, start(i - 1) + Len(b))]>>
  BY DEF layout_signature
<1>3. ASSUME NEW i \in 1..1
      PROVE  start(i - 1) = 0
  BY <1>1, <1>3
<1>4. SubSeq(b, 1, Len(b)) = b
  BY <1>1, SubSeqFull
<1>5. ASSUME NEW i \in 1..1
      PROVE  SubSeq(b, start(i - 1) + 1, start(i - 1) + Len(b)) = b
  <2> HIDE DEF start
  <2>1. start(i - 1) + 1 = 1 /\ start(i - 1) + Len(b) = Len(b)
    BY <1>1, <1>3
  <2> QED
    BY <2>1, <1>4
<1> HIDE DEF start
<1> QED
  BY <1>2, <1>5

LEMMA SignatureOfInput ==
  ASSUME NEW a \in Inputs, NEW b \in Inputs, layout_signature(a) = layout_signature(b)
  PROVE  Len(b) = Len(a) /\ (Len(b) < FullScan => b = a)
<1>1. Len(a) = Len(b)
  BY SignatureOfLength
<1>2. ASSUME Len(b) < FullScan
      PROVE  b = a
  <2>1. <<Len(a), [i \in 1..1 |-> a]>> = <<Len(b), [i \in 1..1 |-> b]>>
    BY <1>1, <1>2, SignatureOfSmall
  <2>2. [i \in 1..1 |-> a] = [i \in 1..1 |-> b]
    BY <2>1
  <2> QED
    BY <2>2
<1> QED
  BY <1>1, <1>2

-----------------------------------------------------------------------------
(* What a lookup and a discovery leave a run with.                          *)

(* A discovery reads what Readings lists, whichever path it takes.          *)
LEMMA DiscoveryReads ==
  ASSUME NEW b \in Inputs,
         NEW slices \in {discover_schema_for_file(b, n) : n \in 1..Len(b)} \cup {discover_schema(b)}
  PROVE  FoundFor(Scan(slices), layout_signature(b))
<1>1. slices \in Readings(b)
  BY DEF Readings
<1> QED
  BY <1>1 DEF FoundFor, Discovered

(* A layout's entry is good for every run of that layout.                   *)
LEMMA LookupStep ==
  ASSUME NEW r \in Runs, NEW hit \in {"insert", "done"}, IInv, Lookup(r, hit)
  PROVE  TypeInv' /\ CacheInv' /\ PhaseInv' /\ OrderInv'
<1> DEFINE key == layout_signature(job[r].input)
<1>1. job[r].plan.schema_order = <<>> /\ pc[r] = "start" /\ UNCHANGED <<job, cache>>
  BY DEF Lookup
<1>2. TypeInv'
  BY DEF IInv, TypeInv, Lookup, Goes, Freezes, PcStates
<1>3. CacheInv'
  BY <1>1 DEF IInv, CacheInv
<1>4. PhaseInv'
  BY <1>1 DEF IInv, TypeInv, PhaseInv, Lookup, Goes
<1>5. CASE /\ key \in DOMAIN cache
           /\ order' = [order EXCEPT ![r] = cache[key]]
           /\ Freezes(r, from_discovered(cache[key], job[r].plan))
           /\ Goes(r, hit)
  <2>1. FoundFor(cache[key], key)
    BY <1>5 DEF IInv, CacheInv
  <2>2. order'[r] = cache[key] /\ schema'[r] = from_discovered(order'[r], job[r].plan)
    BY <1>5 DEF IInv, TypeInv, Freezes
  <2>3. ASSUME NEW q \in Runs, q # r
        PROVE  order'[q] = order[q] /\ schema'[q] = schema[q] /\ pc'[q] = pc[q]
    BY <1>5, <2>3 DEF IInv, TypeInv, Freezes, Goes
  <2>4. OrderInv'
    BY <1>1, <2>1, <2>2, <2>3 DEF IInv, OrderInv
  <2> QED
    BY <1>2, <1>3, <1>4, <2>4
<1>6. CASE Goes(r, "discover") /\ UNCHANGED <<order, schema>>
  <2>1. OrderInv'
    BY <1>1, <1>6 DEF IInv, TypeInv, OrderInv, Goes
  <2> QED
    BY <1>2, <1>3, <1>4, <2>1
<1> QED
  BY <1>2, <1>3, <1>4, <1>5, <1>6 DEF Lookup

(* A run that ends or fails leaves nothing behind.                          *)
LEMMA LeavesStep ==
  ASSUME NEW r \in Runs, IInv, Leaves(r)
  PROVE  IInv'
<1> USE DEF IInv, Leaves, Goes, Freezes
<1>1. TypeInv'
  BY DEF TypeInv, PcStates
<1>2. CacheInv' /\ BoundInv'
  BY DEF CacheInv, BoundInv
<1>3. PhaseInv'
  BY DEF TypeInv, PhaseInv
<1>4. OrderInv'
  BY DEF TypeInv, OrderInv
<1> QED
  BY <1>1, <1>2, <1>3, <1>4

(* What is discovered is the input's own, and becomes its schema.           *)
LEMMA DiscoverStep ==
  ASSUME NEW r \in Runs, IInv, discover(r)
  PROVE  IInv'
<1> DEFINE b == job[r].input
           plan == job[r].plan
<1>1. pc[r] = "discover" /\ b \in Inputs /\ plan.schema_order = <<>>
  BY DEF discover, IInv, PhaseInv, Jobs
<1>2. PICK slices \in {discover_schema_for_file(b, n) : n \in 1..Len(b)} \cup {discover_schema(b)} :
        \/ Leaves(r)
        \/ /\ order' = [order EXCEPT ![r] = Scan(slices)]
           /\ Freezes(r, IF Scan(slices) = <<>> /\ job[r].via # "file"
                            THEN from_names(<<>>, TRUE)
                            ELSE from_discovered(Scan(slices), plan))
           /\ Goes(r, IF Scan(slices) = <<>> THEN "done" ELSE "insert")
           /\ UNCHANGED <<job, cache>>
  BY DEF discover
<1>3. FoundFor(Scan(slices), layout_signature(b))
  BY <1>1, DiscoveryReads
<1>4. CASE Leaves(r)
  BY <1>4, LeavesStep
<1>5. CASE /\ order' = [order EXCEPT ![r] = Scan(slices)]
           /\ Freezes(r, IF Scan(slices) = <<>> /\ job[r].via # "file"
                            THEN from_names(<<>>, TRUE)
                            ELSE from_discovered(Scan(slices), plan))
           /\ Goes(r, IF Scan(slices) = <<>> THEN "done" ELSE "insert")
           /\ UNCHANGED <<job, cache>>
  <2>1. TypeInv'
    BY <1>5 DEF IInv, TypeInv, Freezes, Goes, PcStates
  <2>2. CacheInv' /\ BoundInv'
    BY <1>5 DEF IInv, CacheInv, BoundInv
  <2>3. PhaseInv'
    BY <1>1, <1>5 DEF IInv, TypeInv, PhaseInv, Goes
  <2>4. ASSUME NEW q \in Runs, q # r
        PROVE  order'[q] = order[q] /\ schema'[q] = schema[q] /\ pc'[q] = pc[q]
    BY <1>5, <2>4 DEF IInv, TypeInv, Freezes, Goes
  <2>5. order'[r] = Scan(slices) /\ pc'[r] = IF Scan(slices) = <<>> THEN "done" ELSE "insert"
    BY <1>5 DEF IInv, TypeInv, Goes
  <2>6. Scan(slices) # <<>> => schema'[r] = from_discovered(Scan(slices), plan)
    BY <1>5 DEF IInv, TypeInv, Freezes
  <2>7. OrderInv'
    BY <1>3, <1>5, <2>4, <2>5, <2>6 DEF IInv, OrderInv
  <2> QED
    BY <2>1, <2>2, <2>3, <2>7 DEF IInv
<1> QED
  BY <1>2, <1>4, <1>5

(* An insert makes room first, and what it writes is the layout's.          *)
LEMMA InsertStep ==
  ASSUME NEW r \in Runs, IInv, insert_schema_cache(r)
  PROVE  IInv'
<1> DEFINE key == layout_signature(job[r].input)
<1>1. pc[r] = "insert" /\ Goes(r, "done") /\ UNCHANGED <<job, order, schema>>
  BY DEF insert_schema_cache
<1>2. PICK gone \in IF AtCap THEN {{k} : k \in DOMAIN cache} ELSE {{}} :
        cache' = [k \in (DOMAIN cache \ gone) \cup {key} |->
                    IF k = key THEN Entry(r) ELSE cache[k]]
  BY DEF insert_schema_cache
<1>3. FoundFor(order[r], key)
  BY <1>1 DEF IInv, OrderInv
<1>4. TypeInv'
  BY <1>1 DEF IInv, TypeInv, Goes, PcStates
<1>5. CacheInv'
  BY <1>2, <1>3 DEF IInv, CacheInv, Entry
<1>6. PhaseInv'
  BY <1>1 DEF IInv, TypeInv, PhaseInv, Goes
<1>7. OrderInv'
  BY <1>1 DEF IInv, TypeInv, OrderInv, Goes
<1>8. BoundInv'
  <2>1. /\ IsFiniteSet(DOMAIN cache) /\ Cardinality(DOMAIN cache) \in Nat
        /\ Cardinality(DOMAIN cache) <= SchemaCacheCap /\ SchemaCacheCap \in Nat
    BY FS_CardinalityType, SchemaCacheAssumption DEF IInv, BoundInv
  <2>2. DOMAIN cache' = (DOMAIN cache \ gone) \cup {key}
    BY <1>2
  <2>3. /\ IsFiniteSet(DOMAIN cache \ gone) /\ Cardinality(DOMAIN cache \ gone) \in Nat
        /\ Cardinality(DOMAIN cache \ gone) + 1 <= SchemaCacheCap
    <3>1. CASE AtCap
      <4>1. PICK k \in DOMAIN cache : gone = {k}
        BY <1>2, <3>1
      <4>2. /\ IsFiniteSet(DOMAIN cache \ {k})
            /\ Cardinality(DOMAIN cache \ {k}) = Cardinality(DOMAIN cache) - 1
        BY <2>1, FS_RemoveElement
      <4>3. Cardinality(DOMAIN cache \ {k}) \in Nat
        BY <4>2, FS_CardinalityType
      <4> QED
        BY <2>1, <4>1, <4>2, <4>3
    <3>2. CASE ~AtCap
      <4>1. DOMAIN cache \ gone = DOMAIN cache
        BY <1>2, <3>2
      <4> QED
        BY <2>1, <3>2, <4>1 DEF AtCap
    <3> QED
      BY <3>1, <3>2
  <2> QED
    BY <2>1, <2>2, <2>3, FS_AddElement DEF BoundInv
<1> QED
  BY <1>4, <1>5, <1>6, <1>7, <1>8 DEF IInv

-----------------------------------------------------------------------------
(* The invariant.                                                           *)

LEMMA InitInv ==
  ASSUME Init
  PROVE  IInv
<1> USE DEF Init
<1>1. TypeInv
  BY DEF TypeInv, PcStates
<1>2. PhaseInv /\ OrderInv
  BY DEF PhaseInv, OrderInv
<1>3. DOMAIN cache = {}
  OBVIOUS
<1>4. CacheInv
  BY <1>3 DEF CacheInv
<1>5. BoundInv
  BY <1>3, FS_EmptySet, SchemaCacheAssumption DEF BoundInv
<1> QED
  BY <1>1, <1>2, <1>4, <1>5 DEF IInv

LEMMA StepInv ==
  ASSUME IInv, [Next]_vars
  PROVE  IInv'
<1>1. ASSUME NEW r \in Runs, begin(r)
      PROVE  IInv'
  <2> USE <1>1 DEF IInv, begin, Goes
  <2>1. TypeInv'
    BY DEF TypeInv, PcStates
  <2>2. CacheInv' /\ BoundInv'
    BY DEF CacheInv, BoundInv
  <2>3. PhaseInv'
    BY DEF TypeInv, PhaseInv
  <2>4. OrderInv'
    BY DEF TypeInv, OrderInv
  <2> QED
    BY <2>1, <2>2, <2>3, <2>4
<1>2. ASSUME NEW r \in Runs, declare(r)
      PROVE  IInv'
  <2> USE <1>2 DEF IInv, declare, Goes, Freezes
  <2>1. TypeInv'
    BY DEF TypeInv, PcStates
  <2>2. CacheInv' /\ BoundInv'
    BY DEF CacheInv, BoundInv
  <2>3. PhaseInv'
    BY DEF TypeInv, PhaseInv
  <2>4. OrderInv'
    BY DEF TypeInv, OrderInv
  <2> QED
    BY <2>1, <2>2, <2>3, <2>4
<1>3. ASSUME NEW r \in Runs, NEW hit \in {"insert", "done"}, Lookup(r, hit)
      PROVE  IInv'
  <2>1. BoundInv'
    BY <1>3 DEF IInv, BoundInv, Lookup
  <2> QED
    BY <1>3, <2>1, LookupStep DEF IInv
<1>4. CASE clear_schema_cache
  <2> USE <1>4 DEF IInv, clear_schema_cache
  <2>1. TypeInv' /\ PhaseInv' /\ OrderInv'
    BY DEF TypeInv, PhaseInv, OrderInv
  <2>2. DOMAIN cache' = {}
    OBVIOUS
  <2>3. CacheInv'
    BY <2>2 DEF CacheInv
  <2>4. BoundInv'
    BY <2>2, FS_EmptySet, SchemaCacheAssumption DEF BoundInv
  <2> QED
    BY <2>1, <2>3, <2>4
<1>5. CASE UNCHANGED vars
  BY <1>5 DEF IInv, TypeInv, CacheInv, PhaseInv, OrderInv, BoundInv, vars
<1> QED
  BY <1>1, <1>2, <1>3, <1>4, <1>5, LeavesStep, DiscoverStep, InsertStep
  DEF Next, end, lookup, discover_schema_for_bytes, discover_fails

(* In every reachable state the entries, the runs' findings and the number *)
(* of entries are as IInv says.                                            *)
THEOREM InvariantHolds == Spec => []IInv
<1> QED
  BY InitInv, StepInv, PTL DEF Spec

(* However many threads insert, evict and clear, the cache never outgrows  *)
(* SCHEMA_CACHE_CAP (insert_schema_cache).                                 *)
THEOREM CacheStaysBounded == Spec => []CacheBounded
<1>1. IInv => CacheBounded
  BY DEF IInv, BoundInv, CacheBounded
<1> QED
  BY <1>1, InvariantHolds, PTL

(* The schema of a run is what a discovery of an input of its layout finds, *)
(* read under its own plan, whoever filled the cache and whatever was       *)
(* evicted (run_bytes_stream_core, discover_schema_for_bytes,               *)
(* discover_schema_for_file).                                               *)
THEOREM SchemasAreOwn == Spec => []SchemaOfLayout
<1>1. ASSUME IInv
      PROVE  SchemaOfLayout
  <2> SUFFICES ASSUME NEW r \in Runs,
                      pc[r] = "done", job[r].plan.schema_order = <<>>, order[r] # <<>>
               PROVE  \E b \in Inputs :
                        /\ layout_signature(b) = layout_signature(job[r].input)
                        /\ Len(b) < FullScan => b = job[r].input
                        /\ order[r] \in Discovered(b)
                        /\ schema[r] = from_discovered(order[r], job[r].plan)
    BY DEF SchemaOfLayout
  <2>1. job[r].input \in Inputs
    BY <1>1 DEF IInv, PhaseInv, Jobs
  <2>2. /\ FoundFor(order[r], layout_signature(job[r].input))
        /\ schema[r] = from_discovered(order[r], job[r].plan)
    BY <1>1 DEF IInv, OrderInv
  <2>3. PICK b \in Inputs : /\ layout_signature(b) = layout_signature(job[r].input)
                            /\ order[r] \in Discovered(b)
    BY <2>2 DEF FoundFor
  <2>4. Len(b) < FullScan => b = job[r].input
    BY <2>1, <2>3, SignatureOfInput
  <2> QED
    BY <2>2, <2>3, <2>4
<1> QED
  BY <1>1, InvariantHolds, PTL
=============================================================================
