---------------------------- MODULE SchemaCache ----------------------------
(***************************************************************************)
(* How a run gets its frozen schema (crates/rypipe-core/src/schema.rs,     *)
(* parallel_stream.rs and parallel_stream/discovery.rs): declared by the   *)
(* plan, or the fields a first pass over the input finds, which a cache    *)
(* that all runs of the process share keeps by the input's layout.         *)
(*                                                                         *)
(* An input is a sequence of the fields a parser meets; "!" is where it    *)
(* gives up with an error and "P" where it panics. A signature holds what  *)
(* the code hashes, so two inputs share one only when that is the same.    *)
(***************************************************************************)
EXTENDS Naturals, Sequences, FiniteSets, SequencesExt, FiniteSetsExt, Functions

CONSTANTS
  Runs,            \* the threads that run pipelines, one after the other
  Inputs,          \* the inputs there are
  Plans,           \* [field_map, drop_fields, schema_order]
  SchemaCacheCap,  \* SCHEMA_CACHE_CAP, 128 in the code
  FullScan,        \* inputs shorter than this are scanned in full (128 MiB)
  Windows,         \* windows of the smallest sampled inputs (16)
  WindowBytes      \* and their size (2 MiB)

ASSUME SchemaCacheAssumption ==
  /\ SchemaCacheCap \in Nat \ {0} /\ FullScan \in Nat \ {0}
  /\ Windows \in Nat \ {0} /\ WindowBytes \in Nat \ {0}
  /\ \A b \in Inputs : b \in Seq(STRING) /\ Len(b) > 0

VARIABLES
  job,     \* what each run was asked: [input, plan, via]
  pc,      \* "idle", "start", "discover", "insert" or "done"
  order,   \* the raw field order a run has found
  schema,  \* its frozen schema
  cache    \* SCHEMA_CACHE: signature -> raw field order

vars == <<job, pc, order, schema, cache>>

-----------------------------------------------------------------------------
(* The signature of an input.                                              *)

\* A plausible slip: the leading window stands for the input.
layout_signature_leading(b) ==
  <<Len(b), << SubSeq(b, 1, IF WindowBytes < Len(b) THEN WindowBytes ELSE Len(b)) >> >>

\* All of a small input, four windows of a large one.
layout_signature(b) ==
  LET full == Len(b) < FullScan
      count == IF full THEN 1 ELSE 4
      width == IF full \/ Len(b) < WindowBytes THEN Len(b) ELSE WindowBytes
      start(i) == ((Len(b) - width) * i) \div count
  IN <<Len(b), [i \in 1..count |-> SubSeq(b, start(i - 1) + 1, start(i - 1) + width)]>>

-----------------------------------------------------------------------------
(* Discovery.                                                              *)

dynamic_window_count(size) ==
  IF size < FullScan THEN 0
  ELSE IF size < 8 * FullScan THEN Windows
  ELSE IF size < 80 * FullScan THEN 2 * Windows
  ELSE 4 * Windows

dynamic_window_size(size) == IF size < 8 * FullScan THEN WindowBytes ELSE 2 * WindowBytes

\* What a parser meets before it gives up or panics.
Met(slice) ==
  LET stops == {i \in DOMAIN slice : slice[i] \in {"!", "P"}}
  IN IF stops = {} THEN slice ELSE SubSeq(slice, 1, Min(stops) - 1)

Panics(slice) ==
  \E i \in DOMAIN slice : slice[i] = "P" /\ \A j \in 1..(i - 1) : slice[j] # "!"

\* DiscoverySink keeps a field when it first meets it.
Keep(seen, f) == IF f \in Range(seen) THEN seen ELSE Append(seen, f)

\* The fields of slices in order. The parser's error is dropped.
Scan(slices) == FoldLeft(Keep, <<>>, FlattenSeq([i \in DOMAIN slices |-> Met(slices[i])]))

Slice(b, from, to) == SubSeq(b, from + 1, IF to < Len(b) THEN to ELSE Len(b))

\* The windows a large input is sampled by, and always its end.
SampleWindows(b) ==
  LET n == dynamic_window_count(Len(b))
      size == dynamic_window_size(Len(b))
      start(i) == (Len(b) * i) \div n
      tail == IF size < Len(b) THEN Len(b) - size ELSE 0
  IN [i \in 1..n |-> Slice(b, start(i - 1), start(i - 1) + size)]
       \o << Slice(b, tail, Len(b)) >>

\* A sample without any field is no sample.
discover_schema(b) ==
  IF dynamic_window_count(Len(b)) = 0 \/ Scan(SampleWindows(b)) = <<>>
    THEN << b >> ELSE SampleWindows(b)

\* The ranges of a file that a window or its end touches, cut every n fields.
discover_schema_for_file(b, n) ==
  LET windows == dynamic_window_count(Len(b))
      size == dynamic_window_size(Len(b))
      offset(i) == (Len(b) \div windows) * i
      count == (Len(b) + n - 1) \div n
      from(k) == (k - 1) * n
      to(k) == IF k = count THEN Len(b) ELSE k * n
      sampled(k) == \/ windows = 0
                    \/ \E i \in 0..(windows - 1) : from(k) < offset(i) + size /\ to(k) > offset(i)
                    \/ to(k) + size > Len(b)
      chosen == SelectSeq([k \in 1..count |-> k], sampled)
  IN [i \in DOMAIN chosen |-> Slice(b, from(chosen[i]), to(chosen[i]))]

\* The slices a discovery of an input may read.
Readings(b) ==
  {discover_schema(b)} \cup {discover_schema_for_file(b, n) : n \in 1..Len(b)}

-----------------------------------------------------------------------------
(* Frozen schemas.                                                         *)

Renamed(plan, raw) == IF raw \in DOMAIN plan.field_map THEN plan.field_map[raw] ELSE raw

from_discovered(fields, plan) ==
  LET kept == SelectSeq(fields, LAMBDA f : Renamed(plan, f) \notin plan.drop_fields)
  IN [names |-> [i \in DOMAIN kept |-> Renamed(plan, kept[i])],
      index |-> [f \in Range(fields) |->
                   IF f \in Range(kept) THEN {i \in DOMAIN kept : kept[i] = f} ELSE {}],
      exact |-> FALSE]

\* Declared columns; more may follow unless they are exact.
from_names(names, exact) ==
  [names |-> names,
   index |-> [f \in Range(names) |-> {i \in DOMAIN names : names[i] = f}],
   exact |-> exact]

NoSchema == [names |-> <<>>, index |-> <<>>, exact |-> FALSE]

-----------------------------------------------------------------------------

NoJob == [input |-> <<>>, plan |-> <<>>, via |-> "none"]
Jobs == [input : Inputs, plan : Plans, via : {"core", "helper", "file"}]

Init ==
  /\ job = [r \in Runs |-> NoJob]
  /\ pc = [r \in Runs |-> "idle"]
  /\ order = [r \in Runs |-> <<>>]
  /\ schema = [r \in Runs |-> NoSchema]
  /\ cache = << >>

Goes(r, to) == pc' = [pc EXCEPT ![r] = to]
Freezes(r, s) == schema' = [schema EXCEPT ![r] = s]

begin(r) ==
  /\ pc[r] = "idle"
  /\ \E j \in Jobs : job' = [job EXCEPT ![r] = j]
  /\ Goes(r, "start")
  /\ UNCHANGED <<order, schema, cache>>

\* The run goes on with its schema, or fails: the thread is free for another.
Leaves(r) ==
  /\ Goes(r, "idle")
  /\ job' = [job EXCEPT ![r] = NoJob]
  /\ order' = [order EXCEPT ![r] = <<>>]
  /\ Freezes(r, NoSchema)
  /\ UNCHANGED cache

end(r) == pc[r] = "done" /\ Leaves(r)

\* A plan with schema_order needs no discovery.
declare(r) ==
  LET plan == job[r].plan
  IN /\ pc[r] = "start" /\ plan.schema_order # <<>>
     /\ Goes(r, "done") /\ Freezes(r, from_names(plan.schema_order, FALSE))
     /\ UNCHANGED <<job, order, cache>>

\* Under the read lock.  Where a run that finds its layout goes is up to it.
Lookup(r, hit) ==
  LET key == layout_signature(job[r].input)
  IN /\ pc[r] = "start" /\ job[r].plan.schema_order = <<>>
     /\ \/ /\ key \in DOMAIN cache
           /\ order' = [order EXCEPT ![r] = cache[key]]
           /\ Freezes(r, from_discovered(cache[key], job[r].plan))
           /\ Goes(r, hit)
        \/ /\ key \notin DOMAIN cache
           /\ Goes(r, "discover")
           /\ UNCHANGED <<order, schema>>
     /\ UNCHANGED <<job, cache>>

\* The executor inserts what it found once more.
lookup(r) == job[r].via = "core" /\ Lookup(r, "insert")

\* The helper for batch workloads and the discovery of a file are done.
discover_schema_for_bytes(r) == job[r].via # "core" /\ Lookup(r, "done")

\* Without any lock: others may look up, insert and clear meanwhile.
discover(r) ==
  LET b == job[r].input
  IN /\ pc[r] = "discover"
     /\ \E slices \in IF job[r].via = "file"
                        THEN {discover_schema_for_file(b, n) : n \in 1..Len(b)}
                        ELSE {discover_schema(b)} :
          \/ (\E i \in DOMAIN slices : Panics(slices[i])) /\ Leaves(r)
          \/ /\ ~\E i \in DOMAIN slices : Panics(slices[i])
             /\ order' = [order EXCEPT ![r] = Scan(slices)]
             /\ Freezes(r, IF Scan(slices) = <<>> /\ job[r].via # "file"
                             THEN from_names(<<>>, TRUE)
                             ELSE from_discovered(Scan(slices), job[r].plan))
             /\ Goes(r, IF Scan(slices) = <<>> THEN "done" ELSE "insert")
             /\ UNCHANGED <<job, cache>>

\* The budget of a file's discovery runs out, or reading it fails.
discover_fails(r) ==
  /\ pc[r] \in {"start", "discover"} /\ job[r].via = "file"
  /\ job[r].plan.schema_order = <<>>
  /\ Leaves(r)

\* A plausible slip: the columns of the schema are cached.
Entry_resolved(r) == schema[r].names

\* The raw field order is cached: the plan is applied again on every hit.
Entry(r) == order[r]

\* A plausible slip: the limit is tested after the entry.
AtCap_late == Cardinality(DOMAIN cache) > SchemaCacheCap

AtCap == Cardinality(DOMAIN cache) >= SchemaCacheCap

\* Under the write lock. At the limit some entry goes, even if the key is there.
insert_schema_cache(r) ==
  LET key == layout_signature(job[r].input)
  IN /\ pc[r] = "insert"
     /\ \E gone \in IF AtCap THEN {{k} : k \in DOMAIN cache} ELSE {{}} :
          cache' = [k \in (DOMAIN cache \ gone) \cup {key} |->
                      IF k = key THEN Entry(r) ELSE cache[k]]
     /\ Goes(r, "done")
     /\ UNCHANGED <<job, order, schema>>

clear_schema_cache ==
  /\ cache' = << >>
  /\ UNCHANGED <<job, pc, order, schema>>

Next ==
  \/ \E r \in Runs :
       \/ begin(r) \/ end(r)
       \/ declare(r)
       \/ lookup(r) \/ discover_schema_for_bytes(r)
       \/ discover(r)
       \/ discover_fails(r)
       \/ insert_schema_cache(r)
  \/ clear_schema_cache

Spec == Init /\ [][Next]_vars

-----------------------------------------------------------------------------
(* Properties.                                                             *)

\* The fields a discovery of b may find.
Discovered(b) == {Scan(slices) : slices \in Readings(b)}

\* The schema a run freezes is, under the run's own plan, what a discovery finds
\* in its own input, whoever filled the cache, with whatever plan and by
\* whichever path, and whatever was evicted or cleared meanwhile. A sampled
\* input may get that of another input with its signature: of the same length,
\* with the same hashed windows (run_bytes_stream_core,
\* discover_schema_for_bytes, discover_schema_for_file).
SchemaOfLayout ==
  \A r \in Runs :
    pc[r] = "done" /\ job[r].plan.schema_order = <<>> /\ order[r] # <<>> =>
      \E b \in Inputs :
        /\ layout_signature(b) = layout_signature(job[r].input)
        /\ Len(b) < FullScan => b = job[r].input
        /\ order[r] \in Discovered(b)
        /\ schema[r] = from_discovered(order[r], job[r].plan)

\* However many runs insert at once, the cache holds no more entries than its
\* limit (insert_schema_cache).
CacheBounded == Cardinality(DOMAIN cache) <= SchemaCacheCap
=============================================================================
