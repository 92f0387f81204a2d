# Verification of rypipe

rypipe is a columnar ingestion engine: a format adapter's parser walks the
records of an input and puts fields into a sink; the engine builds Arrow
batches, filtered and projected by a plan, serially or with worker threads,
and streams them to a consumer or to a pulling caller. This directory holds TLA+
models of its core, from the search for delimiters to the assembled batches, the TLC runs that check them on small instances, and
TLAPS proofs: the safety of both executors, parallel and bounded, for every number of
threads, chunks and rows; the table builder, its columns and the storage below them for every
plan and input; record splitting and feeding for every format and input; the schema cache for
any number of runs; the search for delimiters for every buffer and block size.

## Inventory

Paths are under `src/crates/rypipe-core/src/` unless they start with `src/`.

| component | state | operations | hard behaviour | what makes it correct |
|---|---|---|---|---|
| parallel streaming executor (`parallel_stream.rs`) | chunk queue, dispatch window and its condition variable, shared file handle, worker channel, reorder buffer, `next_seq` | plan, pop, wait at the gate, read, parse, send, receive, reorder, consume, shut down | workers against a coordinator; errors and panics while others are blocked | in order, each chunk once, all or an error; bounded run-ahead; it always ends |
| parallel batch iterator (`parallel_stream.rs`) | the caller's channel, thread handle, `done` | `new`, `next`, drop | caller, executor thread and workers; drop at any time; capacity zero | `None` only when complete; `next` returns; drop stops every thread |
| table builder (`engine/`) | columns, `row_count`, dirty mask, row buffer, learned slots, recorded errors | `begin_row`, the `put_*` family, `end_row`, `split_off`, `normalize`, `finish` | three strategies for filtered rows, changed between and inside rows; columns born late; input cut inside a row | columns stay aligned; the table is the filtered input; a loss is reported |
| plan and predicates (`plan.rs`, `plan/predicate.rs`) | renames, drops, projection, filter, types | `resolve_field`, `check` | one meaning, evaluated on whole rows, on half-seen rows and on buffered values | all evaluations agree |
| bounded executor, spilling sink, ledger (`bounded.rs`, `spill.rs`, `budget.rs`) | builder, deferred error, byte counts | `run_stream`, `end_row`, `finish_run` | errors deferred past infallible calls | nothing lost, errors surface |
| streaming iterator (`streaming.rs`) | channel of one, thread handle, `done` | `new`, `next`, drop | caller against executor thread | as for the parallel iterator |
| schema discovery and cache (`parallel_stream/discovery.rs`, `schema.rs`) | global cache of column orders | sample, freeze, insert, look up | concurrent runs share the cache; sampling misses columns | a frozen schema never loses a column silently |
| parallel parse, dictionaries (`parallel.rs`, `dict.rs`) | per-chunk builders and dictionaries | parse chunks, unify | codes of different dictionaries | a code means the same string after unification |
| column builders (`columnar.rs`, `value.rs`) | validity bitmap, arena and offsets, values, codes and dictionary | `push`, `pop`, `split_off`, `extend_owned`, promotion, dictionary upgrade, export | pops and appends at word boundaries, offsets after a split | the representation agrees with the cells |
| merge, export, collecting consumer (`merge.rs`, `arrow_export.rs`, `consumer.rs`) | column union | `extend`, `finish` | batches with different columns | rows keep their values under the union schema |
| record splitting (`decoder.rs`) | none | `find_split_points`, `split_points_to_ranges` | quotes, skip regions, continued lines | ranges tile the input, at record starts |
| record stream (`streaming_parser.rs`) | buffer, start, eof | `feed`, `finish`, `parse` | any chunking of the input | the records do not depend on the chunking |
| input buffer (`input.rs`) | bytes still allowed | `open`, `read` | any read sizes, the byte after the limit | a larger output is an error, a smaller one never |
| byte scanning (`block_masks.rs`) | current block, computed masks, quote state | `next`, `next_any`, `next_unquoted` | masks and quote state kept from call to call, across blocks | the answer of a byte-by-byte scan |
| engine choice (`auto.rs`, `pipeline.rs`), the scanners of `scan/`, diagnostics, Python bindings, Python pipeline (`src/rypipe/`) | | | stateless choices, I/O, FFI | see "Not modelled" |

How they interact: the executor gives every worker a table builder and a parser
and gets finished batches back over a bounded channel; the parser drives the
builder through the `ColumnarSink` trait; the coordinator calls the
`BatchConsumer`, which is a collector, a spilling sink's target, or the sending end
of a second bounded channel read by an iterator. `PROJECT.json` lists every
component and, under `hazards`, the places where this can go wrong.

## Modules

### ParallelStream

One action per step of `run_bytes_stream_core` that another thread can observe.

| model | code |
|---|---|
| `cpc` | where the coordinator (the calling thread) is |
| `wpc[w]`, `work[w]` | where worker `w` is, and the chunk, bytes and result it holds |
| `popped`, `chunks_with_seq` | the mutex-protected `Vec` of ranges, reversed once and popped from its end |
| `dispatch_some`, `dispatch_next` | `dispatch: Mutex<Option<usize>>` |
| `Gate`, `asleep`, `notify_all` | `Condvar::wait_while` and `notify_all`; publishing and notifying are two steps |
| `file_lock`, `file_cursor` | the `Mutex<File>` all workers share, and its position |
| `channel`, `receiver_alive` | `sync_channel(max_in_flight)` |
| `pending`, `pending_batch`, `reorder_bytes` | the reorder map and its byte counter |
| `HangUp`, `CloseDispatch`, `WakeWorkers`, `Join` | the receiver's drop, `DispatchGuard::drop`, the joins |

A batch is the chunk its bytes came from and a size. Planning is its outcomes:
nothing to do, some number of chunks, an error, a panic. `ChunkFails` is every way
a chunk can fail inside `catch_unwind`. `consumed` is a history variable.

`BatchStream` is the abstract specification: a stream of `total` items, each
delivered at most once (in order, if ordered), that ends with Ok only when
everything was delivered. `ImplementsStream` says the executor implements it.

### ParallelIterator

Extends ParallelStream with the executor thread's own end, the caller's channel
and the caller. `ConsumeOk` and `ConsumeErr` of the executor become the send of
`ChannelConsumer`. `CallerSeesStream` is the same abstract stream, seen through
`next()`.

### TableBuilder

The `ColumnarSink` of the engine with the plan and its predicates. A cell is a
value or null; a column is a sequence of cells; the filter is a sequence of nodes
in postorder, evaluated with the code's three values. `config` is one of a
set of configurations (plan, frozen schema, the habits of the decoder, and the
bounds of the input); it is chosen once. A decoder may use `put_field`,
`put_field_resolved` or `resolve_and_put`, may honour `row_rejected` and
`row_satisfied`, and may use `expect_slot` with `put_field_at`. The history
variable `expected` applies the filter's meaning (`FilterPredicate::check`) to
every whole row the input offered, those the decoder skipped included: `TableExact`
compares the builder's table with it.

Names and values are elements of small sets; a value is put as a text or as an explicit
null, as every decoder in the repository does. The conversions that matter are kept: a
text that does not parse into its column's type becomes null (`Cell`), and an
explicit null of a text column becomes the text `Null` in `get_buffered_str`
(`NullText`). A leaf is the set of tuples of its fields' values that satisfy it.

A filter is evaluated in two ways, on buffered texts (`BufferedLeaf`) and on stored
values (`CheckLeaf`), and each has the conversions of its own code:

| | buffered (`predicates.rs`) | stored (`plan/predicate.rs`, `columnar.rs`) |
|---|---|---|
| a value | `Seen`: comparisons parse as the columns do, other leaves with `str::parse` (`StdRefuses`) | `Cell`, when it was pushed (`Refuses`) |
| a literal | `buffered_literal`: booleans are `true` or `false`, dates and decimals stay text (`ComparesText`) | `typed_from_literal`: booleans in six spellings, numbers with `str::parse`, dates as numbers |
| two fields | `Compatible`: of one type, or numbers; two texts only if neither column is in `field_types` (`BufferedHolds`) | `compare_typed`: of one kind of value (`kinds`, `StoredHolds`) |
| no value | open, pass or fail (`MissingState`), an explicit null fails a comparison | null: `NotEqual`, `NotIn`, `NotField` and `IsNull` hold, the others fail |

A comparison has a set of tuples for each kind of values, because texts and numbers
compare differently. Which texts a parser refuses is a parameter, separate for the two
number parsers in use (`unparsable`, `std_unparsable`).

### BoundedStream

`StreamingBatchIterator`, the thread it starts, `BoundedExecutor::run_stream` and the
`SpillSink`, composed: one thread parses, cuts batches off one builder and sends them
over a channel of one slot.

| model | code |
|---|---|
| `pc` | where the executor thread is; `start` covers all of `run_slice_spill` before the parser |
| `RowsPerBatch`, `Oversize` | the arithmetic of `run_slice_spill` on the splitter's estimate and the input's length |
| `engine`, `batch` | the rows in the sink's builder and in the batch `spill_inner` took from it; a row is its number |
| `error`, `row_error` | `SpillSink`'s deferred error; the builder's recorded error |
| `should_spill`, `AfterRow` | `should_spill` and the early return of `spill` |
| `SpillBatch`, `SpillFails`, `SpillPanics`, `SendBatch`, `SendDisconnected` | the ways through `spill_inner` |
| `FinishRun`, `Settle`, `ReportError` | `finish_run` and the thread's own end |
| `slot`, `caller`, `done`, `ReturnItem`, `ReturnEnd` | the `sync_channel(1)` and `next` |

Whether the builder's capacity is over its quarter of the budget is a free choice
at every row, and so is the row on which a strict budget refuses a field. `yielded`,
`refused`, `failed` and `ended` are history variables. `RowStream` is the abstract
specification: rows arrive in batches, in order, none twice, and the stream
ends with "ok" only when all arrived. The byte ledger and the statistics are left
out, as the code writes them and never reads them back to decide anything.

### Columns and Assembly

`Selection` has the two loops that pick elements out of a sequence (`Picked`, `Firsts`).
`Columns` is the storage of one column as operators on a record: bitmap, arena,
offsets, values, dictionary index. Words have `WordBits` bits, two in the run, so that
every append meets aligned and unaligned ends. `Assembly` puts several table builders over
such columns through everything that follows parsing:

| model | code |
|---|---|
| `ParseRow`, `EndChunk`, `ChunkFails`, `CollectFails` | the parallel map of `ParallelExecutor::parse`, a builder per chunk, and its `collect` |
| `UpgradeChunks`, `UnifyDictionaries`, `replace_dict`, `remap` | the `auto_dict` path and `dict.rs` |
| `ExportChunks`, `ExportUnified`, `engines_to_record_batches` | the export of all builders under one schema |
| `MergeChunks`, `extend` | `TableBuilder::extend` and `finish` |
| `SpillRows`, `CollectBatches` | batches split off one builder, aligned by `CollectingConsumer` |

`cfg` is one of eleven plans and inputs. A row's fate is chosen (accepted, rejected at its
end, cut short); `log` is the history the properties compare with. `ResultIsSerial`
is the abstract specification: the batches are the serial table.

### Splitter and RecordStream

`Splitter` has the boundary search and the split points; beside them stands `Records`, the
same formats read from the front as a parser would, which is the reference (external
code: the adapters are not in this crate). `RecordStream` composes the ways an
input takes: mapped or read through `LimitReader`, then split; or fed to
`RecordStream` in any pieces and parsed after any of them, with parser errors.

### BlockMasks

The value `self` is `BlockMasks`; a bitmask is the set of its bits. Each step is a query
at any position and `agrees` says whether its answer was the one of a byte-by-byte scan.
`Width` and `Lane` are 64 and 16 or 32 in the code, 4 and 2 in the run. A loop of the code is
a turn per block (`Turn`), iterated by the recursive function `Loop`; the walk over quote
events inside a block is `Walk`, in the same form. An unquoted query never asks for a byte
that is a quote itself (`Delims \ quotes`), as no caller in the repository does: a delimiter that also opens a
region has no answer outside of regions.

### SchemaCache

Runs of any number of threads take their frozen schema from the plan, from the cache or
from a discovery, which happens without a lock between the two accesses to the cache.
`via` is the path: the executor (`core`), the public helper, or a file. A signature is
what the code hashes, a discovery reads the code's windows at a small scale.

## Runs

| run | shows | bounds and why they are enough |
|---|---|---|
| `ordered` | in-order delivery, completeness, the window, exclusive use of the file, exact byte counts, termination, refinement | 2 workers, window 1, channel 1, up to 4 chunks, batches that fit the strict allowance and ones that do not, all faults: a worker can be asleep at the gate, another blocked on the full channel, with a batch in the reorder buffer and one error on the way |
| `iterator` | unordered delivery: each chunk once, the caller's view, `next` never hangs, drop stops all threads | 2 workers, 5 chunks: both channels can be full with a chunk left to pop |
| `rendezvous` | ordered delivery with `threads = 0`: capacity zero to the caller, one worker | 3 chunks |
| `builder` | alignment, exactness of the table, accounting of rows, no silent loss, stability of committed rows | ten configurations, 1 to 3 rows of up to 3 fields out of 2 to 4 names: enough for a column born in the second row, a predicate column that turns out late, a split between rows, a slot learned in the first row and broken in the next, a compared field that is overwritten, null, unparsable or of another type, and a comparison of numbers, dictionaries or a boolean that is decided in the buffer for the first row and on stored values for the second |
| `bounded` | the caller gets the rows in order and all of them unless an error came; no gap after a lost batch; no batch over its target; `next` returns and drop ends the thread | a budget of 256 (target: 2 bytes), estimates 0, 1 and 3 (clamped, below, oversize), lengths 1, 6 and 9 (fewer rows than the target, and more), 5 rows: batches of 1, 2 and 3 rows, so that one can be lost with one before it in the slot and rows after it |
| `assembly` | representation of the columns, cells kept, the serial table by every path, exact errors, dictionaries that extend each other | eleven configurations of 1 to 3 chunks, up to 3 rows each, two columns, words of 2 bits: late columns in every chunk, popped and split rows at and off a word boundary, all pairs of upgraded and plain chunks |
| `records` | splitting and feeding keep the records; the limit is exact | every input of up to 5 to 7 bytes in six formats, up to 4 chunks, buffers of 1 or 2 bytes, compaction from 2 consumed bytes on |
| `masks` | every answer is that of a byte-by-byte scan | every buffer of up to 5 bytes over three delimiters, and buffers of 6 and 9 bytes (up to three blocks of two registers) with quotes of two kinds: one opened in the first block that may end in any of the three, and a second block with few delimiters |
| `schema_cache` | a schema is that of the run's own layout under its own plan; the cache stays within its limit | 2 threads, which run one pipeline after the other without end, 7 inputs, 3 plans, a cache of 2: both may insert at the limit at once, after a clear, the same key or another |
| `duplicate_fields`, `open_leaf`, `parallel_dict` | the findings below | |

In `schema_cache` the threads are symmetric: no definition orders or names them.

Fairness. The parallel executor's runs assume weak fairness of the coordinator and of
each worker: the operating system runs every thread that can run. No lock is
assumed fair. In the iterator runs a receive that can return does so, but the
caller owes nobody another call, and may never drop. Safety runs use no fairness. In
`bounded` the executor thread runs when it can: rows that the filter rejects, which
leave the model's state as it is, are finitely many in an input.

Deadlock is checked in the runs of the executors and of the table builder; `Done`, in each
module, and `ItDone` are the only states in which nothing may happen. The other runs end
where their input ends and check no deadlock.

## Findings

Each is a violation run; the finding in `PROJECT.json` quotes the text it contradicts.

- `duplicate_fields`: after an early commit by `resolve_and_put` a repeated field is
  appended, not replaced; the column is one cell too long from then on.
- `open_leaf`: `NotIn`, `NotField` and `IsNull` evaluate to Pass while their field
  has not come yet. `resolve_and_put` then commits rows that the filter rejects
  (shown), and a negated `IsNull` makes `row_rejected` skip rows that the filter
  keeps. The configurations of `builder` avoid these leaves where rows are decided early.
- `parallel_dict`: with `auto_dict`, chunks whose dictionaries differ at a position that
  both have are unified without remapping it: strings of one chunk turn into those of
  the other. `PrefixesUnify` is what does hold. `ResultIsSerial` and `ErrorsExact` promise
  nothing after this has happened.

Met while modelling, and not shown by a run of their own; a configuration that
exhibits them is left out of the passing runs for that reason:

- The reorder limit is enforced under a strict budget only, where the window keeps it
  from being reached (`StrictLimitUnreachable`); under a soft budget, the default, the
  error that `discovery.rs:114` documents never comes.
- Learned slots hold resolved names and are compared with raw names: with two columns
  renamed to each other, a value lands in the wrong column.
- A row committed early survives an end of input inside it, although `normalize` is
  documented to drop partial rows (`table_builder.rs:472`).
- `unify_variants` finds no variant for two decimal columns, so a merge of two
  non-empty chunks with one is an error.
- `engines_to_record_batches` exports columns that only the filter needs; on the merge
  path a pure comparison on a column that is projected out is a plan error.
- With a strict budget, strict types and early commits together, a refused `begin_row` or
  `end_row` after a recorded type error leaves the row's dirty mask as it was
  (`table_builder.rs:830`, `:941`) and, since only a memory error latches
  (`memory.rs:86`), the next row builds on it: its columns come out short. The error is
  reported all the same. `RefusalsLatch` excludes this in one theorem.
- A spilled batch of rows without any field has no column and therefore no row.
- Only the first dictionary column that differs is unified, and the remap tables are
  zipped with all engines though engines without the column have none.
- `in_skip_region` looks back 64 KiB at most: a boundary inside a longer region is taken.
- `RecordStream::parse` leaves its position when the parser fails after emitting records,
  and a retry emits them again; it also answers `Rows` whenever bytes were consumed.
- `find_split_points` documents `len * i / n` and computes `len / n * i`.
- The four windows of a signature never reach the end of a large input, though discovery
  always reads it: inputs that differ only there share an entry. The file path and the
  byte path may find different orders for one sampled input. An empty discovery is an
  exact empty schema on the byte path only. At its limit the cache evicts another entry
  even when it only replaces one. `from_discovered` may give two columns one name.
- `next_unquoted` resumes at its old position without selecting the block again when
  another query has moved it (constant `AnyOrder`). Its documentation asks for positions
  from the previous one on; any other position restarts the quote state.
- The two evaluations of a filter disagree in places, so that the same filter keeps other
  rows when the builder stops buffering, although a test asks that "the batch path
  (FilterPredicate::check over finished columns) must agree with the predicate-first path"
  (`table_builder.rs:1699`). A boolean literal `True`, `TRUE`, `False` or `FALSE` is read on
  stored rows only (`plan/predicate.rs:576`; `predicates.rs:521`). A dictionary and a string
  column compare as texts when stored and not at all in the buffer (`predicates.rs:265`),
  nor do two columns declared in `field_types` as text (`:357`). A literal for a date, a
  timestamp or a decimal is compared as text in the buffer (`:523`), and read as a number or
  a decimal for stored rows. Numbers are read by `lexical` into columns, and by `str::parse`
  where a leaf looks at the text or the literal of a stored row: if one refuses what the
  other takes, the rows differ. `MCTableBuilder` has a configuration for each in
  `TwoReadings`: put alone in the place of `OpenLeaf` in `MCOpenLeaf.cfg`, each violates
  `FilterExact`. `ReadsAlike` excludes them from `TableExact`. `IsType`, and the rounding of
  decimals in an arithmetic comparison, differ too and are not modelled.
- `TableBuilder::reset`, which nothing calls, keeps the predicate mask and the learned
  slots of the columns it clears.

An explicit null of a text column is text to `get_buffered_str`, so `IsNull`
rejects it in a buffered row. `Buffered` has its `IsNull` leaf on a typed column
for that reason.

## Proofs

`ParallelStreamProofs` proves, for every `Threads`, `OptMaxReorder`,
`OptMaxInFlight`, `MaxChunks`, sizes and faults, and ordered or not: `TypeOK`,
`InOrderPrefix`, `DeliveredOnce`, `OkMeansComplete`, `ReorderWindow`, `RunAhead`,
`OwnBytes`, and `ImplementsStream`. The assumptions are the types of the constants
(`ThreadsAssumption` and the others in ParallelStream), nothing more.

The argument is one inductive invariant, `IInv`, of named parts:

- `PhaseInv`: what exists before, in and after the receive loop;
- `BoundInv`: only popped chunks are anywhere;
- `FileInv`: the worker about to read holds the handle, and the cursor is its own;
- `DataInv`: a good batch holds its own chunk's bytes wherever it is, which `FileInv`
  gives at the read and every hand-over keeps;
- `UniqueInv`: no chunk is in two places (a worker, the channel, the reorder
  buffer, the coordinator's hand, the consumer), without which `DeliveredOnce` does
  not survive a delivery;
- `OrderInv`: `next_seq` is the length of the delivered prefix;
- `WindowInv`: everything past the gate lies in the window after the *published*
  number, which trails `next_seq`: that is why the bound holds although publishing
  comes after draining;
- `CoverInv`: until something fails every popped chunk is somewhere, and a worker has
  exited only because the queue is empty or because its error is in the channel. At the
  end of the loop all workers have exited and the channel is empty, so all chunks were
  consumed; in ordered mode the chunk `next_seq` would have to be in the reorder
  buffer, which `OrderInv` excludes.

Each action has a lemma for the parts it can disturb. The refinement theorem maps
every step to a step of `BatchStream` or a stutter under `IInv`.

`BoundedStreamProofs` proves, for every `Budget`, `Strict`, `StrictTypes`, sets of
estimates and lengths, `MaxRows` and faults: `TypeOK`, `NoGap`, `BatchBounded` and
`ImplementsRows`. The assumptions are again the types of the constants. Its `IInv`:

- `PhaseInv`: what the thread holds at each point; a batch is in hand, or about to be
  cut, only while nothing has failed;
- `OrderInv`: caller, slot, batch and builder hold rows in that order, out of those parsed;
- `CoverInv`: until a batch is lost, each row parsed is in one of the four or was
  refused by the builder, and then the builder has an error to report;
- `TailInv`: `finish_run` starts at the end of the input or after an error, and leaves
  no rows behind, so that a thread that exits in silence has sent everything;
- `HeldInv`: between two rows the builder holds fewer than one batch, which bounds a
  batch when it is cut;
- `NoGap` follows at the moment a batch is cut, from `CoverInv`.

`ParallelStreamProofs` goes on to the iterator and proves, for the same constants and whenever
the caller pulls or drops, `ItTypeOK` and `CallerSeesStream`. Every step behind the iterator is one of the
executor's own (`ExecutorSteps`), so its `IInv` carries over; `ItIInv` adds

- `FlowInv`: as long as the caller listens, what it got and what waits in the channel are,
  in this order, the batches consumed, and an error comes after them all;
- `EndInv` and `DoneInv`: the thread ends after the run, and a run that failed has told the
  caller, or its error waits. An empty channel of a thread that exited thus means a
  result of Ok, hence all batches, by the executor's `CoverInv`.

The only hypothesis is room for one chunk under `MaxChunks`, in `CallerGetsStream`. What the
constructor fixes, one number for both channels and a consumer that fails but never
panics (`IteratorOptions`), is assumed of the runs in `MCIterator`, and not needed here.

`SchemaCacheProofs` proves `CacheBounded` and `SchemaOfLayout` for any runs, inputs, plans
and every limit of at least 1. An entry is always what an input *with its signature* has led
to, and so is what a run has found (`CacheInv`, `OrderInv`), whatever is evicted, cleared
or inserted between its lookup and its insert; the signature of an input shorter than `FullScan`
holds all of it (`SignatureOfInput`). A larger input is hashed in four windows, and may get the
schema of another with the same signature. The model compares the hashed bytes: collisions of
the hash are abstracted. What a discovery finds stays opaque.

`RecordStreamProofs` proves all three properties of `records`, for every input, every size
of the reads and pieces, every number of chunks and every format that `FormatAssumption`
allows: "none" is no byte, and a line end neither continues a line nor closes a region.

- `LimitExact`: what was read and what may still be read make up the limit, also one of no
  bytes, and a reader asks for one byte more, so it never takes a full buffer for the end.
  Reading ends with the error, as `read_to_end` does: a further read is not modelled.
- `StreamKeepsRecords` (`FeedInv`): what the caller has been given and what the buffer still
  holds are the bytes fed, and the parser stops between two records. From there on it reads as
  if nothing had come before: the records of an input are those of a complete
  front of it, followed by those of the rest (`ReadAfter`, `RecordsAfter`).
- `SplitKeepsRecords`: the backward looks of `find_next_record_boundary` see what a reader
  from the front knows. The line so far stands right before the position; a region
  that is open at a newline is seen from behind when the window holds it (`RegionSeen`, hence
  the hypothesis `RegionsFit` in the property). So a boundary that passes the checks for
  continued lines, comments, blank lines and regions has no open record before it
  (`BoundaryComplete`). The kept split points ascend, the ranges tile the input, and their
  records concatenate by the same `RecordsAfter`.

`BlockMasksProofs` proves `AnswersExact` for every buffer, every set of delimiters and of quotes
among them, every size of a register and every block of up to 64 bytes: whatever was asked
before, each query answers as reading byte by byte does. The hypothesis is `~AnyOrder`: an
unquoted scan resumes in the block that its quote state belongs to, as every caller in the
repository does (see "Met while modelling"). It has three layers.

- Masks. The comparisons per register, each shifted to its place, give the bytes of the
  block that are the delimiter, without the padding of the last one (`ComputeOneIs`). After
  each of the six shifts of `prefix_xor` a bit is the parity of a window twice as long
  (`WindowDoubles`); 64 bits is where the last one reaches, which is what the bound on
  `Width` is for.
- One block of an unquoted scan. `Active` is the quote that is open at a position when
  the bytes are read from the front. The walk over quote events agrees with it from event
  to event (`WalkScans`); when one type of quote is left in the block, the parity does
  (`ParityIsActive`), so both paths find the first match outside quotes, or carry the open
  quote to the next block (`ScanIs`).
- Loops. A turn finds the answer or moves on to a later block with no match behind it, and
  there are fewer blocks than bytes left (`LoopEnds`).

Between the queries, `IInv` says that each mask that counts as computed is that of the *loaded*
block (`Sound`), and that the quote state is `Active` at `quote_pos` (`Carried`), where the
search began at `origin`. Exact answers alone are not inductive: a stale mask, or a quote lost
at the end of a block, shows only in a later query.

`AssemblyProofs` proves `RepresentationOK`, `CellsKept`, `PrefixesUnify` and `ErrorsExact`, for every
width of a bitmap's words and every plan and input that `AssemblyAssumption` allows: the kinds of
the columns are known, the values are typed, a record has a field once; a spilling sink has one
builder, and its rows have a column, because a spilled batch without a column has no rows (see
"Met while modelling"). It has four layers.

- Columns. Each operation is described by the cells it leaves: pushing, popping, cutting,
  appending and recoding keep the representation (`ColumnOK`) and do to the sequence of cells
  what their names say. For a bitmap this rests on the arithmetic of words: the padding
  beyond the end is clear, so that a bit pushed there later is the bit that is read.
- Builders. `AssemblyInv` says that, until the export, every builder's columns are sound and
  of the planned kinds, that between rows all have one length, and that its counted rows
  are the *last* accepted rows (`RowsHeld`); a sink's batches have the ones before
  (`SpilledOK`). The invariant is needed because `CellsKept` alone does not say that a column
  that is born late has nothing to hold, or that a row open at the end lies beyond the count.
- Dictionaries. Unification can change cells (`parallel_dict`), and still keeps the
  representation: every entry beyond the seed is in the overflow, so a remapped code stays
  below the size of the unified dictionary; a code that is not remapped stays below the size
  of its own, and the distinct entries of one dictionary are not more than the distinct
  entries of the unified one. `PrefixesUnify` says when the cells are kept too: the unified
  dictionary is the seed's followed by the overflow (`UnifiedArena`), so a code that is remapped
  finds its text there, and one that is not is below the seed's size, where dictionaries
  that agree have the same texts (`RemapKeeps`); and as every chunk has the column, each is paired
  with its own table (`AgreeingUnify`).
- Ends of a run. `Prepared` adds to `AssemblyInv` what export and merge rely on, also after a
  unification: the columns of a builder are in the order in which its log brought them, their
  kinds are the planned ones or grown from these (`Promotes`), and no code is beyond its dictionary.
  A kind belongs to a class (numbers, text, or itself), promotion stays in it, and two kinds of
  one class always have a common one (`ClassFacts`, `CommonKind`). So every exported column
  can be promoted and has a code's entry (`ExportedPart`), and merging, chunk after chunk, meets a
  conflict exactly when two chunks were planned with kinds of different classes for a column that
  both have (`ExtendBuilder`, `MergedAll`): what fails is a failed chunk, a strict violation
  or such a conflict, on each of the four ways to a result (`ExportOutcome`, `MergeOutcome`,
  `FinishOutcome`, `CollectsExactly`).

`ErrorsExact` has the hypothesis `PlainPlans` (in Assembly; `MCAssembly` assumes it of the run's
plans, so that TLC evaluates it). It leaves out plans with decimals, which `unify_variants` refuses even
to unify with themselves, so that whether a run fails depends on how many chunks have rows; parallel
runs whose chunks have different plans, which only a caller with builders of its own can have;
and a filter that compares fields the projection does not emit, which fails on the batch.

`TableBuilderProofs` is about every plan, frozen schema, filter, decoder and input that
`ConfigAssumption` allows, with the assumption on the data only that a filter's nodes refer
to earlier ones. It proves

- `TypeOK`: a slot in the dirty mask, in the row buffer, in the learned layout or kept as
  the predicate's is always a column. Its inductive form `TypeInv` also says that column names
  are distinct and match the columns in number, that an exact schema has a column to
  serve as dummy slot, that the learned name of a slot is its column's, and that only
  a builder that buffers lets a row pass early.
- `Aligned`, from `AlignInv`. Between rows: every column has `row_count` cells and the dirty
  mask is empty. Inside a row (`InRow`): a column has a cell for every row before this one and
  one more exactly if its slot is dirty (`Exact`), where the rows before are `row_count`, or one
  less after an early commit (`backfill`); a row that is still buffered has set nothing;
  and a builder that buffers has learned no slot, so that no value bypasses the buffer.
  Then null-filling makes the columns equal on each of the three ways through `end_row`, and
  popping a rejected row takes one cell of each. After an early commit a second value for the
  same column would be appended: under a plain plan every dirty slot was offered by name
  (`Offered`), so a decoder that sets a column once per row does not do it. This is the
  hypothesis `EarlyRowsUnique`, of configurations that can commit early only; `duplicate_fields`
  shows that it is needed.
- `CommittedStable`, from `FilledInv`: a column never has fewer cells than the rows before the
  current one, so a push that replaces a cell and a pop at the end of a row never reach a
  committed one. This holds after errors too, which `Aligned` does not speak of, except in the
  combination that the hypothesis `RefusalsLatch` excludes (see "Met while modelling").
- `LossReported`: whatever was lost has left an error, which `finish` takes.
- `RowsAccounted`: until an error is recorded the counts are those of the rows ended and of
  the row that passed early (`CountInv`).

It also proves `TableExact` itself: the committed rows are the offered rows that
satisfy the filter, each with the last value of each kept column. The argument has three parts.

- A tree of predicates is evaluated with three values, on whatever fields have come. A leaf that
  waits for its field never changes its mind when more fields come, so neither does the tree
  (`TreeGrows`), and once the row is whole its value is that of `check` (`TreeChecks`), also
  when the missing fields are replaced with null (`evaluate_against_null`). An early commit and
  a skipped rest of a row are thus decisions that the whole row confirms.
- The current row is related to the fields offered (`raws`, the last value of each kept
  column). While it is held, the buffer has these values, each in the slot of its column
  (`Represents`, `RowHeld`); otherwise the columns have them, converted, in the row after the
  committed ones, and exactly the dirty slots have a cell there (`Stored`, `RowPushed`). A put
  keeps either relation (`RepresentsPut`, `StoredPush`); a drain turns the first into the second
  (`DrainedStored`). Null-filling then makes the row of the table the row of the input, and
  neither it nor a pop touches the rows before (`RowClosed`).
- The output so far, the batches split off and the rows in the columns, is `expected`
  (`OutputExact`). Columns that are born later are null in these rows (`SameRows`), normalizing cuts
  only cells beyond them (`BatchRows`).

The inductive invariant is `ExactInv`, on top of `TypeInv`, `LossInv` and `AlignInv`. Its part
`LearnedNames` says that the learned name of a slot is the name of a kept column, and the
other one, that the columns begin with the predeclared ones, is what a projection with
a short-circuiting decoder needs: the filter's fields are among them.

The hypothesis `ExactConfigs` (in TableBuilder, where the `builder` run's module assumes it of
the run's configurations, so that TLC evaluates it) leaves out plans and decoders that
combine:

| left out | because |
|---|---|
| a decision before the end of the row, and a decoder that repeats a field | the later value comes after the decision (`duplicate_fields`) |
| such a decision, and a leaf that does not wait for its field | `NotIn`, `NotField`, `IsNull`, `In` and others answer on what has come (`open_leaf`) |
| explicit nulls, and a leaf that `NullText` satisfies, or `NotField` or `IsNull` on a text column | `get_buffered_str` takes the null for the text `Null` |
| learned slots, and a rename whose target is renamed again | `put_field_at` compares a raw name with a resolved one |
| early commits, and an input that may end inside a row | the committed row stays cut short |

and, in `ReadsAlike`, leaves that buffered and stored rows read differently:

| left out | because |
|---|---|
| two text columns of different types, or of which one is declared, compared | stored texts compare, buffered ones do not |
| a literal for a date, a timestamp or a decimal | the buffer compares texts |
| the boolean literals `True`, `TRUE`, `False` and `FALSE` | the buffer does not know them |
| a number that one of the two parsers refuses, in a column under a leaf that is not a comparison, or as a literal | it is a value on one path and none on the other |

For each line TLC finds a table that is not exact on a configuration that breaks this
line only, so none is there for the proof's sake. What is left is proved from the two
separate readings: the columns of a leaf compare on stored rows only if the buffer lets them
(`StoredCompatible`), a literal has the same values (`LiteralAlike`), a field is seen as its
column stores it, an explicit null aside (`SeenAlike`), and then the leaf holds on both
sides or on neither (`HoldsAlike`, `LeafChecks`).

`Induction` makes most of these proofs possible. The
provers take no induction theorem with an operator as parameter, but a set can stand for the
predicate: its theorems say that a set of numbers closed under successor, or under "all
smaller ones", has every number, that an iteration or a recursion has a function that computes
it (`IterationExists`, `RecursionExists`), what flattening a sequence of sequences, picking some
of its elements (`Picked`) and keeping the first of each (`Firsts`, both in `Selection`) give, and how
pieces of a sequence join. So the initial column order (`Added`), the fields of a filter
(`predicate_fields`), the value of a predicate tree (`EvalTree`), the reading of a whole
input (`ReadAll`), the bits pushed one by one (`BitsPushAll`), a row's fields
(`PutFields`), the open quote (`Active`) and the loops of a query, written as recursive functions, have the types and contents that are claimed, for
inputs of any length.

In `ParallelStreamProofs` this gives `ReorderBytesExact` (`BytesInv`: the counter is the sum
over what waits, so the unsigned subtraction never wraps) and, with `SizeInv` (each waiting
batch is within the strict allowance) and `WindowInv`, `StrictLimitUnreachable`.

The inductive invariants of the executors, of the schema cache, of block scanning, of the table builder (`TypeInv`,
`LossInv`, `FilledInv`, `AlignInv`, `ExactInv`, with their hypotheses) and of the assembly
(`AssemblyInv`, `Prepared`) were checked by TLC before
they were proved or cited.

Only model-checked: termination, `NextReturns` and `DropStops` (liveness is beyond the prover);
and `ResultIsSerial` of Assembly. What merging does to every cell is proved on the way to
`ErrorsExact` (`MergedUpto`), and so is what exporting does (`ExportedPart`); what is missing
is the alignment of spilled batches, and that the union of the chunks' columns is the order of first
appearance in the whole input.

## Not modelled

In the bounded stream: the observer, `run` with a collecting consumer, and
`plan_chunks`, which nothing calls. In the table builder: reuse through `reset`, observer
calls other than the row counts, decoders that mix the `put` methods in one row, and
`record_slot`, which nothing calls; `IsType` leaves, and the scale of decimals in a comparison of
two columns. In the columns: the text of scalars, byte accounting and the decimal arithmetic.
In block scanning: the SIMD forms (they compute the scalar mask) and the
free-standing wrappers of `scan/`, which keep no state.

Outside these: file mapping and the decompressors, profiling and diagnostics, argument
conversion and FFI in the Python bindings, sources and sinks. They are I/O or
conversion, and have no control that a model would add to. `auto.rs` and `pipeline.rs`
choose an executor by a stateless table. Stage fusion in `src/rypipe/fusion.py` has
logic of its own and is next in the plan.

## Plan

1. A theorem for `ResultIsSerial`, path by path, from `AssemblyInv` and `Prepared`.
2. `Fusion`: `plan_split` pushes a prefix of the stages into the engine's fixed order of
   rename, drop, cast and filter; the fused result against the stages one by one. Where
   they are known to differ: a source with a schema and `field_types` followed by a rename
   (the renamed column is projected out before the filter sees it), a filter after renames
   that swap two columns, and strict casts, which make the source's own casts strict.
3. `reset` of a builder, and observer calls across spills.
