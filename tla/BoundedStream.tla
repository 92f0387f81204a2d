---------------------------- MODULE BoundedStream ----------------------------
(***************************************************************************)
(* The single-threaded bounded stream: StreamingBatchIterator              *)
(* (crates/rypipe-core/src/streaming.rs) starts one thread that runs       *)
(* BoundedExecutor::run_stream (bounded.rs); the parser walks the input    *)
(* once into a SpillSink (spill.rs), which cuts batches off its builder    *)
(* and sends them over a channel of one slot to the caller.                *)
(*                                                                         *)
(* A row is its number among the rows the filter keeps, from 1; a batch    *)
(* is a set of rows, which the builder holds in order.  TableBuilder says  *)
(* what is inside a row.  Sizes in bytes are the sink's tests on them.     *)
(***************************************************************************)
EXTENDS Integers, FiniteSets

CONSTANTS
  Budget,       \* bytes the iterator was given
  Strict,       \* MemoryBudget::is_strict
  StrictTypes,  \* plan.strict_types
  Estimates,    \* bytes per row the splitter may estimate from the sample
  Lengths,      \* lengths in bytes a non-empty input may have
  MaxRows,      \* bound: rows of the input that the filter keeps
  Faults        \* which failures the environment may cause

ASSUME BudgetAssumption == Budget \in Nat
ASSUME FlagsAssumption == Strict \in BOOLEAN /\ StrictTypes \in BOOLEAN
ASSUME InputAssumption ==
  Estimates \subseteq Nat /\ Lengths \subseteq Nat /\ MaxRows \in Nat
ASSUME FaultsAssumption ==
  Faults \subseteq {"start_err", "start_panic", "parse_err", "spill_err",
                    "tail_panic"}

-----------------------------------------------------------------------------
Larger(a, b) == IF a < b THEN b ELSE a

Smaller(a, b) == IF a < b THEN a ELSE b

\* The iterator gives its executor half of its budget.
budget_bytes == Budget \div 2

batch_target_bytes == Larger(budget_bytes \div 64, 1)

MIN_ROWS_OVERSIZE_BATCH == 64

\* estimate_bytes_per_row(sample).max(1), the sample being the first 64 KiB.
bytes_per_row(estimate) == Larger(estimate, 1)

\* The budget cannot hold one row: batches are oversize regardless.
Oversize(estimate) == batch_target_bytes < bytes_per_row(estimate)

RowsPerBatch(estimate, length) ==
  LET min_rows == IF Oversize(estimate) THEN MIN_ROWS_OVERSIZE_BATCH ELSE 1
      total_rows_est == length \div bytes_per_row(estimate)
  IN Smaller(Larger(batch_target_bytes \div bytes_per_row(estimate), min_rows),
             Larger(total_rows_est, 1))

-----------------------------------------------------------------------------
VARIABLES
  pc,              \* where the executor thread is
  total,           \* rows of the input that the filter keeps
  parsed,          \* how many of them the parser has passed
  engine,          \* SpillSink: the rows its builder holds
  rows_per_batch,  \* SpillSink: spill at this many rows
  oversize,        \* SpillSink: never spill early on capacity
  error,           \* SpillSink: the deferred error: "none", "spill" or "consumer"
  row_error,       \* the builder's own error: "none", "types" or "memory"
  batch,           \* the batch being spilled
  finishing,       \* finish_run has begun
  slot,            \* the channel's slot: a message, or NoMessage
  caller,          \* "idle", "recv" (inside next) or "dropped"
  done,            \* the iterator's done flag
  failed,          \* history: next returned an error
  ended,           \* history: next returned None
  yielded,         \* history: the rows of the batches next returned
  refused          \* history: rows lost to the builder's memory budget

sink_vars == <<engine, rows_per_batch, oversize, error, row_error, batch>>
input_vars == <<total, parsed, refused>>
thread_vars == <<pc, finishing>>
caller_vars == <<caller, done, failed, ended, yielded>>

vars == <<sink_vars, input_vars, thread_vars, slot, caller_vars>>

ThreadStates == {"start", "parse", "spill", "send", "finish", "settle",
                 "report", "exited", "panicked"}

Rows == 1..MaxRows

NoMessage == [kind |-> "none", rows |-> {}]

ErrMessage == [kind |-> "err", rows |-> {}]

BatchMessage(rows) == [kind |-> "batch", rows |-> rows]

Init ==
  /\ pc = "start"
  /\ total \in 0..MaxRows
  /\ parsed = 0
  /\ engine = {}
  /\ rows_per_batch = 1
  /\ oversize = FALSE
  /\ error = "none"
  /\ row_error = "none"
  /\ batch = {}
  /\ finishing = FALSE
  /\ slot = NoMessage
  /\ caller = "idle"
  /\ done = FALSE
  /\ failed = FALSE
  /\ ended = FALSE
  /\ yielded = {}
  /\ refused = {}

-----------------------------------------------------------------------------
(* The executor thread: run_slice_spill up to the parser.                  *)

\* An empty input is Ok.
StartEmpty ==
  /\ pc = "start"
  /\ total = 0
  /\ pc' = "exited"
  /\ UNCHANGED <<sink_vars, input_vars, finishing, slot, caller_vars>>

\* The file cannot be opened, a strict budget is too small for the input or
\* for an empty builder, or validation fails or panics: an error is reported.
\* The splitter's estimate runs outside catch_unwind.
StartFails ==
  /\ pc = "start"
  /\ \/ "start_err" \in Faults /\ pc' = "report"
     \/ "start_panic" \in Faults /\ pc' = "panicked"
  /\ UNCHANGED <<sink_vars, input_vars, finishing, slot, caller_vars>>

\* The batch size is derived once, from a sample of the input.
StartParse(estimate, length) ==
  /\ pc = "start"
  /\ rows_per_batch' = RowsPerBatch(estimate, length)
  /\ oversize' = Oversize(estimate)
  /\ pc' = "parse"
  /\ UNCHANGED <<engine, error, row_error, batch, input_vars, finishing, slot,
                 caller_vars>>

-----------------------------------------------------------------------------
(* The parser and the sink.                                                *)

\* A plausible slip: batches one row too long.
should_spill_late(rows, full) ==
  error = "none" /\ (Cardinality(rows) > rows_per_batch \/ (~oversize /\ full))

\* A plausible slip: the sink goes on spilling after a batch was lost.
should_spill_regardless(rows, full) ==
  Cardinality(rows) >= rows_per_batch \/ (~oversize /\ full)

\* full: the builder's capacity is at or over a quarter of the budget.
should_spill(rows, full) ==
  error = "none" /\ (Cardinality(rows) >= rows_per_batch \/ (~oversize /\ full))

\* Where end_row leaves the thread: spill returns at once without rows.
AfterRow(rows, full) ==
  IF should_spill(rows, full) /\ rows # {} THEN "spill" ELSE "parse"

\* A plausible slip: a row is read past the end.
AcceptRow_past_end(full) ==
  /\ pc = "parse"
  /\ parsed <= total
  /\ row_error # "memory"
  /\ parsed' = parsed + 1
  /\ engine' = engine \cup {parsed + 1}
  /\ pc' = AfterRow(engine', full)
  /\ UNCHANGED <<rows_per_batch, oversize, error, row_error, batch, total,
                 refused, finishing, slot, caller_vars>>

\* end_row of a row that is kept; a value may fail to parse into its type.
AcceptRow(full) ==
  /\ pc = "parse"
  /\ parsed < total
  /\ row_error # "memory"
  /\ parsed' = parsed + 1
  /\ engine' = engine \cup {parsed + 1}
  /\ row_error' \in {row_error} \cup
       (IF StrictTypes /\ row_error = "none" THEN {"types"} ELSE {})
  /\ pc' = AfterRow(engine', full)
  /\ UNCHANGED <<rows_per_batch, oversize, error, batch, total, refused,
                 finishing, slot, caller_vars>>

\* end_row of a row the filter rejects, or that comes after a memory error.
RejectRow(full) ==
  /\ pc = "parse"
  /\ pc' = AfterRow(engine, full)
  /\ UNCHANGED <<sink_vars, input_vars, finishing, slot, caller_vars>>

\* The strict budget refuses a part of the row: it is lost, or counted with a
\* part missing if it was committed early.  A memory error is final; while a
\* type error is recorded, later rows are tried again.
RefuseRow(counted, full) ==
  /\ Strict
  /\ pc = "parse"
  /\ parsed < total
  /\ counted => row_error # "memory"
  /\ parsed' = parsed + 1
  /\ engine' = IF counted THEN engine \cup {parsed + 1} ELSE engine
  /\ refused' = refused \cup {parsed + 1}
  /\ row_error' = IF row_error = "none" THEN "memory" ELSE row_error
  /\ pc' = AfterRow(engine', full)
  /\ UNCHANGED <<rows_per_batch, oversize, error, batch, total, finishing, slot,
                 caller_vars>>

\* The parser returns Ok: at the end of the input, or before it if it polls
\* should_stop.
ParserReturns ==
  /\ pc = "parse"
  /\ parsed = total \/ error # "none"
  /\ pc' = "finish"
  /\ UNCHANGED <<sink_vars, input_vars, finishing, slot, caller_vars>>

\* The parser returns an error or panics inside catch_unwind; finish_run is
\* not called.
ParserFails ==
  /\ "parse_err" \in Faults
  /\ pc = "parse"
  /\ pc' = "report"
  /\ UNCHANGED <<sink_vars, input_vars, finishing, slot, caller_vars>>

-----------------------------------------------------------------------------
(* spill_inner and finish_run.                                             *)

AfterSpill == IF finishing THEN "settle" ELSE "parse"

\* A plausible slip: the rows of the batch also stay behind.
SpillBatch_keeping ==
  /\ pc = "spill"
  /\ batch' = engine
  /\ pc' = "send"
  /\ UNCHANGED <<engine, rows_per_batch, oversize, error, row_error, input_vars,
                 finishing, slot, caller_vars>>

\* split_off takes all the rows, finish and the strict check of the batch
\* succeed.
SpillBatch ==
  /\ pc = "spill"
  /\ batch' = engine
  /\ engine' = {}
  /\ pc' = "send"
  /\ UNCHANGED <<rows_per_batch, oversize, error, row_error, input_vars,
                 finishing, slot, caller_vars>>

\* finish fails (an observer panicked, a strict limit, an export error) or the
\* batch is over its strict share: its rows are gone, the error is deferred.
SpillFails ==
  /\ "spill_err" \in Faults
  /\ pc = "spill"
  /\ engine' = {}
  /\ error' = "spill"
  /\ pc' = AfterSpill
  /\ UNCHANGED <<rows_per_batch, oversize, row_error, batch, input_vars,
                 finishing, slot, caller_vars>>

\* A row that the memory budget cut short leaves columns too short to split;
\* during parsing the panic is caught, in finish_run nothing catches it.
SpillPanics ==
  /\ "tail_panic" \in Faults
  /\ pc = "spill"
  /\ row_error = "memory"
  /\ pc' = IF finishing THEN "panicked" ELSE "report"
  /\ UNCHANGED <<sink_vars, input_vars, finishing, slot, caller_vars>>

\* ChannelConsumer::consume with the receiver alive: blocks while the slot is
\* taken.
SendBatch ==
  /\ pc = "send"
  /\ caller # "dropped"
  /\ slot = NoMessage
  /\ slot' = BatchMessage(batch)
  /\ batch' = {}
  /\ pc' = AfterSpill
  /\ UNCHANGED <<engine, rows_per_batch, oversize, error, row_error, input_vars,
                 finishing, caller_vars>>

\* A plausible slip: a send that is not woken when the receiver goes away.
SendDisconnected_never == FALSE /\ UNCHANGED vars

\* The receiver is gone: send fails, and the sink defers the error.
SendDisconnected ==
  /\ pc = "send"
  /\ caller = "dropped"
  /\ error' = "consumer"
  /\ batch' = {}
  /\ pc' = AfterSpill
  /\ UNCHANGED <<engine, rows_per_batch, oversize, row_error, input_vars,
                 finishing, slot, caller_vars>>

\* A plausible slip: finish_run looks at the errors and forgets the tail.
FinishRun_without_tail ==
  /\ pc = "finish"
  /\ finishing' = TRUE
  /\ pc' = "settle"
  /\ UNCHANGED <<sink_vars, input_vars, slot, caller_vars>>

\* finish_run first spills the rows that are left.
FinishRun ==
  /\ pc = "finish"
  /\ finishing' = TRUE
  /\ pc' = IF error = "none" /\ engine # {} THEN "spill" ELSE "settle"
  /\ UNCHANGED <<sink_vars, input_vars, slot, caller_vars>>

\* Then any error surfaces; a strict budget may fail the run even without one.
Settle ==
  /\ pc = "settle"
  /\ pc' \in (IF error # "none" \/ row_error # "none" THEN {"report"}
              ELSE IF Strict THEN {"report", "exited"} ELSE {"exited"})
  /\ UNCHANGED <<sink_vars, input_vars, finishing, slot, caller_vars>>

\* The error is sent to the caller, who may be gone.
ReportError ==
  /\ pc = "report"
  /\ \/ caller # "dropped" /\ slot = NoMessage /\ slot' = ErrMessage
     \/ caller = "dropped" /\ UNCHANGED slot
  /\ pc' = "exited"
  /\ UNCHANGED <<sink_vars, input_vars, finishing, caller_vars>>

StartStep ==
  \/ StartEmpty
  \/ StartFails
  \/ \E estimate \in Estimates, length \in Lengths : StartParse(estimate, length)

ParseStep ==
  \/ \E full \in BOOLEAN :
       \/ AcceptRow(full)
       \/ RejectRow(full)
       \/ \E counted \in BOOLEAN : RefuseRow(counted, full)
  \/ ParserReturns
  \/ ParserFails

SpillStep == SpillBatch \/ SpillFails \/ SpillPanics \/ SendBatch \/ SendDisconnected

ThreadStep == StartStep \/ ParseStep \/ SpillStep \/ FinishRun \/ Settle \/ ReportError

-----------------------------------------------------------------------------
(* The caller.                                                             *)

CallNext ==
  /\ caller = "idle"
  /\ ~done
  /\ caller' = "recv"
  /\ UNCHANGED <<sink_vars, input_vars, thread_vars, slot, done, failed, ended,
                 yielded>>

\* Ok(res) => Some(res): an error item does not set done.
ReturnItem ==
  /\ caller = "recv"
  /\ slot # NoMessage
  /\ yielded' = yielded \cup slot.rows
  /\ failed' = (failed \/ slot.kind = "err")
  /\ slot' = NoMessage
  /\ caller' = "idle"
  /\ UNCHANGED <<sink_vars, input_vars, thread_vars, done, ended>>

\* A plausible slip: the iterator keeps a sender of its own, and the channel
\* never closes.
ReturnEnd_never == FALSE /\ UNCHANGED vars

\* The channel is closed: the thread is joined, a panic is returned as an
\* error, anything else as None.
ReturnEnd ==
  /\ caller = "recv"
  /\ slot = NoMessage
  /\ pc \in {"exited", "panicked"}
  /\ done' = TRUE
  /\ failed' = (failed \/ pc = "panicked")
  /\ ended' = (pc = "exited")
  /\ caller' = "idle"
  /\ UNCHANGED <<sink_vars, input_vars, thread_vars, slot, yielded>>

\* Dropping the iterator drops the receiver, and what is in the channel, and
\* detaches the thread.
DropIterator ==
  /\ caller = "idle"
  /\ caller' = "dropped"
  /\ slot' = NoMessage
  /\ UNCHANGED <<sink_vars, input_vars, thread_vars, done, failed, ended, yielded>>

InsideNext == ReturnItem \/ ReturnEnd

Stopped == caller = "dropped" /\ pc \in {"exited", "panicked"}

Done == Stopped /\ UNCHANGED vars

Next == ThreadStep \/ CallNext \/ InsideNext \/ DropIterator \/ Done

Spec == Init /\ [][Next]_vars

\* The thread runs whenever it can, and a receive that can return does.  The
\* caller owes nobody another call.  A parser reaches the end of its input:
\* rejected rows in front of it are finitely many.
Fairness ==
  /\ WF_vars(ThreadStep)
  /\ WF_vars(InsideNext)

FairSpec == Spec /\ Fairness

-----------------------------------------------------------------------------
(* Properties.                                                             *)

\* Types of the state of the sink, the thread and the iterator.
TypeOK ==
  /\ pc \in ThreadStates
  /\ total \in 0..MaxRows
  /\ parsed \in 0..total
  /\ engine \subseteq Rows
  /\ rows_per_batch \in Nat
  /\ oversize \in BOOLEAN
  /\ error \in {"none", "spill", "consumer"}
  /\ row_error \in {"none", "types", "memory"}
  /\ batch \subseteq Rows
  /\ finishing \in BOOLEAN
  /\ slot \in [kind : {"none", "batch", "err"}, rows : SUBSET Rows]
  /\ caller \in {"idle", "recv", "dropped"}
  /\ done \in BOOLEAN /\ failed \in BOOLEAN /\ ended \in BOOLEAN
  /\ yielded \subseteq Rows
  /\ refused \subseteq Rows

\* Rows on their way to the caller or with it.
Sent == yielded \cup slot.rows \cup batch

\* No batch has a gap before it: once a batch was lost nothing is sent any
\* more, so that what the caller has is the beginning of the table, except for
\* rows that the builder's own error will account for.
NoGap ==
  caller # "dropped" =>
    \A r \in Sent : \A s \in 1..r : s \in Sent \cup refused

\* "flushes finished RecordBatches whenever the batch target is reached": no
\* batch is longer than the target, and the builder never holds more rows
\* than one batch as long as nothing failed, in the oversize regime too.
BatchBounded ==
  /\ Cardinality(batch) <= rows_per_batch
  /\ Cardinality(slot.rows) <= rows_per_batch
  /\ error = "none" => Cardinality(engine) <= rows_per_batch

ReaderStatus ==
  IF failed THEN "failed"
  ELSE IF ended THEN "ok" ELSE "open"

Reader == INSTANCE RowStream WITH delivered <- yielded, status <- ReaderStatus

\* What the caller sees is a stream of rows: in order, none twice, and None
\* without an error before it only after every row.
ImplementsRows == Reader!Spec

\* Every call of next() returns.
NextReturns == caller = "recv" ~> caller # "recv"

\* After the iterator is dropped its thread ends, even if the parser never
\* asks should_stop.
DropStops == caller = "dropped" ~> Stopped

-----------------------------------------------------------------------------
(* The inductive invariant.                                                *)

\* What the thread holds at each point: a batch only while it is sent, rows to
\* spill only while nothing has failed, and an error only after the last batch.
PhaseInv ==
  /\ pc = "start" => /\ parsed = 0 /\ engine = {} /\ ~finishing
                      /\ error = "none" /\ row_error = "none"
  /\ pc # "send" => batch = {}
  /\ pc = "send" => batch # {} /\ engine = {} /\ error = "none"
  /\ pc = "spill" => engine # {} /\ error = "none"
  /\ pc = "parse" => ~finishing
  /\ pc = "settle" => finishing
  /\ slot.kind = "batch" <=> slot.rows # {}
  /\ slot.kind = "none" => slot = NoMessage
  /\ slot.kind = "err" => pc = "exited"
  /\ failed => pc \in {"exited", "panicked"} /\ slot = NoMessage
  /\ caller = "dropped" => slot = NoMessage
  /\ ended => done /\ pc = "exited" /\ slot = NoMessage
  /\ done => caller # "recv"

\* Rows move on in order.
OrderInv ==
  /\ \A y \in yielded, r \in slot.rows \cup batch \cup engine : y < r
  /\ \A s \in slot.rows, r \in batch \cup engine : s < r
  /\ \A b \in batch, r \in engine : b < r
  /\ yielded \cup slot.rows \cup batch \cup engine \cup refused \subseteq 1..parsed

\* As long as nothing was lost, every row passed is somewhere.
CoverInv ==
  /\ error = "none" /\ caller # "dropped" =>
       1..parsed \subseteq Sent \cup engine \cup refused
  /\ refused # {} => row_error # "none"

\* A run that ends without an error has read and sent everything.
TailInv ==
  /\ pc = "finish" \/ finishing => parsed = total \/ error # "none"
  /\ pc = "settle" => engine = {} \/ error # "none"
  /\ pc = "exited" =>
       \/ caller = "dropped" \/ failed \/ slot.kind = "err"
       \/ parsed = total /\ engine = {} /\ error = "none" /\ row_error = "none"

\* Rows held while nothing has failed: fewer than one batch between two rows.
HeldInv ==
  /\ rows_per_batch >= 1
  /\ pc = "parse" /\ error = "none" => Cardinality(engine) < rows_per_batch
  /\ BatchBounded

IInv ==
  TypeOK /\ PhaseInv /\ OrderInv /\ CoverInv /\ TailInv /\ HeldInv /\ NoGap
=============================================================================
