--------------------------- MODULE ParallelStream ---------------------------
(***************************************************************************)
(* The parallel streaming executor of crates/rypipe-core/src/              *)
(* parallel_stream.rs: run_stream plans the chunks of an input, n worker   *)
(* threads pop them, read and parse them, and send the resulting batches   *)
(* over a bounded channel to the coordinator (the calling thread), which   *)
(* hands them to the consumer, in input order when opts.ordered is set.    *)
(*                                                                         *)
(* A batch is abstracted to the chunk whose bytes it was parsed from and   *)
(* to its size in memory.  Everything that decides who runs, who waits,    *)
(* who is told and what is dropped is kept: the chunk queue, the dispatch  *)
(* window with its condition variable, the shared file cursor, the         *)
(* channel, the reorder buffer, and every early exit.                      *)
(***************************************************************************)
EXTENDS Integers, Sequences, FiniteSets

CONSTANTS
  Threads,        \* opts.threads
  OptMaxReorder,  \* opts.max_reorder, 0 meaning "as many as threads"
  OptMaxInFlight, \* the max_in_flight argument of ParallelStreamingExecutor::new
  Ordered,        \* opts.ordered
  FileBacked,     \* TRUE: chunks are read from the shared file handle
  Strict,         \* MemoryBudget::is_strict
  Allowance,      \* bytes of one share of the budget
  BatchSizes,     \* the sizes in memory a parsed batch may have
  MaxChunks,      \* bound: the most chunks the planner may produce
  Faults          \* which failures the environment may cause

ASSUME ThreadsAssumption == Threads \in Nat
ASSUME ReorderAssumption == OptMaxReorder \in Nat
ASSUME InFlightAssumption == OptMaxInFlight \in Nat
ASSUME FlagAssumption ==
  Ordered \in BOOLEAN /\ FileBacked \in BOOLEAN /\ Strict \in BOOLEAN
ASSUME SizeAssumption == Allowance \in Nat /\ BatchSizes \subseteq Nat
ASSUME ChunksAssumption == MaxChunks \in Nat
ASSUME FaultsAssumption ==
  Faults \subseteq {"plan_err", "plan_panic", "chunk_err",
                    "consumer_err", "consumer_panic"}

-----------------------------------------------------------------------------
(* Sizes derived from the options, as run_bytes_stream_core derives them.  *)

n == IF Threads = 0 THEN 1 ELSE Threads

Workers == 1..n

max_reorder == IF OptMaxReorder > 0 THEN OptMaxReorder ELSE n

max_in_flight == IF OptMaxInFlight = 0 THEN 1 ELSE OptMaxInFlight

\* A plausible slip: the window counted from one past the next output chunk.
dispatch_window_off_by_one == max_reorder + 2

dispatch_window == max_reorder + 1

reorder_limit == max_reorder * Allowance

\* MemoryBudget::check of one allowance.
Fits(size) == ~Strict \/ size <= Allowance

Sizes == BatchSizes \cup {0}

\* (seq, Result<RecordBatch>), the item of the worker channel.
Message == [seq : 0..MaxChunks, ok : BOOLEAN, data : 0..MaxChunks, size : Sizes]

NoMessage == [seq |-> 0, ok |-> FALSE, data |-> 0, size |-> 0]

NoWorker == 0

-----------------------------------------------------------------------------
VARIABLES
  num_chunks,     \* ranges planned from the input
  popped,         \* how many chunks have been popped from chunk_queue
  wpc,            \* where each worker is
  work,           \* what each worker holds: the chunk's number, the chunk whose
                  \* bytes it read, whether its result is Ok, its batch's size
  file_lock,      \* the worker holding the shared file handle, or NoWorker
  file_cursor,    \* the chunk at which the file's cursor stands
  channel,        \* batches sent and not yet received
  receiver_alive, \* FALSE once the coordinator has dropped the receiver
  dispatch_some,  \* the dispatch Option is Some
  dispatch_next,  \* its value while it is Some
  cpc,            \* where the coordinator is
  current,        \* the batch the coordinator is about to consume
  pending,        \* reorder buffer: the chunks whose batches wait
  pending_batch,  \* the batch of each chunk in the reorder buffer
  next_seq,       \* next chunk the ordered coordinator delivers
  reorder_bytes,  \* bytes accounted to the reorder buffer
  consumed,       \* history: the chunks whose batches the consumer accepted
  result          \* how the run ends

chunk_vars == <<num_chunks, popped>>
file_vars == <<file_lock, file_cursor>>
channel_vars == <<channel, receiver_alive>>
dispatch_vars == <<dispatch_some, dispatch_next>>
worker_vars == <<wpc, work, file_vars>>
reorder_vars == <<pending, pending_batch, reorder_bytes>>
coord_vars == <<cpc, current, reorder_vars, next_seq, consumed, result>>

vars == <<chunk_vars, worker_vars, channel_vars, dispatch_vars, coord_vars>>

WorkerStates == {"unborn", "pop", "gate", "asleep", "load", "read", "parse",
                 "send", "exited"}

\* A worker in one of these states has popped a chunk it has not handed on.
HoldingStates == {"gate", "asleep", "load", "read", "parse", "send"}

CoordinatorStates == {"plan", "recv", "consume", "drain", "publish", "notify",
                      "hangup", "close", "wake", "join", "returned", "unwound"}

Results == {"none", "ok", "plan_err", "worker_err", "reorder_err",
            "consumer_err", "panic"}

Chunks == 0..(num_chunks - 1)

Init ==
  /\ num_chunks = 0
  /\ popped = 0
  /\ wpc = [w \in Workers |-> "unborn"]
  /\ work = [w \in Workers |-> NoMessage]
  /\ file_lock = NoWorker
  /\ file_cursor = 0
  /\ channel = <<>>
  /\ receiver_alive = TRUE
  /\ dispatch_some = TRUE
  /\ dispatch_next = 0
  /\ cpc = "plan"
  /\ current = NoMessage
  /\ pending = {}
  /\ pending_batch = [c \in 0..MaxChunks |-> NoMessage]
  /\ next_seq = 0
  /\ reorder_bytes = 0
  /\ consumed = <<>>
  /\ result = "none"

-----------------------------------------------------------------------------
(* The coordinator plans the chunks and spawns the workers.                *)

\* An empty input returns Ok before any thread exists.
PlanEmpty ==
  /\ cpc = "plan"
  /\ cpc' = "returned"
  /\ result' = "ok"
  /\ UNCHANGED <<chunk_vars, worker_vars, channel_vars, dispatch_vars, current,
                 reorder_vars, next_seq, consumed>>

\* A non-empty input has at least one range: the planner falls back to one.
PlanChunks(k) ==
  /\ cpc = "plan"
  /\ num_chunks' = k
  /\ wpc' = [w \in Workers |-> "pop"]
  /\ cpc' = "recv"
  /\ UNCHANGED <<popped, work, file_vars, channel_vars, dispatch_vars,
                 current, reorder_vars, next_seq, consumed, result>>

\* Opening, discovery, or a strict check fails, or the splitter panics: no
\* worker has been spawned and nothing but the result changes.
PlanFails ==
  /\ cpc = "plan"
  /\ \/ /\ "plan_err" \in Faults
        /\ cpc' = "returned"
        /\ result' = "plan_err"
     \/ /\ "plan_panic" \in Faults
        /\ cpc' = "unwound"
        /\ result' = "panic"
  /\ UNCHANGED <<chunk_vars, worker_vars, channel_vars, dispatch_vars, current,
                 reorder_vars, next_seq, consumed>>

-----------------------------------------------------------------------------
(* Worker thread.                                                          *)

\* A plausible slip: the enumeration starts one too low.
chunks_with_seq_shifted == [i \in 1..num_chunks |-> num_chunks - i - 1]

\* The ranges are enumerated and reversed once, so that Vec::pop, which takes
\* the last element, yields them in input order.
chunks_with_seq == [i \in 1..num_chunks |-> num_chunks - i]

\* A plausible slip: the reversal is forgotten and pop yields the last chunk.
NthPopped_unreversed(k) == num_chunks - 1 - k

\* A plausible slip: off by one, the first chunk is handed out twice.
NthPopped_repeated(k) == chunks_with_seq[IF k = 0 THEN num_chunks ELSE num_chunks - k + 1]

NthPopped(k) == chunks_with_seq[num_chunks - k]

AfterPop == IF Ordered THEN "gate" ELSE "load"

Pop(w) ==
  /\ wpc[w] = "pop"
  /\ IF popped < num_chunks
       THEN /\ popped' = popped + 1
            /\ work' = [work EXCEPT ![w].seq = NthPopped(popped)]
            /\ wpc' = [wpc EXCEPT ![w] = AfterPop]
       ELSE /\ wpc' = [wpc EXCEPT ![w] = "exited"]
            /\ UNCHANGED <<popped, work>>
  /\ UNCHANGED <<num_chunks, file_vars, channel_vars,
                 dispatch_vars, coord_vars>>

\* A plausible slip: workers run ahead as far as they like.
MustWait_never(seq) == FALSE

\* The predicate of Condvar::wait_while.
MustWait(seq) == dispatch_some /\ seq >= dispatch_next + dispatch_window

\* wait_while tests its predicate under the dispatch mutex: the worker goes
\* to sleep, gives up when dispatch is None, or goes on.
Gate(w) ==
  /\ wpc[w] = "gate"
  /\ wpc' = [wpc EXCEPT ![w] = IF MustWait(work[w].seq) THEN "asleep"
                               ELSE IF dispatch_some THEN "load" ELSE "exited"]
  /\ UNCHANGED <<chunk_vars, work, file_vars, channel_vars,
                 dispatch_vars, coord_vars>>

\* A plausible slip: seeking without holding the handle's mutex to the read.
FileFree_unlocked(w) == TRUE

FileFree(w) == file_lock = NoWorker

\* Bytes in memory are sliced; a file is locked and its cursor moved first.
Load(w) ==
  /\ wpc[w] = "load"
  /\ IF FileBacked
       THEN /\ FileFree(w)
            /\ file_lock' = w
            /\ file_cursor' = work[w].seq
            /\ wpc' = [wpc EXCEPT ![w] = "read"]
            /\ UNCHANGED work
       ELSE /\ work' = [work EXCEPT ![w].data = work[w].seq]
            /\ wpc' = [wpc EXCEPT ![w] = "parse"]
            /\ UNCHANGED file_vars
  /\ UNCHANGED <<chunk_vars, channel_vars, dispatch_vars, coord_vars>>

\* read_exact reads from where the cursor stands and releases the handle.
Read(w) ==
  /\ wpc[w] = "read"
  /\ work' = [work EXCEPT ![w].data = file_cursor]
  /\ file_lock' = NoWorker
  /\ wpc' = [wpc EXCEPT ![w] = "parse"]
  /\ UNCHANGED <<chunk_vars, file_cursor, channel_vars,
                 dispatch_vars, coord_vars>>

\* A plausible slip: the size of the finished batch is not checked.
BatchAccepted_unchecked(size) == TRUE

\* The last check of the parse closure.
BatchAccepted(size) == Fits(size)

\* Validation, parsing and finish succeed with a batch of some size; a strict
\* budget still turns a batch larger than the allowance into an error.
Parse(w, size) ==
  /\ wpc[w] = "parse"
  /\ work' = [work EXCEPT ![w].ok = BatchAccepted(size),
                          ![w].size = IF BatchAccepted(size) THEN size ELSE 0]
  /\ wpc' = [wpc EXCEPT ![w] = "send"]
  /\ UNCHANGED <<chunk_vars, file_vars, channel_vars,
                 dispatch_vars, coord_vars>>

\* Anything inside catch_unwind may fail: a range over the allowance, a read
\* error, a validation or parse error, or a panic.  All become Err results.
ChunkFails(w) ==
  /\ "chunk_err" \in Faults
  /\ wpc[w] \in {"load", "read", "parse"}
  /\ work' = [work EXCEPT ![w].ok = FALSE]
  /\ wpc' = [wpc EXCEPT ![w] = "send"]
  /\ file_lock' = IF file_lock = w THEN NoWorker ELSE file_lock
  /\ UNCHANGED <<chunk_vars, file_cursor, channel_vars,
                 dispatch_vars, coord_vars>>

\* SyncSender::send blocks while the channel is full.  A worker that sent an
\* error stops.
Send(w) ==
  /\ wpc[w] = "send"
  /\ receiver_alive
  /\ Len(channel) < max_in_flight
  /\ channel' = Append(channel, work[w])
  /\ work' = [work EXCEPT ![w] = NoMessage]
  /\ wpc' = [wpc EXCEPT ![w] = IF work[w].ok THEN "pop" ELSE "exited"]
  /\ UNCHANGED <<chunk_vars, file_vars, receiver_alive, dispatch_vars,
                 coord_vars>>

\* A plausible slip: a blocked send that is not woken by the hang-up.
SendFails_never(w) == FALSE /\ UNCHANGED vars

\* send returns an error once the receiver is gone, and the worker stops.
SendFails(w) ==
  /\ wpc[w] = "send"
  /\ ~receiver_alive
  /\ work' = [work EXCEPT ![w] = NoMessage]
  /\ wpc' = [wpc EXCEPT ![w] = "exited"]
  /\ UNCHANGED <<chunk_vars, file_vars, channel_vars, dispatch_vars,
                 coord_vars>>

-----------------------------------------------------------------------------
(* Coordinator.                                                            *)

\* The run ends with r: leave the receive loop, which drops the receiver.
Leave(r) == cpc' = "hangup" /\ result' = r

RecvError ==
  /\ cpc = "recv"
  /\ channel # <<>>
  /\ ~Head(channel).ok
  /\ channel' = Tail(channel)
  /\ Leave("worker_err")
  /\ UNCHANGED <<chunk_vars, worker_vars, receiver_alive, dispatch_vars,
                 current, reorder_vars, next_seq, consumed>>

\* A plausible slip: batches are handed on as they arrive.
Deliverable_any(seq) == TRUE

Deliverable(seq) == Ordered => seq = next_seq

RecvDeliver ==
  /\ cpc = "recv"
  /\ channel # <<>>
  /\ Head(channel).ok
  /\ Deliverable(Head(channel).seq)
  /\ channel' = Tail(channel)
  /\ current' = Head(channel)
  /\ cpc' = "consume"
  /\ UNCHANGED <<chunk_vars, worker_vars, receiver_alive, dispatch_vars,
                 reorder_vars, next_seq, consumed, result>>

\* A batch that is not next waits in the reorder buffer, unless a strict
\* budget's reorder limit is exceeded.
RecvBuffer ==
  LET batch == Head(channel)
      bytes == reorder_bytes + batch.size
  IN /\ cpc = "recv"
     /\ channel # <<>>
     /\ batch.ok
     /\ ~Deliverable(batch.seq)
     /\ channel' = Tail(channel)
     /\ reorder_bytes' = bytes
     /\ IF Strict /\ bytes > reorder_limit
          THEN /\ Leave("reorder_err")
               /\ UNCHANGED <<pending, pending_batch>>
          ELSE /\ pending' = pending \cup {batch.seq}
               /\ pending_batch' = [pending_batch EXCEPT ![batch.seq] = batch]
               /\ UNCHANGED <<cpc, result>>
     /\ UNCHANGED <<chunk_vars, worker_vars, receiver_alive, dispatch_vars,
                    current, next_seq, consumed>>

\* A plausible slip: an empty channel taken for the end of the stream.
AllSendersGone_ignored == \E w \in Workers : wpc[w] = "exited"

\* A plausible slip: the coordinator keeps its own sender, and the channel never
\* closes.
AllSendersGone_kept == FALSE

\* The coordinator dropped its own sender, each worker's goes with its thread.
AllSendersGone == \A w \in Workers : wpc[w] = "exited"

\* The channel is empty and all its senders are gone: the loop ends.
RecvClosed ==
  /\ cpc = "recv"
  /\ channel = <<>>
  /\ AllSendersGone
  /\ Leave("ok")
  /\ UNCHANGED <<chunk_vars, worker_vars, channel_vars, dispatch_vars, current,
                 reorder_vars, next_seq, consumed>>

\* consumer.consume returns Ok.
ConsumeOk ==
  /\ cpc = "consume"
  /\ consumed' = Append(consumed, current.data)
  /\ next_seq' = IF Ordered THEN next_seq + 1 ELSE next_seq
  /\ cpc' = IF Ordered THEN "drain" ELSE "recv"
  /\ current' = NoMessage
  /\ UNCHANGED <<chunk_vars, worker_vars, channel_vars, dispatch_vars,
                 reorder_vars, result>>

\* consumer.consume returns an error.
ConsumeErr ==
  /\ cpc = "consume"
  /\ "consumer_err" \in Faults
  /\ Leave("consumer_err")
  /\ current' = NoMessage
  /\ UNCHANGED <<chunk_vars, worker_vars, channel_vars, dispatch_vars,
                 reorder_vars, next_seq, consumed>>

\* consumer.consume panics: unwinding drops the receiver and the dispatch
\* guard like an error does, but joins nobody.
ConsumePanic ==
  /\ cpc = "consume"
  /\ "consumer_panic" \in Faults
  /\ Leave("panic")
  /\ current' = NoMessage
  /\ UNCHANGED <<chunk_vars, worker_vars, channel_vars, dispatch_vars,
                 reorder_vars, next_seq, consumed>>

\* A plausible slip: a batch leaves the buffer and stays in its byte count.
Drain_uncounted ==
  /\ cpc = "drain"
  /\ IF next_seq \in pending
       THEN /\ pending' = pending \ {next_seq}
            /\ pending_batch' = [pending_batch EXCEPT ![next_seq] = NoMessage]
            /\ current' = pending_batch[next_seq]
            /\ cpc' = "consume"
       ELSE /\ cpc' = "publish"
            /\ UNCHANGED <<current, pending, pending_batch>>
  /\ UNCHANGED <<chunk_vars, worker_vars, channel_vars, dispatch_vars,
                 next_seq, reorder_bytes, consumed, result>>

\* while let Some(b) = pending.remove(&next_seq): the next batch, if it waits.
Drain ==
  /\ cpc = "drain"
  /\ IF next_seq \in pending
       THEN /\ pending' = pending \ {next_seq}
            /\ reorder_bytes' = reorder_bytes - pending_batch[next_seq].size
            /\ pending_batch' = [pending_batch EXCEPT ![next_seq] = NoMessage]
            /\ current' = pending_batch[next_seq]
            /\ cpc' = "consume"
       ELSE /\ cpc' = "publish"
            /\ UNCHANGED <<current, reorder_vars>>
  /\ UNCHANGED <<chunk_vars, worker_vars, channel_vars, dispatch_vars,
                 next_seq, consumed, result>>

\* *dispatch = Some(next_seq)
Publish ==
  /\ cpc = "publish"
  /\ dispatch_next' = next_seq
  /\ cpc' = "notify"
  /\ UNCHANGED <<chunk_vars, worker_vars, channel_vars, dispatch_some, current,
                 reorder_vars, next_seq, consumed, result>>

\* A plausible slip: the state is changed and nobody is notified.
notify_all_forgotten == wpc' = wpc

\* Condvar::notify_all: every sleeper tests its predicate again.
notify_all ==
  wpc' = [w \in Workers |-> IF wpc[w] = "asleep" THEN "gate" ELSE wpc[w]]

Notify ==
  /\ cpc = "notify"
  /\ notify_all
  /\ cpc' = "recv"
  /\ UNCHANGED <<chunk_vars, work, file_vars, channel_vars,
                 dispatch_vars, current, reorder_vars, next_seq, consumed,
                 result>>

-----------------------------------------------------------------------------
(* Every way out of the receive loop runs the same steps.                  *)

\* The loop owned the receiver: leaving it drops it and what it holds.
HangUp ==
  /\ cpc = "hangup"
  /\ receiver_alive' = FALSE
  /\ channel' = <<>>
  /\ cpc' = "close"
  /\ UNCHANGED <<chunk_vars, worker_vars, dispatch_vars, current,
                 reorder_vars, next_seq, consumed, result>>

\* DispatchGuard::drop, first statement: *dispatch = None
CloseDispatch ==
  /\ cpc = "close"
  /\ dispatch_some' = FALSE
  /\ cpc' = "wake"
  /\ UNCHANGED <<chunk_vars, worker_vars, channel_vars, dispatch_next, current,
                 reorder_vars, next_seq, consumed, result>>

\* DispatchGuard::drop, second statement.  A panic goes on unwinding.
WakeWorkers ==
  /\ cpc = "wake"
  /\ notify_all
  /\ cpc' = IF result = "panic" THEN "unwound" ELSE "join"
  /\ UNCHANGED <<chunk_vars, work, file_vars, channel_vars,
                 dispatch_vars, current, reorder_vars, next_seq, consumed,
                 result>>

\* Every handle is joined.  A worker always ends with Ok, so joining does not
\* change the result.
Join ==
  /\ cpc = "join"
  /\ AllSendersGone
  /\ cpc' = "returned"
  /\ UNCHANGED <<chunk_vars, worker_vars, channel_vars, dispatch_vars, current,
                 reorder_vars, next_seq, consumed, result>>

-----------------------------------------------------------------------------
Quiet == \A w \in Workers : wpc[w] \in {"unborn", "exited"}

Terminated == cpc \in {"returned", "unwound"} /\ Quiet

\* Nothing runs any more.
Done == Terminated /\ UNCHANGED vars

WorkerStep(w) ==
  \/ Pop(w)
  \/ Gate(w)
  \/ Load(w)
  \/ Read(w)
  \/ \E size \in BatchSizes : Parse(w, size)
  \/ ChunkFails(w)
  \/ Send(w)
  \/ SendFails(w)

PlanStep ==
  \/ PlanEmpty
  \/ \E k \in 1..MaxChunks : PlanChunks(k)
  \/ PlanFails

ConsumeStep == ConsumeOk \/ ConsumeErr \/ ConsumePanic

LoopStep ==
  \/ RecvError
  \/ RecvDeliver
  \/ RecvBuffer
  \/ RecvClosed
  \/ Drain
  \/ Publish
  \/ Notify

ExitStep == HangUp \/ CloseDispatch \/ WakeWorkers \/ Join

CoordinatorStep == PlanStep \/ LoopStep \/ ConsumeStep \/ ExitStep

Next ==
  \/ CoordinatorStep
  \/ \E w \in Workers : WorkerStep(w)
  \/ Done

\* The operating system runs every thread that can run.  A strict lock order
\* is not assumed: one thread may be passed over for the file handle as long
\* as others take it, which they do at most once per chunk.
Fairness ==
  /\ WF_vars(CoordinatorStep)
  /\ \A w \in Workers : WF_vars(WorkerStep(w))

Spec == Init /\ [][Next]_vars

FairSpec == Spec /\ Fairness

-----------------------------------------------------------------------------
(* Properties.                                                             *)

\* Types of all the executor's state.
TypeOK ==
  /\ num_chunks \in 0..MaxChunks
  /\ popped \in 0..MaxChunks
  /\ wpc \in [Workers -> WorkerStates]
  /\ work \in [Workers -> Message]
  /\ file_lock \in Workers \cup {NoWorker}
  /\ file_cursor \in 0..MaxChunks
  /\ channel \in Seq(Message)
  /\ receiver_alive \in BOOLEAN
  /\ dispatch_some \in BOOLEAN
  /\ dispatch_next \in Nat
  /\ cpc \in CoordinatorStates
  /\ current \in Message
  /\ pending \subseteq 0..MaxChunks
  /\ pending_batch \in [0..MaxChunks -> Message]
  /\ next_seq \in Nat
  /\ reorder_bytes \in Int
  /\ consumed \in Seq(0..MaxChunks)
  /\ result \in Results

\* Ordered delivery: whatever the workers' interleaving, and even when the
\* run fails half-way, what the consumer has accepted is a prefix of the
\* chunks in input order ("calling consumer per batch in order").
InOrderPrefix ==
  Ordered => \A i \in 1..Len(consumed) : consumed[i] = i - 1

\* No batch reaches the consumer twice, in either mode, and every one is a
\* batch of a planned chunk.
DeliveredOnce ==
  /\ \A i \in 1..Len(consumed) : consumed[i] \in Chunks
  /\ \A i, j \in 1..Len(consumed) : consumed[i] = consumed[j] => i = j

\* A run that ends with Ok has lost nothing: every chunk was delivered, none
\* is left in a worker, in the channel or in the reorder buffer.
OkMeansComplete ==
  result = "ok" => \A c \in Chunks : \E i \in 1..Len(consumed) : consumed[i] = c

\* The dispatch window bounds the reorder buffer: the batches that wait are
\* among the max_reorder chunks after the one the workers were last told of,
\* so there are at most max_reorder of them, whoever ran ahead.
ReorderWindow ==
  /\ pending \subseteq (dispatch_next + 1)..(dispatch_next + max_reorder)
  /\ Cardinality(pending) <= max_reorder

\* ParallelStreamOpts: "Workers may run at most this many chunks ahead of the
\* next output chunk."
RunAhead ==
  Ordered => \A w \in Workers :
    wpc[w] \in {"load", "read", "parse", "send"} =>
      work[w].seq <= next_seq + max_reorder

\* With a strict budget every batch fits its allowance and at most max_reorder
\* of them wait, so the reorder limit itself never fails a run.
StrictLimitUnreachable == result # "reorder_err"

\* The sum of a size over all chunks.
Total(size) ==
  LET below[c \in 0..(MaxChunks + 1)] ==
        IF c = 0 THEN 0 ELSE below[c - 1] + size[c - 1]
  IN below[MaxChunks + 1]

WaitingSizes ==
  [c \in 0..MaxChunks |-> IF c \in pending THEN pending_batch[c].size ELSE 0]

\* The reorder buffer's byte counter is exactly the size of the batches in it:
\* a batch is counted once when it is buffered and once when it is drained, so
\* the usize subtraction cannot wrap.
ReorderBytesExact ==
  result # "reorder_err" => reorder_bytes = Total(WaitingSizes)

\* No worker parses bytes of another worker's chunk: the shared file cursor
\* cannot move between a worker's seek and its read.
OwnBytes ==
  \A w \in Workers :
    wpc[w] = "parse" \/ (wpc[w] = "send" /\ work[w].ok) =>
      work[w].data = work[w].seq

\* Every run ends and leaves no thread behind, whether it succeeds, fails in
\* a worker or in the consumer, or unwinds from a panic.
Termination == <>Terminated

-----------------------------------------------------------------------------
(* The inductive invariant: where every chunk that has been popped can be. *)

Holding(w) == wpc[w] \in HoldingStates

\* Past the dispatch gate, with the chunk not yet handed on.
Loaded(w) == wpc[w] \in {"load", "read", "parse", "send"}

InLoop == cpc \in {"recv", "consume", "drain", "publish", "notify"}

\* While the loop runs nothing has been closed, and before it nothing exists.
PhaseInv ==
  /\ cpc = "plan" =>
       /\ num_chunks = 0 /\ popped = 0 /\ next_seq = 0 /\ dispatch_next = 0
       /\ channel = <<>> /\ consumed = <<>> /\ pending = {}
       /\ \A w \in Workers : wpc[w] = "unborn"
  /\ result = "none" <=> cpc = "plan" \/ InLoop
  /\ result = "none" => dispatch_some /\ receiver_alive
  /\ InLoop => \A w \in Workers : wpc[w] # "unborn"
  /\ cpc \in {"drain", "publish", "notify"} => Ordered

\* Only chunks that were popped are anywhere.
BoundInv ==
  /\ popped <= num_chunks
  /\ \A w \in Workers : Holding(w) => work[w].seq < popped
  /\ \A i \in 1..Len(channel) : channel[i].seq < popped
  /\ \A c \in pending : c < popped
  /\ cpc = "consume" => current.seq < popped
  /\ \A k \in 1..Len(consumed) : consumed[k] < popped

\* The reader of the shared file holds its lock and finds its own position.
FileInv ==
  \A w \in Workers :
    wpc[w] = "read" => file_lock = w /\ file_cursor = work[w].seq

\* A good batch holds the bytes of its own chunk, wherever it is.
ChannelData ==
  \A i \in 1..Len(channel) : channel[i].ok => channel[i].data = channel[i].seq

PendingData ==
  \A c \in pending : pending_batch[c].seq = c /\ pending_batch[c].data = c

CurrentData == cpc = "consume" => current.data = current.seq

DataInv == OwnBytes /\ ChannelData /\ PendingData /\ CurrentData

\* No chunk is in two places.
HeldOnce ==
  \A v, w \in Workers :
    Holding(v) /\ Holding(w) /\ work[v].seq = work[w].seq => v = w

SentOnce ==
  \A i, j \in 1..Len(channel) : channel[i].seq = channel[j].seq => i = j

ConsumedOnce ==
  \A j, k \in 1..Len(consumed) : consumed[j] = consumed[k] => j = k

HeldApart ==
  \A w \in Workers : Holding(w) =>
    /\ \A i \in 1..Len(channel) : channel[i].seq # work[w].seq
    /\ \A k \in 1..Len(consumed) : consumed[k] # work[w].seq
    /\ work[w].seq \notin pending

SentApart ==
  \A i \in 1..Len(channel) :
    /\ \A k \in 1..Len(consumed) : consumed[k] # channel[i].seq
    /\ channel[i].seq \notin pending

ConsumedApart == \A k \in 1..Len(consumed) : consumed[k] \notin pending

CurrentApart ==
  cpc = "consume" =>
    /\ \A w \in Workers : Holding(w) => work[w].seq # current.seq
    /\ \A i \in 1..Len(channel) : channel[i].seq # current.seq
    /\ \A k \in 1..Len(consumed) : consumed[k] # current.seq
    /\ current.seq \notin pending

UniqueInv ==
  /\ HeldOnce /\ SentOnce /\ ConsumedOnce
  /\ HeldApart /\ SentApart /\ ConsumedApart /\ CurrentApart

\* Ordered: next_seq is the length of the delivered prefix, and a batch that
\* is due is not left waiting.  Unordered: nothing waits.
OrderInv ==
  /\ Ordered =>
       /\ Len(consumed) = next_seq
       /\ \A k \in 1..Len(consumed) : consumed[k] = k - 1
       /\ cpc = "consume" => current.seq = next_seq
       /\ cpc \in {"recv", "publish", "notify"} => next_seq \notin pending
  /\ ~Ordered => pending = {}

\* Everything past the gate lies in the window after the published number,
\* which never overtakes next_seq.
WindowInv ==
  Ordered =>
    /\ dispatch_next <= next_seq
    /\ \A w \in Workers : Loaded(w) => work[w].seq <= dispatch_next + max_reorder
    /\ \A i \in 1..Len(channel) : channel[i].seq <= dispatch_next + max_reorder
    /\ \A c \in pending : dispatch_next < c /\ c <= dispatch_next + max_reorder

\* Where the batch of chunk c is, as long as nothing has failed.
Located(c) ==
  \/ \E w \in Workers : Holding(w) /\ work[w].seq = c
  \/ \E i \in 1..Len(channel) : channel[i].seq = c
  \/ c \in pending
  \/ cpc = "consume" /\ current.seq = c
  \/ \E k \in 1..Len(consumed) : consumed[k] = c

\* Until the loop ends no popped chunk is lost, and a worker has stopped only
\* because the queue is empty or because its error is on the way.
CoverInv ==
  /\ result = "none" => \A c \in 0..(popped - 1) : Located(c)
  /\ result = "none" =>
       \A w \in Workers : wpc[w] = "exited" =>
         popped = num_chunks \/ \E i \in 1..Len(channel) : ~channel[i].ok
  /\ OkMeansComplete

IInv ==
  /\ TypeOK
  /\ PhaseInv
  /\ BoundInv
  /\ FileInv
  /\ DataInv
  /\ UniqueInv
  /\ OrderInv
  /\ WindowInv
  /\ CoverInv

-----------------------------------------------------------------------------
(* The executor implements the abstract stream: the consumer sees it.      *)

StreamStatus ==
  IF cpc = "plan" THEN "planning"
  ELSE IF result = "none" THEN "open"
  ELSE IF result = "ok" THEN "ok"
  ELSE "failed"

Stream == INSTANCE BatchStream
            WITH total <- num_chunks, delivered <- consumed,
                 status <- StreamStatus

\* Every step of the executor is a step of the stream its consumer was
\* promised, or changes nothing the consumer can see.
ImplementsStream == Stream!Spec
=============================================================================
