-------------------------- MODULE ParallelIterator --------------------------
(***************************************************************************)
(* ParallelStreamingBatchIterator (crates/rypipe-core/src/                 *)
(* parallel_stream.rs): a thread runs the parallel executor with a         *)
(* ChannelConsumer, which sends every batch over a second bounded channel; *)
(* the caller pulls from it with next() and may drop the iterator at any   *)
(* time between two calls.                                                 *)
(*                                                                         *)
(* The executor is ParallelStream; its consume step is the send of the     *)
(* ChannelConsumer, so it succeeds exactly when that send does.            *)
(***************************************************************************)
EXTENDS ParallelStream

\* The constructor uses one number, 2 * threads, for both channels; the
\* ChannelConsumer fails when the receiver is gone and never panics. The bound
\* on the chunks leaves room for one.
IteratorOptions ==
  /\ OptMaxInFlight = 2 * Threads
  /\ "consumer_err" \in Faults
  /\ "consumer_panic" \notin Faults
  /\ MaxChunks > 0

VARIABLES
  it_channel,  \* items sent to the caller and not yet received
  exec_pc,     \* the executor thread: "run", "report", "exited", "panicked"
  caller,      \* "idle", "recv" (inside next) or "dropped"
  done,        \* the iterator's done flag
  outcome,     \* what next returned besides batches: "none", "err" or "end"
  yielded      \* history: the chunks whose batches next returned

it_vars == <<it_channel, exec_pc, caller, done, outcome, yielded>>

all_vars == <<vars, it_vars>>

it_capacity == 2 * Threads

Item == [ok : BOOLEAN, data : Nat]

BatchItem(d) == [ok |-> TRUE, data |-> d]

ErrItem == [ok |-> FALSE, data |-> 0]

ItInit ==
  /\ Init
  /\ it_channel = <<>>
  /\ exec_pc = "run"
  /\ caller = "idle"
  /\ done = FALSE
  /\ outcome = "none"
  /\ yielded = <<>>

\* A plausible slip: an unbounded channel.
CanSend_unbounded == TRUE

\* A plausible slip: nobody can send over a channel of capacity zero.
CanSend_buffered == Len(it_channel) < it_capacity

\* A channel of capacity zero (no threads asked for) hands an item over only
\* to a receiver that is already waiting for it.
CanSend ==
  \/ Len(it_channel) < it_capacity
  \/ it_capacity = 0 /\ caller = "recv" /\ it_channel = <<>>

-----------------------------------------------------------------------------
(* The executor thread.                                                    *)

\* ChannelConsumer::consume with the receiver alive.
SendBatch ==
  /\ ConsumeOk
  /\ caller # "dropped"
  /\ CanSend
  /\ it_channel' = Append(it_channel, BatchItem(current.data))
  /\ UNCHANGED <<exec_pc, caller, done, outcome, yielded>>

\* ChannelConsumer::consume with the receiver gone.
SendDisconnected ==
  /\ ConsumeErr
  /\ caller = "dropped"
  /\ UNCHANGED it_vars

\* run_stream has returned: a success ends the thread, an error is reported.
RunReturned ==
  /\ exec_pc = "run"
  /\ cpc = "returned"
  /\ exec_pc' = IF result = "ok" THEN "exited" ELSE "report"
  /\ UNCHANGED <<vars, it_channel, caller, done, outcome, yielded>>

\* A plausible slip: the executor's error is dropped with the thread.
ReportError_dropped ==
  /\ exec_pc = "report"
  /\ exec_pc' = "exited"
  /\ UNCHANGED <<vars, it_channel, caller, done, outcome, yielded>>

\* let _ = sender.send(Err(e)): nobody may be listening any more.
ReportError ==
  /\ exec_pc = "report"
  /\ \/ caller # "dropped" /\ CanSend /\ it_channel' = Append(it_channel, ErrItem)
     \/ caller = "dropped" /\ UNCHANGED it_channel
  /\ exec_pc' = "exited"
  /\ UNCHANGED <<vars, caller, done, outcome, yielded>>

\* A panic of run_stream ends the thread.
RunUnwound ==
  /\ exec_pc = "run"
  /\ cpc = "unwound"
  /\ exec_pc' = "panicked"
  /\ UNCHANGED <<vars, it_channel, caller, done, outcome, yielded>>

ExecutorStep ==
  \/ (PlanStep \/ LoopStep \/ ExitStep) /\ UNCHANGED it_vars
  \/ SendBatch
  \/ SendDisconnected
  \/ RunReturned
  \/ ReportError
  \/ RunUnwound

-----------------------------------------------------------------------------
(* The caller.                                                             *)

\* next() with done set returns None and changes nothing; otherwise it blocks
\* in recv.
CallNext ==
  /\ caller = "idle"
  /\ ~done
  /\ caller' = "recv"
  /\ UNCHANGED <<vars, it_channel, exec_pc, done, outcome, yielded>>

ReturnBatch ==
  /\ caller = "recv"
  /\ it_channel # <<>>
  /\ Head(it_channel).ok
  /\ yielded' = Append(yielded, Head(it_channel).data)
  /\ it_channel' = Tail(it_channel)
  /\ caller' = "idle"
  /\ UNCHANGED <<vars, exec_pc, done, outcome>>

ReturnError ==
  /\ caller = "recv"
  /\ it_channel # <<>>
  /\ ~Head(it_channel).ok
  /\ it_channel' = Tail(it_channel)
  /\ done' = TRUE
  /\ outcome' = "err"
  /\ caller' = "idle"
  /\ UNCHANGED <<vars, exec_pc, yielded>>

\* A plausible slip: the join result is ignored and a panic looks like the end.
EndOutcome_ignoring_panic == "end"

\* The thread is joined and its panic, if any, becomes the error.
EndOutcome == IF exec_pc = "panicked" THEN "err" ELSE "end"

ReturnEnd ==
  /\ caller = "recv"
  /\ it_channel = <<>>
  /\ exec_pc \in {"exited", "panicked"}
  /\ done' = TRUE
  /\ outcome' = EndOutcome
  /\ caller' = "idle"
  /\ UNCHANGED <<vars, it_channel, exec_pc, yielded>>

\* Dropping the iterator drops its receiver and detaches the thread.
DropIterator ==
  /\ caller = "idle"
  /\ caller' = "dropped"
  /\ it_channel' = <<>>
  /\ UNCHANGED <<vars, exec_pc, done, outcome, yielded>>

InsideNext == ReturnBatch \/ ReturnError \/ ReturnEnd

ItDone ==
  /\ caller = "dropped"
  /\ exec_pc \in {"exited", "panicked"}
  /\ Quiet
  /\ UNCHANGED all_vars

ItNext ==
  \/ ExecutorStep
  \/ \E w \in Workers : WorkerStep(w) /\ UNCHANGED it_vars
  \/ CallNext
  \/ InsideNext
  \/ DropIterator
  \/ ItDone

\* Threads that can run do run, and a receive that can return does.  The
\* caller owes nobody another call.
ItFairness ==
  /\ WF_all_vars(ExecutorStep)
  /\ \A w \in Workers : WF_all_vars(WorkerStep(w) /\ UNCHANGED it_vars)
  /\ WF_all_vars(InsideNext)

ItSpec == ItInit /\ [][ItNext]_all_vars /\ ItFairness

-----------------------------------------------------------------------------
(* Properties.                                                             *)

\* Types of the iterator's state, on top of the executor's; at most 2 * threads
\* batches wait for the caller (one being handed over if threads is 0).
ItTypeOK ==
  /\ TypeOK
  /\ it_channel \in Seq(Item)
  /\ Len(it_channel) <= (IF it_capacity = 0 THEN 1 ELSE it_capacity)
  /\ exec_pc \in {"run", "report", "exited", "panicked"}
  /\ caller \in {"idle", "recv", "dropped"}
  /\ done \in BOOLEAN
  /\ outcome \in {"none", "err", "end"}
  /\ yielded \in Seq(Nat)

CallerStatus ==
  IF cpc = "plan" THEN "planning"
  ELSE IF outcome = "none" THEN "open"
  ELSE IF outcome = "end" THEN "ok"
  ELSE "failed"

\* An input that could not be planned is not an empty one: nothing says that
\* the caller has all of it.
CallerTotal ==
  IF num_chunks = 0 /\ result \in {"plan_err", "panic"} THEN 1 ELSE num_chunks

CallerStream == INSTANCE BatchStream
                  WITH total <- CallerTotal, delivered <- yielded,
                       status <- CallerStatus

\* What the caller sees is a stream of batches: in order, none twice, and None
\* without an error only after every batch.  In particular a worker's error,
\* a panic of the executor thread or an early exit is never mistaken for the
\* end of the input.
CallerSeesStream == CallerStream!Init /\ [][CallerStream!Next]_(CallerStream!vars)

\* Every call of next() returns: no combination of full channels, waiting
\* workers, errors and panics leaves the caller blocked.
NextReturns == caller = "recv" ~> caller # "recv"

\* Dropping the iterator stops everything behind it: the executor thread ends
\* and no worker is left blocked on a channel or on the dispatch condition.
DropStops == caller = "dropped" ~> (exec_pc \in {"exited", "panicked"} /\ Quiet)

-----------------------------------------------------------------------------
(* The inductive invariant, on top of the executor's.                      *)

\* The error that ends a failed run waits for the caller.
ErrorWaits == it_channel # <<>> /\ ~it_channel[Len(it_channel)].ok

\* Planned chunks stay planned, and the thread ends after the run.
EndInv ==
  /\ cpc \notin {"plan", "returned", "unwound"} => num_chunks > 0
  /\ exec_pc \in {"report", "exited"} => cpc = "returned"
  /\ exec_pc = "report" => result # "ok"
  /\ exec_pc = "panicked" => cpc = "unwound"

\* As long as the caller listens, what it got and what waits for it are, in
\* this order, the batches that were consumed; an error comes after them all.
FlowInv ==
  caller # "dropped" =>
    /\ Len(yielded) + Len(it_channel) = Len(consumed) + (IF ErrorWaits THEN 1 ELSE 0)
    /\ \A i \in 1..Len(yielded) : yielded[i] = consumed[i]
    /\ \A i \in 1..Len(it_channel) :
         IF it_channel[i].ok THEN it_channel[i].data = consumed[Len(yielded) + i]
                             ELSE i = Len(it_channel) /\ exec_pc = "exited"

\* A run that failed has told the caller, or its error waits.
DoneInv ==
  /\ done <=> outcome # "none"
  /\ done => caller # "recv"
  /\ outcome # "none" => exec_pc \in {"exited", "panicked"}
  /\ exec_pc = "exited" /\ caller # "dropped" =>
       result = "ok" \/ ErrorWaits \/ outcome = "err"

ItIInv == IInv /\ ItTypeOK /\ EndInv /\ FlowInv /\ DoneInv
=============================================================================
