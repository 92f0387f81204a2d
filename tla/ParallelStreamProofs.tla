------------------------ MODULE ParallelStreamProofs ------------------------
(***************************************************************************)
(* Proofs about ParallelStream, and ParallelIterator around it, for any    *)
(* number of threads and chunks, any window and channel size, both delivery *)
(* modes and every failure.                                                *)
(***************************************************************************)
EXTENDS ParallelIterator, Induction, SequenceTheorems, TLAPS

(* What run_bytes_stream_core derives from the options has the right type. *)
LEMMA DerivedSizes ==
  /\ n \in Nat /\ n > 0
  /\ max_reorder \in Nat /\ max_reorder > 0
  /\ dispatch_window = max_reorder + 1
  /\ max_in_flight \in Nat
  /\ NoMessage \in Message
  /\ NoWorker \notin Workers
  BY ThreadsAssumption, ReorderAssumption, InFlightAssumption,
     ChunksAssumption
  DEF n, max_reorder, dispatch_window, max_in_flight, NoMessage, Message,
      Sizes, NoWorker, Workers

(* Reversing the enumerated ranges once makes Vec::pop yield chunk k as its *)
(* k-th result.                                                             *)
LEMMA PopsInOrder ==
  ASSUME num_chunks \in Nat, popped \in Nat, popped < num_chunks
  PROVE  NthPopped(popped) = popped
<1>1. num_chunks - popped \in 1..num_chunks
  OBVIOUS
<1> QED
  BY <1>1 DEF NthPopped, chunks_with_seq

(* The fields of a message. *)
LEMMA MessageFields ==
  ASSUME NEW m \in Message
  PROVE  /\ m.seq \in 0..MaxChunks
         /\ m.ok \in BOOLEAN
         /\ m.data \in 0..MaxChunks
         /\ m.size \in Sizes
         /\ m.size \in Nat
<1>1. m.size \in Sizes
  BY DEF Message
<1>2. Sizes \subseteq Nat
  BY SizeAssumption DEF Sizes
<1> QED
  BY <1>1, <1>2 DEF Message

(* The message the coordinator receives next, and what it leaves behind. *)
LEMMA ChannelHead ==
  ASSUME channel \in Seq(Message), channel # <<>>
  PROVE  /\ Len(channel) \in Nat /\ 1 \in 1..Len(channel)
         /\ Head(channel) = channel[1]
         /\ Head(channel) \in Message
         /\ Tail(channel) \in Seq(Message)
         /\ Len(Tail(channel)) = Len(channel) - 1
         /\ \A i \in 1..Len(Tail(channel)) :
              Tail(channel)[i] = channel[i + 1] /\ i + 1 \in 1..Len(channel)
  BY HeadTailProperties

(* Changing one field of what a worker holds keeps the types. *)
LEMMA WorkUpdate ==
  ASSUME work \in [Workers -> Message], NEW w \in Workers
  PROVE  /\ \A x \in 0..MaxChunks :
              /\ [work EXCEPT ![w].seq = x] \in [Workers -> Message]
              /\ [work EXCEPT ![w].data = x] \in [Workers -> Message]
         /\ \A b \in BOOLEAN, s \in Sizes :
              /\ [work EXCEPT ![w].ok = b, ![w].size = s] \in [Workers -> Message]
              /\ [work EXCEPT ![w].ok = b] \in [Workers -> Message]
  BY DEF Message

-----------------------------------------------------------------------------
(* Every step keeps the types.                                              *)
LEMMA TypeStep ==
  ASSUME TypeOK, [Next]_vars
  PROVE  TypeOK'
<1> USE DerivedSizes, ChunksAssumption, SizeAssumption, FlagAssumption
<1> USE DEF TypeOK, chunk_vars, worker_vars, channel_vars, dispatch_vars,
            file_vars, reorder_vars, coord_vars
<1>1. CASE PlanEmpty
  BY <1>1 DEF PlanEmpty, CoordinatorStates, Results
<1>2. ASSUME NEW k \in 1..MaxChunks, PlanChunks(k) PROVE TypeOK'
  BY <1>2 DEF PlanChunks, CoordinatorStates, WorkerStates
<1>3. CASE PlanFails
  BY <1>3 DEF PlanFails, CoordinatorStates, Results
<1>4. CASE RecvError
  BY <1>4 DEF RecvError, Leave, CoordinatorStates, Results
<1>5. CASE RecvDeliver
  BY <1>5 DEF RecvDeliver, CoordinatorStates
<1>6. CASE RecvBuffer
  <2>1. /\ Tail(channel) \in Seq(Message)
        /\ Head(channel) \in Message
        /\ Head(channel).seq \in 0..MaxChunks
        /\ Head(channel).size \in Nat
    BY <1>6, ChannelHead, MessageFields DEF RecvBuffer
  <2>2. pending' \subseteq 0..MaxChunks
    BY <1>6, <2>1 DEF RecvBuffer
  <2>3. pending_batch' \in [0..MaxChunks -> Message]
    BY <1>6, <2>1 DEF RecvBuffer
  <2>4. cpc' \in CoordinatorStates /\ result' \in Results
    BY <1>6 DEF RecvBuffer, Leave, CoordinatorStates, Results
  <2> QED
    BY <1>6, <2>1, <2>2, <2>3, <2>4 DEF RecvBuffer
<1>7. CASE RecvClosed
  BY <1>7 DEF RecvClosed, Leave, CoordinatorStates, Results
<1>8. CASE Drain
  <2>1. CASE next_seq \in pending
    <3>1. /\ pending_batch[next_seq] \in Message
          /\ pending_batch[next_seq].size \in Nat
      BY <2>1, MessageFields
    <3>2. pending_batch' \in [0..MaxChunks -> Message]
      BY <1>8, <2>1 DEF Drain
    <3>3. /\ pending' \subseteq 0..MaxChunks
          /\ current' \in Message
      BY <1>8, <2>1, <3>1 DEF Drain
    <3>4. reorder_bytes' \in Int
      BY <1>8, <2>1, <3>1 DEF Drain
    <3> QED
      BY <1>8, <2>1, <3>2, <3>3, <3>4 DEF Drain, CoordinatorStates
  <2>2. CASE next_seq \notin pending
    BY <1>8, <2>2 DEF Drain, CoordinatorStates
  <2> QED
    BY <2>1, <2>2
<1>9. CASE Publish
  BY <1>9 DEF Publish, CoordinatorStates
<1>10. CASE Notify
  BY <1>10 DEF Notify, notify_all, CoordinatorStates, WorkerStates
<1>11. CASE ConsumeOk
  <2>1. consumed' \in Seq(0..MaxChunks)
    BY <1>11, MessageFields, AppendProperties DEF ConsumeOk
  <2> QED
    BY <1>11, <2>1 DEF ConsumeOk, CoordinatorStates
<1>12. CASE ConsumeErr
  BY <1>12 DEF ConsumeErr, Leave, CoordinatorStates, Results
<1>13. CASE ConsumePanic
  BY <1>13 DEF ConsumePanic, Leave, CoordinatorStates, Results
<1>14. CASE HangUp
  <2>1. channel' \in Seq(Message)
    BY <1>14 DEF HangUp
  <2> QED
    BY <1>14, <2>1 DEF HangUp, CoordinatorStates
<1>15. CASE CloseDispatch
  BY <1>15 DEF CloseDispatch, CoordinatorStates
<1>16. CASE WakeWorkers
  BY <1>16 DEF WakeWorkers, notify_all, CoordinatorStates, WorkerStates
<1>17. CASE Join
  BY <1>17 DEF Join, CoordinatorStates
<1>18. ASSUME NEW w \in Workers, Pop(w) PROVE TypeOK'
  <2>1. work' \in [Workers -> Message] /\ popped' \in 0..MaxChunks
    <3>1. CASE popped < num_chunks
      <4>1. NthPopped(popped) \in 0..MaxChunks
        BY <3>1, PopsInOrder
      <4>2. [work EXCEPT ![w].seq = NthPopped(popped)] \in [Workers -> Message]
        BY <4>1, WorkUpdate
      <4>3. popped' = popped + 1 /\ popped + 1 \in 0..MaxChunks
        <5>1. popped' = popped + 1
          BY <1>18, <3>1 DEF Pop
        <5>2. popped \in 0..MaxChunks /\ num_chunks \in 0..MaxChunks /\ MaxChunks \in Nat
          BY ChunksAssumption DEF TypeOK
        <5> QED
          BY ONLY <3>1, <5>1, <5>2
      <4>4. work' = [work EXCEPT ![w].seq = NthPopped(popped)]
        BY <1>18, <3>1 DEF Pop
      <4> QED
        BY <4>2, <4>3, <4>4
    <3>2. CASE ~(popped < num_chunks)
      BY <1>18, <3>2 DEF Pop
    <3> QED
      BY <3>1, <3>2
  <2> QED
    BY <1>18, <2>1 DEF Pop, AfterPop, WorkerStates
<1>19. ASSUME NEW w \in Workers, Gate(w) PROVE TypeOK'
  BY <1>19 DEF Gate, WorkerStates
<1>20. ASSUME NEW w \in Workers, Load(w) PROVE TypeOK'
  <2>1. work[w].seq \in 0..MaxChunks
    BY MessageFields
  <2>2. work' \in [Workers -> Message]
    <3>1. [work EXCEPT ![w].data = work[w].seq] \in [Workers -> Message]
      BY <2>1, WorkUpdate
    <3> QED
      BY <1>20, <3>1 DEF Load
  <2> QED
    BY <1>20, <2>1, <2>2 DEF Load, WorkerStates
<1>21. ASSUME NEW w \in Workers, Read(w) PROVE TypeOK'
  BY <1>21, WorkUpdate DEF Read, WorkerStates
<1>22. ASSUME NEW w \in Workers, NEW size \in BatchSizes, Parse(w, size)
       PROVE  TypeOK'
  <2>1. BatchAccepted(size) \in BOOLEAN
    BY DEF BatchAccepted, Fits
  <2>2. (IF BatchAccepted(size) THEN size ELSE 0) \in Sizes
    BY DEF Sizes
  <2>3. work' \in [Workers -> Message]
    BY <1>22, <2>1, <2>2, WorkUpdate DEF Parse
  <2> QED
    BY <1>22, <2>3 DEF Parse, WorkerStates
<1>23. ASSUME NEW w \in Workers, ChunkFails(w) PROVE TypeOK'
  <2>1. [work EXCEPT ![w].ok = FALSE] \in [Workers -> Message]
    BY WorkUpdate DEF Sizes
  <2> QED
    BY <1>23, <2>1 DEF ChunkFails, WorkerStates
<1>24. ASSUME NEW w \in Workers, Send(w) PROVE TypeOK'
  BY <1>24 DEF Send, WorkerStates
<1>25. ASSUME NEW w \in Workers, SendFails(w) PROVE TypeOK'
  BY <1>25 DEF SendFails, WorkerStates
<1>26. CASE UNCHANGED vars
  BY <1>26 DEF vars
<1> QED
  BY <1>1, <1>2, <1>3, <1>4, <1>5, <1>6, <1>7, <1>8, <1>9, <1>10, <1>11,
     <1>12, <1>13, <1>14, <1>15, <1>16, <1>17, <1>18, <1>19, <1>20, <1>21,
     <1>22, <1>23, <1>24, <1>25, <1>26
  DEF Next, CoordinatorStep, PlanStep, LoopStep, ConsumeStep, ExitStep,
      WorkerStep, Done

(* Every variable of the executor keeps its type: the type invariant is     *)
(* inductive as it stands.                                                  *)
THEOREM TypeCorrect == Spec => []TypeOK
<1>1. Init => TypeOK
  BY DerivedSizes, ChunksAssumption, SizeAssumption, FlagAssumption
  DEF Init, TypeOK, WorkerStates, CoordinatorStates, Results, Sizes
<1>2. TypeOK /\ [Next]_vars => TypeOK'
  BY TypeStep
<1> QED
  BY <1>1, <1>2, PTL DEF Spec

-----------------------------------------------------------------------------
(* The inductive invariant, one lemma per action.                           *)

(* The types the arithmetic of the following proofs needs. *)
LEMMA StateTypes ==
  ASSUME TypeOK
  PROVE  /\ popped \in Nat /\ num_chunks \in Nat
         /\ next_seq \in Nat /\ dispatch_next \in Nat
         /\ wpc \in [Workers -> WorkerStates] /\ work \in [Workers -> Message]
         /\ \A w \in Workers : work[w].seq \in Nat
         /\ channel \in Seq(Message) /\ Len(channel) \in Nat
         /\ \A i \in 1..Len(channel) : channel[i] \in Message
         /\ \A i \in 1..Len(channel) : channel[i].seq \in Nat
         /\ consumed \in Seq(0..MaxChunks) /\ Len(consumed) \in Nat
         /\ \A k \in 1..Len(consumed) : consumed[k] \in Nat
         /\ \A c \in pending : c \in Nat
         /\ current.seq \in Nat
<1> USE ChunksAssumption
<1>1. \A w \in Workers : work[w].seq \in Nat
  BY MessageFields DEF TypeOK
<1>2. channel \in Seq(Message) /\ \A i \in 1..Len(channel) : channel[i] \in Message
  BY ElementOfSeq DEF TypeOK
<1>3. \A i \in 1..Len(channel) : channel[i].seq \in Nat
  BY <1>2, MessageFields
<1>4. consumed \in Seq(0..MaxChunks) /\ \A k \in 1..Len(consumed) : consumed[k] \in Nat
  BY ElementOfSeq DEF TypeOK
<1>5. Len(channel) \in Nat /\ Len(consumed) \in Nat
  BY <1>2, <1>4, LenProperties
<1>6. current.seq \in Nat
  BY MessageFields DEF TypeOK
<1>7. popped \in Nat /\ num_chunks \in Nat /\ \A c \in pending : c \in Nat
  BY DEF TypeOK
<1>8. /\ next_seq \in Nat /\ dispatch_next \in Nat
      /\ wpc \in [Workers -> WorkerStates] /\ work \in [Workers -> Message]
  BY DEF TypeOK
<1> QED
  BY ONLY <1>1, <1>2, <1>3, <1>4, <1>5, <1>6, <1>7, <1>8

(* A worker hands its batch or error to the channel: the message takes over *)
(* the chunk the worker held.                                               *)
LEMMA SendKeepsInv ==
  ASSUME IInv, TypeOK', NEW w \in Workers, Send(w)
  PROVE  IInv'
<1> USE DerivedSizes, ChunksAssumption DEF IInv
<1>1. /\ work \in [Workers -> Message] /\ channel \in Seq(Message)
      /\ wpc \in [Workers -> WorkerStates]
      /\ wpc[w] = "send" /\ work[w] \in Message
      /\ popped \in Nat /\ dispatch_next \in Nat /\ next_seq \in Nat
      /\ consumed \in Seq(0..MaxChunks)
  BY DEF TypeOK, Send
<1>2. /\ Len(channel) \in Nat
      /\ Len(channel') = Len(channel) + 1
      /\ \A i \in 1..Len(channel) : channel'[i] = channel[i]
      /\ channel'[Len(channel) + 1] = work[w]
  BY <1>1, AppendProperties DEF Send
<1>3. \A i \in 1..Len(channel') :
        \/ i \in 1..Len(channel) /\ channel'[i] = channel[i]
        \/ i = Len(channel) + 1 /\ channel'[i] = work[w]
  BY <1>2
<1>4. /\ ~Holding(w)' /\ ~Loaded(w)' /\ Holding(w) /\ Loaded(w)
      /\ wpc'[w] = (IF work[w].ok THEN "pop" ELSE "exited")
      /\ \A v \in Workers : v # w => wpc'[v] = wpc[v] /\ work'[v] = work[v]
  BY <1>1 DEF Send, Holding, Loaded, HoldingStates
<1>5. \A v \in Workers : Holding(v)' => v # w /\ Holding(v) /\ work'[v] = work[v]
  BY <1>4 DEF Holding
<1>6. /\ UNCHANGED <<num_chunks, popped, file_lock, file_cursor, receiver_alive,
                     dispatch_some, dispatch_next, cpc, current, pending,
                     pending_batch, next_seq, reorder_bytes, consumed, result>>
  BY DEF Send, chunk_vars, file_vars, dispatch_vars, coord_vars, reorder_vars
<1>7. PhaseInv'
  BY <1>1, <1>4, <1>6 DEF PhaseInv, InLoop, Send
<1>8. BoundInv'
  BY <1>1, <1>3, <1>4, <1>5, <1>6 DEF BoundInv
<1>9. FileInv'
  BY <1>4, <1>6 DEF FileInv
<1>10. DataInv'
  <2>1. OwnBytes'
    BY <1>4 DEF DataInv, OwnBytes
  <2>2. ChannelData'
    BY <1>1, <1>3 DEF DataInv, OwnBytes, ChannelData
  <2> QED
    BY <1>6, <2>1, <2>2 DEF DataInv, PendingData, CurrentData
<1>11. UniqueInv'
  <2>1. HeldOnce'
    BY <1>5 DEF UniqueInv, HeldOnce
  <2>2. SentOnce'
    <3>1. \A i \in 1..Len(channel) : channel[i].seq # work[w].seq
      BY <1>4 DEF UniqueInv, HeldApart
    <3>2. \A i, j \in 1..Len(channel) : channel[i].seq = channel[j].seq => i = j
      BY DEF UniqueInv, SentOnce
    <3>3. ASSUME NEW i \in 1..Len(channel'), NEW j \in 1..Len(channel'),
                 channel'[i].seq = channel'[j].seq
          PROVE  i = j
      <4>1. CASE i \in 1..Len(channel) /\ j \in 1..Len(channel)
        BY <1>2, <3>2, <3>3, <4>1
      <4>2. CASE i \in 1..Len(channel) /\ j \notin 1..Len(channel)
        BY <1>2, <1>3, <3>1, <3>3, <4>2
      <4>3. CASE i \notin 1..Len(channel) /\ j \in 1..Len(channel)
        BY <1>2, <1>3, <3>1, <3>3, <4>3
      <4>4. CASE i \notin 1..Len(channel) /\ j \notin 1..Len(channel)
        BY <1>3, <4>4
      <4> QED
        BY <4>1, <4>2, <4>3, <4>4
    <3> QED
      BY <3>3 DEF SentOnce
  <2>3. HeldApart'
    BY <1>3, <1>4, <1>5, <1>6 DEF UniqueInv, HeldOnce, HeldApart
  <2>4. SentApart'
    BY <1>3, <1>4, <1>6 DEF UniqueInv, SentApart, HeldApart
  <2>5. CurrentApart'
    BY <1>3, <1>4, <1>5, <1>6 DEF UniqueInv, CurrentApart
  <2> QED
    BY <1>6, <2>1, <2>2, <2>3, <2>4, <2>5
    DEF UniqueInv, ConsumedOnce, ConsumedApart
<1>12. OrderInv'
  BY <1>6 DEF OrderInv
<1>13. WindowInv'
  <2>1. \A v \in Workers : Loaded(v)' => v # w /\ Loaded(v) /\ work'[v] = work[v]
    BY <1>4 DEF Loaded
  <2> QED
    BY <1>1, <1>3, <1>4, <1>6, <2>1 DEF WindowInv
<1>14. CoverInv'
  <2>1. ASSUME NEW c, Located(c) PROVE Located(c)'
    <3>1. CASE \E v \in Workers : Holding(v) /\ work[v].seq = c
      BY <1>2, <1>4, <3>1 DEF Located, Holding
    <3>2. CASE \E i \in 1..Len(channel) : channel[i].seq = c
      BY <1>2, <3>2 DEF Located
    <3> QED
      BY <2>1, <3>1, <3>2, <1>6 DEF Located
  <2>2. result' = "none" => \A v \in Workers : wpc'[v] = "exited" =>
          popped' = num_chunks' \/ \E i \in 1..Len(channel') : ~channel'[i].ok
    BY <1>2, <1>4, <1>6 DEF CoverInv
  <2> QED
    BY <1>6, <2>1, <2>2 DEF CoverInv, OkMeansComplete, Chunks
<1> QED
  BY <1>7, <1>8, <1>9, <1>10, <1>11, <1>12, <1>13, <1>14

(* A worker whose send finds the receiver gone drops its chunk and stops.   *)
(* By then a result other than Ok is certain.                               *)
LEMMA SendFailsKeepsInv ==
  ASSUME IInv, TypeOK', NEW w \in Workers, SendFails(w)
  PROVE  IInv'
<1> USE DerivedSizes, ChunksAssumption DEF IInv
<1>1. /\ wpc \in [Workers -> WorkerStates] /\ work \in [Workers -> Message]
      /\ result # "none"
  BY DEF TypeOK, SendFails, PhaseInv
<1>2. /\ wpc'[w] = "exited" /\ ~Holding(w)' /\ ~Loaded(w)'
      /\ \A v \in Workers : v # w => wpc'[v] = wpc[v] /\ work'[v] = work[v]
  BY <1>1 DEF SendFails, Holding, Loaded, HoldingStates
<1>3. \A v \in Workers :
        /\ Holding(v)' => Holding(v) /\ work'[v] = work[v]
        /\ Loaded(v)' => Loaded(v) /\ work'[v] = work[v]
  BY <1>2 DEF Holding, Loaded
<1>4. UNCHANGED <<num_chunks, popped, file_lock, file_cursor, channel,
                  receiver_alive, dispatch_some, dispatch_next, cpc, current,
                  pending, pending_batch, next_seq, reorder_bytes, consumed,
                  result>>
  BY DEF SendFails, chunk_vars, file_vars, channel_vars, dispatch_vars,
         coord_vars, reorder_vars
<1>5. PhaseInv'
  BY <1>1, <1>2, <1>4 DEF PhaseInv, InLoop
<1>6. BoundInv'
  BY <1>3, <1>4 DEF BoundInv
<1>7. FileInv'
  BY <1>2, <1>4 DEF FileInv
<1>8. DataInv'
  BY <1>2, <1>4 DEF DataInv, OwnBytes, ChannelData, PendingData, CurrentData
<1>9. UniqueInv'
  BY <1>3, <1>4
  DEF UniqueInv, HeldOnce, SentOnce, ConsumedOnce, HeldApart, SentApart,
      ConsumedApart, CurrentApart
<1>10. OrderInv'
  BY <1>4 DEF OrderInv
<1>11. WindowInv'
  BY <1>3, <1>4 DEF WindowInv
<1>12. CoverInv'
  BY <1>1, <1>4 DEF CoverInv, OkMeansComplete, Chunks
<1> QED
  BY <1>5, <1>6, <1>7, <1>8, <1>9, <1>10, <1>11, <1>12

(* A worker pops the next chunk, or finds none and stops: the chunk gets its *)
(* only holder.                                                             *)
LEMMA PopKeepsInv ==
  ASSUME IInv, TypeOK', NEW w \in Workers, Pop(w)
  PROVE  IInv'
<1> USE DerivedSizes, ChunksAssumption DEF IInv
<1>1. /\ wpc \in [Workers -> WorkerStates] /\ work \in [Workers -> Message]
      /\ popped \in Nat /\ num_chunks \in Nat /\ popped <= num_chunks
      /\ next_seq \in Nat /\ dispatch_next \in Nat
      /\ wpc[w] = "pop" /\ ~Holding(w)
  BY StateTypes DEF Pop, BoundInv, Holding, HoldingStates
<1>2. UNCHANGED <<num_chunks, file_lock, file_cursor, channel, receiver_alive,
                  dispatch_some, dispatch_next, cpc, current, pending,
                  pending_batch, next_seq, reorder_bytes, consumed, result>>
  BY DEF Pop, file_vars, channel_vars, dispatch_vars, coord_vars, reorder_vars
<1>3. \A v \in Workers : v # w => wpc'[v] = wpc[v] /\ work'[v] = work[v]
  BY <1>1 DEF Pop
<1>4. CASE popped < num_chunks
  <2>1. /\ popped' = popped + 1
        /\ wpc'[w] = AfterPop
        /\ work'[w].seq = popped
        /\ Holding(w)'
    <3>1. NthPopped(popped) = popped
      BY <1>1, <1>4, PopsInOrder
    <3>2. work'[w] = [work[w] EXCEPT !.seq = popped] /\ work[w] \in Message
      BY <1>1, <1>4, <3>1 DEF Pop
    <3>3. work'[w].seq = popped
      BY <3>2 DEF Message
    <3>4. wpc'[w] = AfterPop /\ popped' = popped + 1
      BY <1>1, <1>4 DEF Pop
    <3>5. Holding(w)'
      BY <3>4 DEF Holding, HoldingStates, AfterPop
    <3> QED
      BY <3>3, <3>4, <3>5
  <2>2. \A v \in Workers : Holding(v)' =>
          \/ v = w
          \/ v # w /\ Holding(v) /\ work'[v] = work[v] /\ work[v].seq < popped
    BY <1>3 DEF Holding, BoundInv
  <2>3. /\ \A i \in 1..Len(channel) : channel[i].seq \in Nat
        /\ \A i \in 1..Len(channel) : channel[i].seq < popped
        /\ \A k \in 1..Len(consumed) : consumed[k] \in Nat
        /\ \A k \in 1..Len(consumed) : consumed[k] < popped
        /\ \A c \in pending : c \in Nat
        /\ \A c \in pending : c < popped
        /\ cpc = "consume" => current.seq \in Nat /\ current.seq < popped
    BY StateTypes DEF BoundInv
  <2>4. \A v \in Workers : work[v].seq \in Nat
    BY <1>1, MessageFields
  <2>5. PhaseInv'
    BY <1>1, <1>2, <1>3, <2>1 DEF PhaseInv, InLoop, AfterPop
  <2>6. BoundInv'
    <3>1. popped' <= num_chunks'
      BY <1>1, <1>2, <1>4, <2>1
    <3>2. \A v \in Workers : Holding(v)' => work'[v].seq < popped'
      BY <1>1, <2>1, <2>2, <2>4
    <3>3. /\ \A i \in 1..Len(channel') : channel'[i].seq < popped'
          /\ \A k \in 1..Len(consumed') : consumed'[k] < popped'
      <4>1. \A m \in Nat : m < popped => m < popped'
        BY <1>1, <2>1
      <4>2. \A i \in 1..Len(channel) : channel[i].seq < popped'
        BY <2>3, <4>1
      <4>3. \A k \in 1..Len(consumed) : consumed[k] < popped'
        BY <2>3, <4>1
      <4> QED
        BY <1>2, <4>2, <4>3
    <3>4. /\ \A c \in pending' : c < popped'
          /\ cpc' = "consume" => current'.seq < popped'
      BY <1>1, <1>2, <2>1, <2>3
    <3> QED
      BY <3>1, <3>2, <3>3, <3>4 DEF BoundInv
  <2>7. FileInv'
    BY <1>2, <1>3, <2>1 DEF FileInv, AfterPop
  <2>8. DataInv'
    BY <1>2, <1>3, <2>1
    DEF DataInv, OwnBytes, ChannelData, PendingData, CurrentData, AfterPop
  <2>9. UniqueInv'
    <3>1. HeldOnce'
      BY <2>1, <2>2, <2>4 DEF UniqueInv, HeldOnce
    <3>2. HeldApart'
      BY <1>2, <2>1, <2>2, <2>3 DEF UniqueInv, HeldApart
    <3>3. CurrentApart'
      BY <1>2, <2>1, <2>2, <2>3 DEF UniqueInv, CurrentApart
    <3> QED
      BY <1>2, <3>1, <3>2, <3>3
      DEF UniqueInv, SentOnce, ConsumedOnce, SentApart, ConsumedApart
  <2>10. OrderInv'
    BY <1>2 DEF OrderInv
  <2>11. WindowInv'
    <3>1. \A v \in Workers : Ordered /\ Loaded(v)' => v # w /\ Loaded(v)
      BY <1>3, <2>1 DEF Loaded, AfterPop
    <3> QED
      BY <1>2, <1>3, <3>1 DEF WindowInv
  <2>12. CoverInv'
    <3>1. ASSUME NEW c, Located(c) PROVE Located(c)'
      <4>1. CASE \E v \in Workers : Holding(v) /\ work[v].seq = c
        <5>1. PICK v \in Workers : Holding(v) /\ work[v].seq = c
          BY <4>1
        <5>2. v # w /\ Holding(v)' /\ work'[v].seq = c
          BY <1>1, <1>3, <5>1 DEF Holding
        <5> QED
          BY <5>2 DEF Located
      <4> QED
        BY <1>2, <3>1, <4>1 DEF Located
    <3>2. ASSUME NEW c, c = popped PROVE Located(c)'
      BY <2>1, <3>2 DEF Located
    <3>3. result' = "none" => \A c \in 0..(popped' - 1) : Located(c)'
      BY <1>1, <1>2, <2>1, <3>1, <3>2 DEF CoverInv
    <3>4. \A v \in Workers : wpc'[v] = "exited" => wpc[v] = "exited" /\ v # w
      BY <1>3, <2>1 DEF AfterPop
    <3>5. result' = "none" =>
            \A v \in Workers : wpc'[v] = "exited" =>
              popped' = num_chunks' \/ \E i \in 1..Len(channel') : ~channel'[i].ok
      BY <1>1, <1>2, <1>4, <3>4 DEF CoverInv
    <3> QED
      BY <1>2, <3>3, <3>5 DEF CoverInv, OkMeansComplete, Chunks
  <2> QED
    BY <2>5, <2>6, <2>7, <2>8, <2>9, <2>10, <2>11, <2>12
<1>5. CASE ~(popped < num_chunks)
  <2>1. /\ popped' = popped /\ work' = work
        /\ wpc'[w] = "exited" /\ ~Holding(w)' /\ ~Loaded(w)'
    BY <1>1, <1>5 DEF Pop, Holding, Loaded, HoldingStates
  <2>2. \A v \in Workers : (Holding(v)' <=> Holding(v)) /\ (Loaded(v)' => Loaded(v))
    BY <1>1, <1>3, <2>1 DEF Holding, Loaded
  <2>3. PhaseInv'
    BY <1>1, <1>2, <1>3, <2>1 DEF PhaseInv, InLoop
  <2>4. BoundInv' /\ OrderInv'
    BY <1>2, <2>1, <2>2 DEF BoundInv, OrderInv
  <2>5. FileInv' /\ DataInv'
    BY <1>2, <1>3, <2>1
    DEF FileInv, DataInv, OwnBytes, ChannelData, PendingData, CurrentData
  <2>6. UniqueInv'
    BY <1>2, <2>1, <2>2
    DEF UniqueInv, HeldOnce, SentOnce, ConsumedOnce, HeldApart, SentApart,
        ConsumedApart, CurrentApart
  <2>7. WindowInv'
    BY <1>2, <2>1, <2>2 DEF WindowInv
  <2>8. CoverInv'
    BY <1>1, <1>2, <1>5, <2>1, <2>2
    DEF CoverInv, Located, OkMeansComplete, Chunks
  <2> QED
    BY <2>3, <2>4, <2>5, <2>6, <2>7, <2>8
<1> QED
  BY <1>4, <1>5

(* What a worker does with the chunk it holds, short of sending it, moves   *)
(* nothing and leaves only its own bytes and place in the window to check.  *)
LEMMA HoldStepKeeps ==
  ASSUME IInv, TypeOK', NEW w \in Workers, Holding(w),
         \A v \in Workers : v # w => wpc'[v] = wpc[v] /\ work'[v] = work[v],
         work'[w].seq = work[w].seq,
         Holding(w)' \/ (wpc'[w] = "exited" /\ result # "none"),
         UNCHANGED <<num_chunks, popped, channel, receiver_alive,
                     dispatch_some, dispatch_next, cpc, current, pending,
                     pending_batch, next_seq, reorder_bytes, consumed, result>>
  PROVE  /\ PhaseInv' /\ BoundInv' /\ UniqueInv' /\ OrderInv' /\ CoverInv'
         /\ ChannelData' /\ PendingData' /\ CurrentData'
         /\ (Ordered /\ Loaded(w)' => work[w].seq <= dispatch_next + max_reorder)
              => WindowInv'
<1> USE DEF IInv
<1>1. \A v \in Workers : Holding(v)' => Holding(v) /\ work'[v].seq = work[v].seq
  BY DEF Holding
<1>2. wpc[w] # "unborn" /\ wpc'[w] # "unborn"
  BY DEF Holding, HoldingStates
<1>3. PhaseInv'
  BY <1>2 DEF PhaseInv, InLoop
<1>4. BoundInv' /\ OrderInv'
  BY <1>1 DEF BoundInv, OrderInv
<1>5. UniqueInv'
  BY <1>1
  DEF UniqueInv, HeldOnce, SentOnce, ConsumedOnce, HeldApart, SentApart,
      ConsumedApart, CurrentApart
<1>6. CoverInv'
  <2>1. ASSUME NEW c, Located(c), result = "none" PROVE Located(c)'
    BY <2>1 DEF Located, Holding
  <2>2. wpc'[w] = "exited" => result # "none"
    BY DEF Holding, HoldingStates
  <2> QED
    BY <2>1, <2>2 DEF CoverInv, OkMeansComplete, Chunks
<1>7. ChannelData' /\ PendingData' /\ CurrentData'
  BY DEF DataInv, ChannelData, PendingData, CurrentData
<1>8. (Ordered /\ Loaded(w)' => work[w].seq <= dispatch_next + max_reorder)
        => WindowInv'
  BY DEF WindowInv, Loaded
<1> QED
  BY <1>3, <1>4, <1>5, <1>6, <1>7, <1>8

(* Past the dispatch gate a chunk is within the window of next_seq.         *)
LEMMA GateKeepsInv ==
  ASSUME IInv, TypeOK', NEW w \in Workers, Gate(w)
  PROVE  IInv'
<1> USE DerivedSizes DEF IInv
<1>1. /\ wpc[w] = "gate" /\ Holding(w) /\ work' = work
      /\ \A v \in Workers : v # w => wpc'[v] = wpc[v]
      /\ wpc'[w] = IF MustWait(work[w].seq) THEN "asleep"
                   ELSE IF dispatch_some THEN "load" ELSE "exited"
  BY StateTypes DEF Gate, Holding, HoldingStates
<1>2. UNCHANGED <<num_chunks, popped, file_lock, file_cursor, channel,
                  receiver_alive, dispatch_some, dispatch_next, cpc, current,
                  pending, pending_batch, next_seq, reorder_bytes, consumed,
                  result>>
  BY DEF Gate, chunk_vars, file_vars, channel_vars, dispatch_vars, coord_vars,
         reorder_vars
<1>3. Holding(w)' \/ (wpc'[w] = "exited" /\ result # "none")
  BY <1>1 DEF Holding, HoldingStates, PhaseInv
<1>4. Loaded(w)' => work[w].seq <= dispatch_next + max_reorder
  BY <1>1, StateTypes DEF Loaded, MustWait
<1>5. FileInv' /\ OwnBytes'
  BY <1>1, <1>2 DEF FileInv, DataInv, OwnBytes
<1> QED
  BY <1>1, <1>2, <1>3, <1>4, <1>5, HoldStepKeeps DEF DataInv

(* Seeking, under the file lock, sets the cursor to the worker's own chunk. *)
LEMMA LoadKeepsInv ==
  ASSUME IInv, TypeOK', NEW w \in Workers, Load(w)
  PROVE  IInv'
<1> USE DerivedSizes DEF IInv
<1>1. /\ wpc[w] = "load" /\ Holding(w) /\ Loaded(w)
      /\ \A v \in Workers : v # w => wpc'[v] = wpc[v] /\ work'[v] = work[v]
      /\ wpc'[w] = IF FileBacked THEN "read" ELSE "parse"
      /\ work[w] \in Message
  BY StateTypes DEF Load, Holding, HoldingStates, Loaded
<1>2. UNCHANGED <<num_chunks, popped, channel, receiver_alive, dispatch_some,
                  dispatch_next, cpc, current, pending, pending_batch,
                  next_seq, reorder_bytes, consumed, result>>
  BY DEF Load, chunk_vars, channel_vars, dispatch_vars, coord_vars,
         reorder_vars
<1>3. /\ work'[w].seq = work[w].seq
      /\ ~FileBacked => work'[w].data = work'[w].seq
  <2>1. work'[w] = IF FileBacked THEN work[w]
                   ELSE [work[w] EXCEPT !.data = work[w].seq]
    BY StateTypes DEF Load
  <2> QED
    BY <1>1, <2>1 DEF Message
<1>4. Holding(w)'
  BY <1>1 DEF Holding, HoldingStates
<1>5. FileInv'
  <2>1. CASE FileBacked
    <3>1. file_lock = NoWorker /\ file_lock' = w /\ file_cursor' = work[w].seq
      BY <2>1 DEF Load, FileFree
    <3>2. \A v \in Workers : v # w => wpc'[v] # "read"
      BY <1>1, <3>1 DEF FileInv
    <3> QED
      BY <1>3, <3>1, <3>2 DEF FileInv
  <2>2. CASE ~FileBacked
    BY <1>1, <2>2 DEF Load, FileInv, file_vars
  <2> QED
    BY <2>1, <2>2
<1>6. OwnBytes'
  BY <1>1, <1>3 DEF DataInv, OwnBytes
<1>7. Ordered => work[w].seq <= dispatch_next + max_reorder
  BY <1>1 DEF WindowInv
<1> QED
  BY <1>1, <1>2, <1>3, <1>4, <1>5, <1>6, <1>7, HoldStepKeeps DEF DataInv

(* Reading under the lock yields the bytes the same worker sought.          *)
LEMMA ReadKeepsInv ==
  ASSUME IInv, TypeOK', NEW w \in Workers, Read(w)
  PROVE  IInv'
<1> USE DerivedSizes DEF IInv
<1>1. /\ wpc[w] = "read" /\ Holding(w) /\ Loaded(w) /\ wpc'[w] = "parse"
      /\ \A v \in Workers : v # w => wpc'[v] = wpc[v] /\ work'[v] = work[v]
      /\ work[w] \in Message
  BY StateTypes DEF Read, Holding, HoldingStates, Loaded
<1>2. UNCHANGED <<num_chunks, popped, channel, receiver_alive, dispatch_some,
                  dispatch_next, cpc, current, pending, pending_batch,
                  next_seq, reorder_bytes, consumed, result>>
  BY DEF Read, chunk_vars, channel_vars, dispatch_vars, coord_vars,
         reorder_vars
<1>3. work'[w].seq = work[w].seq /\ work'[w].data = work'[w].seq
  <2>1. work'[w] = [work[w] EXCEPT !.data = file_cursor]
    BY StateTypes DEF Read
  <2>2. file_cursor = work[w].seq
    BY <1>1 DEF FileInv
  <2> QED
    BY <1>1, <2>1, <2>2 DEF Message
<1>4. Holding(w)'
  BY <1>1 DEF Holding, HoldingStates
<1>5. FileInv'
  <2>1. \A v \in Workers : v # w => wpc[v] # "read"
    BY <1>1 DEF FileInv
  <2> QED
    BY <1>1, <2>1 DEF FileInv
<1>6. OwnBytes'
  BY <1>1, <1>3 DEF DataInv, OwnBytes
<1>7. Ordered => work[w].seq <= dispatch_next + max_reorder
  BY <1>1 DEF WindowInv
<1> QED
  BY <1>1, <1>2, <1>3, <1>4, <1>5, <1>6, <1>7, HoldStepKeeps DEF DataInv

(* Parsing keeps the chunk and its bytes; only the batch's size is new.     *)
LEMMA ParseKeepsInv ==
  ASSUME IInv, TypeOK', NEW w \in Workers, NEW size \in BatchSizes,
         Parse(w, size)
  PROVE  IInv'
<1> USE DerivedSizes DEF IInv
<1>1. /\ wpc[w] = "parse" /\ Holding(w) /\ Loaded(w) /\ wpc'[w] = "send"
      /\ \A v \in Workers : v # w => wpc'[v] = wpc[v] /\ work'[v] = work[v]
      /\ work[w] \in Message
  BY StateTypes DEF Parse, Holding, HoldingStates, Loaded
<1>2. UNCHANGED <<num_chunks, popped, file_lock, file_cursor, channel,
                  receiver_alive, dispatch_some, dispatch_next, cpc, current,
                  pending, pending_batch, next_seq, reorder_bytes, consumed,
                  result>>
  BY DEF Parse, chunk_vars, file_vars, channel_vars, dispatch_vars, coord_vars,
         reorder_vars
<1>3. work'[w].seq = work[w].seq /\ work'[w].data = work[w].data
  <2>1. work'[w] = [work[w] EXCEPT !.ok = BatchAccepted(size),
                      !.size = IF BatchAccepted(size) THEN size ELSE 0]
    BY StateTypes DEF Parse
  <2> QED
    BY <1>1, <2>1 DEF Message
<1>4. Holding(w)'
  BY <1>1 DEF Holding, HoldingStates
<1>5. FileInv'
  BY <1>1, <1>2 DEF FileInv
<1>6. OwnBytes'
  BY <1>1, <1>3 DEF DataInv, OwnBytes
<1>7. Ordered => work[w].seq <= dispatch_next + max_reorder
  BY <1>1 DEF WindowInv
<1> QED
  BY <1>1, <1>2, <1>3, <1>4, <1>5, <1>6, <1>7, HoldStepKeeps DEF DataInv

(* A chunk that fails keeps its number and turns into an error message.     *)
LEMMA ChunkFailsKeepsInv ==
  ASSUME IInv, TypeOK', NEW w \in Workers, ChunkFails(w)
  PROVE  IInv'
<1> USE DerivedSizes DEF IInv
<1>1. /\ wpc[w] \in {"load", "read", "parse"} /\ Holding(w) /\ Loaded(w)
      /\ wpc'[w] = "send"
      /\ \A v \in Workers : v # w => wpc'[v] = wpc[v] /\ work'[v] = work[v]
      /\ work[w] \in Message
  BY StateTypes DEF ChunkFails, Holding, HoldingStates, Loaded
<1>2. UNCHANGED <<num_chunks, popped, file_cursor, channel, receiver_alive,
                  dispatch_some, dispatch_next, cpc, current, pending,
                  pending_batch, next_seq, reorder_bytes, consumed, result>>
  BY DEF ChunkFails, chunk_vars, channel_vars, dispatch_vars, coord_vars,
         reorder_vars
<1>3. Holding(w)'
  BY <1>1 DEF Holding, HoldingStates
<1>4. work'[w].seq = work[w].seq /\ work'[w].ok = FALSE
  <2>1. work'[w] = [work[w] EXCEPT !.ok = FALSE]
    BY StateTypes DEF ChunkFails
  <2> QED
    BY <1>1, <2>1 DEF Message
<1>5. FileInv'
  BY <1>1, <1>2 DEF ChunkFails, FileInv
<1>6. OwnBytes'
  BY <1>1, <1>4 DEF DataInv, OwnBytes
<1>7. Ordered => work[w].seq <= dispatch_next + max_reorder
  BY <1>1 DEF WindowInv
<1> QED
  BY <1>1, <1>2, <1>3, <1>4, <1>5, <1>6, <1>7, HoldStepKeeps DEF DataInv

-----------------------------------------------------------------------------
(* Coordinator steps.  Most leave the workers alone or only wake them.      *)

(* Planning either returns at once or starts workers on an untouched queue. *)
LEMMA PlanStepKeepsInv ==
  ASSUME IInv, TypeOK', PlanStep
  PROVE  IInv'
<1> USE DerivedSizes DEF IInv
<1>1. /\ num_chunks = 0 /\ popped = 0 /\ next_seq = 0 /\ dispatch_next = 0
      /\ channel = <<>> /\ consumed = <<>> /\ pending = {}
      /\ \A w \in Workers : wpc[w] = "unborn"
      /\ cpc = "plan" /\ result = "none" /\ dispatch_some /\ receiver_alive
  BY DEF PlanStep, PlanEmpty, PlanChunks, PlanFails, PhaseInv
<1>2. UNCHANGED <<popped, work, file_lock, file_cursor, channel,
                  receiver_alive, dispatch_some, dispatch_next, current,
                  pending, pending_batch, next_seq, reorder_bytes, consumed>>
  BY DEF PlanStep, PlanEmpty, PlanChunks, PlanFails, chunk_vars, worker_vars,
         file_vars, channel_vars, dispatch_vars, reorder_vars
<1>3. /\ num_chunks' \in Nat
      /\ \/ /\ wpc' = wpc /\ num_chunks' = num_chunks
            /\ result' # "none" /\ cpc' \in {"returned", "unwound"}
         \/ /\ \A w \in Workers : wpc'[w] = "pop"
            /\ result' = "none" /\ cpc' = "recv"
  <2>1. CASE PlanEmpty
    BY <1>1, <2>1 DEF PlanEmpty, chunk_vars, worker_vars
  <2>2. CASE PlanFails
    BY <1>1, <2>2 DEF PlanFails, chunk_vars, worker_vars
  <2>3. CASE \E k \in 1..MaxChunks : PlanChunks(k)
    BY <1>1, <2>3 DEF PlanChunks
  <2> QED
    BY <2>1, <2>2, <2>3 DEF PlanStep
<1>4. /\ \A w \in Workers : wpc'[w] \in {"unborn", "pop"}
      /\ \A w \in Workers : ~Holding(w)' /\ ~Loaded(w)'
  BY <1>1, <1>3 DEF Holding, Loaded, HoldingStates
<1>5. Len(channel') = 0 /\ Len(consumed') = 0
  BY <1>1, <1>2
<1>6. PhaseInv'
  BY <1>1, <1>2, <1>3 DEF PhaseInv, InLoop
<1>7. BoundInv'
  BY <1>1, <1>2, <1>3, <1>4, <1>5 DEF BoundInv
<1>8. FileInv' /\ DataInv'
  BY <1>1, <1>2, <1>3, <1>4, <1>5
  DEF FileInv, DataInv, OwnBytes, ChannelData, PendingData, CurrentData
<1>9. UniqueInv'
  BY <1>1, <1>2, <1>3, <1>4, <1>5
  DEF UniqueInv, HeldOnce, SentOnce, ConsumedOnce, HeldApart, SentApart,
      ConsumedApart, CurrentApart
<1>10. OrderInv' /\ WindowInv'
  BY <1>1, <1>2, <1>3, <1>4, <1>5 DEF OrderInv, WindowInv
<1>11. CoverInv'
  <2>1. popped' = 0 /\ 0..(popped' - 1) = {}
    BY <1>1, <1>2
  <2>2. OkMeansComplete'
    BY <1>1, <1>3 DEF OkMeansComplete, Chunks
  <2> QED
    BY <1>4, <2>1, <2>2 DEF CoverInv
<1> QED
  BY <1>6, <1>7, <1>8, <1>9, <1>10, <1>11

(* Taking the first message out of the channel. *)
LEMMA RecvFacts ==
  ASSUME TypeOK, channel # <<>>, channel' = Tail(channel)
  PROVE  /\ 1 \in 1..Len(channel) /\ Head(channel) = channel[1]
         /\ Head(channel) \in Message
         /\ \A i \in 1..Len(channel') :
              i + 1 \in 1..Len(channel) /\ channel'[i] = channel[i + 1]
                /\ i + 1 # 1
         /\ \A j \in 1..Len(channel) :
              j # 1 => j - 1 \in 1..Len(channel') /\ channel'[j - 1] = channel[j]
<1>1. channel \in Seq(Message)
  BY DEF TypeOK
<1>2. Len(channel') = Len(channel) - 1 /\ Len(channel) \in Nat
  BY <1>1, ChannelHead
<1>3. \A i \in 1..Len(channel') : channel'[i] = channel[i + 1]
  BY <1>1, ChannelHead
<1> QED
  BY <1>1, <1>2, <1>3, ChannelHead

(* No chunk is sent twice in what remains of the channel.                   *)
LEMMA SentOnceTail ==
  ASSUME TypeOK, SentOnce, channel # <<>>, channel' = Tail(channel)
  PROVE  SentOnce'
<1>1. \A i \in 1..Len(channel') :
        i \in Int /\ i + 1 \in 1..Len(channel) /\ channel'[i] = channel[i + 1]
  BY RecvFacts
<1>2. ASSUME NEW i \in 1..Len(channel'), NEW j \in 1..Len(channel'),
             channel'[i].seq = channel'[j].seq
      PROVE  i = j
  <2>1. i + 1 = j + 1
    BY ONLY <1>1, <1>2, SentOnce DEF SentOnce
  <2> QED
    BY <1>1, <2>1
<1> QED
  BY <1>2 DEF SentOnce

(* The first error received ends the loop with that error.                  *)
LEMMA RecvErrorKeepsInv ==
  ASSUME IInv, TypeOK', RecvError
  PROVE  IInv'
<1> USE DerivedSizes DEF IInv
<1>1. UNCHANGED <<num_chunks, popped, wpc, work, file_lock, file_cursor,
                  receiver_alive, dispatch_some, dispatch_next, current,
                  pending, pending_batch, next_seq, reorder_bytes, consumed>>
  BY DEF RecvError, chunk_vars, worker_vars, file_vars, dispatch_vars,
         reorder_vars
<1>2. cpc = "recv" /\ cpc' = "hangup" /\ result' = "worker_err"
  BY DEF RecvError, Leave
<1>3. \A i \in 1..Len(channel') :
        i + 1 \in 1..Len(channel) /\ channel'[i] = channel[i + 1]
  BY RecvFacts DEF RecvError
<1>4. \A w \in Workers : (Holding(w)' <=> Holding(w)) /\ (Loaded(w)' <=> Loaded(w))
  BY <1>1 DEF Holding, Loaded
<1>5. PhaseInv'
  BY <1>1, <1>2 DEF PhaseInv, InLoop
<1>6. BoundInv'
  BY <1>1, <1>2, <1>3, <1>4 DEF BoundInv
<1>7. FileInv' /\ DataInv'
  BY <1>1, <1>2, <1>3
  DEF FileInv, DataInv, OwnBytes, ChannelData, PendingData, CurrentData
<1>8. UniqueInv'
  BY <1>1, <1>2, <1>3, <1>4
  DEF UniqueInv, HeldOnce, SentOnce, ConsumedOnce, HeldApart, SentApart,
      ConsumedApart, CurrentApart
<1>9. OrderInv' /\ WindowInv'
  BY <1>1, <1>2, <1>3, <1>4 DEF OrderInv, WindowInv
<1>10. CoverInv'
  BY <1>1, <1>2 DEF CoverInv, OkMeansComplete
<1> QED
  BY <1>5, <1>6, <1>7, <1>8, <1>9, <1>10

(* The batch received is the next one, so it may go to the consumer.        *)
LEMMA RecvDeliverKeepsInv ==
  ASSUME IInv, TypeOK', RecvDeliver
  PROVE  IInv'
<1> USE DerivedSizes DEF IInv
<1>1. UNCHANGED <<num_chunks, popped, wpc, work, file_lock, file_cursor,
                  receiver_alive, dispatch_some, dispatch_next, pending,
                  pending_batch, next_seq, reorder_bytes, consumed, result>>
  BY DEF RecvDeliver, chunk_vars, worker_vars, file_vars, dispatch_vars,
         reorder_vars
<1>2. /\ cpc = "recv" /\ cpc' = "consume" /\ current' = channel[1]
      /\ 1 \in 1..Len(channel) /\ channel[1].ok
      /\ Ordered => channel[1].seq = next_seq
  BY RecvFacts DEF RecvDeliver, Deliverable
<1>3. /\ \A i \in 1..Len(channel') :
           i + 1 \in 1..Len(channel) /\ channel'[i] = channel[i + 1] /\ i + 1 # 1
      /\ \A j \in 1..Len(channel) :
           j # 1 => j - 1 \in 1..Len(channel') /\ channel'[j - 1] = channel[j]
  BY RecvFacts DEF RecvDeliver
<1>4. \A w \in Workers : (Holding(w)' <=> Holding(w)) /\ (Loaded(w)' <=> Loaded(w))
  BY <1>1 DEF Holding, Loaded
<1>5. PhaseInv'
  BY <1>1, <1>2 DEF PhaseInv, InLoop
<1>6. BoundInv'
  BY <1>1, <1>2, <1>3, <1>4 DEF BoundInv
<1>7. FileInv' /\ DataInv'
  BY <1>1, <1>2, <1>3
  DEF FileInv, DataInv, OwnBytes, ChannelData, PendingData, CurrentData
<1>8. UniqueInv'
  <2>0. \A i \in 1..Len(channel') :
          i + 1 \in 1..Len(channel) /\ channel'[i] = channel[i + 1] /\ i + 1 # 1
    BY ONLY <1>3
  <2>1. HeldOnce' /\ ConsumedOnce' /\ ConsumedApart'
    BY <1>1, <1>4 DEF UniqueInv, HeldOnce, ConsumedOnce, ConsumedApart
  <2>2. SentOnce'
    BY SentOnceTail DEF RecvDeliver, UniqueInv
  <2>3. HeldApart' /\ SentApart'
    <3>1. HeldApart'
      BY ONLY <1>1, <2>0, <1>4, UniqueInv DEF UniqueInv, HeldApart
    <3>2. SentApart'
      BY ONLY <1>1, <2>0, UniqueInv DEF UniqueInv, SentApart
    <3> QED
      BY <3>1, <3>2
  <2>4. CurrentApart'
    <3>1. \A i \in 1..Len(channel') : channel'[i].seq # channel[1].seq
      BY ONLY <1>2, <2>0, UniqueInv DEF UniqueInv, SentOnce
    <3> QED
      BY ONLY <1>1, <1>2, <1>4, <3>1, UniqueInv
      DEF UniqueInv, HeldApart, SentApart, CurrentApart
  <2> QED
    BY <2>1, <2>2, <2>3, <2>4 DEF UniqueInv
<1>9. OrderInv' /\ WindowInv'
  BY <1>1, <1>2, <1>3, <1>4 DEF OrderInv, WindowInv
<1>10. CoverInv'
  <2>1. ASSUME NEW c, Located(c) PROVE Located(c)'
    <3>1. CASE \E i \in 1..Len(channel) : channel[i].seq = c
      BY <1>2, <1>3, <3>1 DEF Located
    <3> QED
      BY <1>1, <1>2, <1>4, <2>1, <3>1 DEF Located
  <2>2. ASSUME NEW j \in 1..Len(channel), ~channel[j].ok
        PROVE  \E i \in 1..Len(channel') : ~channel'[i].ok
    BY <1>2, <1>3, <2>2
  <2> QED
    BY <1>1, <2>1, <2>2 DEF CoverInv, OkMeansComplete, Chunks
<1> QED
  BY <1>5, <1>6, <1>7, <1>8, <1>9, <1>10

(* A batch from further ahead enters the reorder buffer, which stays within *)
(* the window, or ends the run when a strict budget is exceeded.            *)
LEMMA RecvBufferKeepsInv ==
  ASSUME IInv, TypeOK', RecvBuffer
  PROVE  IInv'
<1> USE DerivedSizes DEF IInv
<1>1. UNCHANGED <<num_chunks, popped, wpc, work, file_lock, file_cursor,
                  receiver_alive, dispatch_some, dispatch_next, current,
                  next_seq, consumed>>
  BY DEF RecvBuffer, chunk_vars, worker_vars, file_vars, dispatch_vars
<1>2. /\ cpc = "recv" /\ Ordered
      /\ 1 \in 1..Len(channel) /\ channel[1].ok /\ channel[1].seq # next_seq
      /\ channel[1].seq \in 0..MaxChunks
  BY RecvFacts, MessageFields DEF RecvBuffer, Deliverable
<1>3. /\ \A i \in 1..Len(channel') :
           i + 1 \in 1..Len(channel) /\ channel'[i] = channel[i + 1] /\ i + 1 # 1
      /\ \A j \in 1..Len(channel) :
           j # 1 => j - 1 \in 1..Len(channel') /\ channel'[j - 1] = channel[j]
  BY RecvFacts DEF RecvBuffer
<1>4. \/ /\ cpc' = "hangup" /\ result' = "reorder_err"
         /\ UNCHANGED <<pending, pending_batch>>
      \/ /\ cpc' = cpc /\ result' = result
         /\ pending' = pending \cup {channel[1].seq}
         /\ pending_batch' = [pending_batch EXCEPT ![channel[1].seq] = channel[1]]
  BY RecvFacts DEF RecvBuffer, Leave
<1>5. \A w \in Workers : (Holding(w)' <=> Holding(w)) /\ (Loaded(w)' <=> Loaded(w))
  BY <1>1 DEF Holding, Loaded
<1>6. \A c \in pending' : c \in pending \/ c = channel[1].seq
  BY <1>4
<1>7. PhaseInv'
  BY <1>1, <1>2, <1>4 DEF PhaseInv, InLoop
<1>8. BoundInv'
  BY <1>1, <1>2, <1>3, <1>4, <1>5, <1>6 DEF BoundInv
<1>9. FileInv' /\ OwnBytes' /\ ChannelData' /\ CurrentData'
  <2>1. FileInv' /\ OwnBytes'
    BY <1>1 DEF FileInv, DataInv, OwnBytes
  <2>2. ChannelData'
    BY <1>3 DEF DataInv, ChannelData
  <2>3. CurrentData'
    BY <1>2, <1>4 DEF CurrentData
  <2> QED
    BY <2>1, <2>2, <2>3
<1>10. PendingData'
  <2>1. pending_batch \in [0..MaxChunks -> Message] /\ pending \subseteq 0..MaxChunks
    BY DEF TypeOK
  <2>2. channel[1].data = channel[1].seq
    BY <1>2 DEF DataInv, ChannelData
  <2>3. CASE pending' = pending /\ pending_batch' = pending_batch
    BY <2>3 DEF DataInv, PendingData
  <2>4. CASE /\ pending' = pending \cup {channel[1].seq}
             /\ pending_batch' = [pending_batch EXCEPT ![channel[1].seq] = channel[1]]
    <3>1. pending_batch'[channel[1].seq] = channel[1]
      BY <1>2, <2>1, <2>4
    <3>2. \A c \in pending : c # channel[1].seq => pending_batch'[c] = pending_batch[c]
      BY <2>1, <2>4
    <3> QED
      BY <2>2, <2>4, <3>1, <3>2 DEF DataInv, PendingData
  <2> QED
    BY <1>4, <2>3, <2>4
<1>11. UniqueInv'
  <2>1. HeldOnce' /\ ConsumedOnce'
    BY <1>1, <1>5 DEF UniqueInv, HeldOnce, ConsumedOnce
  <2>2. SentOnce'
    BY SentOnceTail DEF RecvBuffer, UniqueInv
  <2>3. HeldApart'
    <3>1. ASSUME NEW w \in Workers, Holding(w)
          PROVE  ~(work[w].seq \in pending')
      <4>1. work[w].seq # channel[1].seq /\ work[w].seq \notin pending
        BY <1>2, <3>1 DEF UniqueInv, HeldApart
      <4> QED
        BY <1>6, <4>1
    <3>2. ASSUME NEW w \in Workers, Holding(w), NEW i \in 1..Len(channel')
          PROVE  channel'[i].seq # work[w].seq
      <4>1. i + 1 \in 1..Len(channel) /\ channel'[i] = channel[i + 1]
        BY <1>3
      <4> QED
        BY <3>2, <4>1 DEF UniqueInv, HeldApart
    <3> QED
      BY <1>1, <1>5, <3>1, <3>2 DEF UniqueInv, HeldApart
  <2>4. SentApart'
    <3>1. \A i \in 1..Len(channel') :
            i + 1 \in 1..Len(channel) /\ channel'[i] = channel[i + 1] /\ i + 1 # 1
      BY ONLY <1>3
    <3> QED
      BY ONLY <1>1, <1>2, <1>6, <3>1, UniqueInv DEF UniqueInv, SentOnce, SentApart
  <2>5. ConsumedApart'
    BY ONLY <1>1, <1>2, <1>6, UniqueInv DEF UniqueInv, SentApart, ConsumedApart
  <2>6. CurrentApart'
    BY <1>2, <1>4 DEF CurrentApart
  <2> QED
    BY <2>1, <2>2, <2>3, <2>4, <2>5, <2>6 DEF UniqueInv
<1>12. next_seq < channel[1].seq
  <2>1. ASSUME channel[1].seq < next_seq PROVE FALSE
    <3>1. channel[1].seq + 1 \in 1..Len(consumed)
      BY <1>2, <2>1, StateTypes DEF OrderInv
    <3>2. consumed[channel[1].seq + 1] = channel[1].seq
      BY <1>2, <3>1 DEF OrderInv
    <3> QED
      BY <1>2, <3>1, <3>2 DEF UniqueInv, SentApart
  <2> QED
    BY <1>2, <2>1, StateTypes
<1>13. OrderInv' /\ WindowInv'
  <2>1. OrderInv'
    BY <1>1, <1>2, <1>4, <1>6 DEF OrderInv
  <2>2. channel[1].seq \in Nat /\ dispatch_next < channel[1].seq
        /\ channel[1].seq <= dispatch_next + max_reorder
    BY <1>2, <1>12, StateTypes DEF WindowInv
  <2>3. WindowInv'
    BY <1>1, <1>3, <1>5, <1>6, <2>2 DEF WindowInv
  <2> QED
    BY <2>1, <2>3
<1>14. CoverInv'
  <2>1. ASSUME NEW c, Located(c), result' = "none" PROVE Located(c)'
    <3>1. CASE \E i \in 1..Len(channel) : channel[i].seq = c
      BY <1>2, <1>3, <1>4, <2>1, <3>1 DEF Located
    <3> QED
      BY <1>1, <1>2, <1>4, <1>5, <2>1, <3>1 DEF Located
  <2>2. ASSUME NEW j \in 1..Len(channel), ~channel[j].ok
        PROVE  \E i \in 1..Len(channel') : ~channel'[i].ok
    BY <1>2, <1>3, <2>2
  <2>3. result' # "ok" /\ (result' = "none" => result = "none")
    BY <1>2, <1>4 DEF PhaseInv, InLoop
  <2> QED
    BY <1>1, <2>1, <2>2, <2>3 DEF CoverInv, OkMeansComplete
<1> QED
  BY <1>7, <1>8, <1>9, <1>10, <1>11, <1>13, <1>14 DEF DataInv

(* The consumer accepts the batch in hand: it joins the delivered prefix.   *)
LEMMA ConsumeOkKeepsInv ==
  ASSUME IInv, TypeOK', ConsumeOk
  PROVE  IInv'
<1> USE DerivedSizes, ChunksAssumption DEF IInv
<1>1. UNCHANGED <<num_chunks, popped, wpc, work, file_lock, file_cursor,
                  channel, receiver_alive, dispatch_some, dispatch_next,
                  pending, pending_batch, reorder_bytes, result>>
  BY DEF ConsumeOk, chunk_vars, worker_vars, file_vars, channel_vars,
         dispatch_vars, reorder_vars
<1>2. /\ cpc = "consume"
      /\ cpc' = IF Ordered THEN "drain" ELSE "recv"
      /\ next_seq' = IF Ordered THEN next_seq + 1 ELSE next_seq
      /\ current.data = current.seq
  BY DEF ConsumeOk, DataInv, CurrentData
<1>3. /\ Len(consumed') = Len(consumed) + 1
      /\ \A k \in 1..Len(consumed) : consumed'[k] = consumed[k]
      /\ consumed'[Len(consumed) + 1] = current.seq
  <2>1. consumed \in Seq(0..MaxChunks) /\ current.data \in 0..MaxChunks
    BY MessageFields DEF TypeOK
  <2> QED
    BY <1>2, <2>1, AppendProperties DEF ConsumeOk
<1>4. \A k \in 1..Len(consumed') :
        \/ k \in 1..Len(consumed) /\ consumed'[k] = consumed[k]
        \/ k = Len(consumed) + 1 /\ consumed'[k] = current.seq
  BY <1>3, StateTypes
<1>5. \A w \in Workers : (Holding(w)' <=> Holding(w)) /\ (Loaded(w)' <=> Loaded(w))
  BY <1>1 DEF Holding, Loaded
<1>6. PhaseInv'
  BY <1>1, <1>2 DEF PhaseInv, InLoop
<1>7. BoundInv'
  BY <1>1, <1>2, <1>4, <1>5 DEF BoundInv
<1>8. FileInv' /\ DataInv'
  BY <1>1, <1>2
  DEF FileInv, DataInv, OwnBytes, ChannelData, PendingData, CurrentData
<1>9. UniqueInv'
  <2>1. HeldOnce' /\ SentOnce'
    BY <1>1, <1>5 DEF UniqueInv, HeldOnce, SentOnce
  <2>2. ConsumedOnce'
    BY <1>2, <1>4 DEF UniqueInv, ConsumedOnce, CurrentApart
  <2>3. HeldApart'
    BY <1>1, <1>2, <1>4, <1>5 DEF UniqueInv, HeldApart, CurrentApart
  <2>4. SentApart' /\ ConsumedApart'
    BY <1>1, <1>2, <1>4 DEF UniqueInv, SentApart, ConsumedApart, CurrentApart
  <2>5. CurrentApart'
    BY <1>2 DEF CurrentApart
  <2> QED
    BY <2>1, <2>2, <2>3, <2>4, <2>5 DEF UniqueInv
<1>10. OrderInv'
  BY <1>1, <1>2, <1>3, <1>4, StateTypes DEF OrderInv
<1>11. WindowInv'
  BY <1>1, <1>2, <1>5, StateTypes DEF WindowInv
<1>12. CoverInv'
  <2>1. ASSUME NEW c, Located(c) PROVE Located(c)'
    <3>1. CASE current.seq = c
      <4>1. \E k \in 1..Len(consumed') : consumed'[k] = c
        <5>1. Len(consumed) + 1 \in 1..Len(consumed')
          BY <1>3, StateTypes
        <5> QED
          BY <1>3, <3>1, <5>1
      <4> QED
        BY <4>1 DEF Located
    <3>2. CASE \E k \in 1..Len(consumed) : consumed[k] = c
      BY <1>3, <3>2, StateTypes DEF Located
    <3> QED
      BY <1>1, <1>5, <2>1, <3>1, <3>2 DEF Located
  <2>2. result # "ok"
    BY <1>2 DEF PhaseInv, InLoop
  <2> QED
    BY <1>1, <2>1, <2>2 DEF CoverInv, OkMeansComplete
<1> QED
  BY <1>6, <1>7, <1>8, <1>9, <1>10, <1>11, <1>12

(* The next batch comes out of the reorder buffer, or there is none.        *)
LEMMA DrainKeepsInv ==
  ASSUME IInv, TypeOK', Drain
  PROVE  IInv'
<1> USE DerivedSizes DEF IInv
<1>1. UNCHANGED <<num_chunks, popped, wpc, work, file_lock, file_cursor,
                  channel, receiver_alive, dispatch_some, dispatch_next,
                  next_seq, consumed, result>>
  BY DEF Drain, chunk_vars, worker_vars, file_vars, channel_vars,
         dispatch_vars
<1>2. cpc = "drain" /\ Ordered
  BY DEF Drain, PhaseInv
<1>3. \A w \in Workers : (Holding(w)' <=> Holding(w)) /\ (Loaded(w)' <=> Loaded(w))
  BY <1>1 DEF Holding, Loaded
<1>4. PhaseInv'
  BY <1>1, <1>2 DEF Drain, PhaseInv, InLoop
<1>5. pending' \subseteq pending
  BY DEF Drain, reorder_vars
<1>6. WindowInv'
  BY <1>1, <1>3, <1>5 DEF WindowInv
<1>7. CASE next_seq \in pending
  <2>1. /\ pending' = pending \ {next_seq} /\ cpc' = "consume"
        /\ current' = pending_batch[next_seq]
        /\ current'.seq = next_seq /\ current'.data = next_seq
    BY <1>7 DEF Drain, DataInv, PendingData
  <2>2. pending_batch \in [0..MaxChunks -> Message] /\ pending \subseteq 0..MaxChunks
    BY DEF TypeOK
  <2>3. \A c \in pending' : c \in pending /\ pending_batch'[c] = pending_batch[c]
    BY <1>7, <2>1, <2>2 DEF Drain
  <2>4. BoundInv'
    BY <1>1, <1>3, <1>7, <2>1 DEF BoundInv
  <2>5. FileInv' /\ OwnBytes' /\ ChannelData' /\ CurrentData'
    BY <1>1, <2>1 DEF FileInv, DataInv, OwnBytes, ChannelData, CurrentData
  <2>6. PendingData'
    BY <2>3 DEF DataInv, PendingData
  <2>7. UniqueInv'
    BY <1>1, <1>3, <1>5, <1>7, <2>1
    DEF UniqueInv, HeldOnce, SentOnce, ConsumedOnce, HeldApart, SentApart,
        ConsumedApart, CurrentApart
  <2>8. OrderInv'
    BY <1>1, <1>2, <2>1 DEF OrderInv
  <2>9. CoverInv'
    <3>1. ASSUME NEW c, Located(c) PROVE Located(c)'
      BY <1>1, <1>2, <1>3, <2>1, <3>1 DEF Located
    <3> QED
      BY <1>1, <3>1 DEF CoverInv, OkMeansComplete, Chunks
  <2> QED
    BY <1>4, <1>6, <2>4, <2>5, <2>6, <2>7, <2>8, <2>9 DEF DataInv
<1>8. CASE next_seq \notin pending
  <2>1. /\ UNCHANGED <<pending, pending_batch, current>> /\ cpc' = "publish"
    BY <1>8 DEF Drain, reorder_vars
  <2>2. BoundInv' /\ OrderInv'
    BY <1>1, <1>3, <1>8, <2>1 DEF BoundInv, OrderInv
  <2>3. FileInv' /\ DataInv'
    BY <1>1, <2>1
    DEF FileInv, DataInv, OwnBytes, ChannelData, PendingData, CurrentData
  <2>4. UniqueInv'
    BY <1>1, <1>3, <2>1
    DEF UniqueInv, HeldOnce, SentOnce, ConsumedOnce, HeldApart, SentApart,
        ConsumedApart, CurrentApart
  <2>5. CoverInv'
    BY <1>1, <1>2, <1>3, <2>1 DEF CoverInv, Located, OkMeansComplete, Chunks
  <2> QED
    BY <1>4, <1>6, <2>2, <2>3, <2>4, <2>5
<1> QED
  BY <1>7, <1>8

(* Steps of the coordinator that move no batch: they may wake sleepers,     *)
(* drop what is left in the channel, and forget the batch in hand.          *)
LEMMA QuietStepKeeps ==
  ASSUME IInv, TypeOK', cpc' # "consume",
         UNCHANGED <<num_chunks, popped, work, file_lock, file_cursor,
                     pending, pending_batch, next_seq, consumed>>,
         wpc' = wpc \/ notify_all,
         channel' = channel \/ channel' = <<>>
  PROVE  /\ BoundInv' /\ FileInv' /\ DataInv' /\ UniqueInv'
         /\ \A w \in Workers :
              /\ Holding(w)' <=> Holding(w)
              /\ Loaded(w)' <=> Loaded(w)
              /\ wpc'[w] = "exited" <=> wpc[w] = "exited"
              /\ wpc'[w] = "unborn" <=> wpc[w] = "unborn"
         /\ dispatch_next' = dispatch_next => WindowInv'
<1> USE DerivedSizes DEF IInv
<1>1. \A w \in Workers :
        \/ wpc'[w] = wpc[w]
        \/ wpc[w] = "asleep" /\ wpc'[w] = "gate"
  BY DEF notify_all
<1>2. \A w \in Workers :
        /\ Holding(w)' <=> Holding(w)
        /\ Loaded(w)' <=> Loaded(w)
        /\ wpc'[w] = "exited" <=> wpc[w] = "exited"
        /\ wpc'[w] = "unborn" <=> wpc[w] = "unborn"
        /\ wpc'[w] = "read" => wpc[w] = "read"
        /\ wpc'[w] = "parse" => wpc[w] = "parse"
        /\ wpc'[w] = "send" => wpc[w] = "send"
  BY <1>1 DEF Holding, Loaded, HoldingStates
<1>3. \A i \in 1..Len(channel') : i \in 1..Len(channel) /\ channel'[i] = channel[i]
  <2>1. CASE channel' = channel
    BY <2>1
  <2>2. CASE channel' = <<>>
    BY <2>2
  <2> QED
    BY <2>1, <2>2
<1>4. BoundInv'
  BY <1>2, <1>3 DEF BoundInv
<1>5. FileInv' /\ DataInv'
  BY <1>2, <1>3
  DEF FileInv, DataInv, OwnBytes, ChannelData, PendingData, CurrentData
<1>6. UniqueInv'
  BY <1>2, <1>3
  DEF UniqueInv, HeldOnce, SentOnce, ConsumedOnce, HeldApart, SentApart,
      ConsumedApart, CurrentApart
<1>7. dispatch_next' = dispatch_next => WindowInv'
  BY <1>2, <1>3 DEF WindowInv
<1> QED
  BY <1>2, <1>4, <1>5, <1>6, <1>7

(* Publishing next_seq opens the gate only for chunks inside the window.    *)
LEMMA PublishKeepsInv ==
  ASSUME IInv, TypeOK', Publish
  PROVE  IInv'
<1> USE DerivedSizes DEF IInv
<1>1. UNCHANGED <<num_chunks, popped, wpc, work, file_lock, file_cursor,
                  channel, receiver_alive, dispatch_some, current, pending,
                  pending_batch, next_seq, reorder_bytes, consumed, result>>
  BY DEF Publish, chunk_vars, worker_vars, file_vars, channel_vars,
         reorder_vars
<1>2. /\ cpc = "publish" /\ cpc' = "notify" /\ dispatch_next' = next_seq
      /\ Ordered
  BY DEF Publish, PhaseInv
<1>3. /\ BoundInv' /\ FileInv' /\ DataInv' /\ UniqueInv'
      /\ \A w \in Workers : (Holding(w)' <=> Holding(w)) /\ (Loaded(w)' <=> Loaded(w))
  BY <1>1, <1>2, QuietStepKeeps
<1>4. PhaseInv' /\ OrderInv'
  BY <1>1, <1>2 DEF PhaseInv, InLoop, OrderInv
<1>5. WindowInv'
  <2>1. ASSUME NEW c \in pending PROVE next_seq < c
    <3>1. c # next_seq /\ c \in Nat /\ next_seq \in Nat
      BY <1>2, StateTypes DEF OrderInv
    <3>2. ASSUME c < next_seq PROVE FALSE
      <4>1. c + 1 \in 1..Len(consumed) /\ consumed[c + 1] = c
        BY <1>2, <3>1, <3>2 DEF OrderInv
      <4> QED
        BY <4>1 DEF UniqueInv, ConsumedApart
    <3> QED
      BY <3>1, <3>2
  <2>2. dispatch_next <= next_seq
    BY <1>2 DEF WindowInv
  <2>3. \A x \in Nat : x <= dispatch_next + max_reorder => x <= next_seq + max_reorder
    BY <2>2, StateTypes
  <2>4. \A c \in pending : c <= next_seq + max_reorder
    BY <1>2, <2>3, StateTypes DEF WindowInv
  <2>5. \A w \in Workers : Loaded(w) => work[w].seq <= next_seq + max_reorder
    BY <1>2, <2>3, StateTypes DEF WindowInv
  <2>6. \A i \in 1..Len(channel) : channel[i].seq <= next_seq + max_reorder
    BY <1>2, <2>3, StateTypes DEF WindowInv
  <2>7. next_seq <= next_seq
    BY StateTypes
  <2> QED
    BY <1>1, <1>2, <1>3, <2>1, <2>4, <2>5, <2>6, <2>7 DEF WindowInv
<1>6. CoverInv'
  BY <1>1, <1>2, <1>3 DEF CoverInv, Located, OkMeansComplete, Chunks
<1> QED
  BY <1>3, <1>4, <1>5, <1>6

(* Waking the sleepers moves them back to the gate and nothing else.        *)
LEMMA NotifyKeepsInv ==
  ASSUME IInv, TypeOK', Notify
  PROVE  IInv'
<1> USE DerivedSizes DEF IInv
<1>1. UNCHANGED <<num_chunks, popped, work, file_lock, file_cursor, channel,
                  receiver_alive, dispatch_some, dispatch_next, current,
                  pending, pending_batch, next_seq, reorder_bytes, consumed,
                  result>>
  BY DEF Notify, chunk_vars, file_vars, channel_vars, dispatch_vars,
         reorder_vars
<1>2. cpc = "notify" /\ cpc' = "recv" /\ notify_all
  BY DEF Notify
<1>3. /\ BoundInv' /\ FileInv' /\ DataInv' /\ UniqueInv' /\ WindowInv'
      /\ \A w \in Workers :
           /\ Holding(w)' <=> Holding(w)
           /\ wpc'[w] = "exited" <=> wpc[w] = "exited"
           /\ wpc'[w] = "unborn" <=> wpc[w] = "unborn"
  BY <1>1, <1>2, QuietStepKeeps
<1>4. PhaseInv' /\ OrderInv'
  BY <1>1, <1>2, <1>3 DEF PhaseInv, InLoop, OrderInv
<1>5. CoverInv'
  BY <1>1, <1>2, <1>3 DEF CoverInv, Located, OkMeansComplete, Chunks
<1> QED
  BY <1>3, <1>4, <1>5

(* Leaving the loop with an error, and every step after the loop. *)
LEMMA ExitKeepsInv ==
  ASSUME IInv, TypeOK',
         ConsumeErr \/ ConsumePanic \/ HangUp \/ CloseDispatch \/ WakeWorkers \/ Join
  PROVE  IInv'
<1> USE DerivedSizes DEF IInv
<1>1. UNCHANGED <<num_chunks, popped, work, file_lock, file_cursor,
                  dispatch_next, pending, pending_batch, next_seq, consumed>>
  BY DEF ConsumeErr, ConsumePanic, HangUp, CloseDispatch, WakeWorkers, Join,
         chunk_vars, worker_vars, file_vars, dispatch_vars, reorder_vars
<1>2. /\ wpc' = wpc \/ notify_all
      /\ channel' = channel \/ channel' = <<>>
  BY DEF ConsumeErr, ConsumePanic, HangUp, CloseDispatch, WakeWorkers, Join,
         worker_vars, channel_vars
<1>3. /\ cpc \in {"consume", "hangup", "close", "wake", "join"}
      /\ cpc' \in {"hangup", "close", "wake", "join", "returned", "unwound"}
      /\ result' # "none"
      /\ result' = "ok" => result = "ok"
  BY DEF ConsumeErr, ConsumePanic, HangUp, CloseDispatch, WakeWorkers, Join,
         Leave, PhaseInv, InLoop
<1>4. /\ BoundInv' /\ FileInv' /\ DataInv' /\ UniqueInv' /\ WindowInv'
  BY <1>1, <1>2, <1>3, QuietStepKeeps
<1>5. PhaseInv'
  BY <1>3 DEF PhaseInv, InLoop
<1>6. OrderInv'
  BY <1>1, <1>3 DEF OrderInv
<1>7. CoverInv'
  BY <1>1, <1>3 DEF CoverInv, OkMeansComplete, Chunks
<1> QED
  BY <1>4, <1>5, <1>6, <1>7

(* The loop ends by itself only when the channel is empty and every worker  *)
(* has stopped.  Then the queue is empty, and the reorder buffer is too:    *)
(* next_seq would be in nobody's hands otherwise.                           *)
LEMMA RecvClosedKeepsInv ==
  ASSUME IInv, TypeOK', RecvClosed
  PROVE  IInv'
<1> USE DerivedSizes DEF IInv
<1>1. UNCHANGED <<num_chunks, popped, wpc, work, file_lock, file_cursor,
                  channel, receiver_alive, dispatch_some, dispatch_next,
                  current, pending, pending_batch, next_seq, reorder_bytes,
                  consumed>>
  BY DEF RecvClosed, chunk_vars, worker_vars, file_vars, channel_vars,
         dispatch_vars, reorder_vars
<1>2. /\ cpc = "recv" /\ cpc' = "hangup" /\ result' = "ok" /\ result = "none"
      /\ channel = <<>> /\ \A w \in Workers : wpc[w] = "exited"
  BY DEF RecvClosed, Leave, AllSendersGone, PhaseInv, InLoop
<1>3. Len(channel) = 0 /\ \A w \in Workers : ~Holding(w)
  BY <1>2 DEF Holding, HoldingStates
<1>4. /\ BoundInv' /\ FileInv' /\ DataInv' /\ UniqueInv' /\ WindowInv'
  BY <1>1, <1>2, QuietStepKeeps
<1>5. PhaseInv' /\ OrderInv'
  BY <1>1, <1>2 DEF PhaseInv, InLoop, OrderInv
<1>6. popped = num_chunks
  <2>1. 1 \in Workers
    BY DEF Workers
  <2> QED
    BY <1>2, <1>3, <2>1 DEF CoverInv
<1>7. \A c \in 0..(popped - 1) :
        c \in pending \/ \E k \in 1..Len(consumed) : consumed[k] = c
  BY <1>2, <1>3 DEF CoverInv, Located
<1>8. pending = {}
  <2>1. CASE Ordered
    <3>1. SUFFICES ASSUME NEW c \in pending PROVE FALSE
      OBVIOUS
    <3>2. c \in Nat /\ c < popped /\ next_seq \in Nat /\ popped \in Nat
      BY StateTypes DEF BoundInv
    <3>3. ~(c < next_seq)
      <4>1. SUFFICES ASSUME c < next_seq PROVE FALSE
        OBVIOUS
      <4>2. c + 1 \in 1..Len(consumed) /\ consumed[c + 1] = c
        BY <2>1, <3>2, <4>1 DEF OrderInv
      <4> QED
        BY <4>2 DEF UniqueInv, ConsumedApart
    <3>4. next_seq \in 0..(popped - 1) /\ next_seq \notin pending
      BY <1>2, <2>1, <3>2, <3>3 DEF OrderInv
    <3>5. PICK k \in 1..Len(consumed) : consumed[k] = next_seq
      BY <1>7, <3>4
    <3>6. k \in Nat /\ k <= next_seq /\ consumed[k] = k - 1
      BY <2>1, <3>5, StateTypes DEF OrderInv
    <3> QED
      BY <3>2, <3>5, <3>6
  <2>2. CASE ~Ordered
    BY <2>2 DEF OrderInv
  <2> QED
    BY <2>1, <2>2
<1>9. CoverInv'
  BY <1>1, <1>2, <1>6, <1>7, <1>8 DEF CoverInv, OkMeansComplete, Chunks
<1> QED
  BY <1>4, <1>5, <1>9

-----------------------------------------------------------------------------
(* The invariant holds at first and after every step. *)
LEMMA InitInv == Init => IInv
<1> SUFFICES ASSUME Init PROVE IInv
  OBVIOUS
<1>1. TypeOK
  BY DerivedSizes, ChunksAssumption, SizeAssumption, FlagAssumption
  DEF Init, TypeOK, WorkerStates, CoordinatorStates, Results, Sizes
<1>2. /\ Len(channel) = 0 /\ Len(consumed) = 0 /\ pending = {}
      /\ \A w \in Workers : wpc[w] = "unborn"
      /\ \A w \in Workers : ~Holding(w) /\ ~Loaded(w)
  BY DEF Init, Holding, Loaded, HoldingStates
<1>3. PhaseInv /\ BoundInv /\ FileInv /\ DataInv
  BY <1>2 DEF Init, PhaseInv, InLoop, BoundInv, FileInv, DataInv, OwnBytes,
              ChannelData, PendingData, CurrentData
<1>4. UniqueInv
  BY <1>2 DEF Init, UniqueInv, HeldOnce, SentOnce, ConsumedOnce, HeldApart,
              SentApart, ConsumedApart, CurrentApart
<1>5. OrderInv /\ WindowInv
  BY <1>2 DEF Init, OrderInv, WindowInv
<1>6. CoverInv
  BY <1>2 DEF Init, CoverInv, OkMeansComplete
<1> QED
  BY <1>1, <1>3, <1>4, <1>5, <1>6 DEF IInv

(* Every action keeps the invariant, one case per action.                   *)
LEMMA NextKeepsInv ==
  ASSUME IInv, [Next]_vars
  PROVE  IInv'
<1>1. TypeOK'
  BY TypeStep DEF IInv
<1>2. CASE CoordinatorStep
  BY <1>1, <1>2, PlanStepKeepsInv, RecvErrorKeepsInv, RecvDeliverKeepsInv,
     RecvBufferKeepsInv, RecvClosedKeepsInv, DrainKeepsInv, PublishKeepsInv,
     NotifyKeepsInv, ConsumeOkKeepsInv, ExitKeepsInv
  DEF CoordinatorStep, LoopStep, ConsumeStep, ExitStep
<1>3. ASSUME NEW w \in Workers, WorkerStep(w) PROVE IInv'
  BY <1>1, <1>3, PopKeepsInv, GateKeepsInv, LoadKeepsInv, ReadKeepsInv,
     ParseKeepsInv, ChunkFailsKeepsInv, SendKeepsInv, SendFailsKeepsInv
  DEF WorkerStep
<1>4. CASE UNCHANGED vars
  <2>1. UNCHANGED <<num_chunks, popped, wpc, work, file_lock, file_cursor,
                    channel, receiver_alive, dispatch_some, dispatch_next,
                    cpc, current, pending, pending_batch, next_seq,
                    reorder_bytes, consumed, result>>
    BY <1>4 DEF vars, chunk_vars, worker_vars, file_vars, channel_vars,
                dispatch_vars, coord_vars, reorder_vars
  <2>2. \A w \in Workers : (Holding(w)' <=> Holding(w)) /\ (Loaded(w)' <=> Loaded(w))
    BY <2>1 DEF Holding, Loaded
  <2>3. PhaseInv' /\ BoundInv' /\ FileInv' /\ DataInv'
    BY <2>1, <2>2 DEF IInv, PhaseInv, InLoop, BoundInv, FileInv, DataInv,
                      OwnBytes, ChannelData, PendingData, CurrentData
  <2>4. UniqueInv'
    BY <2>1, <2>2 DEF IInv, UniqueInv, HeldOnce, SentOnce, ConsumedOnce,
                      HeldApart, SentApart, ConsumedApart, CurrentApart
  <2>5. OrderInv' /\ WindowInv'
    BY <2>1, <2>2 DEF IInv, OrderInv, WindowInv
  <2>6. CoverInv'
    BY <2>1, <2>2 DEF IInv, CoverInv, Located, OkMeansComplete, Chunks
  <2> QED
    BY <1>1, <2>3, <2>4, <2>5, <2>6 DEF IInv
<1> QED
  BY <1>2, <1>3, <1>4 DEF Next, Done

(* IInv is an inductive invariant of the executor. *)
THEOREM InvariantHolds == Spec => []IInv
<1>1. IInv /\ [Next]_vars => IInv'
  BY NextKeepsInv
<1> QED
  BY InitInv, <1>1, PTL DEF Spec

(* Ordered delivery for any number of threads and any interleaving: what    *)
(* the consumer has accepted is a prefix of the chunks in input order.      *)
THEOREM DeliversInOrder == Spec => []InOrderPrefix
<1>1. IInv => InOrderPrefix
  BY DEF IInv, OrderInv, InOrderPrefix
<1> QED
  BY InvariantHolds, <1>1, PTL

(* No batch reaches the consumer twice, ordered or not, whatever fails.     *)
THEOREM DeliversOnce == Spec => []DeliveredOnce
<1>1. ASSUME IInv PROVE DeliveredOnce
  <2>1. \A k \in 1..Len(consumed) :
          consumed[k] \in Nat /\ consumed[k] < popped /\ popped <= num_chunks
    BY <1>1, StateTypes DEF IInv, BoundInv
  <2>2. popped \in Nat /\ num_chunks \in Nat
    BY <1>1, StateTypes DEF IInv
  <2> QED
    BY <1>1, <2>1, <2>2 DEF IInv, UniqueInv, ConsumedOnce, DeliveredOnce, Chunks
<1> QED
  BY InvariantHolds, <1>1, PTL

(* A run that returns Ok has delivered the batch of every planned chunk.    *)
THEOREM OkIsComplete == Spec => []OkMeansComplete
<1>1. IInv => OkMeansComplete
  BY DEF IInv, CoverInv
<1> QED
  BY InvariantHolds, <1>1, PTL

(* At most max_reorder batches ever wait in the reorder buffer.             *)
THEOREM ReorderBounded == Spec => []ReorderWindow
<1>1. ASSUME IInv PROVE ReorderWindow
  <2> DEFINE W == (dispatch_next + 1)..(dispatch_next + max_reorder)
  <2>1. dispatch_next \in Nat /\ max_reorder \in Nat /\ max_reorder > 0
    BY <1>1, StateTypes, DerivedSizes DEF IInv
  <2>2. pending \subseteq W
    BY <1>1, <2>1, StateTypes DEF IInv, WindowInv, OrderInv
  <2>3. IsFiniteSet(W) /\ Cardinality(W) = max_reorder
    BY <2>1, FS_Interval
  <2>4. Cardinality(pending) <= max_reorder
    BY <2>2, <2>3, FS_Subset
  <2> QED
    BY <2>2, <2>4 DEF ReorderWindow
<1> QED
  BY InvariantHolds, <1>1, PTL

(* No worker parses a chunk more than max_reorder ahead of the next output. *)
THEOREM RunAheadBounded == Spec => []RunAhead
<1>1. ASSUME IInv PROVE RunAhead
  BY <1>1, StateTypes, DerivedSizes DEF IInv, WindowInv, Loaded, RunAhead
<1> QED
  BY InvariantHolds, <1>1, PTL

(* Workers sharing one file handle never parse each other's bytes.          *)
THEOREM ReadsOwnBytes == Spec => []OwnBytes
<1>1. IInv => OwnBytes
  BY DEF IInv, DataInv
<1> QED
  BY InvariantHolds, <1>1, PTL

(* The executor implements the abstract stream of batches.                  *)
THEOREM StreamRefinement == Spec => ImplementsStream
<1> USE DEF Stream!vars, StreamStatus
<1>1. Init => Stream!Init
  BY DEF Init, Stream!Init
<1>2. ASSUME IInv, IInv', [Next]_vars PROVE [Stream!Next]_(Stream!vars)
  <2>1. CASE PlanEmpty
    <3>1. Stream!Plan(0)
      BY <1>2, <2>1
      DEF PlanEmpty, Stream!Plan, chunk_vars, IInv, PhaseInv
    <3> QED
      BY <3>1, ChunksAssumption DEF Stream!Next
  <2>2. ASSUME NEW k \in 1..MaxChunks, PlanChunks(k) PROVE Stream!Next
    <3>1. Stream!Plan(k)
      BY <1>2, <2>2 DEF PlanChunks, Stream!Plan, IInv, PhaseInv
    <3> QED
      BY <3>1 DEF Stream!Next
  <2>3. CASE PlanFails
    BY <2>3 DEF PlanFails, Stream!Next, Stream!Fail, chunk_vars
  <2>4. CASE RecvError \/ ConsumeErr \/ ConsumePanic
    BY <1>2, <2>4
    DEF RecvError, ConsumeErr, ConsumePanic, Leave, Stream!Next, Stream!Fail,
        chunk_vars, IInv, PhaseInv, InLoop
  <2>5. CASE RecvBuffer
    <3>1. UNCHANGED <<num_chunks, consumed>> /\ cpc = "recv" /\ result = "none"
      BY <1>2, <2>5 DEF RecvBuffer, chunk_vars, IInv, PhaseInv, InLoop
    <3>2. (cpc' = "hangup" /\ result' = "reorder_err") \/ UNCHANGED <<cpc, result>>
      BY <2>5 DEF RecvBuffer, Leave
    <3> QED
      BY <3>1, <3>2 DEF Stream!Next, Stream!Fail
  <2>6. CASE RecvClosed
    <3>1. UNCHANGED <<num_chunks, consumed>> /\ cpc = "recv" /\ result = "none"
          /\ cpc' = "hangup" /\ result' = "ok"
      BY <1>2, <2>6 DEF RecvClosed, Leave, chunk_vars, IInv, PhaseInv, InLoop
    <3>2. \A c \in 0..(num_chunks - 1) :
            \E i \in 1..Len(consumed) : consumed[i] = c
      BY <1>2, <3>1 DEF IInv, CoverInv, OkMeansComplete, Chunks
    <3> QED
      BY <3>1, <3>2 DEF Stream!Next, Stream!Finish
  <2>7. CASE ConsumeOk
    <3>1. /\ cpc = "consume" /\ result = "none" /\ result' = "none"
          /\ cpc' \in {"drain", "recv"} /\ UNCHANGED num_chunks
          /\ consumed' = Append(consumed, current.seq)
      BY <1>2, <2>7
      DEF ConsumeOk, chunk_vars, IInv, PhaseInv, InLoop, DataInv, CurrentData
    <3>2. current.seq \in 0..(num_chunks - 1)
      BY <1>2, <3>1, StateTypes DEF IInv, BoundInv
    <3>3. \A i \in 1..Len(consumed) : consumed[i] # current.seq
      BY <1>2, <3>1 DEF IInv, UniqueInv, CurrentApart
    <3>4. Ordered => current.seq = Len(consumed)
      BY <1>2, <3>1 DEF IInv, OrderInv
    <3>5. Stream!Deliver(current.seq)
      BY <3>1, <3>3, <3>4 DEF Stream!Deliver
    <3> QED
      BY <3>2, <3>5 DEF Stream!Next
  <2>8. CASE RecvDeliver \/ Drain \/ Publish \/ Notify \/ ExitStep
    <3>1. UNCHANGED <<num_chunks, consumed, result>> /\ cpc # "plan"
          /\ cpc' # "plan"
      BY <2>8 DEF RecvDeliver, Drain, Publish, Notify, ExitStep, HangUp,
                  CloseDispatch, WakeWorkers, Join, chunk_vars
    <3> QED
      BY <3>1
  <2>9. ASSUME NEW w \in Workers, WorkerStep(w) PROVE UNCHANGED Stream!vars
    BY <2>9 DEF WorkerStep, Pop, Gate, Load, Read, Parse, ChunkFails, Send,
                SendFails, chunk_vars, coord_vars
  <2>10. CASE UNCHANGED vars
    BY <2>10 DEF vars, chunk_vars, coord_vars
  <2> QED
    BY <1>2, <2>1, <2>2, <2>3, <2>4, <2>5, <2>6, <2>7, <2>8, <2>9, <2>10
    DEF Next, Done, CoordinatorStep, PlanStep, LoopStep, ConsumeStep
<1> QED
  BY <1>1, <1>2, InvariantHolds, PTL DEF Spec, ImplementsStream, Stream!Spec
-----------------------------------------------------------------------------
(* The bytes of the reorder buffer.                                         *)

\* A size for every chunk.
SizeMaps == [0..MaxChunks -> Nat]

(* The sums that Total is built from.                                       *)
LEMMA PartialSums ==
  ASSUME NEW size \in SizeMaps
  PROVE  \E below \in [0..(MaxChunks + 1) -> Nat] :
           /\ below[0] = 0
           /\ \A c \in 0..MaxChunks : below[c + 1] = below[c] + size[c]
           /\ Total(size) = below[MaxChunks + 1]
<1> USE ChunksAssumption
<1> DEFINE top == MaxChunks + 1
           Eqn(b) == b = [c \in 0..top |-> IF c = 0 THEN 0 ELSE b[c - 1] + size[c - 1]]
           step == [c \in 1..top |-> [x \in Nat |-> x + size[c - 1]]]
<1>1. top \in Nat /\ 0 \in Nat /\ step \in Steps(top, Nat)
  BY DEF Steps, SizeMaps
<1> HIDE DEF step, top
<1>2. PICK f : Iteration(f, top, Nat, 0, step)
  BY <1>1, IterationExists
<1> USE DEF top, Iteration
<1>3. ASSUME NEW i \in 1..top
      PROVE  f[i] = f[i - 1] + size[i - 1]
  <2>1. f[i - 1] \in Nat
    BY <1>2
  <2> QED
    BY <1>2, <2>1 DEF step
<1>4. Eqn(f)
  BY <1>2, <1>3
<1> DEFINE below == CHOOSE b : Eqn(b)
<1>5. Eqn(below)
  BY <1>4
<1>6. Total(size) = below[top]
  BY DEF Total
<1> HIDE DEF below
<1>7. /\ below[0] = 0
      /\ \A c \in 0..MaxChunks : below[c + 1] = below[c] + size[c]
  BY <1>5
<1> DEFINE S == {c \in Nat : below[c] \in Nat}
<1>8. 0 \in S
  BY <1>7
<1>9. ASSUME NEW c \in Nat, c < top, c \in S
      PROVE  c + 1 \in S
  <2>1. c \in 0..MaxChunks /\ below[c + 1] = below[c] + size[c] /\ size[c] \in Nat
    BY <1>7, <1>9 DEF SizeMaps
  <2> QED
    BY <1>9, <2>1
<1>10. \A c \in 0..top : c \in S
  <2> HIDE DEF S, top
  <2> QED
    BY <1>1, <1>8, <1>9, IntervalInduction
<1>11. below \in [0..top -> Nat]
  BY <1>5, <1>10
<1> QED
  BY <1>6, <1>7, <1>11

(* A sum changes by as much as its one changed term.                        *)
LEMMA TotalChange ==
  ASSUME NEW s \in SizeMaps, NEW c \in 0..MaxChunks, NEW b \in Nat
  PROVE  Total([s EXCEPT ![c] = b]) + s[c] = Total(s) + b
<1> USE ChunksAssumption
<1> DEFINE t == [s EXCEPT ![c] = b]
           top == MaxChunks + 1
<1>1. /\ t \in SizeMaps /\ t[c] = b
      /\ \A d \in 0..MaxChunks : s[d] \in Nat /\ t[d] \in Nat
      /\ \A d \in 0..MaxChunks : d # c => t[d] = s[d]
  BY DEF SizeMaps
<1>2. PICK p : /\ p \in [0..top -> Nat]
               /\ p[0] = 0
               /\ \A d \in 0..MaxChunks : p[d + 1] = p[d] + s[d]
               /\ Total(s) = p[top]
  BY PartialSums
<1> HIDE DEF t
<1>3. PICK q : /\ q \in [0..top -> Nat]
               /\ q[0] = 0
               /\ \A d \in 0..MaxChunks : q[d + 1] = q[d] + t[d]
               /\ Total(t) = q[top]
  BY <1>1, PartialSums
<1> DEFINE S == {d \in Nat : IF d <= c THEN q[d] = p[d] ELSE q[d] + s[c] = p[d] + b}
<1>4. 0 \in S
  BY <1>2, <1>3
<1>5. ASSUME NEW d \in Nat, d < top, d \in S
      PROVE  d + 1 \in S
  <2>1. d \in 0..MaxChunks /\ d \in 0..top
    BY <1>5
  <2>2. /\ p[d + 1] = p[d] + s[d] /\ q[d + 1] = q[d] + t[d]
        /\ p[d] \in Nat /\ q[d] \in Nat /\ s[d] \in Nat /\ t[d] \in Nat
    BY <1>1, <1>2, <1>3, <2>1
  <2>3. IF d <= c THEN q[d] = p[d] ELSE q[d] + s[c] = p[d] + b
    BY <1>5
  <2>4. CASE d = c
    BY <1>1, <2>2, <2>3, <2>4
  <2>5. CASE d # c
    <3>1. t[d] = s[d]
      BY <1>1, <2>1, <2>5
    <3>2. CASE d < c
      BY <2>2, <2>3, <3>1, <3>2
    <3>3. CASE c < d
      <4>1. q[d] + s[c] = p[d] + b
        BY <2>3, <3>3
      <4>2. s[c] \in Nat
        BY <1>1
      <4>3. (q[d] + s[d]) + s[c] = (p[d] + s[d]) + b
        BY <2>2, <4>1, <4>2
      <4> QED
        BY <2>2, <3>1, <3>3, <4>3
    <3> QED
      BY <2>5, <3>2, <3>3
  <2> QED
    BY <2>4, <2>5
<1>6. top \in Nat /\ \A d \in 0..top : d \in S
  <2>1. top \in Nat
    OBVIOUS
  <2> HIDE DEF S, top
  <2> QED
    BY <1>4, <1>5, <2>1, IntervalInduction
<1>7. q[top] + s[c] = p[top] + b
  BY <1>6
<1> QED
  BY <1>2, <1>3, <1>7 DEF t

(* Sizes of at most max each, and none outside a window, sum up to at most  *)
(* max for every place in the window.                                       *)
LEMMA TotalInWindow ==
  ASSUME NEW s \in SizeMaps, NEW max \in Nat,
         NEW lo \in Nat, NEW width \in Nat,
         \A c \in 0..MaxChunks : s[c] <= max,
         \A c \in 0..MaxChunks : s[c] # 0 => lo < c /\ c <= lo + width
  PROVE  Total(s) <= width * max
<1> USE ChunksAssumption
<1> DEFINE places(d) == IF d <= lo + 1 THEN 0
                        ELSE IF d <= lo + 1 + width THEN d - (lo + 1) ELSE width
<1>1. PICK p : /\ p \in [0..(MaxChunks + 1) -> Nat]
               /\ p[0] = 0
               /\ \A d \in 0..MaxChunks : p[d + 1] = p[d] + s[d]
               /\ Total(s) = p[MaxChunks + 1]
  BY PartialSums
<1>2. \A d \in Nat : places(d) \in 0..width
  OBVIOUS
<1>3. \A x \in Nat : (x + 1) * max = x * max + max
  OBVIOUS
<1>4. \A x, y \in Nat : x <= y => x * max <= y * max
  <2>1. \A x, z \in Nat : (x + z) * max = x * max + z * max /\ z * max \in Nat
    OBVIOUS
  <2> SUFFICES ASSUME NEW x \in Nat, NEW y \in Nat, x <= y PROVE x * max <= y * max
    OBVIOUS
  <2>2. (x + (y - x)) * max = x * max + (y - x) * max /\ (y - x) * max \in Nat
    BY <2>1
  <2>3. x * max \in Int /\ y * max \in Int /\ x + (y - x) = y
    OBVIOUS
  <2> QED
    BY <2>2, <2>3
<1> DEFINE top == MaxChunks + 1
           S == {d \in Nat : p[d] <= places(d) * max}
<1>5. 0 \in S
  BY <1>1
<1>6. ASSUME NEW d \in Nat, d < top, d \in S
      PROVE  d + 1 \in S
  <2>1. /\ d \in 0..MaxChunks
        /\ p[d + 1] = p[d] + s[d] /\ p[d] <= places(d) * max
        /\ p[d] \in Nat /\ s[d] \in Nat /\ s[d] <= max
    <3>1. d \in 0..MaxChunks /\ d \in 0..(MaxChunks + 1)
      BY <1>6
    <3>2. s[d] \in Nat
      BY <3>1 DEF SizeMaps
    <3> QED
      BY <1>1, <1>6, <3>1, <3>2
  <2>2. /\ places(d) \in Nat /\ places(d + 1) \in Nat
        /\ places(d) * max \in Int /\ places(d + 1) * max \in Int
    BY <1>2
  <2>3. CASE lo < d /\ d <= lo + width
    <3>1. places(d + 1) = places(d) + 1
      BY <2>3
    <3> HIDE DEF places
    <3>2. places(d + 1) * max = places(d) * max + max
      BY <1>3, <2>2, <3>1
    <3>3. \A x, y, u, v \in Int : x <= u /\ y <= v => x + y <= u + v
      OBVIOUS
    <3>4. /\ p[d] \in Int /\ s[d] \in Int /\ max \in Int
          /\ p[d] <= places(d) * max /\ s[d] <= max
      BY <2>1
    <3>5. p[d] + s[d] <= places(d) * max + max
      BY <2>2, <3>3, <3>4, Zenon
    <3> QED
      BY <2>1, <3>2, <3>5
  <2>4. CASE ~(lo < d /\ d <= lo + width)
    <3>1. s[d] = 0
      BY <2>1, <2>4
    <3>2. places(d) <= places(d + 1)
      OBVIOUS
    <3> HIDE DEF places
    <3>3. places(d) * max <= places(d + 1) * max
      BY <1>4, <2>2, <3>2
    <3> QED
      BY <2>1, <2>2, <3>1, <3>3
  <2> QED
    BY <2>3, <2>4
<1>7. top \in Nat /\ \A d \in 0..top : d \in S
  <2>1. top \in Nat
    OBVIOUS
  <2> HIDE DEF S, top
  <2> QED
    BY <1>5, <1>6, <2>1, IntervalInduction
<1>8. p[top] <= places(top) * max
  BY <1>7
<1>9. places(top) \in Nat /\ places(top) <= width
  BY <1>7
<1> HIDE DEF places
<1>10. places(top) * max <= width * max
  BY <1>4, <1>9
<1>11. places(top) * max \in Int /\ width * max \in Int
  BY <1>9
<1> QED
  BY <1>1, <1>7, <1>8, <1>10, <1>11

\* A batch that passed the parse closure's last check fits its allowance,
\* wherever it is.
SizeInv ==
  /\ \A w \in Workers : wpc[w] = "send" /\ work[w].ok => Fits(work[w].size)
  /\ \A i \in 1..Len(channel) : channel[i].ok => Fits(channel[i].size)
  /\ \A c \in pending : Fits(pending_batch[c].size)

BytesInv == SizeInv /\ ReorderBytesExact /\ StrictLimitUnreachable

\* The sizes of what waits, zero elsewhere.
LEMMA WaitingSizesType ==
  ASSUME TypeOK
  PROVE  /\ WaitingSizes \in SizeMaps
         /\ \A c \in 0..MaxChunks :
              WaitingSizes[c] = IF c \in pending THEN pending_batch[c].size ELSE 0
<1>1. \A c \in 0..MaxChunks : pending_batch[c].size \in Nat
  BY MessageFields DEF TypeOK
<1> QED
  BY <1>1 DEF WaitingSizes, SizeMaps

(* What a step must leave alone to keep the batches' sizes.                 *)
LEMMA SizesKept ==
  ASSUME BytesInv, UNCHANGED <<pending, pending_batch, reorder_bytes>>,
         result' # "reorder_err",
         \A w \in Workers : wpc'[w] = "send" /\ work'[w].ok =>
           \/ Fits(work'[w].size)
           \/ wpc[w] = "send" /\ work'[w] = work[w],
         \A i \in 1..Len(channel') : channel'[i].ok =>
           \/ Fits(channel'[i].size)
           \/ \E j \in 1..Len(channel) : channel'[i] = channel[j]
  PROVE  BytesInv'
<1>1. SizeInv'
  BY DEF BytesInv, SizeInv, Fits
<1>2. ReorderBytesExact'
  BY DEF BytesInv, ReorderBytesExact, StrictLimitUnreachable, WaitingSizes, Total
<1> QED
  BY <1>1, <1>2 DEF BytesInv, StrictLimitUnreachable

(* A worker's step changes no batch that is out of its hands.               *)
LEMMA WorkerKeepsBytes ==
  ASSUME TypeOK, BytesInv, NEW u \in Workers, WorkerStep(u)
  PROVE  BytesInv'
<1>1. work \in [Workers -> Message] /\ wpc \in [Workers -> WorkerStates]
      /\ channel \in Seq(Message)
  BY DEF TypeOK
<1>2. UNCHANGED <<pending, pending_batch, reorder_bytes, result>> /\ result' # "reorder_err"
  BY DEF WorkerStep, Pop, Gate, Load, Read, Parse, ChunkFails, Send, SendFails, coord_vars,
         reorder_vars, BytesInv, StrictLimitUnreachable
<1>3. \A w \in Workers \ {u} : wpc'[w] = wpc[w] /\ work'[w] = work[w]
  BY <1>1 DEF WorkerStep, Pop, Gate, Load, Read, Parse, ChunkFails, Send, SendFails
<1>4. wpc'[u] = "send" => ~work'[u].ok \/ Fits(work'[u].size)
  <2>1. CASE Pop(u) \/ Gate(u) \/ Load(u) \/ Read(u) \/ SendFails(u) \/ Send(u)
    BY <1>1, <2>1 DEF Pop, Gate, Load, Read, SendFails, Send, AfterPop, WorkerStates
  <2>2. ASSUME NEW size \in BatchSizes, Parse(u, size)
        PROVE  ~work'[u].ok \/ Fits(work'[u].size)
    <3>1. work'[u].ok = BatchAccepted(size)
          /\ work'[u].size = IF BatchAccepted(size) THEN size ELSE 0
      BY <1>1, <2>2 DEF Parse, Message
    <3> QED
      BY <3>1 DEF BatchAccepted
  <2>3. CASE ChunkFails(u)
    BY <1>1, <2>3 DEF ChunkFails, Message
  <2> QED
    BY <2>1, <2>2, <2>3 DEF WorkerStep
<1>5. \A i \in 1..Len(channel') : channel'[i].ok =>
        Fits(channel'[i].size) \/ \E j \in 1..Len(channel) : channel'[i] = channel[j]
  <2>1. CASE channel' = channel
    BY <2>1
  <2>2. CASE Send(u)
    <3>1. channel' = Append(channel, work[u]) /\ wpc[u] = "send" /\ work[u] \in Message
      BY <1>1, <2>2 DEF Send
    <3>2. work[u].ok => Fits(work[u].size)
      BY <3>1 DEF BytesInv, SizeInv
    <3> QED
      BY <1>1, <3>1, <3>2
  <2> QED
    BY <2>1, <2>2 DEF WorkerStep, Pop, Gate, Load, Read, Parse, ChunkFails, SendFails, channel_vars
<1>6. \A w \in Workers : wpc'[w] = "send" /\ work'[w].ok =>
        \/ Fits(work'[w].size)
        \/ wpc[w] = "send" /\ work'[w] = work[w]
  BY <1>3, <1>4
<1> QED
  BY <1>2, <1>5, <1>6, SizesKept

(* Buffering counts the batch, and cannot exceed the limit: with it at most *)
(* max_reorder batches wait, each within its allowance.                     *)
LEMMA RecvBufferKeepsBytes ==
  ASSUME IInv, BytesInv, TypeOK', RecvBuffer
  PROVE  BytesInv'
<1> DEFINE b == channel[1]
           c == b.seq
           sizes == [WaitingSizes EXCEPT ![c] = b.size]
<1> USE DerivedSizes DEF IInv
<1>1. /\ cpc = "recv" /\ Ordered /\ result # "reorder_err"
      /\ 1 \in 1..Len(channel) /\ b = Head(channel) /\ b \in Message
      /\ b.ok /\ c # next_seq /\ c \in 0..MaxChunks /\ b.size \in Nat
  BY RecvFacts, MessageFields DEF RecvBuffer, Deliverable, BytesInv, StrictLimitUnreachable
<1>2. c \notin pending
  BY <1>1 DEF UniqueInv, SentApart
<1>3. next_seq < c
  <2>1. ASSUME c < next_seq PROVE FALSE
    <3>1. c + 1 \in 1..Len(consumed)
      BY <1>1, <2>1, StateTypes DEF OrderInv
    <3>2. consumed[c + 1] = c
      BY <1>1, <3>1 DEF OrderInv
    <3> QED
      BY <1>1, <3>1, <3>2 DEF UniqueInv, SentApart
  <2> QED
    BY <1>1, <2>1, StateTypes
<1>4. dispatch_next < c /\ c <= dispatch_next + max_reorder
  BY <1>1, <1>3, StateTypes DEF WindowInv
<1>5. WaitingSizes \in SizeMaps /\ WaitingSizes[c] = 0
  BY <1>1, <1>2, WaitingSizesType
<1>6. Total(sizes) = reorder_bytes + b.size
  <2>1. Total(sizes) + 0 = Total(WaitingSizes) + b.size
    <3> HIDE DEF b, c, sizes
    <3>1. Total([WaitingSizes EXCEPT ![c] = b.size]) + WaitingSizes[c]
            = Total(WaitingSizes) + b.size
      BY <1>1, <1>5, TotalChange
    <3> QED
      BY <1>5, <3>1 DEF sizes
  <2>2. sizes \in SizeMaps
    BY <1>1, <1>5 DEF SizeMaps
  <2>3. Total(sizes) \in Nat
    <3> HIDE DEF sizes
    <3>1. PICK below \in [0..(MaxChunks + 1) -> Nat] : Total(sizes) = below[MaxChunks + 1]
      BY <2>2, PartialSums
    <3> QED
      BY <3>1, ChunksAssumption
  <2>4. reorder_bytes = Total(WaitingSizes)
    BY <1>1 DEF BytesInv, ReorderBytesExact
  <2> QED
    BY <2>1, <2>3, <2>4
<1>7. Strict => reorder_bytes + b.size <= reorder_limit
  <2> SUFFICES ASSUME Strict PROVE Total(sizes) <= max_reorder * Allowance
    BY <1>6 DEF reorder_limit
  <2>1. sizes \in SizeMaps
    BY <1>1, <1>5 DEF SizeMaps
  <2>2. b.size <= Allowance /\ \A d \in pending : pending_batch[d].size <= Allowance
    BY <1>1 DEF BytesInv, SizeInv, Fits
  <2>3. \A d \in 0..MaxChunks :
          sizes[d] = IF d = c THEN b.size
                     ELSE IF d \in pending THEN pending_batch[d].size ELSE 0
    BY <1>1, <1>5, WaitingSizesType DEF SizeMaps
  <2> HIDE DEF b, c, sizes
  <2>4. \A d \in 0..MaxChunks : sizes[d] <= Allowance
    BY <2>2, <2>3, SizeAssumption
  <2>5. \A d \in 0..MaxChunks :
          sizes[d] # 0 => dispatch_next < d /\ d <= dispatch_next + max_reorder
    BY <1>1, <1>4, <2>3 DEF WindowInv
  <2>6. dispatch_next \in Nat /\ max_reorder \in Nat /\ Allowance \in Nat
    BY StateTypes, SizeAssumption
  <2> QED
    BY <2>1, <2>4, <2>5, <2>6, TotalInWindow
<1>8. /\ reorder_bytes' = reorder_bytes + b.size
      /\ result' = result /\ pending' = pending \cup {c}
      /\ pending_batch' = [pending_batch EXCEPT ![c] = b]
      /\ channel' = Tail(channel) /\ UNCHANGED <<wpc, work>>
  <2>1. reorder_bytes \in Int /\ reorder_limit \in Int
    BY SizeAssumption DEF TypeOK, reorder_limit
  <2>2. ~(Strict /\ reorder_bytes + b.size > reorder_limit)
    BY <1>1, <1>7, <2>1
  <2> QED
    BY <1>1, <2>2 DEF RecvBuffer, worker_vars
<1>9. /\ pending_batch'[c] = b
      /\ \A d \in 0..MaxChunks : d # c => pending_batch'[d] = pending_batch[d]
      /\ pending \subseteq 0..MaxChunks
  BY <1>1, <1>8 DEF TypeOK
<1>10. WaitingSizes' = sizes
  <2>1. WaitingSizes' =
          [d \in 0..MaxChunks |-> IF d = c THEN b.size
                                  ELSE IF d \in pending THEN pending_batch[d].size ELSE 0]
    <3> HIDE DEF b, c
    <3> QED
      BY <1>8, <1>9 DEF WaitingSizes
  <2> QED
    BY <1>1, <2>1 DEF WaitingSizes
<1>11. ReorderBytesExact'
  <2>1. Total(WaitingSizes') = reorder_bytes'
    BY <1>6, <1>8, <1>10
  <2>2. Total(WaitingSizes)' = Total(WaitingSizes')
    BY DEF Total
  <2> QED
    BY <2>1, <2>2 DEF ReorderBytesExact
<1>12. SizeInv'
  <2>1. \A i \in 1..Len(channel') : \E j \in 1..Len(channel) : channel'[i] = channel[j]
    BY <1>8, RecvFacts DEF RecvBuffer
  <2>2. \A d \in pending' : Fits(pending_batch'[d].size)
    BY <1>1, <1>8, <1>9 DEF BytesInv, SizeInv
  <2> QED
    BY <1>8, <2>1, <2>2 DEF BytesInv, SizeInv, Fits
<1> QED
  BY <1>1, <1>8, <1>11, <1>12 DEF BytesInv, StrictLimitUnreachable

(* Draining takes the batch and its bytes out.                              *)
LEMMA DrainKeepsBytes ==
  ASSUME TypeOK, BytesInv, TypeOK', Drain
  PROVE  BytesInv'
<1>1. UNCHANGED <<wpc, work, channel, result>> /\ result # "reorder_err"
  BY DEF Drain, worker_vars, channel_vars, BytesInv, StrictLimitUnreachable
<1>2. CASE next_seq \notin pending
  BY <1>1, <1>2, SizesKept DEF Drain, reorder_vars
<1>3. CASE next_seq \in pending
  <2> DEFINE c == next_seq
             sizes == [WaitingSizes EXCEPT ![c] = 0]
  <2>1. /\ pending' = pending \ {c}
        /\ reorder_bytes' = reorder_bytes - pending_batch[c].size
        /\ pending_batch' = [pending_batch EXCEPT ![c] = NoMessage]
    BY <1>3 DEF Drain
  <2>2. c \in 0..MaxChunks /\ pending \subseteq 0..MaxChunks
    BY <1>3 DEF TypeOK
  <2>3. \A d \in 0..MaxChunks : d # c => pending_batch'[d] = pending_batch[d]
    BY <2>1, <2>2 DEF TypeOK
  <2>4. WaitingSizes \in SizeMaps /\ WaitingSizes[c] = pending_batch[c].size
    BY <1>3, <2>2, WaitingSizesType
  <2>5. WaitingSizes' = sizes
    <3>1. WaitingSizes' =
            [d \in 0..MaxChunks |-> IF d = c THEN 0
                                    ELSE IF d \in pending THEN pending_batch[d].size ELSE 0]
      <4> HIDE DEF c
      <4> QED
        BY <2>1, <2>3 DEF WaitingSizes
    <3> QED
      BY <2>2, <3>1 DEF WaitingSizes
  <2>6. Total(sizes) + WaitingSizes[c] = Total(WaitingSizes) + 0
    <3> HIDE DEF c
    <3> QED
      BY <2>2, <2>4, TotalChange
  <2>7. sizes \in SizeMaps /\ WaitingSizes[c] \in Nat
    BY <2>2, <2>4 DEF SizeMaps
  <2>8. Total(sizes) \in Nat /\ Total(WaitingSizes) \in Nat
    <3> HIDE DEF sizes
    <3>1. \A s \in SizeMaps : Total(s) \in Nat
      <4>1. SUFFICES ASSUME NEW s \in SizeMaps PROVE Total(s) \in Nat
        OBVIOUS
      <4>2. PICK below \in [0..(MaxChunks + 1) -> Nat] : Total(s) = below[MaxChunks + 1]
        BY PartialSums
      <4> QED
        BY <4>2, ChunksAssumption
    <3> QED
      BY <2>4, <2>7, <3>1
  <2>9. reorder_bytes = Total(WaitingSizes)
    BY <1>1 DEF BytesInv, ReorderBytesExact
  <2>10. reorder_bytes' = Total(sizes)
    <3> HIDE DEF c, sizes
    <3> QED
      BY <2>1, <2>4, <2>6, <2>7, <2>8, <2>9
  <2>11. Total(WaitingSizes)' = Total(WaitingSizes')
    BY DEF Total
  <2>12. SizeInv'
    <3>1. \A d \in pending' : Fits(pending_batch'[d].size)
      BY <2>1, <2>2, <2>3 DEF BytesInv, SizeInv
    <3> QED
      BY <1>1, <3>1 DEF BytesInv, SizeInv, Fits
  <2> QED
    BY <1>1, <2>5, <2>10, <2>11, <2>12 DEF BytesInv, ReorderBytesExact, StrictLimitUnreachable
<1> QED
  BY <1>2, <1>3

\* Nothing waits at the start.
LEMMA InitBytes == Init => BytesInv
<1> SUFFICES ASSUME Init PROVE BytesInv
  OBVIOUS
<1> DEFINE zero == [c \in 0..MaxChunks |-> 0]
<1>1. WaitingSizes = zero
  BY DEF Init, WaitingSizes
<1>2. Total(zero) = 0
  <2>1. zero \in SizeMaps /\ \A c \in 0..MaxChunks : zero[c] = 0
    BY DEF SizeMaps
  <2> HIDE DEF zero
  <2>2. Total(zero) <= 0 * 0
    BY <2>1, TotalInWindow
  <2>3. PICK below \in [0..(MaxChunks + 1) -> Nat] : Total(zero) = below[MaxChunks + 1]
    BY <2>1, PartialSums
  <2> QED
    BY <2>2, <2>3, ChunksAssumption
<1>3. SizeInv
  BY DEF Init, SizeInv
<1> QED
  BY <1>1, <1>2, <1>3 DEF Init, BytesInv, ReorderBytesExact, StrictLimitUnreachable

\* Every step of the executor keeps the counter exact.
LEMMA NextKeepsBytes ==
  ASSUME IInv, BytesInv, IInv', [Next]_vars
  PROVE  BytesInv'
<1> USE DEF IInv
<1>1. ASSUME NEW u \in Workers, WorkerStep(u) PROVE BytesInv'
  BY <1>1, WorkerKeepsBytes
<1>2. CASE RecvBuffer
  BY <1>2, RecvBufferKeepsBytes
<1>3. CASE Drain
  BY <1>3, DrainKeepsBytes
<1>4. CASE \/ PlanStep \/ ConsumeStep \/ ExitStep \/ UNCHANGED vars
           \/ RecvError \/ RecvDeliver \/ RecvClosed \/ Publish \/ Notify
  <2>1. UNCHANGED <<pending, pending_batch, reorder_bytes, work>> /\ result' # "reorder_err"
    BY <1>4 DEF PlanStep, PlanEmpty, PlanChunks, PlanFails, ConsumeStep, ConsumeOk, ConsumeErr,
       ConsumePanic, ExitStep, HangUp, CloseDispatch, WakeWorkers, Join, RecvError, RecvDeliver,
       RecvClosed, Publish, Notify, Leave, vars, coord_vars, reorder_vars, worker_vars,
       BytesInv, StrictLimitUnreachable
  <2>2. \A w \in Workers : wpc'[w] = "send" => wpc[w] = "send"
    BY <1>4 DEF PlanStep, PlanEmpty, PlanChunks, PlanFails, ConsumeStep, ConsumeOk, ConsumeErr,
       ConsumePanic, ExitStep, HangUp, CloseDispatch, WakeWorkers, Join, RecvError, RecvDeliver,
       RecvClosed, Publish, Notify, notify_all, vars, worker_vars
  <2>3. \A i \in 1..Len(channel') : \E j \in 1..Len(channel) : channel'[i] = channel[j]
    <3>1. CASE channel' = channel
      BY <3>1
    <3>2. CASE channel' = <<>>
      BY <3>2
    <3>3. CASE channel # <<>> /\ channel' = Tail(channel)
      BY <3>3, RecvFacts
    <3> QED
      BY <1>4, <3>1, <3>2, <3>3 DEF PlanStep, PlanEmpty, PlanChunks, PlanFails, ConsumeStep,
         ConsumeOk, ConsumeErr, ConsumePanic, ExitStep, HangUp, CloseDispatch, WakeWorkers, Join,
         RecvError, RecvDeliver, RecvClosed, Publish, Notify, vars, channel_vars
  <2> QED
    BY <2>1, <2>2, <2>3, SizesKept
<1> QED
  BY <1>1, <1>2, <1>3, <1>4 DEF Next, Done, CoordinatorStep, LoopStep

(* The byte counter of the reorder buffer is the size of what waits in it,  *)
(* so its subtraction never wraps, for any sizes and any window.            *)
THEOREM ReorderBytesCounted == Spec => []ReorderBytesExact
<1>1. IInv /\ BytesInv /\ [Next]_vars => BytesInv'
  BY NextKeepsInv, NextKeepsBytes
<1>2. BytesInv => ReorderBytesExact
  BY DEF BytesInv
<1> QED
  BY InitBytes, InvariantHolds, <1>1, <1>2, PTL DEF Spec

(* A strict budget's reorder limit never fails a run: the dispatch window   *)
(* keeps the buffer below it.                                               *)
THEOREM StrictLimitNeverReached == Spec => []StrictLimitUnreachable
<1>1. IInv /\ BytesInv /\ [Next]_vars => BytesInv'
  BY NextKeepsInv, NextKeepsBytes
<1>2. BytesInv => StrictLimitUnreachable
  BY DEF BytesInv
<1> QED
  BY InitBytes, InvariantHolds, <1>1, <1>2, PTL DEF Spec

-----------------------------------------------------------------------------
(* The iterator around the executor, whenever the caller pulls or drops.    *)

(* Behind the iterator the executor takes its own steps and no others.      *)
LEMMA ExecutorSteps ==
  ASSUME [ItNext]_all_vars
  PROVE  [Next]_vars
<1>1. CASE ExecutorStep
  BY <1>1 DEF ExecutorStep, SendBatch, SendDisconnected, RunReturned, ReportError,
              RunUnwound, Next, CoordinatorStep, ConsumeStep
<1>2. ASSUME NEW w \in Workers, WorkerStep(w)
      PROVE  [Next]_vars
  BY <1>2 DEF Next
<1>3. CASE CallNext \/ InsideNext \/ DropIterator \/ ItDone \/ UNCHANGED all_vars
  BY <1>3 DEF CallNext, InsideNext, ReturnBatch, ReturnError, ReturnEnd, DropIterator,
              ItDone, all_vars
<1> QED
  BY <1>1, <1>2, <1>3 DEF ItNext

(* What the executor's part of a step leaves alone.                         *)
LEMMA RunStep ==
  ASSUME IInv, EndInv, (PlanStep \/ LoopStep \/ ExitStep) \/ \E w \in Workers : WorkerStep(w)
  PROVE  /\ UNCHANGED consumed
         /\ cpc \in {"returned", "unwound"} => UNCHANGED <<cpc, result, num_chunks>>
         /\ cpc # "plan" => UNCHANGED num_chunks /\ cpc' # "plan"
         /\ cpc' \notin {"plan", "returned", "unwound"} => num_chunks' > 0
<1>1. CASE PlanStep
  BY <1>1 DEF PlanStep, PlanEmpty, PlanChunks, PlanFails, EndInv
<1>2. CASE LoopStep
  BY <1>2 DEF LoopStep, RecvError, RecvDeliver, RecvBuffer, RecvClosed, Drain, Publish,
              Notify, Leave, chunk_vars, EndInv
<1>3. CASE ExitStep
  BY <1>3 DEF ExitStep, HangUp, CloseDispatch, WakeWorkers, Join, chunk_vars, EndInv
<1>4. ASSUME NEW w \in Workers, WorkerStep(w)
      PROVE  UNCHANGED <<num_chunks, cpc, result, consumed>>
  BY <1>4 DEF WorkerStep, Pop, Gate, Load, Read, Parse, ChunkFails, Send,
              SendFails, chunk_vars, coord_vars
<1> QED
  BY <1>1, <1>2, <1>3, <1>4 DEF EndInv

(* What the caller's channel holds and how long it is.                      *)
LEMMA ItemTypes ==
  ASSUME ItTypeOK
  PROVE  /\ it_channel \in Seq(Item) /\ Len(it_channel) \in Nat
         /\ \A i \in 1..Len(it_channel) : it_channel[i].ok \in BOOLEAN /\ it_channel[i].data \in Nat
         /\ yielded \in Seq(Nat) /\ Len(yielded) \in Nat
         /\ consumed \in Seq(0..MaxChunks) /\ Len(consumed) \in Nat
         /\ current.data \in 0..MaxChunks /\ current.data \in Nat
         /\ it_capacity \in Nat
<1>1. it_channel \in Seq(Item) /\ yielded \in Seq(Nat) /\ TypeOK
  BY DEF ItTypeOK
<1>2. \A i \in 1..Len(it_channel) : it_channel[i] \in Item
  BY <1>1, ElementOfSeq
<1>3. current.data \in 0..MaxChunks
  BY <1>1, MessageFields DEF TypeOK
<1>4. it_capacity \in Nat
  BY ThreadsAssumption DEF it_capacity
<1>5. Len(it_channel) \in Nat /\ Len(yielded) \in Nat
  BY <1>1, LenProperties
<1>6. consumed \in Seq(0..MaxChunks) /\ Len(consumed) \in Nat
  BY <1>1, StateTypes
<1>7. \A i \in 1..Len(it_channel) : it_channel[i].ok \in BOOLEAN /\ it_channel[i].data \in Nat
  BY <1>2 DEF Item
<1>8. current.data \in Nat
  BY <1>3, ChunksAssumption
<1> QED
  BY ONLY <1>1, <1>3, <1>4, <1>5, <1>6, <1>7, <1>8

(* The item the caller receives next, and what it leaves behind.            *)
LEMMA ItemHead ==
  ASSUME ItTypeOK, it_channel # <<>>
  PROVE  /\ Len(it_channel) \in Nat /\ Len(it_channel) > 0
         /\ Head(it_channel) = it_channel[1]
         /\ Tail(it_channel) \in Seq(Item)
         /\ Len(Tail(it_channel)) = Len(it_channel) - 1
         /\ \A i \in 1..Len(Tail(it_channel)) : Tail(it_channel)[i] = it_channel[i + 1]
<1>1. it_channel \in Seq(Item)
  BY DEF ItTypeOK
<1> QED
  BY <1>1, HeadTailProperties, EmptySeq

(* Sending makes the channel one longer, and not longer than it may be.     *)
LEMMA ItemSent ==
  ASSUME ItTypeOK, CanSend, NEW item \in Item
  PROVE  /\ Append(it_channel, item) \in Seq(Item)
         /\ Len(Append(it_channel, item)) = Len(it_channel) + 1
         /\ Len(it_channel) + 1 <= (IF it_capacity = 0 THEN 1 ELSE it_capacity)
         /\ \A i \in 1..Len(it_channel) : Append(it_channel, item)[i] = it_channel[i]
         /\ Append(it_channel, item)[Len(it_channel) + 1] = item
<1>1. it_channel \in Seq(Item) /\ Len(it_channel) \in Nat /\ it_capacity \in Nat
  BY ItemTypes
<1>2. it_channel = <<>> => Len(it_channel) = 0
  BY EmptySeq
<1>3. Len(it_channel) + 1 <= (IF it_capacity = 0 THEN 1 ELSE it_capacity)
  BY <1>1, <1>2 DEF CanSend
<1> QED
  BY <1>1, <1>3, AppendProperties

-----------------------------------------------------------------------------
(* The invariant, one lemma per action.                                     *)

\* The invariant of the composition holds at the start.
LEMMA ItInitInv == ItInit => ItIInv
<1> SUFFICES ASSUME ItInit
             PROVE  ItIInv
  OBVIOUS
<1> USE DEF ItInit
<1>1. IInv /\ TypeOK
  BY InitInv DEF IInv
<1>2. cpc = "plan" /\ consumed = <<>>
  BY DEF Init
<1>3. it_channel \in Seq(Item) /\ Len(it_channel) = 0 /\ yielded \in Seq(Nat) /\ Len(yielded) = 0
  BY EmptySeq
<1>4. ItTypeOK
  <2>1. it_capacity \in Nat
    BY ThreadsAssumption DEF it_capacity
  <2>2. Len(it_channel) <= (IF it_capacity = 0 THEN 1 ELSE it_capacity)
    BY <1>3, <2>1
  <2> QED
    BY <1>1, <1>3, <2>2 DEF ItTypeOK
<1>5. EndInv /\ DoneInv
  BY <1>2 DEF EndInv, DoneInv
<1>6. FlowInv
  BY <1>2, <1>3 DEF FlowInv, ErrorWaits
<1> QED
  BY <1>1, <1>4, <1>5, <1>6 DEF ItIInv

(* Whatever the executor does on its own, the caller's side stays.          *)
LEMMA RunKeepsInv ==
  ASSUME ItIInv, IInv', UNCHANGED it_vars,
         (PlanStep \/ LoopStep \/ ExitStep) \/ \E w \in Workers : WorkerStep(w)
  PROVE  ItIInv'
<1> USE DEF ItIInv, it_vars
<1>1. /\ UNCHANGED consumed
      /\ cpc \in {"returned", "unwound"} => UNCHANGED <<cpc, result, num_chunks>>
      /\ cpc' \notin {"plan", "returned", "unwound"} => num_chunks' > 0
  BY RunStep
<1>2. ItTypeOK'
  BY DEF ItTypeOK, IInv, it_capacity
<1>3. EndInv'
  BY <1>1 DEF EndInv
<1>4. FlowInv'
  BY <1>1 DEF FlowInv, ErrorWaits
<1>5. DoneInv'
  BY <1>1 DEF DoneInv, EndInv, ErrorWaits
<1> QED
  BY <1>2, <1>3, <1>4, <1>5

(* The batch just consumed is the last one waiting for the caller.          *)
LEMMA SendBatchKeepsInv ==
  ASSUME ItIInv, IInv', SendBatch
  PROVE  ItIInv'
<1> DEFINE item == BatchItem(current.data)
<1>1. /\ cpc = "consume" /\ cpc' \in {"drain", "recv"}
      /\ consumed' = Append(consumed, current.data)
      /\ it_channel' = Append(it_channel, item)
      /\ UNCHANGED <<num_chunks, result, exec_pc, caller, done, outcome, yielded>>
      /\ caller # "dropped" /\ CanSend
  BY DEF SendBatch, ConsumeOk, chunk_vars
<1>2. ItTypeOK /\ Len(it_channel) \in Nat /\ Len(yielded) \in Nat /\ Len(consumed) \in Nat
      /\ item \in Item /\ item.ok /\ item.data = current.data
  BY ItemTypes DEF ItIInv, Item, BatchItem
<1>3. /\ it_channel' \in Seq(Item) /\ Len(it_channel') = Len(it_channel) + 1
      /\ Len(it_channel') <= (IF it_capacity = 0 THEN 1 ELSE it_capacity)
      /\ \A i \in 1..Len(it_channel) : it_channel'[i] = it_channel[i]
      /\ it_channel'[Len(it_channel) + 1] = item
  BY <1>1, <1>2, ItemSent
<1>4. /\ Len(consumed') = Len(consumed) + 1
      /\ \A i \in 1..Len(consumed) : consumed'[i] = consumed[i]
      /\ consumed'[Len(consumed) + 1] = current.data
  BY <1>1, <1>2, ItemTypes, AppendProperties
<1>5. exec_pc = "run"
  BY <1>1 DEF ItIInv, EndInv, ItTypeOK
<1>6. ItTypeOK'
  BY <1>1, <1>3 DEF ItIInv, ItTypeOK, IInv, it_capacity
<1>7. EndInv' /\ DoneInv'
  BY <1>1, <1>5 DEF ItIInv, EndInv, DoneInv
<1>8. FlowInv'
  <2>1. \A i \in 1..Len(it_channel) : it_channel[i].ok
    BY <1>1, <1>5 DEF ItIInv, FlowInv
  <2>2. ~ErrorWaits
    <3>1. it_channel # <<>> => Len(it_channel) \in 1..Len(it_channel)
      BY <1>2, ItemHead
    <3> QED
      BY <2>1, <3>1 DEF ErrorWaits
  <2>3. ~ErrorWaits'
    <3>1. it_channel'[Len(it_channel')] = item
      BY <1>3
    <3> QED
      BY <1>2, <3>1 DEF ErrorWaits
  <2>4. Len(yielded) + Len(it_channel) = Len(consumed)
    BY <1>1, <1>2, <2>2 DEF ItIInv, FlowInv
  <2>5. \A i \in 1..Len(yielded) : yielded[i] = consumed'[i]
    BY <1>1, <1>2, <1>4, <2>4 DEF ItIInv, FlowInv
  <2>6. ASSUME NEW i \in 1..Len(it_channel')
        PROVE  it_channel'[i].ok /\ it_channel'[i].data = consumed'[Len(yielded) + i]
    <3>1. CASE i = Len(it_channel) + 1
      BY <1>2, <1>3, <1>4, <2>4, <3>1
    <3>2. CASE i # Len(it_channel) + 1
      <4>1. i \in 1..Len(it_channel) /\ Len(yielded) + i \in 1..Len(consumed)
        BY <1>2, <1>3, <2>4, <3>2
      <4>2. it_channel[i].ok /\ it_channel[i].data = consumed[Len(yielded) + i]
        BY <1>1, <2>1, <4>1 DEF ItIInv, FlowInv
      <4> QED
        BY <1>3, <1>4, <4>1, <4>2
    <3> QED
      BY <3>1, <3>2
  <2>7. yielded' = yielded
    BY <1>1
  <2>8. Len(it_channel') = Len(it_channel) + 1 /\ Len(consumed') = Len(consumed) + 1
    BY <1>3, <1>4
  <2> HIDE DEF item
  <2>9. Len(yielded') + Len(it_channel') = Len(consumed') + 0
    BY <1>2, <2>4, <2>7, <2>8
  <2> QED
    BY <2>3, <2>5, <2>6, <2>7, <2>9 DEF FlowInv
<1> QED
  BY <1>6, <1>7, <1>8 DEF ItIInv

(* The executor's thread ends, with nothing to report or with an error.     *)
LEMMA ThreadEndKeepsInv ==
  ASSUME ItIInv, IInv', RunReturned \/ RunUnwound
  PROVE  ItIInv'
<1> USE DEF ItIInv, RunReturned, RunUnwound
<1>1. UNCHANGED <<cpc, num_chunks, result, consumed, it_channel, caller, done, outcome, yielded>>
  BY DEF vars, chunk_vars, coord_vars
<1>2. exec_pc = "run" /\ exec_pc' \in {"exited", "report", "panicked"}
  OBVIOUS
<1>3. ItTypeOK'
  BY <1>1, <1>2 DEF ItTypeOK, IInv, it_capacity
<1>4. EndInv'
  BY <1>1 DEF EndInv
<1>5. FlowInv'
  BY <1>1, <1>2 DEF FlowInv, ErrorWaits
<1>6. DoneInv'
  BY <1>1, <1>2 DEF DoneInv, ErrorWaits
<1> QED
  BY <1>3, <1>4, <1>5, <1>6

(* The error comes after every batch.                                       *)
LEMMA ReportErrorKeepsInv ==
  ASSUME ItIInv, IInv', ReportError
  PROVE  ItIInv'
<1>1. /\ UNCHANGED <<cpc, num_chunks, result, consumed, caller, done, outcome, yielded>>
      /\ exec_pc = "report" /\ exec_pc' = "exited"
  BY DEF ReportError, vars, chunk_vars, coord_vars
<1>2. EndInv'
  BY <1>1 DEF ItIInv, EndInv
<1>3. CASE caller # "dropped" /\ CanSend /\ it_channel' = Append(it_channel, ErrItem)
  <2>1. ErrItem \in Item /\ ~ErrItem.ok
    BY DEF ErrItem, Item
  <2>2. /\ it_channel' \in Seq(Item) /\ Len(it_channel') = Len(it_channel) + 1
        /\ Len(it_channel') <= (IF it_capacity = 0 THEN 1 ELSE it_capacity)
        /\ \A i \in 1..Len(it_channel) : it_channel'[i] = it_channel[i]
        /\ it_channel'[Len(it_channel) + 1] = ErrItem
    BY <1>3, <2>1, ItemSent DEF ItIInv
  <2>3. Len(it_channel) \in Nat /\ Len(yielded) \in Nat /\ Len(consumed) \in Nat
    BY ItemTypes DEF ItIInv
  <2>4. ItTypeOK'
    BY <1>1, <2>2 DEF ItIInv, ItTypeOK, IInv, it_capacity
  <2>5. \A i \in 1..Len(it_channel) : it_channel[i].ok
    BY <1>1, <1>3 DEF ItIInv, FlowInv
  <2>6. ~ErrorWaits
    <3>1. it_channel # <<>> => Len(it_channel) \in 1..Len(it_channel)
      BY ItemHead DEF ItIInv
    <3> QED
      BY <2>5, <3>1 DEF ErrorWaits
  <2>7. ErrorWaits'
    <3>1. it_channel' # <<>>
      BY <2>2, <2>3, EmptySeq
    <3>2. it_channel'[Len(it_channel')] = ErrItem
      BY <2>2
    <3> QED
      BY <2>1, <3>1, <3>2 DEF ErrorWaits
  <2>8. Len(yielded) + Len(it_channel) = Len(consumed)
    BY <1>3, <2>3, <2>6 DEF ItIInv, FlowInv
  <2>9. \A i \in 1..Len(yielded) : yielded[i] = consumed[i]
    BY <1>3 DEF ItIInv, FlowInv
  <2>10. ASSUME NEW i \in 1..Len(it_channel')
         PROVE  IF it_channel'[i].ok THEN it_channel'[i].data = consumed[Len(yielded) + i]
                                     ELSE i = Len(it_channel')
    <3>1. CASE i \in 1..Len(it_channel)
      BY <1>3, <2>2, <2>5, <3>1 DEF ItIInv, FlowInv
    <3>2. CASE i = Len(it_channel) + 1
      BY <2>1, <2>2, <3>2
    <3> QED
      BY <2>2, <2>3, <3>1, <3>2
  <2>11. UNCHANGED <<yielded, consumed, caller>>
    BY <1>1
  <2>12. FlowInv'
    BY <1>1, <2>2, <2>3, <2>7, <2>8, <2>9, <2>10, <2>11 DEF FlowInv
  <2>13. DoneInv'
    BY <1>1, <2>7 DEF ItIInv, DoneInv
  <2> QED
    BY <1>2, <2>4, <2>12, <2>13 DEF ItIInv
<1>4. CASE caller = "dropped" /\ UNCHANGED it_channel
  <2>1. ItTypeOK'
    BY <1>1, <1>4 DEF ItIInv, ItTypeOK, IInv, it_capacity
  <2>2. FlowInv' /\ DoneInv'
    BY <1>1, <1>4 DEF ItIInv, FlowInv, DoneInv
  <2> QED
    BY <1>2, <2>1, <2>2 DEF ItIInv
<1> QED
  BY <1>3, <1>4 DEF ReportError

(* A batch moves from the channel to what was yielded.                      *)
LEMMA ReturnBatchKeepsInv ==
  ASSUME ItIInv, IInv', ReturnBatch
  PROVE  ItIInv'
<1>1. /\ UNCHANGED <<cpc, num_chunks, result, consumed, exec_pc, done, outcome>>
      /\ caller = "recv" /\ caller' = "idle" /\ it_channel # <<>> /\ Head(it_channel).ok
      /\ yielded' = Append(yielded, Head(it_channel).data)
      /\ it_channel' = Tail(it_channel)
  BY DEF ReturnBatch, vars, chunk_vars, coord_vars
<1>2. /\ Len(it_channel) \in Nat /\ Len(it_channel) > 0 /\ Head(it_channel) = it_channel[1]
      /\ it_channel' \in Seq(Item) /\ Len(it_channel') = Len(it_channel) - 1
      /\ \A i \in 1..Len(it_channel') : it_channel'[i] = it_channel[i + 1]
  BY <1>1, ItemHead DEF ItIInv
<1>3. /\ Len(yielded) \in Nat /\ Len(consumed) \in Nat /\ yielded \in Seq(Nat)
      /\ it_channel[1].data \in Nat /\ it_capacity \in Nat
  BY <1>2, ItemTypes DEF ItIInv
<1>4. /\ yielded' \in Seq(Nat) /\ Len(yielded') = Len(yielded) + 1
      /\ \A i \in 1..Len(yielded) : yielded'[i] = yielded[i]
      /\ yielded'[Len(yielded) + 1] = it_channel[1].data
  BY <1>1, <1>2, <1>3, AppendProperties
<1>5. ItTypeOK'
  BY <1>1, <1>2, <1>3, <1>4 DEF ItIInv, ItTypeOK, IInv, it_capacity
<1>6. EndInv'
  BY <1>1 DEF ItIInv, EndInv
<1>7. ErrorWaits' <=> ErrorWaits
  <2>1. CASE Len(it_channel) = 1
    <3>1. ~ErrorWaits
      BY <1>1, <1>2, <2>1 DEF ErrorWaits
    <3>2. it_channel' = <<>>
      BY <1>2, <2>1, EmptySeq
    <3> QED
      BY <3>1, <3>2 DEF ErrorWaits
  <2>2. CASE Len(it_channel) > 1
    <3>1. it_channel' # <<>> /\ it_channel'[Len(it_channel')] = it_channel[Len(it_channel)]
      BY <1>2, <2>2, EmptySeq
    <3> QED
      BY <1>1, <3>1 DEF ErrorWaits
  <2> QED
    BY <1>2, <2>1, <2>2
<1>8. FlowInv'
  <2>1. /\ Len(yielded) + Len(it_channel) = Len(consumed) + (IF ErrorWaits THEN 1 ELSE 0)
        /\ \A i \in 1..Len(yielded) : yielded[i] = consumed[i]
        /\ \A i \in 1..Len(it_channel) :
             IF it_channel[i].ok THEN it_channel[i].data = consumed[Len(yielded) + i]
                                 ELSE i = Len(it_channel) /\ exec_pc = "exited"
    BY <1>1 DEF ItIInv, FlowInv
  <2>2. Len(yielded') + Len(it_channel') = Len(consumed) + (IF ErrorWaits' THEN 1 ELSE 0)
    BY <1>2, <1>3, <1>4, <1>7, <2>1
  <2>3. ASSUME NEW i \in 1..Len(yielded')
        PROVE  yielded'[i] = consumed[i]
    <3>1. it_channel[1].data = consumed[Len(yielded) + 1]
      <4>1. 1 \in 1..Len(it_channel) /\ it_channel[1].ok
        BY <1>1, <1>2
      <4> QED
        BY <2>1, <4>1
    <3>2. CASE i \in 1..Len(yielded)
      BY <1>4, <2>1, <3>2
    <3>3. CASE i = Len(yielded) + 1
      BY <1>4, <3>1, <3>3
    <3> QED
      BY <1>3, <1>4, <3>2, <3>3
  <2>4. ASSUME NEW i \in 1..Len(it_channel')
        PROVE  IF it_channel'[i].ok THEN it_channel'[i].data = consumed[Len(yielded') + i]
                                    ELSE i = Len(it_channel') /\ exec_pc = "exited"
    <3>1. i + 1 \in 1..Len(it_channel) /\ it_channel'[i] = it_channel[i + 1]
      BY <1>2
    <3>2. Len(yielded') + i = Len(yielded) + (i + 1)
      BY <1>2, <1>3, <1>4
    <3>3. i + 1 = Len(it_channel) => i = Len(it_channel')
      BY <1>2
    <3> QED
      BY <2>1, <3>1, <3>2, <3>3
  <2>5. UNCHANGED <<consumed, exec_pc>>
    BY <1>1
  <2> QED
    BY <2>2, <2>3, <2>4, <2>5 DEF FlowInv
<1>9. DoneInv'
  BY <1>1, <1>7 DEF ItIInv, DoneInv
<1> QED
  BY <1>5, <1>6, <1>8, <1>9 DEF ItIInv

(* The caller's error is the last item, or the panic of the thread.         *)
LEMMA ReturnLastKeepsInv ==
  ASSUME ItIInv, IInv', ReturnError \/ ReturnEnd
  PROVE  ItIInv'
<1>1. /\ UNCHANGED <<cpc, num_chunks, result, consumed, exec_pc, yielded>>
      /\ caller = "recv" /\ caller' = "idle" /\ done' = TRUE /\ outcome' \in {"err", "end"}
  BY DEF ReturnError, ReturnEnd, EndOutcome, vars, chunk_vars, coord_vars
<1>2. EndInv'
  BY <1>1 DEF ItIInv, EndInv
<1>3. /\ Len(yielded) \in Nat /\ Len(consumed) \in Nat
      /\ it_channel \in Seq(Item) /\ Len(it_channel) \in Nat /\ it_capacity \in Nat
  BY ItemTypes DEF ItIInv
<1>4. CASE ReturnError
  <2>1. /\ it_channel # <<>> /\ ~Head(it_channel).ok /\ it_channel' = Tail(it_channel)
        /\ outcome' = "err"
    BY <1>4 DEF ReturnError
  <2>2. /\ Len(it_channel) > 0 /\ Head(it_channel) = it_channel[1]
        /\ it_channel' \in Seq(Item) /\ Len(it_channel') = Len(it_channel) - 1
    BY <2>1, ItemHead DEF ItIInv
  <2>3. Len(it_channel) = 1 /\ exec_pc = "exited"
    <3>1. 1 \in 1..Len(it_channel) /\ ~it_channel[1].ok
      BY <1>3, <2>1, <2>2
    <3> QED
      BY <1>1, <3>1 DEF ItIInv, FlowInv
  <2>4. it_channel' = <<>> /\ Len(it_channel') = 0 /\ ErrorWaits /\ ~ErrorWaits'
    BY <2>1, <2>2, <2>3, EmptySeq DEF ErrorWaits
  <2>5. ItTypeOK'
    BY <1>1, <1>3, <2>1, <2>2, <2>4 DEF ItIInv, ItTypeOK, IInv, it_capacity
  <2>6. FlowInv'
    BY <1>1, <1>3, <2>3, <2>4 DEF ItIInv, FlowInv
  <2>7. DoneInv'
    BY <1>1, <2>1, <2>3 DEF ItIInv, DoneInv
  <2> QED
    BY <1>2, <2>5, <2>6, <2>7 DEF ItIInv
<1>5. CASE ReturnEnd
  <2>1. UNCHANGED it_channel /\ it_channel = <<>> /\ exec_pc \in {"exited", "panicked"}
    BY <1>5 DEF ReturnEnd
  <2>2. ItTypeOK'
    BY <1>1, <2>1 DEF ItIInv, ItTypeOK, IInv, it_capacity
  <2>3. FlowInv'
    BY <1>1, <2>1 DEF ItIInv, FlowInv, ErrorWaits
  <2>4. DoneInv'
    BY <1>1, <2>1 DEF ItIInv, DoneInv, ErrorWaits
  <2> QED
    BY <1>2, <2>2, <2>3, <2>4 DEF ItIInv
<1> QED
  BY <1>4, <1>5

\* The steps of the caller, and of a send it does not hear.
LEMMA CallerKeepsInv ==
  ASSUME ItIInv, IInv', CallNext \/ DropIterator \/ SendDisconnected
  PROVE  ItIInv'
<1>1. UNCHANGED <<num_chunks, exec_pc, done, outcome, yielded, consumed>>
  BY DEF CallNext, DropIterator, SendDisconnected, ConsumeErr, Leave, it_vars, vars, chunk_vars,
         coord_vars
<1>2. /\ it_channel \in Seq(Item) /\ Len(it_channel) \in Nat /\ it_capacity \in Nat
      /\ <<>> \in Seq(Item) /\ Len(<<>>) = 0
  BY ItemTypes, EmptySeq DEF ItIInv
<1>3. CASE CallNext
  <2>1. UNCHANGED <<cpc, result, it_channel>> /\ caller = "idle" /\ caller' = "recv" /\ ~done
    BY <1>3 DEF CallNext, vars, coord_vars
  <2>2. ItTypeOK' /\ EndInv'
    BY <1>1, <2>1 DEF ItIInv, ItTypeOK, EndInv, IInv, it_capacity
  <2>3. FlowInv' /\ DoneInv'
    BY <1>1, <2>1 DEF ItIInv, FlowInv, DoneInv, ErrorWaits
  <2> QED
    BY <2>2, <2>3 DEF ItIInv
<1>4. CASE DropIterator
  <2>1. UNCHANGED <<cpc, result>> /\ caller' = "dropped" /\ it_channel' = <<>>
    BY <1>4 DEF DropIterator, vars, coord_vars
  <2>2. ItTypeOK' /\ EndInv'
    BY <1>1, <1>2, <2>1 DEF ItIInv, ItTypeOK, EndInv, IInv, it_capacity
  <2>3. FlowInv' /\ DoneInv'
    BY <1>1, <2>1 DEF ItIInv, FlowInv, DoneInv
  <2> QED
    BY <2>2, <2>3 DEF ItIInv
<1>5. CASE SendDisconnected
  <2>1. /\ cpc = "consume" /\ cpc' = "hangup" /\ caller = "dropped"
        /\ UNCHANGED <<it_channel, caller>>
    BY <1>5 DEF SendDisconnected, ConsumeErr, Leave, it_vars
  <2>2. ItTypeOK' /\ EndInv'
    BY <1>1, <2>1 DEF ItIInv, ItTypeOK, EndInv, IInv, it_capacity
  <2>3. FlowInv' /\ DoneInv'
    BY <1>1, <2>1 DEF ItIInv, FlowInv, DoneInv
  <2> QED
    BY <2>2, <2>3 DEF ItIInv
<1> QED
  BY <1>3, <1>4, <1>5

\* Every step of the composition keeps the invariant.
LEMMA ItNextKeepsInv ==
  ASSUME ItIInv, [ItNext]_all_vars
  PROVE  ItIInv'
<1>1. IInv'
  BY ExecutorSteps, NextKeepsInv DEF ItIInv
<1>2. CASE ExecutorStep
  BY <1>1, <1>2, RunKeepsInv, SendBatchKeepsInv, CallerKeepsInv, ThreadEndKeepsInv,
     ReportErrorKeepsInv DEF ExecutorStep
<1>3. ASSUME NEW w \in Workers, WorkerStep(w) /\ UNCHANGED it_vars
      PROVE  ItIInv'
  BY <1>1, <1>3, RunKeepsInv
<1>4. CASE CallNext \/ InsideNext \/ DropIterator
  BY <1>1, <1>4, CallerKeepsInv, ReturnBatchKeepsInv, ReturnLastKeepsInv DEF InsideNext
<1>5. CASE UNCHANGED all_vars
  <2>1. UNCHANGED <<cpc, num_chunks, result, consumed>> /\ UNCHANGED it_vars
    BY <1>5 DEF all_vars, vars, chunk_vars, coord_vars
  <2>2. ItTypeOK' /\ EndInv'
    BY <1>1, <2>1 DEF ItIInv, ItTypeOK, EndInv, IInv, it_capacity, it_vars
  <2>3. FlowInv' /\ DoneInv'
    BY <2>1 DEF ItIInv, FlowInv, DoneInv, ErrorWaits, it_vars
  <2> QED
    BY <1>1, <2>2, <2>3 DEF ItIInv
<1> QED
  BY <1>2, <1>3, <1>4, <1>5 DEF ItNext, ItDone

(* ItIInv is an inductive invariant of the executor behind its iterator.    *)
THEOREM IteratorInvariantHolds == ItSpec => []ItIInv
<1>1. ItIInv /\ [ItNext]_all_vars => ItIInv'
  BY ItNextKeepsInv
<1> QED
  BY ItInitInv, <1>1, PTL DEF ItSpec

(* Every variable of the iterator keeps its type, and the channel to the    *)
(* caller never holds more than 2 * threads items.                          *)
THEOREM IteratorTypeCorrect == ItSpec => []ItTypeOK
<1>1. ItIInv => ItTypeOK
  BY DEF ItIInv
<1> QED
  BY IteratorInvariantHolds, <1>1, PTL

-----------------------------------------------------------------------------
(* The caller's view.                                                       *)

(* A batch that arrives is a new one, of a planned chunk, in order.         *)
LEMMA ReturnBatchDelivers ==
  ASSUME ItIInv, ReturnBatch
  PROVE  \E c \in 0..(CallerTotal - 1) : CallerStream!Deliver(c)
<1> DEFINE k == Len(yielded) + 1
<1>1. /\ caller = "recv" /\ it_channel # <<>> /\ Head(it_channel).ok
      /\ yielded' = Append(yielded, Head(it_channel).data)
      /\ UNCHANGED <<cpc, num_chunks, result, outcome>>
  BY DEF ReturnBatch, vars, chunk_vars, coord_vars
<1>2. outcome = "none"
  BY <1>1 DEF ItIInv, DoneInv
<1>3. Len(it_channel) \in Nat /\ Len(it_channel) > 0 /\ Head(it_channel) = it_channel[1]
  BY <1>1, ItemHead DEF ItIInv
<1>4. Len(yielded) \in Nat /\ Len(consumed) \in Nat
  BY ItemTypes DEF ItIInv
<1>5. k \in 1..Len(consumed) /\ it_channel[1].data = consumed[k]
  <2>1. 1 \in 1..Len(it_channel) /\ it_channel[1].ok
    BY <1>1, <1>3
  <2>2. it_channel[1].data = consumed[k]
    BY <1>1, <2>1 DEF ItIInv, FlowInv
  <2>3. Len(it_channel) = 1 => ~ErrorWaits
    BY <2>1 DEF ErrorWaits
  <2>4. Len(yielded) + Len(it_channel) = Len(consumed) + (IF ErrorWaits THEN 1 ELSE 0)
    BY <1>1 DEF ItIInv, FlowInv
  <2>5. k <= Len(consumed)
    <3>1. CASE ErrorWaits
      <4>1. Len(it_channel) # 1 /\ Len(yielded) + Len(it_channel) = Len(consumed) + 1
        BY <2>3, <2>4, <3>1
      <4> HIDE DEF k
      <4>2. Len(yielded) + 1 <= Len(consumed)
        BY <1>3, <1>4, <4>1
      <4> QED
        BY <4>2 DEF k
    <3>2. CASE ~ErrorWaits
      BY <1>3, <1>4, <2>4, <3>2
    <3> QED
      BY <3>1, <3>2
  <2> QED
    BY <1>4, <2>2, <2>5
<1>6. /\ consumed[k] \in Nat /\ consumed[k] < num_chunks /\ num_chunks \in Nat
  BY <1>5, StateTypes DEF ItIInv, IInv, BoundInv
<1>7. CallerTotal = num_chunks /\ UNCHANGED CallerTotal
  BY <1>1, <1>6 DEF CallerTotal
<1>8. CallerStatus = "open" /\ UNCHANGED CallerStatus
  <2>1. cpc # "plan"
    BY <1>5, EmptySeq DEF ItIInv, IInv, PhaseInv
  <2> QED
    BY <1>1, <1>2, <2>1 DEF CallerStatus
<1>9. \A i \in 1..Len(yielded) : yielded[i] # consumed[k]
  <2>1. ASSUME NEW i \in 1..Len(yielded)
        PROVE  yielded[i] # consumed[k]
    <3>1. yielded[i] = consumed[i] /\ i \in 1..Len(consumed) /\ i # k
      BY <1>1, <1>4, <1>5 DEF ItIInv, FlowInv
    <3> QED
      BY <1>5, <3>1 DEF ItIInv, IInv, UniqueInv, ConsumedOnce
  <2> QED
    BY <2>1
<1>10. Ordered => consumed[k] = Len(yielded)
  BY <1>4, <1>5 DEF ItIInv, IInv, OrderInv
<1>11. CallerStream!Deliver(consumed[k])
  BY <1>1, <1>3, <1>5, <1>7, <1>8, <1>9, <1>10 DEF CallerStream!Deliver
<1> QED
  BY <1>6, <1>7, <1>11

(* None without an error comes only after the batches of all chunks.        *)
LEMMA ReturnEndFinishes ==
  ASSUME ItIInv, ReturnEnd
  PROVE  CallerStream!Finish \/ CallerStream!Fail
<1>1. /\ caller = "recv" /\ it_channel = <<>> /\ exec_pc \in {"exited", "panicked"}
      /\ outcome' = EndOutcome /\ UNCHANGED <<cpc, num_chunks, result, yielded>>
  BY DEF ReturnEnd, vars, chunk_vars, coord_vars
<1>2. outcome = "none"
  BY <1>1 DEF ItIInv, DoneInv
<1>3. CallerStatus = "open" /\ UNCHANGED CallerTotal /\ cpc' # "plan"
  BY <1>1, <1>2 DEF ItIInv, EndInv, CallerStatus, CallerTotal
<1>4. CASE exec_pc = "panicked"
  BY <1>1, <1>3, <1>4 DEF CallerStream!Fail, CallerStatus, EndOutcome
<1>5. CASE exec_pc = "exited"
  <2>1. result = "ok"
    BY <1>1, <1>2, <1>5 DEF ItIInv, DoneInv, ErrorWaits
  <2>2. CallerTotal = num_chunks
    BY <2>1 DEF CallerTotal
  <2>3. /\ Len(yielded) = Len(consumed)
        /\ \A i \in 1..Len(yielded) : yielded[i] = consumed[i]
    <3>1. Len(it_channel) = 0 /\ ~ErrorWaits /\ Len(yielded) \in Nat /\ Len(consumed) \in Nat
      BY <1>1, EmptySeq, ItemTypes DEF ErrorWaits, ItIInv
    <3> QED
      BY <1>1, <3>1 DEF ItIInv, FlowInv
  <2>4. \A c \in 0..(num_chunks - 1) : \E i \in 1..Len(yielded) : yielded[i] = c
    BY <2>1, <2>3 DEF ItIInv, IInv, CoverInv, OkMeansComplete, Chunks
  <2>5. CallerStatus' = "ok"
    BY <1>1, <1>3, <1>5 DEF CallerStatus, EndOutcome
  <2> QED
    BY <1>1, <1>3, <2>2, <2>4, <2>5 DEF CallerStream!Finish
<1> QED
  BY <1>1, <1>4, <1>5

(* What the caller sees is a stream of batches, for any number of threads:  *)
(* in order, none twice, and no error of a worker or panic of the thread is *)
(* taken for the end of the input (ParallelStreamingBatchIterator::next).   *)
THEOREM CallerGetsStream ==
  ASSUME MaxChunks > 0
  PROVE  ItSpec => CallerSeesStream
<1> USE DEF CallerStream!vars
<1>1. ItInit => CallerStream!Init
  BY DEF ItInit, Init, CallerStream!Init, CallerTotal, CallerStatus
<1>2. ASSUME ItIInv, [ItNext]_all_vars
      PROVE  [CallerStream!Next]_(CallerStream!vars)
  <2>1. ASSUME PlanStep, UNCHANGED it_vars
        PROVE  CallerStream!Next
    <3>1. cpc = "plan" /\ num_chunks = 0 /\ cpc' # "plan" /\ UNCHANGED <<yielded, outcome>>
      BY <1>2, <2>1 DEF PlanStep, PlanEmpty, PlanChunks, PlanFails, it_vars, ItIInv, IInv, PhaseInv
    <3>2. outcome = "none"
      BY <1>2, <3>1 DEF ItIInv, DoneInv, EndInv, ItTypeOK
    <3>3. CallerStatus = "planning" /\ CallerStatus' = "open"
      BY <3>1, <3>2 DEF CallerStatus
    <3>4. CallerTotal' \in 0..MaxChunks
      <4>1. \/ num_chunks' = 0
            \/ num_chunks' \in 1..MaxChunks
        BY <2>1, <3>1 DEF PlanStep, PlanEmpty, PlanChunks, PlanFails, chunk_vars
      <4>2. 0 \in 0..MaxChunks /\ 1 \in 0..MaxChunks /\ 1..MaxChunks \subseteq 0..MaxChunks
        BY ChunksAssumption
      <4> QED
        BY <4>1, <4>2 DEF CallerTotal
    <3>5. CallerStream!Plan(CallerTotal')
      BY <3>1, <3>3 DEF CallerStream!Plan
    <3> QED
      BY <3>4, <3>5 DEF CallerStream!Next
  <2>2. ASSUME (LoopStep \/ ExitStep) \/ (\E w \in Workers : WorkerStep(w)), UNCHANGED it_vars
        PROVE  UNCHANGED CallerStream!vars
    <3>1. UNCHANGED <<yielded, outcome>>
      BY <2>2 DEF it_vars
    <3>2. /\ cpc \in {"returned", "unwound"} => UNCHANGED <<cpc, result, num_chunks>>
          /\ cpc # "plan" => UNCHANGED num_chunks /\ cpc' # "plan"
      BY <1>2, <2>2, RunStep DEF ItIInv
    <3>3. cpc = "plan" => UNCHANGED <<cpc, result, num_chunks>>
      BY <2>2 DEF LoopStep, RecvError, RecvDeliver, RecvBuffer, RecvClosed, Drain, Publish,
                  Notify, ExitStep, HangUp, CloseDispatch, WakeWorkers, Join, WorkerStep, Pop,
                  Gate, Load, Read, Parse, ChunkFails, Send, SendFails, chunk_vars, coord_vars
    <3>4. cpc \notin {"plan", "returned", "unwound"} => num_chunks > 0
      BY <1>2 DEF ItIInv, EndInv
    <3>5. num_chunks \in Nat
      BY <1>2, StateTypes DEF ItIInv, IInv
    <3>6. UNCHANGED CallerTotal
      <4>1. CASE num_chunks > 0
        <5>1. num_chunks # 0 /\ num_chunks' = num_chunks
          BY <3>2, <3>3, <3>5, <4>1
        <5> QED
          BY <5>1 DEF CallerTotal
      <4>2. CASE ~(num_chunks > 0)
        <5>1. num_chunks' = num_chunks /\ result' = result
          BY <3>2, <3>3, <3>4, <4>2
        <5> QED
          BY <5>1 DEF CallerTotal
      <4> QED
        BY <4>1, <4>2
    <3>7. UNCHANGED CallerStatus
      <4>1. (cpc = "plan") <=> (cpc' = "plan")
        BY <3>2, <3>3
      <4>2. outcome' = outcome
        BY <3>1
      <4> QED
        BY <4>1, <4>2 DEF CallerStatus
    <3> QED
      BY <3>1, <3>6, <3>7
  <2>3. CASE SendBatch \/ SendDisconnected
    <3>1. /\ cpc = "consume" /\ cpc' # "plan" /\ UNCHANGED <<num_chunks, yielded, outcome>>
      BY <2>3 DEF SendBatch, ConsumeOk, SendDisconnected, ConsumeErr, Leave, it_vars, chunk_vars
    <3>2. num_chunks > 0 /\ num_chunks \in Nat
      BY <1>2, <3>1, StateTypes DEF ItIInv, IInv, EndInv
    <3>3. UNCHANGED CallerTotal
      BY <3>1, <3>2 DEF CallerTotal
    <3>4. UNCHANGED CallerStatus
      BY <3>1 DEF CallerStatus
    <3> QED
      BY <3>1, <3>3, <3>4
  <2>4. CASE RunReturned \/ RunUnwound \/ ReportError \/ CallNext \/ DropIterator
    <3>1. UNCHANGED <<cpc, result, num_chunks, outcome, yielded>>
      BY <2>4 DEF RunReturned, RunUnwound, ReportError, CallNext, DropIterator, vars, chunk_vars,
                  coord_vars
    <3> QED
      BY <3>1 DEF CallerTotal, CallerStatus
  <2>5. CASE ReturnBatch
    BY <1>2, <2>5, ReturnBatchDelivers DEF CallerStream!Next
  <2>6. CASE ReturnEnd
    BY <1>2, <2>6, ReturnEndFinishes DEF CallerStream!Next
  <2>7. CASE ReturnError
    <3>1. /\ caller = "recv" /\ outcome' = "err" /\ UNCHANGED <<cpc, num_chunks, result, yielded>>
      BY <2>7 DEF ReturnError, vars, chunk_vars, coord_vars
    <3>2. outcome = "none"
      BY <1>2, <3>1 DEF ItIInv, DoneInv
    <3>3. cpc # "plan"
      <4>1. 1 \in 1..Len(it_channel) /\ ~it_channel[1].ok
        BY <1>2, <2>7, ItemHead DEF ItIInv, ReturnError
      <4>2. exec_pc = "exited"
        BY <1>2, <3>1, <4>1 DEF ItIInv, FlowInv
      <4> QED
        BY <1>2, <4>2 DEF ItIInv, EndInv
    <3>4. CallerStream!Fail
      BY <3>1, <3>2, <3>3 DEF CallerStream!Fail, CallerStatus, CallerTotal
    <3> QED
      BY <3>4 DEF CallerStream!Next
  <2>8. CASE UNCHANGED all_vars
    BY <2>8 DEF all_vars, it_vars, vars, chunk_vars, coord_vars, CallerTotal, CallerStatus
  <2> QED
    BY <1>2, <2>1, <2>2, <2>3, <2>4, <2>5, <2>6, <2>7, <2>8
    DEF ItNext, ExecutorStep, InsideNext, ItDone
<1> QED
  BY <1>1, <1>2, IteratorInvariantHolds, PTL DEF ItSpec, CallerSeesStream
=============================================================================
