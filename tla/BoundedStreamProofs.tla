------------------------- MODULE BoundedStreamProofs -------------------------
(***************************************************************************)
(* Proofs about BoundedStream for every budget, every batch size it leads  *)
(* to, any number of rows and every failure.                               *)
(***************************************************************************)
EXTENDS BoundedStream, FiniteSetTheorems, TLAPS

(* The divisions of run_slice_spill give a batch of at least one row, the   *)
(* estimate of the splitter being as it may.                                *)
LEMMA BatchSize ==
  ASSUME NEW estimate \in Estimates, NEW length \in Lengths
  PROVE  /\ RowsPerBatch(estimate, length) \in Nat
         /\ RowsPerBatch(estimate, length) >= 1
         /\ Oversize(estimate) \in BOOLEAN
<1> USE DEF Larger, Smaller
<1>1. estimate \in Nat /\ length \in Nat
  BY InputAssumption
<1>2. bytes_per_row(estimate) \in Nat /\ bytes_per_row(estimate) >= 1
  BY <1>1 DEF bytes_per_row
<1>3. batch_target_bytes \in Nat /\ batch_target_bytes >= 1
  BY BudgetAssumption DEF batch_target_bytes, budget_bytes
<1>4. /\ batch_target_bytes \div bytes_per_row(estimate) \in Int
      /\ length \div bytes_per_row(estimate) \in Int
  BY <1>1, <1>2, <1>3
<1> QED
  BY <1>2, <1>3, <1>4 DEF RowsPerBatch, Oversize, MIN_ROWS_OVERSIZE_BATCH

(* Where end_row leaves the thread.                                         *)
LEMMA AfterRowCases ==
  ASSUME NEW rows, NEW full \in BOOLEAN
  PROVE  \/ AfterRow(rows, full) = "spill" /\ rows # {} /\ error = "none"
         \/ /\ AfterRow(rows, full) = "parse"
            /\ \/ rows = {} \/ error # "none"
               \/ ~(Cardinality(rows) >= rows_per_batch)
  BY DEF AfterRow, should_spill

(* Sets of rows are finite.                                                 *)
LEMMA RowSets ==
  ASSUME NEW rows \in SUBSET Rows
  PROVE  IsFiniteSet(rows) /\ Cardinality(rows) \in Nat
<1>1. IsFiniteSet(Rows)
  BY InputAssumption, FS_Interval DEF Rows
<1> QED
  BY <1>1, FS_Subset, FS_CardinalityType

(* One row more makes a set longer by one at most.                          *)
LEMMA OneMoreRow ==
  ASSUME NEW rows \in SUBSET Rows, NEW r
  PROVE  Cardinality(rows \cup {r}) <= Cardinality(rows) + 1
<1>1. IsFiniteSet(rows) /\ Cardinality(rows) \in Nat
  BY RowSets
<1>2. \/ Cardinality(rows \cup {r}) = Cardinality(rows)
      \/ Cardinality(rows \cup {r}) = Cardinality(rows) + 1
  BY <1>1, FS_AddElement
<1> QED
  BY <1>1, <1>2

-----------------------------------------------------------------------------
(* Every step keeps the types.                                               *)
LEMMA TypeStep ==
  ASSUME TypeOK, [Next]_vars
  PROVE  TypeOK'
<1> USE InputAssumption
<1> USE DEF TypeOK, sink_vars, input_vars, thread_vars, caller_vars, ThreadStates, Rows
<1>1. CASE StartEmpty
  BY <1>1 DEF StartEmpty
<1>2. CASE StartFails
  BY <1>2 DEF StartFails
<1>3. ASSUME NEW estimate \in Estimates, NEW length \in Lengths,
              StartParse(estimate, length)
       PROVE  TypeOK'
  BY <1>3, BatchSize DEF StartParse
<1>4. ASSUME NEW full \in BOOLEAN,
              AcceptRow(full)
       PROVE  TypeOK'
  BY <1>4, AfterRowCases DEF AcceptRow
<1>5. ASSUME NEW full \in BOOLEAN,
              RejectRow(full)
       PROVE  TypeOK'
  BY <1>5, AfterRowCases DEF RejectRow
<1>6. ASSUME NEW full \in BOOLEAN, NEW counted \in BOOLEAN,
              RefuseRow(counted, full)
       PROVE  TypeOK'
  BY <1>6, AfterRowCases DEF RefuseRow
<1>7. CASE ParserReturns
  BY <1>7 DEF ParserReturns
<1>8. CASE ParserFails
  BY <1>8 DEF ParserFails
<1>9. CASE SpillBatch
  BY <1>9 DEF SpillBatch
<1>10. CASE SpillFails
  BY <1>10 DEF SpillFails, AfterSpill
<1>11. CASE SpillPanics
  BY <1>11 DEF SpillPanics
<1>12. CASE SendBatch
  BY <1>12 DEF SendBatch, AfterSpill, BatchMessage
<1>13. CASE SendDisconnected
  BY <1>13 DEF SendDisconnected, AfterSpill
<1>14. CASE FinishRun
  BY <1>14 DEF FinishRun
<1>15. CASE Settle
  BY <1>15 DEF Settle
<1>16. CASE ReportError
  BY <1>16 DEF ReportError, ErrMessage
<1>17. CASE CallNext
  BY <1>17 DEF CallNext
<1>18. CASE ReturnItem
  BY <1>18 DEF ReturnItem, NoMessage
<1>19. CASE ReturnEnd
  BY <1>19 DEF ReturnEnd
<1>20. CASE DropIterator
  BY <1>20 DEF DropIterator, NoMessage
<1>21. CASE UNCHANGED vars
  BY <1>21 DEF vars
<1> QED
  BY <1>1, <1>2, <1>3, <1>4, <1>5, <1>6, <1>7, <1>8, <1>9, <1>10, <1>11,
     <1>12, <1>13, <1>14, <1>15, <1>16, <1>17, <1>18, <1>19, <1>20, <1>21
  DEF Next, ThreadStep, StartStep, ParseStep, SpillStep, InsideNext, Done

(* Every step keeps what the thread holds at each point.                     *)
LEMMA PhaseStep ==
  ASSUME TypeOK, PhaseInv, [Next]_vars
  PROVE  PhaseInv'
<1> USE DEF TypeOK, PhaseInv, sink_vars, input_vars, thread_vars, caller_vars, NoMessage
<1>1. CASE StartEmpty
  BY <1>1 DEF StartEmpty
<1>2. CASE StartFails
  BY <1>2 DEF StartFails
<1>3. ASSUME NEW estimate \in Estimates, NEW length \in Lengths,
              StartParse(estimate, length)
       PROVE  PhaseInv'
  BY <1>3 DEF StartParse
<1>4. ASSUME NEW full \in BOOLEAN,
              AcceptRow(full)
       PROVE  PhaseInv'
  BY <1>4, AfterRowCases DEF AcceptRow
<1>5. ASSUME NEW full \in BOOLEAN,
              RejectRow(full)
       PROVE  PhaseInv'
  BY <1>5, AfterRowCases DEF RejectRow
<1>6. ASSUME NEW full \in BOOLEAN, NEW counted \in BOOLEAN,
              RefuseRow(counted, full)
       PROVE  PhaseInv'
  BY <1>6, AfterRowCases DEF RefuseRow
<1>7. CASE ParserReturns
  BY <1>7 DEF ParserReturns
<1>8. CASE ParserFails
  BY <1>8 DEF ParserFails
<1>9. CASE SpillBatch
  BY <1>9 DEF SpillBatch
<1>10. CASE SpillFails
  BY <1>10 DEF SpillFails, AfterSpill
<1>11. CASE SpillPanics
  BY <1>11 DEF SpillPanics
<1>12. CASE SendBatch
  BY <1>12 DEF SendBatch, AfterSpill, BatchMessage
<1>13. CASE SendDisconnected
  BY <1>13 DEF SendDisconnected, AfterSpill
<1>14. CASE FinishRun
  BY <1>14 DEF FinishRun
<1>15. CASE Settle
  BY <1>15 DEF Settle
<1>16. CASE ReportError
  BY <1>16 DEF ReportError, ErrMessage
<1>17. CASE CallNext
  BY <1>17 DEF CallNext
<1>18. CASE ReturnItem
  BY <1>18 DEF ReturnItem
<1>19. CASE ReturnEnd
  BY <1>19 DEF ReturnEnd
<1>20. CASE DropIterator
  BY <1>20 DEF DropIterator
<1>21. CASE UNCHANGED vars
  BY <1>21 DEF vars
<1> QED
  BY <1>1, <1>2, <1>3, <1>4, <1>5, <1>6, <1>7, <1>8, <1>9, <1>10, <1>11,
     <1>12, <1>13, <1>14, <1>15, <1>16, <1>17, <1>18, <1>19, <1>20, <1>21
  DEF Next, ThreadStep, StartStep, ParseStep, SpillStep, InsideNext, Done

(* Every step keeps the order of the rows.                                   *)
LEMMA OrderStep ==
  ASSUME TypeOK, PhaseInv, OrderInv, [Next]_vars
  PROVE  OrderInv'
<1> USE InputAssumption
<1> USE DEF TypeOK, PhaseInv, OrderInv, Rows, sink_vars, input_vars, thread_vars, caller_vars, NoMessage
<1>1. CASE StartEmpty
  BY <1>1 DEF StartEmpty
<1>2. CASE StartFails
  BY <1>2 DEF StartFails
<1>3. ASSUME NEW estimate \in Estimates, NEW length \in Lengths,
              StartParse(estimate, length)
       PROVE  OrderInv'
  BY <1>3 DEF StartParse
<1>4. ASSUME NEW full \in BOOLEAN,
              AcceptRow(full)
       PROVE  OrderInv'
  BY <1>4 DEF AcceptRow
<1>5. ASSUME NEW full \in BOOLEAN,
              RejectRow(full)
       PROVE  OrderInv'
  BY <1>5 DEF RejectRow
<1>6. ASSUME NEW full \in BOOLEAN, NEW counted \in BOOLEAN,
              RefuseRow(counted, full)
       PROVE  OrderInv'
  BY <1>6 DEF RefuseRow
<1>7. CASE ParserReturns
  BY <1>7 DEF ParserReturns
<1>8. CASE ParserFails
  BY <1>8 DEF ParserFails
<1>9. CASE SpillBatch
  BY <1>9 DEF SpillBatch
<1>10. CASE SpillFails
  BY <1>10 DEF SpillFails
<1>11. CASE SpillPanics
  BY <1>11 DEF SpillPanics
<1>12. CASE SendBatch
  BY <1>12 DEF SendBatch, BatchMessage
<1>13. CASE SendDisconnected
  BY <1>13 DEF SendDisconnected
<1>14. CASE FinishRun
  BY <1>14 DEF FinishRun
<1>15. CASE Settle
  BY <1>15 DEF Settle
<1>16. CASE ReportError
  BY <1>16 DEF ReportError, ErrMessage
<1>17. CASE CallNext
  BY <1>17 DEF CallNext
<1>18. CASE ReturnItem
  BY <1>18 DEF ReturnItem
<1>19. CASE ReturnEnd
  BY <1>19 DEF ReturnEnd
<1>20. CASE DropIterator
  BY <1>20 DEF DropIterator
<1>21. CASE UNCHANGED vars
  BY <1>21 DEF vars
<1> QED
  BY <1>1, <1>2, <1>3, <1>4, <1>5, <1>6, <1>7, <1>8, <1>9, <1>10, <1>11,
     <1>12, <1>13, <1>14, <1>15, <1>16, <1>17, <1>18, <1>19, <1>20, <1>21
  DEF Next, ThreadStep, StartStep, ParseStep, SpillStep, InsideNext, Done

(* Every step keeps rows from getting lost unseen.                           *)
LEMMA CoverStep ==
  ASSUME TypeOK, PhaseInv, CoverInv, [Next]_vars
  PROVE  CoverInv'
<1> USE InputAssumption
<1> USE DEF TypeOK, PhaseInv, CoverInv, Sent, Rows, sink_vars, input_vars, thread_vars, caller_vars, NoMessage
<1>1. CASE StartEmpty
  BY <1>1 DEF StartEmpty
<1>2. CASE StartFails
  BY <1>2 DEF StartFails
<1>3. ASSUME NEW estimate \in Estimates, NEW length \in Lengths,
              StartParse(estimate, length)
       PROVE  CoverInv'
  BY <1>3 DEF StartParse
<1>4. ASSUME NEW full \in BOOLEAN,
              AcceptRow(full)
       PROVE  CoverInv'
  BY <1>4 DEF AcceptRow
<1>5. ASSUME NEW full \in BOOLEAN,
              RejectRow(full)
       PROVE  CoverInv'
  BY <1>5 DEF RejectRow
<1>6. ASSUME NEW full \in BOOLEAN, NEW counted \in BOOLEAN,
              RefuseRow(counted, full)
       PROVE  CoverInv'
  BY <1>6 DEF RefuseRow
<1>7. CASE ParserReturns
  BY <1>7 DEF ParserReturns
<1>8. CASE ParserFails
  BY <1>8 DEF ParserFails
<1>9. CASE SpillBatch
  BY <1>9 DEF SpillBatch
<1>10. CASE SpillFails
  BY <1>10 DEF SpillFails
<1>11. CASE SpillPanics
  BY <1>11 DEF SpillPanics
<1>12. CASE SendBatch
  BY <1>12 DEF SendBatch, BatchMessage
<1>13. CASE SendDisconnected
  BY <1>13 DEF SendDisconnected
<1>14. CASE FinishRun
  BY <1>14 DEF FinishRun
<1>15. CASE Settle
  BY <1>15 DEF Settle
<1>16. CASE ReportError
  BY <1>16 DEF ReportError, ErrMessage
<1>17. CASE CallNext
  BY <1>17 DEF CallNext
<1>18. CASE ReturnItem
  BY <1>18 DEF ReturnItem
<1>19. CASE ReturnEnd
  BY <1>19 DEF ReturnEnd
<1>20. CASE DropIterator
  BY <1>20 DEF DropIterator
<1>21. CASE UNCHANGED vars
  BY <1>21 DEF vars
<1> QED
  BY <1>1, <1>2, <1>3, <1>4, <1>5, <1>6, <1>7, <1>8, <1>9, <1>10, <1>11,
     <1>12, <1>13, <1>14, <1>15, <1>16, <1>17, <1>18, <1>19, <1>20, <1>21
  DEF Next, ThreadStep, StartStep, ParseStep, SpillStep, InsideNext, Done

(* Every step keeps what a run that ends has done.                           *)
LEMMA TailStep ==
  ASSUME TypeOK, PhaseInv, TailInv, [Next]_vars
  PROVE  TailInv'
<1> USE DEF TypeOK, PhaseInv, TailInv, sink_vars, input_vars, thread_vars, caller_vars, NoMessage
<1>1. CASE StartEmpty
  BY <1>1 DEF StartEmpty
<1>2. CASE StartFails
  BY <1>2 DEF StartFails
<1>3. ASSUME NEW estimate \in Estimates, NEW length \in Lengths,
              StartParse(estimate, length)
       PROVE  TailInv'
  BY <1>3 DEF StartParse
<1>4. ASSUME NEW full \in BOOLEAN,
              AcceptRow(full)
       PROVE  TailInv'
  BY <1>4, AfterRowCases DEF AcceptRow
<1>5. ASSUME NEW full \in BOOLEAN,
              RejectRow(full)
       PROVE  TailInv'
  BY <1>5, AfterRowCases DEF RejectRow
<1>6. ASSUME NEW full \in BOOLEAN, NEW counted \in BOOLEAN,
              RefuseRow(counted, full)
       PROVE  TailInv'
  BY <1>6, AfterRowCases DEF RefuseRow
<1>7. CASE ParserReturns
  BY <1>7 DEF ParserReturns
<1>8. CASE ParserFails
  BY <1>8 DEF ParserFails
<1>9. CASE SpillBatch
  BY <1>9 DEF SpillBatch
<1>10. CASE SpillFails
  BY <1>10 DEF SpillFails, AfterSpill
<1>11. CASE SpillPanics
  BY <1>11 DEF SpillPanics
<1>12. CASE SendBatch
  BY <1>12 DEF SendBatch, AfterSpill, BatchMessage
<1>13. CASE SendDisconnected
  BY <1>13 DEF SendDisconnected, AfterSpill
<1>14. CASE FinishRun
  BY <1>14 DEF FinishRun
<1>15. CASE Settle
  BY <1>15 DEF Settle
<1>16. CASE ReportError
  BY <1>16 DEF ReportError, ErrMessage
<1>17. CASE CallNext
  BY <1>17 DEF CallNext
<1>18. CASE ReturnItem
  BY <1>18 DEF ReturnItem
<1>19. CASE ReturnEnd
  BY <1>19 DEF ReturnEnd
<1>20. CASE DropIterator
  BY <1>20 DEF DropIterator
<1>21. CASE UNCHANGED vars
  BY <1>21 DEF vars
<1> QED
  BY <1>1, <1>2, <1>3, <1>4, <1>5, <1>6, <1>7, <1>8, <1>9, <1>10, <1>11,
     <1>12, <1>13, <1>14, <1>15, <1>16, <1>17, <1>18, <1>19, <1>20, <1>21
  DEF Next, ThreadStep, StartStep, ParseStep, SpillStep, InsideNext, Done

(* Every step keeps batches short.                                           *)
LEMMA HeldStep ==
  ASSUME TypeOK, PhaseInv, OrderInv, HeldInv, [Next]_vars
  PROVE  HeldInv'
<1> USE RowSets, FS_EmptySet
<1> USE DEF TypeOK, PhaseInv, HeldInv, BatchBounded, sink_vars, input_vars, thread_vars, caller_vars, NoMessage
<1>1. CASE StartEmpty
  BY <1>1 DEF StartEmpty
<1>2. CASE StartFails
  BY <1>2 DEF StartFails
<1>3. ASSUME NEW estimate \in Estimates, NEW length \in Lengths,
              StartParse(estimate, length)
       PROVE  HeldInv'
  BY <1>3, BatchSize DEF StartParse, OrderInv
<1>4. ASSUME NEW full \in BOOLEAN,
              AcceptRow(full)
       PROVE  HeldInv'
  <2>1. Cardinality(engine') <= Cardinality(engine) + 1
    BY <1>4, OneMoreRow DEF AcceptRow
  <2>2. /\ error' = error /\ rows_per_batch' = rows_per_batch
        /\ batch' = batch /\ slot' = slot
        /\ pc = "parse" /\ pc' = AfterRow(engine', full)
    BY <1>4 DEF AcceptRow
  <2>3. /\ Cardinality(engine) \in Nat /\ Cardinality(engine') \in Nat
        /\ Cardinality({}) = 0
    BY <1>4, TypeStep
  <2>4. error = "none" => Cardinality(engine') <= rows_per_batch
    BY <2>1, <2>2, <2>3
  <2>5. pc' = "parse" /\ error = "none" => Cardinality(engine') < rows_per_batch
    <3>1. \/ pc' = "spill"
          \/ engine' = {} \/ error # "none"
          \/ ~(Cardinality(engine') >= rows_per_batch)
      BY <2>2, AfterRowCases
    <3> QED
      BY <2>3, <3>1
  <2>6. BatchBounded'
    BY <2>2, <2>4
  <2>7. pc' = "parse" /\ error' = "none" => Cardinality(engine') < rows_per_batch'
    BY <2>2, <2>5
  <2> QED
    BY <2>2, <2>6, <2>7
<1>5. ASSUME NEW full \in BOOLEAN,
              RejectRow(full)
       PROVE  HeldInv'
  BY <1>5, AfterRowCases DEF RejectRow
<1>6. ASSUME NEW full \in BOOLEAN, NEW counted \in BOOLEAN,
              RefuseRow(counted, full)
       PROVE  HeldInv'
  <2>1. engine' = engine \/ Cardinality(engine') <= Cardinality(engine) + 1
    BY <1>6, OneMoreRow DEF RefuseRow
  <2>2. /\ error' = error /\ rows_per_batch' = rows_per_batch
        /\ batch' = batch /\ slot' = slot
        /\ pc = "parse" /\ pc' = AfterRow(engine', full)
    BY <1>6 DEF RefuseRow
  <2>3. /\ Cardinality(engine) \in Nat /\ Cardinality(engine') \in Nat
        /\ Cardinality({}) = 0
    BY <1>6, TypeStep
  <2>4. error = "none" => Cardinality(engine') <= rows_per_batch
    BY <2>1, <2>2, <2>3
  <2>5. pc' = "parse" /\ error = "none" => Cardinality(engine') < rows_per_batch
    <3>1. \/ pc' = "spill"
          \/ engine' = {} \/ error # "none"
          \/ ~(Cardinality(engine') >= rows_per_batch)
      BY <2>2, AfterRowCases
    <3> QED
      BY <2>3, <3>1
  <2>6. BatchBounded'
    BY <2>2, <2>4
  <2>7. pc' = "parse" /\ error' = "none" => Cardinality(engine') < rows_per_batch'
    BY <2>2, <2>5
  <2> QED
    BY <2>2, <2>6, <2>7
<1>7. CASE ParserReturns
  BY <1>7 DEF ParserReturns
<1>8. CASE ParserFails
  BY <1>8 DEF ParserFails
<1>9. CASE SpillBatch
  BY <1>9 DEF SpillBatch
<1>10. CASE SpillFails
  BY <1>10 DEF SpillFails, AfterSpill
<1>11. CASE SpillPanics
  BY <1>11 DEF SpillPanics
<1>12. CASE SendBatch
  BY <1>12 DEF SendBatch, AfterSpill, BatchMessage
<1>13. CASE SendDisconnected
  BY <1>13 DEF SendDisconnected, AfterSpill
<1>14. CASE FinishRun
  BY <1>14 DEF FinishRun
<1>15. CASE Settle
  BY <1>15 DEF Settle
<1>16. CASE ReportError
  BY <1>16 DEF ReportError, ErrMessage
<1>17. CASE CallNext
  BY <1>17 DEF CallNext
<1>18. CASE ReturnItem
  BY <1>18 DEF ReturnItem
<1>19. CASE ReturnEnd
  BY <1>19 DEF ReturnEnd
<1>20. CASE DropIterator
  BY <1>20 DEF DropIterator
<1>21. CASE UNCHANGED vars
  BY <1>21 DEF vars
<1> QED
  BY <1>1, <1>2, <1>3, <1>4, <1>5, <1>6, <1>7, <1>8, <1>9, <1>10, <1>11,
     <1>12, <1>13, <1>14, <1>15, <1>16, <1>17, <1>18, <1>19, <1>20, <1>21
  DEF Next, ThreadStep, StartStep, ParseStep, SpillStep, InsideNext, Done

(* Every step keeps gaps out of what was sent.                               *)
LEMMA NoGapStep ==
  ASSUME TypeOK, PhaseInv, OrderInv, CoverInv, NoGap, [Next]_vars
  PROVE  NoGap'
<1> USE InputAssumption
<1> USE DEF TypeOK, PhaseInv, NoGap, Sent, sink_vars, input_vars, thread_vars, caller_vars, NoMessage
<1>1. CASE StartEmpty
  BY <1>1 DEF StartEmpty
<1>2. CASE StartFails
  BY <1>2 DEF StartFails
<1>3. ASSUME NEW estimate \in Estimates, NEW length \in Lengths,
              StartParse(estimate, length)
       PROVE  NoGap'
  BY <1>3 DEF StartParse
<1>4. ASSUME NEW full \in BOOLEAN,
              AcceptRow(full)
       PROVE  NoGap'
  BY <1>4 DEF AcceptRow
<1>5. ASSUME NEW full \in BOOLEAN,
              RejectRow(full)
       PROVE  NoGap'
  BY <1>5 DEF RejectRow
<1>6. ASSUME NEW full \in BOOLEAN, NEW counted \in BOOLEAN,
              RefuseRow(counted, full)
       PROVE  NoGap'
  BY <1>6 DEF RefuseRow
<1>7. CASE ParserReturns
  BY <1>7 DEF ParserReturns
<1>8. CASE ParserFails
  BY <1>8 DEF ParserFails
<1>9. CASE SpillBatch
  BY <1>9 DEF SpillBatch, OrderInv, CoverInv, Rows
<1>10. CASE SpillFails
  BY <1>10 DEF SpillFails
<1>11. CASE SpillPanics
  BY <1>11 DEF SpillPanics
<1>12. CASE SendBatch
  BY <1>12 DEF SendBatch, BatchMessage
<1>13. CASE SendDisconnected
  BY <1>13 DEF SendDisconnected
<1>14. CASE FinishRun
  BY <1>14 DEF FinishRun
<1>15. CASE Settle
  BY <1>15 DEF Settle
<1>16. CASE ReportError
  BY <1>16 DEF ReportError, ErrMessage
<1>17. CASE CallNext
  BY <1>17 DEF CallNext
<1>18. CASE ReturnItem
  BY <1>18 DEF ReturnItem
<1>19. CASE ReturnEnd
  BY <1>19 DEF ReturnEnd
<1>20. CASE DropIterator
  BY <1>20 DEF DropIterator
<1>21. CASE UNCHANGED vars
  BY <1>21 DEF vars
<1> QED
  BY <1>1, <1>2, <1>3, <1>4, <1>5, <1>6, <1>7, <1>8, <1>9, <1>10, <1>11,
     <1>12, <1>13, <1>14, <1>15, <1>16, <1>17, <1>18, <1>19, <1>20, <1>21
  DEF Next, ThreadStep, StartStep, ParseStep, SpillStep, InsideNext, Done

-----------------------------------------------------------------------------
(* The inductive invariant holds initially.                                 *)
LEMMA InvariantInit == Init => IInv
<1> SUFFICES ASSUME Init PROVE IInv
  OBVIOUS
<1> USE InputAssumption DEF Init, NoMessage
<1>1. TypeOK
  <2>1. slot \in [kind : {"none", "batch", "err"}, rows : SUBSET Rows]
    OBVIOUS
  <2>2. total \in 0..MaxRows /\ parsed \in 0..total
    OBVIOUS
  <2> QED
    BY <2>1, <2>2 DEF TypeOK, ThreadStates
<1>2. PhaseInv /\ OrderInv /\ CoverInv /\ TailInv
  BY DEF PhaseInv, OrderInv, CoverInv, TailInv, Sent
<1>3. HeldInv
  BY FS_EmptySet DEF HeldInv, BatchBounded
<1>4. NoGap
  BY DEF NoGap, Sent
<1> QED
  BY <1>1, <1>2, <1>3, <1>4 DEF IInv

(* Every state of a bounded stream keeps the types, whatever the budget and *)
(* whatever fails.                                                          *)
THEOREM TypeCorrect == Spec => []TypeOK
<1>1. Init => TypeOK
  BY InvariantInit DEF IInv
<1>2. TypeOK /\ [Next]_vars => TypeOK'
  BY TypeStep
<1> QED
  BY <1>1, <1>2, PTL DEF Spec

(* The sink, the thread and the channel between them and the caller satisfy *)
(* the inductive invariant.                                                 *)
THEOREM InvariantHolds == Spec => []IInv
<1>1. IInv /\ [Next]_vars => IInv'
  <2> SUFFICES ASSUME IInv, [Next]_vars PROVE IInv'
    OBVIOUS
  <2>1. TypeOK' /\ PhaseInv'
    BY TypeStep, PhaseStep DEF IInv
  <2>2. OrderInv' /\ CoverInv' /\ TailInv'
    BY OrderStep, CoverStep, TailStep DEF IInv
  <2>3. HeldInv' /\ NoGap'
    BY HeldStep, NoGapStep DEF IInv
  <2> QED
    BY <2>1, <2>2, <2>3 DEF IInv
<1> QED
  BY InvariantInit, <1>1, PTL DEF Spec

(* After a batch was lost SpillSink sends no other: the caller never has a  *)
(* table with a hole in it that no error of the builder accounts for.       *)
THEOREM NoGapEver == Spec => []NoGap
<1>1. IInv => NoGap
  BY DEF IInv
<1> QED
  BY <1>1, InvariantHolds, PTL

(* should_spill keeps every batch, and the builder, within rows_per_batch   *)
(* rows, the oversize regime and zero estimates included.                   *)
THEOREM BatchesBounded == Spec => []BatchBounded
<1>1. IInv => BatchBounded
  BY DEF IInv, HeldInv
<1> QED
  BY <1>1, InvariantHolds, PTL

-----------------------------------------------------------------------------
(* The initial states are those of the abstract stream.                     *)
LEMMA ReaderInit == Init => Reader!Init
  BY DEF Init, Reader!Init, ReaderStatus

(* What a receive that returns means to the reader.                         *)
LEMMA ReturnItemReads ==
  ASSUME IInv, ReturnItem
  PROVE  Reader!Next
<1> USE DEF IInv, ReturnItem, ReaderStatus, input_vars
<1>1. ~failed /\ ~ended
  BY DEF PhaseInv
<1>2. CASE slot.kind = "err"
  <2>1. slot.rows = {}
    BY <1>2 DEF PhaseInv
  <2>2. Reader!Fail
    BY <1>1, <1>2, <2>1 DEF Reader!Fail
  <2> QED
    BY <2>2 DEF Reader!Next
<1>3. CASE slot.kind # "err"
  <2>1. slot.kind = "batch" /\ slot.rows # {}
    BY <1>3 DEF TypeOK, PhaseInv
  <2>2. slot.rows \in SUBSET (1..total)
    BY DEF TypeOK, OrderInv
  <2>3. Reader!Deliver(slot.rows)
    BY <1>1, <2>1 DEF OrderInv, Reader!Deliver, TypeOK
  <2> QED
    BY <2>2, <2>3 DEF Reader!Next
<1> QED
  BY <1>2, <1>3

(* What the end of the channel means to the reader.                         *)
LEMMA ReturnEndReads ==
  ASSUME IInv, ReturnEnd
  PROVE  [Reader!Next]_(Reader!vars)
<1> USE DEF IInv, ReturnEnd, ReaderStatus, input_vars, Reader!vars
<1>1. ~ended
  BY DEF PhaseInv
<1>2. CASE failed
  BY <1>1, <1>2 DEF TypeOK
<1>3. CASE ~failed /\ pc = "panicked"
  BY <1>1, <1>3 DEF Reader!Fail, Reader!Next
<1>4. CASE ~failed /\ pc = "exited"
  <2>1. parsed = total /\ engine = {} /\ error = "none" /\ row_error = "none"
    BY <1>4 DEF TailInv, NoMessage
  <2>2. refused = {}
    BY <2>1 DEF CoverInv
  <2>3. slot.rows = {} /\ batch = {}
    BY <1>4 DEF PhaseInv, NoMessage
  <2>4. yielded = 1..total
    <3>1. 1..total \subseteq yielded
      BY <2>1, <2>2, <2>3 DEF CoverInv, Sent
    <3>2. yielded \subseteq 1..total
      BY <2>1 DEF OrderInv
    <3> QED
      BY <3>1, <3>2
  <2>5. Reader!Finish
    BY <1>1, <1>4, <2>4 DEF Reader!Finish
  <2> QED
    BY <2>5 DEF Reader!Next
<1> QED
  BY <1>2, <1>3, <1>4

(* All that happens elsewhere is invisible to the reader.                   *)
LEMMA ReaderStep ==
  ASSUME IInv, [Next]_vars
  PROVE  [Reader!Next]_(Reader!vars)
<1>1. CASE ReturnItem
  BY <1>1, ReturnItemReads
<1>2. CASE ReturnEnd
  BY <1>2, ReturnEndReads
<1>3. CASE ThreadStep
  <2>1. UNCHANGED <<total, yielded, failed, ended>>
    BY <1>3
    DEF ThreadStep, StartStep, ParseStep, SpillStep, StartEmpty, StartFails,
        StartParse, AcceptRow, RejectRow, RefuseRow, ParserReturns,
        ParserFails, SpillBatch, SpillFails, SpillPanics, SendBatch,
        SendDisconnected, FinishRun, Settle, ReportError, sink_vars,
        input_vars, caller_vars
  <2> QED
    BY <2>1 DEF Reader!vars, ReaderStatus
<1>4. CASE CallNext \/ DropIterator \/ Done \/ UNCHANGED vars
  <2>1. UNCHANGED <<total, yielded, failed, ended>>
    BY <1>4 DEF CallNext, DropIterator, Done, vars, input_vars, caller_vars
  <2> QED
    BY <2>1 DEF Reader!vars, ReaderStatus
<1> QED
  BY <1>1, <1>2, <1>3, <1>4 DEF Next, InsideNext

(* run_stream behind StreamingBatchIterator implements the abstract stream  *)
(* of rows: in order, none twice, complete unless an error came first.      *)
THEOREM StreamRefinement == Spec => ImplementsRows
<1>1. IInv /\ [Next]_vars => [Reader!Next]_(Reader!vars)
  BY ReaderStep
<1> QED
  BY ReaderInit, <1>1, InvariantHolds, PTL DEF Spec, ImplementsRows, Reader!Spec
=============================================================================
