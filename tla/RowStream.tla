------------------------------ MODULE RowStream ------------------------------
(***************************************************************************)
(* What a stream of rows cut into batches promises its reader: the rows    *)
(* of the input arrive in batches, in input order, none twice; the stream  *)
(* may fail at any time and ends with "ok" only when every row arrived.    *)
(* Rows are numbered from 1; within a batch they are in order.             *)
(***************************************************************************)
EXTENDS Integers

CONSTANT MaxRows

VARIABLES
  total,      \* number of rows of the input
  delivered,  \* the rows that have arrived
  status      \* "open", "ok" or "failed"

vars == <<total, delivered, status>>

Init == total \in 0..MaxRows /\ delivered = {} /\ status = "open"

Deliver(rows) ==
  /\ status = "open"
  /\ rows # {}
  /\ \A r \in rows, d \in delivered : d < r
  /\ delivered' = delivered \cup rows
  /\ UNCHANGED <<total, status>>

Finish ==
  /\ status = "open"
  /\ delivered = 1..total
  /\ status' = "ok"
  /\ UNCHANGED <<total, delivered>>

Fail ==
  /\ status = "open"
  /\ status' = "failed"
  /\ UNCHANGED <<total, delivered>>

Next ==
  \/ \E rows \in SUBSET (1..total) : Deliver(rows)
  \/ Finish
  \/ Fail

Spec == Init /\ [][Next]_vars
=============================================================================
