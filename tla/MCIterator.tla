----------------------------- MODULE MCIterator -----------------------------
(* The iterator with the options that its constructor gives the executor.  *)
EXTENDS ParallelIterator

ASSUME IteratorAssumption == IteratorOptions
=============================================================================
