------------------------------ MODULE Selection ------------------------------
(***************************************************************************)
(* What loops over columns, chunks and rows choose from a sequence: the    *)
(* elements at some positions, and the elements that were not seen before  *)
(* (order and seen in engines_to_record_batches,                           *)
(* crates/rypipe-core/src/merge.rs).                                       *)
(***************************************************************************)
EXTENDS Naturals, Sequences, SequencesExt

\* The elements of s at some positions, in their order.
Picked(s, positions) ==
  LET upto[i \in 0..Len(s)] ==
        IF i = 0 THEN <<>>
        ELSE IF i \in positions THEN Append(upto[i - 1], s[i]) ELSE upto[i - 1]
  IN upto[Len(s)]

\* The elements of s, each where it comes first.
Firsts(s) ==
  LET seen[i \in 0..Len(s)] ==
        IF i = 0 THEN <<>>
        ELSE LET before == seen[i - 1]
             IN IF s[i] \in ToSet(before) THEN before ELSE Append(before, s[i])
  IN seen[Len(s)]
=============================================================================
