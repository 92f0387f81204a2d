----------------------------- MODULE BatchStream -----------------------------
(***************************************************************************)
(* What a stream of batches promises whoever receives it, however many     *)
(* threads produce it: once the input is planned into total chunks, their  *)
(* batches arrive one at a time, each at most once, in input order when    *)
(* the stream is ordered; the stream may fail at any time, and may only    *)
(* end with "ok" when every chunk has arrived.  After the end nothing      *)
(* arrives any more.                                                       *)
(***************************************************************************)
EXTENDS Integers, Sequences

CONSTANTS Ordered, MaxChunks

VARIABLES
  total,      \* number of chunks of the input
  delivered,  \* the chunks whose batches have arrived, in order of arrival
  status      \* "planning", "open", "ok" or "failed"

vars == <<total, delivered, status>>

Init == total = 0 /\ delivered = <<>> /\ status = "planning"

\* An input without chunks may end the stream at once.
Plan(k) ==
  /\ status = "planning"
  /\ total' = k
  /\ status' = "open" \/ (k = 0 /\ status' = "ok")
  /\ UNCHANGED delivered

Deliver(c) ==
  /\ status = "open"
  /\ \A i \in 1..Len(delivered) : delivered[i] # c
  /\ Ordered => c = Len(delivered)
  /\ delivered' = Append(delivered, c)
  /\ UNCHANGED <<total, status>>

Finish ==
  /\ status = "open"
  /\ \A c \in 0..(total - 1) : \E i \in 1..Len(delivered) : delivered[i] = c
  /\ status' = "ok"
  /\ UNCHANGED <<total, delivered>>

Fail ==
  /\ status \in {"planning", "open"}
  /\ status' = "failed"
  /\ UNCHANGED <<total, delivered>>

Next ==
  \/ \E k \in 0..MaxChunks : Plan(k)
  \/ \E c \in 0..(total - 1) : Deliver(c)
  \/ Finish
  \/ Fail

Spec == Init /\ [][Next]_vars
=============================================================================
