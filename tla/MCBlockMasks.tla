---------------------------- MODULE MCBlockMasks ----------------------------
(* Short buffers over two kinds of quotes, a delimiter and other bytes.    *)
EXTENDS BlockMasks

Strings(alphabet, longest) == UNION {[1..n -> alphabet] : n \in 0..longest}

\* A second block cut short, and three blocks with a quote that
\* may end in any of them.
Short ==
  Strings({">", "q", "r"}, 5)
    \cup {[i \in 1..9 |-> IF i \in {3, q} THEN "q" ELSE ">"] : q \in 2..9}
    \cup {b \in [1..6 -> {">", "r", "."}] : Cardinality({i \in 1..6 : b[i] = "."}) = 5}

Quoting == {{"q", "r"}}
Sets == {{">", "q"}}
=============================================================================
