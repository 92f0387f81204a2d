----------------------------- MODULE BlockMasks -----------------------------
(***************************************************************************)
(* Delimiter search by block (crates/rypipe-core/src/block_masks.rs). One  *)
(* block of the buffer is loaded at a time and a bitmask per delimiter is  *)
(* computed when a query first needs it; a query that skips quoted regions *)
(* also carries its quote state from call to call. A bitmask is the set of *)
(* its bits.                                                               *)
(***************************************************************************)
EXTENDS Naturals, Sequences, FiniteSets, FiniteSetsExt

CONSTANTS
  Width,      \* bytes of a block, 64 in the code
  Lane,       \* bytes of one SIMD register, 16 or 32
  Delims,     \* the delimiters
  QuoteSets,  \* the choices of quote characters
  Buffers,    \* the buffers searched
  Sentinel,   \* usize::MAX: beyond every position
  AnyOf,      \* the sets of delimiters asked of next_any
  None,       \* no position, and no quote
  AnyOrder    \* next_unquoted may go on after another query left its block

ASSUME BlockMasksAssumption ==
  /\ Width \in 1..64 /\ Lane \in Nat \ {0} /\ Width % Lane = 0
  /\ IsFiniteSet(Delims)
  /\ \A quotes \in QuoteSets : quotes \subseteq Delims
  /\ \A ds \in AnyOf : ds \subseteq Delims
  /\ \A b \in Buffers : Len(b) \in Nat /\ Len(b) <= Sentinel
  /\ Sentinel \in Nat /\ None \notin Nat /\ None \notin Delims

VARIABLES
  buf, quotes,
  self,    \* the BlockMasks value
  agrees,  \* history: the last query returned what a byte-by-byte scan finds
  origin   \* history: where the quote state was last taken to be outside

vars == <<buf, quotes, self, agrees, origin>>


build == [base |-> Sentinel, loaded |-> FALSE, computed |-> {},
          masks |-> [d \in Delims |-> {}], in_quote |-> None, quote_pos |-> 0]

Init ==
  /\ buf \in Buffers /\ quotes \in QuoteSets
  /\ self = build
  /\ agrees = TRUE /\ origin = 0

At(p) == buf[p + 1]

-----------------------------------------------------------------------------
(* Bitmasks of one block.                                                  *)

Bits == 0..(Width - 1)

\* The bits from pos on: none once pos is past the block.
from_mask(pos) == {i \in Bits : i >= pos}

Shifted(m, k) == {i + k : i \in m} \cap Bits
Xor(m, n) == (m \ n) \cup (n \ m)

XorShifted(m, k) == Xor(m, Shifted(m, k))

\* Bit i of the result is the parity of the bits up to i: the six shifts reach
\* back over 64 of them.
prefix_xor(m) ==
  XorShifted(XorShifted(XorShifted(XorShifted(XorShifted(XorShifted(
    m, 1), 2), 4), 8), 16), 32)

\* One comparison per register, each shifted to its place.
mask64(block, d) ==
  UNION {Shifted({i \in 0..(Lane - 1) : block[k * Lane + i] = d}, k * Lane)
           : k \in 0..(Width \div Lane - 1)}

\* The last block is padded with zeros, and the mask cut to what is there.
compute_one(base, d) ==
  LET block == [i \in Bits |-> IF base + i < Len(buf) THEN At(base + i) ELSE "NUL"]
  IN {i \in mask64(block, d) : base + i < Len(buf)}

fill(base) == [d \in Delims |-> compute_one(base, d)]

-----------------------------------------------------------------------------
(* The loaded block.                                                       *)

\* A plausible slip: masks of the block before stay valid.
load_at_stale(s, base) == [s EXCEPT !.base = base, !.loaded = TRUE]

load_at(s, base) == [s EXCEPT !.base = base, !.loaded = TRUE, !.computed = {}]

BlockOf(p) == p - (p % Width)

select_block(s, from) ==
  IF BlockOf(from) # s.base \/ ~s.loaded THEN load_at(s, BlockOf(from)) ELSE s

Outside(s, p) == p < s.base \/ p >= s.base + Width

CanAdvance(s) == s.base + Width < Len(buf)
advance_block(s) == load_at(s, s.base + Width)

mask_for(s, d) ==
  IF d \in s.computed THEN s
  ELSE [s EXCEPT !.masks[d] = compute_one(s.base, d), !.computed = @ \cup {d}]

ensure_all(s) ==
  IF s.computed = Delims THEN s
  ELSE [s EXCEPT !.masks = fill(s.base), !.computed = Delims]

\* cur - self.base: below the block it wraps to beyond it.
Offset(s, p) == IF p < s.base THEN Width ELSE p - s.base

-----------------------------------------------------------------------------
(* Queries: one turn of the loop per block.                                *)

Unfinished(s, from) == [s |-> s, at |-> from, done |-> FALSE, found |-> None]

Returns(s, found) == [s |-> s, at |-> 0, done |-> TRUE, found |-> found]

AdvanceOr(s, end) ==
  IF CanAdvance(s) THEN Unfinished(advance_block(s), s.base + Width)
  ELSE Returns(end, None)

NextTurn(l, d) ==
  LET s == mask_for(IF Outside(l.s, l.at) THEN select_block(l.s, l.at) ELSE l.s, d)
      hits == s.masks[d] \cap from_mask(l.at - s.base)
  IN IF hits # {} THEN Returns(s, s.base + Min(hits)) ELSE AdvanceOr(s, s)

NextAnyTurn(l, ds) ==
  LET s == ensure_all(IF Outside(l.s, l.at) THEN select_block(l.s, l.at) ELSE l.s)
      hits == (UNION {s.masks[d] : d \in ds}) \cap from_mask(l.at - s.base)
      first == CHOOSE d \in ds : Min(hits) \in s.masks[d]
  IN IF hits # {} THEN Returns(s, <<s.base + Min(hits), first>>) ELSE AdvanceOr(s, s)

\* The quote types left in the block.
single_quote_remaining(s, pos) ==
  {q \in quotes : s.masks[q] \cap from_mask(pos) # {}}

\* One type of quote is left: its parity says what is inside.
FastScan(s, offset, q, d) ==
  LET qmask == s.masks[q] \cap from_mask(offset)
      hits == (s.masks[d] \cap from_mask(offset)) \ prefix_xor(qmask)
      odd == Cardinality(qmask) % 2 = 1
  IN IF hits # {} THEN [in_quote |-> None, hit |-> Min(hits), done |-> TRUE]
     ELSE [in_quote |-> IF odd THEN q ELSE None, hit |-> None, done |-> TRUE]

\* One quote event: only the type that opened a region closes it.
WalkEvent(s, w, d) ==
  LET rest == from_mask(w.pos)
      g == s.masks[d] \cap rest
      q == (UNION {s.masks[k] : k \in quotes}) \cap rest
      c == s.masks[w.in_quote] \cap rest
  IN IF w.in_quote = None
       THEN IF g # {} /\ (q = {} \/ Min(g) < Min(q)) THEN [w EXCEPT !.hit = Min(g), !.done = TRUE]
            ELSE IF q = {} THEN [w EXCEPT !.done = TRUE]
            ELSE [w EXCEPT !.in_quote = CHOOSE k \in quotes : Min(q) \in s.masks[k],
                           !.pos = Min(q) + 1]
     ELSE IF c = {} THEN [w EXCEPT !.done = TRUE]
     ELSE [w EXCEPT !.in_quote = None, !.pos = Min(c) + 1]

\* Every event but the last moves on by a byte at least.
Walk(s, start, d) ==
  LET walked[k \in 0..(Width + 1)] ==
        IF k = 0 THEN start
        ELSE LET w == walked[k - 1] IN IF w.done THEN w ELSE WalkEvent(s, w, d)
  IN walked[Width + 1]

scan_block_unquoted(s, offset, d) ==
  LET single == single_quote_remaining(s, offset)
  IN IF s.in_quote = None /\ Cardinality(single) = 1
       THEN FastScan(s, offset, CHOOSE q \in single : TRUE, d)
     ELSE Walk(s, [in_quote |-> s.in_quote, pos |-> offset, hit |-> None, done |-> FALSE], d)

UnquotedTurn(l, d) ==
  LET s == ensure_all(l.s)
      scan == scan_block_unquoted(s, Offset(s, l.at), d)
      t == [s EXCEPT !.in_quote = scan.in_quote]
      p == s.base + scan.hit
  IN IF scan.hit # None THEN Returns([t EXCEPT !.quote_pos = p + 1], p)
     ELSE AdvanceOr([t EXCEPT !.quote_pos = s.base + Width],
                    [t EXCEPT !.quote_pos = s.base + Width])

Turn(query, what, l) ==
  CASE query = "next" -> NextTurn(l, what)
    [] query = "next_any" -> NextAnyTurn(l, what)
    [] query = "next_unquoted" -> UnquotedTurn(l, what)

\* A turn that does not end moves to the next block, and there are no more
\* blocks than bytes.
Loop(query, what, start) ==
  LET turn[k \in 0..Len(buf)] ==
        IF k = 0 THEN start
        ELSE LET l == turn[k - 1] IN IF l.done THEN l ELSE Turn(query, what, l)
  IN turn[Len(buf)]

-----------------------------------------------------------------------------
(* What a query must return: the buffer read byte by byte.                 *)

Positions(from) == from..(Len(buf) - 1)

FirstOf(P) == IF P = {} THEN None ELSE Min(P)

\* What byte c makes of the open quote a.
AfterByte(a, c) ==
  IF a = None THEN (IF c \in quotes THEN c ELSE None) ELSE IF c = a THEN None ELSE a

\* The quote that is open before p, when none was at o.
Active(o, p) ==
  LET open[k \in 0..Len(buf)] ==
        IF k <= o THEN None ELSE AfterByte(open[k - 1], At(k - 1))
  IN open[p]

-----------------------------------------------------------------------------

Answer(result, expected) ==
  /\ self' = result.s /\ agrees' = (result.found = expected)
  /\ UNCHANGED <<buf, quotes>>

next(from, d) ==
  /\ Answer(IF from >= Len(buf) THEN Returns(self, None)
            ELSE Loop("next", d, Unfinished(self, from)),
            FirstOf({p \in Positions(from) : At(p) = d}))
  /\ UNCHANGED origin

next_any(from, ds) ==
  LET found == {p \in Positions(from) : At(p) \in ds}
  IN /\ Answer(IF from >= Len(buf) THEN Returns(self, None)
               ELSE Loop("next_any", ds, Unfinished(self, from)),
               IF found = {} THEN None ELSE <<Min(found), At(Min(found))>>)
     /\ UNCHANGED origin

\* The block the quote state belongs to is the one that is loaded.
BlockKept(from) ==
  self.loaded /\ from = self.quote_pos =>
    self.base <= from /\ from <= self.base + Width

\* A call that does not go on where the last one ended starts afresh.
next_unquoted(from, d) ==
  LET fresh == ~self.loaded \/ from # self.quote_pos
      start == IF fresh
                 THEN load_at([self EXCEPT !.in_quote = None, !.quote_pos = from], BlockOf(from))
                 ELSE self
  IN /\ quotes # {} /\ from < Len(buf)
     /\ AnyOrder \/ BlockKept(from)
     /\ origin' = IF fresh THEN from ELSE origin
     /\ Answer(Loop("next_unquoted", d, Unfinished(start, from)),
               FirstOf({p \in Positions(from) : At(p) = d /\ Active(origin', p) = None}))

\* No quotes: a plain query. Past the end: nothing.
next_unquoted_plain(from, d) ==
  /\ quotes = {} \/ from >= Len(buf)
  /\ next(from, d)

\* A distant match is left to memchr, which does not touch the block.
next_far(from, d) ==
  /\ Answer(Returns(self, FirstOf({p \in Positions(from) : At(p) = d})),
            FirstOf({p \in Positions(from) : At(p) = d}))
  /\ UNCHANGED origin

Next ==
  \E from \in 0..Len(buf) :
    \/ \E d \in Delims : next(from, d) \/ next_far(from, d)
    \/ \E ds \in AnyOf : next_any(from, ds)
    \/ \E d \in Delims \ quotes : next_unquoted(from, d) \/ next_unquoted_plain(from, d)

Spec == Init /\ [][Next]_vars

-----------------------------------------------------------------------------
(* Properties.                                                             *)

\* Whatever was asked before, on whichever block, every query answers as a
\* byte-by-byte scan does, quoted regions included: no answer comes from a mask
\* of another block, the padding of the last one or a lost quote (BlockMasks::
\* next, next_any, next_unquoted). A match is never inside quotes that opened
\* after the scan began.
AnswersExact == agrees

=============================================================================
