-------------------------- MODULE BlockMasksProofs --------------------------
(***************************************************************************)
(* Proofs about BlockMasks for every buffer, every set of delimiters and   *)
(* quotes, and every size of block and register: a query finds what a      *)
(* byte-by-byte scan finds, whatever was asked before.                     *)
(***************************************************************************)
EXTENDS BlockMasks, Induction, TLAPS

-----------------------------------------------------------------------------
(* Bitmasks of one block.                                                  *)

(* The least bit of a mask that is not empty.                               *)
LEMMA MinIs ==
  ASSUME NEW S, S \subseteq Nat, S # {}
  PROVE  Min(S) \in S /\ \A i \in S : Min(S) <= i
<1>1. \E m \in S : \A k \in S : m <= k
  BY LeastNat
<1> QED
  BY <1>1 DEF Min

\* The bits of a block.
LEMMA BitFacts ==
  /\ Width \in Nat /\ Width > 0 /\ Bits = 0..(Width - 1) /\ Bits \subseteq Nat
  /\ \A pos : from_mask(pos) = {i \in Bits : i >= pos}
  BY BlockMasksAssumption DEF Bits, from_mask

\* A bit is a number below 64.
LEMMA BitNat ==
  ASSUME NEW i \in Bits
  PROVE  i \in Nat /\ i < Width /\ Width \in Nat /\ Width <= 64
  BY BlockMasksAssumption DEF Bits

(* A position of the block and its lane.                                    *)
LEMMA LaneOf ==
  ASSUME NEW j \in Bits
  PROVE  \E k \in 0..(Width \div Lane - 1), i \in 0..(Lane - 1) : j = k * Lane + i
<1> DEFINE q == Width \div Lane
           k == j \div Lane
           i == j % Lane
<1>1. /\ Lane \in Nat /\ Lane > 0 /\ Width \in Nat /\ Width % Lane = 0
      /\ j \in Nat /\ j < Width
  BY BlockMasksAssumption, BitFacts
<1>2. q \in Nat /\ Width = Lane * q + (Width % Lane)
  BY <1>1
<1>3. k \in Nat /\ i \in 0..(Lane - 1) /\ j = Lane * k + i
  BY <1>1
<1> HIDE DEF q, k, i
<1>4. Width = Lane * q /\ Lane * k <= j /\ Lane * k = k * Lane
  BY <1>1, <1>2, <1>3
<1>5. k < q
  <2>1. SUFFICES ASSUME k >= q PROVE FALSE
    BY <1>2, <1>3
  <2>2. k - q \in Nat
    BY <2>1, <1>2, <1>3
  <2>3. Lane * (k - q) \in Nat /\ Lane * k = Lane * q + Lane * (k - q)
    BY <2>2, <1>1, <1>2, <1>3
  <2> QED
    BY <2>3, <1>1, <1>4
<1>6. k \in 0..(q - 1)
  BY <1>2, <1>3, <1>5
<1> QED
  BY <1>3, <1>4, <1>6 DEF q

(* Every lane's comparison lands on its own place.                          *)
LEMMA LaneStays ==
  ASSUME NEW k \in 0..(Width \div Lane - 1), NEW i \in 0..(Lane - 1)
  PROVE  k * Lane + i \in Nat /\ k * Lane \in Nat
BY BlockMasksAssumption

(* The bits of delimiter d in the block at base.                            *)
MaskOf(base, d) == {i \in Bits : base + i < Len(buf) /\ At(base + i) = d}

(* The lanes together compare every byte of the block.                      *)
LEMMA Mask64Is ==
  ASSUME NEW block, NEW d
  PROVE  mask64(block, d) = {j \in Bits : block[j] = d}
<1> DEFINE Hits(k) == {i \in 0..(Lane - 1) : block[k * Lane + i] = d}
<1>1. ASSUME NEW j \in mask64(block, d)
      PROVE  j \in Bits /\ block[j] = d
  <2>1. PICK k \in 0..(Width \div Lane - 1) : j \in Shifted(Hits(k), k * Lane)
    BY <1>1 DEF mask64
  <2>2. PICK i \in Hits(k) : j = i + k * Lane /\ j \in Bits
    BY <2>1 DEF Shifted
  <2>3. i + k * Lane = k * Lane + i
    BY <2>2, LaneStays, BlockMasksAssumption
  <2> QED
    BY <2>2, <2>3
<1>2. ASSUME NEW j \in Bits, block[j] = d
      PROVE  j \in mask64(block, d)
  <2>1. PICK k \in 0..(Width \div Lane - 1), i \in 0..(Lane - 1) : j = k * Lane + i
    BY LaneOf
  <2>2. i + k * Lane = k * Lane + i
    BY LaneStays, BlockMasksAssumption
  <2>3. i \in Hits(k)
    BY <2>1, <1>2
  <2>4. j \in Shifted(Hits(k), k * Lane)
    BY <2>1, <2>2, <2>3 DEF Shifted
  <2> QED
    BY <2>4 DEF mask64
<1> QED
  BY <1>1, <1>2

(* A mask computed for a block, also for the last one with its padding.     *)
LEMMA ComputeOneIs ==
  ASSUME NEW base \in Nat, NEW d
  PROVE  compute_one(base, d) = MaskOf(base, d)
<1> DEFINE block == [i \in Bits |-> IF base + i < Len(buf) THEN At(base + i) ELSE "NUL"]
<1>1. compute_one(base, d) = {i \in mask64(block, d) : base + i < Len(buf)}
  BY DEF compute_one
<1>2. mask64(block, d) = {j \in Bits : block[j] = d}
  BY Mask64Is
<1> QED
  BY <1>1, <1>2 DEF MaskOf

-----------------------------------------------------------------------------
(* Parity.                                                                 *)

Odd(S) == Cardinality(S) % 2 = 1

(* The bits of m up to i that lie less than w back.                         *)
InWindow(m, i, w) == {j \in m : j <= i /\ i < j + w}

WindowParity(x, m, w) ==
  x \subseteq Bits /\ \A i \in Bits : i \in x <=> Odd(InWindow(m, i, w))

\* A mask has finitely many bits.
LEMMA MaskFinite ==
  ASSUME NEW m, m \subseteq Bits
  PROVE  IsFiniteSet(m) /\ Cardinality(m) \in Nat
<1>1. IsFiniteSet(Bits)
  BY BitFacts, FS_Interval
<1> QED
  BY <1>1, FS_Subset, FS_CardinalityType

\* No bit is an even number of them.
LEMMA OddNone ==
  ~ Odd({})
  BY FS_EmptySet DEF Odd

(* Disjoint sets: the parity of the union.                                  *)
LEMMA OddUnion ==
  ASSUME NEW S, NEW T, S \subseteq Bits, T \subseteq Bits, S \cap T = {}
  PROVE  Odd(S \cup T) <=> (Odd(S) /\ ~ Odd(T)) \/ (~ Odd(S) /\ Odd(T))
<1>1. /\ IsFiniteSet(S) /\ IsFiniteSet(T)
      /\ Cardinality(S) \in Nat /\ Cardinality(T) \in Nat
  BY MaskFinite
<1>2. Cardinality(S \cup T) = Cardinality(S) + Cardinality(T) - Cardinality(S \cap T)
  BY <1>1, FS_Union
<1>3. Cardinality(S \cap T) = 0
  BY FS_EmptySet
<1> DEFINE a == Cardinality(S)
           b == Cardinality(T)
           c == Cardinality(S \cup T)
<1>4. c = a + b /\ a \in Nat /\ b \in Nat
  BY <1>1, <1>2, <1>3
<1> HIDE DEF a, b, c
<1>5. c % 2 = 1 <=> (a % 2 = 1 /\ ~ b % 2 = 1) \/ (~ a % 2 = 1 /\ b % 2 = 1)
  BY <1>4
<1> QED
  BY <1>5 DEF Odd, a, b, c

\* One bit is an odd number of them.
LEMMA OddOne ==
  ASSUME NEW x
  PROVE  Odd({x})
<1>1. Cardinality({x}) = 1
  BY FS_Singleton
<1> QED
  BY <1>1 DEF Odd

(* A mask by itself is its parity over windows of one bit.                  *)
LEMMA WindowOne ==
  ASSUME NEW m, m \subseteq Bits
  PROVE  WindowParity(m, m, 1)
<1>1. ASSUME NEW i \in Bits
      PROVE  i \in m <=> Odd(InWindow(m, i, 1))
  <2>1. InWindow(m, i, 1) = {j \in m : j = i}
    <3>1. ASSUME NEW j \in m
          PROVE  (j <= i /\ i < j + 1) <=> j = i
      <4>1. j \in Nat /\ i \in Nat
        BY BitNat
      <4> QED
        BY <4>1
    <3> QED
      BY <3>1 DEF InWindow
  <2>2. CASE i \in m
    <3>1. InWindow(m, i, 1) = {i}
      BY <2>1, <2>2
    <3> QED
      BY <3>1, <2>2, OddOne
  <2>3. CASE i \notin m
    <3>1. InWindow(m, i, 1) = {}
      BY <2>1, <2>3
    <3> QED
      BY <3>1, <2>3, OddNone
  <2> QED
    BY <2>2, <2>3
<1> QED
  BY <1>1 DEF WindowParity

(* A shift by w and an exclusive or double the window.                      *)
LEMMA WindowDoubles ==
  ASSUME NEW m, NEW x, NEW w \in Nat, w > 0, m \subseteq Bits, WindowParity(x, m, w)
  PROVE  WindowParity(XorShifted(x, w), m, w + w)
<1> DEFINE y == XorShifted(x, w)
<1>1. x \subseteq Bits /\ Bits \subseteq Nat
  BY BitFacts DEF WindowParity
<1>2. y \subseteq Bits
  BY <1>1 DEF XorShifted, Xor, Shifted
<1>3. ASSUME NEW i \in Bits
      PROVE  i \in y <=> Odd(InWindow(m, i, w + w))
  <2> DEFINE near == InWindow(m, i, w)
             far == {j \in m : j + w <= i /\ i < j + w + w}
  <2>1. InWindow(m, i, w + w) = near \cup far
    <3>1. ASSUME NEW j \in m
          PROVE  (j <= i /\ i < j + (w + w)) <=>
                   ((j <= i /\ i < j + w) \/ (j + w <= i /\ i < j + w + w))
      <4>1. j \in Nat /\ i \in Nat
        BY BitFacts
      <4> QED
        BY <4>1
    <3> QED
      BY <3>1 DEF InWindow
  <2>2. near \cap far = {} /\ near \subseteq Bits /\ far \subseteq Bits
    <3>1. ASSUME NEW j \in m
          PROVE  ~ (i < j + w /\ j + w <= i)
      <4>1. j \in Nat /\ i \in Nat
        BY BitNat
      <4> QED
        BY <4>1
    <3> QED
      BY <3>1 DEF InWindow
  <2>3. Odd(InWindow(m, i, w + w)) <=> (Odd(near) /\ ~ Odd(far)) \/ (~ Odd(near) /\ Odd(far))
    BY <2>1, <2>2, OddUnion
  <2>4. i \in x <=> Odd(near)
    BY DEF WindowParity
  <2>5. i \in Shifted(x, w) <=> Odd(far)
    <3>1. CASE i >= w
      <4>1. i - w \in Bits
        BY <3>1, BitFacts
      <4>2. far = InWindow(m, i - w, w)
        <5>1. ASSUME NEW j \in m
              PROVE  (j + w <= i /\ i < j + w + w) <=> (j <= i - w /\ i - w < j + w)
          <6>1. j \in Nat /\ i \in Nat
            BY BitFacts
          <6> QED
            BY <6>1
        <5> QED
          BY <5>1 DEF InWindow
      <4>3. i - w \in x <=> Odd(far)
        BY <4>1, <4>2 DEF WindowParity
      <4>4. i \in Shifted(x, w) <=> i - w \in x
        BY <1>1, <3>1, BitFacts DEF Shifted
      <4> QED
        BY <4>3, <4>4
    <3>2. CASE i < w
      <4>1. far = {}
        <5>1. ASSUME NEW j \in m
              PROVE  ~ j + w <= i
          <6>1. j \in Nat /\ i \in Nat
            BY BitNat
          <6> QED
            BY <6>1, <3>2
        <5> QED
          BY <5>1
      <4>2. i \notin Shifted(x, w)
        BY <1>1, <3>2, BitFacts DEF Shifted
      <4> QED
        BY <4>1, <4>2, OddNone
    <3> QED
      BY <3>1, <3>2, BitFacts
  <2>6. i \in y <=> (i \in x /\ i \notin Shifted(x, w)) \/ (i \notin x /\ i \in Shifted(x, w))
    BY DEF XorShifted, Xor
  <2> QED
    BY <2>3, <2>4, <2>5, <2>6
<1> QED
  BY <1>2, <1>3 DEF WindowParity

(* The six shifts: bit i is the parity of every bit up to i.                *)
LEMMA PrefixXorIs ==
  ASSUME NEW m, m \subseteq Bits, NEW i \in Bits
  PROVE  i \in prefix_xor(m) <=> Odd({j \in m : j <= i})
<1> DEFINE a == XorShifted(m, 1)
           b == XorShifted(a, 2)
           c == XorShifted(b, 4)
           d == XorShifted(c, 8)
           e == XorShifted(d, 16)
           f == XorShifted(e, 32)
<1> HIDE DEF a, b, c, d, e, f
<1>1. WindowParity(a, m, 2)
  BY WindowOne, WindowDoubles DEF a
<1>2. WindowParity(b, m, 4)
  BY <1>1, WindowDoubles DEF b
<1>3. WindowParity(c, m, 8)
  BY <1>2, WindowDoubles DEF c
<1>4. WindowParity(d, m, 16)
  BY <1>3, WindowDoubles DEF d
<1>5. WindowParity(e, m, 32)
  BY <1>4, WindowDoubles DEF e
<1>6. WindowParity(f, m, 64)
  BY <1>5, WindowDoubles DEF f
<1>7. prefix_xor(m) = f
  BY DEF prefix_xor, a, b, c, d, e, f
<1>8. InWindow(m, i, 64) = {j \in m : j <= i}
  <2>1. ASSUME NEW j \in m
        PROVE  i < j + 64
    <3>1. j \in Nat /\ i \in Nat /\ i < 64
      BY BitNat
    <3> QED
      BY <3>1
  <2> QED
    BY <2>1 DEF InWindow
<1> QED
  BY <1>6, <1>7, <1>8 DEF WindowParity

-----------------------------------------------------------------------------
(* The open quote, byte by byte.                                           *)

QuoteStates == quotes \cup {None}

\* The open quote is a quote or none.
LEMMA AfterByteType ==
  ASSUME NEW a \in QuoteStates, NEW c
  PROVE  AfterByte(a, c) \in QuoteStates
  BY DEF AfterByte, QuoteStates

(* The recursion that defines Active has its solution.                      *)
LEMMA ActiveIs ==
  ASSUME Len(buf) \in Nat, NEW o \in Nat
  PROVE  /\ \A p \in 0..Len(buf) : Active(o, p) \in QuoteStates
         /\ \A p \in 0..Len(buf) : p <= o => Active(o, p) = None
         /\ \A p \in 0..Len(buf) :
              p > o => Active(o, p) = AfterByte(Active(o, p - 1), At(p - 1))
<1> DEFINE top == Len(buf)
           step == [k \in 1..top |->
                      [a \in QuoteStates |-> IF k <= o THEN None ELSE AfterByte(a, At(k - 1))]]
           open == CHOOSE f : f = [k \in 0..top |->
                     IF k <= o THEN None ELSE AfterByte(f[k - 1], At(k - 1))]
<1>1. step \in Steps(top, QuoteStates)
  <2>1. ASSUME NEW k \in 1..top, NEW a \in QuoteStates
        PROVE  (IF k <= o THEN None ELSE AfterByte(a, At(k - 1))) \in QuoteStates
    BY AfterByteType DEF QuoteStates
  <2> QED
    BY <2>1 DEF Steps
<1>2. None \in QuoteStates
  BY DEF QuoteStates
<1>3. PICK g : IsRecursion(g, top, QuoteStates, None, step)
  BY <1>1, <1>2, RecursionExists
<1>4. g \in [0..top -> QuoteStates]
  BY <1>3 DEF IsRecursion
<1>5. g = [k \in 0..top |-> IF k <= o THEN None ELSE AfterByte(g[k - 1], At(k - 1))]
  <2>1. ASSUME NEW k \in 0..top
        PROVE  g[k] = IF k <= o THEN None ELSE AfterByte(g[k - 1], At(k - 1))
    <3>1. CASE k = 0
      BY <1>3, <3>1 DEF IsRecursion
    <3>2. CASE k # 0
      <4>1. k \in 1..top /\ g[k - 1] \in QuoteStates
        BY <1>4, <3>2
      <4>2. g[k] = step[k][g[k - 1]]
        BY <1>3, <3>2 DEF IsRecursion
      <4> QED
        BY <4>1, <4>2
    <3> QED
      BY <3>1, <3>2
  <2> QED
    BY <1>4, <2>1
<1>6. open = [k \in 0..top |-> IF k <= o THEN None ELSE AfterByte(open[k - 1], At(k - 1))]
  BY <1>5
<1>7. \A p : Active(o, p) = open[p]
  BY DEF Active
<1> HIDE DEF open, step
<1>8. ASSUME NEW p \in 0..top
      PROVE  /\ p <= o => Active(o, p) = None
             /\ p > o => Active(o, p) = AfterByte(Active(o, p - 1), At(p - 1))
  <2>1. open[p] = IF p <= o THEN None ELSE AfterByte(open[p - 1], At(p - 1))
    BY <1>6
  <2>2. Active(o, p) = open[p] /\ Active(o, p - 1) = open[p - 1]
    BY <1>7
  <2>3. p > o <=> ~ p <= o
    OBVIOUS
  <2> QED
    BY <2>1, <2>2, <2>3
<1> DEFINE T == {k \in 0..top : open[k] \in QuoteStates}
<1>9. 0 \in T
  BY <1>2, <1>6
<1>10. ASSUME NEW k \in Nat, k < top, k \in T
       PROVE  k + 1 \in T
  <2>1. open[k + 1] = IF k + 1 <= o THEN None ELSE AfterByte(open[k], At(k))
    BY <1>6, <1>10
  <2> QED
    BY <1>2, <1>10, <2>1, AfterByteType
<1> HIDE DEF T
<1>11. \A k \in 0..top : k \in T
  BY <1>9, <1>10, IntervalInduction
<1> QED
  BY <1>7, <1>8, <1>11 DEF T

(* Where a scan of the quote state ends when no byte on the way changes it. *)
LEMMA StaysAs ==
  ASSUME Len(buf) \in Nat, NEW o \in Nat, NEW x \in Nat, NEW y \in Nat,
         o <= x, x <= y, y <= Len(buf), NEW a, Active(o, x) = a,
         \A p \in x..(y - 1) : AfterByte(a, At(p)) = a
  PROVE  \A p \in x..y : Active(o, p) = a
<1> DEFINE T == {k \in 0..(y - x) : Active(o, x + k) = a}
<1>1. 0 \in T
  OBVIOUS
<1>2. ASSUME NEW k \in Nat, k < y - x, k \in T
      PROVE  k + 1 \in T
  <2>1. x + (k + 1) \in 0..Len(buf) /\ x + (k + 1) > o /\ (x + (k + 1)) - 1 = x + k
    BY <1>2
  <2>2. Active(o, x + (k + 1)) = AfterByte(Active(o, x + k), At(x + k))
    BY <2>1, ActiveIs
  <2>3. x + k \in x..(y - 1)
    BY <1>2
  <2> QED
    BY <1>2, <2>2, <2>3
<1> HIDE DEF T
<1>3. \A k \in 0..(y - x) : k \in T
  <2>1. y - x \in Nat
    OBVIOUS
  <2> QED
    BY <1>1, <1>2, <2>1, IntervalInduction
<1>4. ASSUME NEW p \in x..y
      PROVE  Active(o, p) = a
  <2>1. p - x \in T /\ x + (p - x) = p
    BY <1>3
  <2> QED
    BY <2>1 DEF T
<1> QED
  BY <1>4

(* The next byte. *)
LEMMA ActiveNext ==
  ASSUME Len(buf) \in Nat, NEW o \in Nat, NEW p \in Nat, o <= p, p < Len(buf)
  PROVE  Active(o, p + 1) = AfterByte(Active(o, p), At(p))
<1>1. p + 1 \in 0..Len(buf) /\ p + 1 > o /\ (p + 1) - 1 = p
  OBVIOUS
<1> QED
  BY <1>1, ActiveIs

-----------------------------------------------------------------------------
(* One block with all its masks, and the matches of next_unquoted.          *)

Block(s) ==
  /\ s.base \in Nat /\ s.base < Len(buf) /\ Len(buf) \in Nat
  /\ \A k \in Delims : s.masks[k] = MaskOf(s.base, k)

Asked(o, from, d) ==
  /\ quotes \subseteq Delims /\ d \in Delims \ quotes
  /\ o \in Nat /\ from \in Nat /\ o <= from

Unquoted(o, from, d) == {p \in Positions(from) : At(p) = d /\ Active(o, p) = None}

AllFrom(P, x) == \A p \in P : x <= p

\* The bits of k, and of every quote, from pos on.
Rest(s, k, pos) == s.masks[k] \cap from_mask(pos)
RestQuotes(s, pos) == (UNION {s.masks[k] : k \in quotes}) \cap from_mask(pos)

\* The bits of one delimiter from pos on are its bytes there.
LEMMA RestIs ==
  ASSUME NEW s, Block(s), NEW k \in Delims, NEW pos \in Nat, NEW i
  PROVE  i \in Rest(s, k, pos) <=>
           i \in Bits /\ pos <= i /\ s.base + i < Len(buf) /\ At(s.base + i) = k
<1>1. s.masks[k] = MaskOf(s.base, k)
  BY DEF Block
<1>2. i \in from_mask(pos) <=> i \in Bits /\ i >= pos
  BY DEF from_mask
<1>3. i \in Bits => (i >= pos <=> pos <= i)
  BY BitNat
<1> QED
  BY <1>1, <1>2, <1>3 DEF Rest, MaskOf

\* The bits of the quotes from pos on are the quotes there.
LEMMA RestQuotesIs ==
  ASSUME NEW s, Block(s), quotes \subseteq Delims, NEW pos \in Nat, NEW i
  PROVE  i \in RestQuotes(s, pos) <=>
           i \in Bits /\ pos <= i /\ s.base + i < Len(buf) /\ At(s.base + i) \in quotes
<1>1. i \in RestQuotes(s, pos) <=> \E k \in quotes : i \in Rest(s, k, pos)
  BY DEF RestQuotes, Rest
<1>2. \A k \in quotes : i \in Rest(s, k, pos) <=>
         i \in Bits /\ pos <= i /\ s.base + i < Len(buf) /\ At(s.base + i) = k
  BY RestIs
<1> QED
  BY <1>1, <1>2

\* The first bit of a mask that has one.
LEMMA LeastRest ==
  ASSUME NEW S, S \subseteq Bits, S # {}
  PROVE  /\ Min(S) \in S /\ Min(S) \in Bits /\ Min(S) \in Nat /\ Min(S) < Width
         /\ \A i \in S : Min(S) <= i
  BY MinIs, BitFacts, BitNat

\* Where a scan of a block stands: at bit pos, nothing matches before.
Standing(s, o, from, d, pos) ==
  /\ pos \in 0..Width
  /\ from <= s.base + pos /\ s.base + pos <= Len(buf)
  /\ AllFrom(Unquoted(o, from, d), s.base + pos)

(* A position of the block, by its bit.                                     *)
LEMMA BitOf ==
  ASSUME NEW s, Block(s), NEW pos \in Nat, NEW p \in Nat,
         s.base + pos <= p, p < s.base + Width, p < Len(buf)
  PROVE  /\ p - s.base \in Bits /\ pos <= p - s.base /\ s.base + (p - s.base) = p
<1>1. s.base \in Nat /\ Bits = 0..(Width - 1) /\ Width \in Nat
  BY BitFacts DEF Block
<1> DEFINE b == s.base
<1>2. /\ b \in Nat /\ pos \in Nat /\ p \in Nat /\ Width \in Nat
      /\ b + pos <= p /\ p < b + Width
  BY <1>1
<1> HIDE DEF b
<1>3. p - b \in 0..(Width - 1) /\ pos <= p - b /\ b + (p - b) = p
  BY ONLY <1>2
<1> QED
  BY <1>1, <1>3 DEF b

\* A byte of the block between two bits.
LEMMA BitBefore ==
  ASSUME NEW s, Block(s), NEW pos \in Nat, NEW g \in Bits, s.base + g < Len(buf),
         NEW p \in (s.base + pos)..((s.base + g) - 1)
  PROVE  /\ p - s.base \in Bits /\ pos <= p - s.base /\ s.base + (p - s.base) = p
         /\ p - s.base < g /\ ~ g <= p - s.base /\ p < Len(buf)
<1>1. /\ s.base \in Nat /\ Len(buf) \in Nat /\ g \in Nat /\ g < Width /\ Width \in Nat
      /\ p \in Int /\ s.base + pos <= p /\ p <= (s.base + g) - 1
  BY BitNat DEF Block
<1>2. p \in Nat /\ p < s.base + g /\ p < s.base + Width /\ p < Len(buf)
  BY <1>1
<1>3. p - s.base \in Bits /\ pos <= p - s.base /\ s.base + (p - s.base) = p
  BY <1>1, <1>2, BitOf
<1>4. p - s.base < g /\ ~ g <= p - s.base
  BY <1>1, <1>2
<1> QED
  BY <1>2, <1>3, <1>4

(* A match that is not behind has its bit in the rest of the block.         *)
LEMMA MatchInRest ==
  ASSUME NEW s, Block(s), NEW o, NEW from, NEW d, Asked(o, from, d),
         NEW pos, Standing(s, o, from, d, pos),
         NEW p \in Unquoted(o, from, d), p < s.base + Width
  PROVE  p - s.base \in Rest(s, d, pos) /\ s.base + (p - s.base) = p
<1>1. /\ p \in Nat /\ p < Len(buf) /\ At(p) = d /\ s.base + pos <= p
      /\ pos \in Nat /\ d \in Delims
  BY DEF Unquoted, Positions, Standing, AllFrom, Asked, Block
<1>2. p - s.base \in Bits /\ pos <= p - s.base /\ s.base + (p - s.base) = p
  BY <1>1, BitOf
<1> QED
  BY <1>1, <1>2, RestIs

(* Outside, and the delimiter comes before every quote.                     *)
LEMMA OutsideHit ==
  ASSUME NEW s, Block(s), NEW o, NEW from, NEW d, Asked(o, from, d),
         NEW pos, Standing(s, o, from, d, pos), Active(o, s.base + pos) = None,
         Rest(s, d, pos) # {},
         RestQuotes(s, pos) = {} \/ Min(Rest(s, d, pos)) < Min(RestQuotes(s, pos))
  PROVE  /\ Min(Rest(s, d, pos)) \in Bits
         /\ s.base + Min(Rest(s, d, pos)) \in Unquoted(o, from, d)
         /\ AllFrom(Unquoted(o, from, d), s.base + Min(Rest(s, d, pos)))
<1> DEFINE G == Rest(s, d, pos)
           Q == RestQuotes(s, pos)
           g == Min(G)
<1>1. /\ G \subseteq Bits /\ Q \subseteq Bits /\ pos \in Nat /\ d \in Delims
      /\ s.base \in Nat /\ Len(buf) \in Nat /\ o \in Nat /\ from \in Nat /\ o <= from
      /\ quotes \subseteq Delims /\ from <= s.base + pos
  BY DEF Rest, RestQuotes, from_mask, Standing, Asked, Block
<1>2. /\ g \in G /\ g \in Bits /\ g \in Nat /\ g < Width
      /\ \A i \in G : g <= i
  BY <1>1, LeastRest
<1>3. pos <= g /\ s.base + g < Len(buf) /\ At(s.base + g) = d
  BY <1>1, <1>2, RestIs
<1>4. ASSUME NEW p \in (s.base + pos)..((s.base + g) - 1)
      PROVE  AfterByte(None, At(p)) = None
  <2> DEFINE i == p - s.base
  <2>1. i \in Bits /\ pos <= i /\ s.base + i = p /\ i < g /\ s.base + i < Len(buf)
    <3> HIDE DEF g
    <3> QED
      BY <1>1, <1>2, <1>3, BitBefore
  <2>2. i \notin Q
    <3>1. SUFFICES ASSUME i \in Q PROVE FALSE
      OBVIOUS
    <3>2. Min(Q) <= i /\ Min(Q) \in Nat
      BY <1>1, <3>1, LeastRest
    <3>3. g < Min(Q)
      BY <3>1
    <3> QED
      BY <1>2, <2>1, <3>2, <3>3, BitNat
  <2>3. At(p) \notin quotes
    BY <1>1, <2>1, <2>2, RestQuotesIs
  <2> QED
    BY <2>3 DEF AfterByte
<1>5. Active(o, s.base + g) = None
  <2>1. /\ s.base + pos \in Nat /\ s.base + g \in Nat /\ o <= s.base + pos
        /\ s.base + pos <= s.base + g /\ s.base + g <= Len(buf)
    BY <1>1, <1>2, <1>3
  <2> DEFINE x == s.base + pos
             y == s.base + g
  <2>2. \A p \in x..(y - 1) : AfterByte(None, At(p)) = None
    BY <1>4
  <2>3. x \in Nat /\ y \in Nat /\ o <= x /\ x <= y /\ y <= Len(buf) /\ Active(o, x) = None
    BY <2>1
  <2> HIDE DEF x, y
  <2>4. \A p \in x..y : Active(o, p) = None
    BY <1>1, <2>2, <2>3, StaysAs
  <2>5. y \in x..y
    BY <2>3
  <2> QED
    BY <2>4, <2>5 DEF y
<1>6. s.base + g \in Unquoted(o, from, d)
  BY <1>1, <1>2, <1>3, <1>5 DEF Unquoted, Positions
<1>7. ASSUME NEW p \in Unquoted(o, from, d)
      PROVE  s.base + g <= p
  <2>1. p \in Nat
    BY <1>1 DEF Unquoted, Positions
  <2>2. CASE p < s.base + Width
    <3>1. p - s.base \in G /\ s.base + (p - s.base) = p
      BY <2>2, MatchInRest
    <3>2. g <= p - s.base
      BY <1>2, <3>1
    <3> QED
      BY <1>1, <1>2, <2>1, <3>2
  <2>3. CASE ~ p < s.base + Width
    <3> HIDE DEF g, G, Q
    <3>1. /\ s.base \in Nat /\ Width \in Nat /\ p \in Nat /\ g \in Nat /\ g < Width
          /\ ~ p < s.base + Width
      BY <1>1, <1>2, <2>1, <2>3, BitFacts
    <3> QED
      BY ONLY <3>1
  <2> QED
    BY <2>2, <2>3
<1> QED
  BY <1>2, <1>6, <1>7 DEF AllFrom

(* Outside, and neither a quote nor the delimiter is left.                  *)
LEMMA OutsideEnd ==
  ASSUME NEW s, Block(s), NEW o, NEW from, NEW d, Asked(o, from, d),
         NEW pos, Standing(s, o, from, d, pos), Active(o, s.base + pos) = None,
         Rest(s, d, pos) = {}, RestQuotes(s, pos) = {}
  PROVE  /\ AllFrom(Unquoted(o, from, d), s.base + Width)
         /\ s.base + Width < Len(buf) => Active(o, s.base + Width) = None
<1>1. /\ pos \in 0..Width /\ d \in Delims /\ Width \in Nat
      /\ s.base \in Nat /\ Len(buf) \in Nat /\ o \in Nat /\ from \in Nat /\ o <= from
      /\ quotes \subseteq Delims /\ from <= s.base + pos
  BY BitFacts DEF Standing, Asked, Block
<1>2. ASSUME NEW p \in Unquoted(o, from, d)
      PROVE  s.base + Width <= p
  <2>1. p \in Nat
    BY <1>1 DEF Unquoted, Positions
  <2>2. ~ p < s.base + Width
    BY MatchInRest
  <2> QED
    BY <1>1, <2>1, <2>2
<1>3. ASSUME s.base + Width < Len(buf)
      PROVE  Active(o, s.base + Width) = None
  <2> DEFINE x == s.base + pos
             y == s.base + Width
  <2>1. ASSUME NEW p \in x..(y - 1)
        PROVE  AfterByte(None, At(p)) = None
    <3>1. p \in Nat /\ x <= p /\ p < y /\ p < Len(buf) /\ pos \in Nat
      BY <1>1, <1>3
    <3>2. p - s.base \in Bits /\ pos <= p - s.base /\ s.base + (p - s.base) = p
      BY <3>1, BitOf
    <3>3. At(p) \notin quotes
      BY <1>1, <3>1, <3>2, RestQuotesIs
    <3> QED
      BY <3>3 DEF AfterByte
  <2>2. x \in Nat /\ y \in Nat /\ o <= x /\ x <= y /\ y <= Len(buf) /\ Active(o, x) = None
    BY <1>1, <1>3
  <2> HIDE DEF x, y
  <2>3. \A p \in x..y : Active(o, p) = None
    BY <1>1, <2>1, <2>2, StaysAs
  <2>4. y \in x..y
    BY <2>2
  <2> QED
    BY <2>3, <2>4 DEF y
<1> QED
  BY <1>2, <1>3 DEF AllFrom

(* Outside, and a quote comes first.                                        *)
LEMMA OutsideQuote ==
  ASSUME NEW s, Block(s), NEW o, NEW from, NEW d, Asked(o, from, d), None \notin Delims,
         NEW pos, Standing(s, o, from, d, pos), Active(o, s.base + pos) = None,
         RestQuotes(s, pos) # {},
         Rest(s, d, pos) = {} \/ ~ Min(Rest(s, d, pos)) < Min(RestQuotes(s, pos)),
         NEW i, i = Min(RestQuotes(s, pos))
  PROVE  /\ i \in Bits /\ pos <= i /\ At(s.base + i) \in quotes
         /\ Active(o, s.base + (i + 1)) = At(s.base + i)
         /\ Standing(s, o, from, d, i + 1)
<1> DEFINE G == Rest(s, d, pos)
           Q == RestQuotes(s, pos)
<1>1. /\ G \subseteq Bits /\ Q \subseteq Bits /\ pos \in Nat /\ d \in Delims
      /\ s.base \in Nat /\ Len(buf) \in Nat /\ o \in Nat /\ from \in Nat /\ o <= from
      /\ quotes \subseteq Delims /\ from <= s.base + pos
  BY DEF Rest, RestQuotes, from_mask, Standing, Asked, Block
<1>2. /\ i \in Q /\ i \in Bits /\ i \in Nat /\ i < Width
      /\ \A j \in Q : i <= j
  BY <1>1, LeastRest
<1>3. pos <= i /\ s.base + i < Len(buf) /\ At(s.base + i) \in quotes
  BY <1>1, <1>2, RestQuotesIs
<1>4. Active(o, s.base + i) = None
  <2> DEFINE x == s.base + pos
             y == s.base + i
  <2>1. ASSUME NEW p \in x..(y - 1)
        PROVE  AfterByte(None, At(p)) = None
    <3> DEFINE j == p - s.base
    <3>1. j \in Bits /\ pos <= j /\ s.base + j = p /\ ~ i <= j /\ s.base + j < Len(buf)
      BY <1>1, <1>2, <1>3, BitBefore
    <3>2. j \notin Q
      BY <1>2, <3>1
    <3>3. At(p) \notin quotes
      BY <1>1, <3>1, <3>2, RestQuotesIs
    <3> QED
      BY <3>3 DEF AfterByte
  <2>2. x \in Nat /\ y \in Nat /\ o <= x /\ x <= y /\ y <= Len(buf) /\ Active(o, x) = None
    BY <1>1, <1>2, <1>3
  <2> HIDE DEF x, y
  <2>3. \A p \in x..y : Active(o, p) = None
    BY <1>1, <2>1, <2>2, StaysAs
  <2>4. y \in x..y
    BY <2>2
  <2> QED
    BY <2>3, <2>4 DEF y
<1>5. Active(o, s.base + (i + 1)) = At(s.base + i)
  <2>1. s.base + i \in Nat /\ o <= s.base + i /\ (s.base + i) + 1 = s.base + (i + 1)
    BY <1>1, <1>2, <1>3
  <2>2. Active(o, (s.base + i) + 1) = AfterByte(None, At(s.base + i))
    BY <1>1, <1>3, <1>4, <2>1, ActiveNext
  <2> QED
    BY <1>3, <2>1, <2>2 DEF AfterByte
<1>6. ASSUME NEW p \in Unquoted(o, from, d)
      PROVE  s.base + (i + 1) <= p
  <2>1. p \in Nat /\ At(p) = d /\ d \notin quotes
    BY <1>1 DEF Unquoted, Positions, Asked
  <2>2. SUFFICES ASSUME p < s.base + (i + 1) PROVE FALSE
    BY <1>1, <1>2, <2>1
  <2>3. p # s.base + i
    BY <1>3, <2>1
  <2>4. p < s.base + i /\ p < s.base + Width
    <3> HIDE DEF G, Q
    <3>1. /\ Width \in Nat /\ s.base \in Nat /\ i \in Nat /\ i < Width
          /\ p \in Nat /\ p < s.base + (i + 1) /\ p # s.base + i
      BY <1>1, <1>2, <2>1, <2>2, <2>3, BitFacts
    <3> QED
      BY ONLY <3>1
  <2>5. p - s.base \in G /\ s.base + (p - s.base) = p
    BY <2>4, MatchInRest
  <2>6. /\ Min(G) <= p - s.base /\ Min(G) \in Nat
        /\ p - s.base \in Nat
    BY <1>1, <2>5, LeastRest, BitNat
  <2>7. ~ Min(G) < i
    BY <2>5
  <2> HIDE DEF G, Q
  <2>8. /\ s.base \in Nat /\ p \in Nat /\ i \in Nat /\ p < s.base + i
        /\ Min(G) <= p - s.base /\ Min(G) \in Nat /\ ~ Min(G) < i
    BY <1>1, <1>2, <2>1, <2>4, <2>6, <2>7
  <2> QED
    BY ONLY <2>8
<1>7. Standing(s, o, from, d, i + 1)
  <2> HIDE DEF G, Q
  <2>1. from <= s.base + (i + 1) /\ s.base + (i + 1) <= Len(buf)
    BY <1>1, <1>2, <1>3
  <2>2. i + 1 \in 0..Width
    BY <1>2, BitNat
  <2>3. AllFrom(Unquoted(o, from, d), s.base + (i + 1))
    BY <1>6 DEF AllFrom
  <2> QED
    BY <2>1, <2>2, <2>3 DEF Standing
<1> QED
  BY <1>2, <1>3, <1>5, <1>7

(* Inside a quoted region that the rest of the block does not close.        *)
LEMMA InsideEnd ==
  ASSUME NEW s, Block(s), NEW o, NEW from, NEW d, Asked(o, from, d),
         NEW pos, Standing(s, o, from, d, pos),
         NEW a \in quotes, a # None, Active(o, s.base + pos) = a, Rest(s, a, pos) = {}
  PROVE  /\ AllFrom(Unquoted(o, from, d), s.base + Width)
         /\ s.base + Width < Len(buf) => Active(o, s.base + Width) = a
<1>1. /\ pos \in 0..Width /\ d \in Delims /\ Width \in Nat
      /\ s.base \in Nat /\ Len(buf) \in Nat /\ o \in Nat /\ from \in Nat /\ o <= from
      /\ a \in Delims /\ from <= s.base + pos /\ s.base + pos <= Len(buf)
  BY BitFacts DEF Standing, Asked, Block
<1> DEFINE x == s.base + pos
           y == IF s.base + Width <= Len(buf) THEN s.base + Width ELSE Len(buf)
<1>2. ASSUME NEW p \in x..(y - 1)
      PROVE  AfterByte(a, At(p)) = a
  <2>0. x \in Nat /\ y \in Nat /\ y <= s.base + Width /\ y <= Len(buf) /\ pos \in Nat
    <3>1. s.base \in Nat /\ Width \in Nat /\ Len(buf) \in Nat /\ pos \in Nat
      BY <1>1
    <3> QED
      BY ONLY <3>1
  <2>1. p \in Nat /\ x <= p /\ p < s.base + Width /\ p < Len(buf) /\ pos \in Nat
    <3>1. p \in x..(y - 1) /\ s.base + Width \in Nat /\ Len(buf) \in Nat
      BY <1>1
    <3> HIDE DEF x, y
    <3> QED
      BY <2>0, <3>1
  <2>2. p - s.base \in Bits /\ pos <= p - s.base /\ s.base + (p - s.base) = p
    BY <2>1, BitOf
  <2>3. At(p) # a
    BY <1>1, <2>1, <2>2, RestIs
  <2> QED
    BY <2>3 DEF AfterByte
<1>3. x \in Nat /\ y \in Nat /\ o <= x /\ x <= y /\ y <= Len(buf) /\ Active(o, x) = a
  BY <1>1
<1>4. \A p \in x..y : Active(o, p) = a
  <2> HIDE DEF x, y
  <2> QED
    BY <1>1, <1>2, <1>3, StaysAs
<1>5. ASSUME NEW p \in Unquoted(o, from, d)
      PROVE  s.base + Width <= p
  <2>1. p \in Nat /\ Active(o, p) = None /\ p < Len(buf)
    BY <1>1 DEF Unquoted, Positions
  <2>2. x <= p
    BY DEF Standing, AllFrom
  <2>3. SUFFICES ASSUME p < s.base + Width PROVE FALSE
    BY <1>1, <2>1
  <2>4. p \in x..y
    BY <1>1, <2>1, <2>2, <2>3
  <2> QED
    BY <1>4, <2>1, <2>4
<1>6. ASSUME s.base + Width < Len(buf)
      PROVE  Active(o, s.base + Width) = a
  <2>1. y = s.base + Width /\ y \in x..y
    BY <1>1, <1>6
  <2> QED
    BY <1>4, <2>1
<1> QED
  BY <1>5, <1>6 DEF AllFrom

(* Inside, up to the quote that closes the region.                          *)
LEMMA InsideClose ==
  ASSUME NEW s, Block(s), NEW o, NEW from, NEW d, Asked(o, from, d),
         NEW pos, Standing(s, o, from, d, pos),
         NEW a \in quotes, a # None, Active(o, s.base + pos) = a, Rest(s, a, pos) # {},
         NEW i, i = Min(Rest(s, a, pos))
  PROVE  /\ i \in Bits /\ pos <= i
         /\ Active(o, s.base + (i + 1)) = None
         /\ Standing(s, o, from, d, i + 1)
<1> DEFINE C == Rest(s, a, pos)
<1>1. /\ C \subseteq Bits /\ pos \in Nat /\ d \in Delims /\ a \in Delims
      /\ s.base \in Nat /\ Len(buf) \in Nat /\ o \in Nat /\ from \in Nat /\ o <= from
      /\ from <= s.base + pos
  BY DEF Rest, from_mask, Standing, Asked, Block
<1>2. /\ i \in C /\ i \in Bits /\ i \in Nat /\ i < Width
      /\ \A j \in C : i <= j
  BY <1>1, LeastRest
<1>3. pos <= i /\ s.base + i < Len(buf) /\ At(s.base + i) = a
  BY <1>1, <1>2, RestIs
<1> DEFINE x == s.base + pos
           y == s.base + i
<1>4. ASSUME NEW p \in x..(y - 1)
      PROVE  AfterByte(a, At(p)) = a
  <2> DEFINE j == p - s.base
  <2>1. j \in Bits /\ pos <= j /\ s.base + j = p /\ ~ i <= j /\ s.base + j < Len(buf)
    BY <1>1, <1>2, <1>3, BitBefore
  <2>2. j \notin C
    BY <1>2, <2>1
  <2>3. At(p) # a
    BY <1>1, <2>1, <2>2, RestIs
  <2> QED
    BY <2>3 DEF AfterByte
<1>5. x \in Nat /\ y \in Nat /\ o <= x /\ x <= y /\ y <= Len(buf) /\ Active(o, x) = a
  BY <1>1, <1>2, <1>3
<1>6. \A p \in x..y : Active(o, p) = a
  <2> HIDE DEF x, y
  <2> QED
    BY <1>1, <1>4, <1>5, StaysAs
<1>7. Active(o, s.base + (i + 1)) = None
  <2>1. y \in x..y /\ o <= y /\ y < Len(buf) /\ y + 1 = s.base + (i + 1)
    <3>1. y + 1 = s.base + (i + 1) /\ y < Len(buf)
      BY <1>1, <1>2, <1>3
    <3> HIDE DEF x, y
    <3>2. y \in x..y /\ o <= y
      BY <1>1, <1>5
    <3> QED
      BY <3>1, <3>2
  <2>2. Active(o, y) = a
    BY <1>6, <2>1
  <2>3. Active(o, y + 1) = AfterByte(a, a)
    <3> HIDE DEF x
    <3> QED
      BY <1>1, <1>3, <1>5, <2>1, <2>2, ActiveNext
  <2> QED
    BY <2>1, <2>3 DEF AfterByte
<1>8. ASSUME NEW p \in Unquoted(o, from, d)
      PROVE  s.base + (i + 1) <= p
  <2>1. p \in Nat /\ Active(o, p) = None
    BY <1>1 DEF Unquoted, Positions
  <2>2. x <= p
    BY DEF Standing, AllFrom
  <2>3. p \notin x..y
    BY <1>6, <2>1
  <2>4. y < p
    <3> HIDE DEF x, y
    <3> QED
      BY <1>5, <2>1, <2>2, <2>3
  <2>5. s.base \in Nat /\ i \in Nat /\ p \in Nat /\ s.base + i < p
    BY <1>1, <1>2, <2>1, <2>4
  <2> QED
    BY ONLY <2>5
<1>9. Standing(s, o, from, d, i + 1)
  <2> HIDE DEF C, x, y
  <2>1. from <= s.base + (i + 1) /\ s.base + (i + 1) <= Len(buf)
    BY <1>1, <1>2, <1>3
  <2>2. i + 1 \in 0..Width
    BY <1>2, BitNat
  <2>3. AllFrom(Unquoted(o, from, d), s.base + (i + 1))
    BY <1>8 DEF AllFrom
  <2> QED
    BY <2>1, <2>2, <2>3 DEF Standing
<1> QED
  BY <1>2, <1>3, <1>7, <1>9

-----------------------------------------------------------------------------
(* The walk over the quote events of a block.                              *)

\* What a scan of the block owes when it ends, with the quote it leaves open.
ScanResult(s, o, from, d, in_quote, hit) ==
  /\ in_quote \in QuoteStates
  /\ hit # None => /\ hit \in Bits /\ in_quote = None
                   /\ s.base + hit \in Unquoted(o, from, d)
                   /\ AllFrom(Unquoted(o, from, d), s.base + hit)
  /\ hit = None => /\ AllFrom(Unquoted(o, from, d), s.base + Width)
                   /\ s.base + Width < Len(buf) => Active(o, s.base + Width) = in_quote

WalkRecords ==
  [in_quote : QuoteStates, pos : 0..Width, hit : Bits \cup {None}, done : BOOLEAN]

WalkOK(s, o, from, d, w) ==
  IF w.done THEN ScanResult(s, o, from, d, w.in_quote, w.hit)
  ELSE /\ Standing(s, o, from, d, w.pos) /\ w.hit = None
       /\ Active(o, s.base + w.pos) = w.in_quote

WalkStates(s, o, from, d) == {w \in WalkRecords : WalkOK(s, o, from, d, w)}

\* One event moves the walk on, or ends it.
WalkMoved(s, o, from, d, w, v) ==
  v \in WalkStates(s, o, from, d) /\ (v.done \/ w.pos < v.pos)

\* A quote event keeps what the walk has established and moves on.
LEMMA WalkSteps ==
  ASSUME NEW s, Block(s), NEW o, NEW from, NEW d, Asked(o, from, d),
         NEW w \in WalkStates(s, o, from, d), ~ w.done
  PROVE  WalkMoved(s, o, from, d, w, WalkEvent(s, w, d))
<1> DEFINE G == Rest(s, d, w.pos)
           Q == RestQuotes(s, w.pos)
           C == Rest(s, w.in_quote, w.pos)
           v == WalkEvent(s, w, d)
<1>1. /\ w \in WalkRecords /\ Standing(s, o, from, d, w.pos) /\ w.hit = None
      /\ Active(o, s.base + w.pos) = w.in_quote
      /\ w.in_quote \in QuoteStates /\ w.pos \in 0..Width /\ w.pos \in Nat
  BY DEF WalkStates, WalkOK, WalkRecords
<1>2. /\ None \notin Delims /\ None \notin Nat /\ Bits \subseteq Nat
      /\ quotes \subseteq Delims /\ d \in Delims /\ Width \in Nat
  BY BlockMasksAssumption, BitFacts DEF Asked
<1>3. CASE w.in_quote = None
  <2>1. CASE G # {} /\ (Q = {} \/ Min(G) < Min(Q))
    <3>1. v = [w EXCEPT !.hit = Min(G), !.done = TRUE]
      BY <1>3, <2>1 DEF WalkEvent, Rest, RestQuotes
    <3>2. /\ Min(G) \in Bits
          /\ s.base + Min(G) \in Unquoted(o, from, d)
          /\ AllFrom(Unquoted(o, from, d), s.base + Min(G))
      BY <1>1, <1>3, <2>1, OutsideHit
    <3> HIDE DEF G, v
    <3>3. v \in WalkRecords /\ v.hit = Min(G) /\ v.done /\ v.in_quote = None
      BY <1>1, <1>3, <3>1, <3>2 DEF WalkRecords
    <3>4. ScanResult(s, o, from, d, v.in_quote, v.hit)
      BY <1>2, <3>2, <3>3 DEF ScanResult, QuoteStates
    <3> QED
      BY <3>3, <3>4 DEF WalkMoved, WalkStates, WalkOK, v
  <2>2. CASE G = {} /\ Q = {}
    <3>1. v = [w EXCEPT !.done = TRUE]
      BY <1>3, <2>2 DEF WalkEvent, Rest, RestQuotes
    <3>2. /\ AllFrom(Unquoted(o, from, d), s.base + Width)
          /\ s.base + Width < Len(buf) => Active(o, s.base + Width) = None
      BY <1>1, <1>3, <2>2, OutsideEnd
    <3> HIDE DEF v
    <3>3. v \in WalkRecords /\ v.hit = None /\ v.done /\ v.in_quote = None
      BY <1>1, <1>3, <3>1 DEF WalkRecords
    <3>4. ScanResult(s, o, from, d, v.in_quote, v.hit)
      BY <3>2, <3>3 DEF ScanResult, QuoteStates
    <3> QED
      BY <3>3, <3>4 DEF WalkMoved, WalkStates, WalkOK, v
  <2>3. CASE Q # {} /\ ~ (G # {} /\ (Q = {} \/ Min(G) < Min(Q)))
    <3> DEFINE i == Min(Q)
               k == CHOOSE k \in quotes : i \in s.masks[k]
    <3>1. v = [w EXCEPT !.in_quote = k, !.pos = i + 1]
      BY <1>3, <2>3 DEF WalkEvent, Rest, RestQuotes
    <3>2. /\ i \in Bits /\ w.pos <= i /\ At(s.base + i) \in quotes
          /\ Active(o, s.base + (i + 1)) = At(s.base + i)
          /\ Standing(s, o, from, d, i + 1)
      BY <1>1, <1>2, <1>3, <2>3, OutsideQuote
    <3>3. k \in quotes /\ At(s.base + i) = k
      <4>1. \A q \in quotes : s.masks[q] = MaskOf(s.base, q)
        BY <1>2 DEF Block
      <4>2. \E q \in quotes : i \in s.masks[q]
        <5>1. Q \subseteq Bits /\ Q \subseteq UNION {s.masks[q] : q \in quotes}
          BY DEF RestQuotes, from_mask
        <5>2. i \in Q
          BY <2>3, <5>1, LeastRest
        <5> QED
          BY <5>1, <5>2
      <4>3. k \in quotes /\ i \in s.masks[k]
        BY <4>2
      <4> HIDE DEF i, k
      <4> QED
        BY <4>1, <4>3 DEF MaskOf
    <3> HIDE DEF i, k, v
    <3>4. i + 1 \in 0..Width /\ w.pos < i + 1 /\ k \in QuoteStates
      BY <1>1, <3>2, <3>3, BitNat DEF QuoteStates
    <3>5. v \in WalkRecords /\ v.in_quote = k /\ v.pos = i + 1 /\ ~ v.done /\ v.hit = None
      BY <1>1, <3>1, <3>4 DEF WalkRecords
    <3>6. WalkOK(s, o, from, d, v)
      BY <3>2, <3>3, <3>5 DEF WalkOK
    <3> QED
      BY <3>4, <3>5, <3>6 DEF WalkMoved, WalkStates, v
  <2> QED
    BY <2>1, <2>2, <2>3
<1>4. CASE w.in_quote # None
  <2>0. w.in_quote \in quotes
    BY <1>1, <1>4 DEF QuoteStates
  <2>1. CASE C = {}
    <3>1. v = [w EXCEPT !.done = TRUE]
      BY <1>4, <2>1 DEF WalkEvent, Rest
    <3>2. /\ AllFrom(Unquoted(o, from, d), s.base + Width)
          /\ s.base + Width < Len(buf) => Active(o, s.base + Width) = w.in_quote
      BY <1>1, <1>4, <2>0, <2>1, InsideEnd
    <3> HIDE DEF v
    <3>3. v \in WalkRecords /\ v.hit = None /\ v.done /\ v.in_quote = w.in_quote
      BY <1>1, <3>1 DEF WalkRecords
    <3>4. ScanResult(s, o, from, d, v.in_quote, v.hit)
      BY <1>1, <3>2, <3>3 DEF ScanResult
    <3> QED
      BY <3>3, <3>4 DEF WalkMoved, WalkStates, WalkOK, v
  <2>2. CASE C # {}
    <3> DEFINE i == Min(C)
    <3>1. v = [w EXCEPT !.in_quote = None, !.pos = i + 1]
      BY <1>4, <2>2 DEF WalkEvent, Rest
    <3>2. /\ i \in Bits /\ w.pos <= i
          /\ Active(o, s.base + (i + 1)) = None
          /\ Standing(s, o, from, d, i + 1)
      BY <1>1, <1>4, <2>0, <2>2, InsideClose
    <3> HIDE DEF i, v
    <3>3. i + 1 \in 0..Width /\ w.pos < i + 1 /\ None \in QuoteStates
      BY <1>1, <3>2, BitNat DEF QuoteStates
    <3>4. v \in WalkRecords /\ v.in_quote = None /\ v.pos = i + 1 /\ ~ v.done /\ v.hit = None
      BY <1>1, <3>1, <3>3 DEF WalkRecords
    <3>5. WalkOK(s, o, from, d, v)
      BY <3>2, <3>4 DEF WalkOK
    <3> QED
      BY <3>3, <3>4, <3>5 DEF WalkMoved, WalkStates, v
  <2> QED
    BY <2>1, <2>2
<1> QED
  BY <1>3, <1>4

(* The walk ends, for every event but the last is further on.               *)
LEMMA WalkScans ==
  ASSUME NEW s, Block(s), NEW o, NEW from, NEW d, Asked(o, from, d),
         NEW start \in WalkStates(s, o, from, d)
  PROVE  /\ Walk(s, start, d) \in WalkStates(s, o, from, d)
         /\ Walk(s, start, d).done
<1> DEFINE V == WalkStates(s, o, from, d)
           top == Width + 1
           Event(w) == IF w.done THEN w ELSE WalkEvent(s, w, d)
           step == [k \in 1..top |-> [w \in V |-> Event(w)]]
           walked == CHOOSE f : f = [k \in 0..top |->
                       IF k = 0 THEN start ELSE Event(f[k - 1])]
<1>0. top \in Nat /\ Width \in Nat
  BY BitFacts
<1>1. \A w \in V : Event(w) \in V /\ (Event(w).done \/ (~ w.done /\ w.pos < Event(w).pos))
  <2>1. ASSUME NEW w \in V
        PROVE  Event(w) \in V /\ (Event(w).done \/ (~ w.done /\ w.pos < Event(w).pos))
    <3>1. CASE w.done
      BY <3>1
    <3>2. CASE ~ w.done
      <4>1. WalkMoved(s, o, from, d, w, WalkEvent(s, w, d))
        BY <3>2, WalkSteps
      <4> QED
        BY <3>2, <4>1 DEF WalkMoved
    <3> QED
      BY <3>1, <3>2
  <2> QED
    BY <2>1
<1> HIDE DEF V, Event
<1>2. step \in Steps(top, V)
  BY <1>1 DEF Steps
<1>3. start \in V
  BY DEF V
<1>4. PICK g : IsRecursion(g, top, V, start, step)
  BY <1>0, <1>2, <1>3, RecursionExists
<1>5. g \in [0..top -> V] /\ g[0] = start
  <2>1. 0 \in 0..top
    BY <1>0
  <2> HIDE DEF step, top
  <2> QED
    BY <1>4, <2>1 DEF IsRecursion
<1>6. \A k \in 1..top : g[k] = Event(g[k - 1]) /\ g[k - 1] \in V
  <2>1. ASSUME NEW k \in 1..top
        PROVE  g[k] = Event(g[k - 1]) /\ g[k - 1] \in V
    <3>1. g[k - 1] \in V /\ k \in 0..top /\ k # 0
      BY <1>0, <1>5
    <3>2. g[k] = step[k][g[k - 1]]
      BY <1>4, <3>1 DEF IsRecursion
    <3> QED
      BY <3>1, <3>2
  <2> QED
    BY <2>1
<1>7. g = [k \in 0..top |-> IF k = 0 THEN start ELSE Event(g[k - 1])]
  <2>1. ASSUME NEW k \in 0..top
        PROVE  g[k] = IF k = 0 THEN start ELSE Event(g[k - 1])
    <3>1. k = 0 \/ k \in 1..top
      BY <1>0
    <3> QED
      BY <1>5, <1>6, <3>1
  <2> QED
    BY <1>5, <2>1
<1>8. walked = [k \in 0..top |-> IF k = 0 THEN start ELSE Event(walked[k - 1])]
  BY <1>7
<1>9. Walk(s, start, d) = walked[top]
  BY DEF Walk, Event
<1> HIDE DEF walked, step
<1> DEFINE T == {k \in 0..top : walked[k] \in V /\ (walked[k].done \/ k <= walked[k].pos)}
<1>10. 0 \in T
  <2>1. walked[0] = start
    BY <1>0, <1>8
  <2>2. start.pos \in 0..Width
    BY DEF WalkStates, WalkRecords
  <2> QED
    BY <1>0, <1>3, <2>1, <2>2
<1>11. ASSUME NEW k \in Nat, k < top, k \in T
       PROVE  k + 1 \in T
  <2>1. walked[k + 1] = Event(walked[k])
    BY <1>0, <1>8, <1>11
  <2>2. walked[k] \in V /\ walked[k + 1] \in V
    BY <1>1, <1>11, <2>1
  <2>3. walked[k].pos \in 0..Width /\ walked[k + 1].pos \in 0..Width
    BY <2>2 DEF V, WalkStates, WalkRecords
  <2>4. walked[k + 1].done \/ k + 1 <= walked[k + 1].pos
    BY <1>0, <1>1, <1>11, <2>1, <2>2, <2>3
  <2> QED
    BY <1>0, <1>11, <2>2, <2>4
<1> HIDE DEF T
<1>12. top \in T
  BY <1>0, <1>10, <1>11, IntervalInduction
<1>13. walked[top] \in V /\ (walked[top].done \/ top <= walked[top].pos)
  BY <1>12 DEF T
<1>14. walked[top].pos \in 0..Width
  BY <1>13 DEF V, WalkStates, WalkRecords
<1>15. walked[top].done
  BY <1>0, <1>13, <1>14
<1> QED
  BY <1>9, <1>13, <1>15 DEF V

-----------------------------------------------------------------------------
(* One type of quote left: its parity.                                     *)

\* The bits of M before bit j.
Before(M, j) == {i \in M : i < j}

\* One bit more turns the parity; no bit keeps it.
LEMMA BeforeNext ==
  ASSUME NEW M, M \subseteq Bits, NEW j \in Bits
  PROVE  /\ j \in M => (Odd(Before(M, j + 1)) <=> ~ Odd(Before(M, j)))
         /\ j \notin M => Before(M, j + 1) = Before(M, j)
<1>1. \A i \in M : i \in Nat /\ j \in Nat /\ (i < j + 1 <=> i < j \/ i = j)
  BY BitNat
<1>2. CASE j \in M
  <2>1. Before(M, j + 1) = {j} \cup Before(M, j)
    BY <1>1, <1>2 DEF Before
  <2>2. {j} \cap Before(M, j) = {} /\ {j} \subseteq Bits /\ Before(M, j) \subseteq Bits
    BY BitNat DEF Before
  <2>3. Odd({j} \cup Before(M, j)) <=> ~ Odd(Before(M, j))
    BY <2>2, OddUnion, OddOne
  <2> QED
    BY <1>2, <2>1, <2>3
<1>3. CASE j \notin M
  <2>1. Before(M, j + 1) = Before(M, j)
    BY <1>1, <1>3 DEF Before
  <2> QED
    BY <1>3, <2>1
<1> QED
  BY <1>2, <1>3

\* q is the one type of quote left from pos on.
OnlyQuote(s, q, pos) == {k \in quotes : Rest(s, k, pos) # {}} = {q}

(* From where the scan is outside, the open quote is the parity of the one  *)
(* type that is left.                                                       *)
LEMMA ParityIsActive ==
  ASSUME NEW s, Block(s), NEW o, NEW from, NEW d, Asked(o, from, d),
         NEW pos, Standing(s, o, from, d, pos), Active(o, s.base + pos) = None,
         NEW q, OnlyQuote(s, q, pos), q # None,
         NEW i \in pos..Width, s.base + i <= Len(buf)
  PROVE  Active(o, s.base + i) = IF Odd(Before(Rest(s, q, pos), i)) THEN q ELSE None
<1> DEFINE M == Rest(s, q, pos)
           Is(j) == Active(o, s.base + j) = IF Odd(Before(M, j)) THEN q ELSE None
           T == {k \in 0..(i - pos) : Is(pos + k)}
<1>1. /\ pos \in 0..Width /\ pos \in Nat /\ Width \in Nat /\ i \in Nat
      /\ s.base \in Nat /\ Len(buf) \in Nat /\ o \in Nat /\ from \in Nat /\ o <= from
      /\ quotes \subseteq Delims /\ from <= s.base + pos
      /\ q \in quotes /\ q \in Delims /\ M \subseteq Bits
  BY BitFacts DEF Standing, Asked, Block, OnlyQuote, Rest, from_mask
<1>2. 0 \in T
  <2>1. ASSUME NEW j \in M PROVE ~ j < pos
    BY <1>1, RestIs, BitNat
  <2>2. Before(M, pos) = {}
    BY <2>1 DEF Before
  <2> HIDE DEF M
  <2>3. Is(pos)
    BY <2>2, OddNone
  <2>4. pos + 0 = pos /\ 0 \in 0..(i - pos)
    BY <1>1
  <2> QED
    BY <2>3, <2>4
<1>3. ASSUME NEW k \in Nat, k < i - pos, k \in T
      PROVE  k + 1 \in T
  <2> DEFINE j == pos + k
  <2>1. /\ j \in Bits /\ j \in Nat /\ pos <= j /\ s.base + j < Len(buf) /\ o <= s.base + j
        /\ pos + (k + 1) = j + 1 /\ k + 1 \in 0..(i - pos) /\ s.base + j \in Nat
        /\ (s.base + j) + 1 = s.base + (j + 1)
    <3>1. j \in Nat /\ pos <= j /\ j < i /\ i <= Width /\ k + 1 \in 0..(i - pos)
      BY <1>1, <1>3
    <3>2. j \in Bits
      BY <1>1, <3>1, BitFacts
    <3>3. pos + (k + 1) = j + 1
      BY <1>1, <1>3
    <3> HIDE DEF j, M
    <3>4. s.base + j < Len(buf) /\ o <= s.base + j /\ s.base + j \in Nat
      BY <1>1, <3>1
    <3>5. (s.base + j) + 1 = s.base + (j + 1)
      <4>1. s.base \in Nat /\ j \in Nat
        BY <1>1, <3>1
      <4> QED
        BY ONLY <4>1
    <3> QED
      BY <3>1, <3>2, <3>3, <3>4, <3>5
  <2>2. Is(j)
    BY <1>3
  <2> HIDE DEF j
  <2>3. Active(o, s.base + (j + 1)) = AfterByte(Active(o, s.base + j), At(s.base + j))
    BY <1>1, <2>1, ActiveNext
  <2>4. j \in M <=> At(s.base + j) = q
    BY <1>1, <2>1, RestIs
  <2>5. At(s.base + j) \in quotes => At(s.base + j) = q
    <3> DEFINE c == At(s.base + j)
    <3>1. ASSUME c \in quotes PROVE j \in Rest(s, c, pos)
      BY <1>1, <2>1, <3>1, RestIs
    <3>2. ASSUME c \in quotes PROVE c \in {x \in quotes : Rest(s, x, pos) # {}}
      BY <3>1, <3>2
    <3> HIDE DEF c
    <3>3. c \in quotes => c = q
      BY <3>2 DEF OnlyQuote
    <3> QED
      BY <3>3 DEF c
  <2>6. /\ j \in M => (Odd(Before(M, j + 1)) <=> ~ Odd(Before(M, j)))
        /\ j \notin M => Before(M, j + 1) = Before(M, j)
    BY <1>1, <2>1, BeforeNext
  <2> HIDE DEF M
  <2>7. Is(j + 1)
    <3>1. CASE j \in M
      BY <1>1, <2>2, <2>3, <2>4, <2>6, <3>1 DEF AfterByte
    <3>2. CASE j \notin M
      BY <1>1, <2>2, <2>3, <2>4, <2>5, <2>6, <3>2 DEF AfterByte
    <3> QED
      BY <3>1, <3>2
  <2> QED
    BY <2>1, <2>7
<1> HIDE DEF T
<1>4. i - pos \in T
  <2>1. i - pos \in Nat /\ i - pos \in 0..(i - pos)
    BY <1>1
  <2> QED
    BY <1>2, <1>3, <2>1, IntervalInduction
<1>5. pos + (i - pos) = i
  BY <1>1
<1> HIDE DEF Is
<1>6. Is(i)
  BY <1>4, <1>5 DEF T
<1> QED
  BY <1>6 DEF Is

\* The bits of d that the parity of the quotes leaves outside.
Hits(s, d, q, pos) == Rest(s, d, pos) \ prefix_xor(Rest(s, q, pos))

\* The prefix XOR finds the first match outside quotes, or the open quote at the end.
LEMMA FastScanIs ==
  ASSUME NEW s, Block(s), NEW o, NEW from, NEW d, Asked(o, from, d),
         NEW pos, Standing(s, o, from, d, pos), Active(o, s.base + pos) = None,
         NEW q, OnlyQuote(s, q, pos)
  PROVE  ScanResult(s, o, from, d, FastScan(s, pos, q, d).in_quote, FastScan(s, pos, q, d).hit)
<1> DEFINE M == Rest(s, q, pos)
           H == Hits(s, d, q, pos)
           U == Unquoted(o, from, d)
<1>1. /\ pos \in 0..Width /\ pos \in Nat /\ Width \in Nat
      /\ s.base \in Nat /\ Len(buf) \in Nat /\ o \in Nat /\ from \in Nat /\ o <= from
      /\ quotes \subseteq Delims /\ from <= s.base + pos
      /\ q \in quotes /\ q \in Delims /\ M \subseteq Bits /\ H \subseteq Bits
      /\ d \in Delims /\ d # q
  BY BitFacts DEF Standing, Asked, Block, OnlyQuote, Rest, from_mask, Hits
<1>2. None \notin Nat /\ q # None /\ Bits \subseteq Nat
  BY <1>1, BlockMasksAssumption, BitFacts
<1>3. ASSUME NEW i \in Rest(s, d, pos)
      PROVE  i \in H <=> s.base + i \in U
  <2>1. i \in Bits /\ i \in Nat /\ pos <= i /\ s.base + i < Len(buf) /\ At(s.base + i) = d
    BY <1>1, RestIs, BitNat
  <2>2. i \notin M
    BY <1>1, <2>1, RestIs
  <2>3. {j \in M : j <= i} = Before(M, i)
    <3>1. ASSUME NEW j \in M PROVE j <= i <=> j < i
      BY <1>1, <2>1, <2>2, BitNat
    <3> QED
      BY <3>1 DEF Before
  <2>4. i \in prefix_xor(M) <=> Odd(Before(M, i))
    BY <1>1, <2>1, <2>3, PrefixXorIs
  <2>5. i \in pos..Width /\ s.base + i <= Len(buf)
    BY <1>1, <2>1, BitNat
  <2>6. Active(o, s.base + i) = IF Odd(Before(M, i)) THEN q ELSE None
    BY <1>2, <2>5, ParityIsActive
  <2>7. i \in H <=> Active(o, s.base + i) = None
    BY <1>2, <2>4, <2>6 DEF Hits
  <2>8. s.base + i \in U <=> Active(o, s.base + i) = None
    BY <1>1, <2>1 DEF Unquoted, Positions
  <2> QED
    BY <2>7, <2>8
<1>4. ASSUME NEW p \in U, p < s.base + Width
      PROVE  p - s.base \in H /\ s.base + (p - s.base) = p
  <2>1. p - s.base \in Rest(s, d, pos) /\ s.base + (p - s.base) = p
    BY <1>4, MatchInRest
  <2> QED
    BY <1>3, <2>1
<1>5. \A p \in U : p \in Nat
  BY <1>1 DEF Unquoted, Positions
<1>6. CASE H # {}
  <2> DEFINE h == Min(H)
  <2>1. FastScan(s, pos, q, d) = [in_quote |-> None, hit |-> h, done |-> TRUE]
    BY <1>6 DEF FastScan, Rest, Hits
  <2>2. h \in H /\ h \in Bits /\ h \in Nat /\ h < Width /\ \A i \in H : h <= i
    BY <1>1, <1>6, LeastRest
  <2>3. s.base + h \in U
    <3>1. h \in Rest(s, d, pos)
      BY <2>2 DEF Hits
    <3> HIDE DEF H, h
    <3> QED
      BY <1>3, <2>2, <3>1
  <2>4. ASSUME NEW p \in U PROVE s.base + h <= p
    <3> HIDE DEF h
    <3>1. CASE p < s.base + Width
      <4>1. h <= p - s.base /\ p \in Nat
        BY <1>4, <1>5, <2>2, <3>1
      <4> QED
        BY <1>1, <2>2, <4>1
    <3>2. CASE ~ p < s.base + Width
      BY <1>1, <1>5, <2>2, <3>2
    <3> QED
      BY <3>1, <3>2
  <2>5. FastScan(s, pos, q, d).in_quote = None /\ FastScan(s, pos, q, d).hit = h
    BY <2>1
  <2> HIDE DEF h, U
  <2>6. AllFrom(U, s.base + h)
    BY <2>4 DEF AllFrom
  <2> QED
    BY <1>2, <2>2, <2>3, <2>5, <2>6 DEF ScanResult, QuoteStates, U
<1>7. CASE H = {}
  <2> DEFINE a == IF Odd(M) THEN q ELSE None
  <2>1. FastScan(s, pos, q, d) = [in_quote |-> a, hit |-> None, done |-> TRUE]
    BY <1>7 DEF FastScan, Rest, Hits, Odd
  <2>2. ASSUME NEW p \in U PROVE s.base + Width <= p
    <3>1. ~ p < s.base + Width
      BY <1>4, <1>7
    <3> QED
      BY <1>1, <1>5, <3>1
  <2>3. ASSUME s.base + Width < Len(buf)
        PROVE  Active(o, s.base + Width) = a
    <3>1. Before(M, Width) = M
      BY <1>1, BitNat DEF Before
    <3>2. Width \in pos..Width /\ s.base + Width <= Len(buf)
      BY <1>1, <2>3
    <3>3. Active(o, s.base + Width) = IF Odd(Before(M, Width)) THEN q ELSE None
      BY <1>2, <3>2, ParityIsActive
    <3> QED
      BY <3>1, <3>3
  <2>4. FastScan(s, pos, q, d).in_quote = a /\ FastScan(s, pos, q, d).hit = None
    BY <2>1
  <2>5. a \in QuoteStates
    BY <1>1 DEF QuoteStates
  <2> HIDE DEF a, U
  <2>6. AllFrom(U, s.base + Width)
    BY <2>2 DEF AllFrom
  <2> QED
    BY <2>3, <2>4, <2>5, <2>6 DEF ScanResult, U
<1> QED
  BY <1>6, <1>7

(* Either way, the scan of a block gives what it owes.                      *)
LEMMA ScanIs ==
  ASSUME NEW s, Block(s), NEW o, NEW from, NEW d, Asked(o, from, d),
         NEW pos, Standing(s, o, from, d, pos), Active(o, s.base + pos) = s.in_quote,
         s.in_quote \in QuoteStates
  PROVE  ScanResult(s, o, from, d, scan_block_unquoted(s, pos, d).in_quote,
                    scan_block_unquoted(s, pos, d).hit)
<1> DEFINE single == single_quote_remaining(s, pos)
           start == [in_quote |-> s.in_quote, pos |-> pos, hit |-> None, done |-> FALSE]
           result == scan_block_unquoted(s, pos, d)
<1>1. single = {k \in quotes : Rest(s, k, pos) # {}}
  BY DEF single_quote_remaining, Rest
<1>2. CASE s.in_quote = None /\ Cardinality(single) = 1
  <2> DEFINE q == CHOOSE q \in single : TRUE
  <2>1. result = FastScan(s, pos, q, d)
    BY <1>2 DEF scan_block_unquoted
  <2>2. IsFiniteSet(single)
    <3>1. IsFiniteSet(Delims) /\ single \subseteq Delims
      BY <1>1, BlockMasksAssumption DEF Asked
    <3> QED
      BY <3>1, FS_Subset
  <2>3. PICK x : single = {x}
    BY <1>2, <2>2, FS_Singleton
  <2>4. OnlyQuote(s, q, pos)
    BY <1>1, <2>3 DEF OnlyQuote
  <2>5. Active(o, s.base + pos) = None
    BY <1>2
  <2> HIDE DEF q, result
  <2> QED
    BY <2>1, <2>4, <2>5, FastScanIs DEF result
<1>3. CASE ~ (s.in_quote = None /\ Cardinality(single) = 1)
  <2>1. result = Walk(s, start, d)
    BY <1>3 DEF scan_block_unquoted
  <2>2. start \in WalkStates(s, o, from, d)
    BY DEF WalkStates, WalkRecords, WalkOK, Standing
  <2> HIDE DEF start, result
  <2>3. result \in WalkStates(s, o, from, d) /\ result.done
    BY <2>1, <2>2, WalkScans
  <2> QED
    BY <2>3 DEF WalkStates, WalkOK, result
<1> QED
  BY <1>2, <1>3

-----------------------------------------------------------------------------
(* The loaded block.                                                       *)

\* What a query may count on: the constants of one BlockMasks value.
Given ==
  /\ Len(buf) \in Nat /\ Len(buf) <= Sentinel /\ quotes \subseteq Delims

Masks ==
  [base : Nat, loaded : BOOLEAN, computed : SUBSET Delims, masks : [Delims -> SUBSET Bits],
   in_quote : QuoteStates, quote_pos : Nat]

\* Every mask marked as computed is the one of the block that is loaded.
Sound(s) ==
  /\ s \in Masks
  /\ s.loaded => s.base < Len(buf)
  /\ ~ s.loaded => s.base = Sentinel
  /\ \A d \in s.computed : s.masks[d] = MaskOf(s.base, d)

SameQuote(s, t) == t.in_quote = s.in_quote /\ t.quote_pos = s.quote_pos

SameBlock(s, t) == t.base = s.base /\ t.loaded = s.loaded /\ SameQuote(s, t)

\* A block that has just been loaded has no mask to trust.
LEMMA LoadAtIs ==
  ASSUME NEW s, Sound(s), NEW base \in Nat, base < Len(buf)
  PROVE  /\ Sound(load_at(s, base)) /\ SameQuote(s, load_at(s, base))
         /\ load_at(s, base).loaded /\ load_at(s, base).base = base
<1> DEFINE t == load_at(s, base)
<1>1. t = [s EXCEPT !.base = base, !.loaded = TRUE, !.computed = {}]
  BY DEF load_at
<1> HIDE DEF t
<1>2. /\ t \in Masks /\ t.base = base /\ t.loaded /\ t.computed = {} /\ SameQuote(s, t)
  BY <1>1 DEF Sound, Masks, SameQuote
<1>3. Sound(t)
  BY <1>2 DEF Sound
<1> QED
  BY <1>2, <1>3 DEF t

\* mask_for returns with the delimiter's mask of the loaded block.
LEMMA MaskForIs ==
  ASSUME Given, NEW s, Sound(s), s.loaded, NEW d \in Delims
  PROVE  /\ Sound(mask_for(s, d)) /\ SameBlock(s, mask_for(s, d))
         /\ mask_for(s, d).masks[d] = MaskOf(s.base, d)
<1>1. CASE d \in s.computed
  BY <1>1 DEF mask_for, Sound, SameBlock, SameQuote
<1>2. CASE d \notin s.computed
  <2> DEFINE t == mask_for(s, d)
             m == compute_one(s.base, d)
  <2>1. t = [s EXCEPT !.masks[d] = m, !.computed = @ \cup {d}]
    BY <1>2 DEF mask_for
  <2>2. s.base \in Nat
    BY DEF Sound, Masks
  <2>3. m = MaskOf(s.base, d) /\ m \in SUBSET Bits
    BY <2>2, ComputeOneIs DEF MaskOf
  <2> HIDE DEF t, m
  <2>4. /\ t \in Masks /\ t.masks = [s.masks EXCEPT ![d] = m] /\ t.computed = s.computed \cup {d}
        /\ SameBlock(s, t) /\ t.masks[d] = m
    BY <2>1, <2>3 DEF Sound, Masks, SameBlock, SameQuote
  <2>5. ASSUME NEW k \in t.computed PROVE t.masks[k] = MaskOf(t.base, k)
    <3>1. t.base = s.base /\ s.computed \subseteq Delims /\ s.masks \in [Delims -> SUBSET Bits]
      BY <2>4 DEF SameBlock, Sound, Masks
    <3>2. CASE k = d
      BY <2>3, <2>4, <3>1, <3>2
    <3>3. CASE k # d
      <4>1. k \in s.computed /\ t.masks[k] = s.masks[k]
        BY <2>4, <3>1, <3>3
      <4> QED
        BY <3>1, <4>1 DEF Sound
    <3> QED
      BY <3>2, <3>3
  <2>6. Sound(t)
    BY <2>4, <2>5 DEF Sound, SameBlock
  <2> QED
    BY <2>3, <2>4, <2>6 DEF t
<1> QED
  BY <1>1, <1>2

\* ensure_all returns with every mask of the loaded block.
LEMMA EnsureAllIs ==
  ASSUME Given, NEW s, Sound(s), s.loaded
  PROVE  /\ Sound(ensure_all(s)) /\ SameBlock(s, ensure_all(s)) /\ Block(ensure_all(s))
<1> DEFINE t == ensure_all(s)
<1>0. s.base \in Nat /\ s.base < Len(buf) /\ Len(buf) \in Nat
  BY DEF Sound, Masks, Given
<1>1. CASE s.computed = Delims
  <2>1. t = s
    BY <1>1 DEF ensure_all
  <2> QED
    BY <1>0, <1>1, <2>1 DEF Sound, SameBlock, SameQuote, Block
<1>2. CASE s.computed # Delims
  <2> DEFINE f == fill(s.base)
  <2>1. t = [s EXCEPT !.masks = f, !.computed = Delims]
    BY <1>2 DEF ensure_all
  <2>2. /\ f \in [Delims -> SUBSET Bits]
        /\ \A d \in Delims : f[d] = MaskOf(s.base, d)
    <3>1. ASSUME NEW d \in Delims
          PROVE  compute_one(s.base, d) = MaskOf(s.base, d)
      BY <1>0, ComputeOneIs
    <3>2. ASSUME NEW d \in Delims PROVE MaskOf(s.base, d) \in SUBSET Bits
      BY DEF MaskOf
    <3> QED
      BY <3>1, <3>2 DEF fill
  <2> HIDE DEF t, f
  <2>3. /\ t \in Masks /\ t.masks = f /\ t.computed = Delims /\ SameBlock(s, t)
    BY <2>1, <2>2 DEF Sound, Masks, SameBlock, SameQuote
  <2>4. Sound(t)
    BY <2>2, <2>3 DEF Sound, SameBlock
  <2>5. Block(t)
    BY <1>0, <2>2, <2>3 DEF Block, SameBlock
  <2> QED
    BY <2>3, <2>4, <2>5 DEF t
<1> QED
  BY <1>1, <1>2

\* The block of a position holds it.
LEMMA BlockOfIs ==
  ASSUME NEW p \in Nat
  PROVE  BlockOf(p) \in Nat /\ BlockOf(p) <= p /\ p < BlockOf(p) + Width
<1>1. Width \in Nat /\ Width > 0
  BY BitFacts
<1>2. p % Width \in 0..(Width - 1) /\ p \div Width \in Nat
      /\ p = Width * (p \div Width) + (p % Width)
  BY <1>1
<1>3. Width * (p \div Width) \in Nat
  BY <1>1, <1>2
<1> QED
  BY <1>1, <1>2, <1>3 DEF BlockOf

\* The block that a query works on at position at.
Selected(s, at) == IF Outside(s, at) THEN select_block(s, at) ELSE s

(* After selecting, the position is in the block that is loaded.            *)
LEMMA SelectedIs ==
  ASSUME Given, NEW s, Sound(s), NEW at \in Nat, at < Len(buf)
  PROVE  /\ Sound(Selected(s, at)) /\ SameQuote(s, Selected(s, at)) /\ Selected(s, at).loaded
         /\ Selected(s, at).base <= at /\ at < Selected(s, at).base + Width
<1>1. /\ BlockOf(at) \in Nat /\ BlockOf(at) <= at /\ at < BlockOf(at) + Width
      /\ Width \in Nat /\ s.base \in Nat /\ Len(buf) \in Nat /\ Sentinel \in Nat
      /\ Len(buf) <= Sentinel
  BY BlockOfIs, BitFacts, BlockMasksAssumption DEF Sound, Masks, Given
<1>2. CASE Outside(s, at)
  <2>1. BlockOf(at) # s.base
    BY <1>1, <1>2 DEF Outside
  <2>2. Selected(s, at) = load_at(s, BlockOf(at))
    BY <1>2, <2>1 DEF Selected, select_block
  <2>3. BlockOf(at) < Len(buf)
    BY <1>1
  <2> QED
    BY <1>1, <2>2, <2>3, LoadAtIs
<1>3. CASE ~ Outside(s, at)
  <2>1. s.base <= at /\ at < s.base + Width
    BY <1>1, <1>3 DEF Outside
  <2>2. s.loaded
    BY <1>1, <2>1 DEF Sound
  <2> QED
    BY <1>3, <2>1, <2>2 DEF Selected, SameQuote
<1> QED
  BY <1>2, <1>3

-----------------------------------------------------------------------------
(* The loop of a query.                                                    *)

LoopRecords ==
  [s : Masks, at : Nat, done : BOOLEAN, found : Nat \cup {None} \cup (Nat \X Delims)]

\* Turns stay in V, and one that does not end the loop gains rank.
Advances(V, rank, query, what) ==
  \A l \in V : ~ l.done =>
    /\ Turn(query, what, l) \in V
    /\ rank[l] \in Nat /\ rank[l] < Len(buf)
    /\ Turn(query, what, l).done \/ rank[l] < rank[Turn(query, what, l)]

\* A loop whose turns keep V and raise the rank, which stays below the number of
\* bytes, ends, in V.
LEMMA LoopEnds ==
  ASSUME Len(buf) \in Nat, NEW V, NEW rank \in [V -> Nat], NEW query, NEW what,
         Advances(V, rank, query, what), NEW start \in V
  PROVE  Loop(query, what, start) \in V /\ Loop(query, what, start).done
<1> DEFINE top == Len(buf)
           One(l) == IF l.done THEN l ELSE Turn(query, what, l)
           step == [k \in 1..top |-> [l \in V |-> One(l)]]
           turn == CHOOSE f : f = [k \in 0..top |-> IF k = 0 THEN start ELSE One(f[k - 1])]
<1>1. \A l \in V : One(l) \in V /\ (One(l).done \/ (~ l.done /\ rank[l] < rank[One(l)]))
  <2>1. ASSUME NEW l \in V
        PROVE  One(l) \in V /\ (One(l).done \/ (~ l.done /\ rank[l] < rank[One(l)]))
    <3>1. CASE l.done
      BY <3>1
    <3>2. CASE ~ l.done
      BY <3>2 DEF Advances
    <3> QED
      BY <3>1, <3>2
  <2> QED
    BY <2>1
<1> HIDE DEF One
<1>2. step \in Steps(top, V)
  BY <1>1 DEF Steps
<1>3. PICK g : IsRecursion(g, top, V, start, step)
  BY <1>2, RecursionExists
<1>4. g \in [0..top -> V] /\ g[0] = start
  <2>1. 0 \in 0..top
    OBVIOUS
  <2> HIDE DEF step, top
  <2> QED
    BY <1>3, <2>1 DEF IsRecursion
<1>5. \A k \in 1..top : g[k] = One(g[k - 1]) /\ g[k - 1] \in V
  <2>1. ASSUME NEW k \in 1..top
        PROVE  g[k] = One(g[k - 1]) /\ g[k - 1] \in V
    <3>1. g[k - 1] \in V /\ k \in 0..top /\ k # 0
      BY <1>4
    <3>2. g[k] = step[k][g[k - 1]]
      BY <1>3, <3>1 DEF IsRecursion
    <3> QED
      BY <3>1, <3>2
  <2> QED
    BY <2>1
<1>6. g = [k \in 0..top |-> IF k = 0 THEN start ELSE One(g[k - 1])]
  <2>1. ASSUME NEW k \in 0..top
        PROVE  g[k] = IF k = 0 THEN start ELSE One(g[k - 1])
    <3>1. k = 0 \/ k \in 1..top
      OBVIOUS
    <3> QED
      BY <1>4, <1>5, <3>1
  <2> QED
    BY <1>4, <2>1
<1>7. turn = [k \in 0..top |-> IF k = 0 THEN start ELSE One(turn[k - 1])]
  BY <1>6
<1>8. Loop(query, what, start) = turn[top]
  BY DEF Loop, One
<1> HIDE DEF turn, step
<1> DEFINE T == {k \in 0..top : turn[k] \in V /\ (turn[k].done \/ k <= rank[turn[k]])}
<1>9. 0 \in T
  <2>1. turn[0] = start /\ 0 <= rank[start]
    BY <1>7
  <2> QED
    BY <2>1
<1>10. ASSUME NEW k \in Nat, k < top, k \in T
       PROVE  k + 1 \in T
  <2>1. turn[k + 1] = One(turn[k])
    BY <1>7, <1>10
  <2>2. turn[k] \in V /\ turn[k + 1] \in V
    BY <1>1, <1>10, <2>1
  <2>3. rank[turn[k]] \in Nat /\ rank[turn[k + 1]] \in Nat
    BY <2>2
  <2>4. turn[k + 1].done \/ k + 1 <= rank[turn[k + 1]]
    <3>1. CASE turn[k].done
      BY <3>1, <2>1 DEF One
    <3>2. CASE ~ turn[k].done
      BY <1>1, <1>10, <2>1, <2>2, <2>3, <3>2
    <3> QED
      BY <3>1, <3>2
  <2> QED
    BY <1>10, <2>2, <2>4
<1> HIDE DEF T
<1>11. top \in T
  <2>1. top \in Nat /\ top \in 0..top
    OBVIOUS
  <2> HIDE DEF top
  <2> QED
    BY <1>9, <1>10, <2>1, IntervalInduction
<1>12. turn[top] \in V /\ (turn[top].done \/ top <= rank[turn[top]])
  BY <1>11 DEF T
<1>13. turn[top].done
  BY <1>12 DEF Advances
<1> QED
  BY <1>8, <1>12, <1>13

-----------------------------------------------------------------------------
(* The queries without quotes.                                             *)

\* A search for the first of P that began at from: nothing of P lies behind.
SearchOK(P, answer, from, s0, l) ==
  /\ Sound(l.s) /\ SameQuote(s0, l.s)
  /\ IF l.done THEN l.found = answer
     ELSE from <= l.at /\ l.at < Len(buf) /\ AllFrom(P, l.at)

SearchStates(P, answer, from, s0) == {l \in LoopRecords : SearchOK(P, answer, from, s0, l)}

(* The first bit of a block is the first position.                          *)
LEMMA FirstBit ==
  ASSUME NEW P, P \subseteq Nat, NEW base \in Nat, NEW H, H \subseteq Bits, H # {},
         \A i \in Bits : i \in H <=> base + i \in P,
         AllFrom(P, base)
  PROVE  P # {} /\ base + Min(H) = Min(P) /\ base + Min(H) \in P /\ Min(H) \in Bits
<1>1. Min(H) \in H /\ Min(H) \in Bits /\ Min(H) \in Nat /\ Min(H) < Width /\ \A i \in H : Min(H) <= i
  BY LeastRest
<1>2. base + Min(H) \in P
  BY <1>1
<1>3. Min(P) \in P /\ \A p \in P : Min(P) <= p
  BY <1>2, MinIs
<1> DEFINE i == Min(P) - base
<1>4. Min(P) \in Nat /\ base <= Min(P) /\ Min(P) <= base + Min(H)
  BY <1>2, <1>3 DEF AllFrom
<1>5. i \in Bits /\ base + i = Min(P)
  BY <1>1, <1>4, BitFacts
<1>6. i \in H
  BY <1>3, <1>5
<1>7. Min(H) <= i
  BY <1>1, <1>6
<1>8. base + Min(H) = Min(P)
  <2>1. i \in Nat
    BY <1>5, BitNat
  <2> QED
    BY <1>1, <1>4, <1>5, <1>7
<1> QED
  BY <1>1, <1>2, <1>8

\* A block without a match moves the front of the search to its end.
LEMMA NoBit ==
  ASSUME NEW P, P \subseteq Nat, NEW base \in Nat,
         \A i \in Bits : base + i \notin P, AllFrom(P, base)
  PROVE  AllFrom(P, base + Width)
<1>1. ASSUME NEW p \in P PROVE base + Width <= p
  <2>1. p \in Nat /\ base <= p /\ Width \in Nat
    BY BitFacts DEF AllFrom
  <2>2. SUFFICES ASSUME p < base + Width PROVE FALSE
    BY <2>1
  <2>3. p - base \in Bits /\ base + (p - base) = p
    BY <2>1, <2>2, BitFacts
  <2> QED
    BY <2>3
<1> QED
  BY <1>1 DEF AllFrom

(* Going on to the next block, or not.                                      *)
LEMMA SearchGoesOn ==
  ASSUME Given, NEW s, Sound(s), s.loaded, NEW s0, SameQuote(s0, s),
         NEW P, P \subseteq 0..(Len(buf) - 1), AllFrom(P, s.base + Width),
         NEW answer, P = {} => answer = None,
         NEW from \in Nat, from <= s.base + Width
  PROVE  /\ AdvanceOr(s, s) \in SearchStates(P, answer, from, s0)
         /\ AdvanceOr(s, s).done \/ AdvanceOr(s, s).at = s.base + Width
<1>1. /\ s.base \in Nat /\ Width \in Nat /\ Len(buf) \in Nat /\ s \in Masks
      /\ s.base + Width \in Nat
  BY BitFacts DEF Sound, Masks, Given
<1>2. CASE CanAdvance(s)
  <2> DEFINE base == s.base + Width
             t == load_at(s, base)
             l == [s |-> t, at |-> base, done |-> FALSE, found |-> None]
  <2>1. AdvanceOr(s, s) = l
    BY <1>2 DEF AdvanceOr, Unfinished, advance_block
  <2>2. base \in Nat /\ base < Len(buf)
    BY <1>1, <1>2 DEF CanAdvance
  <2> HIDE DEF base
  <2>3. Sound(t) /\ SameQuote(s, t)
    BY <2>2, LoadAtIs
  <2> HIDE DEF t
  <2>4. SameQuote(s0, t) /\ t \in Masks
    BY <2>3 DEF SameQuote, Sound
  <2>5. l \in LoopRecords /\ l.s = t /\ l.at = base /\ l.done = FALSE
    BY <2>2, <2>4 DEF LoopRecords
  <2> HIDE DEF l
  <2>6. SearchOK(P, answer, from, s0, l)
    BY <2>2, <2>3, <2>4, <2>5 DEF SearchOK, base
  <2> QED
    BY <2>1, <2>5, <2>6 DEF SearchStates, base
<1>3. CASE ~ CanAdvance(s)
  <2> DEFINE l == [s |-> s, at |-> 0, done |-> TRUE, found |-> None]
  <2>1. AdvanceOr(s, s) = l
    BY <1>3 DEF AdvanceOr, Returns
  <2>2. P = {}
    <3>1. SUFFICES ASSUME NEW p \in P PROVE FALSE
      OBVIOUS
    <3>2. s.base + Width <= p /\ p \in Nat /\ p < Len(buf)
      BY <1>1 DEF AllFrom
    <3>3. ~ s.base + Width < Len(buf)
      BY <1>3 DEF CanAdvance
    <3> QED
      BY <1>1, <3>2, <3>3
  <2>3. l \in LoopRecords /\ l.s = s /\ l.done /\ l.found = None
    BY <1>1 DEF LoopRecords
  <2> HIDE DEF l
  <2>4. SearchOK(P, answer, from, s0, l)
    BY <2>2, <2>3 DEF SearchOK
  <2> QED
    BY <2>1, <2>3, <2>4 DEF SearchStates
<1> QED
  BY <1>2, <1>3

\* What next and next_any look for.
Marks(from, ds) == {p \in Positions(from) : At(p) \in ds}

AnyAnswer(P) == IF P = {} THEN None ELSE <<Min(P), At(Min(P))>>

(* The bits of a block that a search may still find are its positions.      *)
LEMMA BitsAreMarks ==
  ASSUME NEW base \in Nat, Len(buf) \in Nat, NEW ds, NEW from \in Nat, NEW at \in Nat,
         from <= at, base <= at, AllFrom(Marks(from, ds), at),
         NEW H, \A i \in Bits : i \in H <=>
                   base + i < Len(buf) /\ At(base + i) \in ds /\ i >= at - base
  PROVE  \A i \in Bits : i \in H <=> base + i \in Marks(from, ds)
<1>1. ASSUME NEW i \in Bits
      PROVE  i \in H <=> base + i \in Marks(from, ds)
  <2>1. i \in Nat
    BY BitNat
  <2>2. base + i \in Marks(from, ds) =>
          base + i < Len(buf) /\ At(base + i) \in ds /\ i >= at - base
    <3>1. SUFFICES ASSUME base + i \in Marks(from, ds)
                   PROVE  base + i < Len(buf) /\ At(base + i) \in ds /\ i >= at - base
      OBVIOUS
    <3>2. at <= base + i
      BY <3>1 DEF AllFrom
    <3>3. base + i < Len(buf) /\ At(base + i) \in ds
      BY <2>1, <3>1 DEF Marks, Positions
    <3> QED
      BY <2>1, <3>2, <3>3
  <2>3. ASSUME base + i < Len(buf), At(base + i) \in ds, i >= at - base
        PROVE  base + i \in Marks(from, ds)
    BY <2>1, <2>3 DEF Marks, Positions
  <2> QED
    BY <2>2, <2>3
<1> QED
  BY <1>1

\* A turn ends the loop, or its position is further on.
Turned(V, l, v) == v \in V /\ (v.done \/ l.at < v.at)

\* A turn of next finds the answer or moves the search to the next block.
LEMMA NextTurns ==
  ASSUME Given, NEW d \in Delims, NEW from \in Nat, NEW s0,
         NEW P, P = Marks(from, {d}), NEW answer, answer = FirstOf(P),
         NEW l \in SearchStates(P, answer, from, s0), ~ l.done
  PROVE  Turned(SearchStates(P, answer, from, s0), l, NextTurn(l, d))
<1> DEFINE s == mask_for(Selected(l.s, l.at), d)
           H == s.masks[d] \cap from_mask(l.at - s.base)
           v == NextTurn(l, d)
<1>1. /\ l \in LoopRecords /\ Sound(l.s) /\ SameQuote(s0, l.s)
      /\ from <= l.at /\ l.at < Len(buf) /\ AllFrom(P, l.at) /\ l.at \in Nat
      /\ Len(buf) \in Nat /\ Width \in Nat
  BY BitFacts DEF SearchStates, SearchOK, LoopRecords, Given
<1>2. /\ Sound(Selected(l.s, l.at)) /\ SameQuote(l.s, Selected(l.s, l.at))
      /\ Selected(l.s, l.at).loaded
      /\ Selected(l.s, l.at).base <= l.at /\ l.at < Selected(l.s, l.at).base + Width
  BY <1>1, SelectedIs
<1>3. /\ Sound(s) /\ s.loaded /\ SameQuote(s0, s) /\ s.masks[d] = MaskOf(s.base, d)
      /\ s.base \in Nat /\ s.base <= l.at /\ l.at < s.base + Width
  <2>1. /\ Sound(s) /\ SameBlock(Selected(l.s, l.at), s)
        /\ s.masks[d] = MaskOf(Selected(l.s, l.at).base, d)
    BY <1>2, MaskForIs
  <2> HIDE DEF s
  <2> QED
    BY <1>1, <1>2, <2>1 DEF SameBlock, SameQuote, Sound, Masks
<1>4. v = IF H # {} THEN Returns(s, s.base + Min(H)) ELSE AdvanceOr(s, s)
  BY DEF NextTurn, Selected
<1> HIDE DEF s
<1>5. H \subseteq Bits /\ P \subseteq 0..(Len(buf) - 1) /\ P \subseteq Nat
  BY <1>1 DEF from_mask, Marks, Positions
<1>6. \A i \in Bits : i \in H <=> s.base + i \in P
  <2>1. \A i \in Bits : i \in H <=>
          s.base + i < Len(buf) /\ At(s.base + i) \in {d} /\ i >= l.at - s.base
    BY <1>3 DEF MaskOf, from_mask
  <2> HIDE DEF H
  <2> QED
    BY <1>1, <1>3, <2>1, BitsAreMarks
<1>7. AllFrom(P, s.base) /\ from <= s.base + Width
  <2>1. s.base \in Nat /\ s.base <= l.at /\ l.at < s.base + Width
    BY <1>3
  <2>2. ASSUME NEW p \in P PROVE s.base <= p
    <3>1. p \in Nat /\ l.at <= p
      BY <1>1, <1>5 DEF AllFrom
    <3> QED
      BY <1>1, <2>1, <3>1
  <2>3. from <= s.base + Width
    BY <1>1, <2>1
  <2> QED
    BY <2>2, <2>3 DEF AllFrom
<1> HIDE DEF H, v
<1>8. CASE H # {}
  <2>1. P # {} /\ s.base + Min(H) = Min(P) /\ s.base + Min(H) \in P
    BY <1>3, <1>5, <1>6, <1>7, <1>8, FirstBit
  <2>2. v = [s |-> s, at |-> 0, done |-> TRUE, found |-> Min(P)] /\ Min(P) \in Nat
    BY <1>4, <1>5, <1>8, <2>1 DEF Returns
  <2>3. v \in LoopRecords /\ v.s = s /\ v.done /\ v.found = Min(P)
    BY <1>3, <2>2 DEF LoopRecords, Sound
  <2>4. SearchOK(P, answer, from, s0, v)
    BY <1>3, <2>1, <2>3 DEF SearchOK, FirstOf
  <2> QED
    BY <2>3, <2>4 DEF Turned, SearchStates, v
<1>9. CASE H = {}
  <2>1. AllFrom(P, s.base + Width)
    BY <1>3, <1>5, <1>6, <1>7, <1>9, NoBit
  <2>2. P = {} => answer = None
    BY DEF FirstOf
  <2>3. /\ AdvanceOr(s, s) \in SearchStates(P, answer, from, s0)
        /\ AdvanceOr(s, s).done \/ AdvanceOr(s, s).at = s.base + Width
    BY <1>3, <1>5, <1>7, <2>1, <2>2, SearchGoesOn
  <2>4. v = AdvanceOr(s, s)
    BY <1>4, <1>9
  <2> QED
    BY <1>3, <2>3, <2>4 DEF Turned, v
<1> QED
  BY <1>8, <1>9

\* A turn of next_any does so too.
LEMMA NextAnyTurns ==
  ASSUME Given, NEW ds, ds \subseteq Delims, NEW from \in Nat, NEW s0,
         NEW P, P = Marks(from, ds), NEW answer, answer = AnyAnswer(P),
         NEW l \in SearchStates(P, answer, from, s0), ~ l.done
  PROVE  Turned(SearchStates(P, answer, from, s0), l, NextAnyTurn(l, ds))
<1> DEFINE s == ensure_all(Selected(l.s, l.at))
           H == (UNION {s.masks[d] : d \in ds}) \cap from_mask(l.at - s.base)
           first == CHOOSE d \in ds : Min(H) \in s.masks[d]
           v == NextAnyTurn(l, ds)
<1>1. /\ l \in LoopRecords /\ Sound(l.s) /\ SameQuote(s0, l.s)
      /\ from <= l.at /\ l.at < Len(buf) /\ AllFrom(P, l.at) /\ l.at \in Nat
      /\ Len(buf) \in Nat /\ Width \in Nat
  BY BitFacts DEF SearchStates, SearchOK, LoopRecords, Given
<1>2. /\ Sound(Selected(l.s, l.at)) /\ SameQuote(l.s, Selected(l.s, l.at))
      /\ Selected(l.s, l.at).loaded
      /\ Selected(l.s, l.at).base <= l.at /\ l.at < Selected(l.s, l.at).base + Width
  BY <1>1, SelectedIs
<1>3. /\ Sound(s) /\ s.loaded /\ SameQuote(s0, s)
      /\ \A d \in ds : s.masks[d] = MaskOf(s.base, d)
      /\ s.base \in Nat /\ s.base <= l.at /\ l.at < s.base + Width
  <2>1. Sound(s) /\ SameBlock(Selected(l.s, l.at), s) /\ Block(s)
    BY <1>2, EnsureAllIs
  <2> HIDE DEF s
  <2> QED
    BY <1>1, <1>2, <2>1 DEF SameBlock, SameQuote, Sound, Masks, Block
<1>4. v = IF H # {} THEN Returns(s, <<s.base + Min(H), first>>) ELSE AdvanceOr(s, s)
  BY DEF NextAnyTurn, Selected
<1> HIDE DEF s
<1>5. H \subseteq Bits /\ P \subseteq 0..(Len(buf) - 1) /\ P \subseteq Nat
  BY <1>1 DEF from_mask, Marks, Positions
<1>6. \A i \in Bits : i \in H <=> s.base + i \in P
  <2>1. \A i \in Bits : i \in H <=>
          s.base + i < Len(buf) /\ At(s.base + i) \in ds /\ i >= l.at - s.base
    BY <1>3 DEF MaskOf, from_mask
  <2> HIDE DEF H
  <2> QED
    BY <1>1, <1>3, <2>1, BitsAreMarks
<1>7. AllFrom(P, s.base) /\ from <= s.base + Width
  <2>1. s.base \in Nat /\ s.base <= l.at /\ l.at < s.base + Width
    BY <1>3
  <2>2. ASSUME NEW p \in P PROVE s.base <= p
    <3>1. p \in Nat /\ l.at <= p
      BY <1>1, <1>5 DEF AllFrom
    <3> QED
      BY <1>1, <2>1, <3>1
  <2>3. from <= s.base + Width
    BY <1>1, <2>1
  <2> QED
    BY <2>2, <2>3 DEF AllFrom
<1> HIDE DEF H, v
<1>8. CASE H # {}
  <2>1. P # {} /\ s.base + Min(H) = Min(P) /\ s.base + Min(H) \in P /\ Min(H) \in Bits
    BY <1>3, <1>5, <1>6, <1>7, <1>8, FirstBit
  <2>2. first = At(Min(P)) /\ first \in Delims
    <3>1. At(s.base + Min(H)) \in ds /\ s.base + Min(H) < Len(buf)
      BY <1>1, <2>1 DEF Marks, Positions
    <3>2. Min(H) \in MaskOf(s.base, At(s.base + Min(H)))
      BY <2>1, <3>1 DEF MaskOf
    <3>3. \E d \in ds : Min(H) \in s.masks[d]
      BY <1>3, <3>1, <3>2
    <3>4. first \in ds /\ Min(H) \in s.masks[first]
      BY <3>3
    <3> HIDE DEF first
    <3>5. At(s.base + Min(H)) = first
      BY <1>3, <3>4 DEF MaskOf
    <3> QED
      BY <2>1, <3>4, <3>5
  <2> HIDE DEF first
  <2>3. v = [s |-> s, at |-> 0, done |-> TRUE, found |-> <<Min(P), At(Min(P))>>]
        /\ Min(P) \in Nat
    BY <1>4, <1>5, <1>8, <2>1, <2>2 DEF Returns
  <2>4. v \in LoopRecords /\ v.s = s /\ v.done /\ v.found = <<Min(P), At(Min(P))>>
    BY <1>3, <2>2, <2>3 DEF LoopRecords, Sound
  <2>5. SearchOK(P, answer, from, s0, v)
    BY <1>3, <2>1, <2>4 DEF SearchOK, AnyAnswer
  <2> QED
    BY <2>4, <2>5 DEF Turned, SearchStates, v
<1>9. CASE H = {}
  <2>1. AllFrom(P, s.base + Width)
    BY <1>3, <1>5, <1>6, <1>7, <1>9, NoBit
  <2>2. P = {} => answer = None
    BY DEF AnyAnswer
  <2>3. /\ AdvanceOr(s, s) \in SearchStates(P, answer, from, s0)
        /\ AdvanceOr(s, s).done \/ AdvanceOr(s, s).at = s.base + Width
    BY <1>3, <1>5, <1>7, <2>1, <2>2, SearchGoesOn
  <2>4. v = AdvanceOr(s, s)
    BY <1>4, <1>9
  <2> QED
    BY <1>3, <2>3, <2>4 DEF Turned, v
<1> QED
  BY <1>8, <1>9

(* Both queries find the first of what they look for.                       *)
LEMMA SearchEnds ==
  ASSUME Given, NEW query, NEW what, NEW P, NEW answer, NEW from \in Nat, from < Len(buf),
         AllFrom(P, from), NEW s0, Sound(s0),
         \A l \in SearchStates(P, answer, from, s0) : ~ l.done =>
           Turned(SearchStates(P, answer, from, s0), l, Turn(query, what, l)),
         NEW r, r = Loop(query, what, Unfinished(s0, from))
  PROVE  Sound(r.s) /\ SameQuote(s0, r.s) /\ r.found = answer
<1> DEFINE V == SearchStates(P, answer, from, s0)
           start == Unfinished(s0, from)
           rank == [l \in V |-> l.at]
<1>1. start \in V
  <2>1. start = [s |-> s0, at |-> from, done |-> FALSE, found |-> None]
    BY DEF Unfinished
  <2> HIDE DEF start
  <2>2. start \in LoopRecords /\ start.s = s0 /\ start.at = from /\ start.done = FALSE
    BY <2>1 DEF LoopRecords, Sound
  <2>3. SearchOK(P, answer, from, s0, start)
    BY <2>2 DEF SearchOK, SameQuote
  <2> QED
    BY <2>2, <2>3 DEF SearchStates
<1>2. \A l \in V : l.at \in Nat /\ (~ l.done => l.at < Len(buf))
  BY DEF SearchStates, SearchOK, LoopRecords
<1>3. \A l \in V : ~ l.done => Turned(V, l, Turn(query, what, l))
  OBVIOUS
<1> HIDE DEF V, start
<1>4. rank \in [V -> Nat]
  BY <1>2
<1>5. Advances(V, rank, query, what)
  <2>1. ASSUME NEW l \in V, ~ l.done
        PROVE  /\ Turn(query, what, l) \in V
               /\ rank[l] \in Nat /\ rank[l] < Len(buf)
               /\ Turn(query, what, l).done \/ rank[l] < rank[Turn(query, what, l)]
    <3> DEFINE v == Turn(query, what, l)
    <3>1. v \in V /\ (v.done \/ l.at < v.at)
      BY <1>3, <2>1 DEF Turned
    <3>2. rank[l] = l.at
      OBVIOUS
    <3> HIDE DEF v
    <3>3. rank[v] = v.at
      BY <3>1
    <3> QED
      BY <1>2, <2>1, <3>1, <3>2, <3>3 DEF v
  <2> HIDE DEF rank
  <2> QED
    BY <2>1 DEF Advances
<1> HIDE DEF rank
<1>6. r \in V /\ r.done
  <2>1. Len(buf) \in Nat
    BY DEF Given
  <2>2. r = Loop(query, what, start)
    BY DEF start
  <2> QED
    BY <1>1, <1>4, <1>5, <2>1, <2>2, LoopEnds
<1> QED
  BY <1>6 DEF V, SearchStates, SearchOK

\* The marks are at or after the start.
LEMMA MarksAhead ==
  ASSUME NEW from \in Nat, NEW ds, Len(buf) \in Nat
  PROVE  AllFrom(Marks(from, ds), from)
  BY DEF AllFrom, Marks, Positions

\* next finds what a byte-by-byte scan finds.
LEMMA NextFinds ==
  ASSUME Given, NEW d \in Delims, NEW from \in Nat, from < Len(buf), NEW s0, Sound(s0),
         NEW r, r = Loop("next", d, Unfinished(s0, from))
  PROVE  /\ Sound(r.s) /\ SameQuote(s0, r.s)
         /\ r.found = FirstOf({p \in Positions(from) : At(p) = d})
<1> DEFINE P == Marks(from, {d})
           answer == FirstOf(P)
           V == SearchStates(P, answer, from, s0)
<1>1. \A l : Turn("next", d, l) = NextTurn(l, d)
  BY DEF Turn
<1>2. \A l \in V : ~ l.done => Turned(V, l, Turn("next", d, l))
  <2>1. ASSUME NEW l \in V, ~ l.done PROVE Turned(V, l, NextTurn(l, d))
    BY <2>1, NextTurns
  <2> QED
    BY <1>1, <2>1
<1>3. AllFrom(P, from)
  BY MarksAhead DEF Given
<1>4. P = {p \in Positions(from) : At(p) = d}
  BY DEF Marks
<1> HIDE DEF P, answer
<1>5. Sound(r.s) /\ SameQuote(s0, r.s) /\ r.found = answer
  BY <1>2, <1>3, SearchEnds
<1> QED
  BY <1>4, <1>5 DEF answer

\* next_any finds the first of the delimiters, and which one it is.
LEMMA NextAnyFinds ==
  ASSUME Given, NEW ds, ds \subseteq Delims, NEW from \in Nat, from < Len(buf),
         NEW s0, Sound(s0), NEW r, r = Loop("next_any", ds, Unfinished(s0, from))
  PROVE  Sound(r.s) /\ SameQuote(s0, r.s) /\ r.found = AnyAnswer(Marks(from, ds))
<1> DEFINE P == Marks(from, ds)
           answer == AnyAnswer(P)
           V == SearchStates(P, answer, from, s0)
<1>1. \A l : Turn("next_any", ds, l) = NextAnyTurn(l, ds)
  BY DEF Turn
<1>2. \A l \in V : ~ l.done => Turned(V, l, Turn("next_any", ds, l))
  <2>1. ASSUME NEW l \in V, ~ l.done PROVE Turned(V, l, NextAnyTurn(l, ds))
    BY <2>1, NextAnyTurns
  <2> QED
    BY <1>1, <2>1
<1>3. AllFrom(P, from)
  BY MarksAhead DEF Given
<1> HIDE DEF P, answer
<1>4. Sound(r.s) /\ SameQuote(s0, r.s) /\ r.found = answer
  BY <1>2, <1>3, SearchEnds
<1> QED
  BY <1>4 DEF answer, P

-----------------------------------------------------------------------------
(* next_unquoted.                                                          *)

\* The quote state is that of quote_pos, as long as the buffer goes on there.
Carried(o, s) ==
  /\ o <= s.quote_pos
  /\ s.quote_pos < Len(buf) => s.in_quote = Active(o, s.quote_pos)

CursorOK(o, from, d, l) ==
  /\ Sound(l.s)
  /\ IF l.done THEN l.found = FirstOf(Unquoted(o, from, d)) /\ Carried(o, l.s)
     ELSE /\ l.s.loaded /\ l.s.base <= l.at /\ l.at <= l.s.base + Width
          /\ from <= l.at /\ l.at < Len(buf) /\ AllFrom(Unquoted(o, from, d), l.at)
          /\ Active(o, l.at) = l.s.in_quote

CursorStates(o, from, d) == {l \in LoopRecords : CursorOK(o, from, d, l)}

\* A turn ends the loop, or goes on in a later block.
Moved(V, l, v) == v \in V /\ (v.done \/ l.s.base < v.s.base)

WithQuote(s, a, pos) == [[s EXCEPT !.in_quote = a] EXCEPT !.quote_pos = pos]

(* Only the quote state of the value changes.                               *)
LEMMA QuoteUpdate ==
  ASSUME NEW s, Sound(s), NEW a \in QuoteStates, NEW pos \in Nat,
         NEW t, t = WithQuote(s, a, pos)
  PROVE  /\ Sound(t) /\ t.base = s.base /\ t.loaded = s.loaded
         /\ t.in_quote = a /\ t.quote_pos = pos
<1>1. /\ t \in Masks /\ t.base = s.base /\ t.loaded = s.loaded /\ t.computed = s.computed
      /\ t.masks = s.masks /\ t.in_quote = a /\ t.quote_pos = pos
  BY DEF Sound, Masks, WithQuote
<1>2. Sound(t)
  BY <1>1 DEF Sound
<1> QED
  BY <1>1, <1>2

\* A turn of next_unquoted finds the answer or carries the quote to the next block.
LEMMA UnquotedTurns ==
  ASSUME Given, NEW o, NEW from, NEW d, Asked(o, from, d),
         NEW l \in CursorStates(o, from, d), ~ l.done
  PROVE  Moved(CursorStates(o, from, d), l, UnquotedTurn(l, d))
<1> DEFINE s == ensure_all(l.s)
           pos == Offset(s, l.at)
           scan == scan_block_unquoted(s, pos, d)
           a == scan.in_quote
           h == scan.hit
           U == Unquoted(o, from, d)
           v == UnquotedTurn(l, d)
<1>1. /\ l \in LoopRecords /\ Sound(l.s) /\ l.s.loaded
      /\ l.s.base <= l.at /\ l.at <= l.s.base + Width
      /\ from <= l.at /\ l.at < Len(buf) /\ AllFrom(U, l.at)
      /\ Active(o, l.at) = l.s.in_quote
      /\ l.at \in Nat /\ Len(buf) \in Nat /\ Width \in Nat /\ Width > 0
      /\ from \in Nat /\ o \in Nat /\ o <= from /\ d \in Delims /\ d \notin quotes
  BY BitFacts DEF CursorStates, CursorOK, LoopRecords, Given, Asked
<1>2. Sound(s) /\ SameBlock(l.s, s) /\ Block(s)
  BY <1>1, EnsureAllIs
<1>3. v = IF h # None
            THEN Returns(WithQuote(s, a, (s.base + h) + 1), s.base + h)
          ELSE AdvanceOr(WithQuote(s, a, s.base + Width), WithQuote(s, a, s.base + Width))
  BY DEF UnquotedTurn, WithQuote
<1> HIDE DEF s, scan, v
<1>4. /\ s.base = l.s.base /\ s.loaded /\ s.in_quote = l.s.in_quote
      /\ s.base \in Nat /\ s.in_quote \in QuoteStates
  BY <1>1, <1>2 DEF SameBlock, SameQuote, Sound, Masks
<1>5. pos = l.at - s.base /\ pos \in 0..Width /\ s.base + pos = l.at
  BY <1>1, <1>4 DEF Offset
<1> HIDE DEF pos, U
<1>6. Standing(s, o, from, d, pos) /\ Active(o, s.base + pos) = s.in_quote
  BY <1>1, <1>4, <1>5 DEF Standing, U
<1>7. ScanResult(s, o, from, d, a, h)
  BY <1>2, <1>4, <1>6, ScanIs DEF scan
<1> HIDE DEF a, h
<1>8. a \in QuoteStates /\ U \subseteq 0..(Len(buf) - 1) /\ U \subseteq Nat
  BY <1>1, <1>7 DEF ScanResult, U, Unquoted, Positions
<1>9. CASE h # None
  <2> DEFINE p == s.base + h
             t == WithQuote(s, a, p + 1)
  <2>1. h \in Bits /\ a = None /\ p \in U /\ AllFrom(U, p)
    BY <1>7, <1>9 DEF ScanResult, U
  <2>2. p \in Nat /\ p < Len(buf) /\ from <= p /\ Active(o, p) = None /\ At(p) = d
    BY <1>1, <2>1 DEF U, Unquoted, Positions
  <2>3. v = [s |-> t, at |-> 0, done |-> TRUE, found |-> p]
    BY <1>3, <1>9 DEF Returns
  <2> HIDE DEF p, t
  <2>4. Sound(t) /\ t.in_quote = None /\ t.quote_pos = p + 1
    <3>1. p + 1 \in Nat
      BY <2>2
    <3> QED
      BY <1>2, <1>8, <2>1, <3>1, QuoteUpdate DEF t
  <2>5. Active(o, p + 1) = None
    <3>1. Active(o, p + 1) = AfterByte(None, d)
      BY <1>1, <2>2, ActiveNext
    <3> QED
      BY <1>1, <3>1 DEF AfterByte
  <2>6. Carried(o, t)
    BY <1>1, <2>2, <2>4, <2>5 DEF Carried
  <2>7. FirstOf(U) = p
    <3>1. Min(U) \in U /\ \A x \in U : Min(U) <= x
      BY <1>8, <2>1, MinIs
    <3>2. p <= Min(U) /\ Min(U) <= p /\ Min(U) \in Nat
      BY <1>8, <2>1, <3>1 DEF AllFrom
    <3>3. Min(U) = p
      BY <2>2, <3>2
    <3> QED
      BY <2>1, <3>3 DEF FirstOf
  <2>8. v \in LoopRecords /\ v.s = t /\ v.done /\ v.found = p
    BY <2>2, <2>3, <2>4 DEF LoopRecords, Sound
  <2>9. CursorOK(o, from, d, v)
    BY <2>4, <2>6, <2>7, <2>8 DEF CursorOK, U
  <2> QED
    BY <2>8, <2>9 DEF Moved, CursorStates, v
<1>10. CASE h = None
  <2> DEFINE base == s.base + Width
             t == WithQuote(s, a, base)
  <2>1. /\ AllFrom(U, base)
        /\ base < Len(buf) => Active(o, base) = a
        /\ base \in Nat /\ s.base < base /\ from <= base
    BY <1>1, <1>4, <1>7, <1>10 DEF ScanResult, U
  <2>2. v = AdvanceOr(t, t)
    BY <1>3, <1>10
  <2>3. /\ Sound(t) /\ t.base = s.base /\ t.loaded /\ t.in_quote = a /\ t.quote_pos = base
    <3> HIDE DEF base
    <3>1. t = WithQuote(s, a, base)
      OBVIOUS
    <3> HIDE DEF t
    <3> QED
      <4>1. base \in Nat /\ s.loaded
        BY <1>4, <2>1
      <4> QED
        BY <1>2, <1>8, <3>1, <4>1, QuoteUpdate
  <2> HIDE DEF t
  <2>4. CASE CanAdvance(t)
    <3> DEFINE u == load_at(t, base)
    <3>1. base < Len(buf)
      BY <2>3, <2>4 DEF CanAdvance
    <3>2. v = [s |-> u, at |-> base, done |-> FALSE, found |-> None]
      BY <2>2, <2>3, <2>4 DEF AdvanceOr, Unfinished, advance_block
    <3> HIDE DEF base
    <3>3. Sound(u) /\ SameQuote(t, u) /\ u.loaded /\ u.base = base
      BY <2>1, <2>3, <3>1, LoadAtIs
    <3> HIDE DEF u
    <3>4. v \in LoopRecords /\ v.s = u /\ v.at = base /\ v.done = FALSE
      BY <2>1, <3>2, <3>3 DEF LoopRecords, Sound
    <3>5. /\ u.base <= base /\ base <= u.base + Width
          /\ Active(o, base) = u.in_quote
      BY <1>1, <2>1, <2>3, <3>1, <3>3 DEF SameQuote
    <3>6. CursorOK(o, from, d, v)
      BY <2>1, <3>1, <3>3, <3>4, <3>5 DEF CursorOK, U
    <3> QED
      BY <1>4, <2>1, <3>3, <3>4, <3>6 DEF Moved, CursorStates, v
  <2>5. CASE ~ CanAdvance(t)
    <3>1. ~ base < Len(buf)
      BY <2>3, <2>5 DEF CanAdvance
    <3>2. v = [s |-> t, at |-> 0, done |-> TRUE, found |-> None]
      BY <2>2, <2>5 DEF AdvanceOr, Returns
    <3> HIDE DEF base
    <3>3. U = {}
      <4>1. SUFFICES ASSUME NEW p \in U PROVE FALSE
        OBVIOUS
      <4>2. base <= p /\ p \in Nat /\ p < Len(buf)
        <5>1. p \in 0..(Len(buf) - 1)
          BY <1>8
        <5>2. base <= p
          BY <2>1 DEF AllFrom
        <5> QED
          BY <1>1, <5>1, <5>2
      <4> QED
        BY <1>1, <2>1, <3>1, <4>2
    <3>4. v \in LoopRecords /\ v.s = t /\ v.done /\ v.found = None
      BY <2>3, <3>2 DEF LoopRecords, Sound
    <3>5. Carried(o, t)
      BY <1>1, <2>1, <2>3, <3>1 DEF Carried
    <3>6. CursorOK(o, from, d, v)
      BY <2>3, <3>3, <3>4, <3>5 DEF CursorOK, U, FirstOf
    <3> QED
      BY <3>4, <3>6 DEF Moved, CursorStates, v
  <2> QED
    BY <2>4, <2>5
<1> QED
  BY <1>9, <1>10

\* next_unquoted finds the first match outside quotes, and leaves the quote state
\* of the position where it stopped.
LEMMA UnquotedFinds ==
  ASSUME Given, NEW o, NEW from, NEW d, Asked(o, from, d), from < Len(buf),
         NEW s0, Sound(s0), s0.loaded, s0.base <= from, from <= s0.base + Width,
         s0.in_quote = Active(o, from),
         NEW r, r = Loop("next_unquoted", d, Unfinished(s0, from))
  PROVE  Sound(r.s) /\ Carried(o, r.s) /\ r.found = FirstOf(Unquoted(o, from, d))
<1> DEFINE V == CursorStates(o, from, d)
           start == Unfinished(s0, from)
           rank == [l \in V |-> l.s.base]
<1>0. Len(buf) \in Nat /\ from \in Nat
  BY DEF Given, Asked
<1>1. start \in V
  <2>1. start = [s |-> s0, at |-> from, done |-> FALSE, found |-> None]
    BY DEF Unfinished
  <2> HIDE DEF start
  <2>2. start \in LoopRecords /\ start.s = s0 /\ start.at = from /\ start.done = FALSE
    BY <1>0, <2>1 DEF LoopRecords, Sound
  <2>3. AllFrom(Unquoted(o, from, d), from)
    BY <1>0 DEF AllFrom, Unquoted, Positions
  <2>4. CursorOK(o, from, d, start)
    BY <1>0, <2>2, <2>3 DEF CursorOK
  <2> QED
    BY <2>2, <2>4 DEF CursorStates
<1>2. \A l \in V : l.s.base \in Nat /\ (~ l.done => l.s.base < Len(buf))
  BY DEF CursorStates, CursorOK, Sound, Masks
<1>3. \A l \in V : ~ l.done => Moved(V, l, UnquotedTurn(l, d))
  BY UnquotedTurns
<1> HIDE DEF V, start
<1>4. rank \in [V -> Nat]
  BY <1>2
<1>5. Advances(V, rank, "next_unquoted", d)
  <2>1. ASSUME NEW l \in V, ~ l.done
        PROVE  /\ Turn("next_unquoted", d, l) \in V
               /\ rank[l] \in Nat /\ rank[l] < Len(buf)
               /\ \/ Turn("next_unquoted", d, l).done
                  \/ rank[l] < rank[Turn("next_unquoted", d, l)]
    <3> DEFINE v == Turn("next_unquoted", d, l)
    <3>1. v = UnquotedTurn(l, d)
      BY DEF Turn
    <3> HIDE DEF v
    <3>2. v \in V /\ (v.done \/ l.s.base < v.s.base)
      BY <1>3, <2>1, <3>1 DEF Moved
    <3>3. rank[l] = l.s.base /\ rank[v] = v.s.base
      BY <3>2
    <3> QED
      BY <1>2, <2>1, <3>2, <3>3 DEF v
  <2> HIDE DEF rank
  <2> QED
    BY <2>1 DEF Advances
<1> HIDE DEF rank
<1>6. r \in V /\ r.done
  <2>1. r = Loop("next_unquoted", d, start)
    BY DEF start
  <2> QED
    BY <1>0, <1>1, <1>4, <1>5, <2>1, LoopEnds
<1> QED
  BY <1>6 DEF V, CursorStates, CursorOK

-----------------------------------------------------------------------------
(* The invariant.                                                          *)

\* Queries of next and next_any may come between two of next_unquoted: they
\* load other blocks and leave the quote state as it was.
IInv ==
  /\ buf \in Buffers /\ quotes \in QuoteSets
  /\ Sound(self)
  /\ origin \in Nat
  /\ Carried(origin, self)
  /\ AnswersExact

\* What the assumption says of the buffer and the quotes.
LEMMA GivenHolds ==
  ASSUME buf \in Buffers, quotes \in QuoteSets
  PROVE  Given
  BY BlockMasksAssumption DEF Given

\* No mask is computed, and no quote is open, at the start.
LEMMA InitHolds ==
  ASSUME Init
  PROVE  IInv
<1>1. Given
  BY GivenHolds DEF Init
<1>2. /\ self.base = Sentinel /\ self.loaded = FALSE /\ self.computed = {}
      /\ self.in_quote = None /\ self.quote_pos = 0 /\ self \in Masks
  BY BlockMasksAssumption DEF Init, build, Masks, QuoteStates
<1>3. Sound(self)
  BY <1>2 DEF Sound
<1>4. Active(0, 0) = None
  BY <1>1, ActiveIs DEF Given
<1> QED
  BY <1>2, <1>3, <1>4 DEF Init, IInv, Carried, AnswersExact

(* What a query leaves, seen after its step.                                *)
LEMMA SameAfter ==
  ASSUME UNCHANGED <<buf, quotes>>
  PROVE  /\ \A o, p : Active(o, p)' = Active(o, p)
         /\ Sound(self') => Sound(self)'
         /\ Carried(origin', self') => Carried(origin, self)'
<1>1. \A o, p : Active(o, p)' = Active(o, p)
  BY DEF Active, AfterByte, At
<1>2. \A base, d : MaskOf(base, d)' = MaskOf(base, d)
  BY DEF MaskOf, At
<1>3. QuoteStates' = QuoteStates
  BY DEF QuoteStates
<1>4. Masks' = Masks
  BY <1>3 DEF Masks
<1>5. Sound(self') => Sound(self)'
  BY <1>2, <1>4 DEF Sound
<1>6. Carried(origin', self') => Carried(origin, self)'
  BY <1>1 DEF Carried
<1> QED
  BY <1>1, <1>5, <1>6

\* A query that leaves the quote state alone and answers as expected.
PlainAnswer(r, expected) ==
  Sound(r.s) /\ SameQuote(self, r.s) /\ r.found = expected

\* An exact answer that leaves the quote state alone keeps the invariant.
LEMMA PlainKeeps ==
  ASSUME IInv, NEW r, NEW expected, PlainAnswer(r, expected),
         Answer(r, expected), UNCHANGED origin
  PROVE  IInv'
<1>1. self' = r.s /\ agrees' = TRUE /\ UNCHANGED <<buf, quotes>>
  BY DEF Answer, PlainAnswer
<1>2. Sound(self') /\ Carried(origin', self')
  BY <1>1 DEF PlainAnswer, Carried, SameQuote, IInv
<1> QED
  BY <1>1, <1>2, SameAfter DEF IInv, AnswersExact

(* The value as it is, when there is nothing to look at.                    *)
LEMMA ReturnsIs ==
  ASSUME IInv, NEW expected
  PROVE  PlainAnswer(Returns(self, expected), expected)
  BY DEF IInv, PlainAnswer, Returns, SameQuote

\* One lemma per query.
LEMMA NextKeeps ==
  ASSUME IInv, NEW from \in 0..Len(buf), NEW d \in Delims, next(from, d)
  PROVE  IInv'
<1> DEFINE expected == FirstOf({p \in Positions(from) : At(p) = d})
           r == IF from >= Len(buf) THEN Returns(self, None)
                ELSE Loop("next", d, Unfinished(self, from))
<1>1. Answer(r, expected) /\ UNCHANGED origin
  BY DEF next
<1>2. Given /\ Len(buf) \in Nat /\ from \in Nat /\ Sound(self)
  BY GivenHolds DEF IInv, Given
<1>3. PlainAnswer(r, expected)
  <2>1. CASE from >= Len(buf)
    <3>1. expected = None
      BY <1>2, <2>1 DEF FirstOf, Positions
    <3>2. r = Returns(self, None)
      BY <2>1
    <3> HIDE DEF expected, r
    <3> QED
      BY <3>1, <3>2, ReturnsIs
  <2>2. CASE ~ from >= Len(buf)
    <3>1. r = Loop("next", d, Unfinished(self, from)) /\ from < Len(buf)
      BY <1>2, <2>2
    <3> HIDE DEF r
    <3>2. Sound(r.s) /\ SameQuote(self, r.s) /\ r.found = expected
      BY <1>2, <3>1, NextFinds
    <3> HIDE DEF expected
    <3> QED
      BY <3>2 DEF PlainAnswer
  <2> QED
    BY <2>1, <2>2
<1> HIDE DEF expected, r
<1> QED
  BY <1>1, <1>3, PlainKeeps

\* next_any loads blocks and masks only.
LEMMA NextAnyKeeps ==
  ASSUME IInv, NEW from \in 0..Len(buf), NEW ds \in AnyOf, next_any(from, ds)
  PROVE  IInv'
<1> DEFINE P == Marks(from, ds)
           r == IF from >= Len(buf) THEN Returns(self, None)
                ELSE Loop("next_any", ds, Unfinished(self, from))
<1>1. Answer(r, AnyAnswer(P)) /\ UNCHANGED origin
  BY DEF next_any, AnyAnswer, Marks
<1>2. /\ Given /\ Len(buf) \in Nat /\ from \in Nat /\ Sound(self) /\ ds \subseteq Delims
  BY GivenHolds, BlockMasksAssumption DEF IInv, Given
<1>3. PlainAnswer(r, AnyAnswer(P))
  <2>1. CASE from >= Len(buf)
    <3>1. AnyAnswer(P) = None
      BY <1>2, <2>1 DEF AnyAnswer, Marks, Positions
    <3>2. r = Returns(self, None)
      BY <2>1
    <3> HIDE DEF r, P
    <3> QED
      BY <3>1, <3>2, ReturnsIs
  <2>2. CASE ~ from >= Len(buf)
    <3>1. r = Loop("next_any", ds, Unfinished(self, from)) /\ from < Len(buf)
      BY <1>2, <2>2
    <3> HIDE DEF r
    <3>2. Sound(r.s) /\ SameQuote(self, r.s) /\ r.found = AnyAnswer(P)
      BY <1>2, <3>1, NextAnyFinds
    <3> HIDE DEF P
    <3> QED
      BY <3>2 DEF PlainAnswer
  <2> QED
    BY <2>1, <2>2
<1> HIDE DEF P, r
<1> QED
  BY <1>1, <1>3, PlainKeeps

\* memchr touches no state.
LEMMA NextFarKeeps ==
  ASSUME IInv, NEW from, NEW d, next_far(from, d)
  PROVE  IInv'
<1> DEFINE expected == FirstOf({p \in Positions(from) : At(p) = d})
<1>1. Answer(Returns(self, expected), expected) /\ UNCHANGED origin
  BY DEF next_far
<1> HIDE DEF expected
<1> QED
  BY <1>1, ReturnsIs, PlainKeeps

\* A fresh scan takes the quote state to be outside; another one carries it on.
LEMMA NextUnquotedKeeps ==
  ASSUME IInv, ~ AnyOrder, NEW from \in 0..Len(buf), NEW d \in Delims \ quotes,
         next_unquoted(from, d)
  PROVE  IInv'
<1> DEFINE fresh == ~ self.loaded \/ from # self.quote_pos
           cleared == [self EXCEPT !.in_quote = None, !.quote_pos = from]
           start == IF fresh THEN load_at(cleared, BlockOf(from)) ELSE self
           o == IF fresh THEN from ELSE origin
           U == Unquoted(o, from, d)
           r == Loop("next_unquoted", d, Unfinished(start, from))
<1>1. /\ from < Len(buf) /\ BlockKept(from) /\ origin' = o
      /\ Answer(r, FirstOf(U))
  BY DEF next_unquoted, Unquoted
<1>2. /\ Given /\ Len(buf) \in Nat /\ from \in Nat /\ Sound(self) /\ Width \in Nat
      /\ origin \in Nat /\ Carried(origin, self) /\ quotes \subseteq Delims
  BY GivenHolds, BitFacts DEF IInv, Given
<1>3. /\ Asked(o, from, d) /\ Sound(start) /\ start.loaded
      /\ start.base <= from /\ from <= start.base + Width
      /\ start.in_quote = Active(o, from)
  <2>1. CASE fresh
    <3>1. Sound(cleared) /\ cleared.in_quote = None
      <4>1. /\ cleared \in Masks /\ cleared.base = self.base /\ cleared.loaded = self.loaded
            /\ cleared.computed = self.computed /\ cleared.masks = self.masks
            /\ cleared.in_quote = None
        BY <1>2 DEF Sound, Masks, QuoteStates
      <4> HIDE DEF cleared
      <4> QED
        BY <1>2, <4>1 DEF Sound
    <3>2. start = load_at(cleared, BlockOf(from)) /\ o = from
      BY <2>1
    <3> HIDE DEF cleared, start, o
    <3>3. BlockOf(from) \in Nat /\ BlockOf(from) <= from /\ from < BlockOf(from) + Width
      BY <1>2, BlockOfIs
    <3>4. BlockOf(from) < Len(buf)
      BY <1>1, <1>2, <3>3
    <3>5. Sound(start) /\ start.loaded /\ start.base = BlockOf(from) /\ start.in_quote = None
      BY <3>1, <3>2, <3>3, <3>4, LoadAtIs DEF SameQuote
    <3>6. Active(o, from) = None
      BY <1>1, <1>2, <3>2, ActiveIs
    <3>7. Asked(o, from, d)
      BY <1>2, <3>2 DEF Asked
    <3> QED
      BY <1>2, <3>3, <3>5, <3>6, <3>7
  <2>2. CASE ~ fresh
    <3>1. start = self /\ o = origin /\ self.loaded /\ from = self.quote_pos
      BY <2>2
    <3> HIDE DEF start, o
    <3>2. self.base <= from /\ from <= self.base + Width
      BY <1>1, <3>1 DEF BlockKept
    <3>3. origin <= from /\ self.in_quote = Active(origin, from)
      BY <1>1, <1>2, <3>1 DEF Carried
    <3>4. Asked(o, from, d)
      BY <1>2, <3>1, <3>3 DEF Asked
    <3> QED
      BY <1>2, <3>1, <3>2, <3>3, <3>4
  <2> QED
    BY <2>1, <2>2
<1> HIDE DEF start, o
<1>4. Sound(r.s) /\ Carried(o, r.s) /\ r.found = FirstOf(U)
  <2> HIDE DEF U
  <2>1. Sound(r.s) /\ Carried(o, r.s) /\ r.found = FirstOf(Unquoted(o, from, d))
    BY <1>1, <1>2, <1>3, UnquotedFinds
  <2> QED
    BY <2>1 DEF U
<1> HIDE DEF r, U
<1>5. self' = r.s /\ agrees' = TRUE /\ UNCHANGED <<buf, quotes>>
  BY <1>1, <1>4 DEF Answer
<1>6. Sound(self') /\ Carried(origin', self') /\ origin' \in Nat
  BY <1>1, <1>3, <1>4, <1>5 DEF Asked
<1> QED
  BY <1>5, <1>6, SameAfter DEF IInv, AnswersExact

\* Every step keeps the invariant.
LEMMA StepKeeps ==
  ASSUME IInv, ~ AnyOrder, [Next]_vars
  PROVE  IInv'
<1>1. ASSUME NEW from \in 0..Len(buf), NEW d \in Delims, next(from, d) \/ next_far(from, d)
      PROVE  IInv'
  BY <1>1, NextKeeps, NextFarKeeps
<1>2. ASSUME NEW from \in 0..Len(buf), NEW ds \in AnyOf, next_any(from, ds)
      PROVE  IInv'
  BY <1>2, NextAnyKeeps
<1>3. ASSUME NEW from \in 0..Len(buf), NEW d \in Delims \ quotes,
             next_unquoted(from, d) \/ next_unquoted_plain(from, d)
      PROVE  IInv'
  <2>1. CASE next_unquoted(from, d)
    BY <2>1, NextUnquotedKeeps
  <2>2. CASE next_unquoted_plain(from, d)
    BY <2>2, NextKeeps DEF next_unquoted_plain
  <2> QED
    BY <1>3, <2>1, <2>2
<1>4. CASE UNCHANGED vars
  <2>1. self' = self /\ agrees' = agrees /\ origin' = origin /\ UNCHANGED <<buf, quotes>>
    BY <1>4 DEF vars
  <2>2. Sound(self') /\ Carried(origin', self')
    BY <2>1 DEF IInv
  <2> QED
    BY <2>1, <2>2, SameAfter DEF IInv, AnswersExact
<1> QED
  BY <1>1, <1>2, <1>3, <1>4 DEF Next

(* As long as the queries of next_unquoted keep to the block the quote state *)
(* belongs to, every query on every buffer finds what reading it byte by    *)
(* byte finds (BlockMasks::next, next_any and next_unquoted).               *)
THEOREM QueriesExact ==
  ASSUME ~ AnyOrder
  PROVE  Spec => []AnswersExact
<1>1. Init => IInv
  BY InitHolds
<1>2. IInv /\ [Next]_vars => IInv'
  BY StepKeeps
<1>3. IInv => AnswersExact
  BY DEF IInv
<1> QED
  BY <1>1, <1>2, <1>3, PTL DEF Spec

=============================================================================
