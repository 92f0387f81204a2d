----------------------------- MODULE Induction -----------------------------
(***************************************************************************)
(* Induction on the natural numbers in a form that takes a set, not an     *)
(* operator, and the recursive functions that follow from it.  A function  *)
(* f[i \in S] == e is CHOOSE f : f = [i \in S |-> e]; to use its equation  *)
(* one has to know that such a function exists.  The other sections use it *)
(* for sequences: their pieces, images and flattenings, the elements that  *)
(* are picked out of them (Selection), texts laid end to end in an arena.  *)
(***************************************************************************)
EXTENDS Selection, Integers, SequencesExt, FiniteSetTheorems, SequenceTheorems, TLAPS

(* Every nonempty set of naturals has a least element: the segments 0..n    *)
(* are finite sets, which strict inclusion orders well.                     *)
LEMMA LeastNat ==
  ASSUME NEW T, T \subseteq Nat, T # {}
  PROVE  \E m \in T : \A k \in T : m <= k
<1> DEFINE Segments == {0..k : k \in T}
<1>1. Segments \subseteq FiniteSubsetsOf(Nat)
  <2>1. ASSUME NEW k \in T
        PROVE  0..k \in SUBSET Nat /\ IsFiniteSet(0..k)
    BY FS_Interval
  <2> QED
    BY <2>1 DEF FiniteSubsetsOf
<1>2. IsWellFoundedOn(StrictSubsetOrdering(Nat), FiniteSubsetsOf(Nat))
  BY FS_StrictSubsetOrderingWellFounded
<1>3. Segments # {}
  OBVIOUS
<1> HIDE DEF Segments
<1>4. PICK x \in Segments : \A y \in Segments : <<y, x>> \notin StrictSubsetOrdering(Nat)
  BY <1>1, <1>2, <1>3, WFMin
<1> USE DEF Segments
<1>5. PICK m \in T : x = 0..m
  OBVIOUS
<1>6. ASSUME NEW k \in T, ~ m <= k
      PROVE  FALSE
  <2>1. 0..k \subseteq 0..m /\ 0..k # 0..m
    BY <1>6
  <2>2. <<0..k, 0..m>> \in StrictSubsetOrdering(Nat)
    BY <2>1 DEF StrictSubsetOrdering
  <2> QED
    BY <2>2, <1>4, <1>5
<1> QED
  BY <1>6

(* A bounded set of naturals has a greatest element.                        *)
LEMMA GreatestNat ==
  ASSUME NEW top \in Nat, NEW T, T \subseteq 0..top, T # {}
  PROVE  \E m \in T : \A k \in T : k <= m
<1> DEFINE Below == {top - k : k \in T}
<1>1. Below \subseteq Nat /\ Below # {}
  <2>1. PICK k \in T : TRUE
    OBVIOUS
  <2>2. top - k \in Below
    BY <2>1
  <2> QED
    BY <2>2
<1>2. PICK b \in Below : \A k \in Below : b <= k
  BY <1>1, LeastNat
<1>3. PICK m \in T : b = top - m
  BY <1>2
<1>4. ASSUME NEW k \in T PROVE k <= m
  <2>1. b <= top - k
    BY <1>2
  <2> QED
    BY <1>3, <2>1
<1> QED
  BY <1>3, <1>4

(* Induction: what holds of 0 and passes from k to k + 1 holds of every k.  *)
LEMMA NatSetInduction ==
  ASSUME NEW S, 0 \in S, \A k \in Nat : k \in S => k + 1 \in S
  PROVE  Nat \subseteq S
<1> DEFINE T == Nat \ S
<1>1. SUFFICES ASSUME T # {} PROVE FALSE
  OBVIOUS
<1>2. PICK m \in T : \A k \in T : m <= k
  BY <1>1, LeastNat
<1>3. m - 1 \in Nat /\ m - 1 \in S
  BY <1>2
<1> QED
  BY <1>2, <1>3

(* The same up to a bound.                                                  *)
LEMMA IntervalInduction ==
  ASSUME NEW top \in Nat, NEW S, 0 \in S,
         \A k \in Nat : k < top /\ k \in S => k + 1 \in S
  PROVE  \A k \in 0..top : k \in S
<1> DEFINE T == {k \in Nat : k <= top => k \in S}
<1>1. 0 \in T
  OBVIOUS
<1>2. \A k \in Nat : k \in T => k + 1 \in T
  OBVIOUS
<1> HIDE DEF T
<1>3. Nat \subseteq T
  BY <1>1, <1>2, NatSetInduction
<1> QED
  BY <1>3 DEF T

(* Complete induction: what holds of k when it holds below k holds always.  *)
LEMMA CompleteInduction ==
  ASSUME NEW S, \A k \in Nat : (\A j \in 0..(k - 1) : j \in S) => k \in S
  PROVE  Nat \subseteq S
<1> DEFINE T == Nat \ S
<1>1. SUFFICES ASSUME T # {} PROVE FALSE
  OBVIOUS
<1>2. PICK m \in T : \A k \in T : m <= k
  BY <1>1, LeastNat
<1>3. \A j \in 0..(m - 1) : j \in S
  BY <1>2
<1> QED
  BY <1>2, <1>3

(* The steps of an iteration over a set, and its results.                   *)
Steps(top, V) == [1..top -> [V -> V]]

Iteration(f, top, V, base, step) ==
  /\ f \in [0..top -> V]
  /\ f[0] = base
  /\ \A i \in 1..top : f[i] = step[i][f[i - 1]]

(* Iterating steps of one set: the function defined by recursion exists.    *)
LEMMA IterationExists ==
  ASSUME NEW top \in Nat, NEW V, NEW base \in V, NEW step \in Steps(top, V)
  PROVE  \E f : Iteration(f, top, V, base, step)
<1> USE DEF Steps, Iteration
<1> DEFINE Upto(k, f) == /\ f[0] = base
                         /\ \A i \in 1..k : f[i] = step[i][f[i - 1]]
           S == {k \in 0..top : \E f \in [0..top -> V] : Upto(k, f)}
<1>1. 0 \in S
  <2> DEFINE g == [i \in 0..top |-> base]
  <2>1. g \in [0..top -> V]
    OBVIOUS
  <2>2. Upto(0, g)
    OBVIOUS
  <2> HIDE DEF g, Upto
  <2> QED
    BY <2>1, <2>2
<1>2. ASSUME NEW k \in Nat, k < top, k \in S
      PROVE  k + 1 \in S
  <2>1. PICK f \in [0..top -> V] : Upto(k, f)
    BY <1>2
  <2> DEFINE g == [f EXCEPT ![k + 1] = step[k + 1][f[k]]]
  <2>2. step[k + 1][f[k]] \in V
    BY <1>2
  <2>3. g \in [0..top -> V] /\ k + 1 \in 0..top
    BY <1>2, <2>1, <2>2
  <2>4. g[0] = base
    BY <2>1
  <2>5. ASSUME NEW i \in 1..(k + 1)
        PROVE  g[i] = step[i][g[i - 1]]
    <3>1. CASE i = k + 1
      BY <3>1, <2>1, <2>3
    <3>2. CASE i # k + 1
      BY <3>2, <2>1, <2>3
    <3> QED
      BY <3>1, <3>2
  <2>6. Upto(k + 1, g)
    BY <2>4, <2>5
  <2> HIDE DEF g, Upto
  <2> QED
    BY <2>3, <2>6
<1> HIDE DEF S
<1>3. \A k \in 0..top : k \in S
  BY <1>1, <1>2, IntervalInduction
<1> USE DEF S
<1>4. PICK f \in [0..top -> V] : Upto(top, f)
  BY <1>3
<1> QED
  BY <1>4
(* The same as one equation, the form of a recursive definition.            *)
IsRecursion(f, top, V, base, step) ==
  /\ f \in [0..top -> V]
  /\ f = [i \in 0..top |-> IF i = 0 THEN base ELSE step[i][f[i - 1]]]

LEMMA RecursionExists ==
  ASSUME NEW top \in Nat, NEW V, NEW base \in V, NEW step \in Steps(top, V)
  PROVE  \E f : IsRecursion(f, top, V, base, step)
<1>1. PICK f : Iteration(f, top, V, base, step)
  BY IterationExists
<1>2. f \in [0..top -> V]
  BY <1>1 DEF Iteration
<1>3. ASSUME NEW i \in 0..top
      PROVE  f[i] = IF i = 0 THEN base ELSE step[i][f[i - 1]]
  <2>1. i = 0 \/ i \in 1..top
    OBVIOUS
  <2> QED
    BY <1>1, <2>1 DEF Iteration
<1>4. IsRecursion(f, top, V, base, step)
  BY <1>2, <1>3 DEF IsRecursion
<1> QED
  BY <1>4

-----------------------------------------------------------------------------
(* Pieces of a sequence, between two positions.                             *)

Cut(b, i, j) == SubSeq(b, i + 1, j)

LEMMA CutFacts ==
  ASSUME NEW A, NEW b \in Seq(A), NEW i \in Nat, NEW j \in Nat, i <= j, j <= Len(b)
  PROVE  /\ Cut(b, i, j) \in Seq(A)
         /\ Len(Cut(b, i, j)) = j - i
         /\ \A n \in 1..(j - i) : Cut(b, i, j)[n] = b[i + n]
<1>1. \A n \in (i + 1)..j : b[n] \in A
  OBVIOUS
<1>2. i + 1 \in Int /\ j \in Int
  OBVIOUS
<1> DEFINE m == i + 1
           p == SubSeq(b, m, j)
<1> HIDE DEF m
<1>3. /\ p \in Seq(A)
      /\ Len(p) = IF m <= j THEN j - m + 1 ELSE 0
      /\ \A n \in 1..(j - m + 1) : p[n] = b[m + n - 1]
  BY <1>1, <1>2, SubSeqProperties DEF m
<1>4. Cut(b, i, j) = p
  BY DEF Cut, m
<1> HIDE DEF p
<1>5. Len(p) = j - i
  BY <1>3 DEF m
<1>6. ASSUME NEW n \in 1..(j - i)
      PROVE  p[n] = b[i + n]
  <2>1. n \in 1..(j - m + 1) /\ m + n - 1 = i + n
    BY DEF m
  <2> QED
    BY <1>3, <2>1
<1> QED
  BY <1>3, <1>4, <1>5, <1>6

LEMMA CutFront ==
  ASSUME NEW A, NEW b \in Seq(A), NEW j \in Nat, j <= Len(b)
  PROVE  /\ Cut(b, 0, j) \in Seq(A)
         /\ Len(Cut(b, 0, j)) = j
         /\ \A n \in 1..j : Cut(b, 0, j)[n] = b[n]
<1> DEFINE i == 0
           p == Cut(b, i, j)
<1>1. i \in Nat /\ i <= j /\ j - i = j /\ \A n \in 1..j : i + n = n
  OBVIOUS
<1> HIDE DEF i
<1>2. p \in Seq(A) /\ Len(p) = j - i /\ \A n \in 1..(j - i) : p[n] = b[i + n]
  <2>1. p \in Seq(A)
    BY <1>1, CutFacts
  <2>2. Len(p) = j - i
    BY <1>1, CutFacts
  <2>3. \A n \in 1..(j - i) : p[n] = b[i + n]
    BY <1>1, CutFacts
  <2> QED
    BY <2>1, <2>2, <2>3
<1> HIDE DEF p
<1>3. p \in Seq(A) /\ Len(p) = j /\ \A n \in 1..j : p[n] = b[n]
  BY <1>1, <1>2
<1> QED
  BY <1>3 DEF i, p

\* p is what a piece of b between i and j is.
IsPiece(p, A, b, i, j) ==
  p \in Seq(A) /\ Len(p) = j - i /\ \A n \in 1..(j - i) : p[n] = b[i + n]

LEMMA CutPiece ==
  ASSUME NEW A, NEW b \in Seq(A), NEW i \in Nat, NEW j \in Nat, i <= j, j <= Len(b)
  PROVE  IsPiece(Cut(b, i, j), A, b, i, j)
BY CutFacts DEF IsPiece

LEMMA CutWhole ==
  ASSUME NEW A, NEW b \in Seq(A)
  PROVE  Cut(b, 0, Len(b)) = b
<1>1. SubSeq(b, 1, Len(b)) = b
  BY SubSeqFull
<1>2. 0 + 1 = 1
  OBVIOUS
<1> QED
  BY <1>1, <1>2 DEF Cut

LEMMA CutNothing ==
  ASSUME NEW b, NEW i \in Nat
  PROVE  Cut(b, i, i) = <<>>
<1>1. i + 1 \in Int /\ i \in Int /\ i < i + 1
  OBVIOUS
<1> QED
  BY <1>1, SubSeqEmpty DEF Cut

\* The same as an operator of its own, which no prover takes apart.
Joined(a, b) == a \o b

LEMMA JoinAssociative ==
  ASSUME NEW S, NEW a \in Seq(S), NEW b \in Seq(S), NEW c \in Seq(S)
  PROVE  Joined(Joined(a, b), c) = Joined(a, Joined(b, c))
BY ConcatAssociative DEF Joined

LEMMA CutJoins ==
  ASSUME NEW A, NEW b \in Seq(A), NEW i \in Nat, NEW j \in Nat, NEW k \in Nat,
         i <= j, j <= k, k <= Len(b)
  PROVE  Cut(b, i, j) \o Cut(b, j, k) = Cut(b, i, k)
<1>1. i + 1 \in 1..(Len(b) + 1) /\ j \in (i + 1 - 1)..Len(b) /\ k \in j..Len(b)
  OBVIOUS
<1> DEFINE m == i + 1
<1>2. m \in 1..(Len(b) + 1) /\ j \in (m - 1)..Len(b)
  BY <1>1
<1> HIDE DEF m
<1>3. SubSeq(b, m, j) \o SubSeq(b, j + 1, k) = SubSeq(b, m, k)
  BY <1>1, <1>2, ConcatAdjacentSubSeq
<1> QED
  BY <1>3 DEF Cut, m

(* An input cut at a position, and at one before it.                        *)
LEMMA CutsMeet ==
  ASSUME NEW A, NEW b \in Seq(A), NEW i \in Nat, NEW j \in Nat, i <= j, j <= Len(b)
  PROVE  /\ Cut(b, 0, i) \in Seq(A) /\ Cut(b, i, j) \in Seq(A)
         /\ Cut(b, 0, j) \in Seq(A) /\ Cut(b, j, Len(b)) \in Seq(A)
         /\ Cut(b, 0, j) = Cut(b, 0, i) \o Cut(b, i, j)
         /\ b = Cut(b, 0, j) \o Cut(b, j, Len(b))
<1> DEFINE end == Len(b)
<1>1. end \in Nat /\ j <= end /\ i <= end /\ 0 <= i /\ 0 <= j /\ 0 \in Nat /\ end <= Len(b)
  OBVIOUS
<1>2. b = Cut(b, 0, end)
  BY CutWhole
<1> HIDE DEF end
<1>3. Cut(b, 0, i) \in Seq(A)
  BY <1>1, CutFacts
<1>4. Cut(b, i, j) \in Seq(A)
  BY <1>1, CutFacts
<1>5. Cut(b, 0, j) \in Seq(A)
  BY <1>1, CutFacts
<1>6. Cut(b, j, end) \in Seq(A)
  BY <1>1, CutFacts
<1>7. Cut(b, 0, j) = Cut(b, 0, i) \o Cut(b, i, j)
  BY <1>1, CutJoins
<1>8. Cut(b, 0, end) = Cut(b, 0, j) \o Cut(b, j, end)
  BY <1>1, CutJoins
<1> QED
  BY <1>2, <1>3, <1>4, <1>5, <1>6, <1>7, <1>8 DEF end

LEMMA CutOfCut ==
  ASSUME NEW A, NEW b \in Seq(A), NEW i \in Nat, NEW j \in Nat, i <= j, j <= Len(b),
         NEW m \in Nat, NEW n \in Nat, m <= n, n <= j - i
  PROVE  Cut(Cut(b, i, j), m, n) = Cut(b, i + m, i + n)
<1> DEFINE p == Cut(b, i, j)
           q == Cut(p, m, n)
           r == Cut(b, i + m, i + n)
<1>1. p \in Seq(A) /\ Len(p) = j - i /\ \A x \in 1..(j - i) : p[x] = b[i + x]
  BY CutFacts
<1> HIDE DEF p
<1>2. q \in Seq(A) /\ Len(q) = n - m /\ \A x \in 1..(n - m) : q[x] = p[m + x]
  <2>1. p \in Seq(A) /\ m \in Nat /\ n \in Nat /\ m <= n /\ n <= Len(p)
    BY <1>1
  <2> QED
    BY ONLY <2>1, CutFacts
<1> DEFINE im == i + m
           jn == i + n
<1>3. im \in Nat /\ jn \in Nat /\ im <= jn /\ jn <= Len(b) /\ jn - im = n - m
  OBVIOUS
<1>4. r \in Seq(A) /\ Len(r) = n - m /\ \A x \in 1..(n - m) : r[x] = b[im + x]
  <2> HIDE DEF im, jn
  <2>1. /\ Cut(b, im, jn) \in Seq(A) /\ Len(Cut(b, im, jn)) = jn - im
        /\ \A x \in 1..(jn - im) : Cut(b, im, jn)[x] = b[im + x]
    <3> DEFINE c == Cut(b, im, jn)
    <3>1. c \in Seq(A)
      BY <1>3, CutFacts
    <3>2. Len(c) = jn - im
      BY <1>3, CutFacts
    <3>3. \A x \in 1..(jn - im) : c[x] = b[im + x]
      BY <1>3, CutFacts
    <3> QED
      BY ONLY <3>1, <3>2, <3>3
  <2> QED
    BY <1>3, <2>1 DEF im, jn
<1> HIDE DEF q, r
<1>5. ASSUME NEW x \in 1..(n - m)
      PROVE  q[x] = r[x]
  <2>1. m + x \in 1..(j - i) /\ i + (m + x) = im + x
    BY <1>1
  <2> QED
    BY <1>1, <1>2, <1>4, <2>1
<1>6. q = r
  BY <1>2, <1>4, <1>5, SeqEqual
<1> QED
  BY <1>6 DEF p, q, r

LEMMA CutTail ==
  ASSUME NEW A, NEW b \in Seq(A), NEW i \in Nat, NEW j \in Nat, i <= j, j <= Len(b),
         NEW n \in Nat, n <= j - i
  PROVE  Cut(Cut(b, i, j), n, j - i) = Cut(b, i + n, j)
<1> DEFINE m == j - i
<1>1. m \in Nat /\ n <= m /\ m <= j - i /\ i + m = j
  OBVIOUS
<1> HIDE DEF m
<1>2. Cut(Cut(b, i, j), n, m) = Cut(b, i + n, i + m)
  BY <1>1, CutOfCut
<1> QED
  BY <1>1, <1>2 DEF m

LEMMA CutOfConcat ==
  ASSUME NEW A, NEW b \in Seq(A), NEW c \in Seq(A), NEW i \in Nat, i <= Len(b)
  PROVE  Cut(b \o c, i, Len(b \o c)) = Cut(b, i, Len(b)) \o c
<1> DEFINE d == b \o c
           top == Len(b)
           end == Len(d)
           p == Cut(b, i, top)
           q == Cut(d, i, end)
           r == p \o c
<1>1. /\ d \in Seq(A) /\ Len(d) = Len(b) + Len(c)
      /\ \A n \in 1..Len(d) : d[n] = IF n <= Len(b) THEN b[n] ELSE c[n - Len(b)]
  BY ConcatProperties
<1>2. p \in Seq(A) /\ Len(p) = Len(b) - i /\ \A n \in 1..(Len(b) - i) : p[n] = b[i + n]
  <2>1. top \in Nat /\ i <= top /\ top <= Len(b)
    OBVIOUS
  <2> HIDE DEF top
  <2>2. p \in Seq(A) /\ Len(p) = top - i /\ \A n \in 1..(top - i) : p[n] = b[i + n]
    BY <2>1, CutFacts
  <2> QED
    BY <2>2 DEF top
<1> HIDE DEF d, p
<1>3. q \in Seq(A) /\ Len(q) = Len(d) - i /\ \A n \in 1..(Len(d) - i) : q[n] = d[i + n]
  <2>1. end \in Nat /\ i <= end /\ end <= Len(d)
    BY <1>1
  <2> HIDE DEF end
  <2>2. q \in Seq(A) /\ Len(q) = end - i /\ \A n \in 1..(end - i) : q[n] = d[i + n]
    <3>1. d \in Seq(A) /\ i \in Nat
      BY <1>1
    <3> QED
      BY ONLY <3>1, <2>1, CutFacts
  <2> QED
    BY <2>2 DEF end
<1>4. /\ r \in Seq(A) /\ Len(r) = Len(p) + Len(c)
      /\ \A n \in 1..Len(r) : r[n] = IF n <= Len(p) THEN p[n] ELSE c[n - Len(p)]
  <2>1. p \in Seq(A)
    BY <1>2
  <2> QED
    BY <2>1, ConcatProperties
<1> HIDE DEF q, r, top, end
<1>5. Len(q) = Len(r)
  BY <1>1, <1>2, <1>3, <1>4
<1>6. ASSUME NEW n \in 1..Len(q)
      PROVE  q[n] = r[n]
  <2>1. q[n] = d[i + n] /\ i + n \in 1..Len(d) /\ n \in 1..Len(r)
    BY <1>1, <1>3, <1>5
  <2>2. CASE n <= Len(b) - i
    <3>1. i + n <= Len(b) /\ n \in 1..(Len(b) - i) /\ n <= Len(p)
      BY <1>2, <2>1, <2>2
    <3> QED
      BY <1>1, <1>2, <1>4, <2>1, <3>1
  <2>3. CASE ~(n <= Len(b) - i)
    <3>1. ~(i + n <= Len(b)) /\ ~(n <= Len(p)) /\ n - Len(p) = (i + n) - Len(b)
      BY <1>2, <2>1, <2>3
    <3>2. q[n] = c[(i + n) - Len(b)]
      BY <1>1, <2>1, <3>1
    <3>3. r[n] = c[n - Len(p)]
      BY <1>4, <2>1, <3>1
    <3> QED
      BY <3>1, <3>2, <3>3
  <2> QED
    BY <2>2, <2>3
<1>7. q = r
  BY <1>3, <1>4, <1>5, <1>6, SeqEqual
<1> QED
  BY <1>7 DEF d, p, q, r, top, end

-----------------------------------------------------------------------------
(* Sequences, by induction on their length.                                *)

LEMMA ToSetMore ==
  ASSUME NEW S, NEW s \in Seq(S), NEW x \in S
  PROVE  ToSet(Append(s, x)) = ToSet(s) \cup {x}
<1> DEFINE t == Append(s, x)
           n == Len(s)
<1>1. n \in Nat /\ t \in Seq(S) /\ Len(t) = n + 1 /\ t[n + 1] = x /\ \A i \in 1..n : t[i] = s[i]
  OBVIOUS
<1> HIDE DEF t, n
<1>2. ASSUME NEW y
      PROVE  (\E i \in 1..(n + 1) : y = t[i]) <=> ((\E i \in 1..n : y = s[i]) \/ y = x)
  <2>1. n + 1 \in 1..(n + 1) /\ \A i \in 1..n : i \in 1..(n + 1)
    BY <1>1
  <2>2. \A i \in 1..(n + 1) : i \in 1..n \/ i = n + 1
    BY <1>1
  <2> QED
    BY <1>1, <2>1, <2>2
<1>3. ToSet(t) = {t[i] : i \in 1..(n + 1)} /\ ToSet(s) = {s[i] : i \in 1..n}
  <2>1. DOMAIN t = 1..(n + 1) /\ DOMAIN s = 1..n
    BY <1>1 DEF n
  <2> QED
    BY <2>1 DEF ToSet
<1>4. ToSet(t) = ToSet(s) \cup {x}
  BY <1>2, <1>3
<1> QED
  BY <1>4 DEF t

IsFlattening(run, ss) ==
  /\ run[0] = <<>> /\ FlattenSeq(ss) = run[Len(ss)]
  /\ \A i \in 1..Len(ss) : run[i] = Joined(run[i - 1], ss[i])

LEMMA FlatteningExists ==
  ASSUME NEW S, NEW ss \in Seq(Seq(S))
  PROVE  \E run \in [0..Len(ss) -> Seq(S)] : IsFlattening(run, ss)
<1> DEFINE top == Len(ss)
           Eqn(r) == r = [i \in 1..top |-> IF i = 1 THEN ss[i] ELSE r[i - 1] \o ss[i]]
           step == [i \in 1..top |-> [x \in Seq(S) |-> Joined(x, ss[i])]]
           flat == CHOOSE r : Eqn(r)
<1>0. FlattenSeq(ss) = IF top = 0 THEN ss ELSE flat[top]
  BY DEF FlattenSeq
<1> HIDE DEF flat
<1>1. top \in Nat /\ <<>> \in Seq(S) /\ (top = 0 => ss = <<>>)
  OBVIOUS
<1>2. \A i \in 1..top : ss[i] \in Seq(S)
  OBVIOUS
<1>3. step \in Steps(top, Seq(S))
  <2>1. ASSUME NEW i \in 1..top, NEW x \in Seq(S)
        PROVE  Joined(x, ss[i]) \in Seq(S)
    BY <1>2 DEF Joined
  <2> QED
    BY <2>1 DEF Steps
<1> HIDE DEF top, step
<1>4. PICK g : IsRecursion(g, top, Seq(S), <<>>, step)
  BY <1>1, <1>3, RecursionExists
<1>5. g \in [0..top -> Seq(S)] /\ g[0] = <<>>
  BY <1>1, <1>4 DEF IsRecursion
<1>6. ASSUME NEW i \in 1..top
      PROVE  g[i] = Joined(g[i - 1], ss[i])
  <2>1. i \in 0..top /\ i - 1 \in 0..top /\ i # 0
    BY <1>1
  <2>2. g[i - 1] \in Seq(S) /\ g[i] = step[i][g[i - 1]]
    BY <1>4, <1>5, <2>1 DEF IsRecursion
  <2> QED
    BY <2>2 DEF step
<1> DEFINE f == [i \in 1..top |-> g[i]]
<1>7. Eqn(f)
  <2>1. ASSUME NEW i \in 1..top
        PROVE  f[i] = IF i = 1 THEN ss[i] ELSE f[i - 1] \o ss[i]
    <3>1. CASE i = 1
      <4>1. g[1] = Joined(g[0], ss[1])
        BY <1>6, <3>1
      <4>2. ss[1] \in Seq(S)
        BY <1>2, <3>1
      <4>3. Joined(<<>>, ss[1]) = ss[1]
        BY <4>2 DEF Joined
      <4> QED
        BY <1>5, <3>1, <4>1, <4>3
    <3>2. CASE i # 1
      <4>1. i - 1 \in 1..top
        BY <1>1, <3>2
      <4>2. f[i - 1] = g[i - 1] /\ f[i] = g[i]
        BY <4>1
      <4> QED
        BY <1>6, <3>2, <4>2 DEF Joined
    <3> QED
      BY <3>1, <3>2
  <2>2. f = [i \in 1..top |-> f[i]]
    OBVIOUS
  <2> HIDE DEF f
  <2> QED
    BY <2>1, <2>2
<1>8. Eqn(flat)
  BY <1>7 DEF flat
<1>9. ASSUME NEW i \in 1..top
      PROVE  flat[i] = g[i]
  <2> DEFINE T == {k \in 0..top : k # 0 => flat[k] = f[k]}
  <2>1. 0 \in T
    BY <1>1
  <2>2. ASSUME NEW k \in Nat, k < top, k \in T
        PROVE  k + 1 \in T
    <3>1. k + 1 \in 1..top /\ k + 1 \in 0..top /\ (k + 1) - 1 = k /\ (k + 1 = 1 <=> k = 0)
      BY <1>1, <2>2
    <3> HIDE DEF f
    <3>2. flat[k + 1] = IF k + 1 = 1 THEN ss[k + 1] ELSE flat[(k + 1) - 1] \o ss[k + 1]
      BY <1>8, <3>1
    <3>3. f[k + 1] = IF k + 1 = 1 THEN ss[k + 1] ELSE f[(k + 1) - 1] \o ss[k + 1]
      BY <1>7, <3>1
    <3>4. flat[k + 1] = f[k + 1]
      BY <2>2, <3>1, <3>2, <3>3
    <3> QED
      BY <3>1, <3>4
  <2> HIDE DEF T
  <2>3. \A k \in 0..top : k \in T
    BY <1>1, <2>1, <2>2, IntervalInduction
  <2>4. i \in 0..top /\ i # 0
    BY <1>1
  <2> QED
    BY <2>3, <2>4 DEF T
<1>10. FlattenSeq(ss) = g[top]
  <2>1. CASE top = 0
    BY <1>0, <1>1, <1>5, <2>1
  <2>2. CASE top # 0
    <3>1. top \in 1..top
      BY <1>1, <2>2
    <3> QED
      BY <1>0, <1>9, <2>2, <3>1
  <2> QED
    BY <2>1, <2>2
<1>11. IsFlattening(g, ss)
  BY <1>5, <1>6, <1>10 DEF IsFlattening, top
<1> QED
  BY <1>5, <1>11 DEF top

\* One sequence more.
LEMMA FlattenMore ==
  ASSUME NEW S, NEW ss \in Seq(Seq(S)), NEW s \in Seq(S)
  PROVE  /\ FlattenSeq(ss) \in Seq(S)
         /\ FlattenSeq(Append(ss, s)) = Joined(FlattenSeq(ss), s)
<1> DEFINE t == Append(ss, s)
           n == Len(ss)
<1>1. /\ n \in Nat /\ t \in Seq(Seq(S)) /\ Len(t) = n + 1 /\ t[n + 1] = s
      /\ \A i \in 1..n : t[i] = ss[i]
  OBVIOUS
<1>2. PICK f \in [0..n -> Seq(S)] : IsFlattening(f, ss)
  BY FlatteningExists
<1> HIDE DEF t
<1>3. PICK g \in [0..Len(t) -> Seq(S)] : IsFlattening(g, t)
  BY <1>1, FlatteningExists
<1> DEFINE T == {k \in 0..n : f[k] = g[k]}
<1>4. 0 \in T
  BY <1>1, <1>2, <1>3 DEF IsFlattening
<1>5. ASSUME NEW k \in Nat, k < n, k \in T
      PROVE  k + 1 \in T
  <2>1. k + 1 \in 1..n /\ k + 1 \in 0..n /\ k + 1 \in 1..Len(t) /\ (k + 1) - 1 = k
    BY <1>1, <1>5
  <2>2. f[k + 1] = Joined(f[k], ss[k + 1])
    BY <1>2, <2>1 DEF IsFlattening
  <2>3. g[k + 1] = Joined(g[k], t[k + 1])
    BY <1>3, <2>1 DEF IsFlattening
  <2>4. f[k] = g[k] /\ t[k + 1] = ss[k + 1]
    BY <1>1, <1>5, <2>1
  <2>5. f[k + 1] = g[k + 1]
    BY <2>2, <2>3, <2>4
  <2> QED
    BY <2>1, <2>5
<1> HIDE DEF T
<1>6. \A k \in 0..n : k \in T
  BY <1>1, <1>4, <1>5, IntervalInduction
<1>7. f[n] = g[n] /\ f[n] \in Seq(S)
  BY <1>1, <1>2, <1>6 DEF T
<1>8. g[n + 1] = Joined(g[n], s)
  <2>1. n + 1 \in 1..Len(t) /\ (n + 1) - 1 = n
    BY <1>1
  <2> QED
    BY <1>1, <1>3, <2>1 DEF IsFlattening
<1>9. FlattenSeq(ss) = f[n] /\ FlattenSeq(t) = g[n + 1]
  BY <1>1, <1>2, <1>3 DEF IsFlattening
<1> QED
  BY <1>7, <1>8, <1>9 DEF t

(* Flattening loses no element.                                             *)
LEMMA FlattenMembers ==
  ASSUME NEW S, NEW ss \in Seq(Seq(S)), NEW j \in 1..Len(ss), NEW i \in 1..Len(ss[j])
  PROVE  ss[j][i] \in ToSet(FlattenSeq(ss))
<1> DEFINE top == Len(ss)
           x == ss[j][i]
<1>1. PICK f \in [0..top -> Seq(S)] : IsFlattening(f, ss)
  BY FlatteningExists
<1>2. top \in Nat /\ ss[j] \in Seq(S) /\ \A k \in 1..top : ss[k] \in Seq(S)
  OBVIOUS
<1> DEFINE T == {k \in 0..top : j <= k => x \in ToSet(f[k])}
<1>3. 0 \in T
  BY <1>2
<1>4. ASSUME NEW k \in Nat, k < top, k \in T
      PROVE  k + 1 \in T
  <2> DEFINE r == f[k]
             q == f[k + 1]
             s == ss[k + 1]
             n == Len(r)
  <2>1. k + 1 \in 1..top /\ k + 1 \in 0..top /\ k \in 0..top /\ (k + 1) - 1 = k
    BY <1>2, <1>4
  <2>2. r \in Seq(S) /\ s \in Seq(S) /\ q = Joined(r, s)
    BY <1>1, <1>2, <2>1 DEF IsFlattening
  <2>3. (j <= k => x \in ToSet(r)) /\ (j = k + 1 => s = ss[j])
    BY <1>4
  <2> HIDE DEF r, q, s, T
  <2>4. /\ q \in Seq(S) /\ Len(q) = Len(r) + Len(s)
        /\ \A m \in 1..Len(q) : q[m] = IF m <= Len(r) THEN r[m] ELSE s[m - Len(r)]
    BY <2>2, ConcatProperties DEF Joined
  <2>5. /\ Len(r) \in Nat /\ Len(s) \in Nat /\ ToSet(r) = {r[m] : m \in 1..Len(r)}
        /\ ToSet(q) = {q[m] : m \in 1..Len(q)}
    <3>1. DOMAIN r = 1..Len(r) /\ DOMAIN q = 1..Len(q) /\ Len(r) \in Nat /\ Len(s) \in Nat
      BY <2>2, <2>4
    <3> QED
      BY <3>1 DEF ToSet
  <2>6. CASE j <= k
    <3>1. PICK m \in 1..Len(r) : x = r[m]
      BY <2>3, <2>5, <2>6
    <3>2. m \in 1..Len(q) /\ m <= Len(r)
      BY <2>4, <2>5
    <3>3. x \in ToSet(q)
      BY <2>4, <2>5, <3>1, <3>2
    <3> QED
      BY <2>1, <3>3 DEF T, q
  <2>7. CASE j = k + 1
    <3>1. i \in 1..Len(s) /\ x = s[i]
      BY <2>3, <2>7
    <3>2. n + i \in 1..Len(q) /\ ~(n + i <= n) /\ (n + i) - n = i
      BY <2>4, <2>5, <3>1
    <3>3. x \in ToSet(q)
      BY <2>4, <2>5, <3>1, <3>2
    <3> QED
      BY <2>1, <3>3 DEF T, q
  <2>8. CASE ~(j <= k + 1)
    BY <2>1, <2>8 DEF T
  <2>9. j <= k \/ j = k + 1 \/ ~(j <= k + 1)
    BY <1>4
  <2> QED
    BY <2>6, <2>7, <2>8, <2>9
<1> HIDE DEF T
<1>5. \A k \in 0..top : k \in T
  BY <1>2, <1>3, <1>4, IntervalInduction
<1>6. top \in 0..top /\ j <= top
  BY <1>2
<1>7. x \in ToSet(f[top])
  BY <1>5, <1>6 DEF T
<1> QED
  BY <1>1, <1>7 DEF IsFlattening

\* The elements of all are g from a and then m from b.
Follows(all, a, b, g, m) ==
  /\ Len(a) = g /\ Len(b) = m /\ all = [i \in 1..(g + m) |-> all[i]]
  /\ \A i \in 1..g : all[i] = a[i]
  /\ \A i \in 1..m : all[g + i] = b[i]

(* Rows followed by the next ones.                                          *)
LEMMA JoinedRows ==
  ASSUME NEW S, NEW a \in Seq(S), NEW b \in Seq(S), NEW g \in Nat, NEW m \in Nat,
         NEW all, Follows(all, a, b, g, m)
  PROVE  Joined(a, b) = all
<1> USE DEF Follows
<1> DEFINE c == a \o b
<1>1. /\ DOMAIN c = 1..(g + m) /\ c = [i \in DOMAIN c |-> c[i]]
      /\ \A i \in 1..(g + m) : c[i] = IF i <= g THEN a[i] ELSE b[i - g]
  <2>1. c \in Seq(S) /\ Len(c) = g + m
    BY ConcatProperties
  <2>2. \A i \in 1..Len(c) : c[i] = IF i <= Len(a) THEN a[i] ELSE b[i - Len(a)]
    BY ConcatProperties
  <2> HIDE DEF c
  <2> QED
    BY <2>1, <2>2
<1> HIDE DEF c
<1>2. ASSUME NEW i \in 1..(g + m)
      PROVE  c[i] = all[i]
  <2>1. CASE i <= g
    <3>1. i \in 1..g
      BY <2>1
    <3> QED
      BY <1>1, <2>1, <3>1
  <2>2. CASE ~(i <= g)
    <3>1. i - g \in 1..m /\ g + (i - g) = i
      BY <2>2
    <3>2. all[g + (i - g)] = b[i - g]
      BY <3>1
    <3> QED
      BY <1>1, <2>2, <3>1, <3>2
  <2> QED
    BY <2>1, <2>2
<1>3. c = all
  BY <1>1, <1>2
<1> QED
  BY <1>3 DEF c, Joined

(* What holds of no elements, and of one element more, holds of all.        *)
LEMMA SeqSetInduction ==
  ASSUME NEW S, NEW T, <<>> \in T, \A s \in Seq(S) : \A x \in S : s \in T => Append(s, x) \in T
  PROVE  Seq(S) \subseteq T
<1> SUFFICES ASSUME NEW s \in Seq(S) PROVE s \in T
  OBVIOUS
<1> DEFINE n == Len(s)
           K == {k \in 0..n : Cut(s, 0, k) \in T}
<1>1. n \in Nat
  OBVIOUS
<1>2. 0 \in K
  <2>1. Cut(s, 0, 0) = <<>>
    BY CutNothing
  <2> QED
    BY <1>1, <2>1
<1>3. ASSUME NEW k \in Nat, k < n, k \in K
      PROVE  k + 1 \in K
  <2> DEFINE p == Cut(s, 0, k)
             q == Cut(s, 0, k + 1)
             x == s[k + 1]
  <2>1. k <= n /\ k + 1 <= n /\ k + 1 \in Nat /\ k + 1 \in 0..n /\ x \in S
    BY <1>1, <1>3
  <2>2. p \in Seq(S) /\ Len(p) = k /\ \A i \in 1..k : p[i] = s[i]
    BY <2>1, CutFront
  <2>3. q \in Seq(S) /\ Len(q) = k + 1 /\ \A i \in 1..(k + 1) : q[i] = s[i]
    BY <2>1, CutFront
  <2>4. p \in T
    BY <1>3
  <2> HIDE DEF p, q, x, K
  <2>5. /\ Append(p, x) \in Seq(S) /\ Len(Append(p, x)) = k + 1
        /\ \A i \in 1..k : Append(p, x)[i] = p[i]
        /\ Append(p, x)[k + 1] = x
    BY <2>1, <2>2
  <2>6. \A i \in 1..(k + 1) : i \in 1..k \/ i = k + 1
    BY <1>3
  <2>7. \A i \in 1..(k + 1) : Append(p, x)[i] = q[i]
    BY <2>2, <2>3, <2>5, <2>6 DEF x
  <2>8. q = Append(p, x)
    BY <2>3, <2>5, <2>7, SeqEqual
  <2>9. q \in T
    BY <2>1, <2>2, <2>4, <2>8
  <2> QED
    BY <2>1, <2>9 DEF q, K
<1> HIDE DEF K
<1>4. \A k \in 0..n : k \in K
  BY <1>1, <1>2, <1>3, IntervalInduction
<1>5. Cut(s, 0, n) \in T
  BY <1>1, <1>4 DEF K
<1>6. Cut(s, 0, n) = s
  BY CutWhole
<1> QED
  BY <1>5, <1>6

\* The image of a sequence under a function.
Mapped(s, f) == [i \in 1..Len(s) |-> f[s[i]]]

LEMMA MappedIn ==
  ASSUME NEW S, NEW R, NEW f, \A x \in S : f[x] \in R, NEW s \in Seq(S)
  PROVE  Mapped(s, f) \in Seq(R) /\ Len(Mapped(s, f)) = Len(s)
<1>1. \A i \in 1..Len(s) : f[s[i]] \in R
  OBVIOUS
<1> QED
  BY <1>1 DEF Mapped

LEMMA MappedMore ==
  ASSUME NEW S, NEW f, NEW s \in Seq(S), NEW x \in S
  PROVE  Mapped(Append(s, x), f) = Append(Mapped(s, f), f[x])
<1> DEFINE R == {f[y] : y \in S}
<1> DEFINE t == Append(s, x)
           a == Mapped(s, f)
           b == Mapped(t, f)
           n == Len(s)
<1>1. n \in Nat /\ t \in Seq(S) /\ Len(t) = n + 1 /\ t[n + 1] = x /\ \A i \in 1..n : t[i] = s[i]
  OBVIOUS
<1>2. \A i \in 1..n : f[s[i]] \in R
  OBVIOUS
<1>3. a \in Seq(R) /\ Len(a) = n /\ \A i \in 1..n : a[i] = f[s[i]]
  BY <1>1, <1>2 DEF Mapped
<1> HIDE DEF t
<1>4. \A i \in 1..(n + 1) : f[t[i]] \in R
  BY <1>1
<1>5. b \in Seq(R) /\ Len(b) = n + 1 /\ \A i \in 1..(n + 1) : b[i] = f[t[i]]
  BY <1>1, <1>4 DEF Mapped
<1> HIDE DEF a, b
<1>6. f[x] \in R
  OBVIOUS
<1>7. /\ Append(a, f[x]) \in Seq(R) /\ Len(Append(a, f[x])) = n + 1
      /\ \A i \in 1..n : Append(a, f[x])[i] = a[i]
      /\ Append(a, f[x])[n + 1] = f[x]
  BY <1>3, <1>6
<1>8. \A i \in 1..(n + 1) : i \in 1..n \/ i = n + 1
  BY <1>1
<1>9. \A i \in 1..(n + 1) : Append(a, f[x])[i] = b[i]
  BY <1>1, <1>3, <1>5, <1>7, <1>8
<1>10. b = Append(a, f[x])
  BY <1>5, <1>7, <1>9, SeqEqual
<1> QED
  BY <1>3, <1>10 DEF a, b, t

LEMMA JoinedMore ==
  ASSUME NEW S, NEW a \in Seq(S), NEW b \in Seq(S), NEW x \in S
  PROVE  /\ Joined(a, b) \in Seq(S)
         /\ Joined(a, Append(b, x)) = Append(Joined(a, b), x)
         /\ Joined(a, <<>>) = a /\ Joined(<<>>, a) = a
<1>1. Append(b, x) = b \o <<x>> /\ <<x>> \in Seq(S)
  OBVIOUS
<1>2. a \o b \in Seq(S) /\ a \o <<>> = a /\ <<>> \o a = a
  OBVIOUS
<1>3. a \o (b \o <<x>>) = (a \o b) \o <<x>>
  BY <1>1, ConcatAssociative
<1>4. Append(a \o b, x) = (a \o b) \o <<x>>
  BY <1>2
<1> QED
  BY <1>1, <1>2, <1>3, <1>4 DEF Joined

LEMMA MappedJoined ==
  ASSUME NEW S, NEW f, NEW a \in Seq(S), NEW b \in Seq(S)
  PROVE  Mapped(Joined(a, b), f) = Joined(Mapped(a, f), Mapped(b, f))
<1> DEFINE R == {f[y] : y \in S}
<1>0. \A y \in S : f[y] \in R
  OBVIOUS
<1> HIDE DEF R
<1> DEFINE T == {s \in Seq(S) : Mapped(Joined(a, s), f) = Joined(Mapped(a, f), Mapped(s, f))}
<1>1. <<>> \in T
  <2>1. Joined(a, <<>>) = a
    BY DEF Joined
  <2>2. Mapped(<<>>, f) = <<>>
    BY DEF Mapped
  <2>3. Mapped(a, f) \in Seq(R)
    BY <1>0, MappedIn
  <2>4. Joined(Mapped(a, f), <<>>) = Mapped(a, f)
    BY <2>3 DEF Joined
  <2> QED
    BY <2>1, <2>2, <2>4
<1>2. ASSUME NEW s \in Seq(S), NEW x \in S, s \in T
      PROVE  Append(s, x) \in T
  <2>1. Mapped(Joined(a, s), f) = Joined(Mapped(a, f), Mapped(s, f))
    BY <1>2
  <2>2. Joined(a, s) \in Seq(S) /\ Joined(a, Append(s, x)) = Append(Joined(a, s), x)
    BY JoinedMore
  <2>3. Mapped(Append(Joined(a, s), x), f) = Append(Mapped(Joined(a, s), f), f[x])
    BY <2>2, MappedMore
  <2>4. Mapped(Append(s, x), f) = Append(Mapped(s, f), f[x]) /\ Mapped(s, f) \in Seq(R)
    BY <1>0, MappedIn, MappedMore
  <2>5. Mapped(a, f) \in Seq(R) /\ f[x] \in R
    BY <1>0, MappedIn
  <2>6. Joined(Mapped(a, f), Append(Mapped(s, f), f[x]))
          = Append(Joined(Mapped(a, f), Mapped(s, f)), f[x])
    BY <2>4, <2>5, JoinedMore
  <2>7. Append(s, x) \in Seq(S)
    OBVIOUS
  <2> QED
    BY <2>1, <2>2, <2>3, <2>4, <2>6, <2>7
<1> HIDE DEF T
<1>3. Seq(S) \subseteq T
  BY <1>1, <1>2, SeqSetInduction
<1> QED
  BY <1>3 DEF T

LEMMA FlattenNone ==
  ASSUME NEW S
  PROVE  FlattenSeq(<<>>) = <<>>
<1>1. <<>> \in Seq(Seq(S)) /\ Len(<<>>) = 0
  OBVIOUS
<1>2. PICK run \in [0..Len(<<>>) -> Seq(S)] : IsFlattening(run, <<>>)
  BY <1>1, FlatteningExists
<1> QED
  BY <1>1, <1>2 DEF IsFlattening

LEMMA FlattenIn ==
  ASSUME NEW S, NEW ss \in Seq(Seq(S))
  PROVE  FlattenSeq(ss) \in Seq(S)
<1>1. <<>> \in Seq(S)
  OBVIOUS
<1> QED
  BY <1>1, FlattenMore

LEMMA FlattenJoined ==
  ASSUME NEW S, NEW a \in Seq(Seq(S)), NEW b \in Seq(Seq(S))
  PROVE  FlattenSeq(Joined(a, b)) = Joined(FlattenSeq(a), FlattenSeq(b))
<1> DEFINE F(s) == FlattenSeq(s)
           T == {s \in Seq(Seq(S)) : F(Joined(a, s)) = Joined(F(a), F(s))}
<1> HIDE DEF F
<1>1. F(a) \in Seq(S)
  BY FlattenMore DEF F
<1>2. <<>> \in T
  <2>1. Joined(a, <<>>) = a
    BY DEF Joined
  <2>2. F(<<>>) = <<>>
    BY FlattenNone DEF F
  <2>3. Joined(F(a), <<>>) = F(a)
    BY <1>1 DEF Joined
  <2> QED
    BY <2>1, <2>2, <2>3
<1>3. ASSUME NEW s \in Seq(Seq(S)), NEW x \in Seq(S), s \in T
      PROVE  Append(s, x) \in T
  <2>1. F(Joined(a, s)) = Joined(F(a), F(s))
    BY <1>3
  <2>2. Joined(a, s) \in Seq(Seq(S)) /\ Joined(a, Append(s, x)) = Append(Joined(a, s), x)
    BY JoinedMore
  <2>3. F(Append(Joined(a, s), x)) = Joined(F(Joined(a, s)), x)
    BY <2>2, FlattenMore DEF F
  <2>4. F(s) \in Seq(S) /\ F(Append(s, x)) = Joined(F(s), x)
    BY FlattenMore DEF F
  <2>5. Joined(Joined(F(a), F(s)), x) = Joined(F(a), Joined(F(s), x))
    BY <1>1, <2>4, JoinAssociative
  <2>6. Append(s, x) \in Seq(Seq(S))
    OBVIOUS
  <2> QED
    BY <2>1, <2>2, <2>3, <2>4, <2>5, <2>6
<1> HIDE DEF T
<1>4. Seq(Seq(S)) \subseteq T
  BY <1>2, <1>3, SeqSetInduction
<1> QED
  BY <1>4 DEF T, F

\* What each element of each sequence stands for, laid end to end.
LEMMA FlattenMapped ==
  ASSUME NEW S, NEW R, NEW g, \A x \in S : g[x] \in Seq(R), NEW ls \in Seq(Seq(S)),
         NEW h, \A s \in Seq(S) : h[s] = FlattenSeq(Mapped(s, g))
  PROVE  FlattenSeq(Mapped(FlattenSeq(ls), g)) = FlattenSeq(Mapped(ls, h))
<1> DEFINE F(s) == FlattenSeq(s)
           T == {s \in Seq(Seq(S)) : F(Mapped(F(s), g)) = F(Mapped(s, h))}
<1> HIDE DEF F
<1>1. \A s \in Seq(S) : h[s] = F(Mapped(s, g))
  BY DEF F
<1>2. ASSUME NEW s \in Seq(S)
      PROVE  Mapped(s, g) \in Seq(Seq(R)) /\ h[s] \in Seq(R)
  <2>1. Mapped(s, g) \in Seq(Seq(R))
    BY MappedIn
  <2>2. F(Mapped(s, g)) \in Seq(R)
    BY <2>1, FlattenIn DEF F
  <2> QED
    BY <1>1, <2>1, <2>2
<1>3. F(<<>>) = <<>>
  BY FlattenNone DEF F
<1>4. <<>> \in T
  <2>1. Mapped(<<>>, g) = <<>> /\ Mapped(<<>>, h) = <<>>
    BY DEF Mapped
  <2> QED
    BY <1>3, <2>1
<1>5. ASSUME NEW s \in Seq(Seq(S)), NEW x \in Seq(S), s \in T
      PROVE  Append(s, x) \in T
  <2>1. F(Mapped(F(s), g)) = F(Mapped(s, h))
    BY <1>5
  <2>2. F(s) \in Seq(S) /\ F(Append(s, x)) = Joined(F(s), x)
    BY FlattenMore DEF F
  <2>3. Mapped(Joined(F(s), x), g) = Joined(Mapped(F(s), g), Mapped(x, g))
    BY <2>2, MappedJoined
  <2>4. Mapped(F(s), g) \in Seq(Seq(R)) /\ Mapped(x, g) \in Seq(Seq(R))
    BY <1>2, <2>2
  <2>5. F(Joined(Mapped(F(s), g), Mapped(x, g))) = Joined(F(Mapped(F(s), g)), F(Mapped(x, g)))
    BY <2>4, FlattenJoined DEF F
  <2>6. Mapped(Append(s, x), h) = Append(Mapped(s, h), h[x])
    BY MappedMore
  <2>7. Mapped(s, h) \in Seq(Seq(R)) /\ h[x] \in Seq(R)
    BY <1>2, MappedIn
  <2>8. F(Append(Mapped(s, h), h[x])) = Joined(F(Mapped(s, h)), h[x])
    BY <2>7, FlattenMore DEF F
  <2>9. Append(s, x) \in Seq(Seq(S))
    OBVIOUS
  <2> QED
    BY <1>1, <2>1, <2>2, <2>3, <2>5, <2>6, <2>8, <2>9
<1> HIDE DEF T
<1>6. Seq(Seq(S)) \subseteq T
  BY <1>4, <1>5, SeqSetInduction
<1> QED
  BY <1>6 DEF T, F

(* The elements of two sequences.                                           *)
LEMMA ConcatMembers ==
  ASSUME NEW S, NEW a \in Seq(S), NEW b \in Seq(S)
  PROVE  a \o b \in Seq(S) /\ ToSet(a \o b) = ToSet(a) \cup ToSet(b)
<1> DEFINE s == a \o b
           n == Len(a)
           m == Len(b)
<1>1. /\ s \in Seq(S) /\ Len(s) = n + m /\ n \in Nat /\ m \in Nat
      /\ \A i \in 1..Len(s) : s[i] = IF i <= n THEN a[i] ELSE b[i - n]
  BY ConcatProperties
<1>2. /\ ToSet(s) = {s[i] : i \in 1..Len(s)}
      /\ ToSet(a) = {a[i] : i \in 1..n} /\ ToSet(b) = {b[i] : i \in 1..m}
  BY <1>1 DEF ToSet
<1> HIDE DEF s, n, m
<1>3. ASSUME NEW i \in 1..Len(s)
      PROVE  s[i] \in ToSet(a) \cup ToSet(b)
  <2>1. CASE i <= n
    BY <1>1, <1>2, <2>1
  <2>2. CASE ~(i <= n)
    <3>1. i - n \in 1..m
      BY <1>1, <2>2
    <3> QED
      BY <1>1, <1>2, <2>2, <3>1
  <2> QED
    BY <2>1, <2>2
<1>4. ASSUME NEW i \in 1..n
      PROVE  a[i] \in ToSet(s)
  <2>1. i \in 1..Len(s) /\ i <= n
    BY <1>1
  <2> QED
    BY <1>1, <1>2, <2>1
<1>5. ASSUME NEW i \in 1..m
      PROVE  b[i] \in ToSet(s)
  <2>1. n + i \in 1..Len(s) /\ ~(n + i <= n) /\ (n + i) - n = i
    BY <1>1
  <2> QED
    BY <1>1, <1>2, <2>1
<1>6. ToSet(s) \subseteq ToSet(a) \cup ToSet(b)
  BY <1>2, <1>3
<1>7. ToSet(a) \subseteq ToSet(s) /\ ToSet(b) \subseteq ToSet(s)
  BY <1>2, <1>4, <1>5
<1> QED
  BY <1>1, <1>6, <1>7 DEF s

(* The elements of sequences laid end to end.                               *)
LEMMA FlattenAll ==
  ASSUME NEW S, NEW ss \in Seq(Seq(S))
  PROVE  /\ FlattenSeq(ss) \in Seq(S)
         /\ \A x : x \in ToSet(FlattenSeq(ss)) <=> \E i \in 1..Len(ss) : x \in ToSet(ss[i])
<1> DEFINE top == Len(ss)
<1>1. PICK run \in [0..top -> Seq(S)] : IsFlattening(run, ss)
  BY FlatteningExists
<1>2. top \in Nat /\ \A i \in 1..top : ss[i] \in Seq(S)
  OBVIOUS
<1> HIDE DEF top
<1> DEFINE Upto(k) == \A x : x \in ToSet(run[k]) <=> \E i \in 1..k : x \in ToSet(ss[i])
           K == {k \in 0..top : Upto(k)}
<1>3. 0 \in K
  <2>1. ToSet(<<>>) = {} /\ 1..0 = {}
    BY DEF ToSet
  <2> QED
    BY <1>1, <1>2, <2>1 DEF IsFlattening
<1>4. ASSUME NEW k \in Nat, k < top, k \in K
      PROVE  k + 1 \in K
  <2> DEFINE m == k + 1
  <2>1. /\ m \in 1..top /\ m \in 0..top /\ m - 1 = k /\ k \in 0..top
        /\ \A i : i \in 1..m <=> i \in 1..k \/ i = m
    BY <1>2, <1>4
  <2> HIDE DEF m
  <2>2. run[m] = Joined(run[k], ss[m]) /\ run[k] \in Seq(S) /\ ss[m] \in Seq(S)
    BY <1>1, <1>2, <2>1 DEF IsFlattening, top
  <2>3. ToSet(run[m]) = ToSet(run[k]) \cup ToSet(ss[m])
    BY <2>2, ConcatMembers DEF Joined
  <2> QED
    BY <1>4, <2>1, <2>3 DEF m
<1> HIDE DEF K
<1>5. \A k \in 0..top : k \in K
  BY <1>2, <1>3, <1>4, IntervalInduction
<1>6. Upto(top) /\ FlattenSeq(ss) = run[top] /\ run[top] \in Seq(S)
  <2>1. top \in K /\ top \in 0..top
    BY <1>2, <1>5
  <2> QED
    BY <1>1, <2>1 DEF K, IsFlattening, top
<1> QED
  BY <1>6 DEF top

(* What two sequences laid end to end are.                                  *)
LEMMA Concatenated ==
  ASSUME NEW S, NEW x \in Seq(S), NEW y \in Seq(S)
  PROVE  /\ x \o y \in Seq(S)
         /\ Len(x \o y) = Len(x) + Len(y) /\ DOMAIN (x \o y) = 1..(Len(x) + Len(y))
         /\ \A i \in 1..Len(x) : (x \o y)[i] = x[i]
         /\ \A i \in 1..Len(y) : (x \o y)[Len(x) + i] = y[i]
<1> DEFINE z == x \o y
<1>1. z \in Seq(S) /\ Len(z) = Len(x) + Len(y)
  OBVIOUS
<1>2. DOMAIN z = 1..(Len(x) + Len(y))
  BY <1>1
<1>3. \A i \in 1..Len(x) : z[i] = x[i]
  OBVIOUS
<1>4. \A i \in 1..Len(y) : z[Len(x) + i] = y[i]
  OBVIOUS
<1> QED
  BY <1>1, <1>2, <1>3, <1>4

-----------------------------------------------------------------------------
(* Elements picked out of a sequence.                                      *)

IsPicking(run, s, P) ==
  /\ run[0] = <<>> /\ Picked(s, P) = run[Len(s)]
  /\ \A i \in 1..Len(s) : run[i] = IF i \in P THEN Append(run[i - 1], s[i]) ELSE run[i - 1]

LEMMA PickingExists ==
  ASSUME NEW S, NEW s \in Seq(S), NEW P
  PROVE  \E run \in [0..Len(s) -> Seq(S)] : IsPicking(run, s, P)
<1> DEFINE top == Len(s)
           More(x, i) == IF i \in P THEN Append(x, s[i]) ELSE x
           Eqn(r) == r = [i \in 0..top |-> IF i = 0 THEN <<>>
                                           ELSE IF i \in P THEN Append(r[i - 1], s[i])
                                           ELSE r[i - 1]]
           step == [i \in 1..top |-> [x \in Seq(S) |-> More(x, i)]]
<1>0. Picked(s, P) = (CHOOSE r : Eqn(r))[top]
  BY DEF Picked
<1>1. top \in Nat /\ <<>> \in Seq(S)
  OBVIOUS
<1>2. step \in Steps(top, Seq(S))
  <2>1. ASSUME NEW i \in 1..top, NEW x \in Seq(S)
        PROVE  More(x, i) \in Seq(S)
    <3>1. s[i] \in S
      OBVIOUS
    <3> QED
      BY <3>1
  <2> HIDE DEF More
  <2> QED
    BY <2>1 DEF Steps
<1> HIDE DEF step, top
<1>3. PICK g : IsRecursion(g, top, Seq(S), <<>>, step)
  BY <1>1, <1>2, RecursionExists
<1>4. g \in [0..top -> Seq(S)]
  BY <1>3 DEF IsRecursion
<1>5. Eqn(g)
  <2>1. ASSUME NEW i \in 0..top
        PROVE  g[i] = IF i = 0 THEN <<>> ELSE More(g[i - 1], i)
    <3>1. CASE i = 0
      BY <1>3, <3>1 DEF IsRecursion
    <3>2. CASE i # 0
      <4>1. i \in 1..top /\ i - 1 \in 0..top
        BY <1>1, <3>2
      <4>2. g[i - 1] \in Seq(S) /\ g[i] = step[i][g[i - 1]]
        BY <1>3, <4>1 DEF IsRecursion
      <4> HIDE DEF More
      <4> QED
        BY <3>2, <4>1, <4>2 DEF step
    <3> QED
      BY <3>1, <3>2
  <2>2. g = [i \in 0..top |-> g[i]]
    BY <1>4
  <2>3. \A i \in 0..top : g[i] = IF i = 0 THEN <<>>
                                 ELSE IF i \in P THEN Append(g[i - 1], s[i]) ELSE g[i - 1]
    BY <2>1
  <2> QED
    BY <2>2, <2>3
<1> DEFINE run == CHOOSE r : Eqn(r)
<1>6. Eqn(run)
  BY <1>5
<1>7. Picked(s, P) = run[top]
  BY <1>0
<1> HIDE DEF run
<1>8. ASSUME NEW i \in 0..top
      PROVE  run[i] = g[i]
  <2> DEFINE T == {k \in 0..top : run[k] = g[k]}
  <2>1. 0 \in T
    BY <1>1, <1>5, <1>6
  <2>2. ASSUME NEW k \in Nat, k < top, k \in T
        PROVE  k + 1 \in T
    <3>1. k + 1 \in 0..top /\ k + 1 # 0 /\ (k + 1) - 1 = k
      BY <1>1, <2>2
    <3>2. run[k + 1] = IF k + 1 \in P THEN Append(run[(k + 1) - 1], s[k + 1]) ELSE run[(k + 1) - 1]
      BY <1>6, <3>1
    <3>3. g[k + 1] = IF k + 1 \in P THEN Append(g[(k + 1) - 1], s[k + 1]) ELSE g[(k + 1) - 1]
      BY <1>5, <3>1
    <3>4. run[k] = g[k]
      BY <2>2
    <3>5. run[k + 1] = g[k + 1]
      BY <3>1, <3>2, <3>3, <3>4
    <3> QED
      BY <3>1, <3>5
  <2> HIDE DEF T
  <2>3. \A k \in 0..top : k \in T
    BY <1>1, <2>1, <2>2, IntervalInduction
  <2> QED
    BY <2>3 DEF T
<1>9. run = g
  BY <1>4, <1>6, <1>8
<1>10. run \in [0..top -> Seq(S)] /\ run[0] = <<>>
  <2>1. run \in [0..top -> Seq(S)]
    BY <1>4, <1>9
  <2>2. 0 \in 0..top
    BY <1>1
  <2>3. run[0] = <<>>
    BY <1>6, <2>2
  <2> QED
    BY <2>1, <2>3
<1>11. ASSUME NEW i \in 1..top
       PROVE  run[i] = IF i \in P THEN Append(run[i - 1], s[i]) ELSE run[i - 1]
  <2>1. i \in 0..top /\ i # 0
    BY <1>1
  <2> QED
    BY <1>6, <2>1
<1>12. IsPicking(run, s, P)
  BY <1>7, <1>10, <1>11 DEF IsPicking, top
<1> QED
  BY <1>10, <1>12 DEF top

\* Exactly the elements at the positions are picked.
LEMMA PickedMembers ==
  ASSUME NEW S, NEW s \in Seq(S), NEW P
  PROVE  /\ Picked(s, P) \in Seq(S)
         /\ ToSet(Picked(s, P)) = {s[i] : i \in P \cap (1..Len(s))}
<1>1. PICK run \in [0..Len(s) -> Seq(S)] : IsPicking(run, s, P)
  BY PickingExists
<1> DEFINE top == Len(s)
           Chosen(k) == {s[i] : i \in P \cap (1..k)}
           T == {k \in 0..top : ToSet(run[k]) = Chosen(k)}
<1>2. top \in Nat
  OBVIOUS
<1>3. 0 \in T
  <2>1. run[0] = <<>>
    BY <1>1 DEF IsPicking
  <2>2. ToSet(<<>>) = {}
    BY DEF ToSet
  <2>3. 1..0 = {}
    OBVIOUS
  <2>4. Chosen(0) = {}
    BY <2>3
  <2> QED
    BY <1>2, <2>1, <2>2, <2>4
<1>4. ASSUME NEW k \in Nat, k < top, k \in T
      PROVE  k + 1 \in T
  <2>1. k + 1 \in 1..top /\ k + 1 \in 0..top /\ k \in 0..top /\ (k + 1) - 1 = k /\ s[k + 1] \in S
    BY <1>2, <1>4
  <2>2. run[k + 1] = IF k + 1 \in P THEN Append(run[k], s[k + 1]) ELSE run[k]
    BY <1>1, <2>1 DEF IsPicking
  <2>3. run[k] \in Seq(S) /\ ToSet(run[k]) = Chosen(k)
    BY <1>1, <1>4, <2>1
  <2>4. \A i : i \in 1..(k + 1) <=> i \in 1..k \/ i = k + 1
    BY <1>4
  <2> DEFINE r == run[k]
             q == run[k + 1]
             x == s[k + 1]
  <2> HIDE DEF r, q, x, T
  <2>5. CASE k + 1 \in P
    <3>1. ToSet(q) = ToSet(r) \cup {x}
      BY <2>1, <2>2, <2>3, <2>5, ToSetMore DEF r, q, x
    <3>2. Chosen(k + 1) = Chosen(k) \cup {x}
      BY <2>4, <2>5 DEF x
    <3>3. ToSet(q) = Chosen(k + 1)
      BY <2>3, <3>1, <3>2 DEF r
    <3> QED
      BY <2>1, <3>3 DEF T, q
  <2>6. CASE k + 1 \notin P
    <3>1. q = r
      BY <2>2, <2>6 DEF q, r
    <3>2. Chosen(k + 1) = Chosen(k)
      BY <2>4, <2>6
    <3>3. ToSet(q) = Chosen(k + 1)
      BY <2>3, <3>1, <3>2 DEF r
    <3> QED
      BY <2>1, <3>3 DEF T, q
  <2> QED
    BY <2>5, <2>6
<1> HIDE DEF T
<1>5. \A k \in 0..top : k \in T
  BY <1>2, <1>3, <1>4, IntervalInduction
<1>6. ToSet(run[top]) = Chosen(top)
  BY <1>2, <1>5 DEF T
<1>7. run[top] \in Seq(S) /\ Picked(s, P) = run[top]
  BY <1>1, <1>2 DEF IsPicking
<1> QED
  BY <1>6, <1>7

(* Everything is picked.                                                    *)
LEMMA PickedAll ==
  ASSUME NEW S, NEW s \in Seq(S), NEW P, 1..Len(s) \subseteq P
  PROVE  Picked(s, P) = s
<1> DEFINE top == Len(s)
<1>1. PICK run \in [0..Len(s) -> Seq(S)] : IsPicking(run, s, P)
  BY PickingExists
<1> DEFINE T == {k \in 0..top : Len(run[k]) = k /\ \A i \in 1..k : run[k][i] = s[i]}
<1>2. top \in Nat
  OBVIOUS
<1>3. 0 \in T
  BY <1>1, <1>2 DEF IsPicking
<1>4. ASSUME NEW k \in Nat, k < top, k \in T
      PROVE  k + 1 \in T
  <2>1. k + 1 \in 1..top /\ k + 1 \in 0..top /\ k \in 0..top /\ (k + 1) - 1 = k /\ s[k + 1] \in S
    BY <1>2, <1>4
  <2> DEFINE r == run[k]
             q == run[k + 1]
             x == s[k + 1]
  <2>2. q = Append(r, x)
    BY <1>1, <2>1 DEF IsPicking
  <2>3. r \in Seq(S) /\ Len(r) = k /\ \A i \in 1..k : r[i] = s[i]
    BY <1>1, <1>4, <2>1
  <2> HIDE DEF r, q, T
  <2>4. Len(q) = k + 1 /\ \A i \in 1..(k + 1) : q[i] = s[i]
    BY <2>2, <2>3
  <2> QED
    BY <2>1, <2>4 DEF T, q
<1> HIDE DEF T
<1>5. \A k \in 0..top : k \in T
  BY <1>2, <1>3, <1>4, IntervalInduction
<1> DEFINE r == run[top]
<1>6. Len(r) = top /\ \A i \in 1..top : r[i] = s[i]
  BY <1>2, <1>5 DEF T
<1>7. r \in Seq(S) /\ Picked(s, P) = r
  BY <1>1, <1>2 DEF IsPicking
<1> HIDE DEF r
<1> QED
  BY <1>6, <1>7, SeqEqual

\* One element more.
LEMMA PickedMore ==
  ASSUME NEW S, NEW s \in Seq(S), NEW x \in S, NEW P, NEW Q,
         \A i \in 1..Len(s) : i \in P <=> i \in Q
  PROVE  Picked(Append(s, x), Q) =
           IF Len(s) + 1 \in Q THEN Append(Picked(s, P), x) ELSE Picked(s, P)
<1> DEFINE t == Append(s, x)
           n == Len(s)
<1>1. n \in Nat /\ t \in Seq(S) /\ Len(t) = n + 1 /\ t[n + 1] = x /\ \A i \in 1..n : t[i] = s[i]
  OBVIOUS
<1>2. PICK f \in [0..n -> Seq(S)] : IsPicking(f, s, P)
  BY PickingExists
<1> HIDE DEF t
<1>3. PICK g \in [0..Len(t) -> Seq(S)] : IsPicking(g, t, Q)
  BY <1>1, PickingExists
<1> DEFINE T == {k \in 0..n : f[k] = g[k]}
<1>4. 0 \in T
  BY <1>1, <1>2, <1>3 DEF IsPicking
<1>5. ASSUME NEW k \in Nat, k < n, k \in T
      PROVE  k + 1 \in T
  <2>1. k + 1 \in 1..n /\ k + 1 \in 0..n /\ k + 1 \in 1..Len(t) /\ (k + 1) - 1 = k
    BY <1>1, <1>5
  <2>2. f[k + 1] = IF k + 1 \in P THEN Append(f[k], s[k + 1]) ELSE f[k]
    BY <1>2, <2>1 DEF IsPicking
  <2>3. g[k + 1] = IF k + 1 \in Q THEN Append(g[k], t[k + 1]) ELSE g[k]
    BY <1>3, <2>1 DEF IsPicking
  <2>4. f[k] = g[k] /\ t[k + 1] = s[k + 1] /\ (k + 1 \in P <=> k + 1 \in Q)
    BY <1>1, <1>5, <2>1
  <2>5. f[k + 1] = g[k + 1]
    BY <2>2, <2>3, <2>4
  <2> QED
    BY <2>1, <2>5
<1> HIDE DEF T
<1>6. \A k \in 0..n : k \in T
  BY <1>1, <1>4, <1>5, IntervalInduction
<1>7. f[n] = g[n]
  BY <1>1, <1>6 DEF T
<1>8. g[n + 1] = IF n + 1 \in Q THEN Append(g[n], x) ELSE g[n]
  <2>1. n + 1 \in 1..Len(t) /\ (n + 1) - 1 = n
    BY <1>1
  <2> QED
    BY <1>1, <1>3, <2>1 DEF IsPicking
<1>9. Picked(s, P) = f[n] /\ Picked(t, Q) = g[n + 1]
  BY <1>1, <1>2, <1>3 DEF IsPicking
<1> QED
  BY <1>7, <1>8, <1>9 DEF t

LEMMA PickedNone ==
  ASSUME NEW P
  PROVE  Picked(<<>>, P) = <<>>
<1>1. <<>> \in Seq({}) /\ Len(<<>>) = 0
  OBVIOUS
<1>2. PICK run \in [0..Len(<<>>) -> Seq({})] : IsPicking(run, <<>>, P)
  BY <1>1, PickingExists
<1> QED
  BY <1>1, <1>2 DEF IsPicking

(* Leaving out what is empty changes nothing in the end.                    *)
LEMMA FlattenPicked ==
  ASSUME NEW S, NEW ss \in Seq(Seq(S)), NEW P, \A i \in 1..Len(ss) : i \in P \/ ss[i] = <<>>
  PROVE  FlattenSeq(Picked(ss, P)) = FlattenSeq(ss)
<1> DEFINE F(s) == FlattenSeq(s)
           Ok(s) == \A i \in 1..Len(s) : i \in P \/ s[i] = <<>>
           T == {s \in Seq(Seq(S)) : Ok(s) => F(Picked(s, P)) = F(s)}
<1> HIDE DEF F
<1>1. <<>> \in T
  BY PickedNone
<1>2. ASSUME NEW s \in Seq(Seq(S)), NEW x \in Seq(S), s \in T
      PROVE  Append(s, x) \in T
  <2> DEFINE t == Append(s, x)
             n == Len(s)
  <2>1. /\ n \in Nat /\ t \in Seq(Seq(S)) /\ Len(t) = n + 1 /\ t[n + 1] = x
        /\ \A i \in 1..n : t[i] = s[i] /\ i \in 1..Len(t)
        /\ n + 1 \in 1..Len(t)
    OBVIOUS
  <2> SUFFICES ASSUME Ok(t) PROVE F(Picked(t, P)) = F(t)
    BY <2>1
  <2> HIDE DEF t
  <2>2. \A i \in 1..n : i \in P \/ s[i] = <<>>
    <3> TAKE i \in 1..n
    <3>1. i \in 1..Len(t) /\ t[i] = s[i]
      BY <2>1
    <3> QED
      BY <3>1
  <2>3. F(Picked(s, P)) = F(s)
    BY <1>2, <2>2
  <2>4. Picked(t, P) = IF n + 1 \in P THEN Append(Picked(s, P), x) ELSE Picked(s, P)
    BY PickedMore DEF t
  <2>5. Picked(s, P) \in Seq(Seq(S))
    BY PickedMembers
  <2>6. F(Append(Picked(s, P), x)) = Joined(F(Picked(s, P)), x)
    BY <2>5, FlattenMore DEF F
  <2>7. F(t) = Joined(F(s), x) /\ F(s) \in Seq(S)
    BY FlattenMore DEF F, t
  <2>8. n + 1 \in P \/ x = <<>>
    BY <2>1
  <2>9. Joined(F(s), <<>>) = F(s)
    BY <2>7 DEF Joined
  <2> QED
    BY <2>3, <2>4, <2>6, <2>7, <2>8, <2>9
<1> HIDE DEF T
<1>3. Seq(Seq(S)) \subseteq T
  BY <1>1, <1>2, SeqSetInduction
<1> QED
  BY <1>3 DEF T, F

\* The numbers of the first n elements.
Ids(n) == [i \in 1..n |-> i]

(* Elements are picked by their positions.                                  *)
LEMMA PickedByPosition ==
  ASSUME NEW S, NEW s \in Seq(S), NEW P
  PROVE  LET ids == Picked(Ids(Len(s)), P)
         IN /\ ids \in Seq(1..Len(s)) /\ ToSet(ids) = P \cap (1..Len(s))
            /\ Picked(s, P) = Mapped(ids, s)
<1> DEFINE I(n) == Picked(Ids(n), P)
           Ok(s1) == /\ I(Len(s1)) \in Seq(1..Len(s1))
                     /\ Picked(s1, P) = Mapped(I(Len(s1)), s1)
           T == {s1 \in Seq(S) : Ok(s1)}
<1>1. ASSUME NEW n \in Nat
      PROVE  Ids(n) \in Seq(1..n) /\ Len(Ids(n)) = n /\ Ids(n) \in Seq(1..(n + 1))
             /\ Ids(n + 1) = Append(Ids(n), n + 1) /\ \A i \in 1..n : Ids(n)[i] = i
  <2> DEFINE a == Ids(n)
             b == Ids(n + 1)
  <2>1. /\ a \in Seq(1..n) /\ Len(a) = n /\ a \in Seq(1..(n + 1))
        /\ b \in Seq(1..(n + 1)) /\ Len(b) = n + 1
        /\ \A i \in 1..n : a[i] = i /\ b[i] = i
        /\ b[n + 1] = n + 1
    BY DEF Ids
  <2> HIDE DEF a, b
  <2>2. /\ Append(a, n + 1) \in Seq(1..(n + 1)) /\ Len(Append(a, n + 1)) = n + 1
        /\ \A i \in 1..n : Append(a, n + 1)[i] = a[i]
        /\ Append(a, n + 1)[n + 1] = n + 1
    BY <2>1
  <2>3. \A i \in 1..(n + 1) : i \in 1..n \/ i = n + 1
    OBVIOUS
  <2>4. \A i \in 1..(n + 1) : Append(a, n + 1)[i] = b[i]
    BY <2>1, <2>2, <2>3
  <2>5. b = Append(a, n + 1)
    BY <2>1, <2>2, <2>4, SeqEqual
  <2> QED
    BY <2>1, <2>5 DEF a, b
<1>2. <<>> \in T
  <2>1. Ids(0) = <<>>
    BY <1>1
  <2>2. I(0) = <<>> /\ Picked(<<>>, P) = <<>>
    BY <2>1, PickedNone
  <2>3. Len(<<>>) = 0 /\ <<>> \in Seq(1..0)
    OBVIOUS
  <2>4. Mapped(<<>>, <<>>) = <<>>
    BY DEF Mapped
  <2> HIDE DEF I
  <2>5. Ok(<<>>)
    BY <2>2, <2>3, <2>4
  <2>6. <<>> \in Seq(S)
    OBVIOUS
  <2> QED
    BY <2>5, <2>6
<1>3. ASSUME NEW t \in Seq(S), NEW x \in S, t \in T
      PROVE  Append(t, x) \in T
  <2> DEFINE n == Len(t)
             u == Append(t, x)
             a == I(n)
             b == I(n + 1)
  <2>1. n \in Nat /\ u \in Seq(S) /\ Len(u) = n + 1 /\ u[n + 1] = x /\ \A i \in 1..n : u[i] = t[i]
    OBVIOUS
  <2>2. a \in Seq(1..n) /\ Picked(t, P) = Mapped(a, t)
    BY <1>3
  <2>10. Picked(u, P) = IF n + 1 \in P THEN Append(Picked(t, P), x) ELSE Picked(t, P)
    BY PickedMore
  <2> HIDE DEF n
  <2>3. b = IF n + 1 \in P THEN Append(a, n + 1) ELSE a
    <3> DEFINE D == 1..(n + 1)
    <3>0. n + 1 \in D /\ n \in Nat
      BY <2>1
    <3>3. Ids(n) \in Seq(D) /\ Len(Ids(n)) = n
      BY <1>1, <3>0
    <3>1. Ids(n + 1) = Append(Ids(n), n + 1)
      BY <1>1, <3>0
    <3> DEFINE ids == Ids(n)
               next == n + 1
    <3>4. next \in D /\ ids \in Seq(D)
      BY <3>0, <3>3
    <3> HIDE DEF D, ids, next
    <3>2. Picked(Append(ids, next), P)
            = IF Len(ids) + 1 \in P THEN Append(Picked(ids, P), next) ELSE Picked(ids, P)
      BY <3>4, PickedMore
    <3> QED
      BY <3>1, <3>2, <3>3 DEF ids, next
  <2> HIDE DEF u, a, b, T
  <2>5. Mapped(a, u) = Mapped(a, t)
    <3>1. \A i \in 1..Len(a) : u[a[i]] = t[a[i]]
      BY <2>1, <2>2
    <3> QED
      BY <3>1 DEF Mapped
  <2>6. Mapped(Append(a, n + 1), u) = Append(Mapped(a, u), x)
    <3>1. a \in Seq(1..(n + 1)) /\ n + 1 \in 1..(n + 1)
      BY <2>1, <2>2
    <3>2. Mapped(Append(a, n + 1), u) = Append(Mapped(a, u), u[n + 1])
      BY <3>1, MappedMore
    <3> QED
      BY <2>1, <3>2
  <2>7. Picked(u, P) = Mapped(b, u)
    BY <2>2, <2>3, <2>10, <2>5, <2>6
  <2>4. a \in Seq(1..(n + 1))
    BY <2>1, <2>2
  <2>8. b \in Seq(1..(n + 1))
    <3> DEFINE D == 1..(n + 1)
    <3>1. n + 1 \in D /\ a \in Seq(D)
      BY <2>1, <2>4
    <3> HIDE DEF D
    <3>2. b \in Seq(D)
      BY <2>3, <3>1
    <3> QED
      BY <3>2 DEF D
  <2>9. Ok(u)
    BY <2>1, <2>7, <2>8 DEF b
  <2> QED
    BY <2>1, <2>9 DEF T, u
<1> HIDE DEF T
<1>4. Seq(S) \subseteq T
  BY <1>2, <1>3, SeqSetInduction
<1>5. Ok(s)
  BY <1>4 DEF T
<1>6. ToSet(I(Len(s))) = P \cap (1..Len(s))
  <2> DEFINE n == Len(s)
  <2>1. n \in Nat
    OBVIOUS
  <2> HIDE DEF n
  <2>2. Ids(n) \in Seq(1..n) /\ Len(Ids(n)) = n /\ \A i \in 1..n : Ids(n)[i] = i
    BY <1>1, <2>1
  <2>3. ToSet(Picked(Ids(n), P)) = {Ids(n)[i] : i \in P \cap (1..n)}
    BY <2>2, PickedMembers
  <2> QED
    BY <2>2, <2>3 DEF n
<1> QED
  BY <1>5, <1>6

-----------------------------------------------------------------------------
(* First appearances.                                                      *)

New1(x, v) == IF v \in ToSet(x) THEN x ELSE Append(x, v)

IsFirsts(run, s) ==
  /\ run[0] = <<>> /\ Firsts(s) = run[Len(s)]
  /\ \A i \in 1..Len(s) : run[i] = New1(run[i - 1], s[i])

LEMMA FirstsExists ==
  ASSUME NEW S, NEW s \in Seq(S)
  PROVE  \E run \in [0..Len(s) -> Seq(S)] : IsFirsts(run, s)
<1> DEFINE top == Len(s)
           Eqn(r) == r = [i \in 0..top |->
                            IF i = 0 THEN <<>>
                            ELSE IF s[i] \in ToSet(r[i - 1]) THEN r[i - 1]
                            ELSE Append(r[i - 1], s[i])]
           step == [i \in 1..top |-> [x \in Seq(S) |-> New1(x, s[i])]]
<1>0. Firsts(s) = (CHOOSE r : Eqn(r))[top]
  BY DEF Firsts
<1>1. top \in Nat /\ <<>> \in Seq(S)
  OBVIOUS
<1>2. step \in Steps(top, Seq(S))
  <2>1. ASSUME NEW i \in 1..top, NEW x \in Seq(S)
        PROVE  New1(x, s[i]) \in Seq(S)
    <3>1. s[i] \in S
      OBVIOUS
    <3> QED
      BY <3>1 DEF New1
  <2> QED
    BY <2>1 DEF Steps
<1> HIDE DEF step, top
<1>3. PICK g : IsRecursion(g, top, Seq(S), <<>>, step)
  BY <1>1, <1>2, RecursionExists
<1>4. g \in [0..top -> Seq(S)]
  BY <1>3 DEF IsRecursion
<1>5. Eqn(g)
  <2>1. ASSUME NEW i \in 0..top
        PROVE  g[i] = IF i = 0 THEN <<>> ELSE New1(g[i - 1], s[i])
    <3>1. CASE i = 0
      BY <1>3, <3>1 DEF IsRecursion
    <3>2. CASE i # 0
      <4>1. i \in 1..top /\ i - 1 \in 0..top
        BY <1>1, <3>2
      <4>2. g[i - 1] \in Seq(S) /\ g[i] = step[i][g[i - 1]]
        BY <1>3, <4>1 DEF IsRecursion
      <4> QED
        BY <3>2, <4>1, <4>2 DEF step
    <3> QED
      BY <3>1, <3>2
  <2>2. g = [i \in 0..top |-> g[i]]
    BY <1>4
  <2>3. \A i \in 0..top : g[i] = IF i = 0 THEN <<>>
                                 ELSE IF s[i] \in ToSet(g[i - 1]) THEN g[i - 1]
                                 ELSE Append(g[i - 1], s[i])
    BY <2>1 DEF New1
  <2> QED
    BY <2>2, <2>3
<1> DEFINE run == CHOOSE r : Eqn(r)
<1>6. Eqn(run)
  BY <1>5
<1>7. Firsts(s) = run[top]
  BY <1>0
<1> HIDE DEF run
<1>8. ASSUME NEW i \in 1..top
      PROVE  run[i] = New1(run[i - 1], s[i])
  <2>1. i \in 0..top /\ i # 0
    BY <1>1
  <2> QED
    BY <1>6, <2>1 DEF New1
<1>9. run[0] = <<>>
  <2>1. 0 \in 0..top
    BY <1>1
  <2> QED
    BY <1>6, <2>1
<1> DEFINE T == {k \in 0..top : run[k] \in Seq(S)}
<1>10. 0 \in T
  <2>1. 0 \in 0..top
    BY <1>1
  <2>2. run[0] \in Seq(S)
    BY <1>1, <1>9
  <2> QED
    BY <2>1, <2>2
<1>11. ASSUME NEW k \in Nat, k < top, k \in T
       PROVE  k + 1 \in T
  <2>1. k + 1 \in 1..top /\ k + 1 \in 0..top /\ (k + 1) - 1 = k
    BY <1>1, <1>11
  <2>2. run[k + 1] = New1(run[k], s[k + 1]) /\ s[k + 1] \in S /\ run[k] \in Seq(S)
    BY <1>8, <1>11, <2>1 DEF top
  <2>3. run[k + 1] \in Seq(S)
    BY <2>2 DEF New1
  <2> QED
    BY <2>1, <2>3
<1> HIDE DEF T
<1>12. \A k \in 0..top : k \in T
  BY <1>1, <1>10, <1>11, IntervalInduction
<1>13. run \in [0..top -> Seq(S)]
  <2>1. run = [i \in 0..top |-> run[i]]
    BY <1>6
  <2>2. \A i \in 0..top : run[i] \in Seq(S)
    BY <1>12 DEF T
  <2> QED
    BY <2>1, <2>2
<1>14. IsFirsts(run, s)
  BY <1>7, <1>8, <1>9 DEF IsFirsts, top
<1> QED
  BY <1>13, <1>14 DEF top

\* No element is lost.
LEMMA FirstsMembers ==
  ASSUME NEW S, NEW s \in Seq(S)
  PROVE  Firsts(s) \in Seq(S) /\ \A i \in 1..Len(s) : s[i] \in ToSet(Firsts(s))
<1>1. PICK run \in [0..Len(s) -> Seq(S)] : IsFirsts(run, s)
  BY FirstsExists
<1> DEFINE top == Len(s)
           T == {k \in 0..top : \A i \in 1..k : s[i] \in ToSet(run[k])}
<1>2. top \in Nat
  OBVIOUS
<1>3. 0 \in T
  BY <1>2
<1>4. ASSUME NEW k \in Nat, k < top, k \in T
      PROVE  k + 1 \in T
  <2>1. k + 1 \in 1..top /\ k + 1 \in 0..top /\ k \in 0..top /\ (k + 1) - 1 = k /\ s[k + 1] \in S
    BY <1>2, <1>4
  <2> DEFINE r == run[k]
             q == run[k + 1]
             x == s[k + 1]
  <2>2. q = New1(r, x) /\ r \in Seq(S) /\ x \in S
    BY <1>1, <2>1 DEF IsFirsts
  <2>3. \A i \in 1..k : s[i] \in ToSet(r)
    BY <1>4
  <2> HIDE DEF r, q, x, T
  <2>4. ToSet(r) \subseteq ToSet(q) /\ x \in ToSet(q)
    <3>1. ToSet(Append(r, x)) = ToSet(r) \cup {x}
      BY <2>2, ToSetMore
    <3> QED
      BY <2>2, <3>1 DEF New1
  <2>5. \A i \in 1..(k + 1) : s[i] \in ToSet(q)
    <3>1. \A i \in 1..(k + 1) : i \in 1..k \/ i = k + 1
      BY <1>4
    <3> QED
      BY <2>3, <2>4, <3>1 DEF x
  <2> QED
    BY <2>1, <2>5 DEF T, q
<1> HIDE DEF T
<1>5. \A k \in 0..top : k \in T
  BY <1>2, <1>3, <1>4, IntervalInduction
<1>6. \A i \in 1..top : s[i] \in ToSet(run[top])
  BY <1>2, <1>5 DEF T
<1>7. run[top] \in Seq(S) /\ Firsts(s) = run[top]
  BY <1>1, <1>2 DEF IsFirsts
<1> QED
  BY <1>6, <1>7

Unrepeated(s) == \A i, j \in 1..Len(s) : s[i] = s[j] => i = j

LEMMA FirstsMore ==
  ASSUME NEW S
  PROVE  /\ Firsts(<<>>) = <<>>
         /\ \A s \in Seq(S) : \A x \in S : Firsts(Append(s, x)) = New1(Firsts(s), x)
<1>1. Firsts(<<>>) = <<>>
  <2>1. <<>> \in Seq(S) /\ Len(<<>>) = 0
    OBVIOUS
  <2>2. PICK run \in [0..Len(<<>>) -> Seq(S)] : IsFirsts(run, <<>>)
    BY <2>1, FirstsExists
  <2> QED
    BY <2>1, <2>2 DEF IsFirsts
<1>2. ASSUME NEW s \in Seq(S), NEW x \in S
      PROVE  Firsts(Append(s, x)) = New1(Firsts(s), x)
  <2> DEFINE t == Append(s, x)
             n == Len(s)
  <2>1. n \in Nat /\ t \in Seq(S) /\ Len(t) = n + 1 /\ t[n + 1] = x /\ \A i \in 1..n : t[i] = s[i]
    OBVIOUS
  <2>2. PICK f \in [0..n -> Seq(S)] : IsFirsts(f, s)
    BY FirstsExists
  <2> HIDE DEF t
  <2>3. PICK g \in [0..Len(t) -> Seq(S)] : IsFirsts(g, t)
    BY <2>1, FirstsExists
  <2> DEFINE K == {k \in 0..n : f[k] = g[k]}
  <2>4. 0 \in K
    BY <2>1, <2>2, <2>3 DEF IsFirsts
  <2>5. ASSUME NEW k \in Nat, k < n, k \in K
        PROVE  k + 1 \in K
    <3>1. k + 1 \in 1..n /\ k + 1 \in 0..n /\ k + 1 \in 1..Len(t) /\ (k + 1) - 1 = k
      BY <2>1, <2>5
    <3>2. f[k + 1] = New1(f[k], s[k + 1])
      BY <2>2, <3>1 DEF IsFirsts
    <3>3. g[k + 1] = New1(g[k], t[k + 1])
      BY <2>3, <3>1 DEF IsFirsts
    <3>4. f[k] = g[k] /\ t[k + 1] = s[k + 1]
      BY <2>1, <2>5, <3>1
    <3>5. f[k + 1] = g[k + 1]
      BY <3>2, <3>3, <3>4
    <3> QED
      BY <3>1, <3>5
  <2> HIDE DEF K
  <2>6. \A k \in 0..n : k \in K
    BY <2>1, <2>4, <2>5, IntervalInduction
  <2>7. f[n] = g[n]
    BY <2>1, <2>6 DEF K
  <2>8. g[n + 1] = New1(g[n], x)
    <3>1. n + 1 \in 1..Len(t) /\ (n + 1) - 1 = n
      BY <2>1
    <3> QED
      BY <2>1, <2>3, <3>1 DEF IsFirsts
  <2>9. Firsts(s) = f[n] /\ Firsts(t) = g[n + 1]
    BY <2>1, <2>2, <2>3 DEF IsFirsts
  <2> QED
    BY <2>7, <2>8, <2>9 DEF t
<1> QED
  BY <1>1, <1>2

LEMMA DistinctMore ==
  ASSUME NEW S, NEW s \in Seq(S), NEW x \in S
  PROVE  /\ Unrepeated(Append(s, x)) <=> Unrepeated(s) /\ x \notin ToSet(s)
         /\ Unrepeated(<<>>) /\ ToSet(<<>>) = {}
<1> DEFINE t == Append(s, x)
           n == Len(s)
<1>1. n \in Nat /\ t \in Seq(S) /\ Len(t) = n + 1 /\ t[n + 1] = x /\ \A i \in 1..n : t[i] = s[i]
  OBVIOUS
<1>2. ToSet(s) = {s[i] : i \in 1..n}
  BY DEF ToSet
<1>3. Unrepeated(<<>>) /\ ToSet(<<>>) = {}
  BY DEF Unrepeated, ToSet
<1> HIDE DEF t
<1>4. \A i \in 1..n : i \in 1..(n + 1) /\ i # n + 1
  BY <1>1
<1>5. n + 1 \in 1..(n + 1) /\ \A i \in 1..(n + 1) : i \in 1..n \/ i = n + 1
  BY <1>1
<1>6. ASSUME Unrepeated(t)
      PROVE  Unrepeated(s) /\ x \notin ToSet(s)
  BY <1>1, <1>2, <1>4, <1>5, <1>6 DEF Unrepeated
<1>7. ASSUME Unrepeated(s), x \notin ToSet(s)
      PROVE  Unrepeated(t)
  BY <1>1, <1>2, <1>4, <1>5, <1>7 DEF Unrepeated
<1> QED
  BY <1>3, <1>6, <1>7 DEF t

(* First appearances are the same elements, once each; those of distinct    *)
(* elements are the elements.                                               *)
LEMMA FirstsFacts ==
  ASSUME NEW S, NEW s \in Seq(S)
  PROVE  /\ Firsts(s) \in Seq(S) /\ ToSet(Firsts(s)) = ToSet(s) /\ Unrepeated(Firsts(s))
         /\ Unrepeated(s) => Firsts(s) = s
<1> DEFINE Ok(r) == /\ Firsts(r) \in Seq(S) /\ ToSet(Firsts(r)) = ToSet(r)
                    /\ Unrepeated(Firsts(r)) /\ (Unrepeated(r) => Firsts(r) = r)
           T == {r \in Seq(S) : Ok(r)}
<1>1. <<>> \in T
  <2>1. <<>> \in Seq(S) /\ Firsts(<<>>) = <<>> /\ Unrepeated(<<>>)
    BY FirstsMore DEF Unrepeated
  <2> QED
    BY <2>1
<1>2. ASSUME NEW r \in Seq(S), NEW x \in S, r \in T
      PROVE  Append(r, x) \in T
  <2> DEFINE q == Firsts(r)
  <2>1. q \in Seq(S) /\ ToSet(q) = ToSet(r) /\ Unrepeated(q) /\ (Unrepeated(r) => q = r)
    BY <1>2
  <2>2. Firsts(Append(r, x)) = New1(q, x)
    BY FirstsMore
  <2> HIDE DEF q, T
  <2>3. ToSet(Append(r, x)) = ToSet(r) \cup {x} /\ ToSet(Append(q, x)) = ToSet(q) \cup {x}
    BY <2>1, ToSetMore
  <2>4. Unrepeated(Append(r, x)) <=> Unrepeated(r) /\ x \notin ToSet(r)
    BY DistinctMore
  <2>5. Unrepeated(Append(q, x)) <=> Unrepeated(q) /\ x \notin ToSet(q)
    BY <2>1, DistinctMore
  <2>6. Append(r, x) \in Seq(S) /\ Append(q, x) \in Seq(S)
    BY <2>1
  <2>7. CASE x \in ToSet(q)
    <3>1. Firsts(Append(r, x)) = q
      BY <2>2, <2>7 DEF New1
    <3>2. Ok(Append(r, x))
      BY <2>1, <2>3, <2>4, <2>7, <3>1
    <3> QED
      BY <2>6, <3>2 DEF T
  <2>8. CASE x \notin ToSet(q)
    <3>1. Firsts(Append(r, x)) = Append(q, x)
      BY <2>2, <2>8 DEF New1
    <3>2. Ok(Append(r, x))
      BY <2>1, <2>3, <2>4, <2>5, <2>6, <2>8, <3>1
    <3> QED
      BY <2>6, <3>2 DEF T
  <2> QED
    BY <2>7, <2>8
<1> HIDE DEF T
<1>3. Seq(S) \subseteq T
  BY <1>1, <1>2, SeqSetInduction
<1> QED
  BY <1>3 DEF T

(* First appearances may be taken before joining.                           *)
LEMMA FirstsJoined ==
  ASSUME NEW S, NEW a \in Seq(S), NEW b \in Seq(S)
  PROVE  /\ Firsts(Joined(a, b)) = Firsts(Joined(Firsts(a), b))
         /\ Firsts(Joined(a, b)) = Firsts(Joined(a, Firsts(b)))
<1> DEFINE p == Firsts(a)
           T == {s \in Seq(S) : Firsts(Joined(a, s)) = Firsts(Joined(p, s))}
           U == {s \in Seq(S) : Firsts(Joined(a, s)) = Firsts(Joined(a, Firsts(s)))}
<1>1. p \in Seq(S) /\ Firsts(p) = p
  BY FirstsFacts
<1> HIDE DEF p
<1>2. ASSUME NEW s \in Seq(S), NEW x \in S, NEW r \in Seq(S)
      PROVE  /\ Joined(r, s) \in Seq(S)
             /\ Joined(r, Append(s, x)) = Append(Joined(r, s), x)
  BY JoinedMore
<1>3. \A s \in Seq(S) : Joined(s, <<>>) = s
  BY DEF Joined
<1>4. <<>> \in T /\ <<>> \in U
  <2>1. <<>> \in Seq(S) /\ Firsts(<<>>) = <<>>
    BY FirstsMore
  <2>2. Firsts(Joined(a, <<>>)) = Firsts(Joined(p, <<>>))
    BY <1>1, <1>3 DEF p
  <2> QED
    BY <2>1, <2>2
<1>5. ASSUME NEW s \in Seq(S), NEW x \in S, s \in T
      PROVE  Append(s, x) \in T
  <2>1. Firsts(Joined(a, s)) = Firsts(Joined(p, s))
    BY <1>5
  <2>2. Firsts(Append(Joined(a, s), x)) = New1(Firsts(Joined(a, s)), x)
    BY <1>2, FirstsMore
  <2>3. Firsts(Append(Joined(p, s), x)) = New1(Firsts(Joined(p, s)), x)
    BY <1>1, <1>2, FirstsMore
  <2>4. Append(s, x) \in Seq(S)
    OBVIOUS
  <2>5. Joined(a, Append(s, x)) = Append(Joined(a, s), x)
    BY <1>2
  <2>6. Joined(p, Append(s, x)) = Append(Joined(p, s), x)
    BY <1>1, <1>2
  <2> QED
    BY <2>1, <2>2, <2>3, <2>4, <2>5, <2>6
<1>6. ASSUME NEW s \in Seq(S), NEW x \in S, s \in U
      PROVE  Append(s, x) \in U
  <2> DEFINE q == Firsts(s)
             m == Joined(a, s)
             w == Joined(a, q)
  <2>1. Firsts(m) = Firsts(w)
    BY <1>6
  <2>2. q \in Seq(S) /\ ToSet(q) = ToSet(s)
    BY FirstsFacts
  <2>3. Firsts(Append(s, x)) = New1(q, x)
    BY FirstsMore
  <2> HIDE DEF q, U
  <2>4. m \in Seq(S) /\ w \in Seq(S) /\ Joined(a, Append(s, x)) = Append(m, x)
        /\ Joined(a, Append(q, x)) = Append(w, x)
    BY <1>2, <2>2
  <2> HIDE DEF m, w
  <2>5. Firsts(Append(m, x)) = New1(Firsts(m), x) /\ Firsts(Append(w, x)) = New1(Firsts(w), x)
    BY <2>4, FirstsMore
  <2>6. Append(s, x) \in Seq(S)
    OBVIOUS
  <2>7. CASE x \in ToSet(q)
    <3>1. Firsts(Append(s, x)) = q
      BY <2>3, <2>7 DEF New1
    <3>2. x \in ToSet(Firsts(m))
      <4>1. PICK j \in 1..Len(s) : x = s[j]
        <5>1. DOMAIN s = 1..Len(s)
          OBVIOUS
        <5> QED
          BY <2>2, <2>7, <5>1 DEF ToSet
      <4>2. /\ Len(a) + j \in 1..Len(m) /\ m[Len(a) + j] = x
        <5>1. /\ Len(m) = Len(a) + Len(s) /\ Len(a) \in Nat /\ Len(s) \in Nat
              /\ \A i \in 1..Len(m) : m[i] = IF i <= Len(a) THEN a[i] ELSE s[i - Len(a)]
          BY ConcatProperties DEF Joined, m
        <5>2. Len(a) + j \in 1..Len(m) /\ ~(Len(a) + j <= Len(a)) /\ (Len(a) + j) - Len(a) = j
          BY <5>1
        <5> QED
          BY <4>1, <5>1, <5>2
      <4> QED
        BY <2>4, <4>2, FirstsMembers
    <3>3. New1(Firsts(m), x) = Firsts(m)
      BY <3>2 DEF New1
    <3> QED
      BY <2>1, <2>4, <2>5, <2>6, <3>1, <3>3 DEF U, w
  <2>8. CASE x \notin ToSet(q)
    <3>1. Firsts(Append(s, x)) = Append(q, x)
      BY <2>3, <2>8 DEF New1
    <3> QED
      BY <2>1, <2>4, <2>5, <2>6, <3>1 DEF U
  <2> QED
    BY <2>7, <2>8
<1> HIDE DEF T, U
<1>7. Seq(S) \subseteq T
  BY <1>4, <1>5, SeqSetInduction
<1>8. Seq(S) \subseteq U
  BY <1>4, <1>6, SeqSetInduction
<1> QED
  BY <1>7, <1>8 DEF T, U, p

(* And before flattening.                                                   *)
LEMMA FirstsFlatten ==
  ASSUME NEW S, NEW ss \in Seq(Seq(S)), NEW f, \A s \in Seq(S) : f[s] = Firsts(s)
  PROVE  Firsts(FlattenSeq(Mapped(ss, f))) = Firsts(FlattenSeq(ss))
<1> DEFINE F(s) == FlattenSeq(s)
           T == {s \in Seq(Seq(S)) : Firsts(F(Mapped(s, f))) = Firsts(F(s))}
<1> HIDE DEF F
<1>1. \A s \in Seq(S) : f[s] \in Seq(S)
  BY FirstsFacts
<1>2. <<>> \in T
  BY DEF Mapped
<1>3. ASSUME NEW s \in Seq(Seq(S)), NEW x \in Seq(S), s \in T
      PROVE  Append(s, x) \in T
  <2> DEFINE a == F(Mapped(s, f))
             b == F(s)
  <2>1. Firsts(a) = Firsts(b)
    BY <1>3
  <2>2. Mapped(s, f) \in Seq(Seq(S)) /\ Mapped(Append(s, x), f) = Append(Mapped(s, f), f[x])
    BY <1>1, MappedIn, MappedMore
  <2>3. a \in Seq(S) /\ b \in Seq(S) /\ f[x] \in Seq(S)
    BY <1>1, <2>2, FlattenIn DEF F
  <2>4. F(Append(Mapped(s, f), f[x])) = Joined(a, f[x])
    BY <1>1, <2>2, FlattenMore DEF F
  <2>5. F(Append(s, x)) = Joined(b, x)
    BY FlattenMore DEF F
  <2> HIDE DEF a, b
  <2>6. Firsts(Joined(a, f[x])) = Firsts(Joined(a, x))
    BY <2>3, FirstsJoined
  <2>7. Firsts(Joined(a, x)) = Firsts(Joined(Firsts(a), x))
    BY <2>3, FirstsJoined
  <2>8. Firsts(Joined(b, x)) = Firsts(Joined(Firsts(b), x))
    BY <2>3, FirstsJoined
  <2>9. Append(s, x) \in Seq(Seq(S))
    OBVIOUS
  <2> QED
    BY <2>1, <2>2, <2>4, <2>5, <2>6, <2>7, <2>8, <2>9
<1> HIDE DEF T
<1>4. Seq(Seq(S)) \subseteq T
  BY <1>2, <1>3, SeqSetInduction
<1> QED
  BY <1>4 DEF T, F

-----------------------------------------------------------------------------
(* Strings laid end to end.                                                *)

\* Offsets that cut an arena into strings.
IsArena(a, o) ==
  /\ a \in Seq(Nat) /\ o \in Seq(Nat) /\ Len(o) >= 1
  /\ o[1] = 0 /\ o[Len(o)] = Len(a)
  /\ \A i, j \in 1..Len(o) : i <= j => o[i] <= o[j]

Text(a, o, i) == Cut(a, o[i], o[i + 1])

\* The strings of (b, p) are those of (a, o) and s, the first n of them, and
\* those after the n-th.
MoreTexts(b, p, a, o, s) ==
  /\ IsArena(b, p) /\ Len(p) = Len(o) + 1
  /\ \A i \in 1..(Len(o) - 1) : Text(b, p, i) = Text(a, o, i)
  /\ Text(b, p, Len(o)) = s

FrontTexts(b, p, a, o, n) ==
  /\ IsArena(b, p) /\ Len(p) = n + 1
  /\ \A i \in 1..n : Text(b, p, i) = Text(a, o, i)

BackTexts(b, p, a, o, n) ==
  /\ IsArena(b, p) /\ Len(p) = Len(o) - n
  /\ \A i \in 1..(Len(o) - n - 1) : Text(b, p, i) = Text(a, o, n + i)

(* The offsets of a text lie within the arena.                              *)
LEMMA ArenaText ==
  ASSUME NEW a, NEW o, IsArena(a, o), NEW i \in 1..(Len(o) - 1)
  PROVE  /\ o[i] \in Nat /\ o[i + 1] \in Nat /\ o[i] <= o[i + 1] /\ o[i + 1] <= Len(a)
         /\ Text(a, o, i) \in Seq(Nat)
<1> USE DEF IsArena
<1>1. i \in 1..Len(o) /\ i + 1 \in 1..Len(o) /\ Len(o) \in 1..Len(o) /\ i <= i + 1
      /\ i + 1 <= Len(o)
  OBVIOUS
<1>2. o[i] \in Nat /\ o[i + 1] \in Nat
  BY <1>1
<1>3. o[i] <= o[i + 1] /\ o[i + 1] <= Len(a)
  BY <1>1
<1>4. a \in Seq(Nat)
  OBVIOUS
<1>5. Text(a, o, i) \in Seq(Nat)
  BY <1>2, <1>3, <1>4, CutFacts DEF Text
<1> QED
  BY <1>2, <1>3, <1>5

(* What precedes a position is the same when more follows.                  *)
LEMMA CutBefore ==
  ASSUME NEW A, NEW b \in Seq(A), NEW c \in Seq(A), NEW i \in Nat, NEW j \in Nat,
         i <= j, j <= Len(b)
  PROVE  Cut(b \o c, i, j) = Cut(b, i, j)
<1> DEFINE d == b \o c
<1>1. /\ d \in Seq(A) /\ Len(d) = Len(b) + Len(c)
      /\ \A n \in 1..Len(b) : d[n] = b[n]
  <2>1. /\ d \in Seq(A) /\ Len(d) = Len(b) + Len(c)
        /\ \A n \in 1..(Len(b) + Len(c)) : d[n] = IF n <= Len(b) THEN b[n] ELSE c[n - Len(b)]
    BY ConcatProperties
  <2>2. \A n \in 1..Len(b) : n \in 1..(Len(b) + Len(c)) /\ n <= Len(b)
    OBVIOUS
  <2> QED
    BY <2>1, <2>2
<1> HIDE DEF d
<1>2. IsPiece(Cut(b, i, j), A, b, i, j)
  BY CutPiece
<1>3. j <= Len(d)
  BY <1>1
<1>4. IsPiece(Cut(d, i, j), A, d, i, j)
  BY <1>1, <1>3, CutPiece
<1> DEFINE p == Cut(b, i, j)
           q == Cut(d, i, j)
<1> HIDE DEF p, q
<1>5. p \in Seq(A) /\ q \in Seq(A) /\ Len(p) = j - i /\ Len(q) = j - i
  BY <1>2, <1>4 DEF IsPiece, p, q
<1>6. ASSUME NEW n \in 1..Len(p)
      PROVE  p[n] = q[n]
  <2>1. n \in 1..(j - i) /\ i + n \in 1..Len(b)
    BY <1>5
  <2> QED
    BY <1>1, <1>2, <1>4, <2>1 DEF IsPiece, p, q
<1>7. p = q
  BY <1>5, <1>6, SeqEqual
<1> QED
  BY <1>7 DEF p, q, d

(* A text put at the end of the arena moves no other.                       *)
LEMMA ArenaMore ==
  ASSUME NEW a, NEW o, IsArena(a, o), NEW s \in Seq(Nat)
  PROVE  MoreTexts(a \o s, Append(o, Len(a \o s)), a, o, s)
<1> DEFINE b == a \o s
           p == Append(o, Len(b))
           top == Len(o)
<1>1. /\ a \in Seq(Nat) /\ o \in Seq(Nat) /\ top \in Nat /\ top >= 1
      /\ o[1] = 0 /\ o[top] = Len(a)
      /\ \A i, j \in 1..top : i <= j => o[i] <= o[j]
  BY DEF IsArena
<1>2. b \in Seq(Nat) /\ Len(b) = Len(a) + Len(s) /\ Len(b) \in Nat
  BY <1>1
<1> HIDE DEF b
<1>3. /\ p \in Seq(Nat) /\ Len(p) = top + 1 /\ p[top + 1] = Len(b)
      /\ \A i \in 1..top : p[i] = o[i]
  BY <1>1, <1>2
<1> HIDE DEF p
<1>4. \A i \in 1..top : o[i] \in Nat /\ o[i] <= Len(a)
  <2>1. \A i \in 1..top : o[i] \in Nat /\ i <= top /\ top \in 1..top
    BY <1>1
  <2> QED
    BY <1>1, <2>1
<1>5. IsArena(b, p)
  <2>1. ASSUME NEW i \in 1..(top + 1), NEW j \in 1..(top + 1), i <= j
        PROVE  p[i] <= p[j]
    <3>1. CASE j = top + 1
      <4>1. CASE i = top + 1
        BY <1>2, <1>3, <3>1, <4>1
      <4>2. CASE i # top + 1
        <5>1. i \in 1..top
          BY <1>1, <4>2
        <5>2. p[i] \in Nat /\ p[i] <= Len(a)
          BY ONLY <1>3, <1>4, <5>1
        <5>3. p[j] = Len(a) + Len(s) /\ Len(a) \in Nat /\ Len(s) \in Nat
          BY <1>1, <1>2, <1>3, <3>1
        <5> QED
          BY <5>2, <5>3
      <4> QED
        BY <4>1, <4>2
    <3>2. CASE j # top + 1
      <4>1. i \in 1..top /\ j \in 1..top
        BY <1>1, <2>1, <3>2
      <4> QED
        BY <1>1, <1>3, <2>1, <4>1
    <3> QED
      BY <3>1, <3>2
  <2>2. p[1] = 0
    <3>1. 1 \in 1..top
      BY <1>1
    <3> QED
      BY <1>1, <1>3, <3>1
  <2>3. \A i, j \in 1..Len(p) : i <= j => p[i] <= p[j]
    BY <1>3, <2>1
  <2> QED
    BY <1>1, <1>2, <1>3, <2>2, <2>3 DEF IsArena
<1>6. ASSUME NEW i \in 1..(top - 1)
      PROVE  Text(b, p, i) = Text(a, o, i)
  <2>1. i \in 1..top /\ i + 1 \in 1..top
    BY <1>1
  <2>2. p[i] = o[i] /\ p[i + 1] = o[i + 1]
    BY <1>3, <2>1
  <2>3. o[i] \in Nat /\ o[i + 1] \in Nat /\ o[i] <= o[i + 1] /\ o[i + 1] <= Len(a)
    BY ArenaText
  <2>4. Cut(b, o[i], o[i + 1]) = Cut(a, o[i], o[i + 1])
    BY <1>1, <2>3, CutBefore DEF b
  <2> QED
    BY <2>2, <2>4 DEF Text
<1>7. Text(b, p, top) = s
  <2>1. p[top] = Len(a) /\ p[top + 1] = Len(b)
    <3>1. top \in 1..top
      BY <1>1
    <3> QED
      BY <1>1, <1>3, <3>1
  <2> DEFINE la == Len(a)
             lb == Len(b)
  <2>2. la \in Nat /\ la <= Len(a)
    BY <1>1
  <2> HIDE DEF la
  <2>3. Cut(a \o s, la, Len(a \o s)) = Cut(a, la, Len(a)) \o s
    BY <1>1, <2>2, CutOfConcat
  <2>4. Cut(a, la, Len(a)) = <<>>
    BY <2>2, CutNothing DEF la
  <2>5. <<>> \o s = s
    OBVIOUS
  <2> QED
    BY <2>1, <2>3, <2>4, <2>5 DEF Text, b, la
<1> QED
  BY <1>3, <1>5, <1>6, <1>7 DEF b, p, MoreTexts

(* The first n strings.                                                     *)
LEMMA ArenaFront ==
  ASSUME NEW a, NEW o, IsArena(a, o), NEW n \in Nat, n < Len(o)
  PROVE  FrontTexts(Cut(a, 0, o[n + 1]), Cut(o, 0, n + 1), a, o, n)
<1> DEFINE end == o[n + 1]
           b == Cut(a, 0, end)
           p == Cut(o, 0, n + 1)
           top == Len(o)
<1>1. /\ a \in Seq(Nat) /\ o \in Seq(Nat) /\ top \in Nat /\ top >= 1
      /\ o[1] = 0 /\ o[top] = Len(a)
      /\ \A i, j \in 1..top : i <= j => o[i] <= o[j]
  BY DEF IsArena
<1>2. n + 1 \in 1..top /\ top \in 1..top
  BY <1>1
<1>3. end \in Nat /\ end <= Len(a)
  BY <1>1, <1>2
<1>4. p \in Seq(Nat) /\ Len(p) = n + 1 /\ \A i \in 1..(n + 1) : p[i] = o[i]
  <2>1. n + 1 \in Nat /\ n + 1 <= Len(o)
    BY <1>2
  <2> QED
    BY <1>1, <2>1, CutFront
<1> HIDE DEF p, end
<1>5. b \in Seq(Nat) /\ Len(b) = end /\ \A i \in 1..end : b[i] = a[i]
  BY <1>1, <1>3, CutFront
<1> HIDE DEF b
<1>6. IsArena(b, p)
  <2>1. \A i \in 1..(n + 1) : i \in 1..top
    BY <1>1, <1>2
  <2>2. \A i, j \in 1..Len(p) : i <= j => p[i] <= p[j]
    BY <1>1, <1>4, <2>1
  <2>3. p[1] = 0 /\ p[n + 1] = end
    <3>1. 1 \in 1..(n + 1) /\ n + 1 \in 1..(n + 1)
      OBVIOUS
    <3> QED
      BY <1>1, <1>4, <3>1 DEF end
  <2> QED
    BY <1>4, <1>5, <2>2, <2>3 DEF IsArena
<1>7. ASSUME NEW i \in 1..n
      PROVE  Text(b, p, i) = Text(a, o, i)
  <2>1. i \in 1..(n + 1) /\ i + 1 \in 1..(n + 1) /\ i \in 1..(Len(o) - 1) /\ i + 1 <= n + 1
    BY <1>1, <1>2
  <2>2. p[i] = o[i] /\ p[i + 1] = o[i + 1]
    BY <1>4, <2>1
  <2>3. o[i] \in Nat /\ o[i + 1] \in Nat /\ o[i] <= o[i + 1] /\ o[i + 1] <= Len(a)
    BY <2>1, ArenaText
  <2>4. o[i + 1] <= end
    <3>1. i + 1 \in 1..top
      BY <1>2, <2>1
    <3> QED
      BY <1>1, <1>2, <2>1, <3>1 DEF end
  <2> DEFINE x == o[i]
             y == o[i + 1]
  <2> HIDE DEF x, y
  <2>5. x \in Nat /\ y \in Nat /\ x <= y /\ y <= end /\ end \in Nat /\ end <= Len(a)
    BY <1>3, <2>3, <2>4 DEF x, y
  <2>6. Cut(Cut(a, 0, end), x, y) = Cut(a, 0 + x, 0 + y)
    <3>1. 0 \in Nat /\ 0 <= end /\ y <= end - 0
      BY <2>5
    <3> QED
      BY <1>1, <2>5, <3>1, CutOfCut
  <2>7. 0 + x = x /\ 0 + y = y
    BY <2>5
  <2> QED
    BY <2>2, <2>6, <2>7 DEF Text, b, x, y
<1> QED
  BY <1>4, <1>6, <1>7 DEF b, p, end, FrontTexts

(* The strings after the n-th, their offsets rebased.                       *)
LEMMA ArenaBack ==
  ASSUME NEW a, NEW o, IsArena(a, o), NEW n \in Nat, n < Len(o)
  PROVE  BackTexts(Cut(a, o[n + 1], Len(a)),
                   [i \in 1..(Len(o) - n) |-> o[n + i] - o[n + 1]], a, o, n)
<1> DEFINE end == o[n + 1]
           top == Len(o)
           rest == top - n
           la == Len(a)
           b == Cut(a, end, la)
           p == [i \in 1..rest |-> o[n + i] - end]
<1>1. /\ a \in Seq(Nat) /\ o \in Seq(Nat) /\ top \in Nat /\ top >= 1
      /\ o[1] = 0 /\ o[top] = Len(a)
      /\ \A i, j \in 1..top : i <= j => o[i] <= o[j]
  BY DEF IsArena
<1>2. n + 1 \in 1..top /\ top \in 1..top /\ rest \in Nat /\ rest >= 1
  BY <1>1
<1>3. end \in Nat /\ end <= la /\ la \in Nat /\ la <= Len(a)
  BY <1>1, <1>2
<1>0. rest = top - n
  OBVIOUS
<1> HIDE DEF rest
<1>4. \A i \in 1..rest : n + i \in 1..top /\ o[n + i] \in Nat /\ end <= o[n + i]
  <2>1. ASSUME NEW i \in 1..rest
        PROVE  n + i \in 1..top /\ o[n + i] \in Nat /\ o[n + 1] <= o[n + i]
    <3> DEFINE m == n + i
    <3>1. m \in 1..top /\ n + 1 <= m
      BY <1>0, <1>1, <1>2
    <3> HIDE DEF m
    <3>2. o[m] \in Nat /\ o[n + 1] <= o[m]
      BY <1>1, <1>2, <3>1
    <3> QED
      BY <3>1, <3>2 DEF m
  <2> QED
    BY <2>1
<1> HIDE DEF end
<1> HIDE DEF la
<1>5. p \in Seq(Nat) /\ Len(p) = rest /\ \A i \in 1..rest : p[i] = o[n + i] - end
  <2>1. ASSUME NEW i \in 1..rest
        PROVE  o[n + i] - end \in Nat
    <3> DEFINE x == o[n + i]
    <3>1. x \in Nat /\ end <= x
      BY <1>4
    <3> HIDE DEF x
    <3>2. x - end \in Nat
      BY <1>3, <3>1
    <3> QED
      BY <3>2 DEF x
  <2> QED
    BY <1>2, <2>1
<1> HIDE DEF p
<1>6. b \in Seq(Nat) /\ Len(b) = la - end
  BY <1>1, <1>3, CutFacts
<1> HIDE DEF b
<1>7. IsArena(b, p)
  <2>1. ASSUME NEW i \in 1..rest, NEW j \in 1..rest, i <= j
        PROVE  p[i] <= p[j]
    <3>1. n + i <= n + j
      BY <1>0, <1>1, <2>1
    <3>2. o[n + i] <= o[n + j]
      BY <1>1, <1>4, <3>1
    <3> DEFINE x == o[n + i]
               y == o[n + j]
    <3>3. x \in Nat /\ y \in Nat /\ x <= y /\ p[i] = x - end /\ p[j] = y - end
      BY <1>4, <1>5, <3>2
    <3> HIDE DEF x, y
    <3> QED
      BY <1>3, <3>3
  <2>2. p[1] = 0 /\ p[rest] = la - end
    <3>1. 1 \in 1..rest /\ rest \in 1..rest /\ n + rest = top
      BY <1>0, <1>1, <1>2
    <3>2. o[n + 1] = end /\ o[n + rest] = la
      BY <1>1, <3>1 DEF end, la
    <3>3. p[1] = end - end /\ p[rest] = la - end
      BY <1>5, <3>1, <3>2
    <3> QED
      BY <1>3, <3>3
  <2>3. \A i, j \in 1..Len(p) : i <= j => p[i] <= p[j]
    BY <1>5, <2>1
  <2> QED
    BY <1>2, <1>5, <1>6, <2>2, <2>3 DEF IsArena
<1>8. ASSUME NEW i \in 1..(rest - 1)
      PROVE  Text(b, p, i) = Text(a, o, n + i)
  <2>1. i \in 1..rest /\ i + 1 \in 1..rest /\ n + i \in 1..(Len(o) - 1) /\ n + (i + 1) = (n + i) + 1
    BY <1>0, <1>1, <1>2
  <2> DEFINE x == o[n + i]
             y == o[(n + i) + 1]
  <2>2. x \in Nat /\ y \in Nat /\ x <= y /\ y <= Len(a)
    BY <2>1, ArenaText
  <2>3. end <= x /\ end <= y /\ p[i] = x - end /\ p[i + 1] = y - end
    BY <1>4, <1>5, <2>1
  <2> HIDE DEF x, y
  <2> DEFINE u == x - end
             v == y - end
  <2>4. u \in Nat /\ v \in Nat /\ u <= v /\ la \in Nat /\ v <= la - end /\ end + u = x /\ end + v = y
        /\ end <= la
    BY <1>3, <2>2, <2>3 DEF la
  <2> HIDE DEF u, v
  <2>5. Cut(Cut(a, end, la), u, v) = Cut(a, end + u, end + v)
    BY <1>1, <1>3, <2>4, CutOfCut
  <2>6. Cut(b, u, v) = Cut(a, x, y)
    BY <2>4, <2>5 DEF b
  <2>7. Text(b, p, i) = Cut(b, u, v)
    BY <2>3 DEF Text, u, v
  <2>8. Text(a, o, n + i) = Cut(a, x, y)
    BY DEF Text, x, y
  <2> QED
    BY <2>6, <2>7, <2>8
<1>9. Len(o) - n = rest /\ Len(o) - n - 1 = rest - 1
  BY <1>1 DEF rest
<1> QED
  BY <1>5, <1>7, <1>8, <1>9 DEF b, p, end, la, BackTexts

(* What follows is the same when more precedes.                             *)
LEMMA CutAfter ==
  ASSUME NEW A, NEW b \in Seq(A), NEW c \in Seq(A), NEW i \in Nat, NEW j \in Nat,
         i <= j, j <= Len(c)
  PROVE  Cut(b \o c, Len(b) + i, Len(b) + j) = Cut(c, i, j)
<1> DEFINE d == b \o c
           m == Len(b)
           l == Len(c)
           s == m + i
           e == m + j
<1>1. /\ d \in Seq(A) /\ Len(d) = m + l /\ m \in Nat /\ l \in Nat
      /\ \A n \in 1..l : d[m + n] = c[n]
  BY Concatenated
<1>2. j <= l
  OBVIOUS
<1> HIDE DEF d, m, l
<1>3. s \in Nat /\ e \in Nat /\ s <= e /\ e <= Len(d) /\ e - s = j - i
  BY <1>1, <1>2
<1>4. IsPiece(Cut(c, i, j), A, c, i, j)
  BY CutPiece
<1> HIDE DEF s, e
<1>5. IsPiece(Cut(d, s, e), A, d, s, e)
  BY <1>1, <1>3, CutPiece
<1> DEFINE p == Cut(c, i, j)
           q == Cut(d, s, e)
<1> HIDE DEF p, q
<1>6. p \in Seq(A) /\ q \in Seq(A) /\ Len(p) = j - i /\ Len(q) = j - i
  BY <1>3, <1>4, <1>5 DEF IsPiece, p, q
<1>7. ASSUME NEW n \in 1..Len(p)
      PROVE  p[n] = q[n]
  <2>1. n \in 1..(j - i) /\ i + n \in 1..l
    BY <1>2, <1>1, <1>6
  <2>2. s + n = m + (i + n)
    BY <1>1, <2>1 DEF s
  <2>3. p[n] = c[i + n] /\ q[n] = d[s + n]
    BY <1>3, <1>4, <1>5, <2>1 DEF IsPiece, p, q
  <2> QED
    BY <1>1, <2>1, <2>2, <2>3
<1>8. p = q
  BY <1>6, <1>7, SeqEqual
<1> QED
  BY <1>8 DEF p, q, d, m, s, e

\* The strings of (c, r) are those of (a, o) and then those of (b, p).
BothTexts(c, r, a, o, b, p) ==
  /\ IsArena(c, r) /\ Len(r) = (Len(o) - 1) + Len(p)
  /\ \A i \in 1..(Len(o) - 1) : Text(c, r, i) = Text(a, o, i)
  /\ \A i \in 1..(Len(p) - 1) : Text(c, r, (Len(o) - 1) + i) = Text(b, p, i)

(* Another arena put at the end, its offsets moved.                         *)
LEMMA ArenaJoin ==
  ASSUME NEW a, NEW o, IsArena(a, o), NEW b, NEW p, IsArena(b, p)
  PROVE  BothTexts(a \o b, o \o [i \in 1..(Len(p) - 1) |-> p[i + 1] + Len(a)], a, o, b, p)
<1> DEFINE q == [i \in 1..(Len(p) - 1) |-> p[i + 1] + Len(a)]
           c == a \o b
           r == o \o q
           la == Len(a)
           lb == Len(b)
           h == Len(o) - 1
           m == Len(p) - 1
<1>1. /\ a \in Seq(Nat) /\ o \in Seq(Nat) /\ h \in Nat /\ Len(o) = h + 1 /\ la \in Nat
      /\ o[1] = 0 /\ o[h + 1] = la /\ \A i, j \in 1..(h + 1) : i <= j => o[i] <= o[j]
      /\ \A i \in 1..(h + 1) : o[i] \in Nat
  BY DEF IsArena
<1>2. /\ b \in Seq(Nat) /\ p \in Seq(Nat) /\ m \in Nat /\ Len(p) = m + 1 /\ lb \in Nat
      /\ p[1] = 0 /\ p[m + 1] = lb /\ \A i, j \in 1..(m + 1) : i <= j => p[i] <= p[j]
      /\ \A i \in 1..(m + 1) : p[i] \in Nat
  BY DEF IsArena
<1>3. q = [i \in 1..m |-> p[i + 1] + la]
  OBVIOUS
<1> HIDE DEF q
<1>4. q \in Seq(Nat) /\ Len(q) = m /\ \A i \in 1..m : q[i] = p[i + 1] + la
  <2>1. \A i \in 1..m : p[i + 1] + la \in Nat
    BY <1>1, <1>2
  <2> HIDE DEF m, la
  <2> QED
    BY <1>2, <1>3, <2>1
<1>5. c \in Seq(Nat) /\ Len(c) = la + lb
  BY <1>1, <1>2
<1>6. /\ r \in Seq(Nat) /\ Len(r) = (h + 1) + m
      /\ \A i \in 1..(h + 1) : r[i] = o[i]
      /\ \A i \in 1..m : r[(h + 1) + i] = q[i]
  <2>1. /\ r \in Seq(Nat) /\ Len(r) = Len(o) + Len(q)
        /\ \A i \in 1..Len(o) : r[i] = o[i]
        /\ \A i \in 1..Len(q) : r[Len(o) + i] = q[i]
    <3>1. o \in Seq(Nat) /\ q \in Seq(Nat)
      BY <1>1, <1>4
    <3> QED
      BY ONLY <3>1, Concatenated
  <2>2. Len(o) = h + 1 /\ Len(q) = m
    BY <1>1, <1>4
  <2> HIDE DEF h, m, r
  <2> QED
    BY <2>1, <2>2
<1> HIDE DEF c, r, la, lb, h, m
<1>7. \A i \in 1..(m + 1) : r[h + i] = p[i] + la
  <2> TAKE i \in 1..(m + 1)
  <2>1. CASE i = 1
    <3>1. h + 1 \in 1..(h + 1) /\ i = 1
      BY <1>1, <2>1
    <3> QED
      BY <1>1, <1>2, <1>6, <3>1
  <2>2. CASE i # 1
    <3>1. i - 1 \in 1..m /\ (h + 1) + (i - 1) = h + i /\ (i - 1) + 1 = i
      BY <1>1, <1>2, <2>2
    <3>2. r[(h + 1) + (i - 1)] = q[i - 1] /\ q[i - 1] = p[(i - 1) + 1] + la
      BY <1>4, <1>6, <3>1
    <3> QED
      BY <3>1, <3>2
  <2> QED
    BY <2>1, <2>2
<1>8. \A i \in 1..(h + 1) : o[i] <= la
  <2>1. \A i \in 1..(h + 1) : i <= h + 1 /\ h + 1 \in 1..(h + 1)
    BY <1>1
  <2> QED
    BY <1>1, <2>1
<1>9. IsArena(c, r)
  <2>1. ASSUME NEW i \in 1..Len(r), NEW j \in 1..Len(r), i <= j
        PROVE  r[i] <= r[j]
    <3>1. CASE j \in 1..(h + 1)
      <4>1. i \in 1..(h + 1)
        BY <1>1, <1>6, <2>1, <3>1
      <4> QED
        BY <1>1, <1>6, <2>1, <3>1, <4>1
    <3>2. CASE i \notin 1..h
      <4>1. i - h \in 1..(m + 1) /\ j - h \in 1..(m + 1) /\ h + (i - h) = i /\ h + (j - h) = j
            /\ i - h <= j - h
        BY <1>1, <1>2, <1>6, <2>1, <3>2
      <4>2. r[i] = p[i - h] + la /\ r[j] = p[j - h] + la
        BY <1>7, <4>1
      <4>3. p[i - h] <= p[j - h] /\ p[i - h] \in Nat /\ p[j - h] \in Nat
        BY <1>2, <4>1
      <4> QED
        BY <1>1, <4>2, <4>3
    <3>3. CASE i \in 1..h /\ j \notin 1..(h + 1)
      <4>1. j - h \in 1..(m + 1) /\ h + (j - h) = j /\ i \in 1..(h + 1)
        BY <1>1, <1>2, <1>6, <2>1, <3>3
      <4>2. r[j] = p[j - h] + la /\ p[j - h] \in Nat
        BY <1>2, <1>7, <4>1
      <4>3. r[i] = o[i] /\ o[i] \in Nat /\ o[i] <= la
        BY <1>1, <1>6, <1>8, <4>1
      <4> QED
        BY <1>1, <4>2, <4>3
    <3> QED
      BY <3>1, <3>2, <3>3
  <2>2. Len(r) >= 1 /\ 1 \in 1..(h + 1) /\ m + 1 \in 1..(m + 1) /\ Len(r) = h + (m + 1)
    BY <1>1, <1>2, <1>6
  <2>3. r[1] = 0
    BY <1>1, <1>6, <2>2
  <2>4. r[Len(r)] = Len(c)
    <3>1. r[h + (m + 1)] = p[m + 1] + la
      BY <1>7, <2>2
    <3> QED
      BY <1>1, <1>2, <1>5, <2>2, <3>1
  <2> QED
    BY <1>5, <1>6, <2>1, <2>2, <2>3, <2>4 DEF IsArena
<1>10. ASSUME NEW i \in 1..h
       PROVE  Text(c, r, i) = Text(a, o, i)
  <2>1. i \in 1..(h + 1) /\ i + 1 \in 1..(h + 1) /\ i <= i + 1
    BY <1>1
  <2>2. r[i] = o[i] /\ r[i + 1] = o[i + 1]
    BY <1>6, <2>1
  <2>3. o[i] \in Nat /\ o[i + 1] \in Nat /\ o[i] <= o[i + 1] /\ o[i + 1] <= la
    BY <1>1, <1>8, <2>1
  <2>4. Cut(a \o b, o[i], o[i + 1]) = Cut(a, o[i], o[i + 1])
    BY <1>1, <1>2, <2>3, CutBefore DEF la
  <2> QED
    BY <2>2, <2>4 DEF Text, c
<1>11. ASSUME NEW i \in 1..m
       PROVE  Text(c, r, h + i) = Text(b, p, i)
  <2>1. i \in 1..(m + 1) /\ i + 1 \in 1..(m + 1) /\ i <= i + 1 /\ (h + i) + 1 = h + (i + 1)
        /\ m + 1 \in 1..(m + 1) /\ i + 1 <= m + 1
    BY <1>1, <1>2
  <2>2. r[h + i] = p[i] + la /\ r[(h + i) + 1] = p[i + 1] + la
    BY <1>7, <2>1
  <2> DEFINE x == p[i]
             y == p[i + 1]
  <2>3. x \in Nat /\ y \in Nat /\ x <= y /\ y <= lb
    BY <1>2, <2>1
  <2> HIDE DEF x, y
  <2>4. Cut(a \o b, Len(a) + x, Len(a) + y) = Cut(b, x, y)
    BY <1>1, <1>2, <2>3, CutAfter DEF lb
  <2>5. r[h + i] = la + x /\ r[(h + i) + 1] = la + y
    BY <1>1, <2>2, <2>3 DEF x, y
  <2> QED
    BY <2>4, <2>5 DEF Text, c, la, x, y
<1>12. Len(r) = h + Len(p)
  BY <1>1, <1>2, <1>6
<1> QED
  BY <1>9, <1>10, <1>11, <1>12 DEF BothTexts, c, r, q, h, m

-----------------------------------------------------------------------------
(* Counting what is clear among the first bits.                            *)

\* The positions of the nulls among the first n bits.
Clear(bits, n) == {i \in 1..n : ~bits[i]}

LEMMA ClearFinite ==
  ASSUME NEW bits, NEW n \in Nat
  PROVE  IsFiniteSet(Clear(bits, n)) /\ Cardinality(Clear(bits, n)) \in Nat
<1>1. IsFiniteSet(1..n)
  BY FS_Interval
<1>2. Clear(bits, n) \subseteq 1..n
  BY DEF Clear
<1>3. IsFiniteSet(Clear(bits, n))
  BY <1>1, <1>2, FS_Subset
<1> QED
  BY <1>3, FS_CardinalityType

(* One more bit adds itself to the nulls, if it is clear.                   *)
LEMMA ClearGrows ==
  ASSUME NEW bits, NEW more, NEW n \in Nat, \A i \in 1..n : more[i] = bits[i]
  PROVE  Cardinality(Clear(more, n + 1)) =
           IF more[n + 1] THEN Cardinality(Clear(bits, n)) ELSE Cardinality(Clear(bits, n)) + 1
<1>1. IsFiniteSet(Clear(bits, n)) /\ n + 1 \notin Clear(bits, n)
  BY ClearFinite DEF Clear
<1>2. CASE more[n + 1]
  <2>1. Clear(more, n + 1) = Clear(bits, n)
    BY <1>2 DEF Clear
  <2> QED
    BY <1>2, <2>1
<1>3. CASE ~ more[n + 1]
  <2>1. Clear(more, n + 1) = Clear(bits, n) \cup {n + 1}
    BY <1>3 DEF Clear
  <2>2. Cardinality(Clear(bits, n) \cup {n + 1}) = Cardinality(Clear(bits, n)) + 1
    BY <1>1, FS_AddElement
  <2> QED
    BY <1>3, <2>1, <2>2
<1> QED
  BY <1>2, <1>3

(* The nulls of the parts add up.                                           *)
LEMMA ClearAdds ==
  ASSUME NEW n \in Nat, NEW m \in Nat, NEW all, NEW a, NEW b,
         \A i \in 1..n : all[i] = a[i], \A i \in 1..m : all[n + i] = b[i]
  PROVE  Cardinality(Clear(all, n + m)) =
           Cardinality(Clear(a, n)) + Cardinality(Clear(b, m))
<1> DEFINE C(s, k) == Cardinality(Clear(s, k))
           K == {k \in 0..m : C(all, n + k) = C(a, n) + C(b, k)}
<1>1. 0 \in K
  <2>1. Clear(all, n + 0) = Clear(a, n) /\ n + 0 = n
    BY DEF Clear
  <2>2. Clear(b, 0) = {}
    BY DEF Clear
  <2>3. C(b, 0) = 0 /\ C(a, n) \in Nat
    BY <2>2, FS_EmptySet, ClearFinite
  <2> HIDE DEF C
  <2>4. C(all, n + 0) = C(a, n)
    BY <2>1 DEF C
  <2> QED
    BY <2>3, <2>4
<1>2. ASSUME NEW k \in Nat, k < m, k \in K
      PROVE  k + 1 \in K
  <2> DEFINE j == n + k
  <2>1. j \in Nat /\ k + 1 \in 1..m /\ n + (k + 1) = j + 1 /\ k + 1 \in 0..m
    BY <1>2
  <2>2. C(all, j + 1) = IF all[j + 1] THEN C(all, j) ELSE C(all, j) + 1
    BY <2>1, ClearGrows
  <2>3. C(b, k + 1) = IF b[k + 1] THEN C(b, k) ELSE C(b, k) + 1
    BY <2>1, ClearGrows
  <2>4. all[j + 1] = b[k + 1]
    BY <2>1
  <2>5. C(all, j) = C(a, n) + C(b, k)
    BY <1>2
  <2>6. C(a, n) \in Nat /\ C(b, k) \in Nat
    BY ClearFinite
  <2> HIDE DEF C, j
  <2>7. C(all, j + 1) = C(a, n) + C(b, k + 1)
    BY <2>2, <2>3, <2>4, <2>5, <2>6
  <2> QED
    BY <2>1, <2>7
<1> HIDE DEF K
<1>3. \A k \in 0..m : k \in K
  BY <1>1, <1>2, IntervalInduction
<1>4. m \in K
  BY <1>3
<1> QED
  BY <1>4 DEF K
=============================================================================
