---------------------------- MODULE AssemblyProofs ----------------------------
(***************************************************************************)
(* Proofs about Columns and Assembly, for every width of a bitmap's words, *)
(* every plan and every input: what each operation of a column does to its *)
(* cells, that it keeps the column's representation, also when             *)
(* dictionaries are unified, and that the builders hold the accepted cells *)
(* until they are exported, and what makes a run end in an error.          *)
(***************************************************************************)
EXTENDS Assembly, Induction, TLAPS

-----------------------------------------------------------------------------
(* Words of a bitmap.                                                      *)

(* A number is its words and a rest of less than one word.                  *)
LEMMA WordFacts ==
  ASSUME NEW a \in Nat
  PROVE  /\ a % WordBits \in 0..(WordBits - 1) /\ a \div WordBits \in Nat
         /\ a = WordBits * (a \div WordBits) + (a % WordBits)
BY ColumnsAssumption

(* A multiple of the word size determines the next one.                     *)
LEMMA SameWord ==
  ASSUME NEW p \in Nat, NEW q \in Nat,
         WordBits * p <= WordBits * q, WordBits * q < WordBits * p + WordBits
  PROVE  p = q
<1>1. WordBits \in Nat /\ WordBits > 0
  BY ColumnsAssumption
<1>2. CASE q < p
  <2>1. WordBits * (p - q) > 0
    BY <1>1, <1>2
  <2> QED
    BY <1>1, <1>2, <2>1
<1>3. CASE p < q
  <2>1. q - p - 1 \in Nat
    BY <1>3
  <2>2. WordBits * (q - p - 1) >= 0
    BY <1>1, <2>1
  <2> QED
    BY <1>1, <1>3, <2>2
<1> QED
  BY <1>2, <1>3

(* Two multiples of a word less than a word apart are one.                  *)
LEMMA AlignedMeet ==
  ASSUME NEW a \in Nat, NEW b \in Nat, a % WordBits = 0, b % WordBits = 0,
         a <= b, b < a + WordBits
  PROVE  a = b
<1> DEFINE p == a \div WordBits
           q == b \div WordBits
<1>1. WordBits \in Nat /\ p \in Nat /\ q \in Nat /\ a = WordBits * p /\ b = WordBits * q
  <2>1. WordBits \in Nat
    BY ColumnsAssumption
  <2>2. p \in Nat /\ a = WordBits * p + (a % WordBits)
    BY WordFacts
  <2>3. q \in Nat /\ b = WordBits * q + (b % WordBits)
    BY WordFacts
  <2> HIDE DEF p, q
  <2>4. WordBits * p \in Nat /\ WordBits * q \in Nat
    BY <2>1, <2>2, <2>3
  <2> QED
    BY <2>1, <2>2, <2>3, <2>4
<1> HIDE DEF p, q
<1>2. WordBits * p <= WordBits * q /\ WordBits * q < WordBits * p + WordBits
  BY <1>1
<1>3. p = q
  BY <1>1, <1>2, SameWord
<1> QED
  BY <1>1, <1>3

LEMMA ModWord ==
  ASSUME NEW a \in Nat
  PROVE  (a + WordBits) % WordBits = a % WordBits
<1> DEFINE c == a + WordBits
           p == a \div WordBits
           q == c \div WordBits
           r == a % WordBits
           s == c % WordBits
<1>1. WordBits \in Nat /\ WordBits > 0 /\ c \in Nat
  BY ColumnsAssumption
<1>2. /\ p \in Nat /\ r \in 0..(WordBits - 1) /\ a = WordBits * p + r
  BY WordFacts
<1>3. /\ q \in Nat /\ s \in 0..(WordBits - 1) /\ c = WordBits * q + s
  BY <1>1, WordFacts
<1>4. c = a + WordBits
  OBVIOUS
<1> HIDE DEF c, p, q, r, s
<1>5. WordBits * (p + 1) = WordBits * p + WordBits /\ p + 1 \in Nat
  BY <1>1, <1>2
<1>6. WordBits * q + s = WordBits * (p + 1) + r
  BY <1>1, <1>2, <1>3, <1>4, <1>5
<1>7. q = p + 1
  <2> DEFINE u == p + 1
  <2> HIDE DEF u
  <2>1. u \in Nat /\ WordBits * q + s = WordBits * u + r
    BY <1>5, <1>6 DEF u
  <2>2. WordBits * q \in Nat /\ WordBits * u \in Nat
    BY <1>1, <1>3, <2>1
  <2>3. CASE WordBits * u <= WordBits * q
    <3>1. WordBits * q < WordBits * u + WordBits
      BY <1>1, <1>2, <1>3, <2>1, <2>2
    <3> QED
      BY <1>3, <2>1, <2>3, <3>1, SameWord DEF u
  <2>4. CASE ~ WordBits * u <= WordBits * q
    <3>1. WordBits * q <= WordBits * u /\ WordBits * u < WordBits * q + WordBits
      BY <1>1, <1>2, <1>3, <2>1, <2>2, <2>4
    <3> QED
      BY <1>3, <2>1, <3>1, SameWord DEF u
  <2> QED
    BY <2>3, <2>4
<1>8. r = s
  BY <1>1, <1>2, <1>3, <1>5, <1>6, <1>7
<1> QED
  BY <1>8 DEF c, r, s

(* Adding or taking a word keeps a length a multiple of words.              *)
LEMMA AlignedSteps ==
  /\ 0 % WordBits = 0
  /\ \A a \in Nat : a % WordBits = 0 => (a + WordBits) % WordBits = 0
  /\ \A a \in Nat : (a + WordBits) % WordBits = 0 => a % WordBits = 0
<1>1. 0 % WordBits = 0
  BY ColumnsAssumption
<1> QED
  BY <1>1, ModWord

-----------------------------------------------------------------------------
(* Bitmaps.                                                                *)

Bitmaps == {b \in [bits : Seq(BOOLEAN), len : Nat, null_count : Nat] : BitsOK(b)}

(* What a sound bitmap is.                                                  *)
LEMMA BitmapFacts ==
  ASSUME NEW b \in Bitmaps
  PROVE  /\ b.bits \in Seq(BOOLEAN) /\ b.len \in Nat /\ b.null_count \in Nat
         /\ b = [bits |-> b.bits, len |-> b.len, null_count |-> b.null_count]
         /\ Len(b.bits) \in Nat /\ Len(b.bits) % WordBits = 0
         /\ b.len <= Len(b.bits) /\ Len(b.bits) < b.len + WordBits
         /\ \A i \in (b.len + 1)..Len(b.bits) : ~ b.bits[i]
         /\ b.null_count = Cardinality(Clear(b.bits, b.len))
         /\ b.len % WordBits = 0 => Len(b.bits) = b.len
         /\ b.len % WordBits # 0 => Len(b.bits) > b.len
         /\ \A i \in 1..b.len : is_valid(b, i) = b.bits[i] /\ b.bits[i] \in BOOLEAN
<1>1. /\ b.bits \in Seq(BOOLEAN) /\ b.len \in Nat /\ b.null_count \in Nat
      /\ b = [bits |-> b.bits, len |-> b.len, null_count |-> b.null_count]
      /\ BitsOK(b)
  BY DEF Bitmaps
<1>2. /\ Len(b.bits) \in Nat /\ Len(b.bits) % WordBits = 0
      /\ b.len <= Len(b.bits) /\ Len(b.bits) < b.len + WordBits
      /\ \A i \in (b.len + 1)..Len(b.bits) : ~ b.bits[i]
      /\ b.null_count = Cardinality(Clear(b.bits, b.len))
  BY <1>1, ColumnsAssumption DEF BitsOK, Clear
<1>3. b.len % WordBits = 0 => Len(b.bits) = b.len
  BY <1>1, <1>2, AlignedMeet
<1>4. b.len % WordBits # 0 => Len(b.bits) > b.len
  BY <1>1, <1>2
<1>5. \A i \in 1..b.len : is_valid(b, i) = b.bits[i] /\ b.bits[i] \in BOOLEAN
  <2>1. ASSUME NEW i \in 1..b.len
        PROVE  b.bits[i] \in BOOLEAN /\ i <= b.len
    BY <1>1, <1>2
  <2> QED
    BY <2>1 DEF is_valid
<1> QED
  BY <1>1, <1>2, <1>3, <1>4, <1>5

LEMMA NoBitsOK == NoBits \in Bitmaps /\ NoBits.len = 0
<1>1. 0 % WordBits = 0 /\ WordBits \in Nat /\ WordBits > 0
  BY AlignedSteps, ColumnsAssumption
<1>2. {i \in 1..0 : ~ <<>>[i]} = {}
  OBVIOUS
<1>3. Cardinality({i \in 1..0 : ~ <<>>[i]}) = 0
  BY <1>2, FS_EmptySet
<1> DEFINE b == NoBits
<1>4. b.bits = <<>> /\ b.len = 0 /\ b.null_count = 0
  BY DEF NoBits
<1>5. b \in [bits : Seq(BOOLEAN), len : Nat, null_count : Nat]
  BY DEF NoBits
<1> HIDE DEF b
<1>6. Len(b.bits) = 0
  BY <1>4
<1>7. BitsOK(b)
  <2>1. b.null_count = Cardinality({i \in 1..b.len : ~ b.bits[i]})
    BY <1>3, <1>4
  <2> QED
    BY <1>1, <1>4, <1>6, <2>1 DEF BitsOK
<1> QED
  BY <1>4, <1>5, <1>7 DEF Bitmaps, b

(* A bit more.                                                              *)
OneMore(t, b, valid) ==
  /\ t \in Bitmaps /\ t.len = b.len + 1
  /\ \A i \in 1..b.len : is_valid(t, i) = is_valid(b, i)
  /\ is_valid(t, b.len + 1) = valid

(* push adds a word when the last one is full, and sets one bit.            *)
LEMMA PushBit ==
  ASSUME NEW b \in Bitmaps, NEW valid \in BOOLEAN
  PROVE  OneMore(BitsPush(b, valid), b, valid)
<1> DEFINE n == b.len
           word == [i \in 1..WordBits |-> FALSE]
           room == IF n % WordBits = 0 THEN b.bits \o word ELSE b.bits
           bits == [room EXCEPT ![n + 1] = room[n + 1] \/ valid]
           nulls == IF valid THEN b.null_count ELSE b.null_count + 1
           t == BitsPush(b, valid)
<1>1. /\ b.bits \in Seq(BOOLEAN) /\ n \in Nat /\ b.null_count \in Nat
      /\ Len(b.bits) \in Nat /\ Len(b.bits) % WordBits = 0
      /\ n <= Len(b.bits) /\ Len(b.bits) < n + WordBits
      /\ \A i \in (n + 1)..Len(b.bits) : ~ b.bits[i]
      /\ b.null_count = Cardinality(Clear(b.bits, n))
      /\ n % WordBits = 0 => Len(b.bits) = n
      /\ n % WordBits # 0 => Len(b.bits) > n
      /\ \A i \in 1..n : is_valid(b, i) = b.bits[i] /\ b.bits[i] \in BOOLEAN
  BY BitmapFacts
<1>2. WordBits \in Nat /\ WordBits > 0
  BY ColumnsAssumption
<1>3. word \in Seq(BOOLEAN) /\ Len(word) = WordBits /\ \A i \in 1..WordBits : word[i] = FALSE
  BY <1>2
<1>4. t = [bits |-> bits, len |-> n + 1, null_count |-> nulls]
  BY DEF BitsPush
<1> HIDE DEF word, t, n
<1>5. /\ room \in Seq(BOOLEAN) /\ Len(room) % WordBits = 0
      /\ n + 1 <= Len(room) /\ Len(room) < n + 1 + WordBits
      /\ \A i \in 1..n : room[i] = b.bits[i]
      /\ \A i \in (n + 1)..Len(room) : room[i] = FALSE
  <2>1. CASE n % WordBits = 0
    <3>1. /\ room = b.bits \o word /\ room \in Seq(BOOLEAN)
          /\ Len(room) = n + WordBits
          /\ \A i \in 1..(n + WordBits) :
               room[i] = IF i <= n THEN b.bits[i] ELSE word[i - n]
      <4> DEFINE x == b.bits
      <4>1. x \in Seq(BOOLEAN) /\ word \in Seq(BOOLEAN)
        BY <1>1, <1>3
      <4> HIDE DEF x
      <4>2. /\ x \o word \in Seq(BOOLEAN) /\ Len(x \o word) = Len(x) + Len(word)
            /\ \A i \in 1..(Len(x) + Len(word)) :
                 (x \o word)[i] = IF i <= Len(x) THEN x[i] ELSE word[i - Len(x)]
        BY <4>1, ConcatProperties
      <4>3. Len(x) = n /\ Len(word) = WordBits /\ room = x \o word
        BY <1>1, <1>3, <2>1 DEF x
      <4> HIDE DEF room
      <4> QED
        BY <4>2, <4>3 DEF x
    <3>2. (n + WordBits) % WordBits = 0
      BY <1>1, <2>1, AlignedSteps
    <3>3. ASSUME NEW i \in 1..n
          PROVE  room[i] = b.bits[i]
      <4>1. i \in 1..(n + WordBits) /\ i <= n
        BY <1>1, <1>2
      <4> QED
        BY <3>1, <4>1
    <3>4. ASSUME NEW i \in (n + 1)..Len(room)
          PROVE  room[i] = FALSE
      <4>1. i \in 1..(n + WordBits) /\ ~ (i <= n) /\ i - n \in 1..WordBits
        BY <1>1, <1>2, <3>1
      <4> QED
        BY <1>3, <3>1, <4>1
    <3> HIDE DEF room
    <3>5. Len(room) % WordBits = 0 /\ n + 1 <= Len(room) /\ Len(room) < n + 1 + WordBits
      BY <1>1, <1>2, <3>1, <3>2
    <3> QED
      BY <3>1, <3>3, <3>4, <3>5
  <2>2. CASE n % WordBits # 0
    <3>1. room = b.bits
      BY <2>2
    <3> HIDE DEF room
    <3>2. \A i \in (n + 1)..Len(b.bits) : b.bits[i] = FALSE
      <4>1. \A i \in (n + 1)..Len(b.bits) : b.bits[i] \in BOOLEAN
        BY <1>1
      <4> QED
        BY <1>1, <4>1
    <3> DEFINE x == b.bits
    <3>3. Len(x) \in Nat /\ Len(x) > n /\ Len(x) < n + WordBits /\ Len(x) % WordBits = 0
      BY <1>1, <2>2
    <3>4. x \in Seq(BOOLEAN) /\ room = x /\ \A i \in (n + 1)..Len(x) : x[i] = FALSE
      BY <1>1, <3>1, <3>2
    <3>5. n + 1 <= Len(x) /\ Len(x) < n + 1 + WordBits
      BY <1>1, <1>2, <3>3
    <3> HIDE DEF x
    <3> QED
      BY <3>3, <3>4, <3>5 DEF x
  <2> QED
    BY <2>1, <2>2
<1> HIDE DEF room
<1>6. /\ bits \in Seq(BOOLEAN) /\ Len(bits) = Len(room)
      /\ \A i \in 1..n : bits[i] = b.bits[i]
      /\ bits[n + 1] = valid
      /\ \A i \in (n + 2)..Len(bits) : ~ bits[i]
  <2>1. n + 1 \in 1..Len(room) /\ room[n + 1] = FALSE
    BY <1>1, <1>5
  <2>2. bits \in Seq(BOOLEAN) /\ Len(bits) = Len(room) /\ bits[n + 1] = valid
    BY <1>5, <2>1
  <2>3. ASSUME NEW i \in 1..Len(room), i # n + 1
        PROVE  bits[i] = room[i]
    BY <1>5, <2>3
  <2>4. ASSUME NEW i \in 1..n
        PROVE  bits[i] = b.bits[i]
    <3>1. i \in 1..Len(room) /\ i # n + 1
      BY <1>1, <2>1
    <3> QED
      BY <1>5, <2>3, <3>1
  <2>5. ASSUME NEW i \in (n + 2)..Len(bits)
        PROVE  ~ bits[i]
    <3>1. i \in 1..Len(room) /\ i # n + 1 /\ i \in (n + 1)..Len(room)
      BY <1>1, <2>2
    <3> QED
      BY <1>5, <2>3, <3>1
  <2> HIDE DEF bits
  <2> QED
    BY <2>2, <2>4, <2>5
<1> HIDE DEF bits
<1>7. nulls = Cardinality(Clear(bits, n + 1)) /\ nulls \in Nat
  <2>1. \A i \in 1..n : bits[i] = b.bits[i]
    BY <1>6
  <2>2. Cardinality(Clear(bits, n + 1)) =
          IF bits[n + 1] THEN Cardinality(Clear(b.bits, n)) ELSE Cardinality(Clear(b.bits, n)) + 1
    BY <1>1, <2>1, ClearGrows
  <2> QED
    BY <1>1, <1>6, <2>2
<1> HIDE DEF nulls
<1>8. t.bits = bits /\ t.len = n + 1 /\ t.null_count = nulls
  BY <1>4
<1>9. BitsOK(t)
  <2>1. \A i \in (n + 1 + 1)..Len(bits) : ~ bits[i]
    BY <1>1, <1>6
  <2> QED
    BY <1>1, <1>2, <1>5, <1>6, <1>7, <1>8, <2>1 DEF BitsOK, Clear
<1>10. t \in Bitmaps
  BY <1>1, <1>4, <1>6, <1>7, <1>9 DEF Bitmaps
<1>11. \A i \in 1..n : is_valid(t, i) = is_valid(b, i)
  <2>1. ASSUME NEW i \in 1..n
        PROVE  is_valid(t, i) = is_valid(b, i)
    <3>1. i \in 1..(n + 1)
      BY <1>1
    <3>2. is_valid(t, i) = bits[i]
      BY <1>8, <1>10, <3>1, BitmapFacts
    <3> QED
      BY <1>1, <1>6, <3>2
  <2> QED
    BY <2>1
<1>12. is_valid(t, n + 1) = valid
  <2>1. n + 1 \in 1..(n + 1)
    BY <1>1
  <2> QED
    BY <1>6, <1>8, <1>10, <2>1, BitmapFacts
<1> QED
  BY <1>8, <1>10, <1>11, <1>12 DEF n, t, OneMore

(* The last bit goes.                                                       *)
OneLess(t, b) ==
  /\ t \in Bitmaps /\ t.len = b.len - 1
  /\ \A i \in 1..(b.len - 1) : is_valid(t, i) = is_valid(b, i)

(* pop clears the bit, so no stale bit is found by the next push.           *)
LEMMA PopBit ==
  ASSUME NEW b \in Bitmaps, b.len > 0
  PROVE  OneLess(BitsPop(b), b)
<1> DEFINE x == b.bits
           n == b.len - 1
           cleared == [x EXCEPT ![n + 1] = FALSE]
           short == SubSeq(cleared, 1, Len(cleared) - WordBits)
           bits == IF n % WordBits = 0 THEN short ELSE cleared
           nulls == IF x[n + 1] THEN b.null_count ELSE b.null_count - 1
           t == BitsPop(b)
<1>1. /\ x \in Seq(BOOLEAN) /\ n \in Nat /\ b.len = n + 1 /\ b.null_count \in Nat
      /\ Len(x) \in Nat /\ Len(x) % WordBits = 0
      /\ n + 1 <= Len(x) /\ Len(x) < n + 1 + WordBits
      /\ \A i \in (n + 1 + 1)..Len(x) : ~ x[i]
      /\ b.null_count = Cardinality(Clear(x, n + 1))
      /\ \A i \in 1..(n + 1) : is_valid(b, i) = x[i] /\ x[i] \in BOOLEAN
  <2>1. b.len = (b.len - 1) + 1 /\ b.len - 1 \in Nat
    BY BitmapFacts
  <2> QED
    BY <2>1, BitmapFacts
<1>2. WordBits \in Nat /\ WordBits > 0
  BY ColumnsAssumption
<1>3. t = [bits |-> bits, len |-> n, null_count |-> nulls]
  <2>1. b = [bits |-> x, len |-> b.len, null_count |-> b.null_count]
    BY BitmapFacts
  <2>2. n + 1 = b.len /\ b.len # 0
    BY <1>1
  <2> QED
    BY <2>1, <2>2 DEF BitsPop
<1> HIDE DEF t, n, x
<1>4. /\ cleared \in Seq(BOOLEAN) /\ Len(cleared) = Len(x)
      /\ \A i \in 1..n : cleared[i] = x[i]
      /\ \A i \in (n + 1)..Len(x) : ~ cleared[i]
  <2>1. n + 1 \in 1..Len(x)
    BY <1>1
  <2>2. cleared \in Seq(BOOLEAN) /\ Len(cleared) = Len(x) /\ cleared[n + 1] = FALSE
    BY <1>1, <2>1
  <2>3. ASSUME NEW i \in 1..Len(x), i # n + 1
        PROVE  cleared[i] = x[i]
    BY <1>1, <2>3
  <2> HIDE DEF cleared
  <2>4. ASSUME NEW i \in 1..n
        PROVE  cleared[i] = x[i]
    <3>1. i \in 1..Len(x) /\ i # n + 1
      BY <1>1
    <3> QED
      BY <2>3, <3>1
  <2>5. ASSUME NEW i \in (n + 1)..Len(x)
        PROVE  ~ cleared[i]
    <3>1. CASE i = n + 1
      BY <2>2, <3>1
    <3>2. CASE i # n + 1
      <4>1. i \in 1..Len(x) /\ i \in (n + 1 + 1)..Len(x)
        BY <1>1, <3>2
      <4> QED
        BY <1>1, <2>3, <3>2, <4>1
    <3> QED
      BY <3>1, <3>2
  <2> QED
    BY <2>2, <2>4, <2>5
<1> HIDE DEF cleared
<1>5. /\ bits \in Seq(BOOLEAN) /\ Len(bits) % WordBits = 0
      /\ n <= Len(bits) /\ Len(bits) < n + WordBits /\ Len(bits) <= Len(x)
      /\ \A i \in 1..Len(bits) : bits[i] = cleared[i]
  <2>1. CASE n % WordBits = 0
    <3>1. Len(x) = n + WordBits
      <4>1. CASE Len(x) < n + WordBits
        <5>1. n = Len(x)
          BY <1>1, <2>1, <4>1, AlignedMeet
        <5> QED
          BY <1>1, <5>1
      <4> QED
        BY <1>1, <1>2, <4>1
    <3>2. Len(cleared) - WordBits = n /\ n \in Nat /\ n <= Len(cleared)
      BY <1>1, <1>2, <1>4, <3>1
    <3>3. short = Cut(cleared, 0, n)
      BY <3>2 DEF Cut
    <3>5. bits = short
      BY <2>1
    <3> HIDE DEF bits, short
    <3>4. /\ short \in Seq(BOOLEAN) /\ Len(short) = n
          /\ \A i \in 1..n : short[i] = cleared[i]
      BY <1>4, <3>2, <3>3, CutFront
    <3>6. Len(bits) = n /\ \A i \in 1..n : bits[i] = cleared[i]
      BY <1>1, <3>4, <3>5
    <3> QED
      BY <1>1, <1>2, <2>1, <3>1, <3>4, <3>5, <3>6
  <2>2. CASE n % WordBits # 0
    <3>1. bits = cleared
      BY <2>2
    <3>2. (n + WordBits) % WordBits # 0
      BY <1>1, <2>2, ModWord
    <3>3. Len(x) # n + WordBits
      BY <1>1, <3>2
    <3> HIDE DEF bits
    <3>4. n <= Len(x) /\ Len(x) < n + WordBits
      BY <1>1, <1>2, <3>3
    <3> QED
      BY <1>1, <1>4, <3>1, <3>4
  <2> QED
    BY <2>1, <2>2
<1> HIDE DEF bits, short
<1>6. Cardinality(Clear(x, n + 1)) =
        IF x[n + 1] THEN Cardinality(Clear(bits, n)) ELSE Cardinality(Clear(bits, n)) + 1
  <2>1. \A i \in 1..n : x[i] = bits[i]
    <3>1. \A i \in 1..n : i \in 1..Len(bits)
      BY <1>1, <1>5
    <3> QED
      BY <1>4, <1>5, <3>1
  <2> QED
    BY <1>1, <2>1, ClearGrows
<1>7. nulls = Cardinality(Clear(bits, n)) /\ nulls \in Nat
  <2>1. Cardinality(Clear(bits, n)) \in Nat
    BY <1>1, ClearFinite
  <2>2. x[n + 1] \in BOOLEAN
    <3>1. n + 1 \in 1..(n + 1)
      BY <1>1
    <3> QED
      BY <1>1, <3>1
  <2> QED
    BY <1>1, <1>6, <2>1, <2>2
<1> HIDE DEF nulls
<1>8. t.bits = bits /\ t.len = n /\ t.null_count = nulls
  BY <1>3
<1>9. BitsOK(t)
  <2>1. \A i \in (n + 1)..Len(bits) : ~ bits[i]
    <3>1. \A i \in (n + 1)..Len(bits) : i \in 1..Len(bits) /\ i \in (n + 1)..Len(x)
      BY <1>1, <1>5
    <3> QED
      BY <1>4, <1>5, <3>1
  <2> QED
    BY <1>5, <1>7, <1>8, <2>1 DEF BitsOK, Clear
<1>10. t \in Bitmaps
  BY <1>1, <1>3, <1>5, <1>7, <1>9 DEF Bitmaps
<1>11. \A i \in 1..n : is_valid(t, i) = is_valid(b, i)
  <2>1. ASSUME NEW i \in 1..n
        PROVE  is_valid(t, i) = is_valid(b, i)
    <3>1. i \in 1..(n + 1) /\ i \in 1..Len(bits)
      BY <1>1, <1>5
    <3>2. is_valid(t, i) = bits[i]
      BY <1>8, <1>10, BitmapFacts
    <3> QED
      BY <1>1, <1>4, <1>5, <3>1, <3>2
  <2> QED
    BY <2>1
<1> QED
  BY <1>1, <1>8, <1>10, <1>11 DEF n, t, OneLess

(* Bits pushed one at a time.                                               *)
IsPushing(b, valid, run) ==
  /\ run[0] = b
  /\ \A i \in 1..Len(valid) : run[i] = BitsPush(run[i - 1], valid[i])
  /\ BitsPushAll(b, valid) = run[Len(valid)]

LEMMA PushingExists ==
  ASSUME NEW b \in Bitmaps, NEW valid \in Seq(BOOLEAN)
  PROVE  \E run : IsPushing(b, valid, run)
<1> DEFINE top == Len(valid)
           Eqn(r) == r = [i \in 0..top |-> IF i = 0 THEN b ELSE BitsPush(r[i - 1], valid[i])]
           step == [i \in 1..top |-> [x \in Bitmaps |-> BitsPush(x, valid[i])]]
<1>1. top \in Nat
  OBVIOUS
<1>2. step \in Steps(top, Bitmaps)
  <2>1. ASSUME NEW i \in 1..top, NEW x \in Bitmaps
        PROVE  BitsPush(x, valid[i]) \in Bitmaps
    <3>1. valid[i] \in BOOLEAN
      OBVIOUS
    <3> QED
      BY <3>1, PushBit DEF OneMore
  <2> QED
    BY <2>1 DEF Steps
<1> HIDE DEF top, step
<1>3. PICK g : IsRecursion(g, top, Bitmaps, b, step)
  BY <1>1, <1>2, RecursionExists
<1>4. Eqn(g)
  <2>1. ASSUME NEW i \in 0..top
        PROVE  g[i] = IF i = 0 THEN b ELSE BitsPush(g[i - 1], valid[i])
    <3>1. CASE i = 0
      BY <1>3, <3>1 DEF IsRecursion
    <3>2. CASE i # 0
      <4>0. i \in 1..top /\ i - 1 \in 0..top
        BY <1>1, <3>2
      <4>1. g[i - 1] \in Bitmaps
        BY <1>3, <4>0 DEF IsRecursion
      <4>2. g[i] = step[i][g[i - 1]]
        BY <1>3, <4>0 DEF IsRecursion
      <4> QED
        BY <3>2, <4>0, <4>1, <4>2 DEF step
    <3> QED
      BY <3>1, <3>2
  <2>2. g = [i \in 0..top |-> g[i]]
    BY <1>3 DEF IsRecursion
  <2> QED
    BY <2>1, <2>2
<1> DEFINE run == CHOOSE r : Eqn(r)
<1>5. Eqn(run)
  BY <1>4
<1>6. BitsPushAll(b, valid) = run[top]
  BY DEF BitsPushAll, top
<1> HIDE DEF run
<1>7. run[0] = b
  BY <1>1, <1>5
<1>8. \A i \in 1..top : run[i] = BitsPush(run[i - 1], valid[i])
  BY <1>1, <1>5
<1>9. IsPushing(b, valid, run)
  BY <1>6, <1>7, <1>8 DEF IsPushing, top
<1> QED
  BY <1>9

(* Bits pushed one after the other are there in order.                      *)
LEMMA PushBits ==
  ASSUME NEW b \in Bitmaps, NEW valid \in Seq(BOOLEAN)
  PROVE  /\ BitsPushAll(b, valid) \in Bitmaps
         /\ BitsPushAll(b, valid).len = b.len + Len(valid)
         /\ \A i \in 1..b.len : is_valid(BitsPushAll(b, valid), i) = is_valid(b, i)
         /\ \A i \in 1..Len(valid) : is_valid(BitsPushAll(b, valid), b.len + i) = valid[i]
<1> DEFINE top == Len(valid)
           Pushed(t, k) ==
             /\ t \in Bitmaps /\ t.len = b.len + k
             /\ \A i \in 1..b.len : is_valid(t, i) = is_valid(b, i)
             /\ \A i \in 1..k : is_valid(t, b.len + i) = valid[i]
<1>1. PICK run : IsPushing(b, valid, run)
  BY PushingExists
<1>2. top \in Nat /\ b.len \in Nat
  BY BitmapFacts
<1> DEFINE S == {k \in 0..top : Pushed(run[k], k)}
<1>3. 0 \in S
  BY <1>1, <1>2 DEF IsPushing
<1>4. ASSUME NEW k \in Nat, k < top, k \in S
      PROVE  k + 1 \in S
  <2> DEFINE t == run[k]
             v == valid[k + 1]
             u == BitsPush(t, v)
  <2>1. Pushed(t, k)
    BY <1>4
  <2>2. k + 1 \in 1..top /\ (k + 1) - 1 = k /\ v \in BOOLEAN
    BY <1>2, <1>4
  <2>3. run[k + 1] = u
    BY <1>1, <2>2 DEF IsPushing
  <2>9. t \in Bitmaps
    BY <2>1
  <2> HIDE DEF t, v
  <2>10. OneMore(u, t, v)
    BY <2>2, <2>9, PushBit
  <2> HIDE DEF u
  <2>4. /\ u \in Bitmaps /\ u.len = t.len + 1
        /\ \A i \in 1..t.len : is_valid(u, i) = is_valid(t, i)
        /\ is_valid(u, t.len + 1) = valid[k + 1]
    BY <2>10 DEF OneMore, v
  <2> DEFINE m == b.len
  <2> HIDE DEF m
  <2>5. t.len = m + k /\ u.len = m + (k + 1)
    <3>1. t.len = m + k /\ u.len = t.len + 1 /\ m \in Nat
      BY <1>2, <2>1, <2>4 DEF m
    <3> QED
      BY <3>1
  <2> USE DEF m
  <2>6. ASSUME NEW i \in 1..b.len
        PROVE  is_valid(u, i) = is_valid(b, i)
    <3>1. i \in 1..t.len
      BY <1>2, <2>5
    <3> QED
      BY <2>1, <2>4, <3>1
  <2>7. ASSUME NEW i \in 1..(k + 1)
        PROVE  is_valid(u, b.len + i) = valid[i]
    <3>1. CASE i = k + 1
      <4>1. b.len + i = t.len + 1
        BY <1>2, <2>5, <3>1
      <4> QED
        BY <2>4, <3>1, <4>1
    <3>2. CASE i # k + 1
      <4>1. i \in 1..k /\ b.len + i \in 1..t.len
        BY <1>2, <2>5, <3>2
      <4> QED
        BY <2>1, <2>4, <4>1
    <3> QED
      BY <3>1, <3>2
  <2> QED
    BY <2>2, <2>3, <2>4, <2>5, <2>6, <2>7
<1> HIDE DEF S
<1>5. \A k \in 0..top : k \in S
  BY <1>2, <1>3, <1>4, IntervalInduction
<1>6. Pushed(run[top], top)
  BY <1>2, <1>5 DEF S
<1> QED
  BY <1>1, <1>6 DEF IsPushing

(* A bitmap of some bits.                                                   *)
LEMMA BitsMade ==
  ASSUME NEW valid \in Seq(BOOLEAN)
  PROVE  /\ BitsOf(valid) \in Bitmaps /\ BitsOf(valid).len = Len(valid)
         /\ \A i \in 1..Len(valid) : is_valid(BitsOf(valid), i) = valid[i]
<1> DEFINE t == BitsPushAll(NoBits, valid)
<1>1. NoBits \in Bitmaps /\ NoBits.len = 0
  BY NoBitsOK
<1>2. /\ t \in Bitmaps /\ t.len = NoBits.len + Len(valid)
      /\ \A i \in 1..Len(valid) : is_valid(t, NoBits.len + i) = valid[i]
  BY <1>1, PushBits
<1>3. BitsOf(valid) = t
  BY DEF BitsOf
<1> HIDE DEF t
<1>4. \A i \in 1..Len(valid) : 0 + i = i
  OBVIOUS
<1> QED
  BY <1>1, <1>2, <1>3, <1>4

LEMMA ValidSeqFacts ==
  ASSUME NEW b \in Bitmaps
  PROVE  /\ ValidSeq(b) \in Seq(BOOLEAN) /\ Len(ValidSeq(b)) = b.len
         /\ \A i \in 1..b.len : ValidSeq(b)[i] = is_valid(b, i)
<1>1. b.len \in Nat /\ \A i \in 1..b.len : is_valid(b, i) \in BOOLEAN
  BY BitmapFacts
<1> QED
  BY <1>1 DEF ValidSeq

(* The first n bits, and the others.                                        *)
LEMMA SplitBits ==
  ASSUME NEW b \in Bitmaps, NEW n \in Nat, n <= b.len
  PROVE  LET parts == BitsSplitOff(b, n)
         IN /\ parts.drained \in Bitmaps /\ parts.drained.len = n
            /\ \A i \in 1..n : is_valid(parts.drained, i) = is_valid(b, i)
            /\ parts.rest \in Bitmaps /\ parts.rest.len = b.len - n
            /\ \A i \in 1..(b.len - n) : is_valid(parts.rest, i) = is_valid(b, n + i)
<1> DEFINE v == ValidSeq(b)
           first == Cut(v, 0, n)
           last == Cut(v, n, b.len)
<1>1. b.len \in Nat
  BY BitmapFacts
<1>2. v \in Seq(BOOLEAN) /\ Len(v) = b.len /\ \A i \in 1..b.len : v[i] = is_valid(b, i)
  BY ValidSeqFacts
<1>3. BitsSplitOff(b, n) = [drained |-> BitsOf(first), rest |-> BitsOf(last)]
  BY DEF BitsSplitOff, Cut
<1> HIDE DEF v
<1>4. first \in Seq(BOOLEAN) /\ Len(first) = n /\ \A i \in 1..n : first[i] = v[i]
  BY <1>1, <1>2, CutFront
<1> DEFINE end == b.len
<1> HIDE DEF end
<1>8. IsPiece(Cut(v, n, end), BOOLEAN, v, n, end)
  <2>1. v \in Seq(BOOLEAN) /\ end \in Nat /\ n <= end /\ end <= Len(v)
    BY <1>1, <1>2 DEF end
  <2> QED
    BY <2>1, CutPiece
<1> HIDE DEF first, last
<1>5. last \in Seq(BOOLEAN) /\ Len(last) = b.len - n /\ \A i \in 1..(b.len - n) : last[i] = v[n + i]
  BY <1>8 DEF IsPiece, end, last
<1>6. /\ BitsOf(first) \in Bitmaps /\ BitsOf(first).len = n
      /\ \A i \in 1..n : is_valid(BitsOf(first), i) = is_valid(b, i)
  <2>1. \A i \in 1..n : i \in 1..b.len
    BY <1>1
  <2> QED
    BY <1>2, <1>4, <2>1, BitsMade
<1>7. /\ BitsOf(last) \in Bitmaps /\ BitsOf(last).len = b.len - n
      /\ \A i \in 1..(b.len - n) : is_valid(BitsOf(last), i) = is_valid(b, n + i)
  <2>1. \A i \in 1..(b.len - n) : n + i \in 1..b.len
    BY <1>1
  <2> QED
    BY <1>2, <1>5, <2>1, BitsMade
<1> QED
  BY <1>3, <1>6, <1>7

(* An exact count of the nulls lets Arrow do without the bitmap.            *)
LEMMA ArrowTrusts ==
  ASSUME NEW b \in Bitmaps, NEW i \in 1..b.len
  PROVE  ArrowValid(b, i) = is_valid(b, i)
<1>1. /\ b.len \in Nat /\ b.null_count = Cardinality(Clear(b.bits, b.len))
      /\ is_valid(b, i) = b.bits[i] /\ b.bits[i] \in BOOLEAN
  BY BitmapFacts
<1>2. CASE b.null_count = 0
  <2>1. Clear(b.bits, b.len) = {}
    BY <1>1, <1>2, ClearFinite, FS_EmptySet
  <2>2. b.bits[i]
    BY <2>1 DEF Clear
  <2> QED
    BY <1>1, <1>2, <2>2 DEF ArrowValid
<1>3. CASE b.null_count # 0
  BY <1>1, <1>3 DEF ArrowValid
<1> QED
  BY <1>2, <1>3

-----------------------------------------------------------------------------
(* Columns.                                                                 *)

Indexes == UNION {[S -> Nat] : S \in SUBSET Seq(Nat)}

Storage == [kind : Kinds, arena : Seq(Nat), offsets : Seq(Nat), vals : Seq(Nat),
            validity : Bitmaps, index : Indexes]

\* The index is the inverse of the entries, and no entry comes twice.
IsIndex(a, o, x) ==
  /\ DOMAIN x = {Text(a, o, i) : i \in 1..(Len(o) - 1)}
  /\ \A i \in 1..(Len(o) - 1) : x[Text(a, o, i)] = i - 1

CodesFit(c) ==
  \A i \in 1..len(c) : is_valid(c.validity, i) => c.vals[i] + 1 < Len(c.offsets)

\* What every column is until dictionaries are unified.
Sound(c) ==
  /\ c \in Storage
  /\ c.kind = "string" => Len(c.offsets) = len(c) + 1 /\ c.vals = <<>>
  /\ c.kind # "string" => Len(c.vals) = len(c)
  /\ c.kind \notin Scalars => IsArena(c.arena, c.offsets)
  /\ c.kind = "dictionary" => IsIndex(c.arena, c.offsets, c.index) /\ CodesFit(c)

At(c, i) == CellBy(c, i, is_valid(c.validity, i))

\* What every column is, also when unified dictionaries repeat an entry.
Fit(c) ==
  /\ c \in Storage
  /\ c.kind = "string" => Len(c.offsets) = len(c) + 1 /\ c.vals = <<>>
  /\ c.kind # "string" => Len(c.vals) = len(c)
  /\ c.kind \notin Scalars => IsArena(c.arena, c.offsets)
  /\ c.kind = "dictionary" => CodesFit(c)

LEMMA SoundFit ==
  ASSUME NEW c
  PROVE  /\ Sound(c) <=> Fit(c) /\ (c.kind = "dictionary" => IsIndex(c.arena, c.offsets, c.index))
         /\ Fit(c) /\ c.kind = "string" => Sound(c)
<1>1. Sound(c) <=> Fit(c) /\ (c.kind = "dictionary" => IsIndex(c.arena, c.offsets, c.index))
  BY DEF Sound, Fit
<1>2. c.kind = "string" => c.kind # "dictionary"
  OBVIOUS
<1> QED
  BY <1>1, <1>2

LEMMA KindFacts ==
  /\ "string" \notin Scalars /\ "dictionary" \notin Scalars
  /\ \A k \in Kinds : k \in Scalars \/ k = "string" \/ k = "dictionary"
  /\ "string" \in Kinds /\ "dictionary" \in Kinds
BY DEF Kinds, Scalars

LEMMA StorageFacts ==
  ASSUME NEW c \in Storage
  PROVE  /\ c.kind \in Kinds /\ c.arena \in Seq(Nat) /\ c.offsets \in Seq(Nat)
         /\ c.vals \in Seq(Nat) /\ c.validity \in Bitmaps /\ c.index \in Indexes
         /\ len(c) = c.validity.len /\ len(c) \in Nat
         /\ \A i \in 1..len(c) : is_valid(c.validity, i) \in BOOLEAN
<1>1. c.validity \in Bitmaps
  BY DEF Storage
<1>2. c.validity.len \in Nat /\ \A i \in 1..c.validity.len : is_valid(c.validity, i) \in BOOLEAN
  BY <1>1, BitmapFacts
<1> QED
  BY <1>1, <1>2 DEF Storage, len

(* The cells of each kind of column.                                        *)
LEMMA TextCells ==
  ASSUME NEW c, c.kind = "string", NEW i
  PROVE  At(c, i) = IF is_valid(c.validity, i) THEN Text(c.arena, c.offsets, i) ELSE Null
BY DEF At, CellBy, Entry, Text, Cut

LEMMA CodeCells ==
  ASSUME NEW c, c.kind = "dictionary", NEW i,
         is_valid(c.validity, i) => c.vals[i] + 1 < Len(c.offsets)
  PROVE  At(c, i) = IF is_valid(c.validity, i)
                      THEN Text(c.arena, c.offsets, c.vals[i] + 1) ELSE Null
<1>1. c.kind # "string"
  OBVIOUS
<1>2. CASE is_valid(c.validity, i)
  BY <1>1, <1>2 DEF At, CellBy, Entry, Text, Cut
<1>3. CASE ~ is_valid(c.validity, i)
  BY <1>3 DEF At, CellBy
<1> QED
  BY <1>2, <1>3

LEMMA ScalarCells ==
  ASSUME NEW c, c.kind \in Scalars, NEW i
  PROVE  At(c, i) = IF is_valid(c.validity, i) THEN c.vals[i] ELSE Null
<1>1. c.kind # "string" /\ c.kind # "dictionary"
  BY KindFacts
<1> QED
  BY <1>1 DEF At, CellBy

(* The code of a cell names an entry of the dictionary.                     *)
LEMMA CodeFacts ==
  ASSUME NEW c, Fit(c), c.kind = "dictionary", NEW i \in 1..len(c),
         is_valid(c.validity, i)
  PROVE  /\ c.vals[i] \in Nat /\ c.vals[i] + 1 < Len(c.offsets)
         /\ c.vals[i] + 1 \in 1..(Len(c.offsets) - 1)
<1> DEFINE v == c.vals[i]
           top == Len(c.offsets)
<1>1. /\ c.vals \in Seq(Nat) /\ Len(c.vals) = len(c) /\ c.offsets \in Seq(Nat)
      /\ CodesFit(c)
  BY StorageFacts DEF Fit
<1>2. v \in Nat
  <2>1. i \in 1..Len(c.vals)
    BY <1>1
  <2> QED
    BY <1>1, <2>1
<1>3. top \in Nat
  BY <1>1
<1>4. v + 1 < top
  BY <1>1 DEF CodesFit
<1> HIDE DEF v, top
<1>5. v + 1 \in 1..(top - 1)
  BY <1>2, <1>3, <1>4
<1> QED
  BY <1>2, <1>4, <1>5 DEF v, top

(* A sound column has the representation that is checked.                   *)
LEMMA SoundRepresents ==
  ASSUME NEW c, Sound(c)
  PROVE  ColumnOK(c)
<1>1. /\ c.kind \in Kinds /\ c.arena \in Seq(Nat) /\ c.offsets \in Seq(Nat)
      /\ c.vals \in Seq(Nat) /\ c.validity \in Bitmaps /\ len(c) \in Nat
  BY StorageFacts DEF Sound
<1>2. BitsOK(c.validity)
  BY <1>1 DEF Bitmaps
<1>3. IF c.kind = "string" THEN Len(c.offsets) = len(c) + 1 /\ c.vals = <<>>
      ELSE Len(c.vals) = len(c)
  BY DEF Sound
<1>4. ASSUME c.kind \notin Scalars
      PROVE  TextOK(c)
  <2>1. IsArena(c.arena, c.offsets)
    BY <1>4 DEF Sound
  <2>2. \A i \in 1..(Len(c.offsets) - 1) : c.offsets[i] <= c.offsets[i + 1]
    BY <2>1, ArenaText
  <2> QED
    BY <2>1, <2>2 DEF TextOK, IsArena
<1>5. ASSUME c.kind = "dictionary"
      PROVE  DictOK(c)
  <2> DEFINE a == c.arena
             o == c.offsets
             x == c.index
  <2>1. IsArena(a, o) /\ IsIndex(a, o, x) /\ CodesFit(c)
    BY <1>5, KindFacts DEF Sound
  <2>2. \A i : Entry(c, i) = Text(a, o, i)
    BY DEF Entry, Text, Cut
  <2> HIDE DEF a, o, x
  <2>3. ToSet(Entries(c)) = {Text(a, o, i) : i \in 1..(Len(o) - 1)}
    <3>1. Entries(c) = [i \in 1..(Len(o) - 1) |-> Text(a, o, i)]
      BY <2>2 DEF Entries, o
    <3>2. DOMAIN Entries(c) = 1..(Len(o) - 1)
      BY <3>1
    <3> QED
      BY <3>1, <3>2 DEF ToSet
  <2>4. DOMAIN x = ToSet(Entries(c))
    BY <2>1, <2>3 DEF IsIndex
  <2>5. ASSUME NEW s \in DOMAIN x
        PROVE  Entry(c, x[s] + 1) = s
    <3>1. PICK i \in 1..(Len(o) - 1) : s = Text(a, o, i)
      BY <2>1 DEF IsIndex
    <3>2. x[s] + 1 = i
      <4>1. x[s] = i - 1
        BY <2>1, <3>1 DEF IsIndex
      <4> QED
        BY <3>1, <4>1
    <3> QED
      BY <2>2, <3>1, <3>2
  <2>6. \A i \in DOMAIN c.vals : is_valid(c.validity, i) => c.vals[i] + 1 < Len(o)
    <3>1. DOMAIN c.vals = 1..len(c)
      BY <1>1, <1>3, <1>5
    <3> QED
      BY <2>1, <3>1 DEF CodesFit, o
  <2> QED
    BY <2>4, <2>5, <2>6 DEF DictOK, o, x
<1> QED
  BY <1>2, <1>3, <1>4, <1>5 DEF ColumnOK

LEMMA NewColumn ==
  ASSUME NEW k \in Kinds
  PROVE  Sound(new_column(k)) /\ new_column(k).kind = k /\ len(new_column(k)) = 0
<1> DEFINE c == new_column(k)
           none == [s \in {} |-> 0]
<1>1. /\ c.kind = k /\ c.arena = <<>> /\ c.vals = <<>> /\ c.index = <<>>
      /\ c.validity = NoBits
      /\ c.offsets = IF k \in Scalars THEN <<>> ELSE <<0>>
      /\ c = [kind |-> c.kind, arena |-> c.arena, offsets |-> c.offsets, vals |-> c.vals,
              validity |-> c.validity, index |-> c.index]
  BY DEF new_column
<1> HIDE DEF c
<1>2. NoBits \in Bitmaps /\ NoBits.len = 0
  BY NoBitsOK
<1>3. <<>> \in Indexes
  <2>1. <<>> = none
    OBVIOUS
  <2>2. none \in [{} -> Nat] /\ {} \in SUBSET Seq(Nat)
    OBVIOUS
  <2> QED
    BY <2>1, <2>2 DEF Indexes
<1>4. c.offsets \in Seq(Nat) /\ c.arena \in Seq(Nat) /\ c.vals \in Seq(Nat)
  <2>1. <<>> \in Seq(Nat) /\ <<0>> \in Seq(Nat)
    OBVIOUS
  <2> QED
    BY <1>1, <2>1
<1>5. c \in Storage
  BY <1>1, <1>2, <1>3, <1>4 DEF Storage
<1>6. len(c) = 0
  BY <1>1, <1>2 DEF len
<1>7. ASSUME k \notin Scalars
      PROVE  Len(c.offsets) = 1 /\ IsArena(c.arena, c.offsets)
  <2> DEFINE o == c.offsets
             a == c.arena
  <2>1. o = <<0>> /\ a = <<>>
    BY <1>1, <1>7
  <2> HIDE DEF o, a
  <2>2. o \in Seq(Nat) /\ a \in Seq(Nat) /\ Len(o) = 1 /\ Len(a) = 0 /\ o[1] = 0
    BY <2>1
  <2>3. \A i, j \in 1..Len(o) : i <= j => o[i] <= o[j]
    <3>1. \A i \in 1..Len(o) : i = 1
      BY <2>2
    <3> QED
      BY <2>2, <3>1
  <2> QED
    BY <2>2, <2>3 DEF IsArena, o, a
<1>8. ASSUME k = "dictionary"
      PROVE  IsIndex(c.arena, c.offsets, c.index) /\ CodesFit(c)
  <2>3. Len(c.offsets) = 1
    <3>1. k \notin Scalars
      BY <1>8, KindFacts
    <3> QED
      BY <1>7, <3>1
  <2>1. 1..(Len(c.offsets) - 1) = {} /\ 1..len(c) = {}
    BY <1>6, <2>3
  <2>2. DOMAIN c.index = {}
    BY <1>1
  <2> QED
    BY <2>1, <2>2 DEF IsIndex, CodesFit
<1>9. Sound(c)
  <2>1. k = "string" => Len(c.offsets) = len(c) + 1
    BY <1>6, <1>7, KindFacts
  <2>2. Len(c.vals) = len(c)
    BY <1>1, <1>6
  <2> QED
    BY <1>1, <1>5, <1>7, <1>8, <2>1, <2>2 DEF Sound
<1> QED
  BY <1>1, <1>6, <1>9 DEF c

\* The column t is c with one cell more.
Longer(t, c, cell) ==
  /\ Sound(t) /\ t.kind = c.kind /\ len(t) = len(c) + 1
  /\ \A i \in 1..len(c) : At(t, i) = At(c, i)
  /\ At(t, len(c) + 1) = cell

(* A string column takes a text or a null.                                  *)
LEMMA StringGrows ==
  ASSUME NEW c, Sound(c), c.kind = "string", NEW s \in Seq(Nat), NEW valid \in BOOLEAN
  PROVE  Longer(StrPush(c, s, valid), c, IF valid THEN s ELSE Null)
<1> DEFINE a == c.arena
           o == c.offsets
           b == c.validity
           n == len(c)
           d == BitsPush(b, valid)
           a2 == a \o s
           o2 == Append(o, Len(a2))
           t == StrPush(c, s, valid)
<1>1. /\ c \in Storage /\ a \in Seq(Nat) /\ o \in Seq(Nat) /\ b \in Bitmaps
      /\ n = b.len /\ n \in Nat /\ c.vals = <<>> /\ Len(o) = n + 1 /\ IsArena(a, o)
  BY StorageFacts, KindFacts DEF Sound
<1>2. OneMore(d, b, valid)
  BY <1>1, PushBit
<1>10. MoreTexts(a2, o2, a, o, s)
  BY <1>1, ArenaMore
<1>4. t = [c EXCEPT !.arena = a2, !.offsets = o2, !.validity = d]
  BY <1>1 DEF StrPush, AddEntry, Storage
<1> HIDE DEF t, a2, o2, d
<1>3. /\ IsArena(a2, o2) /\ Len(o2) = Len(o) + 1
      /\ \A i \in 1..(Len(o) - 1) : Text(a2, o2, i) = Text(a, o, i)
      /\ Text(a2, o2, Len(o)) = s
  BY <1>10 DEF MoreTexts
<1>5. /\ t.kind = "string" /\ t.arena = a2 /\ t.offsets = o2 /\ t.validity = d /\ t.vals = <<>>
      /\ t \in Storage
  <2>1. d \in Bitmaps /\ a2 \in Seq(Nat) /\ o2 \in Seq(Nat)
    BY <1>2, <1>3 DEF OneMore, IsArena
  <2> QED
    BY <1>1, <1>4, <2>1 DEF Storage
<1>6. len(t) = n + 1
  BY <1>1, <1>2, <1>5 DEF len, OneMore
<1>7. Sound(t)
  <2>1. Len(o2) = len(t) + 1
    BY <1>1, <1>3, <1>6
  <2> QED
    BY <1>3, <1>5, <2>1, KindFacts DEF Sound
<1>8. ASSUME NEW i \in 1..n
      PROVE  At(t, i) = At(c, i)
  <2>1. Text(a2, o2, i) = Text(a, o, i)
    BY <1>1, <1>3
  <2>2. is_valid(d, i) = is_valid(b, i)
    BY <1>1, <1>2 DEF OneMore
  <2> QED
    BY <1>5, <2>1, <2>2, TextCells
<1>9. At(t, n + 1) = IF valid THEN s ELSE Null
  <2>1. Text(a2, o2, n + 1) = s
    BY <1>1, <1>3
  <2>2. is_valid(d, n + 1) = valid
    BY <1>1, <1>2 DEF OneMore
  <2> QED
    BY <1>5, <2>1, <2>2, TextCells
<1> QED
  BY <1>5, <1>6, <1>7, <1>8, <1>9 DEF Longer, t

(* A number or a code more.                                                 *)
LEMMA PushedValue ==
  ASSUME NEW c, Sound(c), c.kind # "string", NEW v \in Nat, NEW valid \in BOOLEAN
  PROVE  LET t == PrimPush(c, v, valid)
         IN /\ t \in Storage /\ t.kind = c.kind /\ t.arena = c.arena /\ t.offsets = c.offsets
            /\ t.index = c.index /\ len(t) = len(c) + 1 /\ Len(t.vals) = len(t)
            /\ \A i \in 1..len(c) : /\ t.vals[i] = c.vals[i]
                                    /\ is_valid(t.validity, i) = is_valid(c.validity, i)
            /\ t.vals[len(c) + 1] = v /\ is_valid(t.validity, len(c) + 1) = valid
<1> DEFINE b == c.validity
           n == len(c)
           d == BitsPush(b, valid)
           x == c.vals
           y == Append(x, v)
           t == PrimPush(c, v, valid)
<1>1. /\ c \in Storage /\ b \in Bitmaps /\ x \in Seq(Nat) /\ n = b.len /\ n \in Nat /\ Len(x) = n
  BY StorageFacts DEF Sound
<1>2. OneMore(d, b, valid)
  BY <1>1, PushBit
<1>3. /\ y \in Seq(Nat) /\ Len(y) = n + 1 /\ y[n + 1] = v /\ \A i \in 1..n : y[i] = x[i]
  BY <1>1
<1>4. t = [c EXCEPT !.vals = y, !.validity = d]
  BY DEF PrimPush
<1> HIDE DEF t, y, d
<1>5. /\ t.kind = c.kind /\ t.arena = c.arena /\ t.offsets = c.offsets /\ t.index = c.index
      /\ t.vals = y /\ t.validity = d /\ t \in Storage
  <2>1. d \in Bitmaps
    BY <1>2 DEF OneMore
  <2> QED
    BY <1>1, <1>3, <1>4, <2>1 DEF Storage
<1>6. len(t) = n + 1
  BY <1>1, <1>2, <1>5 DEF len, OneMore
<1>7. \A i \in 1..n : is_valid(d, i) = is_valid(b, i)
  BY <1>1, <1>2 DEF OneMore
<1>8. is_valid(d, n + 1) = valid
  BY <1>1, <1>2 DEF OneMore
<1> QED
  BY <1>3, <1>5, <1>6, <1>7, <1>8 DEF t

(* A column of scalars takes a value or a null.                             *)
LEMMA ScalarsGrow ==
  ASSUME NEW c, Sound(c), c.kind \in Scalars, NEW v \in Nat, NEW valid \in BOOLEAN
  PROVE  Longer(PrimPush(c, v, valid), c, IF valid THEN v ELSE Null)
<1> DEFINE t == PrimPush(c, v, valid)
           n == len(c)
<1>1. c.kind # "string" /\ c.kind # "dictionary"
  BY KindFacts
<1>2. /\ t \in Storage /\ t.kind = c.kind /\ len(t) = n + 1 /\ Len(t.vals) = len(t)
      /\ \A i \in 1..n : /\ t.vals[i] = c.vals[i]
                         /\ is_valid(t.validity, i) = is_valid(c.validity, i)
      /\ t.vals[n + 1] = v /\ is_valid(t.validity, n + 1) = valid
  BY <1>1, PushedValue
<1> HIDE DEF t
<1>3. Sound(t)
  BY <1>1, <1>2 DEF Sound
<1>4. \A i \in 1..n : At(t, i) = At(c, i)
  BY <1>2, ScalarCells
<1>5. At(t, n + 1) = IF valid THEN v ELSE Null
  BY <1>2, ScalarCells
<1> QED
  BY <1>2, <1>3, <1>4, <1>5 DEF Longer, t

(* A dictionary column takes a code that it has, or a null.                 *)
LEMMA CodesGrow ==
  ASSUME NEW c, Sound(c), c.kind = "dictionary", NEW v \in Nat, NEW valid \in BOOLEAN,
         valid => v + 1 < Len(c.offsets)
  PROVE  Longer(PrimPush(c, v, valid), c,
                IF valid THEN Text(c.arena, c.offsets, v + 1) ELSE Null)
<1> DEFINE t == PrimPush(c, v, valid)
           n == len(c)
<1>1. c.kind # "string" /\ c.kind \notin Scalars
  BY KindFacts
<1>2. /\ t \in Storage /\ t.kind = c.kind /\ len(t) = n + 1 /\ Len(t.vals) = len(t)
      /\ t.arena = c.arena /\ t.offsets = c.offsets /\ t.index = c.index
      /\ \A i \in 1..n : /\ t.vals[i] = c.vals[i]
                         /\ is_valid(t.validity, i) = is_valid(c.validity, i)
      /\ t.vals[n + 1] = v /\ is_valid(t.validity, n + 1) = valid
  BY <1>1, PushedValue
<1>3. n \in Nat /\ CodesFit(c) /\ IsArena(c.arena, c.offsets)
      /\ IsIndex(c.arena, c.offsets, c.index)
  BY <1>1, StorageFacts DEF Sound
<1> HIDE DEF t
<1>4. CodesFit(t)
  <2>1. ASSUME NEW i \in 1..(n + 1), is_valid(t.validity, i)
        PROVE  t.vals[i] + 1 < Len(t.offsets)
    <3>1. CASE i = n + 1
      BY <1>2, <2>1, <3>1
    <3>2. CASE i # n + 1
      <4>1. i \in 1..n
        BY <1>3, <3>2
      <4> QED
        BY <1>2, <1>3, <2>1, <4>1 DEF CodesFit
    <3> QED
      BY <3>1, <3>2
  <2> QED
    BY <1>2, <2>1 DEF CodesFit
<1>5. Sound(t)
  BY <1>1, <1>2, <1>3, <1>4 DEF Sound
<1>6. ASSUME NEW i \in 1..n
      PROVE  At(t, i) = At(c, i)
  <2>1. is_valid(c.validity, i) => c.vals[i] + 1 < Len(c.offsets)
    BY <1>3 DEF CodesFit
  <2> QED
    BY <1>2, <2>1, CodeCells
<1>7. At(t, n + 1) = IF valid THEN Text(c.arena, c.offsets, v + 1) ELSE Null
  BY <1>2, CodeCells
<1> QED
  BY <1>2, <1>5, <1>6, <1>7 DEF Longer, t

\* The column d is c, and s has a code in it.
Coded(d, c, s) ==
  /\ Sound(d) /\ d.kind = "dictionary" /\ d.vals = c.vals /\ d.validity = c.validity
  /\ \A i \in 1..len(c) : At(d, i) = At(c, i)
  /\ d.index[s] \in Nat /\ d.index[s] + 1 < Len(d.offsets)
  /\ Text(d.arena, d.offsets, d.index[s] + 1) = s

(* dict_code finds the text or adds it; either way the index stays the
   inverse of the entries and old codes mean what they meant.               *)
LEMMA CodeFor ==
  ASSUME NEW c, Sound(c), c.kind = "dictionary", NEW s \in Seq(Nat)
  PROVE  Coded(dict_code(c, s), c, s)
<1> DEFINE a == c.arena
           o == c.offsets
           x == c.index
           top == Len(o)
           d == dict_code(c, s)
<1>1. /\ c \in Storage /\ x \in Indexes /\ IsArena(a, o) /\ IsIndex(a, o, x) /\ CodesFit(c)
      /\ o \in Seq(Nat) /\ top \in Nat /\ top >= 1 /\ c.vals \in Seq(Nat) /\ Len(c.vals) = len(c)
      /\ len(c) \in Nat
  BY StorageFacts, KindFacts DEF Sound, IsArena
<1>2. CASE s \in DOMAIN x
  <2>1. d = c
    BY <1>2 DEF dict_code
  <2>2. PICK i \in 1..(top - 1) : s = Text(a, o, i)
    BY <1>1, <1>2 DEF IsIndex
  <2>3. x[s] = i - 1
    BY <1>1, <2>2 DEF IsIndex
  <2>4. x[s] \in Nat /\ x[s] + 1 < top /\ x[s] + 1 = i
    BY <1>1, <2>2, <2>3
  <2> QED
    BY <2>1, <2>2, <2>4 DEF Coded
<1>3. CASE s \notin DOMAIN x
  <2> DEFINE b == a \o s
             p == Append(o, Len(b))
             y == [k \in DOMAIN x \cup {s} |-> IF k = s THEN top - 1 ELSE x[k]]
  <2>1. MoreTexts(b, p, a, o, s)
    BY <1>1, ArenaMore
  <2>2. d = [c EXCEPT !.arena = b, !.offsets = p, !.index = y]
    BY <1>1, <1>3 DEF dict_code, AddEntry, Storage
  <2> HIDE DEF d, b, p
  <2>3. /\ IsArena(b, p) /\ Len(p) = top + 1 /\ Text(b, p, top) = s
        /\ \A i \in 1..(top - 1) : Text(b, p, i) = Text(a, o, i)
    BY <2>1 DEF MoreTexts
  <2>4. y \in Indexes
    <3>1. PICK S \in SUBSET Seq(Nat) : x \in [S -> Nat]
      BY <1>1 DEF Indexes
    <3>2. y \in [S \cup {s} -> Nat]
      BY <1>1, <3>1
    <3>3. S \cup {s} \in SUBSET Seq(Nat)
      BY <3>1
    <3> HIDE DEF y
    <3> QED
      BY <3>2, <3>3 DEF Indexes
  <2>5. y[s] = top - 1 /\ \A k \in DOMAIN x : y[k] = x[k]
    BY <1>3
  <2>6. DOMAIN y = DOMAIN x \cup {s}
    OBVIOUS
  <2> HIDE DEF y
  <2>7. IsIndex(b, p, y)
    <3> DEFINE new == Len(p) - 1
               old == top - 1
    <3>1. new = top /\ old + 1 = top /\ old \in Nat
      BY <1>1, <2>3
    <3> HIDE DEF new, old
    <3>2. \A i \in 1..old : Text(b, p, i) = Text(a, o, i)
      BY <2>3 DEF old
    <3>3. DOMAIN x = {Text(a, o, i) : i \in 1..old} /\ \A i \in 1..old : x[Text(a, o, i)] = i - 1
      BY <1>1 DEF IsIndex, old
    <3>4. \A i \in 1..new : i \in 1..old \/ i = top
      BY <3>1
    <3>5. top \in 1..new /\ \A i \in 1..old : i \in 1..new
      BY <1>1, <3>1
    <3>6. DOMAIN y = {Text(b, p, i) : i \in 1..new}
      <4>1. ASSUME NEW k \in DOMAIN y
            PROVE  \E i \in 1..new : k = Text(b, p, i)
        <5>1. CASE k = s
          BY <2>3, <3>5, <5>1
        <5>2. CASE k \in DOMAIN x
          BY <3>2, <3>3, <3>5, <5>2
        <5> QED
          BY <2>6, <5>1, <5>2
      <4>2. ASSUME NEW i \in 1..new
            PROVE  Text(b, p, i) \in DOMAIN y
        <5>1. CASE i = top
          BY <2>3, <2>6, <5>1
        <5>2. CASE i \in 1..old
          BY <2>6, <3>2, <3>3, <5>2
        <5> QED
          BY <3>4, <5>1, <5>2
      <4> QED
        BY <4>1, <4>2
    <3>7. ASSUME NEW i \in 1..new
          PROVE  y[Text(b, p, i)] = i - 1
      <4>1. CASE i = top
        BY <2>3, <2>5, <4>1
      <4>2. CASE i \in 1..old
        <5>1. Text(a, o, i) \in DOMAIN x
          BY <3>3, <4>2
        <5> QED
          BY <2>5, <3>2, <3>3, <4>2, <5>1
      <4> QED
        BY <3>4, <4>1, <4>2
    <3> QED
      BY <3>6, <3>7 DEF IsIndex, new
  <2>8. /\ d.kind = "dictionary" /\ d.arena = b /\ d.offsets = p /\ d.index = y
        /\ d.vals = c.vals /\ d.validity = c.validity /\ d \in Storage
    <3>1. b \in Seq(Nat) /\ p \in Seq(Nat)
      BY <2>3 DEF IsArena
    <3> QED
      BY <1>1, <2>2, <2>4, <3>1 DEF Storage
  <2>9. len(d) = len(c)
    BY <2>8 DEF len
  <2>10. CodesFit(d)
    <3>1. ASSUME NEW i \in 1..len(c), is_valid(c.validity, i)
          PROVE  c.vals[i] + 1 < Len(p)
      <4> DEFINE v == c.vals[i]
      <4>1. v \in Nat /\ v + 1 < top
        BY <3>1, CodeFacts, SoundFit
      <4> HIDE DEF v
      <4>2. v + 1 < Len(p)
        BY <1>1, <2>3, <4>1
      <4> QED
        BY <4>2 DEF v
    <3> QED
      BY <2>8, <2>9, <3>1 DEF CodesFit
  <2>11. Sound(d)
    BY <1>1, <2>3, <2>7, <2>8, <2>9, <2>10, KindFacts DEF Sound
  <2>12. ASSUME NEW i \in 1..len(c)
         PROVE  At(d, i) = At(c, i)
    <3>1. CASE is_valid(c.validity, i)
      <4>1. /\ c.vals[i] \in Nat /\ c.vals[i] + 1 < top
            /\ c.vals[i] + 1 \in 1..(top - 1)
        BY <3>1, CodeFacts, SoundFit
      <4>2. c.vals[i] + 1 < Len(p)
        <5> DEFINE v == c.vals[i]
        <5>1. v \in Nat /\ v + 1 < top
          BY <4>1
        <5> HIDE DEF v
        <5>2. v + 1 < Len(p)
          BY <1>1, <2>3, <5>1
        <5> QED
          BY <5>2 DEF v
      <4>3. At(d, i) = Text(b, p, c.vals[i] + 1) /\ At(c, i) = Text(a, o, c.vals[i] + 1)
        BY <2>8, <3>1, <4>1, <4>2, CodeCells
      <4> QED
        BY <2>3, <4>1, <4>3
    <3>2. CASE ~ is_valid(c.validity, i)
      BY <2>8, <3>2, CodeCells
    <3> QED
      BY <3>1, <3>2
  <2>13. y[s] \in Nat /\ y[s] + 1 = top /\ top < Len(p)
    BY <1>1, <2>3, <2>5
  <2>14. Coded(d, c, s)
    BY <2>3, <2>8, <2>11, <2>12, <2>13 DEF Coded
  <2> QED
    BY <2>14 DEF d
<1> QED
  BY <1>2, <1>3

(* Every column of texts takes a text.                                      *)
LEMMA TextGrows ==
  ASSUME NEW c, Sound(c), c.kind \notin Scalars, NEW s \in Seq(Nat)
  PROVE  Longer(PushText(c, s), c, s)
<1>1. CASE c.kind = "string"
  BY <1>1, StringGrows DEF PushText
<1>2. CASE c.kind # "string"
  <2> DEFINE d == dict_code(c, s)
             v == d.index[s]
             t == PrimPush(d, v, TRUE)
  <2>1. c.kind = "dictionary"
    BY <1>2, KindFacts, StorageFacts DEF Sound
  <2>2. Coded(d, c, s)
    BY <2>1, CodeFor
  <2>3. PushText(c, s) = t
    BY <1>2 DEF PushText
  <2> HIDE DEF d, v
  <2>4. /\ Sound(d) /\ d.kind = "dictionary" /\ len(d) = len(c)
        /\ \A i \in 1..len(c) : At(d, i) = At(c, i)
        /\ v \in Nat /\ v + 1 < Len(d.offsets)
        /\ Text(d.arena, d.offsets, v + 1) = s
    BY <2>2 DEF Coded, v, len
  <2>5. Longer(t, d, Text(d.arena, d.offsets, v + 1))
    BY <2>4, CodesGrow
  <2> HIDE DEF t
  <2>6. Longer(t, c, s)
    BY <2>1, <2>4, <2>5 DEF Longer
  <2> QED
    BY <2>3, <2>6
<1> QED
  BY <1>1, <1>2

(* Every column takes a null.                                               *)
LEMMA NullGrows ==
  ASSUME NEW c, Sound(c)
  PROVE  Longer(PushNull(c), c, Null)
<1>1. CASE c.kind = "string"
  <2>1. <<>> \in Seq(Nat)
    OBVIOUS
  <2>2. Longer(StrPush(c, <<>>, FALSE), c, Null)
    BY <1>1, <2>1, StringGrows
  <2> QED
    BY <1>1, <2>2 DEF PushNull
<1>2. CASE c.kind \in Scalars
  <2>1. Longer(PrimPush(c, 0, FALSE), c, Null)
    BY <1>2, ScalarsGrow
  <2> QED
    BY <1>2, <2>1, KindFacts DEF PushNull
<1>3. CASE c.kind = "dictionary"
  <2>1. Longer(PrimPush(c, 0, FALSE), c, Null)
    BY <1>3, CodesGrow
  <2> QED
    BY <1>3, <2>1, KindFacts DEF PushNull
<1> QED
  BY <1>1, <1>2, <1>3, KindFacts, StorageFacts DEF Sound

\* Native values and texts are pushed as what they mean to the column.
LEMMA ParsedFacts ==
  ASSUME NEW kind, NEW s \in Seq(Nat)
  PROVE  Parsed(kind, s) = Null \/ Parsed(kind, s) \in Nat
<1>1. CASE Len(s) = 1
  <2>1. 1 \in DOMAIN s
    BY <1>1
  <2>2. s[1] \in Nat
    BY <2>1
  <2> QED
    BY <2>2 DEF Parsed
<1>2. CASE Len(s) # 1
  BY <1>2 DEF Parsed
<1> QED
  BY <1>1, <1>2

(* push_str: the text, or what it parses to.                                *)
LEMMA StrGrows ==
  ASSUME NEW c, Sound(c), NEW s \in Seq(Nat)
  PROVE  Longer(push_str(c, s), c, IF c.kind \in Scalars THEN Parsed(c.kind, s) ELSE s)
<1> DEFINE v == Parsed(c.kind, s)
<1>1. CASE c.kind \notin Scalars
  <2>1. Longer(PushText(c, s), c, s)
    BY <1>1, TextGrows
  <2> QED
    BY <1>1, <2>1 DEF push_str
<1>2. CASE c.kind \in Scalars /\ v = Null
  <2>1. Longer(PushNull(c), c, Null)
    BY NullGrows
  <2> QED
    BY <1>2, <2>1 DEF push_str
<1>3. CASE c.kind \in Scalars /\ v # Null
  <2>1. v \in Nat
    BY <1>3, ParsedFacts
  <2>2. push_str(c, s) = PrimPush(c, v, TRUE)
    BY <1>3 DEF push_str
  <2> HIDE DEF v
  <2>3. Longer(PrimPush(c, v, TRUE), c, v)
    BY <1>3, <2>1, ScalarsGrow
  <2> QED
    BY <1>3, <2>2, <2>3 DEF v
<1> QED
  BY <1>1, <1>2, <1>3

(* push_value: what the value means in a column of this kind.               *)
LEMMA ValueGrows ==
  ASSUME NEW c, Sound(c), NEW value, ValueOK(value)
  PROVE  Longer(push_value(c, value), c, Meaning(c.kind, value))
<1> DEFINE m == Meaning(c.kind, value)
           t == push_value(c, value)
<1>1. CASE value.type = "Null"
  <2>1. t = PushNull(c) /\ m = Null
    BY <1>1 DEF push_value, Meaning
  <2>2. Longer(PushNull(c), c, Null)
    BY NullGrows
  <2> HIDE DEF t, m
  <2> QED
    BY <2>1, <2>2 DEF t, m
<1>2. CASE value.type = "Str"
  <2>1. value.v \in Seq(Nat)
    BY <1>2 DEF ValueOK, NativeTypes
  <2>2. t = push_str(c, value.v) /\ m = IF c.kind \in Scalars THEN Parsed(c.kind, value.v) ELSE value.v
    BY <1>2 DEF push_value, Meaning
  <2> DEFINE s == value.v
  <2> HIDE DEF t, m
  <2>3. Longer(push_str(c, s), c, IF c.kind \in Scalars THEN Parsed(c.kind, s) ELSE s)
    BY <2>1, StrGrows
  <2> QED
    BY <2>2, <2>3 DEF t, m
<1>3. CASE value.type # "Null" /\ value.type # "Str"
  <2> DEFINE v == value.v
  <2>1. v \in Nat
    BY <1>3 DEF ValueOK
  <2>2. t = IF c.kind \notin Scalars THEN PushText(c, <<v>>)
            ELSE IF c.kind \in Accepting(value.type) THEN PrimPush(c, v, TRUE) ELSE PushNull(c)
    BY <1>3 DEF push_value
  <2>3. m = IF c.kind \notin Scalars THEN <<v>>
            ELSE IF c.kind \in Accepting(value.type) THEN v ELSE Null
    BY <1>3 DEF Meaning
  <2> HIDE DEF t, m, v
  <2>4. CASE c.kind \notin Scalars
    <3> DEFINE s == <<v>>
    <3>1. s \in Seq(Nat)
      BY <2>1
    <3> HIDE DEF s
    <3>2. Longer(PushText(c, s), c, s)
      BY <2>4, <3>1, TextGrows
    <3>3. t = PushText(c, s) /\ m = s
      BY <2>2, <2>3, <2>4 DEF s
    <3> QED
      BY <3>2, <3>3 DEF t, m
  <2>5. CASE c.kind \in Scalars /\ c.kind \in Accepting(value.type)
    <3>1. Longer(PrimPush(c, v, TRUE), c, v)
      BY <2>1, <2>5, ScalarsGrow
    <3> QED
      BY <2>2, <2>3, <2>5, <3>1 DEF t, m
  <2>6. CASE c.kind \in Scalars /\ c.kind \notin Accepting(value.type)
    <3>1. Longer(PushNull(c), c, Null)
      BY NullGrows
    <3> QED
      BY <2>2, <2>3, <2>6, <3>1 DEF t, m
  <2> QED
    BY <2>4, <2>5, <2>6
<1> QED
  BY <1>1, <1>2, <1>3

\* The column t has the m cells of c after the n-th.
Part(t, c, n, m) ==
  /\ Sound(t) /\ t.kind = c.kind /\ len(t) = m
  /\ \A i \in 1..m : At(t, i) = At(c, n + i)

\* The same of columns that are fit; what is not a string keeps its dictionary.
FitPart(t, c, n, m) ==
  /\ Fit(t) /\ t.kind = c.kind /\ len(t) = m
  /\ \A i \in 1..m : At(t, i) = At(c, n + i)
  /\ c.kind # "string" => t.arena = c.arena /\ t.offsets = c.offsets /\ t.index = c.index

LEMMA PartOfSound ==
  ASSUME NEW c, NEW t, NEW n, NEW m
  PROVE  /\ Sound(c) /\ FitPart(t, c, n, m) => Part(t, c, n, m)
         /\ c.kind = "string" /\ Part(t, c, n, m) => FitPart(t, c, n, m)
BY SoundFit DEF Part, FitPart

\* The bitmap d has the m bits of b after the n-th.
BitsPart(d, b, n, m) ==
  d \in Bitmaps /\ d.len = m /\ \A i \in 1..m : is_valid(d, i) = is_valid(b, n + i)

\* The arena (a, o) has the m strings of (b, p) after the n-th.
TextsPart(a, o, b, p, n, m) ==
  IsArena(a, o) /\ Len(o) = m + 1 /\ \A i \in 1..m : Text(a, o, i) = Text(b, p, n + i)

(* A piece of a string column, from pieces of its offsets and bitmap.       *)
LEMMA StringPart ==
  ASSUME NEW c, Sound(c), c.kind = "string", NEW n \in Nat, NEW m \in Nat,
         NEW a, NEW o, TextsPart(a, o, c.arena, c.offsets, n, m),
         NEW d, BitsPart(d, c.validity, n, m)
  PROVE  Part([c EXCEPT !.arena = a, !.offsets = o, !.validity = d], c, n, m)
<1> DEFINE t == [c EXCEPT !.arena = a, !.offsets = o, !.validity = d]
<1>1. c \in Storage /\ c.vals = <<>>
  BY DEF Sound
<1>2. /\ a \in Seq(Nat) /\ o \in Seq(Nat) /\ d \in Bitmaps
  BY DEF TextsPart, IsArena, BitsPart
<1>3. /\ t.kind = "string" /\ t.arena = a /\ t.offsets = o /\ t.validity = d /\ t.vals = <<>>
      /\ t \in Storage
  BY <1>1, <1>2 DEF Storage
<1> HIDE DEF t
<1>4. len(t) = m
  BY <1>3 DEF len, BitsPart
<1>5. Sound(t)
  BY <1>3, <1>4, KindFacts DEF Sound, TextsPart
<1>6. ASSUME NEW i \in 1..m
      PROVE  At(t, i) = At(c, n + i)
  BY <1>3, TextCells DEF TextsPart, BitsPart
<1> QED
  BY <1>3, <1>4, <1>5, <1>6 DEF Part, t

(* A piece of a column of values or codes.                                  *)
LEMMA ValuesPart ==
  ASSUME NEW c, Fit(c), c.kind # "string", NEW n \in Nat, NEW m \in Nat, n + m <= len(c),
         NEW x \in Seq(Nat), Len(x) = m, \A i \in 1..m : x[i] = c.vals[n + i],
         NEW d, BitsPart(d, c.validity, n, m)
  PROVE  FitPart([c EXCEPT !.vals = x, !.validity = d], c, n, m)
<1> DEFINE t == [c EXCEPT !.vals = x, !.validity = d]
<1>1. c \in Storage /\ len(c) \in Nat
  BY StorageFacts DEF Fit
<1>2. /\ t.kind = c.kind /\ t.arena = c.arena /\ t.offsets = c.offsets /\ t.index = c.index
      /\ t.validity = d /\ t.vals = x /\ t \in Storage
  BY <1>1 DEF Storage, BitsPart
<1> HIDE DEF t
<1>3. len(t) = m
  BY <1>2 DEF len, BitsPart
<1>4. \A i \in 1..m : n + i \in 1..len(c)
  BY <1>1
<1>5. \A i \in 1..m : is_valid(d, i) = is_valid(c.validity, n + i)
  BY DEF BitsPart
<1>6. ASSUME c.kind = "dictionary"
      PROVE  CodesFit(t)
  <2>1. CodesFit(c)
    BY <1>6 DEF Fit
  <2> QED
    BY <1>2, <1>3, <1>4, <1>5, <2>1 DEF CodesFit
<1>7. Fit(t)
  BY <1>2, <1>3, <1>6 DEF Fit
<1>8. ASSUME NEW i \in 1..m
      PROVE  At(t, i) = At(c, n + i)
  <2>1. n + i \in 1..len(c) /\ x[i] = c.vals[n + i] /\ is_valid(d, i) = is_valid(c.validity, n + i)
    BY <1>4, <1>5
  <2>2. CASE c.kind \in Scalars
    BY <1>2, <2>1, <2>2, ScalarCells
  <2>3. CASE c.kind = "dictionary"
    <3>1. is_valid(c.validity, n + i) => c.vals[n + i] + 1 < Len(c.offsets)
      BY <2>1, <2>3, CodeFacts
    <3> QED
      BY <1>2, <2>1, <2>3, <3>1, CodeCells
  <2> QED
    BY <1>1, <2>2, <2>3, KindFacts, StorageFacts
<1> QED
  BY <1>2, <1>3, <1>7, <1>8 DEF FitPart, t

(* The last cell goes.                                                      *)
LEMMA PopFit ==
  ASSUME NEW c, Fit(c), len(c) > 0
  PROVE  FitPart(pop(c), c, 0, len(c) - 1)
<1> DEFINE b == c.validity
           d == BitsPop(b)
           m == len(c) - 1
<1>1. c \in Storage /\ b \in Bitmaps /\ b.len = m + 1 /\ m \in Nat /\ len(c) = m + 1
  BY StorageFacts DEF Fit
<1>2. OneLess(d, b)
  BY <1>1, PopBit
<1> HIDE DEF d, m, b
<1>3. BitsPart(d, b, 0, m)
  <2>1. d \in Bitmaps /\ d.len = m /\ \A i \in 1..m : is_valid(d, i) = is_valid(b, i)
    <3>1. b.len - 1 = m
      BY <1>1
    <3> QED
      BY <1>2, <3>1 DEF OneLess
  <2>2. \A i \in 1..m : 0 + i = i
    BY <1>1
  <2> QED
    BY <2>1, <2>2 DEF BitsPart
<1>4. CASE c.kind = "string"
  <2> DEFINE a == c.arena
             o == c.offsets
             a2 == Cut(a, 0, o[m + 1])
             o2 == Cut(o, 0, m + 1)
  <2>1. IsArena(a, o) /\ Len(o) = (m + 1) + 1 /\ o \in Seq(Nat)
    BY <1>1, <1>4, KindFacts, StorageFacts DEF Fit
  <2>2. m < Len(o) /\ Len(o) - 1 = m + 1
    BY <1>1, <2>1
  <2>3. FrontTexts(a2, o2, a, o, m)
    BY <1>1, <2>1, <2>2, ArenaFront
  <2> DEFINE t == [c EXCEPT !.arena = a2, !.offsets = o2, !.validity = d]
  <2>4. pop(c) = t
    <3> DEFINE q == Len(o) - 1
               r == m + 1
    <3>3. q = r /\ Front(o) = SubSeq(o, 1, q) /\ SubSeq(a, 1, o[q]) = SubSeq(a, 1, o[Len(o) - 1])
          /\ o2 = SubSeq(o, 1, r) /\ a2 = SubSeq(a, 1, o[r])
      BY <2>2 DEF Front, Cut
    <3> HIDE DEF q, r
    <3>1. Front(o) = o2 /\ SubSeq(a, 1, o[Len(o) - 1]) = a2
      BY <3>3
    <3>2. pop(c) = StrPop(c)
      BY <1>1, <1>4 DEF pop
    <3> HIDE DEF a2, o2
    <3> QED
      BY <1>1, <3>1, <3>2 DEF StrPop, d, b, Storage
  <2> HIDE DEF a2, o2, a, o
  <2>5. TextsPart(a2, o2, a, o, 0, m)
    <3>1. \A i \in 1..m : 0 + i = i
      BY <1>1
    <3> QED
      BY <2>3, <3>1 DEF FrontTexts, TextsPart
  <2>6. Part(t, c, 0, m)
    <3> HIDE DEF t
    <3> QED
      BY <1>1, <1>3, <1>4, <2>5, SoundFit, StringPart DEF a, o, b, t
  <2> QED
    BY <1>4, <2>4, <2>6, PartOfSound DEF m
<1>5. CASE c.kind # "string"
  <2> DEFINE x == Front(c.vals)
             t == [c EXCEPT !.vals = x, !.validity = d]
  <2>1. c.vals \in Seq(Nat) /\ Len(c.vals) = m + 1
    BY <1>1, <1>5, StorageFacts DEF Fit
  <2>2. x = Cut(c.vals, 0, m)
    <3>1. Len(c.vals) - 1 = m
      BY <1>1, <2>1
    <3> QED
      BY <3>1 DEF Front, Cut
  <2>3. pop(c) = t
    <3>1. pop(c) = PrimPop(c)
      BY <1>1, <1>5 DEF pop
    <3> HIDE DEF x
    <3> QED
      BY <1>1, <3>1 DEF PrimPop, d, b, x, Storage
  <2> HIDE DEF x
  <2>4. x \in Seq(Nat) /\ Len(x) = m /\ \A i \in 1..m : x[i] = c.vals[i]
    <3>1. m <= Len(c.vals)
      BY <1>1, <2>1
    <3> QED
      BY <1>1, <2>1, <2>2, <3>1, CutFront
  <2>5. \A i \in 1..m : x[i] = c.vals[0 + i]
    <3>1. \A i \in 1..m : 0 + i = i
      BY <1>1
    <3> QED
      BY <2>4, <3>1
  <2>6. 0 + m <= len(c)
    BY <1>1
  <2>7. FitPart(t, c, 0, m)
    BY <1>1, <1>3, <1>5, <2>4, <2>5, <2>6, ValuesPart DEF b
  <2> HIDE DEF t
  <2> QED
    BY <2>3, <2>7 DEF m
<1> QED
  BY <1>4, <1>5

LEMMA PopPart ==
  ASSUME NEW c, Sound(c), len(c) > 0
  PROVE  Part(pop(c), c, 0, len(c) - 1)
<1>1. FitPart(pop(c), c, 0, len(c) - 1)
  BY SoundFit, PopFit
<1> QED
  BY <1>1, PartOfSound

(* The first n cells, and the others.                                       *)
LEMMA SplitParts ==
  ASSUME NEW c, Sound(c), NEW n \in Nat, n <= len(c)
  PROVE  /\ Part(split_off(c, n).drained, c, 0, n)
         /\ Part(split_off(c, n).rest, c, n, len(c) - n)
<1> DEFINE b == c.validity
           bits == BitsSplitOff(b, n)
           d == bits.drained
           e == bits.rest
           m == len(c) - n
<1>1. c \in Storage /\ b \in Bitmaps /\ b.len = len(c) /\ len(c) \in Nat /\ m \in Nat
      /\ len(c) = n + m
  BY StorageFacts DEF Sound
<1>2. /\ d \in Bitmaps /\ d.len = n /\ \A i \in 1..n : is_valid(d, i) = is_valid(b, i)
      /\ e \in Bitmaps /\ e.len = b.len - n
      /\ \A i \in 1..(b.len - n) : is_valid(e, i) = is_valid(b, n + i)
  BY <1>1, SplitBits
<1> HIDE DEF b, bits, d, e, m
<1>3. BitsPart(d, b, 0, n) /\ BitsPart(e, b, n, m)
  <2>1. b.len - n = m
    BY <1>1
  <2>2. \A i \in 1..n : 0 + i = i
    OBVIOUS
  <2> QED
    BY <1>2, <2>1, <2>2 DEF BitsPart
<1>4. CASE c.kind = "string"
  <2> DEFINE a == c.arena
             o == c.offsets
             end == o[n + 1]
             a1 == Cut(a, 0, end)
             o1 == Cut(o, 0, n + 1)
             a2 == Cut(a, end, Len(a))
             o2 == [i \in 1..(Len(o) - n) |-> o[n + i] - end]
             t1 == [c EXCEPT !.arena = a1, !.offsets = o1, !.validity = d]
             t2 == [c EXCEPT !.arena = a2, !.offsets = o2, !.validity = e]
  <2>1. IsArena(a, o) /\ Len(o) = (n + m) + 1
    BY <1>1, <1>4, KindFacts DEF Sound
  <2>2. n < Len(o) /\ Len(o) - n = m + 1 /\ Len(o) - n - 1 = m
    BY <1>1, <2>1
  <2>3. FrontTexts(a1, o1, a, o, n)
    BY <2>1, <2>2, ArenaFront
  <2>4. BackTexts(a2, o2, a, o, n)
    BY <2>1, <2>2, ArenaBack
  <2>5. split_off(c, n) = [drained |-> t1, rest |-> t2]
    BY <1>4 DEF split_off, StrSplitOff, Cut, bits, d, e, b
  <2> HIDE DEF a1, o1, a2, o2, a, o
  <2>6. TextsPart(a1, o1, a, o, 0, n)
    <3>1. \A i \in 1..n : 0 + i = i
      OBVIOUS
    <3> QED
      BY <2>3, <3>1 DEF FrontTexts, TextsPart
  <2>7. TextsPart(a2, o2, a, o, n, m)
    BY <2>2, <2>4 DEF BackTexts, TextsPart
  <2>8. Part(t1, c, 0, n)
    BY <1>3, <1>4, <2>6, StringPart DEF a, o, b
  <2>9. Part(t2, c, n, m)
    BY <1>1, <1>3, <1>4, <2>7, StringPart DEF a, o, b
  <2> HIDE DEF t1, t2
  <2> QED
    BY <2>5, <2>8, <2>9 DEF m
<1>5. CASE c.kind # "string"
  <2> DEFINE v == c.vals
             end == Len(v)
             x == Cut(v, 0, n)
             y == Cut(v, n, end)
             t1 == [c EXCEPT !.vals = x, !.validity = d]
             t2 == [c EXCEPT !.vals = y, !.validity = e]
  <2>1. v \in Seq(Nat) /\ end = n + m /\ end \in Nat /\ end <= Len(v) /\ n <= end /\ end - n = m
    BY <1>1, <1>5, StorageFacts DEF Sound
  <2>2. split_off(c, n) = [drained |-> t1, rest |-> t2]
    BY <1>5 DEF split_off, PrimSplitOff, Cut, bits, d, e, b
  <2> HIDE DEF v, end
  <2>3. x \in Seq(Nat) /\ Len(x) = n /\ \A i \in 1..n : x[i] = v[i]
    <3>1. n <= Len(v)
      BY <2>1
    <3> QED
      BY <2>1, <3>1, CutFront
  <2>4. IsPiece(y, Nat, v, n, end)
    BY <2>1, CutPiece
  <2> HIDE DEF x, y
  <2>5. y \in Seq(Nat) /\ Len(y) = m /\ \A i \in 1..m : y[i] = v[n + i]
    BY <2>1, <2>4 DEF IsPiece
  <2>6. Part(t1, c, 0, n)
    <3>1. 0 + n <= len(c) /\ \A i \in 1..n : x[i] = c.vals[0 + i]
      <4>1. \A i \in 1..n : 0 + i = i
        OBVIOUS
      <4> QED
        BY <1>1, <2>3, <4>1 DEF v
    <3> QED
      BY <1>3, <1>5, <2>3, <3>1, ValuesPart, SoundFit, PartOfSound DEF b
  <2>7. Part(t2, c, n, m)
    <3>1. n + m <= len(c) /\ \A i \in 1..m : y[i] = c.vals[n + i]
      BY <1>1, <2>5 DEF v
    <3> QED
      BY <1>1, <1>3, <1>5, <2>5, <3>1, ValuesPart, SoundFit, PartOfSound DEF b
  <2> HIDE DEF t1, t2
  <2> QED
    BY <2>2, <2>6, <2>7 DEF m
<1> QED
  BY <1>4, <1>5

-----------------------------------------------------------------------------
(* Repeated operations on a column.                                         *)

SoundColumns == {c \in Storage : Sound(c)}

LEMMA SoundIn ==
  ASSUME NEW c
  PROVE  c \in SoundColumns <=> Sound(c)
BY DEF SoundColumns, Sound

IsNulling(run, col, n) ==
  /\ run[0] = col /\ Nulls(col, n) = run[n]
  /\ \A i \in 1..n : run[i] = PushNull(run[i - 1])

LEMMA NullingExists ==
  ASSUME NEW col, Sound(col), NEW n \in Nat
  PROVE  \E run : IsNulling(run, col, n)
<1> DEFINE Eqn(r) == r = [i \in 0..n |-> IF i = 0 THEN col ELSE PushNull(r[i - 1])]
           step == [i \in 1..n |-> [x \in SoundColumns |-> PushNull(x)]]
<1>1. step \in Steps(n, SoundColumns)
  <2>1. ASSUME NEW i \in 1..n, NEW x \in SoundColumns
        PROVE  PushNull(x) \in SoundColumns
    BY SoundIn, NullGrows DEF Longer
  <2> QED
    BY <2>1 DEF Steps
<1> HIDE DEF step
<1>2. PICK g : IsRecursion(g, n, SoundColumns, col, step)
  BY <1>1, SoundIn, RecursionExists
<1>3. Eqn(g)
  <2>1. ASSUME NEW i \in 0..n
        PROVE  g[i] = IF i = 0 THEN col ELSE PushNull(g[i - 1])
    <3>1. CASE i = 0
      BY <1>2, <3>1 DEF IsRecursion
    <3>2. CASE i # 0
      <4>1. i \in 1..n /\ i - 1 \in 0..n
        BY <3>2
      <4>2. g[i - 1] \in SoundColumns /\ g[i] = step[i][g[i - 1]]
        BY <1>2, <4>1 DEF IsRecursion
      <4> QED
        BY <3>2, <4>1, <4>2 DEF step
    <3> QED
      BY <3>1, <3>2
  <2>2. g = [i \in 0..n |-> g[i]]
    BY <1>2 DEF IsRecursion
  <2> QED
    BY <2>1, <2>2
<1> DEFINE run == CHOOSE r : Eqn(r)
<1>4. Eqn(run)
  BY <1>3
<1>5. Nulls(col, n) = run[n]
  BY DEF Nulls
<1> HIDE DEF run
<1>6. run[0] = col /\ \A i \in 1..n : run[i] = PushNull(run[i - 1])
  BY <1>4
<1> QED
  BY <1>5, <1>6 DEF IsNulling

\* The column t is c with n cells more, all null.
Padded(t, c, n) ==
  /\ Sound(t) /\ t.kind = c.kind /\ len(t) = len(c) + n
  /\ \A i \in 1..len(c) : At(t, i) = At(c, i)
  /\ \A i \in 1..n : At(t, len(c) + i) = Null

(* Nulls pushed one after the other.                                        *)
LEMMA NullsPad ==
  ASSUME NEW c, Sound(c), NEW n \in Nat
  PROVE  Padded(Nulls(c, n), c, n)
<1>1. PICK run : IsNulling(run, c, n)
  BY NullingExists
<1>2. len(c) \in Nat
  BY StorageFacts DEF Sound
<1> DEFINE S == {k \in 0..n : Padded(run[k], c, k)}
<1>3. 0 \in S
  <2>1. run[0] = c
    BY <1>1 DEF IsNulling
  <2>2. Padded(c, c, 0)
    BY <1>2 DEF Padded
  <2> QED
    BY <2>1, <2>2
<1>4. ASSUME NEW k \in Nat, k < n, k \in S
      PROVE  k + 1 \in S
  <2> DEFINE t == run[k]
             u == run[k + 1]
             m == len(c)
  <2>1. Padded(t, c, k)
    BY <1>4
  <2>2. k + 1 \in 1..n /\ (k + 1) - 1 = k
    BY <1>4
  <2>3. u = PushNull(t)
    BY <1>1, <2>2 DEF IsNulling
  <2> HIDE DEF t, u, m
  <2>4. Longer(u, t, Null)
    BY <2>1, <2>3, NullGrows DEF Padded
  <2>5. /\ Sound(t) /\ t.kind = c.kind /\ len(t) = m + k
        /\ \A i \in 1..m : At(t, i) = At(c, i)
        /\ \A i \in 1..k : At(t, m + i) = Null
    BY <2>1 DEF Padded, m
  <2>6. m \in Nat
    BY <1>2 DEF m
  <2>7. /\ Sound(u) /\ u.kind = c.kind /\ len(u) = m + (k + 1)
        /\ \A i \in 1..len(t) : At(u, i) = At(t, i)
        /\ At(u, len(t) + 1) = Null
    <3>1. (m + k) + 1 = m + (k + 1)
      BY <2>6
    <3> QED
      BY <2>4, <2>5, <3>1 DEF Longer
  <2>8. \A i \in 1..m : i \in 1..len(t)
    BY <2>5, <2>6
  <2>9. ASSUME NEW i \in 1..(k + 1)
        PROVE  At(u, m + i) = Null
    <3>1. CASE i = k + 1
      <4>1. m + i = len(t) + 1
        BY <2>5, <2>6, <3>1
      <4> QED
        BY <2>7, <4>1
    <3>2. CASE i # k + 1
      <4>1. i \in 1..k /\ m + i \in 1..len(t)
        BY <2>5, <2>6, <3>2
      <4> QED
        BY <2>5, <2>7, <4>1
    <3> QED
      BY <3>1, <3>2
  <2>10. Padded(u, c, k + 1)
    BY <2>5, <2>7, <2>8, <2>9 DEF Padded, m
  <2> QED
    BY <2>2, <2>10 DEF u
<1> HIDE DEF S
<1>5. \A k \in 0..n : k \in S
  BY <1>3, <1>4, IntervalInduction
<1>6. Padded(run[n], c, n)
  BY <1>5 DEF S
<1> QED
  BY <1>1, <1>6 DEF IsNulling

IsPopping(run, col, n) ==
  /\ run[0] = col /\ Popped(col, n) = run[n]
  /\ \A i \in 1..n : run[i] = pop(run[i - 1])

FitColumns == {c \in Storage : Fit(c)}

LEMMA PoppingExists ==
  ASSUME NEW col, Fit(col), NEW n \in Nat
  PROVE  \E run : IsPopping(run, col, n)
<1> DEFINE Eqn(r) == r = [i \in 0..n |-> IF i = 0 THEN col ELSE pop(r[i - 1])]
           step == [i \in 1..n |-> [x \in FitColumns |-> pop(x)]]
<1>0. \A x : x \in FitColumns <=> Fit(x)
  BY DEF FitColumns, Fit
<1>1. step \in Steps(n, FitColumns)
  <2>1. ASSUME NEW i \in 1..n, NEW x \in FitColumns
        PROVE  pop(x) \in FitColumns
    <3>1. Fit(x) /\ len(x) \in Nat
      BY <1>0, StorageFacts DEF Fit
    <3>2. CASE len(x) = 0
      BY <3>2 DEF pop
    <3>3. CASE len(x) # 0
      BY <1>0, <3>1, <3>3, PopFit DEF FitPart
    <3> QED
      BY <3>2, <3>3
  <2> QED
    BY <2>1 DEF Steps
<1> HIDE DEF step
<1>2. PICK g : IsRecursion(g, n, FitColumns, col, step)
  BY <1>0, <1>1, RecursionExists
<1>3. Eqn(g)
  <2>1. ASSUME NEW i \in 0..n
        PROVE  g[i] = IF i = 0 THEN col ELSE pop(g[i - 1])
    <3>1. CASE i = 0
      BY <1>2, <3>1 DEF IsRecursion
    <3>2. CASE i # 0
      <4>1. i \in 1..n /\ i - 1 \in 0..n
        BY <3>2
      <4>2. g[i - 1] \in FitColumns /\ g[i] = step[i][g[i - 1]]
        BY <1>2, <4>1 DEF IsRecursion
      <4> QED
        BY <3>2, <4>1, <4>2 DEF step
    <3> QED
      BY <3>1, <3>2
  <2>2. g = [i \in 0..n |-> g[i]]
    BY <1>2 DEF IsRecursion
  <2> QED
    BY <2>1, <2>2
<1> DEFINE run == CHOOSE r : Eqn(r)
<1>4. Eqn(run)
  BY <1>3
<1>5. Popped(col, n) = run[n]
  BY DEF Popped
<1> HIDE DEF run
<1>6. run[0] = col /\ \A i \in 1..n : run[i] = pop(run[i - 1])
  BY <1>4
<1> QED
  BY <1>5, <1>6 DEF IsPopping

(* Cells popped one after the other leave the front.                        *)
LEMMA PoppedFit ==
  ASSUME NEW c, Fit(c), NEW n \in Nat, n <= len(c)
  PROVE  FitPart(Popped(c, n), c, 0, len(c) - n)
<1>1. PICK run : IsPopping(run, c, n)
  BY PoppingExists
<1> DEFINE top == len(c)
<1>2. top \in Nat
  BY StorageFacts DEF Fit
<1> DEFINE S == {k \in 0..n : FitPart(run[k], c, 0, top - k)}
<1>3. 0 \in S
  <2>1. run[0] = c
    BY <1>1 DEF IsPopping
  <2>2. \A i \in 1..top : 0 + i = i
    BY <1>2
  <2>3. top - 0 = top
    BY <1>2
  <2>4. FitPart(c, c, 0, top)
    BY <2>2 DEF FitPart
  <2> QED
    BY <2>1, <2>3, <2>4
<1>4. ASSUME NEW k \in Nat, k < n, k \in S
      PROVE  k + 1 \in S
  <2> DEFINE t == run[k]
             u == run[k + 1]
             m == top - k
             l == top - (k + 1)
  <2>1. FitPart(t, c, 0, m)
    BY <1>4
  <2>2. k + 1 \in 1..n /\ (k + 1) - 1 = k
    BY <1>4
  <2>3. u = pop(t)
    BY <1>1, <2>2 DEF IsPopping
  <2>4. m \in Nat /\ l \in Nat /\ m - 1 = l /\ m > 0
    BY <1>2, <1>4
  <2> HIDE DEF t, u, m, l
  <2>5. Fit(t) /\ t.kind = c.kind /\ len(t) = m /\ \A i \in 1..m : At(t, i) = At(c, 0 + i)
    BY <2>1 DEF FitPart
  <2>6. FitPart(pop(t), t, 0, len(t) - 1)
    BY <2>4, <2>5, PopFit
  <2>7. FitPart(u, t, 0, l)
    BY <2>3, <2>4, <2>5, <2>6
  <2>8. FitPart(u, c, 0, l)
    <3>1. \A i \in 1..l : i \in 1..m /\ 0 + i = i
      BY <2>4
    <3> QED
      BY <2>1, <2>5, <2>7, <3>1 DEF FitPart
  <2> QED
    BY <2>2, <2>8 DEF u, l
<1> HIDE DEF S
<1>5. \A k \in 0..n : k \in S
  BY <1>3, <1>4, IntervalInduction
<1>6. FitPart(run[n], c, 0, top - n)
  BY <1>5 DEF S
<1> QED
  BY <1>1, <1>6 DEF IsPopping

LEMMA PoppedPart ==
  ASSUME NEW c, Sound(c), NEW n \in Nat, n <= len(c)
  PROVE  Part(Popped(c, n), c, 0, len(c) - n)
<1>1. FitPart(Popped(c, n), c, 0, len(c) - n)
  BY SoundFit, PoppedFit
<1> QED
  BY <1>1, PartOfSound

\* The cells of a sound column of strings, one by one.
StringCells(c, cells) ==
  /\ cells = Cells(c) /\ Len(cells) = len(c)
  /\ \A i \in 1..len(c) : cells[i] = At(c, i) /\ (cells[i] = Null \/ cells[i] \in Seq(Nat))

LEMMA CellsOfStrings ==
  ASSUME NEW c, Sound(c), c.kind = "string"
  PROVE  StringCells(c, Cells(c))
<1>1. len(c) \in Nat /\ IsArena(c.arena, c.offsets) /\ Len(c.offsets) = len(c) + 1
  BY KindFacts, StorageFacts DEF Sound
<1> DEFINE cells == Cells(c)
<1>2. Len(cells) = len(c) /\ \A i \in 1..len(c) : cells[i] = At(c, i)
  BY <1>1 DEF Cells, At
<1>3. ASSUME NEW i \in 1..len(c)
      PROVE  At(c, i) = Null \/ At(c, i) \in Seq(Nat)
  <2>1. i \in 1..(Len(c.offsets) - 1)
    BY <1>1
  <2>2. Text(c.arena, c.offsets, i) \in Seq(Nat)
    BY <1>1, <2>1, ArenaText
  <2> QED
    BY <2>2, TextCells
<1> HIDE DEF cells
<1>4. StringCells(c, cells)
  BY <1>2, <1>3 DEF StringCells, cells
<1> QED
  BY <1>4 DEF cells

IsRecoding(run, c) ==
  /\ run[0] = new_column("dictionary") /\ Recoded(c, "dictionary") = run[len(c)]
  /\ \A i \in 1..len(c) :
       run[i] = IF At(c, i) = Null THEN PushNull(run[i - 1]) ELSE PushText(run[i - 1], At(c, i))

LEMMA RecodingExists ==
  ASSUME NEW c, Sound(c), c.kind = "string"
  PROVE  \E run : IsRecoding(run, c)
<1> DEFINE cells == Cells(c)
           base == new_column("dictionary")
           top == Len(cells)
           Eqn(r) == r = [i \in 0..top |->
                            IF i = 0 THEN base
                            ELSE IF cells[i] = Null THEN PushNull(r[i - 1])
                            ELSE PushText(r[i - 1], cells[i])]
           Dicts == {x \in SoundColumns : x.kind = "dictionary"}
           step == [i \in 1..top |-> [x \in Dicts |->
                      IF cells[i] = Null THEN PushNull(x) ELSE PushText(x, cells[i])]]
<1>0. Recoded(c, "dictionary") = (CHOOSE r : Eqn(r))[top]
  BY DEF Recoded
<1>1. StringCells(c, cells)
  BY CellsOfStrings
<1>2. top = len(c) /\ top \in Nat
  BY <1>1, StorageFacts DEF Sound, StringCells
<1>3. base \in Dicts
  BY NewColumn, KindFacts, SoundIn
<1> HIDE DEF cells, base, top
<1>4. step \in Steps(top, Dicts)
  <2>1. ASSUME NEW i \in 1..top, NEW x \in Dicts
        PROVE  (IF cells[i] = Null THEN PushNull(x) ELSE PushText(x, cells[i])) \in Dicts
    <3>1. Sound(x) /\ x.kind = "dictionary" /\ x.kind \notin Scalars
      BY SoundIn, KindFacts
    <3>2. cells[i] = Null \/ cells[i] \in Seq(Nat)
      BY <1>1, <1>2 DEF StringCells
    <3>3. CASE cells[i] = Null
      <4>1. Longer(PushNull(x), x, Null)
        BY <3>1, NullGrows
      <4> QED
        BY <3>1, <3>3, <4>1, SoundIn DEF Longer
    <3>4. CASE cells[i] # Null
      <4> DEFINE s == cells[i]
      <4>1. s \in Seq(Nat) /\ s # Null
        BY <3>2, <3>4
      <4> HIDE DEF s
      <4>2. Longer(PushText(x, s), x, s)
        BY <3>1, <4>1, TextGrows
      <4>3. PushText(x, s) \in Dicts
        BY <3>1, <4>2, SoundIn DEF Longer
      <4> QED
        BY <3>4, <4>3 DEF s
    <3> QED
      BY <3>3, <3>4
  <2> QED
    BY <2>1 DEF Steps
<1> HIDE DEF step, Dicts
<1>5. PICK g : IsRecursion(g, top, Dicts, base, step)
  BY <1>2, <1>3, <1>4, RecursionExists
<1>6. Eqn(g)
  <2>1. ASSUME NEW i \in 0..top
        PROVE  g[i] = IF i = 0 THEN base
                      ELSE IF cells[i] = Null THEN PushNull(g[i - 1])
                      ELSE PushText(g[i - 1], cells[i])
    <3>1. CASE i = 0
      BY <1>5, <3>1 DEF IsRecursion
    <3>2. CASE i # 0
      <4>1. i \in 1..top /\ i - 1 \in 0..top
        BY <1>2, <3>2
      <4>2. g[i - 1] \in Dicts /\ g[i] = step[i][g[i - 1]]
        BY <1>5, <4>1 DEF IsRecursion
      <4> QED
        BY <3>2, <4>1, <4>2 DEF step
    <3> QED
      BY <3>1, <3>2
  <2>2. g = [i \in 0..top |-> g[i]]
    BY <1>5 DEF IsRecursion
  <2> QED
    BY <2>1, <2>2
<1> DEFINE run == CHOOSE r : Eqn(r)
<1>7. Eqn(run)
  BY <1>6
<1>8. Recoded(c, "dictionary") = run[top]
  BY <1>0
<1> HIDE DEF run
<1>9. run[0] = base
  BY <1>2, <1>7
<1>10. ASSUME NEW i \in 1..top
       PROVE  run[i] = IF cells[i] = Null THEN PushNull(run[i - 1])
                       ELSE PushText(run[i - 1], cells[i])
  <2>1. i \in 0..top /\ i # 0
    BY <1>2
  <2> QED
    BY <1>7, <2>1
<1>11. \A i \in 1..top : cells[i] = At(c, i)
  BY <1>1, <1>2 DEF StringCells
<1>12. IsRecoding(run, c)
  BY <1>2, <1>8, <1>9, <1>10, <1>11 DEF IsRecoding, base
<1> QED
  BY <1>12

\* The column t has the cells of c, perhaps in a dictionary.
SameCells(t, c) ==
  /\ Sound(t) /\ len(t) = len(c) /\ \A i \in 1..len(c) : At(t, i) = At(c, i)
  /\ t.kind = c.kind \/ (c.kind = "string" /\ t.kind = "dictionary")

(* Recoding texts as a dictionary changes no cell.                          *)
LEMMA RecodedKeeps ==
  ASSUME NEW c, Sound(c), c.kind = "string"
  PROVE  SameCells(Recoded(c, "dictionary"), c) /\ Recoded(c, "dictionary").kind = "dictionary"
<1>1. PICK run : IsRecoding(run, c)
  BY RecodingExists
<1> DEFINE top == len(c)
           Upto(t, k) == /\ Sound(t) /\ t.kind = "dictionary" /\ len(t) = k
                         /\ \A i \in 1..k : At(t, i) = At(c, i)
<1>2. top \in Nat
  BY StorageFacts DEF Sound
<1>3. StringCells(c, Cells(c))
  BY CellsOfStrings
<1> DEFINE S == {k \in 0..top : Upto(run[k], k)}
<1>4. 0 \in S
  <2>1. Sound(run[0]) /\ run[0].kind = "dictionary" /\ len(run[0]) = 0
    BY <1>1, NewColumn, KindFacts DEF IsRecoding
  <2> QED
    BY <1>2, <2>1
<1>5. ASSUME NEW k \in Nat, k < top, k \in S
      PROVE  k + 1 \in S
  <2> DEFINE t == run[k]
             u == run[k + 1]
             cell == At(c, k + 1)
  <2>1. Upto(t, k)
    BY <1>5
  <2>2. k + 1 \in 1..top /\ (k + 1) - 1 = k
    BY <1>2, <1>5
  <2>3. u = IF cell = Null THEN PushNull(t) ELSE PushText(t, cell)
    BY <1>1, <2>2 DEF IsRecoding
  <2>4. cell = Null \/ cell \in Seq(Nat)
    BY <1>3, <2>2 DEF StringCells
  <2> HIDE DEF t, u, cell
  <2>5. Longer(u, t, cell)
    <3>1. CASE cell = Null
      BY <2>1, <2>3, <3>1, NullGrows
    <3>2. CASE cell # Null
      <4>1. Longer(PushText(t, cell), t, cell)
        BY <2>1, <2>4, <3>2, TextGrows, KindFacts
      <4> QED
        BY <2>3, <3>2, <4>1
    <3> QED
      BY <3>1, <3>2
  <2>6. /\ Sound(u) /\ u.kind = "dictionary" /\ len(u) = k + 1
        /\ \A i \in 1..k : At(u, i) = At(c, i)
        /\ At(u, k + 1) = cell
    BY <2>1, <2>5 DEF Longer
  <2>7. \A i \in 1..(k + 1) : i \in 1..k \/ i = k + 1
    OBVIOUS
  <2>8. Upto(u, k + 1)
    BY <2>6, <2>7 DEF cell
  <2> QED
    BY <2>2, <2>8 DEF u
<1> HIDE DEF S
<1>6. \A k \in 0..top : k \in S
  BY <1>2, <1>4, <1>5, IntervalInduction
<1>7. Upto(run[top], top)
  BY <1>2, <1>6 DEF S
<1>8. Recoded(c, "dictionary") = run[top]
  BY <1>1 DEF IsRecoding
<1> HIDE DEF top
<1> QED
  BY <1>7, <1>8 DEF SameCells, top

(* try_upgrade_to_dict changes no cell, whatever its limits.                *)
LEMMA UpgradeKeeps ==
  ASSUME NEW c, Sound(c), NEW min_rows, NEW cap
  PROVE  SameCells(try_upgrade_to_dict(c, min_rows, cap), c)
<1>1. SameCells(c, c)
  BY DEF SameCells
<1>2. c.kind = "string" => SameCells(Recoded(c, "dictionary"), c)
  BY RecodedKeeps
<1>3. \/ try_upgrade_to_dict(c, min_rows, cap) = c
      \/ c.kind = "string" /\ try_upgrade_to_dict(c, min_rows, cap) = Recoded(c, "dictionary")
  BY DEF try_upgrade_to_dict
<1> QED
  BY <1>1, <1>2, <1>3

\* An exact count of the nulls lets Arrow do without the bitmap.
LEMMA ExportedCells ==
  ASSUME NEW c, Fit(c)
  PROVE  /\ Exportable(c)
         /\ Exported(c) = [i \in 1..len(c) |-> At(c, i)]
<1>1. c.validity \in Bitmaps /\ c.validity.len = len(c)
  BY StorageFacts DEF Fit
<1>2. \A i \in 1..len(c) : ArrowValid(c.validity, i) = is_valid(c.validity, i)
  BY <1>1, ArrowTrusts
<1>3. Exportable(c)
  <2>1. ASSUME c.kind = "dictionary", NEW i \in 1..len(c), ArrowValid(c.validity, i)
        PROVE  c.vals[i] + 1 < Len(c.offsets)
    BY <1>2, <2>1, CodeFacts
  <2> QED
    BY <2>1 DEF Exportable
<1>4. Exported(c) = [i \in 1..len(c) |-> At(c, i)]
  BY <1>2 DEF Exported, At
<1> QED
  BY <1>3, <1>4

-----------------------------------------------------------------------------
(* What the builders hold until they are exported.                          *)

Names == ToSet(FieldOrder)

Tables == UNION {[N -> Storage] : N \in SUBSET Names}

Engines == [cols : Tables, order : Seq(Names), row_count : Nat, strict_error : BOOLEAN]

Logged == [vals : Rows, fate : {"accepted", "rejected", "partial"}]

CellValues == Nat \cup Seq(Nat) \cup {Null}

Batches == [order : Seq(Names), rows : Nat,
            cols : UNION {[N -> [kind : Kinds, cells : Seq(CellValues)]] : N \in SUBSET Names}]

Wanted(k, n) == k.schema_order # <<>> => n \in ToSet(k.schema_order) \cup k.filter_names

Emitted(k, n) == k.schema_order # <<>> => n \in ToSet(k.schema_order)

\* A builder with sound columns, all the wanted ones that its order names, each
\* with at least the rows that are counted.
SoundEngine(k, e) ==
  /\ e \in Engines
  /\ DOMAIN e.cols = ToSet(e.order)
  /\ k.schema_order # <<>> => ToSet(k.schema_order) \subseteq DOMAIN e.cols
  /\ \A n \in DOMAIN e.cols :
       Wanted(k, n) /\ Sound(e.cols[n]) /\ e.row_count <= len(e.cols[n])

Planned(k, c, e) == \A n \in DOMAIN e.cols : e.cols[n].kind = k.kinds[c][n]

Even(e) == \A n \in DOMAIN e.cols : len(e.cols[n]) = e.row_count

\* What a row has in column n of chunk c.
CellIn(k, c, n, row) ==
  IF n \in DOMAIN row THEN Meaning(k.kinds[c][n], row[n]) ELSE Null

\* The accepted rows that the builder no longer has.
Gone(e, rows) == Len(rows) - e.row_count

\* The builder has the last accepted rows, and a column for each wanted field.
RowsHeld(k, c, e, rows) ==
  /\ e.row_count <= Len(rows)
  /\ \A n \in DOMAIN e.cols : \A i \in 1..e.row_count :
       At(e.cols[n], i) = CellIn(k, c, n, rows[Gone(e, rows) + i].vals)
  /\ \A i \in 1..Len(rows) : \A n \in DOMAIN rows[i].vals :
       Wanted(k, n) => n \in DOMAIN e.cols

AssemblyTypeOK ==
  /\ cfg \in Configs
  /\ engines \in [Chunks -> Engines]
  /\ state \in [Chunks -> {"parsing", "parsed", "failed"}]
  /\ log \in [Chunks -> Seq(Logged)]

Assembling == phase \in {"parse", "upgraded"}

BuilderOK(c) ==
  /\ SoundEngine(cfg, engines[c]) /\ RowsHeld(cfg, c, engines[c], Accepted(c))
  /\ phase = "parse" => Planned(cfg, c, engines[c])
  /\ phase = "parse" /\ state[c] = "parsing" => Even(engines[c])
  /\ cfg.mode # "spill" => engines[c].row_count = Len(Accepted(c))

BuildersOK == Assembling => \A c \in Chunks : BuilderOK(c)

\* The batches of a sink have the accepted rows that the builder does not have.
SpilledOK ==
  Assembling /\ cfg.mode = "spill" =>
    /\ batches \in Seq(Batches)
    /\ \A n \in Names : Emitted(cfg, n) =>
         InBatches(n) = [i \in 1..Gone(engines[1], Accepted(1)) |->
                           CellIn(cfg, 1, n, Accepted(1)[i].vals)]

AssemblyInv == AssemblyTypeOK /\ BuildersOK /\ SpilledOK /\ RepresentationOK

(* AssemblyAssumption, of one configuration.                                *)
LEMMA ConfigFacts ==
  ASSUME NEW k \in Configs
  PROVE  /\ \E names \in SUBSET Names :
              /\ k.kinds \in Seq([names -> Kinds])
              /\ k.schema_order \in Seq(names) /\ k.filter_names \subseteq names
         /\ \A value \in k.values : ValueOK(value)
         /\ k.min_fields \in Nat
         /\ k.mode = "spill" =>
              Len(k.kinds) = 1 /\ (k.schema_order = <<>> => k.min_fields > 0)
BY AssemblyAssumption DEF ConfigOK, Names

(* Every field has one place in a record.                                   *)
LEMMA OrderFacts ==
  /\ FieldOrder \in Seq(Names) /\ Len(FieldOrder) \in Nat
  /\ \A n \in Names : \E i \in 1..Len(FieldOrder) : FieldOrder[i] = n
  /\ \A i, j \in 1..Len(FieldOrder) : FieldOrder[i] = FieldOrder[j] => i = j
BY AssemblyAssumption DEF Names, ToSet

(* Every row has values for fields whose kind is planned.                   *)
LEMMA RowFacts ==
  ASSUME cfg \in Configs, NEW c \in Chunks, NEW row \in Rows
  PROVE  /\ \A n \in DOMAIN row :
              n \in Names /\ ValueOK(row[n]) /\ cfg.kinds[c][n] \in Kinds
         /\ cfg.min_fields > 0 => DOMAIN row # {}
<1>1. PICK names \in SUBSET Names :
        cfg.kinds \in Seq([names -> Kinds])
  BY ConfigFacts
<1>2. \A d \in Chunks : cfg.kinds[d] \in [names -> Kinds]
  BY <1>1 DEF Chunks
<1>3. AllNames \subseteq names
  BY <1>2 DEF AllNames
<1>4. PICK present \in SUBSET AllNames :
        Cardinality(present) >= cfg.min_fields /\ row \in [present -> cfg.values]
  BY DEF Rows
<1>5. ASSUME NEW n \in DOMAIN row
      PROVE  n \in Names /\ ValueOK(row[n]) /\ cfg.kinds[c][n] \in Kinds
  <2>1. n \in present /\ row[n] \in cfg.values
    BY <1>4
  <2>2. n \in names
    BY <1>3, <2>1
  <2> QED
    BY <1>1, <1>2, <2>1, <2>2, ConfigFacts
<1>6. ASSUME cfg.min_fields > 0
      PROVE  DOMAIN row # {}
  <2>1. CASE present = {}
    <3>1. Cardinality(present) = 0
      BY <2>1, FS_EmptySet
    <3>2. cfg.min_fields \in Nat
      BY ConfigFacts
    <3> QED
      BY <1>4, <1>6, <3>1, <3>2
  <2>2. CASE present # {}
    BY <1>4, <2>2
  <2> QED
    BY <2>1, <2>2
<1> QED
  BY <1>5, <1>6

LEMMA TableMade ==
  ASSUME NEW N \in SUBSET Names, NEW t \in [N -> Storage]
  PROVE  t \in Tables
BY DEF Tables

LEMMA TableFacts ==
  ASSUME NEW t \in Tables
  PROVE  DOMAIN t \in SUBSET Names /\ t \in [DOMAIN t -> Storage]
<1>1. PICK N \in SUBSET Names : t \in [N -> Storage]
  BY DEF Tables
<1> QED
  BY <1>1

LEMMA EngineFacts ==
  ASSUME NEW e \in Engines
  PROVE  /\ e.cols \in Tables /\ e.order \in Seq(Names) /\ e.row_count \in Nat
         /\ e.strict_error \in BOOLEAN
         /\ DOMAIN e.cols \in SUBSET Names
         /\ e = [cols |-> e.cols, order |-> e.order, row_count |-> e.row_count,
                 strict_error |-> e.strict_error]
BY TableFacts DEF Engines

(* wants reads nothing but the plan.                                        *)
LEMMA WantsWanted ==
  ASSUME NEW n
  PROVE  wants(n) <=> Wanted(cfg, n)
BY DEF wants, Wanted, Projects

\* A column that rows of other fields leave null.
NullColumn(col, kind, rows) ==
  /\ Sound(col) /\ col.kind = kind /\ len(col) = rows
  /\ \A i \in 1..rows : At(col, i) = Null

(* A column born late begins with a null for each row before.               *)
LEMMA NullColumnMade ==
  ASSUME NEW kind \in Kinds, NEW rows \in Nat
  PROVE  NullColumn(Nulls(new_column(kind), rows), kind, rows)
<1> DEFINE c == new_column(kind)
           t == Nulls(c, rows)
<1>1. Sound(c) /\ c.kind = kind /\ len(c) = 0
  BY NewColumn
<1> HIDE DEF c
<1>2. Padded(t, c, rows)
  BY <1>1, NullsPad
<1> HIDE DEF t
<1>3. 0 + rows = rows /\ \A i \in 1..rows : 0 + i = i
  OBVIOUS
<1>4. NullColumn(t, kind, rows)
  BY <1>1, <1>2, <1>3 DEF Padded, NullColumn
<1> QED
  BY <1>4 DEF t, c

\* The builder w is e with a column for n.
Ensured(w, e, n, kind) ==
  /\ SoundEngine(cfg, w) /\ w.row_count = e.row_count
  /\ DOMAIN w.cols = DOMAIN e.cols \cup {n}
  /\ \A m \in DOMAIN e.cols : w.cols[m] = e.cols[m]
  /\ n \notin DOMAIN e.cols => NullColumn(w.cols[n], kind, e.row_count)

(* ensure_column adds at most this column, and moves no cell.               *)
LEMMA EnsureColumn ==
  ASSUME NEW e, SoundEngine(cfg, e), NEW n \in Names, Wanted(cfg, n), NEW kind \in Kinds
  PROVE  Ensured(ensure_column(e, n, kind), e, n, kind)
<1> DEFINE w == ensure_column(e, n, kind)
           rows == e.row_count
<1>1. e \in Engines /\ rows \in Nat
  BY EngineFacts DEF SoundEngine
<1>2. CASE n \in DOMAIN e.cols
  <2>1. w = e
    BY <1>2 DEF ensure_column
  <2>2. Ensured(e, e, n, kind)
    BY <1>2 DEF Ensured
  <2> QED
    BY <2>1, <2>2
<1>3. CASE n \notin DOMAIN e.cols
  <2> DEFINE col == Nulls(new_column(kind), rows)
             cols == [m \in DOMAIN e.cols \cup {n} |-> IF m = n THEN col ELSE e.cols[m]]
             order == Append(e.order, n)
  <2>1. w = [e EXCEPT !.cols = cols, !.order = order]
    BY <1>1, <1>3 DEF ensure_column, Engines
  <2>2. NullColumn(col, kind, rows)
    BY <1>1, NullColumnMade
  <2> HIDE DEF col, w
  <2>3. /\ DOMAIN cols = DOMAIN e.cols \cup {n} /\ cols[n] = col
        /\ \A m \in DOMAIN e.cols : cols[m] = e.cols[m]
    BY <1>3
  <2>4. cols \in Tables
    <3>1. DOMAIN e.cols \cup {n} \in SUBSET Names
      BY <1>1, EngineFacts
    <3>2. e.cols \in [DOMAIN e.cols -> Storage]
      BY <1>1, EngineFacts, TableFacts
    <3>3. col \in Storage
      BY <2>2 DEF NullColumn, Sound
    <3>4. cols \in [DOMAIN e.cols \cup {n} -> Storage]
      BY <3>2, <3>3
    <3> HIDE DEF cols
    <3> QED
      BY <3>1, <3>4, TableMade
  <2>5. order \in Seq(Names) /\ ToSet(order) = ToSet(e.order) \cup {n}
    BY <1>1, EngineFacts, ToSetMore
  <2> HIDE DEF cols, order
  <2>6. w.cols = cols /\ w.order = order /\ w.row_count = rows /\ w \in Engines
    BY <1>1, <2>1, <2>4, <2>5 DEF Engines
  <2>7. DOMAIN cols = ToSet(order)
    BY <2>3, <2>5 DEF SoundEngine
  <2>8. ASSUME NEW m \in DOMAIN cols
        PROVE  Wanted(cfg, m) /\ Sound(cols[m]) /\ rows <= len(cols[m])
    <3>1. CASE m = n
      BY <1>1, <2>2, <2>3, <3>1 DEF NullColumn
    <3>2. CASE m # n
      BY <2>3, <3>2 DEF SoundEngine
    <3> QED
      BY <3>1, <3>2
  <2>9. SoundEngine(cfg, w)
    BY <2>3, <2>6, <2>7, <2>8 DEF SoundEngine
  <2>10. Ensured(w, e, n, kind)
    BY <2>2, <2>3, <2>6, <2>9 DEF Ensured
  <2> QED
    BY <2>10 DEF w
<1> QED
  BY <1>2, <1>3

\* The builder p is e with a value pushed to column n.
HasPut(p, e, n, kind, value) ==
  /\ SoundEngine(cfg, p) /\ p.row_count = e.row_count
  /\ DOMAIN p.cols = DOMAIN e.cols \cup {n}
  /\ \A m \in DOMAIN e.cols \ {n} : p.cols[m] = e.cols[m]
  /\ \E base : /\ n \in DOMAIN e.cols => base = e.cols[n]
               /\ n \notin DOMAIN e.cols => NullColumn(base, kind, e.row_count)
               /\ Longer(p.cols[n], base, Meaning(base.kind, value))

(* One field of a row: its column has the cell after the counted rows.      *)
LEMMA PutOne ==
  ASSUME NEW e, SoundEngine(cfg, e), NEW n \in Names, Wanted(cfg, n), NEW kind \in Kinds,
         NEW value, ValueOK(value)
  PROVE  HasPut(PutField(e, n, kind, value), e, n, kind, value)
<1> DEFINE w == ensure_column(e, n, kind)
           base == w.cols[n]
           col == push_value(base, value)
           cols == [w.cols EXCEPT ![n] = col]
           strict == w.strict_error \/ (cfg.strict /\ violates(kind, value))
           p == PutField(e, n, kind, value)
<1>1. Ensured(w, e, n, kind)
  BY EnsureColumn
<1>2. p = [w EXCEPT !.cols[n] = col, !.strict_error = strict]
  BY DEF PutField
<1> HIDE DEF w, p
<1>3. w \in Engines /\ n \in DOMAIN w.cols /\ Sound(base) /\ w.row_count <= len(base)
      /\ w.row_count \in Nat
  BY <1>1, EngineFacts DEF Ensured, SoundEngine
<1>4. Longer(col, base, Meaning(base.kind, value))
  BY <1>3, ValueGrows
<1> HIDE DEF col
<1>5. /\ DOMAIN cols = DOMAIN w.cols /\ cols[n] = col
      /\ \A m \in DOMAIN w.cols \ {n} : cols[m] = w.cols[m]
  <2>1. w.cols \in [DOMAIN w.cols -> Storage]
    BY <1>3, EngineFacts, TableFacts
  <2> QED
    BY <1>3, <2>1
<1>6. cols \in Tables
  <2>1. w.cols \in [DOMAIN w.cols -> Storage] /\ DOMAIN w.cols \in SUBSET Names
    BY <1>3, EngineFacts, TableFacts
  <2>2. col \in Storage
    BY <1>4 DEF Longer, Sound
  <2>3. cols \in [DOMAIN w.cols -> Storage]
    BY <2>1, <2>2
  <2> HIDE DEF cols
  <2> QED
    BY <2>1, <2>3, TableMade
<1>7. strict \in BOOLEAN
  OBVIOUS
<1>8. p = [cols |-> cols, order |-> w.order, row_count |-> w.row_count, strict_error |-> strict]
  <2>1. w = [cols |-> w.cols, order |-> w.order, row_count |-> w.row_count,
             strict_error |-> w.strict_error]
    BY <1>3, EngineFacts
  <2> HIDE DEF strict
  <2> QED
    BY <1>2, <2>1
<1> HIDE DEF cols, strict
<1>9. p \in Engines /\ p.cols = cols /\ p.order = w.order /\ p.row_count = w.row_count
  BY <1>3, <1>6, <1>7, <1>8, EngineFacts DEF Engines
<1>10. SoundEngine(cfg, p)
  <2>1. SoundEngine(cfg, w)
    BY <1>1 DEF Ensured
  <2>2. ASSUME NEW m \in DOMAIN cols
        PROVE  Wanted(cfg, m) /\ Sound(cols[m]) /\ w.row_count <= len(cols[m])
    <3>1. CASE m = n
      <4>1. Sound(col) /\ len(col) = len(base) + 1 /\ len(base) \in Nat
        BY <1>3, <1>4, StorageFacts DEF Longer, Sound
      <4> QED
        BY <1>3, <1>5, <3>1, <4>1
    <3>2. CASE m # n
      BY <1>5, <2>1, <3>2 DEF SoundEngine
    <3> QED
      BY <3>1, <3>2
  <2> QED
    BY <1>5, <1>9, <2>1, <2>2 DEF SoundEngine
<1>11. /\ n \in DOMAIN e.cols => base = e.cols[n]
       /\ n \notin DOMAIN e.cols => NullColumn(base, kind, e.row_count)
  BY <1>1 DEF Ensured
<1>12. /\ p.row_count = e.row_count /\ DOMAIN p.cols = DOMAIN e.cols \cup {n}
       /\ \A m \in DOMAIN e.cols \ {n} : p.cols[m] = e.cols[m]
  BY <1>1, <1>5, <1>9 DEF Ensured
<1> HIDE DEF base
<1>13. HasPut(p, e, n, kind, value)
  BY <1>4, <1>5, <1>9, <1>10, <1>11, <1>12 DEF HasPut
<1> QED
  BY <1>13 DEF p

SoundEngines == {e \in Engines : SoundEngine(cfg, e)}

\* The field at position i goes to its column.
PutField1(e, c, row, i) ==
  LET n == FieldOrder[i]
  IN IF n \in DOMAIN row /\ wants(n) THEN PutField(e, n, cfg.kinds[c][n], row[n]) ELSE e

IsPutting(run, e, c, row) ==
  /\ run[0] = e /\ PutFields(e, c, row) = run[Len(FieldOrder)]
  /\ \A i \in 1..Len(FieldOrder) : run[i] = PutField1(run[i - 1], c, row, i)

LEMMA PuttingExists ==
  ASSUME cfg \in Configs, NEW c \in Chunks, NEW row \in Rows, NEW e, SoundEngine(cfg, e)
  PROVE  \E run : IsPutting(run, e, c, row)
<1> DEFINE top == Len(FieldOrder)
           Eqn(r) == r = [i \in 0..top |-> IF i = 0 THEN e ELSE PutField1(r[i - 1], c, row, i)]
           step == [i \in 1..top |-> [x \in SoundEngines |-> PutField1(x, c, row, i)]]
<1>0. PutFields(e, c, row) = (CHOOSE r : Eqn(r))[top]
  BY DEF PutFields, PutField1
<1>1. top \in Nat /\ e \in SoundEngines
  BY OrderFacts DEF SoundEngines, SoundEngine
<1>2. step \in Steps(top, SoundEngines)
  <2>1. ASSUME NEW i \in 1..top, NEW x \in SoundEngines
        PROVE  PutField1(x, c, row, i) \in SoundEngines
    <3> DEFINE n == FieldOrder[i]
               p == PutField(x, n, cfg.kinds[c][n], row[n])
    <3>1. SoundEngine(cfg, x)
      BY DEF SoundEngines
    <3>2. CASE n \in DOMAIN row /\ wants(n)
      <4>1. n \in Names /\ ValueOK(row[n]) /\ cfg.kinds[c][n] \in Kinds /\ Wanted(cfg, n)
        BY <3>2, RowFacts, WantsWanted
      <4>2. HasPut(p, x, n, cfg.kinds[c][n], row[n])
        BY <3>1, <4>1, PutOne
      <4> HIDE DEF p
      <4>3. p \in SoundEngines
        BY <4>2 DEF HasPut, SoundEngines, SoundEngine
      <4> QED
        BY <3>2, <4>3 DEF PutField1, p
    <3>3. CASE ~ (n \in DOMAIN row /\ wants(n))
      BY <3>3 DEF PutField1
    <3> QED
      BY <3>2, <3>3
  <2> QED
    BY <2>1 DEF Steps
<1> HIDE DEF step, top
<1>3. PICK g : IsRecursion(g, top, SoundEngines, e, step)
  BY <1>1, <1>2, RecursionExists
<1>4. Eqn(g)
  <2>1. ASSUME NEW i \in 0..top
        PROVE  g[i] = IF i = 0 THEN e ELSE PutField1(g[i - 1], c, row, i)
    <3>1. CASE i = 0
      BY <1>3, <3>1 DEF IsRecursion
    <3>2. CASE i # 0
      <4>1. i \in 1..top /\ i - 1 \in 0..top
        BY <1>1, <3>2
      <4>2. g[i - 1] \in SoundEngines /\ g[i] = step[i][g[i - 1]]
        BY <1>3, <4>1 DEF IsRecursion
      <4> QED
        BY <3>2, <4>1, <4>2 DEF step
    <3> QED
      BY <3>1, <3>2
  <2>2. g = [i \in 0..top |-> g[i]]
    BY <1>3 DEF IsRecursion
  <2> QED
    BY <2>1, <2>2
<1> DEFINE run == CHOOSE r : Eqn(r)
<1>5. Eqn(run)
  BY <1>4
<1>6. PutFields(e, c, row) = run[top]
  BY <1>0
<1> HIDE DEF run
<1>7. run[0] = e /\ \A i \in 1..top : run[i] = PutField1(run[i - 1], c, row, i)
  BY <1>1, <1>5
<1>8. IsPutting(run, e, c, row)
  BY <1>6, <1>7 DEF IsPutting, top
<1> QED
  BY <1>8

\* The row has the field and it is among the first i.
Done(n, row, i) ==
  n \in DOMAIN row /\ Wanted(cfg, n) /\ \E j \in 1..i : FieldOrder[j] = n

\* The builder t is e with the first i fields of a row.
PutUpto(t, e, c, row, i) ==
  /\ SoundEngine(cfg, t) /\ Planned(cfg, c, t) /\ t.row_count = e.row_count
  /\ DOMAIN e.cols \subseteq DOMAIN t.cols
  /\ \A n \in DOMAIN t.cols : \A j \in 1..e.row_count :
       At(t.cols[n], j) = IF n \in DOMAIN e.cols THEN At(e.cols[n], j) ELSE Null
  /\ \A n \in DOMAIN t.cols :
       IF Done(n, row, i)
         THEN /\ len(t.cols[n]) = e.row_count + 1
              /\ At(t.cols[n], e.row_count + 1) = Meaning(cfg.kinds[c][n], row[n])
         ELSE len(t.cols[n]) = e.row_count
  /\ \A n : Done(n, row, i) => n \in DOMAIN t.cols

(* The next field of a record.                                              *)
LEMMA PutNext ==
  ASSUME cfg \in Configs, NEW c \in Chunks, NEW row \in Rows, NEW e, NEW t,
         e.row_count \in Nat,
         NEW i \in Nat, i < Len(FieldOrder), PutUpto(t, e, c, row, i)
  PROVE  PutUpto(PutField1(t, c, row, i + 1), e, c, row, i + 1)
<1> DEFINE m == FieldOrder[i + 1]
           kind == cfg.kinds[c][m]
           p == PutField(t, m, kind, row[m])
           rows == e.row_count
<1>1. i + 1 \in 1..Len(FieldOrder)
  BY OrderFacts
<1>2. \A n : Done(n, row, i + 1) <=>
               Done(n, row, i) \/ (n = m /\ n \in DOMAIN row /\ Wanted(cfg, n))
  <2>1. \A j : j \in 1..(i + 1) <=> j \in 1..i \/ j = i + 1
    OBVIOUS
  <2> QED
    BY <2>1 DEF Done
<1>3. CASE ~ (m \in DOMAIN row /\ wants(m))
  <2>1. PutField1(t, c, row, i + 1) = t
    BY <1>3 DEF PutField1
  <2>2. \A n : Done(n, row, i + 1) <=> Done(n, row, i)
    BY <1>2, <1>3, WantsWanted
  <2> HIDE DEF m
  <2>3. PutUpto(t, e, c, row, i + 1)
    BY <2>2 DEF PutUpto
  <2> QED
    BY <2>1, <2>3
<1>4. CASE m \in DOMAIN row /\ wants(m)
  <2>1. m \in Names /\ ValueOK(row[m]) /\ kind \in Kinds /\ Wanted(cfg, m)
    BY <1>4, RowFacts, WantsWanted
  <2>2. PutField1(t, c, row, i + 1) = p
    BY <1>4 DEF PutField1
  <2>3. /\ SoundEngine(cfg, t) /\ Planned(cfg, c, t) /\ t.row_count = rows
        /\ DOMAIN e.cols \subseteq DOMAIN t.cols
    BY DEF PutUpto
  <2>4. HasPut(p, t, m, kind, row[m])
    BY <2>1, <2>3, PutOne
  <2> HIDE DEF p
  <2>5. ~ Done(m, row, i)
    <3>1. \A j \in 1..i : j \in 1..Len(FieldOrder) /\ j # i + 1
      BY OrderFacts
    <3>2. \A j \in 1..i : FieldOrder[j] # m
      BY <1>1, <3>1, OrderFacts
    <3> QED
      BY <3>2 DEF Done
  <2>6. Done(m, row, i + 1)
    BY <1>2, <1>4, <2>1
  <2>7. PICK base :
          /\ m \in DOMAIN t.cols => base = t.cols[m]
          /\ m \notin DOMAIN t.cols => NullColumn(base, kind, rows)
          /\ Longer(p.cols[m], base, Meaning(base.kind, row[m]))
    BY <2>3, <2>4 DEF HasPut
  <2>8. /\ base.kind = kind /\ len(base) = rows
        /\ \A j \in 1..rows :
             At(base, j) = IF m \in DOMAIN e.cols THEN At(e.cols[m], j) ELSE Null
    <3>1. CASE m \in DOMAIN t.cols
      BY <2>3, <2>5, <2>7, <3>1 DEF PutUpto, Planned
    <3>2. CASE m \notin DOMAIN t.cols
      <4>1. m \notin DOMAIN e.cols
        BY <2>3, <3>2
      <4> QED
        BY <2>7, <3>2, <4>1 DEF NullColumn
    <3> QED
      BY <3>1, <3>2
  <2> HIDE DEF m, kind
  <2>9. /\ p.cols[m].kind = kind /\ len(p.cols[m]) = rows + 1
        /\ At(p.cols[m], rows + 1) = Meaning(kind, row[m])
        /\ \A j \in 1..rows :
             At(p.cols[m], j) = IF m \in DOMAIN e.cols THEN At(e.cols[m], j) ELSE Null
    BY <2>7, <2>8 DEF Longer
  <2>10. /\ SoundEngine(cfg, p) /\ p.row_count = rows
         /\ DOMAIN p.cols = DOMAIN t.cols \cup {m}
         /\ \A n \in DOMAIN t.cols \ {m} : p.cols[n] = t.cols[n]
    BY <2>3, <2>4 DEF HasPut
  <2>11. Planned(cfg, c, p)
    <3>1. ASSUME NEW n \in DOMAIN p.cols
          PROVE  p.cols[n].kind = cfg.kinds[c][n]
      <4>1. CASE n = m
        BY <2>9, <4>1 DEF kind
      <4>2. CASE n # m
        BY <2>3, <2>10, <4>2 DEF Planned
      <4> QED
        BY <4>1, <4>2
    <3> QED
      BY <3>1 DEF Planned
  <2>12. ASSUME NEW n \in DOMAIN p.cols
         PROVE  /\ \A j \in 1..rows :
                     At(p.cols[n], j) = IF n \in DOMAIN e.cols THEN At(e.cols[n], j) ELSE Null
                /\ IF Done(n, row, i + 1)
                     THEN /\ len(p.cols[n]) = rows + 1
                          /\ At(p.cols[n], rows + 1) = Meaning(cfg.kinds[c][n], row[n])
                     ELSE len(p.cols[n]) = rows
    <3>1. CASE n = m
      BY <2>6, <2>9, <3>1 DEF kind
    <3>2. CASE n # m
      <4>1. n \in DOMAIN t.cols /\ p.cols[n] = t.cols[n]
        BY <2>10, <3>2
      <4>2. Done(n, row, i + 1) <=> Done(n, row, i)
        BY <1>2, <3>2 DEF m
      <4> QED
        BY <4>1, <4>2 DEF PutUpto
    <3> QED
      BY <3>1, <3>2
  <2>13. \A n : Done(n, row, i + 1) => n \in DOMAIN p.cols
    BY <1>2, <2>10 DEF PutUpto, m
  <2>14. PutUpto(p, e, c, row, i + 1)
    BY <2>3, <2>10, <2>11, <2>12, <2>13 DEF PutUpto
  <2> QED
    BY <2>2, <2>14
<1> QED
  BY <1>3, <1>4

(* After all fields, the columns of those that came are one cell longer.    *)
LEMMA PutAll ==
  ASSUME cfg \in Configs, NEW c \in Chunks, NEW row \in Rows, NEW e,
         SoundEngine(cfg, e), Planned(cfg, c, e), Even(e)
  PROVE  PutUpto(PutFields(e, c, row), e, c, row, Len(FieldOrder))
<1> DEFINE top == Len(FieldOrder)
<1>1. PICK run : IsPutting(run, e, c, row)
  BY PuttingExists
<1>2. top \in Nat /\ e.row_count \in Nat
  BY OrderFacts, EngineFacts DEF SoundEngine
<1> DEFINE T == {k \in 0..top : PutUpto(run[k], e, c, row, k)}
<1>3. 0 \in T
  <2>1. run[0] = e
    BY <1>1 DEF IsPutting
  <2>2. \A n : ~ Done(n, row, 0)
    <3>1. 1..0 = {}
      OBVIOUS
    <3> QED
      BY <3>1 DEF Done
  <2>3. PutUpto(e, e, c, row, 0)
    BY <2>2 DEF PutUpto, Even
  <2> QED
    BY <1>2, <2>1, <2>3
<1>4. ASSUME NEW k \in Nat, k < top, k \in T
      PROVE  k + 1 \in T
  <2>1. k + 1 \in 1..top /\ k + 1 \in 0..top /\ (k + 1) - 1 = k
    BY <1>2, <1>4
  <2>2. PutUpto(run[k], e, c, row, k)
    BY <1>4
  <2>3. run[k + 1] = PutField1(run[k], c, row, k + 1)
    BY <1>1, <2>1 DEF IsPutting
  <2>4. PutUpto(run[k + 1], e, c, row, k + 1)
    BY <1>2, <1>4, <2>2, <2>3, PutNext
  <2> QED
    BY <2>1, <2>4
<1> HIDE DEF T
<1>5. \A k \in 0..top : k \in T
  BY <1>2, <1>3, <1>4, IntervalInduction
<1>6. PutUpto(run[top], e, c, row, top)
  BY <1>2, <1>5 DEF T
<1> QED
  BY <1>1, <1>6 DEF IsPutting

\* A field of the row that the plan wants is done when all fields are.
LEMMA AllDone ==
  ASSUME cfg \in Configs, NEW c \in Chunks, NEW row \in Rows, NEW n
  PROVE  Done(n, row, Len(FieldOrder)) <=> n \in DOMAIN row /\ Wanted(cfg, n)
<1>1. ASSUME n \in DOMAIN row
      PROVE  \E j \in 1..Len(FieldOrder) : FieldOrder[j] = n
  <2>1. n \in Names
    BY <1>1, RowFacts
  <2> QED
    BY <2>1, OrderFacts
<1> QED
  BY <1>1 DEF Done

-----------------------------------------------------------------------------
(* Whole rows.                                                              *)

\* Other columns under the same names.
LEMMA NewColumns ==
  ASSUME NEW e, SoundEngine(cfg, e), NEW cols, NEW rows \in Nat, NEW strict \in BOOLEAN,
         cols = [n \in DOMAIN e.cols |-> cols[n]],
         \A n \in DOMAIN e.cols : Sound(cols[n]) /\ rows <= len(cols[n])
  PROVE  SoundEngine(cfg, [cols |-> cols, order |-> e.order, row_count |-> rows,
                           strict_error |-> strict])
<1> DEFINE t == [cols |-> cols, order |-> e.order, row_count |-> rows, strict_error |-> strict]
<1>1. e \in Engines
  BY DEF SoundEngine
<1>2. cols \in Tables
  <2>1. DOMAIN e.cols \in SUBSET Names
    BY <1>1, EngineFacts
  <2>2. cols \in [DOMAIN e.cols -> Storage]
    BY DEF Sound
  <2> QED
    BY <2>1, <2>2, TableMade
<1>3. t \in Engines /\ t.cols = cols /\ t.order = e.order /\ t.row_count = rows
  BY <1>1, <1>2, EngineFacts DEF Engines
<1>4. DOMAIN cols = DOMAIN e.cols
  OBVIOUS
<1> HIDE DEF t
<1>5. SoundEngine(cfg, t)
  BY <1>3, <1>4 DEF SoundEngine
<1> QED
  BY <1>5 DEF t

\* The builder t has the rows of e that are counted, and may have more columns.
KeepsRows(t, e) ==
  /\ t.row_count = e.row_count /\ DOMAIN e.cols \subseteq DOMAIN t.cols
  /\ \A n \in DOMAIN t.cols : \A j \in 1..e.row_count :
       At(t.cols[n], j) = IF n \in DOMAIN e.cols THEN At(e.cols[n], j) ELSE Null

(* Builders that agree on the counted rows hold the same rows.              *)
LEMMA RowsStayHeld ==
  ASSUME NEW e, NEW t, SoundEngine(cfg, e), SoundEngine(cfg, t), KeepsRows(t, e),
         NEW c, NEW rows \in Seq(Logged), RowsHeld(cfg, c, e, rows)
  PROVE  RowsHeld(cfg, c, t, rows)
<1> DEFINE gone == Gone(e, rows)
<1>1. e.row_count \in Nat /\ e.row_count <= Len(rows) /\ Len(rows) \in Nat
  BY EngineFacts DEF SoundEngine, RowsHeld
<1>2. gone \in Nat /\ gone + e.row_count = Len(rows) /\ Gone(t, rows) = gone
  BY <1>1 DEF Gone, KeepsRows
<1> HIDE DEF gone
<1>3. ASSUME NEW n \in DOMAIN t.cols, NEW i \in 1..e.row_count
      PROVE  At(t.cols[n], i) = CellIn(cfg, c, n, rows[gone + i].vals)
  <2>1. CASE n \in DOMAIN e.cols
    <3>1. At(e.cols[n], i) = CellIn(cfg, c, n, rows[gone + i].vals)
      BY <2>1 DEF RowsHeld, gone
    <3> QED
      BY <2>1, <3>1 DEF KeepsRows
  <2>2. CASE n \notin DOMAIN e.cols
    <3>1. gone + i \in 1..Len(rows)
      BY <1>1, <1>2
    <3>2. Wanted(cfg, n)
      BY DEF SoundEngine
    <3>3. n \notin DOMAIN rows[gone + i].vals
      BY <2>2, <3>1, <3>2 DEF RowsHeld
    <3>4. At(t.cols[n], i) = Null
      BY <2>2 DEF KeepsRows
    <3> QED
      BY <3>3, <3>4 DEF CellIn
  <2> QED
    BY <2>1, <2>2
<1>4. \A i \in 1..Len(rows) : \A n \in DOMAIN rows[i].vals :
        Wanted(cfg, n) => n \in DOMAIN t.cols
  BY DEF RowsHeld, KeepsRows
<1>5. t.row_count = e.row_count
  BY DEF KeepsRows
<1> QED
  BY <1>1, <1>2, <1>3, <1>4, <1>5 DEF RowsHeld

\* The builder w is e with one whole row more that is not yet counted.
RowEnded(w, e, c, row) ==
  /\ SoundEngine(cfg, w) /\ Planned(cfg, c, w) /\ KeepsRows(w, e)
  /\ \A n \in DOMAIN w.cols : /\ len(w.cols[n]) = e.row_count + 1
                              /\ At(w.cols[n], e.row_count + 1) = CellIn(cfg, c, n, row)
  /\ \A n \in DOMAIN row : Wanted(cfg, n) => n \in DOMAIN w.cols

(* Null-filling makes the row whole, and every column of one length.        *)
LEMMA FillEnds ==
  ASSUME cfg \in Configs, NEW c \in Chunks, NEW row \in Rows, NEW e, NEW t,
         e.row_count \in Nat, PutUpto(t, e, c, row, Len(FieldOrder))
  PROVE  RowEnded(FillMissing(t), e, c, row)
<1> DEFINE rows == e.row_count
           New(n) == IF len(t.cols[n]) = t.row_count THEN PushNull(t.cols[n]) ELSE t.cols[n]
           cols == [n \in DOMAIN t.cols |-> New(n)]
           w == FillMissing(t)
<1>1. /\ SoundEngine(cfg, t) /\ Planned(cfg, c, t) /\ t.row_count = rows
      /\ DOMAIN e.cols \subseteq DOMAIN t.cols
  BY DEF PutUpto
<1>2. t \in Engines
  BY <1>1 DEF SoundEngine
<1>3. w = [cols |-> cols, order |-> t.order, row_count |-> rows, strict_error |-> t.strict_error]
  <2>1. t = [cols |-> t.cols, order |-> t.order, row_count |-> t.row_count,
             strict_error |-> t.strict_error]
    BY <1>2, EngineFacts
  <2> HIDE DEF New
  <2>2. w = [t EXCEPT !.cols = cols]
    BY DEF FillMissing, New
  <2> HIDE DEF cols, w
  <2> QED
    BY <1>1, <2>1, <2>2
<1>4. ASSUME NEW n \in DOMAIN t.cols
      PROVE  /\ Sound(New(n)) /\ New(n).kind = cfg.kinds[c][n] /\ len(New(n)) = rows + 1
             /\ At(New(n), rows + 1) = CellIn(cfg, c, n, row)
             /\ \A j \in 1..rows :
                  At(New(n), j) = IF n \in DOMAIN e.cols THEN At(e.cols[n], j) ELSE Null
  <2> DEFINE col == t.cols[n]
  <2>1. Sound(col) /\ col.kind = cfg.kinds[c][n]
    BY <1>1 DEF SoundEngine, Planned
  <2>2. \A j \in 1..rows :
          At(col, j) = IF n \in DOMAIN e.cols THEN At(e.cols[n], j) ELSE Null
    BY DEF PutUpto
  <2>3. CASE n \in DOMAIN row
    <3>1. Done(n, row, Len(FieldOrder))
      BY <1>1, <2>3, AllDone DEF SoundEngine
    <3>2. len(col) = rows + 1 /\ At(col, rows + 1) = Meaning(cfg.kinds[c][n], row[n])
      BY <3>1 DEF PutUpto
    <3>3. New(n) = col
      BY <1>1, <3>2
    <3> HIDE DEF New, col
    <3> QED
      BY <2>1, <2>2, <2>3, <3>2, <3>3 DEF CellIn
  <2>4. CASE n \notin DOMAIN row
    <3>1. len(col) = rows
      BY <2>4, AllDone DEF PutUpto
    <3>2. New(n) = PushNull(col)
      BY <1>1, <3>1
    <3> HIDE DEF New, col
    <3>3. Longer(New(n), col, Null)
      BY <2>1, <3>2, NullGrows
    <3> QED
      BY <2>1, <2>2, <2>4, <3>1, <3>3 DEF CellIn, Longer
  <2> QED
    BY <2>3, <2>4
<1>5. \A n \in DOMAIN t.cols : cols[n] = New(n)
  OBVIOUS
<1> HIDE DEF New
<1>6. cols = [n \in DOMAIN t.cols |-> cols[n]] /\ DOMAIN cols = DOMAIN t.cols
  OBVIOUS
<1> HIDE DEF cols
<1>7. \A n \in DOMAIN t.cols : Sound(cols[n]) /\ rows <= len(cols[n])
  BY <1>4, <1>5
<1>8. SoundEngine(cfg, w)
  <2>1. t.strict_error \in BOOLEAN
    BY <1>2, EngineFacts
  <2> QED
    BY <1>1, <1>3, <1>6, <1>7, <2>1, NewColumns
<1>9. w.cols = cols /\ w.row_count = rows
  BY <1>3
<1> HIDE DEF w
<1>10. Planned(cfg, c, w)
  BY <1>4, <1>5, <1>6, <1>9 DEF Planned
<1>11. KeepsRows(w, e)
  BY <1>1, <1>4, <1>5, <1>6, <1>9 DEF KeepsRows
<1>12. \A n \in DOMAIN w.cols : /\ len(w.cols[n]) = rows + 1
                                /\ At(w.cols[n], rows + 1) = CellIn(cfg, c, n, row)
  BY <1>4, <1>5, <1>6, <1>9
<1>13. \A n \in DOMAIN row : Wanted(cfg, n) => n \in DOMAIN w.cols
  BY <1>6, <1>9, AllDone DEF PutUpto
<1>14. RowEnded(w, e, c, row)
  BY <1>8, <1>10, <1>11, <1>12, <1>13 DEF RowEnded
<1> QED
  BY <1>14 DEF w

\* What a builder between two rows is.
BetweenRows(e, c, rows) ==
  SoundEngine(cfg, e) /\ Planned(cfg, c, e) /\ Even(e) /\ RowsHeld(cfg, c, e, rows)

(* An accepted row is held from now on.                                     *)
LEMMA RowAccepted ==
  ASSUME cfg \in Configs, NEW c \in Chunks, NEW row \in Rows, NEW e, NEW w,
         NEW rows \in Seq(Logged), NEW x \in Logged, x.vals = row,
         BetweenRows(e, c, rows), RowEnded(w, e, c, row)
  PROVE  BetweenRows([w EXCEPT !.row_count = @ + 1], c, Append(rows, x))
<1> DEFINE more == Append(rows, x)
           t == [w EXCEPT !.row_count = w.row_count + 1]
           count == e.row_count
<1>1. /\ SoundEngine(cfg, w) /\ Planned(cfg, c, w) /\ KeepsRows(w, e) /\ w.row_count = count
      /\ SoundEngine(cfg, e) /\ RowsHeld(cfg, c, e, rows)
  BY DEF RowEnded, KeepsRows, BetweenRows
<1>2. /\ count \in Nat /\ count <= Len(rows) /\ w \in Engines /\ Len(rows) \in Nat
  BY <1>1, EngineFacts DEF SoundEngine, RowsHeld
<1>3. /\ t = [cols |-> w.cols, order |-> w.order, row_count |-> count + 1,
              strict_error |-> w.strict_error]
      /\ t.cols = w.cols /\ t.row_count = count + 1
  <2>1. w = [cols |-> w.cols, order |-> w.order, row_count |-> w.row_count,
             strict_error |-> w.strict_error]
    BY <1>2, EngineFacts
  <2> QED
    BY <1>1, <2>1
<1> HIDE DEF t
<1>4. \A n \in DOMAIN w.cols : Sound(w.cols[n]) /\ len(w.cols[n]) = count + 1
  BY <1>1 DEF SoundEngine, RowEnded
<1>5. SoundEngine(cfg, t)
  <2> DEFINE cols == w.cols
             one == count + 1
             strict == w.strict_error
  <2>1. strict \in BOOLEAN /\ one \in Nat
    BY <1>2, EngineFacts
  <2>2. cols = [n \in DOMAIN w.cols |-> cols[n]]
    BY <1>2, EngineFacts, TableFacts
  <2>3. \A n \in DOMAIN w.cols : Sound(cols[n]) /\ one <= len(cols[n])
    BY <1>2, <1>4
  <2>4. t = [cols |-> cols, order |-> w.order, row_count |-> one, strict_error |-> strict]
    BY <1>3
  <2> HIDE DEF cols, one, strict
  <2> QED
    BY <1>1, <2>1, <2>2, <2>3, <2>4, NewColumns
<1>6. Planned(cfg, c, t) /\ Even(t)
  BY <1>1, <1>3, <1>4 DEF Planned, Even
<1>7. RowsHeld(cfg, c, w, rows)
  BY <1>1, RowsStayHeld
<1>8. /\ more \in Seq(Logged) /\ Len(more) = Len(rows) + 1 /\ more[Len(rows) + 1] = x
      /\ \A i \in 1..Len(rows) : more[i] = rows[i]
  OBVIOUS
<1> HIDE DEF more
<1> DEFINE gone == Gone(w, rows)
<1>9. gone \in Nat /\ gone + count = Len(rows) /\ Gone(t, more) = gone
  BY <1>1, <1>2, <1>3, <1>8 DEF Gone
<1>10. \A n \in DOMAIN w.cols : \A i \in 1..count :
         At(w.cols[n], i) = CellIn(cfg, c, n, rows[gone + i].vals)
  BY <1>1, <1>7 DEF RowsHeld
<1> HIDE DEF gone
<1>11. ASSUME NEW n \in DOMAIN t.cols, NEW i \in 1..(count + 1)
       PROVE  At(t.cols[n], i) = CellIn(cfg, c, n, more[gone + i].vals)
  <2>1. CASE i = count + 1
    <3>1. gone + i = Len(rows) + 1
      BY <1>2, <1>9, <2>1
    <3>2. At(w.cols[n], count + 1) = CellIn(cfg, c, n, row)
      BY <1>3 DEF RowEnded
    <3> QED
      BY <1>3, <1>8, <2>1, <3>1, <3>2
  <2>2. CASE i # count + 1
    <3>1. i \in 1..count /\ gone + i \in 1..Len(rows)
      BY <1>2, <1>9, <2>2
    <3> QED
      BY <1>3, <1>8, <1>10, <3>1
  <2> QED
    BY <2>1, <2>2
<1>12. ASSUME NEW i \in 1..Len(more), NEW n \in DOMAIN more[i].vals, Wanted(cfg, n)
       PROVE  n \in DOMAIN t.cols
  <2>1. CASE i = Len(rows) + 1
    BY <1>3, <1>8, <1>12, <2>1 DEF RowEnded
  <2>2. CASE i # Len(rows) + 1
    <3>1. i \in 1..Len(rows)
      BY <1>2, <1>8, <2>2
    <3> QED
      BY <1>3, <1>7, <1>8, <1>12, <3>1 DEF RowsHeld
  <2> QED
    BY <2>1, <2>2
<1>13. count + 1 <= Len(more)
  BY <1>2, <1>8
<1>14. RowsHeld(cfg, c, t, more)
  BY <1>3, <1>9, <1>11, <1>12, <1>13 DEF RowsHeld
<1> QED
  BY <1>5, <1>6, <1>14 DEF BetweenRows, t, more

(* A rejected row is popped and leaves no trace but its columns.            *)
LEMMA RowRejected ==
  ASSUME cfg \in Configs, NEW c \in Chunks, NEW row \in Rows, NEW e, NEW w,
         NEW rows \in Seq(Logged), BetweenRows(e, c, rows), RowEnded(w, e, c, row)
  PROVE  BetweenRows(PopRow(w), c, rows)
<1> DEFINE cols == [n \in DOMAIN w.cols |-> pop(w.cols[n])]
           t == PopRow(w)
           count == e.row_count
<1>1. /\ SoundEngine(cfg, w) /\ Planned(cfg, c, w) /\ KeepsRows(w, e) /\ w.row_count = count
      /\ SoundEngine(cfg, e) /\ RowsHeld(cfg, c, e, rows)
  BY DEF RowEnded, KeepsRows, BetweenRows
<1>2. count \in Nat /\ w \in Engines /\ w.strict_error \in BOOLEAN
  BY <1>1, EngineFacts DEF SoundEngine
<1>3. t = [cols |-> cols, order |-> w.order, row_count |-> count, strict_error |-> w.strict_error]
  <2>1. w = [cols |-> w.cols, order |-> w.order, row_count |-> w.row_count,
             strict_error |-> w.strict_error]
    BY <1>2, EngineFacts
  <2>2. t = [w EXCEPT !.cols = cols]
    BY DEF PopRow
  <2> HIDE DEF cols, t
  <2> QED
    BY <1>1, <2>1, <2>2
<1>4. ASSUME NEW n \in DOMAIN w.cols
      PROVE  Part(pop(w.cols[n]), w.cols[n], 0, count)
  <2> DEFINE col == w.cols[n]
  <2>1. Sound(col) /\ len(col) = count + 1
    BY <1>1 DEF SoundEngine, RowEnded
  <2> HIDE DEF col
  <2>2. len(col) > 0 /\ len(col) - 1 = count
    BY <1>2, <2>1
  <2>3. Part(pop(col), col, 0, len(col) - 1)
    BY <2>1, <2>2, PopPart
  <2> QED
    BY <2>2, <2>3 DEF col
<1>5. /\ cols = [n \in DOMAIN w.cols |-> cols[n]] /\ DOMAIN cols = DOMAIN w.cols
      /\ \A n \in DOMAIN w.cols : cols[n] = pop(w.cols[n])
  OBVIOUS
<1> HIDE DEF cols, t
<1>6. \A n \in DOMAIN w.cols : \A i \in 1..count : At(cols[n], i) = At(w.cols[n], i)
  <2>1. \A i \in 1..count : 0 + i = i
    BY <1>2
  <2> QED
    BY <1>4, <1>5, <2>1 DEF Part
<1>7. \A n \in DOMAIN w.cols : /\ Sound(cols[n]) /\ len(cols[n]) = count
                               /\ cols[n].kind = w.cols[n].kind
  BY <1>4, <1>5 DEF Part
<1>8. SoundEngine(cfg, t)
  <2>1. \A n \in DOMAIN w.cols : Sound(cols[n]) /\ count <= len(cols[n])
    BY <1>2, <1>7
  <2> QED
    BY <1>1, <1>2, <1>3, <1>5, <2>1, NewColumns
<1>9. t.cols = cols /\ t.row_count = count
  BY <1>3
<1>10. Planned(cfg, c, t) /\ Even(t)
  BY <1>1, <1>5, <1>7, <1>9 DEF Planned, Even
<1>11. KeepsRows(t, e)
  BY <1>1, <1>5, <1>6, <1>9 DEF KeepsRows
<1>12. RowsHeld(cfg, c, t, rows)
  BY <1>1, <1>8, <1>11, RowsStayHeld
<1> QED
  BY <1>8, <1>10, <1>12 DEF BetweenRows, t

(* A row that is not ended leaves the rows before it.                       *)
LEMMA RowLeftOpen ==
  ASSUME cfg \in Configs, NEW c \in Chunks, NEW row \in Rows, NEW e,
         NEW rows \in Seq(Logged), BetweenRows(e, c, rows)
  PROVE  LET t == PutFields(e, c, row)
         IN /\ SoundEngine(cfg, t) /\ Planned(cfg, c, t) /\ RowsHeld(cfg, c, t, rows)
            /\ t.row_count = e.row_count
<1> DEFINE t == PutFields(e, c, row)
<1>1. SoundEngine(cfg, e) /\ Planned(cfg, c, e) /\ Even(e) /\ RowsHeld(cfg, c, e, rows)
  BY DEF BetweenRows
<1>2. PutUpto(t, e, c, row, Len(FieldOrder))
  BY <1>1, PutAll
<1> HIDE DEF t
<1>3. /\ SoundEngine(cfg, t) /\ Planned(cfg, c, t) /\ KeepsRows(t, e)
      /\ t.row_count = e.row_count
  BY <1>2 DEF PutUpto, KeepsRows
<1>4. RowsHeld(cfg, c, t, rows)
  BY <1>1, <1>3, RowsStayHeld
<1> QED
  BY <1>3, <1>4 DEF t

\* The builder t has the columns of e with the rows that are counted.
SameRows(t, e) ==
  /\ SoundEngine(cfg, t) /\ t.order = e.order /\ t.row_count = e.row_count
  /\ DOMAIN t.cols = DOMAIN e.cols
  /\ \A n \in DOMAIN e.cols : \A i \in 1..e.row_count :
       At(t.cols[n], i) = At(e.cols[n], i)

(* Columns exchanged for ones with the same cells in the counted rows.      *)
LEMMA OtherColumns ==
  ASSUME NEW e, SoundEngine(cfg, e), NEW cols, NEW strict \in BOOLEAN,
         cols = [n \in DOMAIN e.cols |-> cols[n]],
         \A n \in DOMAIN e.cols : Sound(cols[n]) /\ e.row_count <= len(cols[n]),
         \A n \in DOMAIN e.cols : \A i \in 1..e.row_count : At(cols[n], i) = At(e.cols[n], i)
  PROVE  SameRows([cols |-> cols, order |-> e.order, row_count |-> e.row_count,
                   strict_error |-> strict], e)
<1> DEFINE rows == e.row_count
           t == [cols |-> cols, order |-> e.order, row_count |-> rows,
                 strict_error |-> strict]
<1>1. rows \in Nat
  BY EngineFacts DEF SoundEngine
<1>2. /\ t.cols = cols /\ t.order = e.order /\ t.row_count = rows
      /\ DOMAIN cols = DOMAIN e.cols
  OBVIOUS
<1>3. SoundEngine(cfg, t)
  <2> HIDE DEF rows
  <2>1. \A n \in DOMAIN e.cols : Sound(cols[n]) /\ rows <= len(cols[n])
    BY DEF rows
  <2> QED
    BY <1>1, <2>1, NewColumns
<1> HIDE DEF t
<1>4. SameRows(t, e)
  BY <1>2, <1>3 DEF SameRows
<1> QED
  BY <1>4 DEF t

(* Such an exchange keeps the rows held.                                    *)
LEMMA SameRowsHeld ==
  ASSUME NEW e, NEW t, SoundEngine(cfg, e), SameRows(t, e), NEW c,
         NEW rows \in Seq(Logged), RowsHeld(cfg, c, e, rows)
  PROVE  RowsHeld(cfg, c, t, rows)
<1>1. SoundEngine(cfg, t) /\ KeepsRows(t, e)
  BY DEF SameRows, KeepsRows
<1> QED
  BY <1>1, RowsStayHeld

(* Strings that become dictionaries leave every row.                        *)
LEMMA UpgradeLeavesRows ==
  ASSUME NEW e, SoundEngine(cfg, e)
  PROVE  /\ SameRows(auto_dict_upgrade(e), e)
         /\ Even(e) => Even(auto_dict_upgrade(e))
         /\ auto_dict_upgrade(e).strict_error = e.strict_error
<1> DEFINE t == auto_dict_upgrade(e)
           New(n) == try_upgrade_to_dict(e.cols[n], cfg.dict_min_rows, cfg.dict_cap)
           cols == [n \in DOMAIN e.cols |-> New(n)]
           count == e.row_count
<1>1. CASE ~cfg.auto_dict
  <2>1. t = e
    BY <1>1 DEF auto_dict_upgrade
  <2> HIDE DEF t
  <2>2. SameRows(t, e) /\ (Even(e) => Even(t)) /\ t.strict_error = e.strict_error
    BY <2>1 DEF SameRows
  <2> QED
    BY <2>2 DEF t
<1>2. CASE cfg.auto_dict
  <2>1. count \in Nat /\ e \in Engines /\ e.strict_error \in BOOLEAN
    BY EngineFacts DEF SoundEngine
  <2>2. t = [cols |-> cols, order |-> e.order, row_count |-> e.row_count,
             strict_error |-> e.strict_error]
    <3>1. e = [cols |-> e.cols, order |-> e.order, row_count |-> e.row_count,
               strict_error |-> e.strict_error]
      BY <2>1, EngineFacts
    <3>2. t = [e EXCEPT !.cols = cols]
      BY <1>2 DEF auto_dict_upgrade
    <3> HIDE DEF cols, t
    <3> QED
      BY <3>1, <3>2
  <2>3. ASSUME NEW n \in DOMAIN e.cols
        PROVE  SameCells(New(n), e.cols[n]) /\ count <= len(e.cols[n])
    <3> DEFINE col == e.cols[n]
    <3>1. Sound(col) /\ count <= len(col)
      BY DEF SoundEngine
    <3> HIDE DEF col
    <3>2. SameCells(try_upgrade_to_dict(col, cfg.dict_min_rows, cfg.dict_cap), col)
      BY <3>1, UpgradeKeeps
    <3> QED
      BY <3>1, <3>2 DEF col
  <2>4. \A n \in DOMAIN e.cols : cols[n] = New(n)
    OBVIOUS
  <2> HIDE DEF New
  <2>5. cols = [n \in DOMAIN e.cols |-> cols[n]] /\ DOMAIN cols = DOMAIN e.cols
    OBVIOUS
  <2> HIDE DEF cols, t
  <2>6. \A n \in DOMAIN e.cols : Sound(cols[n]) /\ len(cols[n]) = len(e.cols[n])
    BY <2>3, <2>4 DEF SameCells
  <2>7. \A n \in DOMAIN e.cols : Sound(cols[n]) /\ count <= len(cols[n])
    BY <2>3, <2>6
  <2>8. \A n \in DOMAIN e.cols : \A i \in 1..count : At(cols[n], i) = At(e.cols[n], i)
    <3> TAKE n \in DOMAIN e.cols
    <3> TAKE i \in 1..count
    <3>1. count <= len(e.cols[n]) /\ len(e.cols[n]) \in Nat
      BY <2>3, StorageFacts DEF SoundEngine, Sound
    <3>2. i \in 1..len(e.cols[n])
      BY <2>1, <3>1
    <3> QED
      BY <2>3, <2>4, <3>2 DEF SameCells
  <2>9. SameRows(t, e)
    BY <2>1, <2>2, <2>5, <2>7, <2>8, OtherColumns
  <2>10. t.cols = cols /\ t.row_count = count /\ t.strict_error = e.strict_error
    BY <2>2
  <2>11. Even(e) => Even(t)
    BY <2>5, <2>6, <2>10 DEF Even
  <2> QED
    BY <2>9, <2>10, <2>11 DEF t
<1> QED
  BY <1>1, <1>2

(* A row that was never ended goes when the builder is finished.            *)
LEMMA NormalizeLeavesRows ==
  ASSUME NEW e, SoundEngine(cfg, e)
  PROVE  /\ SameRows(normalize(e), e) /\ Even(normalize(e))
         /\ normalize(e).strict_error = e.strict_error
<1> DEFINE t == normalize(e)
           New(n) == Popped(e.cols[n], len(e.cols[n]) - e.row_count)
           cols == [n \in DOMAIN e.cols |-> New(n)]
           count == e.row_count
<1>1. count \in Nat /\ e \in Engines /\ e.strict_error \in BOOLEAN
  BY EngineFacts DEF SoundEngine
<1>2. t = [cols |-> cols, order |-> e.order, row_count |-> e.row_count,
           strict_error |-> e.strict_error]
  <2>1. e = [cols |-> e.cols, order |-> e.order, row_count |-> e.row_count,
             strict_error |-> e.strict_error]
    BY <1>1, EngineFacts
  <2>2. t = [e EXCEPT !.cols = cols]
    BY DEF normalize
  <2> HIDE DEF cols, t
  <2> QED
    BY <2>1, <2>2
<1>3. ASSUME NEW n \in DOMAIN e.cols
      PROVE  Part(New(n), e.cols[n], 0, count)
  <2> DEFINE col == e.cols[n]
             more == len(col) - count
  <2>1. Sound(col) /\ count <= len(col)
    BY DEF SoundEngine
  <2>2. len(col) \in Nat
    BY <2>1, StorageFacts DEF Sound
  <2> HIDE DEF col
  <2>3. more \in Nat /\ more <= len(col) /\ len(col) - more = count
    BY <1>1, <2>1, <2>2
  <2>4. New(n) = Popped(col, more)
    BY DEF col
  <2> HIDE DEF New, more, count
  <2>5. Part(Popped(col, more), col, 0, len(col) - more)
    BY <2>1, <2>3, PoppedPart
  <2> QED
    BY <2>3, <2>4, <2>5 DEF col
<1>4. \A n \in DOMAIN e.cols : cols[n] = New(n)
  OBVIOUS
<1> HIDE DEF New
<1>5. cols = [n \in DOMAIN e.cols |-> cols[n]] /\ DOMAIN cols = DOMAIN e.cols
  OBVIOUS
<1> HIDE DEF cols, t
<1>6. \A n \in DOMAIN e.cols : Sound(cols[n]) /\ len(cols[n]) = count
  BY <1>3, <1>4 DEF Part
<1>7. \A n \in DOMAIN e.cols : Sound(cols[n]) /\ count <= len(cols[n])
  BY <1>1, <1>6
<1>8. \A n \in DOMAIN e.cols : \A i \in 1..count : At(cols[n], i) = At(e.cols[n], i)
  <2>1. \A i \in 1..count : 0 + i = i
    BY <1>1
  <2> QED
    BY <1>3, <1>4, <2>1 DEF Part
<1>9. SameRows(t, e)
  BY <1>1, <1>2, <1>5, <1>7, <1>8, OtherColumns
<1>10. t.cols = cols /\ t.row_count = count /\ t.strict_error = e.strict_error
  BY <1>2
<1>11. Even(t)
  BY <1>5, <1>6, <1>10 DEF Even
<1> QED
  BY <1>9, <1>10, <1>11 DEF t

-----------------------------------------------------------------------------
(* The batches of a sink.                                                   *)

(* The values of cells.                                                     *)
LEMMA AtValue ==
  ASSUME NEW c, Fit(c), NEW i \in 1..len(c)
  PROVE  At(c, i) \in CellValues
<1>1. c \in Storage /\ c.kind \in Kinds /\ c.vals \in Seq(Nat) /\ len(c) \in Nat
  BY StorageFacts DEF Fit
<1>2. CASE ~is_valid(c.validity, i)
  <2>1. At(c, i) = Null
    BY <1>2 DEF At, CellBy
  <2> QED
    BY <2>1 DEF CellValues
<1>3. CASE is_valid(c.validity, i)
  <2>1. CASE c.kind = "string"
    <3>1. IsArena(c.arena, c.offsets) /\ Len(c.offsets) = len(c) + 1
      BY <2>1, KindFacts DEF Fit
    <3>2. i \in 1..(Len(c.offsets) - 1)
      BY <1>1, <3>1
    <3>3. Text(c.arena, c.offsets, i) \in Seq(Nat)
      BY <3>1, <3>2, ArenaText
    <3>4. At(c, i) = Text(c.arena, c.offsets, i)
      BY <1>3, <2>1, TextCells
    <3> QED
      BY <3>3, <3>4 DEF CellValues
  <2>2. CASE c.kind = "dictionary"
    <3>1. IsArena(c.arena, c.offsets)
      BY <2>2, KindFacts DEF Fit
    <3>2. c.vals[i] + 1 \in 1..(Len(c.offsets) - 1) /\ c.vals[i] + 1 < Len(c.offsets)
      BY <1>3, <2>2, CodeFacts
    <3>3. Text(c.arena, c.offsets, c.vals[i] + 1) \in Seq(Nat)
      BY <3>1, <3>2, ArenaText
    <3>4. At(c, i) = Text(c.arena, c.offsets, c.vals[i] + 1)
      BY <1>3, <2>2, <3>2, CodeCells
    <3> QED
      BY <3>3, <3>4 DEF CellValues
  <2>3. CASE c.kind \in Scalars
    <3>1. Len(c.vals) = len(c)
      BY <2>3, KindFacts DEF Fit
    <3>2. c.vals[i] \in Nat
      BY <1>1, <3>1
    <3>3. At(c, i) = c.vals[i]
      BY <1>3, <2>3, ScalarCells
    <3> QED
      BY <3>2, <3>3 DEF CellValues
  <2> QED
    BY <1>1, <2>1, <2>2, <2>3, KindFacts
<1> QED
  BY <1>2, <1>3

\* The order in which the columns of a builder are emitted.
OrderIn(e) == IF Projects THEN cfg.schema_order ELSE e.order

\* The batch b has the counted rows of e.
BatchOf(b, e) ==
  /\ b \in Batches /\ b.rows = e.row_count /\ DOMAIN b.cols = ToSet(OrderIn(e))
  /\ b.order = OrderIn(e)
  /\ \A n \in DOMAIN b.cols :
       /\ n \in DOMAIN e.cols
       /\ b.cols[n].cells = [i \in 1..e.row_count |-> At(e.cols[n], i)]

(* A batch has every column that it should and the builder has.             *)
LEMMA OrderEmitted ==
  ASSUME cfg \in Configs, NEW e, SoundEngine(cfg, e)
  PROVE  /\ OrderIn(e) \in Seq(Names) /\ ToSet(OrderIn(e)) \subseteq DOMAIN e.cols
         /\ \A n \in Names : Emitted(cfg, n) =>
              n \in ToSet(OrderIn(e)) \/ n \notin DOMAIN e.cols
         /\ ToSet(OrderIn(e)) \in SUBSET Names
<1>1. /\ e.order \in Seq(Names) /\ DOMAIN e.cols = ToSet(e.order)
      /\ DOMAIN e.cols \in SUBSET Names
  BY EngineFacts DEF SoundEngine
<1>2. cfg.schema_order \in Seq(Names)
  <2>1. PICK names \in SUBSET Names : cfg.schema_order \in Seq(names)
    BY ConfigFacts
  <2> QED
    BY <2>1
<1>3. cfg.schema_order # <<>> => ToSet(cfg.schema_order) \subseteq DOMAIN e.cols
  BY DEF SoundEngine
<1> QED
  BY <1>1, <1>2, <1>3 DEF OrderIn, Projects, Emitted

(* Sound columns can be exported, all of them together.                     *)
LEMMA FinishedBatch ==
  ASSUME cfg \in Configs, NEW e, SoundEngine(cfg, e), e.strict_error = FALSE,
         OrderIn(e) # <<>>
  PROVE  \E b : BatchOf(b, e) /\ finish(e) = [ok |-> TRUE, batches |-> <<b>>]
<1> DEFINE m == normalize(e)
           t == auto_dict_upgrade(m)
           order == OrderIn(e)
           count == e.row_count
           cols == [n \in ToSet(order) |-> Column(t.cols[n])]
           b == Batch(order, count, cols)
<1>1. SameRows(m, e) /\ Even(m)
  BY NormalizeLeavesRows
<1>2. SoundEngine(cfg, m)
  BY <1>1 DEF SameRows
<1>3. SameRows(t, m) /\ Even(t)
  <2> HIDE DEF m
  <2> QED
    BY <1>1, <1>2, UpgradeLeavesRows
<1> HIDE DEF m
<1>4. /\ SoundEngine(cfg, t) /\ t.order = e.order /\ t.row_count = count
      /\ DOMAIN t.cols = DOMAIN e.cols
      /\ \A n \in DOMAIN e.cols : \A i \in 1..count : At(t.cols[n], i) = At(e.cols[n], i)
  BY <1>1, <1>3 DEF SameRows
<1>5. /\ order \in Seq(Names) /\ ToSet(order) \subseteq DOMAIN e.cols
      /\ ToSet(order) \in SUBSET Names
  BY OrderEmitted
<1>6. count \in Nat
  BY EngineFacts DEF SoundEngine
<1> HIDE DEF order
<1>7. ASSUME NEW n \in ToSet(order)
      PROVE  /\ Exportable(t.cols[n])
             /\ Column(t.cols[n]) \in [kind : Kinds, cells : Seq(CellValues)]
             /\ Column(t.cols[n]).cells = [i \in 1..count |-> At(e.cols[n], i)]
  <2> DEFINE col == t.cols[n]
             cells == [i \in 1..count |-> At(e.cols[n], i)]
  <2>1. n \in DOMAIN e.cols
    BY <1>5
  <2>2. Sound(col) /\ len(col) = count
    BY <1>3, <1>4, <2>1 DEF SoundEngine, Even
  <2>3. \A i \in 1..count : At(col, i) = At(e.cols[n], i)
    BY <1>4, <2>1
  <2> HIDE DEF col
  <2>4. Exportable(col) /\ Exported(col) = [i \in 1..len(col) |-> At(col, i)]
    BY <2>2, ExportedCells, SoundFit
  <2>5. Exported(col) = cells
    BY <2>2, <2>3, <2>4
  <2>6. \A i \in 1..count : At(e.cols[n], i) \in CellValues
    BY <2>2, <2>3, AtValue, SoundFit
  <2>7. cells \in Seq(CellValues)
    BY <1>6, <2>6
  <2>8. col.kind \in Kinds
    BY <2>2, StorageFacts DEF Sound
  <2> HIDE DEF cells
  <2>9. /\ Column(col) \in [kind : Kinds, cells : Seq(CellValues)]
        /\ Column(col).cells = cells
    BY <2>5, <2>7, <2>8 DEF Column
  <2> QED
    BY <2>4, <2>9 DEF col, cells
<1>8. finish(e) = [ok |-> TRUE, batches |-> <<b>>]
  <2>1. ~ \E n \in ToSet(order) : ~Exportable(t.cols[n])
    BY <1>7
  <2>2. order = IF Projects THEN cfg.schema_order ELSE t.order
    BY <1>4 DEF order, OrderIn
  <2>3. order # <<>>
    BY DEF order
  <2> HIDE DEF cols
  <2>4. finish(e) = IF e.strict_error \/ \E n \in ToSet(order) : ~Exportable(t.cols[n])
                      THEN Failed
                    ELSE [ok |-> TRUE,
                          batches |-> <<Batch(order, IF order = <<>> THEN 0 ELSE t.row_count,
                                              cols)>>]
    BY <2>2 DEF finish, m, cols
  <2> HIDE DEF t
  <2>5. finish(e) = [ok |-> TRUE, batches |-> <<b>>]
    BY <1>4, <2>1, <2>3, <2>4
  <2> QED
    BY <2>5
<1>9. BatchOf(b, e)
  <2>1. cols \in [ToSet(order) -> [kind : Kinds, cells : Seq(CellValues)]]
    BY <1>7
  <2>2. \A n \in ToSet(order) : cols[n].cells = [i \in 1..count |-> At(e.cols[n], i)]
    BY <1>7
  <2>3. DOMAIN cols = ToSet(order)
    OBVIOUS
  <2> HIDE DEF cols
  <2>4. cols \in UNION {[N -> [kind : Kinds, cells : Seq(CellValues)]] : N \in SUBSET Names}
    BY <1>5, <2>1
  <2>5. b \in Batches
    BY <1>5, <1>6, <2>4 DEF Batch, Batches
  <2>6. b.rows = count /\ b.cols = cols /\ b.order = order
    BY DEF Batch
  <2> HIDE DEF b
  <2> QED
    BY <1>5, <2>2, <2>3, <2>5, <2>6 DEF BatchOf, order
<1> HIDE DEF b
<1> QED
  BY <1>8, <1>9

\* What the sink splits off, and what it keeps.
PartsOf(e) == [n \in DOMAIN e.cols |-> split_off(e.cols[n], e.row_count)]

DrainedOf(e) ==
  [e EXCEPT !.cols = [n \in DOMAIN @ |-> PartsOf(e)[n].drained], !.strict_error = FALSE]

RestOf(e) == [e EXCEPT !.cols = [n \in DOMAIN @ |-> PartsOf(e)[n].rest], !.row_count = 0]

(* The part that is split off has all counted rows.                         *)
LEMMA DrainedRows ==
  ASSUME NEW e, SoundEngine(cfg, e)
  PROVE  SameRows(DrainedOf(e), e) /\ DrainedOf(e).strict_error = FALSE
<1> DEFINE t == DrainedOf(e)
           New(n) == split_off(e.cols[n], e.row_count).drained
           cols == [n \in DOMAIN e.cols |-> New(n)]
           count == e.row_count
<1>1. count \in Nat /\ e \in Engines
  BY EngineFacts DEF SoundEngine
<1>2. t = [cols |-> cols, order |-> e.order, row_count |-> e.row_count,
           strict_error |-> FALSE]
  <2>1. e = [cols |-> e.cols, order |-> e.order, row_count |-> e.row_count,
             strict_error |-> e.strict_error]
    BY <1>1, EngineFacts
  <2>2. cols = [n \in DOMAIN e.cols |-> PartsOf(e)[n].drained]
    BY DEF PartsOf
  <2>3. t = [e EXCEPT !.cols = cols, !.strict_error = FALSE]
    BY <2>2 DEF DrainedOf
  <2> HIDE DEF cols, t
  <2> QED
    BY <2>1, <2>3
<1>3. ASSUME NEW n \in DOMAIN e.cols
      PROVE  Part(New(n), e.cols[n], 0, count)
  <2> DEFINE col == e.cols[n]
  <2>1. Sound(col) /\ count <= len(col)
    BY DEF SoundEngine
  <2> HIDE DEF col, count
  <2>2. Part(split_off(col, count).drained, col, 0, count)
    BY <1>1, <2>1, SplitParts
  <2> QED
    BY <2>2 DEF col, count
<1>4. \A n \in DOMAIN e.cols : cols[n] = New(n)
  OBVIOUS
<1> HIDE DEF New
<1>5. cols = [n \in DOMAIN e.cols |-> cols[n]]
  OBVIOUS
<1> HIDE DEF cols, t
<1>6. \A n \in DOMAIN e.cols : Sound(cols[n]) /\ len(cols[n]) = count
  BY <1>3, <1>4 DEF Part
<1>7. \A n \in DOMAIN e.cols : Sound(cols[n]) /\ count <= len(cols[n])
  BY <1>1, <1>6
<1>8. \A n \in DOMAIN e.cols : \A i \in 1..count : At(cols[n], i) = At(e.cols[n], i)
  <2>1. \A i \in 1..count : 0 + i = i
    BY <1>1
  <2> QED
    BY <1>3, <1>4, <2>1 DEF Part
<1> DEFINE strict == FALSE
<1>9. strict \in BOOLEAN /\ t = [cols |-> cols, order |-> e.order, row_count |-> e.row_count,
           strict_error |-> strict]
  BY <1>2
<1> HIDE DEF strict
<1>10. SameRows(t, e)
  BY <1>5, <1>7, <1>8, <1>9, OtherColumns
<1>11. t.strict_error = FALSE
  BY <1>2
<1> QED
  BY <1>10, <1>11 DEF t

(* What remains has none, and the columns stay.                             *)
LEMMA RestRows ==
  ASSUME NEW e, SoundEngine(cfg, e), NEW c, NEW rows \in Seq(Logged),
         RowsHeld(cfg, c, e, rows)
  PROVE  /\ SoundEngine(cfg, RestOf(e)) /\ RowsHeld(cfg, c, RestOf(e), rows)
         /\ RestOf(e).row_count = 0
         /\ Planned(cfg, c, e) => Planned(cfg, c, RestOf(e))
         /\ Even(e) => Even(RestOf(e))
<1> DEFINE t == RestOf(e)
           New(n) == split_off(e.cols[n], e.row_count).rest
           cols == [n \in DOMAIN e.cols |-> New(n)]
           count == e.row_count
           zero == 0
<1>1. count \in Nat /\ e \in Engines /\ e.strict_error \in BOOLEAN
  BY EngineFacts DEF SoundEngine
<1>2. t = [cols |-> cols, order |-> e.order, row_count |-> zero,
           strict_error |-> e.strict_error]
  <2>1. e = [cols |-> e.cols, order |-> e.order, row_count |-> e.row_count,
             strict_error |-> e.strict_error]
    BY <1>1, EngineFacts
  <2>2. cols = [n \in DOMAIN e.cols |-> PartsOf(e)[n].rest]
    BY DEF PartsOf
  <2>3. t = [e EXCEPT !.cols = cols, !.row_count = 0]
    BY <2>2 DEF RestOf
  <2> HIDE DEF cols, t
  <2> QED
    BY <2>1, <2>3
<1>3. ASSUME NEW n \in DOMAIN e.cols
      PROVE  /\ Part(New(n), e.cols[n], count, len(e.cols[n]) - count)
             /\ len(e.cols[n]) \in Nat /\ count <= len(e.cols[n])
  <2> DEFINE col == e.cols[n]
  <2>1. Sound(col) /\ count <= len(col)
    BY DEF SoundEngine
  <2>2. len(col) \in Nat
    BY <2>1, StorageFacts DEF Sound
  <2> HIDE DEF col, count
  <2>3. Part(split_off(col, count).rest, col, count, len(col) - count)
    BY <1>1, <2>1, SplitParts
  <2> QED
    BY <2>1, <2>2, <2>3 DEF col, count
<1>4. \A n \in DOMAIN e.cols : cols[n] = New(n)
  OBVIOUS
<1> HIDE DEF New
<1>5. cols = [n \in DOMAIN e.cols |-> cols[n]] /\ DOMAIN cols = DOMAIN e.cols
  OBVIOUS
<1> HIDE DEF cols, t
<1>6. \A n \in DOMAIN e.cols : /\ Sound(cols[n]) /\ len(cols[n]) = len(e.cols[n]) - count
                               /\ cols[n].kind = e.cols[n].kind /\ zero <= len(cols[n])
  <2> TAKE n \in DOMAIN e.cols
  <2>1. len(e.cols[n]) - count >= 0
    BY <1>1, <1>3
  <2>2. Sound(cols[n]) /\ len(cols[n]) = len(e.cols[n]) - count /\ cols[n].kind = e.cols[n].kind
    BY <1>3, <1>4 DEF Part
  <2> QED
    BY <1>1, <1>3, <2>1, <2>2
<1>7. zero \in Nat
  OBVIOUS
<1> HIDE DEF zero
<1>8. SoundEngine(cfg, t)
  BY <1>1, <1>2, <1>5, <1>6, <1>7, NewColumns
<1>9. t.cols = cols /\ t.row_count = 0
  BY <1>2 DEF zero
<1>10. Planned(cfg, c, e) => Planned(cfg, c, t)
  BY <1>5, <1>6, <1>9 DEF Planned
<1>11. Even(e) => Even(t)
  <2> SUFFICES ASSUME Even(e)
               PROVE  Even(t)
    OBVIOUS
  <2> SUFFICES ASSUME NEW n \in DOMAIN e.cols
               PROVE  len(cols[n]) = 0
    BY <1>5, <1>9 DEF Even
  <2>1. len(e.cols[n]) = count
    BY DEF Even
  <2>2. len(cols[n]) = count - count
    BY <1>6, <2>1
  <2> QED
    BY <1>1, <2>2
<1>12. RowsHeld(cfg, c, t, rows)
  <2>1. 0 <= Len(rows) /\ 1..0 = {}
    OBVIOUS
  <2>2. \A i \in 1..Len(rows) : \A n \in DOMAIN rows[i].vals :
          Wanted(cfg, n) => n \in DOMAIN t.cols
    BY <1>5, <1>9 DEF RowsHeld
  <2> QED
    BY <1>9, <2>1, <2>2 DEF RowsHeld
<1> QED
  BY <1>8, <1>9, <1>10, <1>11, <1>12 DEF t

\* What a batch has in column n.
BatchCells(b, n) ==
  IF n \in DOMAIN b.cols THEN b.cols[n].cells ELSE [j \in 1..b.rows |-> Null]

CellsOfBatches(bs, n) == [i \in DOMAIN bs |-> BatchCells(bs[i], n)]

LEMMA BatchCellsTyped ==
  ASSUME NEW b \in Batches, NEW n
  PROVE  BatchCells(b, n) \in Seq(CellValues)
<1>1. /\ b.rows \in Nat
      /\ b.cols \in UNION {[N -> [kind : Kinds, cells : Seq(CellValues)]] : N \in SUBSET Names}
  BY DEF Batches
<1>2. PICK N \in SUBSET Names : b.cols \in [N -> [kind : Kinds, cells : Seq(CellValues)]]
  BY <1>1
<1>3. CASE n \in DOMAIN b.cols
  <2>1. b.cols[n] \in [kind : Kinds, cells : Seq(CellValues)]
    BY <1>2, <1>3
  <2>2. b.cols[n].cells \in Seq(CellValues)
    BY <2>1
  <2> QED
    BY <1>3, <2>2 DEF BatchCells
<1>4. CASE n \notin DOMAIN b.cols
  <2>1. Null \in CellValues
    BY DEF CellValues
  <2>2. [j \in 1..b.rows |-> Null] \in Seq(CellValues)
    BY <1>1, <2>1
  <2> QED
    BY <1>4, <2>2 DEF BatchCells
<1> QED
  BY <1>3, <1>4

\* A batch more.
LEMMA BatchesMore ==
  ASSUME NEW bs \in Seq(Batches), NEW b \in Batches, NEW n
  PROVE  /\ FlattenSeq(CellsOfBatches(bs, n)) \in Seq(CellValues)
         /\ FlattenSeq(CellsOfBatches(bs \o <<b>>, n)) =
              Joined(FlattenSeq(CellsOfBatches(bs, n)), BatchCells(b, n))
<1> DEFINE cs == CellsOfBatches(bs, n)
           ds == CellsOfBatches(bs \o <<b>>, n)
           c == BatchCells(b, n)
           top == Len(bs)
<1>1. c \in Seq(CellValues)
  BY BatchCellsTyped
<1>2. /\ top \in Nat /\ DOMAIN bs = 1..top /\ \A i \in 1..top : bs[i] \in Batches
      /\ DOMAIN (bs \o <<b>>) = 1..(top + 1) /\ (bs \o <<b>>)[top + 1] = b
      /\ \A i \in 1..top : (bs \o <<b>>)[i] = bs[i]
  OBVIOUS
<1>3. cs = [i \in 1..top |-> BatchCells(bs[i], n)]
  BY <1>2 DEF CellsOfBatches
<1>4. \A i \in 1..top : BatchCells(bs[i], n) \in Seq(CellValues)
  BY <1>2, BatchCellsTyped
<1>5. cs \in Seq(Seq(CellValues)) /\ Len(cs) = top
  BY <1>2, <1>3, <1>4
<1>6. ds = [i \in 1..(top + 1) |-> BatchCells((bs \o <<b>>)[i], n)]
  BY <1>2 DEF CellsOfBatches
<1> DEFINE more == Append(cs, c)
<1>7. ds = more
  <2>1. /\ DOMAIN more = 1..(top + 1) /\ more[top + 1] = c /\ \A i \in 1..top : more[i] = cs[i]
        /\ more = [i \in DOMAIN more |-> more[i]]
    <3> DEFINE T == Seq(CellValues)
    <3>1. cs \in Seq(T) /\ Len(cs) = top /\ c \in T
      BY <1>1, <1>5
    <3> HIDE DEF T, cs, c
    <3>2. /\ more \in Seq(T) /\ Len(more) = top + 1 /\ more[top + 1] = c
          /\ \A i \in 1..top : more[i] = cs[i]
      BY <1>2, <3>1
    <3> HIDE DEF more
    <3> QED
      BY <1>2, <3>2
  <2> HIDE DEF more, cs, ds, c
  <2>2. \A i \in 1..(top + 1) : ds[i] = more[i]
    <3> TAKE i \in 1..(top + 1)
    <3>1. CASE i = top + 1
      BY <1>2, <1>6, <2>1, <3>1 DEF c
    <3>2. CASE i # top + 1
      <4>1. i \in 1..top
        BY <1>2, <3>2
      <4> QED
        BY <1>2, <1>3, <1>6, <2>1, <4>1
    <3> QED
      BY <3>1, <3>2
  <2> QED
    BY <1>6, <2>1, <2>2
<1> HIDE DEF cs, ds, c
<1> QED
  BY <1>1, <1>5, <1>7, FlattenMore DEF cs, ds, c

\* The batches have the accepted rows that the builder does not have.
SpilledRows(bs, e, rows) ==
  /\ bs \in Seq(Batches)
  /\ \A n \in Names : Emitted(cfg, n) =>
       FlattenSeq(CellsOfBatches(bs, n)) =
         [i \in 1..Gone(e, rows) |-> CellIn(cfg, 1, n, rows[i].vals)]

(* A spilling sink has one builder.                                         *)
LEMMA SinkHasOne ==
  ASSUME cfg \in Configs, cfg.mode = "spill"
  PROVE  Chunks = {1} /\ 1 \in Chunks /\ (cfg.schema_order = <<>> => cfg.min_fields > 0)
<1>1. PICK names \in SUBSET Names : cfg.kinds \in Seq([names -> Kinds])
  BY ConfigFacts
<1>2. Len(cfg.kinds) = 1 /\ (cfg.schema_order = <<>> => cfg.min_fields > 0)
  BY ConfigFacts
<1>3. Chunks = 1..1
  BY <1>1, <1>2 DEF Chunks
<1> QED
  BY <1>2, <1>3

(* The rows a sink has counted have a column.                               *)
LEMMA SomeColumn ==
  ASSUME cfg \in Configs, cfg.mode = "spill", NEW e, SoundEngine(cfg, e),
         NEW rows \in Seq(Logged), RowsHeld(cfg, 1, e, rows), e.row_count > 0
  PROVE  OrderIn(e) # <<>>
<1>1. CASE cfg.schema_order # <<>>
  BY <1>1 DEF OrderIn, Projects
<1>2. CASE cfg.schema_order = <<>>
  <2>1. e.row_count \in Nat /\ e.row_count <= Len(rows) /\ DOMAIN e.cols = ToSet(e.order)
    BY EngineFacts DEF SoundEngine, RowsHeld
  <2>2. 1 \in 1..Len(rows)
    BY <2>1
  <2>3. rows[1] \in Logged
    BY <2>2
  <2>4. rows[1].vals \in Rows
    BY <2>3 DEF Logged
  <2>5. PICK n : n \in DOMAIN rows[1].vals
    BY <1>2, <2>4, SinkHasOne, RowFacts
  <2>6. Wanted(cfg, n)
    BY <1>2 DEF Wanted
  <2>7. n \in DOMAIN e.cols
    BY <2>2, <2>5, <2>6 DEF RowsHeld
  <2>8. e.order # <<>>
    BY <2>1, <2>7 DEF ToSet
  <2> QED
    BY <1>2, <2>8 DEF OrderIn, Projects
<1> QED
  BY <1>1, <1>2

(* A batch that is split off has the rows that follow the earlier ones.     *)
LEMMA SpillBatch ==
  ASSUME cfg \in Configs, cfg.mode = "spill", NEW e, SoundEngine(cfg, e),
         NEW rows \in Seq(Logged), RowsHeld(cfg, 1, e, rows), e.row_count > 0,
         NEW bs, SpilledRows(bs, e, rows)
  PROVE  SpilledRows(bs \o finish(DrainedOf(e)).batches, RestOf(e), rows)
<1> DEFINE d == DrainedOf(e)
           r == RestOf(e)
           count == e.row_count
           gone == Gone(e, rows)
<1>1. SameRows(d, e) /\ d.strict_error = FALSE
  BY DrainedRows
<1>2. r.row_count = 0
  BY RestRows
<1> HIDE DEF d, r
<1>3. /\ SoundEngine(cfg, d) /\ d.order = e.order /\ d.row_count = count
      /\ DOMAIN d.cols = DOMAIN e.cols
      /\ \A n \in DOMAIN e.cols : \A i \in 1..count : At(d.cols[n], i) = At(e.cols[n], i)
  BY <1>1 DEF SameRows
<1>4. OrderIn(d) # <<>> /\ OrderIn(d) = OrderIn(e)
  BY <1>3, SomeColumn DEF OrderIn
<1>5. PICK b : BatchOf(b, d) /\ finish(d).batches = <<b>>
  <2>1. PICK b : BatchOf(b, d) /\ finish(d) = [ok |-> TRUE, batches |-> <<b>>]
    BY <1>1, <1>3, <1>4, FinishedBatch
  <2> QED
    BY <2>1
<1>6. /\ b \in Batches /\ b.rows = count /\ DOMAIN b.cols = ToSet(OrderIn(e))
      /\ \A n \in DOMAIN b.cols :
           /\ n \in DOMAIN e.cols
           /\ b.cols[n].cells = [i \in 1..count |-> At(d.cols[n], i)]
  BY <1>3, <1>4, <1>5 DEF BatchOf
<1>7. /\ count \in Nat /\ count <= Len(rows) /\ Len(rows) \in Nat
      /\ gone \in Nat /\ gone + count = Len(rows) /\ Gone(r, rows) = gone + count
  <2>1. count \in Nat /\ count <= Len(rows) /\ Len(rows) \in Nat
    BY EngineFacts DEF SoundEngine, RowsHeld
  <2> QED
    BY <1>2, <2>1 DEF Gone
<1>8. bs \in Seq(Batches)
  BY DEF SpilledRows
<1>9. bs \o <<b>> \in Seq(Batches)
  BY <1>6, <1>8
<1>10. ASSUME NEW n \in Names, Emitted(cfg, n)
       PROVE  FlattenSeq(CellsOfBatches(bs \o <<b>>, n)) =
                [i \in 1..(gone + count) |-> CellIn(cfg, 1, n, rows[i].vals)]
  <2> DEFINE all == [i \in 1..(gone + count) |-> CellIn(cfg, 1, n, rows[i].vals)]
             before == FlattenSeq(CellsOfBatches(bs, n))
             cells == BatchCells(b, n)
  <2>1. before = [i \in 1..gone |-> CellIn(cfg, 1, n, rows[i].vals)]
    BY <1>10 DEF SpilledRows
  <2>2. /\ before \in Seq(CellValues) /\ cells \in Seq(CellValues)
        /\ FlattenSeq(CellsOfBatches(bs \o <<b>>, n)) = Joined(before, cells)
    BY <1>6, <1>8, BatchesMore, BatchCellsTyped
  <2>3. cells = [i \in 1..count |-> CellIn(cfg, 1, n, rows[gone + i].vals)]
    <3>1. CASE n \in DOMAIN b.cols
      <4>1. n \in DOMAIN e.cols /\ cells = [i \in 1..count |-> At(d.cols[n], i)]
        BY <1>6, <3>1 DEF BatchCells
      <4>2. \A i \in 1..count : At(d.cols[n], i) = CellIn(cfg, 1, n, rows[gone + i].vals)
        BY <1>3, <4>1 DEF RowsHeld
      <4> HIDE DEF cells, gone, count
      <4> QED
        BY <4>1, <4>2
    <3>2. CASE n \notin DOMAIN b.cols
      <4>1. cells = [i \in 1..count |-> Null]
        BY <1>6, <3>2 DEF BatchCells
      <4>2. n \notin DOMAIN e.cols
        BY <1>6, <1>10, <3>2, OrderEmitted
      <4>3. Wanted(cfg, n)
        BY <1>10 DEF Emitted, Wanted
      <4>4. \A i \in 1..count : gone + i \in 1..Len(rows)
        BY <1>7
      <4>5. \A i \in 1..count : n \notin DOMAIN rows[gone + i].vals
        BY <4>2, <4>3, <4>4 DEF RowsHeld
      <4>6. \A i \in 1..count : CellIn(cfg, 1, n, rows[gone + i].vals) = Null
        BY <4>5 DEF CellIn
      <4> HIDE DEF cells, gone, count
      <4> QED
        BY <4>1, <4>6
    <3> QED
      BY <3>1, <3>2
  <2> HIDE DEF before, cells, gone, count
  <2>4. Len(before) = gone /\ Len(cells) = count
    BY <1>7, <2>1, <2>2, <2>3
  <2>5. /\ all = [i \in 1..(gone + count) |-> all[i]]
        /\ \A i \in 1..gone : all[i] = before[i]
        /\ \A i \in 1..count : all[gone + i] = cells[i]
    <3>1. \A i \in 1..gone : i \in 1..(gone + count)
      BY <1>7
    <3>2. \A i \in 1..count : gone + i \in 1..(gone + count)
      BY <1>7
    <3> QED
      BY <2>1, <2>3, <3>1, <3>2
  <2> HIDE DEF all
  <2>6. Joined(before, cells) = all
    <3> DEFINE V == CellValues
    <3>1. before \in Seq(V) /\ cells \in Seq(V) /\ gone \in Nat /\ count \in Nat
      BY <1>7, <2>2
    <3> HIDE DEF V
    <3>2. Follows(all, before, cells, gone, count)
      BY <2>4, <2>5 DEF Follows
    <3> QED
      BY <3>1, <3>2, JoinedRows
  <2> QED
    BY <2>2, <2>6 DEF all
<1>11. SpilledRows(bs \o <<b>>, r, rows)
  BY <1>7, <1>9, <1>10 DEF SpilledRows
<1> QED
  BY <1>5, <1>11 DEF d, r

-----------------------------------------------------------------------------
(* The rows that were accepted.                                             *)

AcceptedIn(l) == Picked(l, {i \in DOMAIN l : l[i].fate = "accepted"})

LEMMA AcceptedAs ==
  ASSUME NEW c
  PROVE  Accepted(c) = AcceptedIn(log[c]) /\ Accepted(c)' = AcceptedIn(log'[c])
BY DEF Accepted, AcceptedIn

LEMMA NoneAccepted == AcceptedIn(<<>>) = <<>>
<1> DEFINE P == {i \in DOMAIN <<>> : <<>>[i].fate = "accepted"}
<1>1. <<>> \in Seq(Logged) /\ Len(<<>>) = 0
  OBVIOUS
<1> HIDE DEF P
<1>2. PICK run \in [0..Len(<<>>) -> Seq(Logged)] : IsPicking(run, <<>>, P)
  BY <1>1, PickingExists
<1>3. Picked(<<>>, P) = <<>>
  BY <1>1, <1>2 DEF IsPicking
<1> QED
  BY <1>3 DEF AcceptedIn, P

(* One more entry of the log.                                               *)
LEMMA AcceptedMore ==
  ASSUME NEW l \in Seq(Logged), NEW x \in Logged
  PROVE  /\ AcceptedIn(l) \in Seq(Logged)
         /\ AcceptedIn(Append(l, x)) =
              IF x.fate = "accepted" THEN Append(AcceptedIn(l), x) ELSE AcceptedIn(l)
<1> DEFINE P == {i \in DOMAIN l : l[i].fate = "accepted"}
           m == Append(l, x)
           Q == {i \in DOMAIN m : m[i].fate = "accepted"}
<1>1. AcceptedIn(l) = Picked(l, P) /\ AcceptedIn(m) = Picked(m, Q)
  BY DEF AcceptedIn
<1>2. /\ DOMAIN l = 1..Len(l) /\ Len(l) \in Nat /\ DOMAIN m = 1..(Len(l) + 1)
      /\ m[Len(l) + 1] = x /\ \A i \in 1..Len(l) : m[i] = l[i]
  OBVIOUS
<1>3. \A i \in 1..Len(l) : i \in P <=> i \in Q
  BY <1>2
<1>4. Len(l) + 1 \in Q <=> x.fate = "accepted"
  BY <1>2
<1> HIDE DEF P, Q
<1>5. Picked(l, P) \in Seq(Logged)
  BY PickedMembers
<1>6. Picked(m, Q) = IF Len(l) + 1 \in Q THEN Append(Picked(l, P), x) ELSE Picked(l, P)
  BY <1>3, PickedMore
<1> QED
  BY <1>1, <1>4, <1>5, <1>6

-----------------------------------------------------------------------------
(* The initial builders.                                                    *)

(* The columns that a projection declares are wanted and have a kind.       *)
LEMMA DeclaredColumns ==
  ASSUME cfg \in Configs, NEW c \in Chunks
  PROVE  /\ predeclared \in Seq(Names)
         /\ ToSet(predeclared) \in SUBSET Names
         /\ \A n \in ToSet(predeclared) : Wanted(cfg, n) /\ cfg.kinds[c][n] \in Kinds
         /\ cfg.schema_order # <<>> => ToSet(cfg.schema_order) \subseteq ToSet(predeclared)
<1>1. PICK names \in SUBSET Names :
        /\ cfg.kinds \in Seq([names -> Kinds])
        /\ cfg.schema_order \in Seq(names) /\ cfg.filter_names \subseteq names
  BY ConfigFacts
<1>2. cfg.kinds[c] \in [names -> Kinds]
  BY <1>1 DEF Chunks
<1> DEFINE P == {i \in DOMAIN FieldOrder :
                   FieldOrder[i] \in cfg.filter_names \ ToSet(cfg.schema_order)}
           more == Picked(FieldOrder, P)
           order == cfg.schema_order
<1>3. CASE ~Projects
  <2>1. predeclared = <<>> /\ cfg.schema_order = <<>>
    BY <1>3 DEF predeclared, Projects
  <2>2. ToSet(predeclared) = {}
    BY <2>1 DEF ToSet
  <2> QED
    BY <2>1, <2>2
<1>4. CASE Projects
  <2>1. predeclared = order \o more
    BY <1>4 DEF predeclared
  <2>2. /\ more \in Seq(Names)
        /\ ToSet(more) = {FieldOrder[i] : i \in P \cap (1..Len(FieldOrder))}
    <3> HIDE DEF P
    <3> QED
      BY OrderFacts, PickedMembers
  <2>3. ToSet(more) \subseteq cfg.filter_names
    BY <2>2
  <2>4. order \in Seq(Names)
    BY <1>1
  <2> HIDE DEF more
  <2>5. /\ order \o more \in Seq(Names)
        /\ ToSet(order \o more) = ToSet(order) \cup ToSet(more)
    <3> DEFINE s == order \o more
    <3>1. /\ s \in Seq(Names) /\ Len(s) = Len(order) + Len(more)
          /\ \A i \in 1..Len(s) : s[i] = IF i <= Len(order) THEN order[i]
                                         ELSE more[i - Len(order)]
      BY <2>2, <2>4, ConcatProperties
    <3>2. Len(order) \in Nat /\ Len(more) \in Nat
      BY <2>2, <2>4
    <3>3. /\ ToSet(s) = {s[i] : i \in 1..Len(s)}
          /\ ToSet(order) = {order[i] : i \in 1..Len(order)}
          /\ ToSet(more) = {more[i] : i \in 1..Len(more)}
      <4>1. DOMAIN s = 1..Len(s) /\ DOMAIN order = 1..Len(order) /\ DOMAIN more = 1..Len(more)
        <5> HIDE DEF s, order
        <5> QED
          BY <2>2, <2>4, <3>1
      <4> HIDE DEF s, order
      <4> QED
        BY <4>1 DEF ToSet
    <3> HIDE DEF s, order
    <3>4. ASSUME NEW i \in 1..Len(s)
          PROVE  s[i] \in ToSet(order) \cup ToSet(more)
      <4>1. CASE i <= Len(order)
        <5>1. i \in 1..Len(order)
          BY <3>2, <4>1
        <5> QED
          BY <3>1, <3>3, <4>1, <5>1
      <4>2. CASE ~(i <= Len(order))
        <5>1. i - Len(order) \in 1..Len(more)
          BY <3>1, <3>2, <4>2
        <5> QED
          BY <3>1, <3>3, <4>2, <5>1
      <4> QED
        BY <4>1, <4>2
    <3>5. ASSUME NEW i \in 1..Len(order)
          PROVE  order[i] \in ToSet(s)
      <4>1. i \in 1..Len(s) /\ i <= Len(order)
        BY <3>1, <3>2
      <4> QED
        BY <3>1, <3>3, <4>1
    <3>6. ASSUME NEW i \in 1..Len(more)
          PROVE  more[i] \in ToSet(s)
      <4>1. /\ Len(order) + i \in 1..Len(s) /\ ~(Len(order) + i <= Len(order))
            /\ (Len(order) + i) - Len(order) = i
        BY <3>1, <3>2
      <4> QED
        BY <3>1, <3>3, <4>1
    <3>7. ToSet(s) = ToSet(order) \cup ToSet(more)
      BY <3>3, <3>4, <3>5, <3>6
    <3> QED
      BY <3>1, <3>7 DEF s
  <2>6. ToSet(order) \subseteq names
    BY <1>1 DEF ToSet
  <2>7. ToSet(predeclared) \subseteq names
    BY <1>1, <2>1, <2>3, <2>5, <2>6
  <2>8. \A n \in ToSet(predeclared) : Wanted(cfg, n)
    BY <2>1, <2>3, <2>5 DEF Wanted
  <2> QED
    BY <1>1, <1>2, <2>1, <2>5, <2>7, <2>8
<1> QED
  BY <1>3, <1>4

(* A new builder holds no rows.                                             *)
LEMMA NewEngine ==
  ASSUME cfg \in Configs, NEW c \in Chunks
  PROVE  BetweenRows(new_engine(c), c, <<>>) /\ new_engine(c).row_count = 0
<1> DEFINE e == new_engine(c)
           N == ToSet(predeclared)
           cols == [n \in N |-> new_column(cfg.kinds[c][n])]
<1>1. e = [cols |-> cols, order |-> predeclared, row_count |-> 0, strict_error |-> FALSE]
  BY DEF new_engine
<1>2. /\ predeclared \in Seq(Names) /\ N \in SUBSET Names
      /\ \A n \in N : Wanted(cfg, n) /\ cfg.kinds[c][n] \in Kinds
      /\ cfg.schema_order # <<>> => ToSet(cfg.schema_order) \subseteq N
  BY DeclaredColumns
<1>3. \A n \in N : Sound(cols[n]) /\ cols[n].kind = cfg.kinds[c][n] /\ len(cols[n]) = 0
  <2> TAKE n \in N
  <2> DEFINE k == cfg.kinds[c][n]
  <2>1. k \in Kinds /\ cols[n] = new_column(k)
    BY <1>2
  <2> HIDE DEF k, cols
  <2>2. Sound(cols[n]) /\ cols[n].kind = k /\ len(cols[n]) = 0
    BY <2>1, NewColumn
  <2> QED
    BY <2>2 DEF k
<1>4. cols = [n \in N |-> cols[n]] /\ DOMAIN cols = N
  OBVIOUS
<1> HIDE DEF cols, e
<1>5. cols \in [N -> Storage]
  BY <1>3, <1>4 DEF Sound
<1>6. cols \in Tables
  <2> HIDE DEF N
  <2> QED
    BY <1>2, <1>5, TableMade
<1>7. e \in Engines
  BY <1>1, <1>2, <1>6 DEF Engines
<1>8. /\ e.cols = cols /\ e.order = predeclared /\ e.row_count = 0
  BY <1>1
<1>9. SoundEngine(cfg, e)
  BY <1>2, <1>3, <1>4, <1>7, <1>8 DEF SoundEngine
<1>10. Planned(cfg, c, e) /\ Even(e)
  BY <1>3, <1>4, <1>8 DEF Planned, Even
<1>11. RowsHeld(cfg, c, e, <<>>)
  BY <1>8 DEF RowsHeld
<1> QED
  BY <1>8, <1>9, <1>10, <1>11 DEF e, BetweenRows

-----------------------------------------------------------------------------
(* The steps that leave the builders to be built.                           *)

ChunksSame == Chunks' = Chunks /\ Logged' = Logged

LEMMA PlanStays ==
  ASSUME cfg' = cfg
  PROVE  ChunksSame
BY DEF ChunksSame, Chunks, Logged, Rows, AllNames

\* Builders that are sound are represented as they should be.
LEMMA SoundBuilders ==
  /\ Assembling /\ BuildersOK => RepresentationOK
  /\ (Assembling /\ BuildersOK => RepresentationOK)'
BY SoundRepresents DEF BuildersOK, BuilderOK, SoundEngine, RepresentationOK

(* What the types say of one chunk.                                         *)
LEMMA TypeFacts ==
  ASSUME AssemblyTypeOK, NEW c \in Chunks
  PROVE  /\ cfg \in Configs /\ engines[c] \in Engines /\ log[c] \in Seq(Logged)
         /\ state[c] \in {"parsing", "parsed", "failed"}
         /\ DOMAIN engines = Chunks /\ DOMAIN state = Chunks /\ DOMAIN log = Chunks
         /\ Accepted(c) \in Seq(Logged)
<1>1. /\ cfg \in Configs /\ engines[c] \in Engines /\ log[c] \in Seq(Logged)
      /\ state[c] \in {"parsing", "parsed", "failed"}
      /\ DOMAIN engines = Chunks /\ DOMAIN state = Chunks /\ DOMAIN log = Chunks
  BY DEF AssemblyTypeOK
<1> DEFINE l == log[c]
           P == {i \in DOMAIN l : l[i].fate = "accepted"}
<1>2. l \in Seq(Logged)
  BY <1>1
<1> HIDE DEF l, P
<1>3. Picked(l, P) \in Seq(Logged)
  BY <1>2, PickedMembers
<1> QED
  BY <1>1, <1>3 DEF Accepted, l, P

\* Chunk c is the only one that changes.
Others(c) ==
  \A d \in Chunks \ {c} :
    engines'[d] = engines[d] /\ state'[d] = state[d] /\ log'[d] = log[d]

(* A step of one builder while rows are parsed.                             *)
LEMMA OneBuilder ==
  ASSUME AssemblyInv, cfg' = cfg, phase = "parse", phase' = "parse", NEW c \in Chunks,
         Others(c), BuilderOK(c)'
  PROVE  BuildersOK' /\ RepresentationOK'
<1>1. Chunks' = Chunks
  BY PlanStays DEF ChunksSame
<1>2. ASSUME NEW d \in Chunks
      PROVE  BuilderOK(d)'
  <2>1. CASE d = c
    BY <2>1
  <2>2. CASE d # c
    <3>1. engines'[d] = engines[d] /\ state'[d] = state[d] /\ log'[d] = log[d]
      BY <2>2 DEF Others
    <3>2. BuilderOK(d)
      BY DEF AssemblyInv, BuildersOK, Assembling
    <3>3. Accepted(d)' = Accepted(d)
      BY <3>1, AcceptedAs
    <3>4. SoundEngine(cfg', engines'[d]) /\ RowsHeld(cfg', d, engines'[d], Accepted(d)')
      BY <3>1, <3>2, <3>3 DEF BuilderOK
    <3> QED
      BY <3>1, <3>2, <3>3, <3>4 DEF BuilderOK
  <2> QED
    BY <2>1, <2>2
<1>3. BuildersOK'
  BY <1>1, <1>2 DEF BuildersOK
<1>4. Assembling'
  BY DEF Assembling
<1> QED
  BY <1>3, <1>4, SoundBuilders

(* What the invariant says of one builder while rows are parsed.            *)
LEMMA InvFacts ==
  ASSUME AssemblyInv, phase = "parse", NEW c \in Chunks
  PROVE  /\ cfg \in Configs /\ engines[c] \in Engines /\ log[c] \in Seq(Logged)
         /\ DOMAIN engines = Chunks /\ DOMAIN state = Chunks /\ DOMAIN log = Chunks
         /\ Accepted(c) \in Seq(Logged) /\ Accepted(c) = AcceptedIn(log[c])
         /\ SoundEngine(cfg, engines[c]) /\ RowsHeld(cfg, c, engines[c], Accepted(c))
         /\ Planned(cfg, c, engines[c])
         /\ state[c] = "parsing" => BetweenRows(engines[c], c, Accepted(c))
         /\ cfg.mode # "spill" => engines[c].row_count = Len(Accepted(c))
<1>1. BuilderOK(c) /\ AssemblyTypeOK
  BY DEF AssemblyInv, BuildersOK, Assembling
<1>2. /\ SoundEngine(cfg, engines[c]) /\ RowsHeld(cfg, c, engines[c], Accepted(c))
      /\ Planned(cfg, c, engines[c])
      /\ state[c] = "parsing" => Even(engines[c])
      /\ cfg.mode # "spill" => engines[c].row_count = Len(Accepted(c))
  BY <1>1 DEF BuilderOK
<1> QED
  BY <1>1, <1>2, TypeFacts, AcceptedAs DEF BetweenRows

(* The batches of a sink stay right while its rows before them are the same. *)
LEMMA BatchesStay ==
  ASSUME NEW bs, NEW e, NEW rows, NEW f, NEW more, SpilledRows(bs, e, rows),
         Gone(f, more) = Gone(e, rows),
         \A i \in 1..Gone(e, rows) : more[i] = rows[i]
  PROVE  SpilledRows(bs, f, more)
<1>1. \A n : [i \in 1..Gone(f, more) |-> CellIn(cfg, 1, n, more[i].vals)] =
             [i \in 1..Gone(e, rows) |-> CellIn(cfg, 1, n, rows[i].vals)]
  OBVIOUS
<1> QED
  BY <1>1 DEF SpilledRows

(* SpilledOK in other words, now and after the step.                        *)
LEMMA SpilledAs ==
  /\ SpilledOK <=> (Assembling /\ cfg.mode = "spill" =>
                      SpilledRows(batches, engines[1], Accepted(1)))
  /\ cfg' = cfg => (SpilledOK' <=> (Assembling' /\ cfg.mode = "spill" =>
                      SpilledRows(batches', engines'[1], Accepted(1)')))
<1>1. /\ \A n : InBatches(n) = FlattenSeq(CellsOfBatches(batches, n))
      /\ \A n : InBatches(n)' = FlattenSeq(CellsOfBatches(batches', n))
  BY DEF InBatches, CellsOfBatches, BatchCells
<1> QED
  BY <1>1 DEF SpilledOK, SpilledRows

\* Chunk c gets another builder and another entry in its log.
LEMMA Updated ==
  ASSUME AssemblyTypeOK, NEW c \in Chunks, NEW e, engines' = [engines EXCEPT ![c] = e],
         NEW x, log' = [log EXCEPT ![c] = Append(log[c], x)], state' = state
  PROVE  Others(c) /\ engines'[c] = e /\ log'[c] = Append(log[c], x)
BY TypeFacts DEF Others

(* What a parsed row may make of a builder.                                 *)
LEMMA ParsedRow ==
  ASSUME AssemblyInv, phase = "parse", NEW c \in Chunks, state[c] = "parsing",
         NEW row \in Rows, NEW e, NEW x \in Logged, x.vals = row,
         LET whole == FillMissing(PutFields(engines[c], c, row))
         IN \/ x.fate = "accepted" /\ e = [whole EXCEPT !.row_count = @ + 1]
            \/ x.fate = "rejected" /\ e = PopRow(whole),
         UNCHANGED <<cfg, state, batches, phase>>,
         engines' = [engines EXCEPT ![c] = e],
         log' = [log EXCEPT ![c] = Append(log[c], x)]
  PROVE  AssemblyInv'
<1> DEFINE b == engines[c]
           put == PutFields(b, c, row)
           whole == FillMissing(put)
           rows == Accepted(c)
           more == Accepted(c)'
<1>1. /\ cfg \in Configs /\ b \in Engines /\ log[c] \in Seq(Logged)
      /\ DOMAIN engines = Chunks /\ DOMAIN state = Chunks /\ DOMAIN log = Chunks
      /\ rows \in Seq(Logged) /\ rows = AcceptedIn(log[c]) /\ BetweenRows(b, c, rows)
      /\ cfg.mode # "spill" => b.row_count = Len(rows)
  BY InvFacts
<1>2. Chunks' = Chunks /\ Logged' = Logged
  BY PlanStays DEF ChunksSame
<1>3. Others(c) /\ engines'[c] = e /\ log'[c] = Append(log[c], x)
  BY Updated DEF AssemblyInv
<1>4. more = IF x.fate = "accepted" THEN Append(rows, x) ELSE rows
  BY <1>1, <1>3, AcceptedAs, AcceptedMore
<1>5. /\ SoundEngine(cfg, b) /\ Planned(cfg, c, b) /\ Even(b) /\ RowsHeld(cfg, c, b, rows)
      /\ b.row_count \in Nat /\ b.row_count <= Len(rows) /\ Len(rows) \in Nat
  BY <1>1, EngineFacts DEF BetweenRows, RowsHeld
<1> HIDE DEF b, rows
<1>6. RowEnded(whole, b, c, row)
  <2>1. PutUpto(put, b, c, row, Len(FieldOrder))
    BY <1>1, <1>5, PutAll
  <2> HIDE DEF put
  <2> QED
    BY <1>1, <1>5, <2>1, FillEnds
<1>7. \/ x.fate = "accepted" /\ e = [whole EXCEPT !.row_count = whole.row_count + 1]
      \/ x.fate = "rejected" /\ e = PopRow(whole)
  BY DEF b
<1> HIDE DEF whole, more
<1> DEFINE Kept ==
             /\ BetweenRows(e, c, more) /\ (cfg.mode # "spill" => e.row_count = Len(more))
             /\ Gone(e, more) = Gone(b, rows) /\ \A i \in 1..Gone(b, rows) : more[i] = rows[i]
<1>8. ASSUME x.fate = "accepted"
      PROVE  Kept
  <2>1. e = [whole EXCEPT !.row_count = whole.row_count + 1] /\ more = Append(rows, x)
    BY <1>4, <1>7, <1>8
  <2>2. BetweenRows(e, c, more)
    BY <1>1, <1>6, <2>1, RowAccepted
  <2>3. whole.row_count = b.row_count /\ whole \in Engines
    BY <1>6 DEF RowEnded, KeepsRows, SoundEngine
  <2>4. e.row_count = b.row_count + 1
    <3>1. whole = [cols |-> whole.cols, order |-> whole.order,
                   row_count |-> whole.row_count, strict_error |-> whole.strict_error]
      BY <2>3, EngineFacts
    <3> QED
      BY <2>1, <2>3, <3>1
  <2>5. Len(more) = Len(rows) + 1 /\ \A i \in 1..Len(rows) : more[i] = rows[i]
    BY <1>1, <2>1
  <2>6. cfg.mode # "spill" => e.row_count = Len(more)
    BY <1>1, <2>4, <2>5
  <2>7. Gone(e, more) = Gone(b, rows) /\ \A i \in 1..Gone(b, rows) : i \in 1..Len(rows)
    <3> DEFINE m == b.row_count
               n == Len(rows)
    <3>1. m \in Nat /\ n \in Nat /\ m <= n /\ Gone(b, rows) = n - m
          /\ Gone(e, more) = (n + 1) - (m + 1)
      BY <1>5, <2>4, <2>5 DEF Gone
    <3> HIDE DEF m
    <3>2. (n + 1) - (m + 1) = n - m
      BY <3>1
    <3>3. \A i \in 1..(n - m) : i \in 1..n
      BY <3>1
    <3> QED
      BY <3>1, <3>2, <3>3
  <2>8. \A i \in 1..Gone(b, rows) : more[i] = rows[i]
    BY <2>5, <2>7
  <2> QED
    BY <2>2, <2>6, <2>7, <2>8
<1>9. ASSUME x.fate = "rejected"
      PROVE  Kept
  <2>1. e = PopRow(whole) /\ more = rows
    BY <1>4, <1>7, <1>9
  <2>2. BetweenRows(e, c, more)
    BY <1>1, <1>6, <2>1, RowRejected
  <2>3. whole.row_count = b.row_count /\ whole \in Engines
    BY <1>6 DEF RowEnded, KeepsRows, SoundEngine
  <2>4. e.row_count = b.row_count
    <3>1. whole = [cols |-> whole.cols, order |-> whole.order,
                   row_count |-> whole.row_count, strict_error |-> whole.strict_error]
      BY <2>3, EngineFacts
    <3> QED
      BY <2>1, <2>3, <3>1 DEF PopRow
  <2>5. cfg.mode # "spill" => e.row_count = Len(more)
    BY <1>1, <2>1, <2>4
  <2> QED
    BY <2>1, <2>2, <2>4, <2>5 DEF Gone
<1>10. Kept
  BY <1>7, <1>8, <1>9
<1>11. AssemblyTypeOK'
  <2>1. e \in Engines
    BY <1>10 DEF BetweenRows, SoundEngine
  <2>2. engines' \in [Chunks -> Engines] /\ log' \in [Chunks -> Seq(Logged)]
    <3>1. engines \in [Chunks -> Engines] /\ log \in [Chunks -> Seq(Logged)]
      BY DEF AssemblyInv, AssemblyTypeOK
    <3>2. Append(log[c], x) \in Seq(Logged)
      BY <1>1
    <3> QED
      BY <2>1, <3>1, <3>2
  <2> QED
    BY <1>2, <2>2 DEF AssemblyInv, AssemblyTypeOK
<1>12. BuilderOK(c)'
  BY <1>3, <1>10 DEF BuilderOK, BetweenRows, more
<1>13. BuildersOK' /\ RepresentationOK'
  BY <1>3, <1>12, OneBuilder
<1>14. SpilledOK'
  <2>1. CASE cfg.mode = "spill"
    <3>1. c = 1
      BY <1>1, <2>1, SinkHasOne
    <3>2. SpilledRows(batches, b, rows)
      BY <2>1, <3>1, SpilledAs DEF AssemblyInv, Assembling, b, rows
    <3>3. SpilledRows(batches, e, more)
      BY <1>10, <3>2, BatchesStay
    <3>4. SpilledRows(batches', engines'[1], Accepted(1)')
      BY <1>3, <3>1, <3>3 DEF more
    <3> QED
      BY <3>4, SpilledAs
  <2>2. CASE cfg.mode # "spill"
    BY <2>2, SpilledAs
  <2> QED
    BY <2>1, <2>2
<1> QED
  BY <1>11, <1>13, <1>14 DEF AssemblyInv

(* A row is parsed, and then accepted or rejected.                          *)
LEMMA ParseRowKeeps ==
  ASSUME AssemblyInv, NEW c \in Chunks, ParseRow(c)
  PROVE  AssemblyInv'
<1> DEFINE whole(row) == FillMissing(PutFields(engines[c], c, row))
           entry(row, fate) == [vals |-> row, fate |-> fate]
<1>1. phase = "parse" /\ state[c] = "parsing" /\ UNCHANGED <<cfg, state, batches, phase>>
  BY DEF ParseRow
<1>2. DOMAIN engines = Chunks
  BY <1>1, InvFacts
<1>3. PICK row \in Rows :
        \/ /\ engines' = [engines EXCEPT ![c] = [whole(row) EXCEPT !.row_count = @ + 1]]
           /\ Log(c, row, "accepted")
        \/ /\ engines' = [engines EXCEPT ![c] = PopRow(whole(row))]
           /\ Log(c, row, "rejected")
  BY DEF ParseRow
<1>4. CASE /\ engines' = [engines EXCEPT ![c] = [whole(row) EXCEPT !.row_count = @ + 1]]
           /\ Log(c, row, "accepted")
  <2> DEFINE x == entry(row, "accepted")
             e == [whole(row) EXCEPT !.row_count = @ + 1]
  <2>1. x \in Logged /\ x.vals = row /\ x.fate = "accepted"
    BY DEF Logged
  <2>2. engines' = [engines EXCEPT ![c] = e] /\ log' = [log EXCEPT ![c] = Append(log[c], x)]
    BY <1>4 DEF Log
  <2>3. \/ x.fate = "accepted" /\ e = [whole(row) EXCEPT !.row_count = @ + 1]
        \/ x.fate = "rejected" /\ e = PopRow(whole(row))
    BY <2>1
  <2> HIDE DEF x, e
  <2> QED
    BY <1>1, <2>1, <2>2, <2>3, ParsedRow
<1>5. CASE /\ engines' = [engines EXCEPT ![c] = PopRow(whole(row))]
           /\ Log(c, row, "rejected")
  <2> DEFINE x == entry(row, "rejected")
             e == PopRow(whole(row))
  <2>1. x \in Logged /\ x.vals = row /\ x.fate = "rejected"
    BY DEF Logged
  <2>2. engines' = [engines EXCEPT ![c] = e] /\ log' = [log EXCEPT ![c] = Append(log[c], x)]
    BY <1>5 DEF Log
  <2>3. \/ x.fate = "accepted" /\ e = [whole(row) EXCEPT !.row_count = @ + 1]
        \/ x.fate = "rejected" /\ e = PopRow(whole(row))
    BY <2>1
  <2> HIDE DEF x, e
  <2> QED
    BY <1>1, <2>1, <2>2, <2>3, ParsedRow
<1> QED
  BY <1>3, <1>4, <1>5

(* A chunk that parses no more needs no whole rows.                         *)
LEMMA ChunkStops ==
  ASSUME AssemblyInv, phase = "parse", NEW c \in Chunks, NEW s \in {"parsed", "failed"},
         state' = [state EXCEPT ![c] = s], UNCHANGED <<cfg, engines, batches, phase, log>>
  PROVE  AssemblyInv'
<1>1. /\ DOMAIN state = Chunks
      /\ SoundEngine(cfg, engines[c]) /\ RowsHeld(cfg, c, engines[c], Accepted(c))
      /\ Planned(cfg, c, engines[c])
      /\ cfg.mode # "spill" => engines[c].row_count = Len(Accepted(c))
  BY InvFacts
<1>2. Chunks' = Chunks /\ Logged' = Logged
  BY PlanStays DEF ChunksSame
<1>3. Others(c) /\ state'[c] # "parsing"
  BY <1>1 DEF Others
<1>4. AssemblyTypeOK'
  BY <1>2 DEF AssemblyInv, AssemblyTypeOK
<1>5. \A d : Accepted(d)' = Accepted(d)
  BY AcceptedAs
<1>6. BuilderOK(c)'
  BY <1>1, <1>3, <1>5 DEF BuilderOK
<1>7. BuildersOK' /\ RepresentationOK'
  BY <1>3, <1>6, OneBuilder
<1>8. SpilledOK'
  BY <1>5, SpilledAs DEF AssemblyInv, Assembling
<1> QED
  BY <1>4, <1>7, <1>8 DEF AssemblyInv

(* A chunk fails.                                                           *)
LEMMA ChunkFailsKeeps ==
  ASSUME AssemblyInv, NEW c \in Chunks, ChunkFails(c)
  PROVE  AssemblyInv'
BY ChunkStops DEF ChunkFails

(* A chunk ends between two rows, or inside one, which is never counted.    *)
LEMMA EndChunkKeeps ==
  ASSUME AssemblyInv, NEW c \in Chunks, EndChunk(c)
  PROVE  AssemblyInv'
<1>1. /\ phase = "parse" /\ state[c] = "parsing" /\ state' = [state EXCEPT ![c] = "parsed"]
      /\ UNCHANGED <<cfg, batches, phase>>
  BY DEF EndChunk
<1>2. CASE UNCHANGED <<engines, log>>
  BY <1>1, <1>2, ChunkStops
<1>3. CASE \E row \in Rows :
             /\ engines' = [engines EXCEPT ![c] = PutFields(@, c, row)]
             /\ Log(c, row, "partial")
  <2>1. PICK row \in Rows :
          /\ engines' = [engines EXCEPT ![c] = PutFields(@, c, row)]
          /\ Log(c, row, "partial")
    BY <1>3
  <2> DEFINE b == engines[c]
             e == PutFields(b, c, row)
             x == [vals |-> row, fate |-> "partial"]
             rows == Accepted(c)
  <2>2. /\ cfg \in Configs /\ log[c] \in Seq(Logged)
        /\ DOMAIN engines = Chunks /\ DOMAIN state = Chunks /\ DOMAIN log = Chunks
        /\ rows \in Seq(Logged) /\ rows = AcceptedIn(log[c]) /\ BetweenRows(b, c, rows)
        /\ cfg.mode # "spill" => b.row_count = Len(rows)
    BY <1>1, InvFacts
  <2>3. Chunks' = Chunks /\ Logged' = Logged
    BY <1>1, PlanStays DEF ChunksSame
  <2>4. x \in Logged /\ x.fate # "accepted"
    BY DEF Logged
  <2>5. engines' = [engines EXCEPT ![c] = e] /\ log' = [log EXCEPT ![c] = Append(log[c], x)]
    BY <2>1 DEF Log
  <2>6. /\ SoundEngine(cfg, e) /\ Planned(cfg, c, e) /\ RowsHeld(cfg, c, e, rows)
        /\ e.row_count = b.row_count
    <3> HIDE DEF b, rows
    <3> QED
      BY <2>2, RowLeftOpen
  <2> HIDE DEF e, x
  <2>7. /\ Others(c) /\ engines'[c] = e /\ log'[c] = Append(log[c], x)
        /\ state'[c] = "parsed"
    BY <1>1, <2>2, <2>5 DEF Others
  <2>8. rows = Accepted(c)'
    BY <2>2, <2>4, <2>7, AcceptedAs, AcceptedMore
  <2>9. AssemblyTypeOK'
    <3>1. e \in Engines
      BY <2>6 DEF SoundEngine
    <3>2. engines' \in [Chunks -> Engines] /\ log' \in [Chunks -> Seq(Logged)]
      <4>1. engines \in [Chunks -> Engines] /\ log \in [Chunks -> Seq(Logged)]
        BY DEF AssemblyInv, AssemblyTypeOK
      <4>2. Append(log[c], x) \in Seq(Logged)
        BY <2>2, <2>4
      <4> QED
        BY <2>5, <3>1, <4>1, <4>2
    <3>3. state' \in [Chunks -> {"parsing", "parsed", "failed"}]
      BY <1>1 DEF AssemblyInv, AssemblyTypeOK
    <3> QED
      BY <1>1, <2>3, <3>2, <3>3 DEF AssemblyInv, AssemblyTypeOK
  <2>10. BuilderOK(c)'
    BY <1>1, <2>2, <2>6, <2>7, <2>8 DEF BuilderOK
  <2>11. BuildersOK' /\ RepresentationOK'
    BY <1>1, <2>7, <2>10, OneBuilder
  <2>12. SpilledOK'
    <3>1. CASE cfg.mode = "spill"
      <4>1. c = 1
        BY <2>2, <3>1, SinkHasOne
      <4>2. SpilledRows(batches, b, rows)
        BY <1>1, <3>1, <4>1, SpilledAs DEF AssemblyInv, Assembling
      <4>3. SpilledRows(batches', engines'[1], Accepted(1)')
        BY <1>1, <2>6, <2>7, <2>8, <4>1, <4>2, BatchesStay DEF Gone
      <4> QED
        BY <1>1, <4>3, SpilledAs
    <3>2. CASE cfg.mode # "spill"
      BY <1>1, <3>2, SpilledAs
    <3> QED
      BY <3>1, <3>2
  <2> QED
    BY <2>9, <2>11, <2>12 DEF AssemblyInv
<1> QED
  BY <1>2, <1>3 DEF EndChunk

(* The sink splits off a batch.                                             *)
LEMMA SpillRowsKeeps ==
  ASSUME AssemblyInv, SpillRows
  PROVE  AssemblyInv'
<1> DEFINE b == engines[1]
           e == RestOf(b)
           rows == Accepted(1)
<1>1. /\ phase = "parse" /\ cfg.mode = "spill" /\ b.row_count > 0
      /\ UNCHANGED <<cfg, state, phase, log>>
  BY DEF SpillRows
<1>2. Chunks = {1} /\ 1 \in Chunks /\ cfg \in Configs
  <2>1. cfg \in Configs
    BY DEF AssemblyInv, AssemblyTypeOK
  <2> QED
    BY <1>1, <2>1, SinkHasOne
<1>3. /\ b \in Engines /\ DOMAIN engines = Chunks /\ rows \in Seq(Logged)
      /\ SoundEngine(cfg, b) /\ RowsHeld(cfg, 1, b, rows) /\ Planned(cfg, 1, b)
      /\ state[1] = "parsing" => Even(b)
  BY <1>1, <1>2, InvFacts DEF BetweenRows
<1>4. Chunks' = Chunks /\ Logged' = Logged
  BY <1>1, PlanStays DEF ChunksSame
<1>5. /\ batches' = batches \o finish(DrainedOf(b)).batches
      /\ engines' = [engines EXCEPT ![1].cols = [n \in DOMAIN @ |-> PartsOf(b)[n].rest],
                                    ![1].row_count = 0]
  BY DEF SpillRows, PartsOf, DrainedOf
<1>6. engines'[1] = e
  BY <1>2, <1>3, <1>5 DEF RestOf
<1>7. /\ SoundEngine(cfg, e) /\ RowsHeld(cfg, 1, e, rows) /\ Planned(cfg, 1, e)
      /\ Even(b) => Even(e)
  <2> HIDE DEF b, rows
  <2> QED
    BY <1>3, RestRows
<1>8. rows = Accepted(1)'
  BY <1>1, AcceptedAs
<1>9. AssemblyTypeOK'
  <2>1. e \in Engines
    BY <1>7 DEF SoundEngine
  <2>2. engines' = [engines EXCEPT ![1] = e]
    BY <1>2, <1>3, <1>5 DEF RestOf
  <2> HIDE DEF e
  <2>3. engines' \in [Chunks -> Engines]
    BY <1>2, <2>1, <2>2 DEF AssemblyInv, AssemblyTypeOK
  <2> QED
    BY <1>1, <1>4, <2>3 DEF AssemblyInv, AssemblyTypeOK
<1> HIDE DEF e
<1>10. BuilderOK(1)'
  BY <1>1, <1>3, <1>6, <1>7, <1>8 DEF BuilderOK
<1>11. BuildersOK' /\ RepresentationOK'
  <2>1. Others(1)
    BY <1>2 DEF Others
  <2> QED
    BY <1>1, <1>2, <1>10, <2>1, OneBuilder
<1>12. SpilledRows(batches, b, rows)
  BY <1>1, SpilledAs DEF AssemblyInv, Assembling
<1>13. SpilledRows(batches', engines'[1], Accepted(1)')
  <2>1. SpilledRows(batches \o finish(DrainedOf(b)).batches, e, rows)
    <3> HIDE DEF b, rows
    <3> QED
      BY <1>1, <1>2, <1>3, <1>12, SpillBatch DEF e
  <2> QED
    BY <1>5, <1>6, <1>8, <2>1
<1>14. SpilledOK'
  BY <1>1, <1>13, SpilledAs
<1> QED
  BY <1>9, <1>11, <1>14 DEF AssemblyInv

(* The end of a run leaves the builders as they are.                        *)
LEMMA ConcludeKeeps ==
  ASSUME AssemblyInv, NEW r, Conclude(r)
  PROVE  AssemblyInv'
<1>1. UNCHANGED <<cfg, engines, state, log>> /\ phase' \in {"ok", "err"}
  BY DEF Conclude
<1>2. Chunks' = Chunks /\ Logged' = Logged
  BY <1>1, PlanStays DEF ChunksSame
<1>3. ~Assembling'
  BY <1>1 DEF Assembling
<1>4. AssemblyTypeOK' /\ RepresentationOK'
  BY <1>1, <1>2 DEF AssemblyInv, AssemblyTypeOK, RepresentationOK
<1>5. BuildersOK' /\ SpilledOK'
  BY <1>3 DEF BuildersOK, SpilledOK
<1> QED
  BY <1>4, <1>5 DEF AssemblyInv

(* Every chunk's columns may become dictionaries.                           *)
LEMMA UpgradeChunksKeeps ==
  ASSUME AssemblyInv, UpgradeChunks
  PROVE  AssemblyInv'
<1>1. /\ phase = "parse" /\ cfg.mode = "parallel" /\ phase' = "upgraded"
      /\ engines' = [c \in Chunks |-> auto_dict_upgrade(engines[c])]
      /\ UNCHANGED <<cfg, state, batches, log>>
  BY DEF UpgradeChunks, AllParsed
<1>2. Chunks' = Chunks /\ Logged' = Logged
  BY <1>1, PlanStays DEF ChunksSame
<1>3. ASSUME NEW c \in Chunks
      PROVE  BuilderOK(c)' /\ engines'[c] \in Engines
  <2> DEFINE b == engines[c]
             e == auto_dict_upgrade(b)
             rows == Accepted(c)
  <2>1. /\ rows \in Seq(Logged) /\ SoundEngine(cfg, b) /\ RowsHeld(cfg, c, b, rows)
        /\ b.row_count = Len(rows)
    BY <1>1, InvFacts
  <2>2. rows = Accepted(c)' /\ engines'[c] = e
    BY <1>1, AcceptedAs
  <2> HIDE DEF b, rows
  <2>3. SameRows(e, b)
    BY <2>1, UpgradeLeavesRows
  <2> HIDE DEF e
  <2>4. SoundEngine(cfg, e) /\ e.row_count = Len(rows) /\ RowsHeld(cfg, c, e, rows)
    BY <2>1, <2>3, SameRowsHeld DEF SameRows
  <2> QED
    BY <1>1, <2>2, <2>4 DEF BuilderOK, SoundEngine
<1>4. BuildersOK'
  BY <1>2, <1>3 DEF BuildersOK
<1>5. RepresentationOK'
  BY <1>1, <1>4, SoundBuilders DEF Assembling
<1>6. AssemblyTypeOK'
  <2>1. engines' = [c \in Chunks |-> engines'[c]]
    BY <1>1
  <2>2. engines' \in [Chunks -> Engines]
    BY <1>3, <2>1
  <2> QED
    BY <1>1, <1>2, <2>2 DEF AssemblyInv, AssemblyTypeOK
<1>7. SpilledOK'
  BY <1>1, SpilledAs
<1> QED
  BY <1>4, <1>5, <1>6, <1>7 DEF AssemblyInv

(* A step of something else.                                                *)
LEMMA StutterKeeps ==
  ASSUME AssemblyInv, UNCHANGED vars
  PROVE  AssemblyInv'
<1>1. UNCHANGED <<cfg, engines, state, batches, phase, log>>
  BY DEF vars
<1>2. Chunks' = Chunks /\ Logged' = Logged
  BY <1>1, PlanStays DEF ChunksSame
<1>3. AssemblyTypeOK' /\ RepresentationOK'
  BY <1>1, <1>2 DEF AssemblyInv, AssemblyTypeOK, RepresentationOK
<1>4. \A c : Accepted(c)' = Accepted(c)
  BY <1>1, AcceptedAs
<1>5. Assembling' = Assembling
  BY <1>1 DEF Assembling
<1>6. BuildersOK'
  BY <1>1, <1>2, <1>4, <1>5 DEF AssemblyInv, BuildersOK, BuilderOK
<1>7. SpilledOK'
  BY <1>1, <1>4, <1>5, SpilledAs DEF AssemblyInv
<1> QED
  BY <1>3, <1>6, <1>7 DEF AssemblyInv

(* The invariant holds at the start.                                        *)
LEMMA InitInv == Init => AssemblyInv
<1> SUFFICES ASSUME Init
             PROVE  AssemblyInv
  OBVIOUS
<1>1. /\ cfg \in Configs /\ engines = [c \in Chunks |-> new_engine(c)]
      /\ state = [c \in Chunks |-> "parsing"] /\ log = [c \in Chunks |-> <<>>]
      /\ batches = <<>> /\ phase = "parse"
  BY DEF Init
<1>2. ASSUME NEW c \in Chunks
      PROVE  BuilderOK(c) /\ engines[c] \in Engines /\ Accepted(c) = <<>>
  <2> DEFINE e == new_engine(c)
  <2>1. BetweenRows(e, c, <<>>) /\ e.row_count = 0
    BY <1>1, NewEngine
  <2>2. Accepted(c) = <<>> /\ engines[c] = e
    BY <1>1, AcceptedAs, NoneAccepted
  <2> HIDE DEF e
  <2>3. Len(<<>>) = 0
    OBVIOUS
  <2> QED
    BY <2>1, <2>2, <2>3 DEF BuilderOK, BetweenRows, SoundEngine
<1>3. AssemblyTypeOK
  <2>1. engines \in [Chunks -> Engines]
    BY <1>1, <1>2
  <2> QED
    BY <1>1, <2>1 DEF AssemblyTypeOK
<1>4. BuildersOK
  BY <1>2 DEF BuildersOK
<1>5. RepresentationOK
  BY <1>1, <1>4, SoundBuilders DEF Assembling
<1>6. SpilledOK
  <2>1. CASE cfg.mode = "spill"
    <3>1. 1 \in Chunks
      BY <1>1, <2>1, SinkHasOne
    <3>2. Accepted(1) = <<>> /\ engines[1].row_count = 0
      BY <1>1, <1>2, <3>1, NewEngine
    <3>3. Gone(engines[1], Accepted(1)) = 0
      BY <3>2 DEF Gone
    <3>4. \A n : CellsOfBatches(<<>>, n) = <<>>
      BY DEF CellsOfBatches
    <3>5. FlattenSeq(<<>>) = <<>>
      BY DEF FlattenSeq
    <3>6. SpilledRows(batches, engines[1], Accepted(1))
      <4>1. batches \in Seq(Batches)
        BY <1>1
      <4>2. \A n : [i \in 1..0 |-> CellIn(cfg, 1, n, Accepted(1)[i].vals)] = <<>>
        OBVIOUS
      <4> QED
        BY <1>1, <3>3, <3>4, <3>5, <4>1, <4>2 DEF SpilledRows
    <3> QED
      BY <3>6, SpilledAs
  <2>2. CASE cfg.mode # "spill"
    BY <2>2, SpilledAs
  <2> QED
    BY <2>1, <2>2
<1> QED
  BY <1>3, <1>4, <1>5, <1>6 DEF AssemblyInv

-----------------------------------------------------------------------------
(* The cells that the builders hold.                                        *)

LEMMA CellsTyped ==
  ASSUME NEW bs \in Seq(Batches), NEW n
  PROVE  FlattenSeq(CellsOfBatches(bs, n)) \in Seq(CellValues)
<1> DEFINE cs == CellsOfBatches(bs, n)
           T == Seq(CellValues)
<1>1. DOMAIN bs = 1..Len(bs) /\ \A i \in 1..Len(bs) : bs[i] \in Batches
  OBVIOUS
<1>2. \A i \in 1..Len(bs) : BatchCells(bs[i], n) \in T
  BY <1>1, BatchCellsTyped
<1>3. cs = [i \in 1..Len(bs) |-> BatchCells(bs[i], n)]
  BY <1>1 DEF CellsOfBatches
<1>4. Len(bs) \in Nat
  OBVIOUS
<1> HIDE DEF cs, T
<1>5. cs \in Seq(T)
  BY <1>2, <1>3, <1>4
<1>6. <<>> \in Seq(CellValues)
  OBVIOUS
<1> QED
  BY <1>5, <1>6, FlattenMore DEF cs, T

\* The first cells of a sound column.
LEMMA HeldCells ==
  ASSUME NEW col, Sound(col), NEW count \in Nat, count <= len(col)
  PROVE  /\ SubSeq(Cells(col), 1, count) = [i \in 1..count |-> At(col, i)]
         /\ SubSeq(Cells(col), 1, count) \in Seq(CellValues)
         /\ Len(SubSeq(Cells(col), 1, count)) = count
<1> DEFINE cells == Cells(col)
           held == Cut(cells, 0, count)
<1>1. len(col) \in Nat
  BY StorageFacts DEF Sound
<1>2. cells = [i \in 1..len(col) |-> At(col, i)]
  BY DEF Cells, At
<1>3. \A i \in 1..len(col) : At(col, i) \in CellValues
  BY AtValue, SoundFit
<1>4. cells \in Seq(CellValues) /\ Len(cells) = len(col)
  BY <1>1, <1>2, <1>3
<1> HIDE DEF cells
<1>5. /\ held \in Seq(CellValues) /\ Len(held) = count
      /\ \A i \in 1..count : held[i] = cells[i]
  BY <1>4, CutFront
<1>6. SubSeq(cells, 1, count) = held
  <2>1. 0 + 1 = 1
    OBVIOUS
  <2> QED
    BY <2>1 DEF Cut
<1> HIDE DEF held
<1>7. \A i \in 1..count : i \in 1..len(col)
  BY <1>1
<1>8. held = [i \in 1..count |-> At(col, i)]
  <2>1. held = [i \in 1..count |-> held[i]]
    BY <1>5
  <2>2. \A i \in 1..count : held[i] = At(col, i)
    BY ONLY <1>2, <1>5, <1>7
  <2> QED
    BY <2>1, <2>2
<1> QED
  BY <1>5, <1>6, <1>8 DEF cells

(* The cells of the serial table are those of the accepted rows.            *)
LEMMA SerialAs ==
  ASSUME NEW c, NEW n, NEW rows \in Seq(Logged), Accepted(c) = rows
  PROVE  SerialCells(c, n) = [i \in 1..Len(rows) |-> CellIn(cfg, c, n, rows[i].vals)]
BY DEF SerialCells, CellIn

(* A builder and the batches before it have the accepted cells.             *)
LEMMA BuilderHolds ==
  ASSUME AssemblyInv, Assembling, NEW c \in Chunks, NEW n \in DOMAIN engines[c].cols
  PROVE  Holds(c, n)
<1> DEFINE e == engines[c]
           col == e.cols[n]
           rows == Accepted(c)
           count == e.row_count
           held == SubSeq(Cells(col), 1, count)
           serial == SerialCells(c, n)
<1>1. BuilderOK(c) /\ AssemblyTypeOK
  BY DEF AssemblyInv, BuildersOK
<1>2. /\ SoundEngine(cfg, e) /\ RowsHeld(cfg, c, e, rows) /\ rows \in Seq(Logged)
      /\ cfg.mode # "spill" => count = Len(rows)
      /\ cfg \in Configs
  BY <1>1, TypeFacts DEF BuilderOK
<1>3. /\ count \in Nat /\ Sound(col) /\ count <= len(col) /\ n \in Names
      /\ count <= Len(rows) /\ Len(rows) \in Nat
      /\ \A i \in 1..count : At(col, i) = CellIn(cfg, c, n, rows[Gone(e, rows) + i].vals)
  BY <1>2, EngineFacts DEF SoundEngine, RowsHeld
<1> HIDE DEF col, count
<1>4. held = [i \in 1..count |-> At(col, i)] /\ held \in Seq(CellValues) /\ Len(held) = count
  BY <1>3, HeldCells
<1>5. serial = [i \in 1..Len(rows) |-> CellIn(cfg, c, n, rows[i].vals)]
  BY <1>2, SerialAs
<1> HIDE DEF held, serial, rows, e
<1>6. Holds(c, n) <=> IF cfg.mode = "spill" THEN Emits(n) => Spilled(n) \o held = serial
                      ELSE held = serial
  BY DEF Holds, held, serial, col, e, count
<1>7. CASE cfg.mode # "spill"
  <2>1. Gone(e, rows) = 0
    BY <1>2, <1>3, <1>7 DEF Gone, count
  <2>2. \A i \in 1..count : Gone(e, rows) + i = i
    BY <1>3, <2>1
  <2>3. held = serial
    BY <1>2, <1>3, <1>4, <1>5, <1>7, <2>2
  <2> QED
    BY <1>6, <1>7, <2>3
<1>8. CASE cfg.mode = "spill"
  <2> SUFFICES ASSUME Emits(n)
               PROVE  Spilled(n) \o held = serial
    BY <1>6, <1>8
  <2> DEFINE before == InBatches(n)
             gone == Gone(e, rows)
  <2>1. c = 1
    BY <1>2, <1>8, SinkHasOne
  <2>2. Spilled(n) = before
    BY <1>8 DEF Spilled, Assembling
  <2>3. SpilledRows(batches, e, rows)
    BY <1>8, <2>1, SpilledAs DEF AssemblyInv, e, rows
  <2>4. Emitted(cfg, n)
    BY DEF Emits, Emitted, Projects
  <2>5. before = FlattenSeq(CellsOfBatches(batches, n))
    BY DEF InBatches, CellsOfBatches, BatchCells
  <2>6. before = [i \in 1..gone |-> CellIn(cfg, 1, n, rows[i].vals)]
    BY <1>3, <2>3, <2>4, <2>5 DEF SpilledRows
  <2>7. before \in Seq(CellValues)
    BY <2>3, <2>5, CellsTyped DEF SpilledRows
  <2>8. gone \in Nat /\ gone + count = Len(rows)
    BY <1>3 DEF Gone, count
  <2> HIDE DEF before, gone
  <2>9. Len(before) = gone
    BY <2>6, <2>7, <2>8
  <2>10. \A i \in 1..gone : i \in 1..Len(rows)
    BY <1>3, <2>8
  <2>11. \A i \in 1..count : gone + i \in 1..Len(rows)
    BY <1>3, <2>8
  <2>12. /\ \A i \in 1..gone : serial[i] = before[i]
         /\ \A i \in 1..count : serial[gone + i] = held[i]
    BY <1>3, <1>4, <1>5, <2>1, <2>6, <2>10, <2>11 DEF gone
  <2>13. Follows(serial, before, held, gone, count)
    <3>1. serial = [i \in 1..(gone + count) |-> serial[i]]
      BY <1>5, <2>8
    <3> QED
      BY <1>4, <2>9, <2>12, <3>1 DEF Follows
  <2>14. Joined(before, held) = serial
    <3> DEFINE V == CellValues
    <3>1. before \in Seq(V) /\ held \in Seq(V)
      BY <1>4, <2>7
    <3> HIDE DEF V
    <3> QED
      BY <1>3, <2>8, <2>13, <3>1, JoinedRows
  <2> QED
    BY <2>2, <2>14 DEF Joined
<1> QED
  BY <1>7, <1>8

(* So do all of them.                                                       *)
LEMMA InvHoldsCells ==
  AssemblyInv => CellsKept
<1> SUFFICES ASSUME AssemblyInv, phase \in {"parse", "upgraded"}
             PROVE  BuildersHold
  BY DEF CellsKept
<1>1. Assembling
  BY DEF Assembling
<1> QED
  BY <1>1, BuilderHolds DEF BuildersHold

-----------------------------------------------------------------------------
(* Unified dictionaries.                                                    *)

DictSound(c) == Sound(c) /\ c.kind = "dictionary"

Size(c) == Len(c.offsets) - 1

(* The entries that an arena lays end to end.                               *)
LEMMA ArenaEntries ==
  ASSUME NEW c, IsArena(c.arena, c.offsets)
  PROVE  /\ Size(c) \in Nat /\ Len(c.offsets) = Size(c) + 1
         /\ Entries(c) = [i \in 1..Size(c) |-> Text(c.arena, c.offsets, i)]
         /\ Entries(c) \in Seq(Seq(Nat)) /\ Len(Entries(c)) = Size(c)
<1>1. c.offsets \in Seq(Nat) /\ Len(c.offsets) >= 1 /\ Len(c.offsets) \in Nat
  BY DEF IsArena
<1>2. Size(c) \in Nat /\ Len(c.offsets) = Size(c) + 1
  BY <1>1 DEF Size
<1>3. Entries(c) = [i \in 1..Size(c) |-> Text(c.arena, c.offsets, i)]
  BY DEF Entries, Entry, Text, Cut, Size
<1>4. \A i \in 1..Size(c) : Text(c.arena, c.offsets, i) \in Seq(Nat)
  BY ArenaText DEF Size
<1> DEFINE T == Seq(Nat)
           es == Entries(c)
<1>5. es \in Seq(T) /\ Len(es) = Size(c)
  <2> HIDE DEF T, es
  <2>1. \A i \in 1..Size(c) : Text(c.arena, c.offsets, i) \in T
    BY <1>4 DEF T
  <2> QED
    BY <1>2, <1>3, <2>1 DEF es
<1> QED
  BY <1>2, <1>3, <1>5

(* The entries of a dictionary are distinct texts of its arena.             *)
LEMMA DictFacts ==
  ASSUME NEW c, DictSound(c)
  PROVE  /\ c \in Storage /\ IsArena(c.arena, c.offsets) /\ Size(c) \in Nat
         /\ Len(c.offsets) = Size(c) + 1
         /\ Entries(c) = [i \in 1..Size(c) |-> Text(c.arena, c.offsets, i)]
         /\ Entries(c) \in Seq(Seq(Nat)) /\ Len(Entries(c)) = Size(c)
         /\ \A i, k \in 1..Size(c) : Entries(c)[i] = Entries(c)[k] => i = k
<1> DEFINE es == Entries(c)
<1>1. /\ IsArena(c.arena, c.offsets) /\ IsIndex(c.arena, c.offsets, c.index)
      /\ c \in Storage
  BY KindFacts DEF DictSound, Sound
<1>2. /\ Size(c) \in Nat /\ Len(c.offsets) = Size(c) + 1
      /\ es = [i \in 1..Size(c) |-> Text(c.arena, c.offsets, i)]
      /\ es \in Seq(Seq(Nat)) /\ Len(es) = Size(c)
  BY <1>1, ArenaEntries
<1> HIDE DEF es
<1>3. ASSUME NEW i \in 1..Size(c), NEW k \in 1..Size(c), es[i] = es[k]
      PROVE  i = k
  <2>1. Text(c.arena, c.offsets, i) = Text(c.arena, c.offsets, k)
    BY <1>2, <1>3
  <2>2. /\ c.index[Text(c.arena, c.offsets, i)] = i - 1
        /\ c.index[Text(c.arena, c.offsets, k)] = k - 1
    BY <1>1 DEF IsIndex, Size
  <2>3. i - 1 = k - 1
    BY <2>1, <2>2
  <2> QED
    BY <2>3
<1> QED
  BY <1>1, <1>2, <1>3 DEF es

(* Every entry beyond the seed is in the overflow.                          *)
LEMMA OverflowMembers ==
  ASSUME NEW seed, DictSound(seed), NEW locals \in Seq(Storage),
         \A j \in 1..Len(locals) : DictSound(locals[j])
  PROVE  /\ Overflow(seed, locals) \in Seq(Seq(Nat))
         /\ \A j \in 1..Len(locals) : \A i \in 1..Size(locals[j]) :
              i > Size(seed) => Entries(locals[j])[i] \in ToSet(Overflow(seed, locals))
<1> DEFINE T == Seq(Nat)
           n == Size(seed)
           own(j) == Entries(locals[j])
           fresh == [j \in 1..Len(locals) |-> SubSeq(own(j), n + 1, Len(own(j)))]
           extra == Overflow(seed, locals)
           all == FlattenSeq(fresh)
<1>1. n \in Nat /\ Len(Entries(seed)) = n
  BY DictFacts
<1>2. DOMAIN locals = 1..Len(locals) /\ Len(locals) \in Nat
  OBVIOUS
<1>3. extra = Firsts(all)
  BY <1>1, <1>2 DEF Overflow
<1>4. \A j \in 1..Len(locals) : own(j) \in Seq(T) /\ Len(own(j)) = Size(locals[j])
                                /\ Size(locals[j]) \in Nat
  BY DictFacts
<1> HIDE DEF T, n, own
<1>5. ASSUME NEW j \in 1..Len(locals)
      PROVE  /\ fresh[j] \in Seq(T)
             /\ \A i \in 1..Size(locals[j]) : i > n =>
                  i - n \in 1..Len(fresh[j]) /\ fresh[j][i - n] = own(j)[i]
  <2> DEFINE es == own(j)
             m == Size(locals[j])
             f == fresh[j]
  <2>1. es \in Seq(T) /\ Len(es) = m /\ m \in Nat /\ f = SubSeq(es, n + 1, m)
    BY <1>4
  <2> HIDE DEF es, m, f
  <2>2. CASE n <= m
    <3>1. f = Cut(es, n, m)
      BY <2>1 DEF Cut
    <3>2. f \in Seq(T) /\ Len(f) = m - n /\ \A k \in 1..(m - n) : f[k] = es[n + k]
      <4>1. IsPiece(Cut(es, n, m), T, es, n, m)
        BY <1>1, <2>1, <2>2, CutPiece
      <4> QED
        BY <3>1, <4>1 DEF IsPiece
    <3>3. ASSUME NEW i \in 1..m, i > n
          PROVE  i - n \in 1..Len(f) /\ f[i - n] = es[i]
      <4>1. i - n \in 1..(m - n) /\ n + (i - n) = i
        BY <1>1, <2>1, <3>3
      <4> QED
        BY <3>2, <4>1
    <3> QED
      BY <3>2, <3>3 DEF es, m, f
  <2>3. CASE ~(n <= m)
    <3>1. f = <<>>
      BY <1>1, <2>1, <2>3
    <3>2. f \in Seq(T) /\ \A i \in 1..m : ~(i > n)
      BY <1>1, <2>1, <2>3, <3>1
    <3> QED
      BY <3>2 DEF es, m, f
  <2> QED
    BY <2>2, <2>3
<1>6. fresh \in Seq(Seq(T)) /\ Len(fresh) = Len(locals)
  <2> DEFINE U == Seq(T)
  <2>1. \A j \in 1..Len(locals) : fresh[j] \in U
    BY <1>5
  <2>2. fresh = [j \in 1..Len(locals) |-> fresh[j]]
    OBVIOUS
  <2> HIDE DEF U, fresh
  <2>3. fresh \in Seq(U) /\ Len(fresh) = Len(locals)
    BY <1>2, <2>1, <2>2
  <2> QED
    BY <2>3 DEF U
<1> HIDE DEF fresh, all, extra
<1>7. all \in Seq(T)
  <2>1. <<>> \in Seq(T)
    OBVIOUS
  <2> QED
    BY <1>6, <2>1, FlattenMore DEF all
<1>8. extra \in Seq(T) /\ \A i \in 1..Len(all) : all[i] \in ToSet(extra)
  BY <1>3, <1>7, FirstsMembers
<1>9. ASSUME NEW j \in 1..Len(locals), NEW i \in 1..Size(locals[j]), i > n
      PROVE  own(j)[i] \in ToSet(extra)
  <2>1. i - n \in 1..Len(fresh[j]) /\ fresh[j][i - n] = own(j)[i]
    BY <1>5, <1>9
  <2>2. own(j)[i] \in ToSet(all)
    BY <1>6, <2>1, FlattenMembers DEF all
  <2>3. DOMAIN all = 1..Len(all)
    BY <1>7
  <2> QED
    BY <1>8, <2>2, <2>3 DEF ToSet
<1> QED
  BY <1>8, <1>9 DEF extra, n, own, T

\* A dictionary while entries are added to it: its index is left empty.
Growing == {t \in [kind : Kinds, arena : Seq(Nat), offsets : Seq(Nat), vals : Seq(Nat),
                   validity : Bitmaps, index : {<<>>}] : IsArena(t.arena, t.offsets)}

(* One entry more.                                                          *)
LEMMA EntryAdded ==
  ASSUME NEW t \in Growing, NEW s \in Seq(Nat)
  PROVE  /\ AddEntry(t, s) \in Growing
         /\ MoreTexts(AddEntry(t, s).arena, AddEntry(t, s).offsets, t.arena, t.offsets, s)
         /\ Len(t.offsets) \in Nat
<1> DEFINE b == t.arena \o s
           p == Append(t.offsets, Len(t.arena \o s))
           u == AddEntry(t, s)
<1>1. /\ IsArena(t.arena, t.offsets) /\ t.kind \in Kinds /\ t.vals \in Seq(Nat)
      /\ t.validity \in Bitmaps /\ t.index = <<>>
      /\ t = [kind |-> t.kind, arena |-> t.arena, offsets |-> t.offsets, vals |-> t.vals,
              validity |-> t.validity, index |-> t.index]
  BY DEF Growing
<1>2. MoreTexts(b, p, t.arena, t.offsets, s)
  BY <1>1, ArenaMore
<1>3. u = [t EXCEPT !.arena = b, !.offsets = p]
  BY DEF AddEntry
<1> HIDE DEF b, p, u
<1>4. u = [kind |-> t.kind, arena |-> b, offsets |-> p, vals |-> t.vals,
           validity |-> t.validity, index |-> t.index]
  BY <1>1, <1>3
<1>5. IsArena(b, p) /\ Len(p) = Len(t.offsets) + 1
  BY <1>2 DEF MoreTexts
<1>6. b \in Seq(Nat) /\ p \in Seq(Nat) /\ Len(t.offsets) \in Nat
  BY <1>1, <1>5 DEF IsArena
<1>7. u \in Growing
  BY <1>1, <1>4, <1>5, <1>6 DEF Growing
<1>8. u.arena = b /\ u.offsets = p
  BY <1>4
<1> QED
  BY <1>2, <1>6, <1>7, <1>8 DEF u

\* A dictionary has the seed's entries, and then others.
Extends(dict, seed, more) ==
  /\ IsArena(dict.arena, dict.offsets)
  /\ Size(dict) = Size(seed) + Len(more)
  /\ \A i \in 1..Size(seed) :
       Text(dict.arena, dict.offsets, i) = Text(seed.arena, seed.offsets, i)
  /\ \A i \in 1..Len(more) : Text(dict.arena, dict.offsets, Size(seed) + i) = more[i]

\* The unified dictionary has the seed's entries and those that overflow.
LEMMA UnifiedArena ==
  ASSUME NEW seed, DictSound(seed), NEW locals,
         Overflow(seed, locals) \in Seq(Seq(Nat))
  PROVE  Extends(unified(seed, locals), seed, Overflow(seed, locals))
<1> DEFINE extra == Overflow(seed, locals)
           top == Len(extra)
           base == [seed EXCEPT !.index = <<>>]
           Eqn(r) == r = [i \in 0..top |-> IF i = 0 THEN base
                                           ELSE AddEntry(r[i - 1], extra[i])]
           step == [i \in 1..top |-> [x \in Growing |-> AddEntry(x, extra[i])]]
<1>0. unified(seed, locals) = (CHOOSE r : Eqn(r))[top]
  BY DEF unified
<1> DEFINE Text1 == Seq(Nat)
<1>1. top \in Nat /\ \A i \in 1..top : extra[i] \in Seq(Nat)
  <2> HIDE DEF Text1, extra
  <2>1. extra \in Seq(Text1)
    BY DEF extra, Text1
  <2>2. \A i \in 1..top : extra[i] \in Text1
    BY <2>1
  <2> QED
    BY <2>1, <2>2 DEF Text1
<1>2. base \in Growing /\ base.offsets = seed.offsets /\ base.arena = seed.arena
  <2>1. seed \in Storage /\ IsArena(seed.arena, seed.offsets)
    BY DictFacts
  <2>2. /\ seed.kind \in Kinds /\ seed.arena \in Seq(Nat) /\ seed.offsets \in Seq(Nat)
        /\ seed.vals \in Seq(Nat) /\ seed.validity \in Bitmaps
    BY <2>1, StorageFacts
  <2>3. base = [kind |-> seed.kind, arena |-> seed.arena, offsets |-> seed.offsets,
                vals |-> seed.vals, validity |-> seed.validity, index |-> <<>>]
    <3>1. seed = [kind |-> seed.kind, arena |-> seed.arena, offsets |-> seed.offsets,
                  vals |-> seed.vals, validity |-> seed.validity, index |-> seed.index]
      BY <2>1 DEF Storage
    <3> QED
      BY <3>1
  <2> HIDE DEF base
  <2> QED
    BY <2>1, <2>2, <2>3 DEF Growing
<1>3. step \in Steps(top, Growing)
  <2>1. ASSUME NEW i \in 1..top, NEW x \in Growing
        PROVE  AddEntry(x, extra[i]) \in Growing
    BY <1>1, EntryAdded
  <2> QED
    BY <2>1 DEF Steps
<1> HIDE DEF step, base, extra, top
<1>4. PICK g : IsRecursion(g, top, Growing, base, step)
  BY <1>1, <1>2, <1>3, RecursionExists
<1>5. Eqn(g)
  <2>1. ASSUME NEW i \in 0..top
        PROVE  g[i] = IF i = 0 THEN base ELSE AddEntry(g[i - 1], extra[i])
    <3>1. CASE i = 0
      BY <1>4, <3>1 DEF IsRecursion
    <3>2. CASE i # 0
      <4>1. i \in 1..top /\ i - 1 \in 0..top
        BY <1>1, <3>2
      <4>2. g \in [0..top -> Growing] /\ g[i] = step[i][g[i - 1]]
        BY <1>4, <3>2 DEF IsRecursion
      <4>3. g[i - 1] \in Growing
        BY <4>1, <4>2
      <4> QED
        BY <3>2, <4>1, <4>2, <4>3 DEF step
    <3> QED
      BY <3>1, <3>2
  <2>2. g = [i \in 0..top |-> g[i]]
    BY <1>4 DEF IsRecursion
  <2> QED
    BY <2>1, <2>2
<1> DEFINE run == CHOOSE r : Eqn(r)
<1>6. Eqn(run)
  BY <1>5
<1>7. unified(seed, locals) = run[top]
  BY <1>0
<1> HIDE DEF run
<1> DEFINE n == Size(seed)
           Holding(t, k) ==
             /\ Len(t.offsets) = Len(seed.offsets) + k
             /\ \A i \in 1..n : Text(t.arena, t.offsets, i) = Text(seed.arena, seed.offsets, i)
             /\ \A i \in 1..k : Text(t.arena, t.offsets, n + i) = extra[i]
           T == {k \in 0..top : run[k] \in Growing /\ Holding(run[k], k)}
<1>8. Len(seed.offsets) \in Nat /\ Len(seed.offsets) = n + 1 /\ n \in Nat
  BY DictFacts
<1> HIDE DEF n
<1>9. 0 \in T
  <2>1. 0 \in 0..top
    BY <1>1
  <2>2. run[0] = base
    BY <1>6, <2>1
  <2>3. Holding(base, 0)
    BY <1>2, <1>8
  <2> QED
    BY <1>2, <2>1, <2>2, <2>3
<1>10. ASSUME NEW k \in Nat, k < top, k \in T
       PROVE  k + 1 \in T
  <2>1. k + 1 \in 1..top /\ k + 1 \in 0..top /\ (k + 1) - 1 = k /\ k + 1 # 0
    BY <1>1, <1>10
  <2> DEFINE t == run[k]
             u == run[k + 1]
             x == extra[k + 1]
  <2>2. u = AddEntry(t, x) /\ x \in Seq(Nat)
    BY <1>1, <1>6, <2>1
  <2>3. t \in Growing /\ Holding(t, k)
    BY <1>10
  <2> HIDE DEF t, u, T
  <2>4. u \in Growing /\ MoreTexts(u.arena, u.offsets, t.arena, t.offsets, x) /\ Len(t.offsets) \in Nat
    BY <2>2, <2>3, EntryAdded
  <2>5. Len(t.offsets) = (n + 1) + k
    BY <1>8, <2>3
  <2> HIDE DEF Holding
  <2>6. /\ Len(u.offsets) = Len(t.offsets) + 1 /\ Text(u.arena, u.offsets, (n + 1) + k) = x
        /\ \A i \in 1..(n + k) : Text(u.arena, u.offsets, i) = Text(t.arena, t.offsets, i)
    <3>1. ((n + 1) + k) - 1 = n + k
      BY <1>8
    <3> QED
      BY <2>4, <2>5, <3>1 DEF MoreTexts
  <2>7. \A i \in 1..n : i \in 1..(n + k)
    BY <1>8
  <2>8. \A i \in 1..k : n + i \in 1..(n + k)
    BY <1>8
  <2>9. \A i \in 1..(k + 1) : i \in 1..k \/ i = k + 1
    OBVIOUS
  <2>10. (n + 1) + k = n + (k + 1)
    BY <1>8
  <2>11. Len(u.offsets) = Len(seed.offsets) + (k + 1)
    BY <1>8, <2>5, <2>6
  <2>12. \A i \in 1..n : Text(u.arena, u.offsets, i) = Text(seed.arena, seed.offsets, i)
    BY <2>3, <2>6, <2>7 DEF Holding
  <2>13. \A i \in 1..(k + 1) : Text(u.arena, u.offsets, n + i) = extra[i]
    BY <2>3, <2>6, <2>8, <2>9, <2>10 DEF Holding, x
  <2>14. Holding(u, k + 1)
    BY <2>11, <2>12, <2>13 DEF Holding
  <2> QED
    BY <2>1, <2>4, <2>14 DEF T, u
<1> HIDE DEF T, Holding
<1>11. \A k \in 0..top : k \in T
  BY <1>1, <1>9, <1>10, IntervalInduction
<1> DEFINE dict == run[top]
<1>12. dict \in Growing /\ Holding(dict, top)
  BY <1>1, <1>11 DEF T
<1> HIDE DEF dict
<1>13. IsArena(dict.arena, dict.offsets)
  BY <1>12 DEF Growing
<1>14. Size(dict) = n + top
  <2>1. Len(dict.offsets) = (n + 1) + top
    BY <1>8, <1>12 DEF Holding
  <2> QED
    BY <1>1, <1>8, <2>1 DEF Size
<1>15. Extends(dict, seed, extra)
  BY <1>12, <1>13, <1>14 DEF Extends, Holding, n, top
<1> QED
  BY <1>7, <1>15 DEF dict, extra

\* A value has a position in a sequence that holds it.
LEMMA PositionFacts ==
  ASSUME NEW T, NEW s \in Seq(T), NEW v \in ToSet(s)
  PROVE  PositionOf(s, v) \in 1..Len(s) /\ s[PositionOf(s, v)] = v
<1>1. DOMAIN s = 1..Len(s)
  OBVIOUS
<1>2. \E i \in DOMAIN s : s[i] = v
  BY DEF ToSet
<1> QED
  BY <1>1, <1>2 DEF PositionOf

\* What every chunk knows of its dictionary and the unified one.
Unifiable(seed, locals) ==
  /\ DictSound(seed) /\ locals \in Seq(Storage)
  /\ \A j \in 1..Len(locals) : DictSound(locals[j])

(* A chunk's code becomes one of the unified dictionary's.                  *)
LEMMA RemapFits ==
  ASSUME NEW seed, NEW locals, Unifiable(seed, locals), NEW j \in 1..Len(locals)
  PROVE  LET map == remap(seed, locals, j)
         IN /\ DOMAIN map = 1..Size(locals[j])
            /\ \A i \in DOMAIN map :
                 map[i] \in Nat /\ map[i] < Size(seed) + Len(Overflow(seed, locals))
<1> DEFINE extra == Overflow(seed, locals)
           own == Entries(locals[j])
           map == remap(seed, locals, j)
           n == Size(seed)
           m == Size(locals[j])
           T == Seq(Nat)
<1>1. /\ DictSound(seed) /\ locals \in Seq(Storage)
      /\ \A k \in 1..Len(locals) : DictSound(locals[k])
  BY DEF Unifiable
<1>2. /\ extra \in Seq(T)
      /\ \A i \in 1..m : i > n => own[i] \in ToSet(extra)
  BY <1>1, OverflowMembers
<1>3. n \in Nat /\ Len(Entries(seed)) = n /\ m \in Nat /\ own \in Seq(T) /\ Len(own) = m
  BY <1>1, DictFacts
<1>4. DOMAIN own = 1..m
  BY <1>3
<1> HIDE DEF T
<1>5. Len(extra) \in Nat
  BY <1>2
<1>6. map = [i \in 1..m |-> IF own[i] \in ToSet(extra)
                              THEN n + PositionOf(extra, own[i]) - 1 ELSE i - 1]
  BY <1>3, <1>4 DEF remap
<1> HIDE DEF extra, own, map, n, m
<1>7. ASSUME NEW i \in 1..m
      PROVE  map[i] \in Nat /\ map[i] < n + Len(extra)
  <2>1. CASE own[i] \in ToSet(extra)
    <3> DEFINE p == PositionOf(extra, own[i])
    <3>1. p \in 1..Len(extra)
      BY <1>2, <2>1, PositionFacts
    <3>2. map[i] = n + p - 1
      BY <1>6, <2>1
    <3> HIDE DEF p
    <3> QED
      BY <1>3, <1>5, <3>1, <3>2
  <2>2. CASE own[i] \notin ToSet(extra)
    <3>1. i <= n
      BY <1>2, <1>3, <2>2
    <3>2. map[i] = i - 1
      BY <1>6, <2>2
    <3> QED
      BY <1>3, <1>5, <3>1, <3>2
  <2> QED
    BY <2>1, <2>2
<1>8. DOMAIN map = 1..m
  BY <1>6
<1> QED
  BY <1>7, <1>8 DEF map, m, n, extra

(* No chunk has more entries than the unified dictionary: those beyond the  *)
(* seed's length are all different and all overflow.                        *)
LEMMA SizeFits ==
  ASSUME NEW seed, NEW locals, Unifiable(seed, locals), NEW k \in 1..Len(locals)
  PROVE  Size(locals[k]) <= Size(seed) + Len(Overflow(seed, locals))
<1> DEFINE extra == Overflow(seed, locals)
           own == Entries(locals[k])
           n == Size(seed)
           m == Size(locals[k])
           T == Seq(Nat)
           end == n + Len(extra)
           f == [i \in 1..m |-> IF i <= n THEN i ELSE n + PositionOf(extra, own[i])]
<1>1. /\ DictSound(seed) /\ locals \in Seq(Storage)
      /\ \A j \in 1..Len(locals) : DictSound(locals[j])
  BY DEF Unifiable
<1>2. /\ extra \in Seq(T)
      /\ \A i \in 1..m : i > n => own[i] \in ToSet(extra)
  BY <1>1, OverflowMembers
<1>3. n \in Nat /\ m \in Nat /\ \A i, l \in 1..m : own[i] = own[l] => i = l
  BY <1>1, DictFacts
<1> HIDE DEF extra, own, n, m, T
<1>4. Len(extra) \in Nat /\ end \in Nat
  BY <1>2, <1>3
<1>5. ASSUME NEW i \in 1..m, ~(i <= n)
      PROVE  /\ PositionOf(extra, own[i]) \in 1..Len(extra)
             /\ extra[PositionOf(extra, own[i])] = own[i]
  <2>1. own[i] \in ToSet(extra)
    BY <1>2, <1>3, <1>5
  <2> QED
    BY <1>2, <2>1, PositionFacts
<1>6. ASSUME NEW i \in 1..m
      PROVE  f[i] \in 1..end /\ (f[i] <= n <=> i <= n)
  <2>1. CASE i <= n
    BY <1>3, <1>4, <2>1
  <2>2. CASE ~(i <= n)
    <3> DEFINE p == PositionOf(extra, own[i])
    <3>1. p \in 1..Len(extra) /\ f[i] = n + p
      BY <1>5, <2>2
    <3> HIDE DEF p, f
    <3> QED
      BY <1>3, <1>4, <2>2, <3>1
  <2> QED
    BY <2>1, <2>2
<1>7. f \in [1..m -> 1..end]
  BY <1>6
<1>8. ASSUME NEW i \in 1..m, NEW l \in 1..m, f[i] = f[l]
      PROVE  i = l
  <2>1. CASE i <= n
    <3>1. l <= n
      BY <1>6, <1>8, <2>1
    <3> QED
      BY <1>8, <2>1, <3>1
  <2>2. CASE ~(i <= n)
    <3> DEFINE p == PositionOf(extra, own[i])
               q == PositionOf(extra, own[l])
    <3>1. ~(l <= n)
      BY <1>6, <1>8, <2>2
    <3>2. p \in Nat /\ q \in Nat /\ n + p = n + q
      BY <1>5, <1>8, <2>2, <3>1
    <3>3. extra[p] = own[i] /\ extra[q] = own[l]
      BY <1>5, <2>2, <3>1
    <3> HIDE DEF p, q, f
    <3>4. p = q
      BY <1>3, <3>2
    <3> QED
      BY <1>3, <3>3, <3>4
  <2> QED
    BY <2>1, <2>2
<1> HIDE DEF f, end
<1>9. SUFFICES ASSUME end < m
               PROVE  FALSE
  BY <1>3, <1>4 DEF end, extra, n, m
<1>10. /\ IsFiniteSet(1..m) /\ Cardinality(1..m) = m
       /\ IsFiniteSet(1..end) /\ Cardinality(1..end) = end
  <2>1. 1 \in Int /\ m \in Int /\ end \in Int
    BY <1>3, <1>4
  <2>2. /\ IsFiniteSet(1..m) /\ Cardinality(1..m) = IF 1 > m THEN 0 ELSE m - 1 + 1
        /\ IsFiniteSet(1..end) /\ Cardinality(1..end) = IF 1 > end THEN 0 ELSE end - 1 + 1
    BY <2>1, FS_Interval
  <2> QED
    BY <1>3, <1>4, <2>2
<1>11. \E x, y \in 1..m : x # y /\ f[x] = f[y]
  <2>1. Cardinality(1..end) < Cardinality(1..m)
    BY <1>9, <1>10
  <2> QED
    BY <1>7, <1>10, <2>1, FS_PigeonHole
<1> QED
  BY <1>8, <1>11

\* The last code of an entry.
LastOf(entries, s) ==
  CHOOSE i \in 0..(Len(entries) - 1) :
    entries[i + 1] = s /\ \A k \in (i + 2)..Len(entries) : entries[k] # s

LEMMA LastExists ==
  ASSUME NEW S, NEW entries \in Seq(S), NEW s \in ToSet(entries)
  PROVE  /\ LastOf(entries, s) \in 0..(Len(entries) - 1)
         /\ entries[LastOf(entries, s) + 1] = s
<1> DEFINE n == Len(entries)
           T == {i \in 0..(n - 1) : entries[i + 1] = s}
<1>1. n \in Nat /\ DOMAIN entries = 1..n
  OBVIOUS
<1>2. PICK m \in 1..n : entries[m] = s
  BY <1>1 DEF ToSet
<1>3. n - 1 \in Nat /\ m - 1 \in 0..(n - 1) /\ (m - 1) + 1 = m
  BY <1>1, <1>2
<1>4. m - 1 \in T
  BY <1>2, <1>3
<1>5. PICK i \in T : \A k \in T : k <= i
  <2>1. T \subseteq 0..(n - 1) /\ T # {}
    BY <1>4
  <2> HIDE DEF T
  <2> QED
    BY <1>3, <2>1, GreatestNat
<1>6. i \in 0..(n - 1) /\ entries[i + 1] = s
  BY <1>5
<1>7. ASSUME NEW k \in (i + 2)..n
      PROVE  entries[k] # s
  <2>1. k - 1 \in 0..(n - 1) /\ (k - 1) + 1 = k /\ ~(k - 1 <= i)
    BY <1>1, <1>6
  <2> QED
    BY <1>5, <2>1
<1> HIDE DEF T
<1> QED
  BY <1>6, <1>7 DEF LastOf

NewCode(c, map, i) ==
  IF is_valid(c.validity, i) /\ c.vals[i] + 1 \in DOMAIN map
    THEN map[c.vals[i] + 1] ELSE c.vals[i]

(* A column with another dictionary is represented as it should be, if its  *)
(* codes are among the entries before and after.                            *)
LEMMA OtherDictionary ==
  ASSUME NEW c, DictSound(c), NEW dict, IsArena(dict.arena, dict.offsets),
         Size(c) <= Size(dict), NEW map,
         \A i \in DOMAIN map : map[i] \in Nat /\ map[i] < Size(dict)
  PROVE  LET t == replace_dict(c, dict, map)
         IN /\ t \in Storage /\ ColumnOK(t) /\ len(t) = len(c)
            /\ \A i \in 1..len(c) :
                 At(t, i) = IF is_valid(c.validity, i)
                              THEN Text(dict.arena, dict.offsets, NewCode(c, map, i) + 1)
                              ELSE Null
<1> DEFINE entries == Entries(dict)
           top == Size(dict)
           count == len(c)
           Code(i) == NewCode(c, map, i)
           codes == [i \in 1..count |-> Code(i)]
           index == [s \in ToSet(entries) |-> LastOf(entries, s)]
           t == replace_dict(c, dict, map)
           T == Seq(Nat)
<1>1. /\ c \in Storage /\ c.kind = "dictionary" /\ Len(c.vals) = count
      /\ Len(c.offsets) = Size(c) + 1 /\ Size(c) \in Nat /\ Sound(c)
  BY DictFacts, KindFacts DEF DictSound, Sound
<1>2. /\ c.arena \in Seq(Nat) /\ c.vals \in Seq(Nat) /\ c.validity \in Bitmaps
      /\ count = c.validity.len /\ count \in Nat
      /\ \A i \in 1..count : is_valid(c.validity, i) \in BOOLEAN
      /\ c.kind \in Kinds
  BY <1>1, StorageFacts
<1>3. /\ top \in Nat /\ Len(dict.offsets) = top + 1
      /\ entries = [i \in 1..top |-> Text(dict.arena, dict.offsets, i)]
      /\ entries \in Seq(T) /\ Len(entries) = top
  BY ArenaEntries
<1>4. dict.arena \in Seq(Nat) /\ dict.offsets \in Seq(Nat)
  BY DEF IsArena
<1>5. DOMAIN c.vals = 1..count
  BY <1>1, <1>2
<1>6. t = [c EXCEPT !.vals = codes, !.arena = dict.arena, !.offsets = dict.offsets,
                    !.index = index]
  BY <1>5 DEF replace_dict, LastOf, NewCode
<1>7. t = [kind |-> c.kind, arena |-> dict.arena, offsets |-> dict.offsets, vals |-> codes,
           validity |-> c.validity, index |-> index]
  <2>1. c = [kind |-> c.kind, arena |-> c.arena, offsets |-> c.offsets, vals |-> c.vals,
             validity |-> c.validity, index |-> c.index]
    BY <1>1 DEF Storage
  <2> HIDE DEF codes, index, t
  <2> QED
    BY <1>6, <2>1
<1>8. ASSUME NEW i \in 1..count
      PROVE  /\ Code(i) \in Nat
             /\ is_valid(c.validity, i) => Code(i) < top
  <2>1. c.vals[i] \in Nat
    BY <1>1, <1>2
  <2>2. is_valid(c.validity, i) => c.vals[i] + 1 < Len(c.offsets)
    BY <1>1, CodeFacts, SoundFit
  <2>3. is_valid(c.validity, i) => c.vals[i] < top
    BY <1>1, <1>3, <2>1, <2>2
  <2> QED
    BY <1>2, <2>1, <2>3 DEF NewCode
<1>9. codes \in Seq(Nat) /\ Len(codes) = count /\ \A i \in 1..count : codes[i] = Code(i)
  <2>1. count \in Nat /\ \A i \in 1..count : Code(i) \in Nat
    BY <1>2, <1>8
  <2> HIDE DEF Code, count
  <2> QED
    BY <2>1
<1> HIDE DEF Code, codes, entries, T, t, top, count
<1>10. \A s \in ToSet(entries) :
         index[s] \in 0..(top - 1) /\ entries[index[s] + 1] = s
  BY <1>3, LastExists
<1>11. DOMAIN index = ToSet(entries)
  OBVIOUS
<1> HIDE DEF index
<1>12. index \in Indexes
  <2>1. ToSet(entries) \in SUBSET T
    BY <1>3 DEF ToSet
  <2>2. \A s \in ToSet(entries) : index[s] \in Nat
    BY <1>3, <1>10
  <2>3. index \in [ToSet(entries) -> Nat]
    BY <2>2 DEF index
  <2> QED
    BY <2>1, <2>3 DEF Indexes, T
<1>13. t \in Storage
  BY <1>2, <1>4, <1>7, <1>9, <1>12 DEF Storage
<1>14. /\ t.kind = "dictionary" /\ t.arena = dict.arena /\ t.offsets = dict.offsets
       /\ t.vals = codes /\ t.validity = c.validity /\ t.index = index
  BY <1>1, <1>7
<1>15. BitsOK(t.validity)
  BY <1>2, <1>14 DEF Bitmaps
<1>16. Len(t.vals) = len(t)
  BY <1>2, <1>9, <1>14 DEF len
<1>17. TextOK(t)
  <2>1. \A i \in 1..(Len(dict.offsets) - 1) : dict.offsets[i] <= dict.offsets[i + 1]
    BY ArenaText
  <2> QED
    BY <1>14, <2>1 DEF TextOK, IsArena
<1>18. DictOK(t)
  <2>1. Entries(t) = entries
    BY <1>14 DEF Entries, Entry, entries
  <2>2. \A s \in DOMAIN index : Entry(t, index[s] + 1) = s
    <3> TAKE s \in DOMAIN index
    <3>1. /\ index[s] + 1 \in 1..top /\ entries[index[s] + 1] = s
      BY <1>3, <1>10, <1>11
    <3>2. entries[index[s] + 1] = Text(dict.arena, dict.offsets, index[s] + 1)
      BY <1>3, <3>1
    <3>3. Entry(t, index[s] + 1) = Text(dict.arena, dict.offsets, index[s] + 1)
      BY <1>14 DEF Entry, Text, Cut
    <3> QED
      BY <3>1, <3>2, <3>3
  <2>3. \A i \in 1..count : is_valid(c.validity, i) => codes[i] + 1 < Len(dict.offsets)
    BY <1>3, <1>8, <1>9
  <2>4. DOMAIN codes = 1..count
    BY <1>9
  <2> QED
    BY <1>11, <1>14, <2>1, <2>2, <2>3, <2>4 DEF DictOK
<1>19. ColumnOK(t)
  BY <1>14, <1>15, <1>16, <1>17, <1>18 DEF ColumnOK
<1>20. ASSUME NEW i \in 1..count
       PROVE  At(t, i) = IF is_valid(c.validity, i)
                           THEN Text(dict.arena, dict.offsets, codes[i] + 1) ELSE Null
  <2>1. is_valid(t.validity, i) => t.vals[i] + 1 < Len(t.offsets)
    BY <1>3, <1>8, <1>9, <1>14
  <2> QED
    BY <1>14, <2>1, CodeCells
<1>21. \A i \in 1..count : codes[i] = NewCode(c, map, i)
  BY <1>9 DEF Code
<1>22. len(t) = count
  BY <1>2, <1>14 DEF len
<1> QED
  BY <1>13, <1>19, <1>20, <1>21, <1>22 DEF t, count

LEMMA EnginesSeq ==
  ASSUME AssemblyTypeOK
  PROVE  /\ engines \in Seq(Engines) /\ Chunks = 1..Len(engines) /\ Len(engines) \in Nat
         /\ Chunks # {} => 1 \in Chunks
<1>1. cfg \in Configs /\ engines \in [Chunks -> Engines]
  BY DEF AssemblyTypeOK
<1>2. PICK names \in SUBSET Names : cfg.kinds \in Seq([names -> Kinds])
  BY <1>1, ConfigFacts
<1>3. Chunks = 1..Len(cfg.kinds) /\ Len(cfg.kinds) \in Nat
  BY <1>2 DEF Chunks
<1> QED
  BY <1>1, <1>3

\* All builders with the column n have a dictionary in it.
LEMMA HavingDicts ==
  ASSUME AssemblyInv, phase = "upgraded", schemas_consistent(engines), 1 \in Chunks,
         NEW n, IsDict(engines[1], n)
  PROVE  /\ Having(engines, n) \in Seq(Engines)
         /\ \A c \in Chunks : n \in DOMAIN engines[c].cols =>
              /\ DictSound(engines[c].cols[n])
              /\ \E k \in 1..Len(Having(engines, n)) : Having(engines, n)[k] = engines[c]
         /\ \A k \in 1..Len(Having(engines, n)) :
              DictSound(Having(engines, n)[k].cols[n])
<1> DEFINE P == {i \in DOMAIN engines : n \in DOMAIN engines[i].cols}
           having == Having(engines, n)
<1>1. /\ engines \in Seq(Engines) /\ Chunks = 1..Len(engines) /\ Len(engines) \in Nat
      /\ DOMAIN engines = Chunks
  BY EnginesSeq DEF AssemblyInv
<1>2. having = Picked(engines, P)
  BY DEF Having
<1>3. having \in Seq(Engines) /\ ToSet(having) = {engines[i] : i \in P \cap (1..Len(engines))}
  <2> HIDE DEF P, having
  <2> QED
    BY <1>1, <1>2, PickedMembers
<1>4. DOMAIN having = 1..Len(having)
  BY <1>3
<1> HIDE DEF having
<1>5. ASSUME NEW c \in Chunks, n \in DOMAIN engines[c].cols
      PROVE  /\ DictSound(engines[c].cols[n])
             /\ \E k \in 1..Len(having) : having[k] = engines[c]
  <2>1. SoundEngine(cfg, engines[c])
    BY DEF AssemblyInv, BuildersOK, BuilderOK, Assembling
  <2>2. Sound(engines[c].cols[n])
    BY <1>5, <2>1 DEF SoundEngine
  <2>3. n \in DOMAIN engines[1].cols /\ engines[1].cols[n].kind = "dictionary"
    BY DEF IsDict
  <2>4. engines[c].cols[n].kind = "dictionary"
    <3>1. CASE c = 1
      BY <2>3, <3>1
    <3>2. CASE c # 1
      <4> DEFINE tail == Tail(engines)
      <4>1. /\ tail \in Seq(Engines) /\ Len(tail) = Len(engines) - 1
            /\ \A i \in 1..(Len(engines) - 1) : tail[i] = engines[i + 1]
        BY <1>1
      <4>2. c - 1 \in 1..(Len(engines) - 1) /\ (c - 1) + 1 = c
        BY <1>1, <3>2
      <4>3. DOMAIN tail = 1..(Len(engines) - 1)
        BY <4>1
      <4>4. \A e \in ToSet(tail) : \A m \in DOMAIN e.cols \cap DOMAIN engines[1].cols :
              e.cols[m].kind = engines[1].cols[m].kind
        BY DEF schemas_consistent
      <4> HIDE DEF tail
      <4>5. engines[c] \in ToSet(tail)
        BY <4>1, <4>2, <4>3 DEF ToSet
      <4> QED
        BY <1>5, <2>3, <4>4, <4>5
    <3> QED
      BY <3>1, <3>2
  <2>5. engines[c] \in ToSet(having)
    BY <1>1, <1>3, <1>5
  <2> QED
    BY <1>4, <2>2, <2>4, <2>5 DEF DictSound, ToSet
<1>6. ASSUME NEW k \in 1..Len(having)
      PROVE  DictSound(having[k].cols[n])
  <2>1. having[k] \in ToSet(having)
    BY <1>4 DEF ToSet
  <2>2. PICK c \in Chunks : having[k] = engines[c] /\ n \in DOMAIN engines[c].cols
    BY <1>1, <1>3, <2>1
  <2> QED
    BY <1>5, <2>2
<1> QED
  BY <1>3, <1>5, <1>6 DEF having

(* The first chunk has a dictionary for the column that is unified.         *)
LEMMA DifferingFirst ==
  ASSUME AssemblyInv, 1 \in Chunks, Differing # <<>>
  PROVE  IsDict(engines[1], Differing[1])
<1> DEFINE order == engines[1].order
           Differs(n) == /\ IsDict(engines[1], n)
                         /\ \E e \in ToSet(engines) :
                              /\ IsDict(e, n)
                              /\ Entries(e.cols[n]) # Entries(engines[1].cols[n])
           P == {i \in DOMAIN order : Differs(order[i])}
<1>1. order \in Seq(Names)
  BY TypeFacts, EngineFacts DEF AssemblyInv
<1>2. Differing = Picked(order, P)
  BY DEF Differing
<1>3. Differing \in Seq(Names) /\ ToSet(Differing) = {order[i] : i \in P \cap (1..Len(order))}
  <2> HIDE DEF P, order
  <2> QED
    BY <1>1, <1>2, PickedMembers
<1> DEFINE d == Differing
<1> HIDE DEF d
<1>4. d \in Seq(Names) /\ d # <<>>
  BY <1>3 DEF d
<1>5. 1 \in DOMAIN d
  BY <1>4
<1>6. d[1] \in ToSet(d)
  BY <1>5 DEF ToSet
<1>7. PICK i \in P : d[1] = order[i]
  BY <1>3, <1>6 DEF d
<1> QED
  BY <1>7 DEF d

(* A builder with one column replaced.                                      *)
LEMMA ColumnReplaced ==
  ASSUME NEW e \in Engines, NEW n, NEW col
  PROVE  [e EXCEPT !.cols[n] = col] =
           [cols |-> [e.cols EXCEPT ![n] = col], order |-> e.order,
            row_count |-> e.row_count, strict_error |-> e.strict_error]
<1>1. ASSUME NEW w, NEW x, NEW y, NEW z,
             e = [cols |-> w, order |-> x, row_count |-> y, strict_error |-> z]
      PROVE  [e EXCEPT !.cols[n] = col] =
               [cols |-> [w EXCEPT ![n] = col], order |-> x, row_count |-> y,
                strict_error |-> z]
  BY ONLY <1>1, SMT
<1>2. e = [cols |-> e.cols, order |-> e.order, row_count |-> e.row_count,
           strict_error |-> e.strict_error]
  BY EngineFacts
<1> QED
  BY ONLY <1>1, <1>2

\* The columns n of the chunks that have it, one after the other.
Locals(n) ==
  LET having == Having(engines, n) IN [i \in DOMAIN having |-> having[i].cols[n]]

\* The unified dictionary reaches column n of chunk c, and makes this of it.
Moves(n, c) == IsDict(engines[c], n) /\ c <= Len(Locals(n))

Moved(n, c) ==
  LET seed == engines[1].cols[n]
  IN replace_dict(engines[c].cols[n], unified(seed, Locals(n)), remap(seed, Locals(n), c))

(* A column with the unified dictionary is as long as it was, and every code
   has an entry.                                                            *)
LEMMA MovedColumn ==
  ASSUME AssemblyInv, phase = "upgraded", schemas_consistent(engines), Differing # <<>>,
         NEW c \in Chunks, Moves(Differing[1], c)
  PROVE  LET t == Moved(Differing[1], c)
         IN /\ ColumnOK(t) /\ Fit(t) /\ Differing[1] \in DOMAIN engines[c].cols
            /\ t.kind = "dictionary" /\ engines[c].cols[Differing[1]].kind = "dictionary"
            /\ len(t) = len(engines[c].cols[Differing[1]])
<1> DEFINE n == Differing[1]
           seed == engines[1].cols[n]
           having == Having(engines, n)
           locals == [i \in DOMAIN having |-> having[i].cols[n]]
           dict == unified(seed, locals)
           m == remap(seed, locals, c)
           x == engines[c].cols[n]
           t == replace_dict(x, dict, m)
<1>1. c <= Len(locals) /\ IsDict(engines[c], n) /\ Moved(n, c) = t
  BY DEF Moves, Moved, Locals
<1>2. Chunks = 1..Len(engines) /\ Len(engines) \in Nat /\ 1 \in Chunks
  BY EnginesSeq DEF AssemblyInv
<1> HIDE DEF n
<1>3. IsDict(engines[1], n)
  BY <1>2, DifferingFirst DEF n
<1>4. /\ having \in Seq(Engines)
      /\ \A k \in 1..Len(having) : DictSound(having[k].cols[n])
      /\ DictSound(seed) /\ DictSound(x) /\ \E k \in 1..Len(having) : having[k] = engines[c]
  BY <1>1, <1>2, <1>3, HavingDicts DEF IsDict
<1> HIDE DEF having
<1>5. DOMAIN having = 1..Len(having) /\ Len(having) \in Nat
  BY <1>4
<1>6. /\ locals = [i \in 1..Len(having) |-> having[i].cols[n]]
      /\ \A k \in 1..Len(having) : locals[k] = having[k].cols[n] /\ locals[k] \in Storage
  BY <1>4, <1>5, DictFacts
<1> HIDE DEF locals
<1>7. locals \in Seq(Storage) /\ Len(locals) = Len(having)
  BY <1>5, <1>6
<1> HIDE DEF seed, dict, m, x
<1>8. Unifiable(seed, locals)
  BY <1>4, <1>6, <1>7 DEF Unifiable
<1>9. PICK k \in 1..Len(locals) : locals[k] = x
  BY <1>4, <1>6, <1>7 DEF x
<1>10. c \in 1..Len(locals)
  BY <1>1, <1>2, <1>5, <1>7
<1>11. IsArena(dict.arena, dict.offsets) /\ Size(dict) = Size(seed) + Len(Overflow(seed, locals))
  <2>1. Overflow(seed, locals) \in Seq(Seq(Nat))
    BY <1>8, OverflowMembers DEF Unifiable
  <2> QED
    BY <1>4, <2>1, UnifiedArena DEF dict, Extends
<1>12. Size(x) <= Size(dict)
  BY <1>8, <1>9, <1>11, SizeFits
<1>13. \A i \in DOMAIN m : m[i] \in Nat /\ m[i] < Size(dict)
  BY <1>8, <1>10, <1>11, RemapFits DEF m
<1>14. t \in Storage /\ ColumnOK(t)
  BY <1>4, <1>11, <1>12, <1>13, OtherDictionary
<1>15. /\ t.kind = x.kind /\ t.validity = x.validity
       /\ t.arena = dict.arena /\ t.offsets = dict.offsets
  <2>1. x \in Storage
    BY <1>4, DictFacts
  <2> QED
    BY <2>1 DEF replace_dict, Storage
<1>16. x.kind = "dictionary" /\ x.kind # "string"
  BY <1>4 DEF DictSound
<1> HIDE DEF t
<1>17. Fit(t)
  <2>1. Len(t.vals) = len(t) /\ DictOK(t)
    BY <1>14, <1>15, <1>16 DEF ColumnOK
  <2>2. DOMAIN t.vals = 1..len(t)
    BY <1>14, <2>1, StorageFacts
  <2>3. CodesFit(t)
    BY <2>1, <2>2 DEF DictOK, CodesFit
  <2> QED
    BY <1>11, <1>14, <1>15, <1>16, <2>1, <2>3 DEF Fit
<1>18. len(t) = len(x)
  BY <1>15 DEF len
<1> QED
  BY <1>1, <1>14, <1>15, <1>16, <1>17, <1>18 DEF x, n, IsDict

(* One column of the chunks gets the unified dictionary.                    *)
LEMMA UnifyKeeps ==
  ASSUME AssemblyInv, UnifyDictionaries
  PROVE  AssemblyInv'
<1> DEFINE n == Differing[1]
           New(c) == Moved(n, c)
<1>1. /\ phase = "upgraded" /\ schemas_consistent(engines) /\ Differing # <<>>
      /\ phase' = "unified" /\ UNCHANGED <<cfg, state, batches, log>>
  BY DEF UnifyDictionaries
<1>2. engines' = [c \in Chunks |-> IF Moves(n, c) THEN [engines[c] EXCEPT !.cols[n] = New(c)]
                                   ELSE engines[c]]
  BY DEF UnifyDictionaries, Unified, Moves, Moved, Locals
<1>3. Chunks' = Chunks /\ Logged' = Logged
  BY <1>1, PlanStays DEF ChunksSame
<1> HIDE DEF New
<1>5. ASSUME NEW c \in Chunks, Moves(n, c)
      PROVE  New(c) \in Storage /\ ColumnOK(New(c)) /\ n \in DOMAIN engines[c].cols
  BY <1>1, <1>5, MovedColumn DEF New, Fit
<1> HIDE DEF n
<1>6. ASSUME NEW c \in Chunks
      PROVE  /\ engines'[c] \in Engines
             /\ \A m \in DOMAIN engines'[c].cols : ColumnOK(engines'[c].cols[m])
  <2> DEFINE e == engines[c]
  <2>1. /\ e \in Engines /\ \A m \in DOMAIN e.cols : ColumnOK(e.cols[m])
    BY TypeFacts DEF AssemblyInv, RepresentationOK
  <2> HIDE DEF e
  <2>2. CASE ~Moves(n, c)
    BY <1>2, <2>1, <2>2 DEF e
  <2>3. CASE Moves(n, c)
    <3> DEFINE cols == [e.cols EXCEPT ![n] = New(c)]
               f == [e EXCEPT !.cols[n] = New(c)]
    <3>1. New(c) \in Storage /\ ColumnOK(New(c)) /\ n \in DOMAIN e.cols
      BY <1>5, <2>3 DEF e
    <3>2. engines'[c] = f
      BY <1>2, <2>3 DEF e
    <3>3. /\ e = [cols |-> e.cols, order |-> e.order, row_count |-> e.row_count,
                  strict_error |-> e.strict_error]
          /\ e.order \in Seq(Names) /\ e.row_count \in Nat /\ e.strict_error \in BOOLEAN
          /\ e.cols \in Tables
      BY <2>1, EngineFacts
    <3>4. DOMAIN e.cols \in SUBSET Names /\ e.cols \in [DOMAIN e.cols -> Storage]
      BY <3>3, TableFacts
    <3>5. cols \in [DOMAIN e.cols -> Storage]
      BY <3>1, <3>4
    <3>6. cols \in Tables
      <4> DEFINE N == DOMAIN e.cols
      <4>1. N \in SUBSET Names /\ cols \in [N -> Storage]
        BY <3>4, <3>5
      <4> HIDE DEF N, cols
      <4> QED
        BY <4>1, TableMade
    <3>7. f = [cols |-> cols, order |-> e.order, row_count |-> e.row_count,
               strict_error |-> e.strict_error]
      BY ONLY <2>1, ColumnReplaced DEF f, cols
    <3>8. \A m \in DOMAIN e.cols : ColumnOK(cols[m])
      BY <2>1, <3>1, <3>4
    <3>9. DOMAIN cols = DOMAIN e.cols
      OBVIOUS
    <3> HIDE DEF cols, f
    <3>10. f \in Engines /\ f.cols = cols
      BY <3>3, <3>6, <3>7 DEF Engines
    <3> QED
      BY <3>2, <3>8, <3>9, <3>10
  <2> QED
    BY <2>2, <2>3
<1>7. AssemblyTypeOK'
  <2>1. engines' = [c \in Chunks |-> engines'[c]]
    BY <1>2
  <2>2. engines' \in [Chunks -> Engines]
    BY <1>6, <2>1
  <2> QED
    BY <1>1, <1>3, <2>2 DEF AssemblyInv, AssemblyTypeOK
<1>8. RepresentationOK'
  BY <1>3, <1>6 DEF RepresentationOK
<1>9. BuildersOK' /\ SpilledOK'
  BY <1>1 DEF BuildersOK, SpilledOK, Assembling
<1> QED
  BY <1>7, <1>8, <1>9 DEF AssemblyInv

\* Dictionaries agree as far as both go.
Agree(s, t) == IsPrefix(s, t) \/ IsPrefix(t, s)

LEMMA PrefixAgrees ==
  ASSUME NEW T, NEW s \in Seq(T), NEW t \in Seq(T), Agree(s, t),
         NEW i \in 1..Len(s), i <= Len(t)
  PROVE  s[i] = t[i]
<1>1. ASSUME NEW u \in Seq(T), NEW v \in Seq(T), IsPrefix(u, v), i <= Len(u)
      PROVE  u[i] = v[i]
  <2>1. Len(u) <= Len(v) /\ SubSeq(u, 1, Len(u)) = SubSeq(v, 1, Len(u))
    BY <1>1 DEF IsPrefix
  <2>2. i \in 1..Len(u) /\ Len(u) \in Nat /\ Len(v) \in Nat
    BY <1>1
  <2>3. SubSeq(u, 1, Len(u))[i] = u[i] /\ SubSeq(v, 1, Len(u))[i] = v[i]
    BY <2>1, <2>2
  <2> QED
    BY <2>1, <2>3
<1>2. i <= Len(s)
  OBVIOUS
<1> QED
  BY <1>1, <1>2 DEF Agree

\* A chunk whose dictionary agrees with the first chunk's keeps its texts: an
\* entry that overflows has its global code, any other one is an entry of the
\* seed, in the same place.
LEMMA RemapKeeps ==
  ASSUME NEW seed, NEW locals, Unifiable(seed, locals), NEW j \in 1..Len(locals),
         NEW dict, Extends(dict, seed, Overflow(seed, locals)),
         Agree(Entries(locals[j]), Entries(seed))
  PROVE  LET map == remap(seed, locals, j)
         IN /\ DOMAIN map = 1..Size(locals[j])
            /\ \A i \in DOMAIN map :
                 Text(dict.arena, dict.offsets, map[i] + 1) = Entries(locals[j])[i]
<1> DEFINE extra == Overflow(seed, locals)
           own == Entries(locals[j])
           all == Entries(seed)
           map == remap(seed, locals, j)
           n == Size(seed)
           m == Size(locals[j])
           T == Seq(Nat)
           At1(k) == Text(dict.arena, dict.offsets, k)
<1>1. /\ DictSound(seed) /\ locals \in Seq(Storage)
      /\ \A k \in 1..Len(locals) : DictSound(locals[k])
  BY DEF Unifiable
<1>2. /\ extra \in Seq(T)
      /\ \A i \in 1..m : i > n => own[i] \in ToSet(extra)
  BY <1>1, OverflowMembers
<1>3. /\ n \in Nat /\ Len(all) = n /\ all \in Seq(T)
      /\ all = [i \in 1..n |-> Text(seed.arena, seed.offsets, i)]
      /\ m \in Nat /\ own \in Seq(T) /\ Len(own) = m
  BY <1>1, DictFacts
<1>4. DOMAIN own = 1..m
  BY <1>3
<1>5. /\ \A i \in 1..n : At1(i) = all[i]
      /\ \A i \in 1..Len(extra) : At1(n + i) = extra[i]
  BY <1>3 DEF Extends
<1>6. map = [i \in 1..m |-> IF own[i] \in ToSet(extra)
                              THEN n + PositionOf(extra, own[i]) - 1 ELSE i - 1]
  BY <1>3, <1>4 DEF remap
<1>7. Agree(own, all)
  OBVIOUS
<1> HIDE DEF extra, own, map, n, m, At1, all, T
<1>8. ASSUME NEW i \in 1..m
      PROVE  At1(map[i] + 1) = own[i]
  <2>1. CASE own[i] \in ToSet(extra)
    <3> DEFINE p == PositionOf(extra, own[i])
    <3>1. p \in 1..Len(extra) /\ extra[p] = own[i]
      BY <1>2, <2>1, PositionFacts
    <3>2. map[i] = n + p - 1
      BY <1>6, <2>1
    <3> HIDE DEF p
    <3>3. map[i] + 1 = n + p
      BY <1>3, <3>1, <3>2
    <3> QED
      BY <1>5, <3>1, <3>3
  <2>2. CASE own[i] \notin ToSet(extra)
    <3>1. i \in 1..n /\ i <= Len(all) /\ i \in 1..Len(own)
      BY <1>2, <1>3, <2>2
    <3>2. map[i] = i - 1 /\ (i - 1) + 1 = i
      BY <1>6, <2>2
    <3>3. own[i] = all[i]
      BY <1>3, <1>7, <3>1, PrefixAgrees
    <3> QED
      BY <1>5, <3>1, <3>2, <3>3
  <2> QED
    BY <2>1, <2>2
<1>9. DOMAIN map = 1..m
  BY <1>6
<1> QED
  BY <1>8, <1>9 DEF map, m, own, At1

(* Such a chunk's column keeps its cells.                                   *)
LEMMA ReplacedCells ==
  ASSUME NEW seed, NEW locals, Unifiable(seed, locals), NEW j \in 1..Len(locals),
         Agree(Entries(locals[j]), Entries(seed))
  PROVE  Cells(replace_dict(locals[j], unified(seed, locals), remap(seed, locals, j)))
           = Cells(locals[j])
<1> DEFINE c == locals[j]
           dict == unified(seed, locals)
           map == remap(seed, locals, j)
           more == Overflow(seed, locals)
<1>1. DictSound(seed) /\ DictSound(c)
  BY DEF Unifiable
<1>2. more \in Seq(Seq(Nat))
  BY OverflowMembers DEF Unifiable
<1>3. Extends(dict, seed, more)
  BY <1>1, <1>2, UnifiedArena
<1>4. /\ DOMAIN map = 1..Size(c)
      /\ \A i \in DOMAIN map : Text(dict.arena, dict.offsets, map[i] + 1) = Entries(c)[i]
  BY <1>3, RemapKeeps
<1>5. Size(c) <= Size(dict)
  BY <1>3, SizeFits DEF Extends
<1>6. \A i \in DOMAIN map : map[i] \in Nat /\ map[i] < Size(dict)
  BY <1>3, RemapFits DEF Extends
<1> DEFINE t == replace_dict(c, dict, map)
<1> HIDE DEF c, dict, map, more
<1>7. /\ len(t) = len(c)
      /\ \A i \in 1..len(c) :
           At(t, i) = IF is_valid(c.validity, i)
                        THEN Text(dict.arena, dict.offsets, NewCode(c, map, i) + 1) ELSE Null
  BY <1>1, <1>3, <1>5, <1>6, OtherDictionary DEF Extends
<1> HIDE DEF t
<1>8. ASSUME NEW i \in 1..len(c)
      PROVE  At(t, i) = At(c, i)
  <2>1. is_valid(c.validity, i) \in BOOLEAN
    BY <1>1, DictFacts, StorageFacts
  <2>2. CASE is_valid(c.validity, i)
    <3> DEFINE v == c.vals[i] + 1
    <3>1. v \in 1..(Len(c.offsets) - 1) /\ v < Len(c.offsets)
      BY <1>1, <2>2, CodeFacts, SoundFit DEF DictSound
    <3>2. v \in DOMAIN map
      BY <1>4, <3>1 DEF Size
    <3>3. At(c, i) = Text(c.arena, c.offsets, v)
      BY <1>1, <2>2, <3>1, CodeCells DEF DictSound
    <3>4. NewCode(c, map, i) = map[v]
      BY <2>2, <3>2 DEF NewCode
    <3>5. Entries(c)[v] = Text(c.arena, c.offsets, v)
      BY <1>1, <3>1, DictFacts DEF Size
    <3> HIDE DEF v
    <3> QED
      BY <1>4, <1>7, <2>2, <3>2, <3>3, <3>4, <3>5
  <2>3. CASE ~ is_valid(c.validity, i)
    <3>1. At(c, i) = Null
      BY <2>3 DEF At, CellBy
    <3> QED
      BY <1>7, <2>3, <3>1
  <2> QED
    BY <2>1, <2>2, <2>3
<1>9. Cells(t) = [i \in 1..len(t) |-> At(t, i)] /\ Cells(c) = [i \in 1..len(c) |-> At(c, i)]
  BY DEF Cells, At
<1> QED
  BY <1>7, <1>8, <1>9 DEF t, c, dict, map

\* If every chunk has a dictionary that agrees with the first chunk's, all of
\* them take part and none loses a cell.
LEMMA AgreeingUnify ==
  ASSUME AssemblyInv, UnifyDictionaries,
         \A e \in ToSet(engines) :
           /\ IsDict(e, Differing[1])
           /\ Agree(Entries(e.cols[Differing[1]]), Entries(engines[1].cols[Differing[1]]))
  PROVE  BuildersHold'
<1> DEFINE n == Differing[1]
           seed == engines[1].cols[n]
           having == Having(engines, n)
           locals == [i \in DOMAIN having |-> having[i].cols[n]]
           dict == unified(seed, locals)
           New(c) == replace_dict(engines[c].cols[n], dict, remap(seed, locals, c))
           Reached(c) == IsDict(engines[c], n) /\ c <= Len(locals)
<1>1. /\ phase = "upgraded" /\ schemas_consistent(engines) /\ Differing # <<>>
      /\ phase' = "unified" /\ UNCHANGED <<cfg, state, batches, log>>
  BY DEF UnifyDictionaries
<1>2. engines' = [c \in Chunks |-> IF Reached(c) THEN [engines[c] EXCEPT !.cols[n] = New(c)]
                                   ELSE engines[c]]
  BY DEF UnifyDictionaries, Unified
<1>3. Chunks' = Chunks
  BY <1>1, PlanStays DEF ChunksSame
<1>4. /\ engines \in Seq(Engines) /\ Chunks = 1..Len(engines) /\ Len(engines) \in Nat
      /\ DOMAIN engines = 1..Len(engines) /\ (Chunks # {} => 1 \in Chunks)
  BY EnginesSeq DEF AssemblyInv
<1>5. \A c \in Chunks : /\ IsDict(engines[c], n)
                        /\ Agree(Entries(engines[c].cols[n]), Entries(seed))
  BY <1>4 DEF ToSet
<1>6. having = engines
  <2> DEFINE P == {i \in DOMAIN engines : n \in DOMAIN engines[i].cols}
  <2>1. 1..Len(engines) \subseteq P
    BY <1>4, <1>5 DEF IsDict
  <2> HIDE DEF P
  <2>2. Picked(engines, P) = engines
    BY <1>4, <2>1, PickedAll
  <2> QED
    BY <2>2 DEF Having, P
<1>7. ASSUME NEW c \in Chunks
      PROVE  DictSound(engines[c].cols[n])
  <2>1. 1 \in Chunks /\ n \in DOMAIN engines[c].cols /\ IsDict(engines[1], n)
    BY <1>4, <1>5 DEF IsDict
  <2> HIDE DEF n
  <2> QED
    BY <1>1, <2>1, HavingDicts
<1> HIDE DEF having
<1>8. /\ locals = [i \in 1..Len(engines) |-> engines[i].cols[n]]
      /\ \A i \in 1..Len(engines) : locals[i] = engines[i].cols[n] /\ locals[i] \in Storage
  BY <1>4, <1>6, <1>7, DictFacts
<1> HIDE DEF n, locals
<1>9. locals \in Seq(Storage) /\ Len(locals) = Len(engines)
  BY <1>4, <1>8
<1>10. ASSUME NEW c \in Chunks
       PROVE  Cells(New(c)) = Cells(engines[c].cols[n])
  <2>1. 1 \in Chunks /\ c \in 1..Len(locals) /\ locals[c] = engines[c].cols[n]
    BY <1>4, <1>8, <1>9
  <2>2. Unifiable(seed, locals)
    BY <1>4, <1>7, <1>8, <1>9, <2>1 DEF Unifiable
  <2>3. Agree(Entries(locals[c]), Entries(seed))
    BY <1>5, <2>1
  <2> HIDE DEF seed
  <2> QED
    BY <2>1, <2>2, <2>3, ReplacedCells
<1>11. \A c \in Chunks : Reached(c)
  BY <1>4, <1>5, <1>9
<1> HIDE DEF New, Reached, dict, seed
<1>12. ASSUME NEW c \in Chunks
       PROVE  /\ DOMAIN engines'[c].cols = DOMAIN engines[c].cols
              /\ engines'[c].row_count = engines[c].row_count
              /\ \A m \in DOMAIN engines[c].cols :
                   Cells(engines'[c].cols[m]) = Cells(engines[c].cols[m])
  <2> DEFINE e == engines[c]
             f == [e EXCEPT !.cols[n] = New(c)]
  <2>1. e \in Engines /\ engines'[c] = f
    BY <1>2, <1>4, <1>11
  <2>2. f = [cols |-> [e.cols EXCEPT ![n] = New(c)], order |-> e.order,
             row_count |-> e.row_count, strict_error |-> e.strict_error]
    BY ONLY <2>1, ColumnReplaced DEF f
  <2>3. Cells(New(c)) = Cells(e.cols[n])
    BY <1>10
  <2> HIDE DEF e, f
  <2>4. f.cols = [e.cols EXCEPT ![n] = New(c)] /\ f.row_count = e.row_count
    BY <2>2
  <2>5. ASSUME NEW m \in DOMAIN e.cols
        PROVE  Cells(f.cols[m]) = Cells(e.cols[m])
    <3>1. f.cols[m] = IF m = n THEN New(c) ELSE e.cols[m]
      BY <2>4
    <3> QED
      BY <2>3, <3>1
  <2> QED
    BY <2>1, <2>4, <2>5 DEF e
<1>13. Assembling
  BY <1>1 DEF Assembling
<1>14. ASSUME NEW c \in Chunks, NEW m \in DOMAIN engines[c].cols
       PROVE  Holds(c, m)'
  <2>1. Holds(c, m)
    BY <1>13, BuilderHolds
  <2>2. SerialCells(c, m)' = SerialCells(c, m)
    BY <1>1 DEF SerialCells, Accepted, Meaning
  <2>3. InBatches(m)' = InBatches(m)
    BY <1>1 DEF InBatches
  <2>4. Spilled(m)' = Spilled(m) /\ Emits(m)' = Emits(m)
    BY <1>1, <2>3 DEF Spilled, Emits, Projects
  <2>5. Cells(engines'[c].cols[m]) = Cells(engines[c].cols[m])
    BY <1>12
  <2> QED
    BY <1>1, <1>12, <2>1, <2>2, <2>4, <2>5 DEF Holds
<1> QED
  BY <1>3, <1>12, <1>14 DEF BuildersHold

(* Every step keeps the invariant.                                          *)
LEMMA NextKeeps ==
  AssemblyInv /\ [Next]_vars => AssemblyInv'
<1> SUFFICES ASSUME AssemblyInv, [Next]_vars
             PROVE  AssemblyInv'
  OBVIOUS
<1>1. ASSUME NEW c \in Chunks, ParseRow(c)
      PROVE  AssemblyInv'
  BY <1>1, ParseRowKeeps
<1>2. ASSUME NEW c \in Chunks, EndChunk(c)
      PROVE  AssemblyInv'
  BY <1>2, EndChunkKeeps
<1>3. ASSUME NEW c \in Chunks, ChunkFails(c)
      PROVE  AssemblyInv'
  BY <1>3, ChunkFailsKeeps
<1>4. CASE CollectFails
  BY <1>4, ConcludeKeeps DEF CollectFails
<1>5. CASE ExportChunks
  BY <1>5, ConcludeKeeps DEF ExportChunks
<1>6. CASE UpgradeChunks
  BY <1>6, UpgradeChunksKeeps
<1>7. CASE UnifyDictionaries
  BY <1>7, UnifyKeeps
<1>8. CASE ExportUnified
  BY <1>8, ConcludeKeeps DEF ExportUnified
<1>9. CASE MergeChunks
  <2> DEFINE r == finish(Merged)
             s == IF Merged.conflict \/ ~r.ok \/ ~apply_compare_filter(r.batches[1].order)
                    THEN Failed ELSE r
  <2>1. Conclude(s)
    BY <1>9 DEF MergeChunks
  <2> HIDE DEF s
  <2> QED
    BY <2>1, ConcludeKeeps
<1>10. CASE SpillRows
  BY <1>10, SpillRowsKeeps
<1>11. CASE CollectBatches
  <2> DEFINE s == IF engines[1].strict_error THEN Failed
                  ELSE [ok |-> TRUE, batches |-> Aligned]
  <2>1. Conclude(s)
    BY <1>11 DEF CollectBatches
  <2> HIDE DEF s
  <2> QED
    BY <2>1, ConcludeKeeps
<1>12. CASE UNCHANGED vars
  BY <1>12, StutterKeeps
<1> QED
  BY <1>1, <1>2, <1>3, <1>4, <1>5, <1>6, <1>7, <1>8, <1>9, <1>10, <1>11, <1>12 DEF Next

(* The inductive invariant: sound builders that hold the last accepted rows,
   and batches that have the accepted rows before them.                     *)
LEMMA InvHolds == Spec => []AssemblyInv
<1>1. Init => AssemblyInv
  BY InitInv
<1>2. AssemblyInv /\ [Next]_vars => AssemblyInv'
  BY NextKeeps
<1> QED
  BY <1>1, <1>2, PTL DEF Spec

-----------------------------------------------------------------------------
(* The theorems.                                                            *)

(* Every column of every builder keeps its representation, through rows that
   are put and popped, columns filled up and cut off, dictionary upgrades,
   split-off batches and the remapping of codes, for every width of a
   bitmap's words: offsets, arena, codes and bitmap agree, no bit is set
   beyond the end, null_count is exact, and a dictionary's index is the
   inverse of its entries (ColumnBuilder and BitVec in columnar.rs,
   unify_dictionaries in dict.rs).                                          *)
THEOREM RepresentationKept == Spec => []RepresentationOK
<1>1. AssemblyInv => RepresentationOK
  BY DEF AssemblyInv
<1> QED
  BY <1>1, InvHolds, PTL

(* Until they are exported or unified, the builders hold exactly the accepted
   cells, of a spilling sink together with the batches split off before:
   rejected rows, a row left open at the end of a chunk, columns that appear
   late, upgrades to dictionaries and split-off batches neither lose nor
   invent a cell (TableBuilder in table_builder.rs, SpillingTableSink in
   spill.rs, ColumnBuilder in columnar.rs).                                 *)
THEOREM AcceptedCellsKept == Spec => []CellsKept
<1>1. AssemblyInv => CellsKept
  BY InvHoldsCells
<1> QED
  BY <1>1, InvHolds, PTL

(* Where the chunks' dictionaries agree as far as both go, and every chunk has
   one, the unified dictionary gives every code of every chunk the string it
   had, whatever the chunks hold beyond the first one's: the codes of new
   values are remapped, all others stay (unify_dictionaries in dict.rs and its
   caller in parallel.rs).                                                  *)
THEOREM AgreeingPrefixesUnify == Spec => PrefixesUnify
<1> DEFINE n == Differing[1]
           first == Entries(engines[1].cols[n])
           all == {Entries(e.cols[n]) : e \in ToSet(engines)}
           Step == phase' = "unified" /\ phase = "upgraded" =>
                     ((\A e \in ToSet(engines) : IsDict(e, n)) /\
                      (\A d \in all : IsPrefix(d, first) \/ IsPrefix(first, d))
                      => BuildersHold')
<1>1. ASSUME AssemblyInv, [Next]_vars
      PROVE  [Step]_vars
  <2>1. SUFFICES ASSUME phase' = "unified", phase = "upgraded",
                        \A e \in ToSet(engines) : IsDict(e, n),
                        \A d \in all : IsPrefix(d, first) \/ IsPrefix(first, d)
                 PROVE  BuildersHold'
    OBVIOUS
  <2>2. UnifyDictionaries
    BY <1>1, <2>1 DEF Next, vars, ParseRow, EndChunk, ChunkFails, CollectFails, ExportChunks,
         UpgradeChunks, ExportUnified, MergeChunks, SpillRows, CollectBatches, Conclude
  <2>3. \A e \in ToSet(engines) : Agree(Entries(e.cols[n]), first)
    BY <2>1 DEF Agree
  <2> QED
    BY <1>1, <2>1, <2>2, <2>3, AgreeingUnify
<1> QED
  BY <1>1, InvHolds, PTL DEF Spec, PrefixesUnify

-----------------------------------------------------------------------------
(* The order of the columns.                                                *)

\* The fields of each row, in the order of a record.
FieldsIn(l) == [i \in DOMAIN l |-> FieldsOf(l[i].vals)]

RowFields == [x \in Logged |-> FieldsOf(x.vals)]

\* The order that a log of rows gives the columns.
OrderFrom(l) == IF Projects THEN predeclared ELSE Firsts(FlattenSeq(FieldsIn(l)))

LEMMA FieldsTyped ==
  ASSUME NEW row
  PROVE  /\ FieldsOf(row) \in Seq(Names)
         /\ ToSet(FieldsOf(row)) = {n \in Names : n \in DOMAIN row}
<1> DEFINE P == {i \in DOMAIN FieldOrder : FieldOrder[i] \in DOMAIN row}
<1>1. FieldOrder \in Seq(Names) /\ DOMAIN FieldOrder = 1..Len(FieldOrder)
  BY OrderFacts
<1>2. FieldsOf(row) = Picked(FieldOrder, P)
  BY DEF FieldsOf
<1> HIDE DEF P
<1>3. /\ Picked(FieldOrder, P) \in Seq(Names)
      /\ ToSet(Picked(FieldOrder, P)) = {FieldOrder[i] : i \in P \cap (1..Len(FieldOrder))}
  BY <1>1, PickedMembers
<1>4. {FieldOrder[i] : i \in P \cap (1..Len(FieldOrder))} = {n \in Names : n \in DOMAIN row}
  <2>1. ASSUME NEW n \in Names, n \in DOMAIN row
        PROVE  \E i \in P \cap (1..Len(FieldOrder)) : FieldOrder[i] = n
    BY <1>1, <2>1, OrderFacts DEF P
  <2>2. ASSUME NEW i \in P \cap (1..Len(FieldOrder))
        PROVE  FieldOrder[i] \in Names /\ FieldOrder[i] \in DOMAIN row
    BY <1>1 DEF P
  <2> QED
    BY <2>1, <2>2
<1> QED
  BY <1>2, <1>3, <1>4

LEMMA FieldsInAs ==
  ASSUME NEW l \in Seq(Logged)
  PROVE  /\ FieldsIn(l) = Mapped(l, RowFields) /\ FieldsIn(l) \in Seq(Seq(Names))
         /\ Len(FieldsIn(l)) = Len(l)
<1>1. \A x \in Logged : RowFields[x] = FieldsOf(x.vals) /\ RowFields[x] \in Seq(Names)
  BY FieldsTyped DEF RowFields
<1>2. DOMAIN l = 1..Len(l) /\ \A i \in 1..Len(l) : l[i] \in Logged
  OBVIOUS
<1>3. FieldsIn(l) = Mapped(l, RowFields)
  BY <1>1, <1>2 DEF FieldsIn, Mapped
<1>4. Mapped(l, RowFields) \in Seq(Seq(Names)) /\ Len(Mapped(l, RowFields)) = Len(l)
  <2> DEFINE R == Seq(Names)
             f == RowFields
  <2>1. \A x \in Logged : f[x] \in R
    BY <1>1
  <2> HIDE DEF R, f
  <2>2. Mapped(l, f) \in Seq(R) /\ Len(Mapped(l, f)) = Len(l)
    <3>1. \A i \in 1..Len(l) : f[l[i]] \in R
      BY <1>2, <2>1
    <3> QED
      BY <3>1 DEF Mapped
  <2> QED
    BY <2>2 DEF R, f
<1> QED
  BY <1>3, <1>4

(* One more row brings the fields that are new.                             *)
LEMMA LogMore ==
  ASSUME NEW l \in Seq(Logged), NEW x \in Logged
  PROVE  OrderFrom(Append(l, x)) =
           IF Projects THEN predeclared ELSE Firsts(Joined(OrderFrom(l), FieldsOf(x.vals)))
<1> DEFINE a == FlattenSeq(FieldsIn(l))
           f == FieldsOf(x.vals)
<1>1. Append(l, x) \in Seq(Logged) /\ RowFields[x] = f /\ f \in Seq(Names)
  BY FieldsTyped DEF RowFields
<1>2. FieldsIn(Append(l, x)) = Append(FieldsIn(l), f)
  <2> DEFINE g == RowFields
  <2>1. FieldsIn(l) = Mapped(l, g) /\ FieldsIn(Append(l, x)) = Mapped(Append(l, x), g)
    BY <1>1, FieldsInAs
  <2> HIDE DEF g
  <2>2. Mapped(Append(l, x), g) = Append(Mapped(l, g), g[x])
    BY MappedMore
  <2> QED
    BY <1>1, <2>1, <2>2 DEF g
<1>3. a \in Seq(Names) /\ FlattenSeq(FieldsIn(Append(l, x))) = Joined(a, f)
  BY <1>1, <1>2, FieldsInAs, FlattenMore
<1> HIDE DEF a, f
<1>4. Firsts(Joined(a, f)) = Firsts(Joined(Firsts(a), f))
  BY <1>1, <1>3, FirstsJoined
<1> QED
  BY <1>3, <1>4 DEF OrderFrom, a, f

LEMMA NoLog ==
  OrderFrom(<<>>) = IF Projects THEN predeclared ELSE <<>>
<1>1. FieldsIn(<<>>) = <<>>
  BY DEF FieldsIn
<1>2. FlattenSeq(<<>>) = <<>> /\ Firsts(<<>>) = <<>>
  BY FlattenNone, FirstsMore
<1> QED
  BY <1>1, <1>2 DEF OrderFrom

(* A column keeps its place, a new one is the last.                         *)
LEMMA EnsureOrder ==
  ASSUME NEW e \in Engines, DOMAIN e.cols = ToSet(e.order), NEW n, NEW kind, NEW value
  PROVE  /\ ensure_column(e, n, kind).order = New1(e.order, n)
         /\ PutField(e, n, kind, value).order = New1(e.order, n)
<1> DEFINE w == ensure_column(e, n, kind)
           p == PutField(e, n, kind, value)
<1>1. e = [cols |-> e.cols, order |-> e.order, row_count |-> e.row_count,
           strict_error |-> e.strict_error]
  BY EngineFacts
<1>2. w.order = New1(e.order, n) /\ DOMAIN w = DOMAIN e
  BY <1>1 DEF ensure_column, New1
<1>3. p = [w EXCEPT !.cols[n] = push_value(@, value),
                    !.strict_error = @ \/ (cfg.strict /\ violates(kind, value))]
  BY DEF PutField
<1> HIDE DEF w, p
<1>4. p.order = w.order
  BY <1>1, <1>2, <1>3
<1> QED
  BY <1>2, <1>4 DEF w, p

(* All columns that a projection wants are declared.                        *)
LEMMA WantedDeclared ==
  ASSUME cfg \in Configs, Projects, NEW n \in Names, wants(n)
  PROVE  n \in ToSet(predeclared)
<1> DEFINE P == {i \in DOMAIN FieldOrder : FieldOrder[i] \in cfg.filter_names \ ToSet(cfg.schema_order)}
           more == Picked(FieldOrder, P)
<1>1. FieldOrder \in Seq(Names) /\ DOMAIN FieldOrder = 1..Len(FieldOrder)
  BY OrderFacts
<1>2. predeclared = cfg.schema_order \o more
  BY DEF predeclared
<1>3. cfg.schema_order \in Seq(Names)
  <2>1. PICK names \in SUBSET Names : cfg.schema_order \in Seq(names)
    BY ConfigFacts
  <2> QED
    BY <2>1
<1> HIDE DEF P
<1>4. more \in Seq(Names) /\ ToSet(more) = {FieldOrder[i] : i \in P \cap (1..Len(FieldOrder))}
  BY <1>1, PickedMembers
<1> HIDE DEF more
<1>5. n \in ToSet(cfg.schema_order) \/ n \in ToSet(more)
  <2>1. CASE n \notin ToSet(cfg.schema_order)
    <3>1. n \in cfg.filter_names
      BY <2>1 DEF wants
    <3>2. PICK i \in 1..Len(FieldOrder) : FieldOrder[i] = n
      BY OrderFacts
    <3>3. i \in P
      BY <1>1, <2>1, <3>1, <3>2 DEF P
    <3> QED
      BY <1>4, <3>2, <3>3
  <2> QED
    BY <2>1
<1>6. ToSet(predeclared) = ToSet(cfg.schema_order) \cup ToSet(more)
  BY <1>2, <1>3, <1>4, ConcatMembers
<1> QED
  BY <1>5, <1>6

(* The fields of a row come to the columns in their order.                  *)
LEMMA PutOrder ==
  ASSUME cfg \in Configs, NEW c \in Chunks, NEW row \in Rows, NEW e, SoundEngine(cfg, e),
         Projects => e.order = predeclared, ~Projects => Unrepeated(e.order)
  PROVE  PutFields(e, c, row).order =
           IF Projects THEN predeclared ELSE Firsts(Joined(e.order, FieldsOf(row)))
<1> DEFINE top == Len(FieldOrder)
           P == {i \in DOMAIN FieldOrder : FieldOrder[i] \in DOMAIN row}
           Then(p) == IF Projects THEN predeclared ELSE Firsts(Joined(e.order, p))
<1>1. FieldOrder \in Seq(Names) /\ DOMAIN FieldOrder = 1..top /\ top \in Nat
  BY OrderFacts
<1>2. e \in Engines /\ e.order \in Seq(Names)
  BY EngineFacts DEF SoundEngine
<1>3. PICK run : IsPutting(run, e, c, row)
  BY PuttingExists
<1>4. PICK pick \in [0..top -> Seq(Names)] : IsPicking(pick, FieldOrder, P)
  BY <1>1, PickingExists
<1>5. FieldsOf(row) = pick[top]
  BY <1>4 DEF FieldsOf, IsPicking
<1> HIDE DEF P
<1> DEFINE K == {k \in 0..top : SoundEngine(cfg, run[k]) /\ run[k].order = Then(pick[k])}
<1>6. 0 \in K
  <2>1. pick[0] = <<>> /\ run[0] = e
    BY <1>3, <1>4 DEF IsPicking, IsPutting
  <2>2. ASSUME ~Projects
        PROVE  Firsts(e.order) = e.order /\ Joined(e.order, <<>>) = e.order
    <3> DEFINE o == e.order
    <3>1. o \in Seq(Names) /\ Unrepeated(o)
      BY <1>2, <2>2
    <3> HIDE DEF o
    <3>2. Firsts(o) = o
      BY <3>1, FirstsFacts
    <3>3. Joined(o, <<>>) = o
      BY <3>1 DEF Joined
    <3> QED
      BY <3>2, <3>3 DEF o
  <2> QED
    BY <1>1, <2>1, <2>2
<1>7. ASSUME NEW k \in Nat, k < top, k \in K
      PROVE  k + 1 \in K
  <2> DEFINE m == k + 1
             n == FieldOrder[m]
             x == run[k]
             s == Joined(e.order, pick[k])
  <2>1. m \in 1..top /\ m \in 0..top /\ m - 1 = k /\ k \in 0..top
    BY <1>1, <1>7
  <2>2. SoundEngine(cfg, x) /\ x.order = Then(pick[k]) /\ pick[k] \in Seq(Names)
    BY <1>4, <1>7, <2>1
  <2>3. x \in Engines /\ DOMAIN x.cols = ToSet(x.order) /\ x.order \in Seq(Names)
    BY <2>2, EngineFacts DEF SoundEngine
  <2>4. /\ run[m] = PutField1(x, c, row, m)
        /\ pick[m] = IF m \in P THEN Append(pick[k], n) ELSE pick[k]
    BY <1>3, <1>4, <2>1 DEF IsPicking, IsPutting
  <2>5. n \in Names /\ (m \in P <=> n \in DOMAIN row)
    BY <1>1, <2>1 DEF P
  <2>6. CASE n \in DOMAIN row /\ wants(n)
    <3> DEFINE p == PutField(x, n, cfg.kinds[c][n], row[n])
    <3>1. run[m] = p
      BY <2>4, <2>6 DEF PutField1
    <3>2. SoundEngine(cfg, p)
      <4>1. Wanted(cfg, n) /\ ValueOK(row[n]) /\ cfg.kinds[c][n] \in Kinds
        BY <2>6, RowFacts, WantsWanted
      <4>2. HasPut(p, x, n, cfg.kinds[c][n], row[n])
        BY <2>2, <2>5, <4>1, PutOne
      <4> QED
        BY <4>2 DEF HasPut
    <3>3. p.order = New1(x.order, n)
      BY <2>3, EnsureOrder
    <3> HIDE DEF p, m, n, x
    <3>4. CASE Projects
      <4>1. n \in ToSet(x.order)
        BY <2>2, <2>5, <2>6, <3>4, WantedDeclared
      <4> QED
        BY <2>1, <2>2, <3>1, <3>2, <3>3, <3>4, <4>1 DEF New1
    <3>5. CASE ~Projects
      <4>1. Joined(e.order, pick[m]) = Append(s, n) /\ s \in Seq(Names)
        <5> DEFINE o == e.order
        <5>1. /\ o \in Seq(Names) /\ pick[k] \in Seq(Names) /\ n \in Names
              /\ pick[m] = Append(pick[k], n)
          BY <1>2, <2>2, <2>4, <2>5, <2>6
        <5> HIDE DEF o
        <5>2. /\ Joined(o, Append(pick[k], n)) = Append(Joined(o, pick[k]), n)
              /\ Joined(o, pick[k]) \in Seq(Names)
          BY ONLY <5>1, JoinedMore
        <5> QED
          BY <5>1, <5>2 DEF o, s
      <4>2. Firsts(Append(s, n)) = New1(Firsts(s), n)
        BY <2>5, <4>1, FirstsMore
      <4> HIDE DEF s
      <4>3. Then(pick[m]) = New1(x.order, n)
        BY <2>2, <3>5, <4>1, <4>2 DEF s
      <4> QED
        BY <2>1, <3>1, <3>2, <3>3, <4>3
    <3> QED
      BY <3>4, <3>5 DEF m
  <2>7. CASE n \notin DOMAIN row
    <3>1. run[m] = x /\ pick[m] = pick[k]
      BY <2>4, <2>5, <2>7 DEF PutField1
    <3> QED
      BY <2>1, <2>2, <3>1
  <2>8. CASE ~wants(n)
    <3>1. run[m] = x /\ Projects
      BY <2>4, <2>8 DEF PutField1, wants
    <3> QED
      BY <2>1, <2>2, <3>1
  <2> QED
    BY <2>6, <2>7, <2>8
<1> HIDE DEF K
<1>8. \A k \in 0..top : k \in K
  BY <1>1, <1>6, <1>7, IntervalInduction
<1>9. run[top].order = Then(pick[top])
  <2>1. top \in K
    BY <1>1, <1>8
  <2> QED
    BY <2>1 DEF K
<1> QED
  BY <1>3, <1>5, <1>9 DEF IsPutting

-----------------------------------------------------------------------------
(* What the builders are until the end.                                     *)

\* A builder whose columns can all be exported.
FitEngine(k, e) ==
  /\ e \in Engines
  /\ DOMAIN e.cols = ToSet(e.order)
  /\ k.schema_order # <<>> => ToSet(k.schema_order) \subseteq DOMAIN e.cols
  /\ \A n \in DOMAIN e.cols :
       Wanted(k, n) /\ Fit(e.cols[n]) /\ e.row_count <= len(e.cols[n])

\* A column of kind a may become one of kind b.
Promotes(a, b) ==
  b = a \/ (a = "int64" /\ b = "float64") \/ (a = "string" /\ b = "dictionary")

Grown(k, c, e) == \A n \in DOMAIN e.cols : Promotes(k.kinds[c][n], e.cols[n].kind)

\* Every field of these rows that is wanted has a column.
Known1(k, e, rows) ==
  \A i \in 1..Len(rows) : \A n \in DOMAIN rows[i].vals : Wanted(k, n) => n \in DOMAIN e.cols

\* A builder, with the log that it comes from.
Assembled(c) ==
  /\ FitEngine(cfg, engines[c]) /\ Grown(cfg, c, engines[c])
  /\ engines[c].order = OrderFrom(log[c])
  /\ Known1(cfg, engines[c], Accepted(c))
  /\ cfg.mode # "spill" => engines[c].row_count = Len(Accepted(c))

\* Only a parallel run upgrades or unifies its chunks' columns.
PhaseOK ==
  phase \in {"upgraded", "unified"} =>
    cfg.mode = "parallel" /\ \A c \in Chunks : state[c] = "parsed"

Prepared == PhaseOK /\ \A c \in Chunks : Assembled(c)

LEMMA SoundEngineFit ==
  ASSUME NEW k, NEW e, SoundEngine(k, e)
  PROVE  FitEngine(k, e)
BY SoundFit DEF SoundEngine, FitEngine

LEMMA OrderStays ==
  ASSUME cfg' = cfg
  PROVE  /\ Projects' = Projects /\ predeclared' = predeclared
         /\ \A c : OrderFrom(log[c])' = OrderFrom(log'[c])
BY DEF Projects, predeclared, OrderFrom, FieldsIn

(* While a builder is sound, the order of its columns is what is new.       *)
LEMMA SoundAssembled ==
  ASSUME cfg' = cfg, AssemblyInv', phase' = "parse",
         \A c \in Chunks : engines'[c].order = OrderFrom(log'[c])
  PROVE  Prepared'
<1>1. ASSUME NEW c \in Chunks'
      PROVE  Assembled(c)'
  <2>1. BuilderOK(c)'
    BY <1>1 DEF AssemblyInv, BuildersOK, Assembling
  <2>2. engines'[c].order = OrderFrom(log[c])'
    BY OrderStays DEF Chunks
  <2> QED
    BY <2>1, <2>2, SoundEngineFit DEF BuilderOK, Assembled, RowsHeld, Known1, Planned, Grown, Promotes
<1>2. PhaseOK'
  BY DEF PhaseOK
<1> QED
  BY <1>1, <1>2 DEF Prepared

(* The order that a parsed row leaves.                                      *)
LEMMA RowOrder ==
  ASSUME AssemblyInv, Prepared, phase = "parse", NEW c \in Chunks, state[c] = "parsing",
         NEW row \in Rows, NEW x \in Logged, x.vals = row
  PROVE  LET put == PutFields(engines[c], c, row)
         IN /\ put.order = OrderFrom(Append(log[c], x))
            /\ FillMissing(put).order = put.order
            /\ [FillMissing(put) EXCEPT !.row_count = @ + 1].order = put.order
            /\ PopRow(FillMissing(put)).order = put.order
<1> DEFINE e == engines[c]
           put == PutFields(e, c, row)
<1>1. /\ cfg \in Configs /\ e \in Engines /\ log[c] \in Seq(Logged)
      /\ BetweenRows(e, c, Accepted(c)) /\ SoundEngine(cfg, e) /\ Planned(cfg, c, e) /\ Even(e)
  BY InvFacts DEF BetweenRows
<1>2. e.order = OrderFrom(log[c])
  BY DEF Prepared, Assembled
<1>3. e.order \in Seq(Names) /\ (Projects => e.order = predeclared)
  BY <1>1, <1>2, EngineFacts DEF OrderFrom
<1>4. put.order = IF Projects THEN predeclared ELSE Firsts(Joined(e.order, FieldsOf(row)))
  <2>1. CASE Projects
    BY <1>1, <1>3, <2>1, PutOrder
  <2>2. CASE ~Projects
    <3>1. FieldsIn(log[c]) \in Seq(Seq(Names))
      BY <1>1, FieldsInAs
    <3>2. FlattenSeq(FieldsIn(log[c])) \in Seq(Names)
      BY <3>1, FlattenIn
    <3>3. Unrepeated(e.order)
      BY <1>2, <2>2, <3>2, FirstsFacts DEF OrderFrom
    <3> QED
      BY <1>1, <2>2, <3>3, PutOrder
  <2> QED
    BY <2>1, <2>2
<1>5. put.order = OrderFrom(Append(log[c], x))
  BY <1>1, <1>2, <1>4, LogMore
<1>6. PutUpto(put, e, c, row, Len(FieldOrder))
  BY <1>1, PutAll
<1>7. put \in Engines
  BY <1>6 DEF PutUpto, SoundEngine
<1> HIDE DEF put
<1>8. put = [cols |-> put.cols, order |-> put.order, row_count |-> put.row_count,
             strict_error |-> put.strict_error]
  BY <1>7, EngineFacts
<1>9. /\ FillMissing(put).order = put.order
      /\ [FillMissing(put) EXCEPT !.row_count = @ + 1].order = put.order
      /\ PopRow(FillMissing(put)).order = put.order
  BY <1>8 DEF FillMissing, PopRow
<1> QED
  BY <1>5, <1>9 DEF put

LEMMA InitPrepared == Init => Prepared
<1> SUFFICES ASSUME Init PROVE Prepared
  OBVIOUS
<1>1. AssemblyInv /\ phase = "parse"
  BY InitInv DEF Init
<1>2. ASSUME NEW c \in Chunks
      PROVE  Assembled(c)
  <2>1. BuilderOK(c)
    BY <1>1 DEF AssemblyInv, BuildersOK, Assembling
  <2>2. engines[c].order = predeclared /\ log[c] = <<>>
    BY DEF Init, new_engine
  <2>3. engines[c].order = OrderFrom(log[c])
    BY <2>2, NoLog DEF predeclared
  <2> QED
    BY <1>1, <2>1, <2>3, SoundEngineFit
    DEF BuilderOK, Assembled, RowsHeld, Known1, Planned, Grown, Promotes
<1> QED
  BY <1>1, <1>2 DEF Prepared, PhaseOK

(* Steps that leave the order of every builder and its log.                 *)
LEMMA OrdersStay ==
  ASSUME AssemblyInv', Prepared, phase' = "parse", cfg' = cfg, log' = log,
         \A c \in Chunks : engines'[c].order = engines[c].order
  PROVE  Prepared'
<1>1. \A c \in Chunks : engines'[c].order = OrderFrom(log'[c])
  BY DEF Prepared, Assembled, OrderFrom, FieldsIn
<1> QED
  BY <1>1, SoundAssembled

\* One chunk's builder and log are as they should be.
LEMMA OneOrder ==
  ASSUME AssemblyInv', Prepared, phase' = "parse", cfg' = cfg, NEW c \in Chunks, Others(c),
         engines'[c].order = OrderFrom(log'[c])
  PROVE  Prepared'
<1>1. \A d \in Chunks : engines'[d].order = OrderFrom(log'[d])
  <2>1. ASSUME NEW d \in Chunks, d # c
        PROVE  engines'[d].order = OrderFrom(log'[d])
    <3>1. engines[d].order = OrderFrom(log[d])
      BY DEF Prepared, Assembled
    <3>2. engines'[d] = engines[d] /\ log'[d] = log[d]
      BY <2>1 DEF Others
    <3> QED
      BY <3>1, <3>2
  <2> QED
    BY <2>1
<1> QED
  BY <1>1, SoundAssembled

LEMMA ParseRowPrepares ==
  ASSUME AssemblyInv, AssemblyInv', Prepared, NEW c \in Chunks, ParseRow(c)
  PROVE  Prepared'
<1>1. PICK row \in Rows :
        LET whole == FillMissing(PutFields(engines[c], c, row))
        IN \/ /\ engines' = [engines EXCEPT ![c] = [whole EXCEPT !.row_count = @ + 1]]
              /\ Log(c, row, "accepted")
           \/ /\ engines' = [engines EXCEPT ![c] = PopRow(whole)]
              /\ Log(c, row, "rejected")
  BY DEF ParseRow
<1>2. phase = "parse" /\ state[c] = "parsing" /\ phase' = "parse" /\ cfg' = cfg /\ state' = state
  BY DEF ParseRow
<1> DEFINE put == PutFields(engines[c], c, row)
           whole == FillMissing(put)
<1>3. PICK x \in Logged, e \in {[whole EXCEPT !.row_count = @ + 1], PopRow(whole)} :
        /\ x.vals = row /\ engines' = [engines EXCEPT ![c] = e]
        /\ log' = [log EXCEPT ![c] = Append(log[c], x)]
  <2>1. CASE /\ engines' = [engines EXCEPT ![c] = [whole EXCEPT !.row_count = @ + 1]]
             /\ Log(c, row, "accepted")
    <3> DEFINE x == [vals |-> row, fate |-> "accepted"]
    <3>1. x \in Logged /\ x.vals = row /\ log' = [log EXCEPT ![c] = Append(log[c], x)]
      BY <2>1 DEF Logged, Log
    <3> HIDE DEF x, whole
    <3> QED
      BY <2>1, <3>1
  <2>2. CASE engines' = [engines EXCEPT ![c] = PopRow(whole)] /\ Log(c, row, "rejected")
    <3> DEFINE x == [vals |-> row, fate |-> "rejected"]
    <3>1. x \in Logged /\ x.vals = row /\ log' = [log EXCEPT ![c] = Append(log[c], x)]
      BY <2>2 DEF Logged, Log
    <3> HIDE DEF x, whole
    <3> QED
      BY <2>2, <3>1
  <2> QED
    BY <1>1, <2>1, <2>2
<1>4. Others(c) /\ engines'[c] = e /\ log'[c] = Append(log[c], x)
  BY <1>2, <1>3, Updated DEF AssemblyInv
<1>5. e.order = OrderFrom(Append(log[c], x))
  BY <1>2, <1>3, RowOrder
<1> QED
  BY <1>2, <1>4, <1>5, OneOrder

LEMMA EndChunkPrepares ==
  ASSUME AssemblyInv, AssemblyInv', Prepared, NEW c \in Chunks, EndChunk(c)
  PROVE  Prepared'
<1>1. phase = "parse" /\ state[c] = "parsing" /\ phase' = "parse" /\ cfg' = cfg
  BY DEF EndChunk
<1>2. CASE UNCHANGED <<engines, log>>
  BY <1>1, <1>2, OrdersStay
<1>3. CASE \E row \in Rows : /\ engines' = [engines EXCEPT ![c] = PutFields(@, c, row)]
                             /\ Log(c, row, "partial")
  <2>1. PICK row \in Rows : /\ engines' = [engines EXCEPT ![c] = PutFields(engines[c], c, row)]
                            /\ Log(c, row, "partial")
    BY <1>3
  <2> DEFINE x == [vals |-> row, fate |-> "partial"]
             put == PutFields(engines[c], c, row)
  <2>2. x \in Logged /\ x.vals = row /\ log' = [log EXCEPT ![c] = Append(log[c], x)]
    BY <2>1 DEF Logged, Log
  <2> HIDE DEF x
  <2>3. put.order = OrderFrom(Append(log[c], x))
    BY <1>1, <2>2, RowOrder
  <2>4. \A d \in Chunks : engines'[d].order = OrderFrom(log'[d])
    <3>1. DOMAIN engines = Chunks /\ DOMAIN log = Chunks
      BY TypeFacts DEF AssemblyInv
    <3>2. engines'[c] = put /\ log'[c] = Append(log[c], x)
      BY <2>1, <2>2, <3>1
    <3>3. ASSUME NEW d \in Chunks, d # c
          PROVE  engines'[d].order = OrderFrom(log'[d])
      <4>1. engines'[d] = engines[d] /\ log'[d] = log[d]
        BY <2>1, <2>2, <3>1, <3>3
      <4> QED
        BY <4>1 DEF Prepared, Assembled
    <3> HIDE DEF put
    <3> QED
      BY <2>3, <3>2, <3>3
  <2> QED
    BY <1>1, <2>4, SoundAssembled
<1> QED
  BY <1>2, <1>3 DEF EndChunk

LEMMA SpillRowsPrepares ==
  ASSUME AssemblyInv, AssemblyInv', Prepared, SpillRows
  PROVE  Prepared'
<1>1. phase = "parse" /\ phase' = "parse" /\ cfg' = cfg /\ log' = log
  BY DEF SpillRows
<1>2. PICK cols : engines' = [engines EXCEPT ![1].cols = cols, ![1].row_count = 0]
  BY DEF SpillRows
<1>3. \A c \in Chunks : engines'[c].order = engines[c].order
  <2>1. ASSUME NEW c \in Chunks
        PROVE  engines'[c].order = engines[c].order
    <3>1. DOMAIN engines = Chunks /\ engines[c] \in Engines
      BY TypeFacts DEF AssemblyInv
    <3> QED
      BY <1>2, <3>1 DEF Engines
  <2> QED
    BY <2>1
<1> QED
  BY <1>1, <1>3, OrdersStay

LEMMA UpgradedKinds ==
  ASSUME NEW e \in Engines, NEW n \in DOMAIN e.cols, Sound(e.cols[n])
  PROVE  Promotes(e.cols[n].kind, auto_dict_upgrade(e).cols[n].kind)
<1>1. CASE ~cfg.auto_dict
  BY <1>1 DEF auto_dict_upgrade, Promotes
<1>2. CASE cfg.auto_dict
  <2> DEFINE c == e.cols[n]
             t == try_upgrade_to_dict(c, cfg.dict_min_rows, cfg.dict_cap)
  <2>1. auto_dict_upgrade(e).cols[n] = t
    BY <1>2, EngineFacts DEF auto_dict_upgrade
  <2> HIDE DEF c, t
  <2>2. SameCells(t, c)
    BY UpgradeKeeps DEF t, c
  <2> QED
    BY <2>1, <2>2 DEF SameCells, Promotes, c
<1> QED
  BY <1>1, <1>2

LEMMA UpgradeChunksPrepares ==
  ASSUME AssemblyInv, AssemblyInv', Prepared, UpgradeChunks
  PROVE  Prepared'
<1>1. /\ phase = "parse" /\ cfg.mode = "parallel" /\ phase' = "upgraded"
      /\ engines' = [c \in Chunks |-> auto_dict_upgrade(engines[c])]
      /\ UNCHANGED <<cfg, state, batches, log>> /\ \A c \in Chunks : state[c] = "parsed"
  BY DEF UpgradeChunks, AllParsed
<1>2. Chunks' = Chunks
  BY <1>1, PlanStays DEF ChunksSame
<1>3. ASSUME NEW c \in Chunks
      PROVE  Assembled(c)'
  <2> DEFINE e == engines[c]
             t == auto_dict_upgrade(e)
  <2>1. BuilderOK(c)'
    BY <1>1, <1>2 DEF AssemblyInv, BuildersOK, Assembling
  <2>2. e \in Engines /\ SoundEngine(cfg, e) /\ Planned(cfg, c, e)
    BY <1>1, InvFacts
  <2>3. SameRows(t, e) /\ engines'[c] = t
    BY <1>1, <2>2, UpgradeLeavesRows
  <2>4. \A n \in DOMAIN e.cols : Promotes(e.cols[n].kind, t.cols[n].kind)
    BY <2>2, UpgradedKinds DEF SoundEngine
  <2>5. t.order = OrderFrom(log[c])
    BY <2>3 DEF SameRows, Prepared, Assembled
  <2>6. OrderFrom(log[c])' = OrderFrom(log[c])
    BY <1>1, OrderStays DEF OrderFrom, FieldsIn
  <2>7. Grown(cfg, c, t)
    BY <2>2, <2>3, <2>4 DEF Planned, SameRows, Grown
  <2> HIDE DEF e, t
  <2>8. /\ (FitEngine(cfg, engines[c]))' /\ (Grown(cfg, c, engines[c]))'
    BY <1>1, <2>1, <2>3, <2>7, SoundEngineFit DEF BuilderOK
  <2> QED
    BY <1>1, <2>1, <2>3, <2>5, <2>6, <2>8 DEF BuilderOK, Assembled, RowsHeld, Known1
<1> QED
  BY <1>1, <1>2, <1>3 DEF Prepared, PhaseOK

(* A builder with other columns of the same names, lengths and kinds.       *)
LEMMA FitColumnsMoved ==
  ASSUME NEW e, FitEngine(cfg, e), NEW cols \in Tables, DOMAIN cols = DOMAIN e.cols,
         \A n \in DOMAIN cols : Fit(cols[n]) /\ e.row_count <= len(cols[n])
  PROVE  FitEngine(cfg, [cols |-> cols, order |-> e.order, row_count |-> e.row_count,
                         strict_error |-> e.strict_error])
<1> DEFINE f == [cols |-> cols, order |-> e.order, row_count |-> e.row_count,
                 strict_error |-> e.strict_error]
<1>1. f \in Engines
  BY EngineFacts DEF FitEngine, Engines
<1>2. /\ f.cols = cols /\ f.order = e.order /\ f.row_count = e.row_count
  OBVIOUS
<1> HIDE DEF f
<1>3. FitEngine(cfg, f)
  BY <1>1, <1>2 DEF FitEngine
<1> QED
  BY <1>3 DEF f

LEMMA UnifyPrepares ==
  ASSUME AssemblyInv, AssemblyInv', Prepared, UnifyDictionaries
  PROVE  Prepared'
<1> DEFINE n == Differing[1]
           New(c) == Moved(n, c)
<1>1. /\ phase = "upgraded" /\ schemas_consistent(engines) /\ Differing # <<>>
      /\ phase' = "unified" /\ UNCHANGED <<cfg, state, batches, log>>
  BY DEF UnifyDictionaries
<1>2. engines' = [c \in Chunks |-> IF Moves(n, c) THEN [engines[c] EXCEPT !.cols[n] = New(c)]
                                   ELSE engines[c]]
  BY DEF UnifyDictionaries, Unified, Moves, Moved, Locals
<1>3. Chunks' = Chunks
  BY <1>1, PlanStays DEF ChunksSame
<1> HIDE DEF New
<1>4. ASSUME NEW c \in Chunks, Moves(n, c)
      PROVE  /\ Fit(New(c)) /\ n \in DOMAIN engines[c].cols
             /\ New(c).kind = engines[c].cols[n].kind /\ len(New(c)) = len(engines[c].cols[n])
  BY <1>1, <1>4, MovedColumn DEF New
<1> HIDE DEF n
<1>5. ASSUME NEW c \in Chunks
      PROVE  Assembled(c)'
  <2> DEFINE e == engines[c]
             f == engines'[c]
  <2>1. Assembled(c) /\ engines[c] \in Engines
    BY TypeFacts DEF Prepared, AssemblyInv
  <2>2. /\ FitEngine(cfg, f) /\ f.order = e.order /\ f.row_count = e.row_count
        /\ DOMAIN f.cols = DOMAIN e.cols
        /\ \A m \in DOMAIN e.cols : f.cols[m].kind = e.cols[m].kind
    <3>1. CASE ~Moves(n, c)
      BY <1>2, <2>1, <3>1 DEF Assembled
    <3>2. CASE Moves(n, c)
      <4> DEFINE cols == [e.cols EXCEPT ![n] = New(c)]
      <4>1. FitEngine(cfg, e) /\ e \in Engines
        BY <2>1 DEF Assembled
      <4>2. /\ Fit(New(c)) /\ n \in DOMAIN e.cols
            /\ New(c).kind = e.cols[n].kind /\ len(New(c)) = len(e.cols[n])
        BY <1>4, <3>2
      <4>3. f = [e EXCEPT !.cols[n] = New(c)]
        BY <1>2, <3>2
      <4> HIDE DEF e, f
      <4>4. f = [cols |-> cols, order |-> e.order, row_count |-> e.row_count,
                 strict_error |-> e.strict_error]
        BY <4>1, <4>3, ColumnReplaced
      <4>5. DOMAIN e.cols \in SUBSET Names /\ e.cols \in [DOMAIN e.cols -> Storage]
        BY <4>1, EngineFacts, TableFacts
      <4>6. New(c) \in Storage
        BY <4>2 DEF Fit
      <4>7. cols \in [DOMAIN e.cols -> Storage] /\ DOMAIN cols = DOMAIN e.cols
        BY <4>5, <4>6
      <4>8. cols \in Tables
        <5> DEFINE N == DOMAIN e.cols
        <5>1. N \in SUBSET Names /\ cols \in [N -> Storage]
          BY <4>5, <4>7
        <5> HIDE DEF N, cols
        <5> QED
          BY <5>1, TableMade
      <4>9. \A m \in DOMAIN e.cols :
              /\ Fit(cols[m]) /\ e.row_count <= len(cols[m]) /\ cols[m].kind = e.cols[m].kind
        BY <4>1, <4>2, <4>5 DEF FitEngine
      <4> HIDE DEF cols
      <4>10. FitEngine(cfg, f)
        BY <4>1, <4>4, <4>7, <4>8, <4>9, FitColumnsMoved
      <4>11. f.cols = cols /\ f.order = e.order /\ f.row_count = e.row_count
        BY <4>4
      <4> QED
        BY <4>7, <4>9, <4>10, <4>11 DEF e, f
    <3> QED
      BY <3>1, <3>2
  <2>3. Accepted(c)' = Accepted(c) /\ OrderFrom(log[c])' = OrderFrom(log[c])
    BY <1>1, OrderStays, AcceptedAs DEF OrderFrom, FieldsIn
  <2>4. /\ FitEngine(cfg, e) /\ Grown(cfg, c, e) /\ e.order = OrderFrom(log[c])
        /\ Known1(cfg, e, Accepted(c)) /\ (cfg.mode # "spill" => e.row_count = Len(Accepted(c)))
    BY <2>1 DEF Assembled
  <2> HIDE DEF e, f
  <2>5. /\ Grown(cfg, c, f) /\ Known1(cfg, f, Accepted(c)) /\ f.order = OrderFrom(log[c])
        /\ (cfg.mode # "spill" => f.row_count = Len(Accepted(c)))
    BY <2>2, <2>4 DEF Grown, Known1
  <2> QED
    BY <1>1, <2>2, <2>3, <2>5 DEF Assembled, f
<1> QED
  BY <1>1, <1>3, <1>5 DEF Prepared, PhaseOK

(* Steps that leave the builders and their logs.                            *)
LEMMA BuildersStay ==
  ASSUME Prepared, UNCHANGED <<cfg, engines, log>>, PhaseOK'
  PROVE  Prepared'
<1>1. Chunks' = Chunks
  BY PlanStays DEF ChunksSame
<1>2. ASSUME NEW c \in Chunks
      PROVE  Assembled(c)'
  <2>1. Accepted(c)' = Accepted(c) /\ OrderFrom(log[c])' = OrderFrom(log[c])
    BY OrderStays, AcceptedAs DEF OrderFrom, FieldsIn
  <2> QED
    BY <2>1 DEF Prepared, Assembled
<1> QED
  BY <1>1, <1>2 DEF Prepared

LEMMA NextPrepares ==
  ASSUME AssemblyInv, Prepared, [Next]_vars
  PROVE  Prepared'
<1>1. AssemblyInv'
  BY NextKeeps
<1>2. ASSUME NEW c \in Chunks, ParseRow(c)
      PROVE  Prepared'
  BY <1>1, <1>2, ParseRowPrepares
<1>3. ASSUME NEW c \in Chunks, EndChunk(c)
      PROVE  Prepared'
  BY <1>1, <1>3, EndChunkPrepares
<1>4. ASSUME NEW c \in Chunks, ChunkFails(c)
      PROVE  Prepared'
  BY <1>4, BuildersStay DEF ChunkFails, PhaseOK
<1>5. ASSUME NEW r, Conclude(r)
      PROVE  Prepared'
  BY <1>5, BuildersStay DEF Conclude, PhaseOK
<1>6. CASE UpgradeChunks
  BY <1>1, <1>6, UpgradeChunksPrepares
<1>7. CASE UnifyDictionaries
  BY <1>1, <1>7, UnifyPrepares
<1>8. CASE SpillRows
  BY <1>1, <1>8, SpillRowsPrepares
<1>9. CASE UNCHANGED vars
  <2>1. PhaseOK'
    BY <1>9 DEF vars, PhaseOK, Prepared, Chunks
  <2> QED
    BY <1>9, <2>1, BuildersStay DEF vars
<1>10. CASE CollectFails \/ ExportChunks \/ ExportUnified \/ MergeChunks \/ CollectBatches
  <2>1. \E r : Conclude(r)
    BY <1>10 DEF CollectFails, ExportChunks, ExportUnified, MergeChunks, CollectBatches
  <2> QED
    BY <1>5, <2>1
<1> QED
  BY <1>2, <1>3, <1>4, <1>6, <1>7, <1>8, <1>9, <1>10 DEF Next

-----------------------------------------------------------------------------
(* Kinds that two builders can share.                                       *)

Class(k) ==
  IF k \in {"int64", "float64"} THEN "number"
  ELSE IF k \in {"string", "dictionary"} THEN "text" ELSE k

LEMMA ClassFacts ==
  ASSUME NEW a \in Kinds, NEW b \in Kinds
  PROVE  LET u == unify_variants(a, b)
         IN /\ u # "none" => u \in Kinds /\ Promotes(a, u) /\ Promotes(b, u)
            /\ a \in VariantKeys /\ b \in VariantKeys => (u = "none" <=> Class(a) # Class(b))
<1> DEFINE u == unify_variants(a, b)
<1>1. /\ {"int64", "float64", "string", "dictionary"} \subseteq Kinds
      /\ VariantKeys \subseteq Kinds /\ "none" \notin Kinds
      /\ "number" \notin Kinds /\ "text" \notin Kinds
  BY DEF VariantKeys, Kinds, Scalars
<1>2. CASE a = b
  BY <1>1, <1>2 DEF unify_variants, Class, Promotes
<1>3. CASE a # b
  <2>1. /\ {a, b} = {"int64", "float64"} <=> a \in {"int64", "float64"} /\ b \in {"int64", "float64"}
        /\ {a, b} = {"string", "dictionary"} <=> a \in {"string", "dictionary"} /\ b \in {"string", "dictionary"}
    BY <1>3
  <2>2. CASE {a, b} = {"int64", "float64"}
    <3>1. u = "float64"
      BY <1>3, <2>2 DEF unify_variants
    <3>2. Class(a) = Class(b) /\ Promotes(a, "float64") /\ Promotes(b, "float64")
      BY <2>1, <2>2 DEF Class, Promotes
    <3> QED
      BY <1>1, <3>1, <3>2
  <2>3. CASE {a, b} = {"string", "dictionary"}
    <3>0. {a, b} # {"int64", "float64"}
      BY <1>3, <2>1, <2>3
    <3>1. u = "dictionary"
      BY <1>3, <2>3, <3>0 DEF unify_variants
    <3>2. Class(a) = Class(b) /\ Promotes(a, "dictionary") /\ Promotes(b, "dictionary")
      BY <2>1, <2>3 DEF Class, Promotes
    <3> QED
      BY <1>1, <3>1, <3>2
  <2>4. CASE {a, b} # {"int64", "float64"} /\ {a, b} # {"string", "dictionary"}
    <3>1. u = "none"
      BY <1>3, <2>4 DEF unify_variants
    <3>2. Class(a) # Class(b)
      BY <1>1, <1>3, <2>1, <2>4 DEF Class
    <3> QED
      BY <3>1, <3>2
  <2> QED
    BY <2>2, <2>3, <2>4
<1> QED
  BY <1>2, <1>3

LEMMA PromotesFacts ==
  ASSUME NEW a, NEW b, NEW c
  PROVE  /\ Promotes(a, b) => Class(a) = Class(b)
         /\ Promotes(a, b) /\ Promotes(b, c) => Promotes(a, c)
         /\ Promotes(a, b) /\ a \in VariantKeys => b \in VariantKeys
         /\ Promotes(a, a)
         /\ Promotes(a, b) /\ a \in Kinds => b \in Kinds
         /\ "none" \notin Kinds /\ VariantKeys \subseteq Kinds
<1>1. /\ {"int64", "float64", "string", "dictionary"} \subseteq VariantKeys
      /\ "none" \notin Kinds /\ VariantKeys \subseteq Kinds
  BY DEF VariantKeys, Kinds, Scalars
<1> QED
  BY <1>1 DEF Promotes, Class

\* The column t is c in another kind.
Promoted(t, c, kind) ==
  /\ Fit(t) /\ t.kind = kind /\ len(t) = len(c) /\ \A i \in 1..len(c) : At(t, i) = At(c, i)
  /\ Sound(c) => Sound(t)

(* Promoting a column changes no cell.                                      *)
LEMMA PromoteKeeps ==
  ASSUME NEW c, Fit(c), NEW kind, Promotes(c.kind, kind)
  PROVE  Promoted(promote_to_variant(c, kind), c, kind)
<1> DEFINE t == promote_to_variant(c, kind)
<1>1. CASE kind = c.kind
  BY <1>1 DEF promote_to_variant, Promoted
<1>2. CASE c.kind = "int64" /\ kind = "float64"
  <2>1. t = [c EXCEPT !.kind = "float64"]
    BY <1>2 DEF promote_to_variant
  <2>2. c \in Storage
    BY DEF Fit
  <2>3. /\ t \in Storage /\ t.kind = "float64" /\ t.vals = c.vals /\ t.validity = c.validity
    BY <2>1, <2>2 DEF Storage, Kinds, Scalars
  <2>4. c.kind \in Scalars /\ t.kind \in Scalars
    BY <1>2, <2>3 DEF Scalars
  <2> HIDE DEF t
  <2>5. len(t) = len(c)
    BY <2>3 DEF len
  <2>6. Sound(t) /\ Fit(t)
    BY <1>2, <2>3, <2>4, <2>5, KindFacts DEF Sound, Fit
  <2>7. \A i \in 1..len(c) : At(t, i) = At(c, i)
    BY <2>3, <2>4, ScalarCells
  <2> QED
    BY <1>2, <2>3, <2>5, <2>6, <2>7 DEF Promoted, t
<1>3. CASE c.kind = "string" /\ kind = "dictionary"
  <2>1. Sound(c)
    BY <1>3, SoundFit
  <2>2. t = Recoded(c, "dictionary")
    BY <1>3 DEF promote_to_variant
  <2>3. SameCells(t, c) /\ t.kind = "dictionary"
    BY <1>3, <2>1, <2>2, RecodedKeeps
  <2> HIDE DEF t
  <2> QED
    BY <1>3, <2>3, SoundFit DEF Promoted, SameCells, t
<1> QED
  BY <1>1, <1>2, <1>3 DEF Promotes

-----------------------------------------------------------------------------
(* Exporting: the common kind of a column.                                  *)

\* A kind that all may become, or none; none of kinds that can be shared only
\* if two of them cannot be shared with each other.
CommonKind(kind, kinds, top) ==
  /\ kind # "none" => kind \in Kinds /\ \A i \in 1..top : Promotes(kinds[i], kind)
  /\ kind = "none" /\ (\A i \in 1..top : kinds[i] \in VariantKeys) =>
       \E i, j \in 1..top : Class(kinds[i]) # Class(kinds[j])

LEMMA CommonMore ==
  ASSUME NEW top \in Nat \ {0}, NEW kinds, NEW kind, CommonKind(kind, kinds, top),
         \A i \in 1..(top + 1) : kinds[i] \in Kinds
  PROVE  CommonKind(IF kind = "none" THEN kind ELSE unify_variants(kind, kinds[top + 1]),
                    kinds, top + 1)
<1> DEFINE m == top + 1
           k == kinds[m]
           u == unify_variants(kind, k)
<1>1. m \in 1..m /\ 1 \in 1..m /\ 1 \in 1..top /\ (\A i \in 1..m : i \in 1..top \/ i = m)
      /\ (\A i \in 1..top : i \in 1..m)
  OBVIOUS
<1>2. \A i \in 1..m : kinds[i] \in Kinds
  OBVIOUS
<1> HIDE DEF m
<1>3. CASE kind = "none"
  <2>1. CommonKind("none", kinds, m)
    BY <1>1, <1>3 DEF CommonKind
  <2> QED
    BY <1>3, <2>1 DEF m
<1>4. CASE kind # "none"
  <2>1. kind \in Kinds /\ k \in Kinds /\ \A i \in 1..top : Promotes(kinds[i], kind)
    BY <1>1, <1>2, <1>4 DEF CommonKind
  <2> HIDE DEF k
  <2>2. CASE u # "none"
    <3>1. u \in Kinds /\ Promotes(kind, u) /\ Promotes(k, u)
      BY <2>1, <2>2, ClassFacts
    <3> HIDE DEF u
    <3>2. \A i \in 1..m : Promotes(kinds[i], u)
      BY <1>1, <2>1, <3>1, PromotesFacts DEF k
    <3>3. CommonKind(u, kinds, m)
      BY <2>2, <3>1, <3>2 DEF CommonKind
    <3> QED
      BY <1>4, <3>3 DEF m, k, u
  <2>3. CASE u = "none"
    <3>1. ASSUME \A i \in 1..m : kinds[i] \in VariantKeys
          PROVE  \E i, j \in 1..m : Class(kinds[i]) # Class(kinds[j])
      <4>1. kinds[1] \in VariantKeys /\ k \in VariantKeys
        BY <1>1, <3>1 DEF k
      <4>2. Class(kinds[1]) = Class(kind) /\ kind \in VariantKeys
        BY <1>1, <2>1, <4>1, PromotesFacts
      <4>3. Class(kind) # Class(k)
        BY <2>1, <2>3, <4>1, <4>2, ClassFacts
      <4> QED
        BY <1>1, <4>2, <4>3 DEF k
    <3>2. CommonKind("none", kinds, m)
      BY <3>1 DEF CommonKind
    <3> QED
      BY <1>4, <2>3, <3>2 DEF m, k, u
  <2> QED
    BY <2>2, <2>3
<1> QED
  BY <1>3, <1>4

(* The kinds of a column are unified one after the other.                   *)
LEMMA TargetFacts ==
  ASSUME NEW es, NEW n, NEW with, with = Having(es, n), Len(with) \in Nat \ {0},
         \A i \in 1..Len(with) : with[i].cols[n].kind \in Kinds
  PROVE  CommonKind(target(es, n), [i \in 1..Len(with) |-> with[i].cols[n].kind], Len(with))
<1> DEFINE top == Len(with)
           kinds == [i \in 1..top |-> with[i].cols[n].kind]
           V == Kinds \cup {"none"}
           Next1(x, i) == IF x = "none" THEN x ELSE unify_variants(x, with[i].cols[n].kind)
           Eqn(r) == r = [i \in 1..top |-> IF i = 1 THEN with[1].cols[n].kind
                                           ELSE Next1(r[i - 1], i)]
           common == CHOOSE r : Eqn(r)
           step == [i \in 1..top |-> [x \in V |-> IF i = 1 THEN kinds[1] ELSE Next1(x, i)]]
<1>1. target(es, n) = common[top]
  BY DEF target
<1> HIDE DEF common
<1>2. top \in Nat /\ top # 0 /\ 1 \in 1..top /\ \A i \in 1..top : kinds[i] = with[i].cols[n].kind
  OBVIOUS
<1>3. \A i \in 1..top : kinds[i] \in Kinds
  BY <1>2
<1> HIDE DEF top, kinds
<1>4. step \in Steps(top, V) /\ kinds[1] \in V
  <2>1. ASSUME NEW i \in 1..top, NEW x \in V
        PROVE  (IF i = 1 THEN kinds[1] ELSE Next1(x, i)) \in V
    <3>1. CASE x = "none" \/ i = 1
      BY <1>2, <1>3, <3>1
    <3>2. CASE x \in Kinds
      <4>1. unify_variants(x, kinds[i]) \in V
        BY <1>3, <3>2, ClassFacts
      <4> QED
        BY <1>2, <1>3, <3>2, <4>1
    <3> QED
      BY <3>1, <3>2
  <2> HIDE DEF V
  <2>2. step \in Steps(top, V)
    BY <2>1 DEF Steps
  <2> QED
    BY <1>2, <1>3, <2>2 DEF V
<1> HIDE DEF step
<1>5. PICK g : IsRecursion(g, top, V, kinds[1], step)
  BY <1>2, <1>4, RecursionExists
<1>6. ASSUME NEW i \in 1..top
      PROVE  g[i] = IF i = 1 THEN kinds[1] ELSE Next1(g[i - 1], i)
  <2>1. i \in 0..top /\ i - 1 \in 0..top /\ i # 0
    BY <1>2
  <2>2. g[i - 1] \in V /\ g[i] = step[i][g[i - 1]]
    BY <1>5, <2>1 DEF IsRecursion
  <2> QED
    BY <2>2 DEF step
<1> DEFINE f == [i \in 1..top |-> g[i]]
<1>7. Eqn(f)
  <2>1. ASSUME NEW i \in 1..top
        PROVE  f[i] = IF i = 1 THEN with[1].cols[n].kind ELSE Next1(f[i - 1], i)
    <3>1. i # 1 => i - 1 \in 1..top
      BY <1>2
    <3> QED
      BY <1>2, <1>6, <3>1
  <2>2. f = [i \in 1..top |-> f[i]]
    OBVIOUS
  <2> HIDE DEF f
  <2> QED
    BY <2>1, <2>2
<1>8. Eqn(common)
  BY <1>7 DEF common
<1>9. ASSUME NEW i \in 1..top
      PROVE  common[i] = IF i = 1 THEN kinds[1] ELSE Next1(common[i - 1], i)
  BY <1>2, <1>8
<1> DEFINE K == {k \in 0..top : k # 0 => CommonKind(common[k], kinds, k)}
<1>10. 0 \in K
  BY <1>2
<1>11. ASSUME NEW k \in Nat, k < top, k \in K
       PROVE  k + 1 \in K
  <2>1. k + 1 \in 1..top /\ k + 1 \in 0..top /\ (k + 1) - 1 = k /\ (k + 1 = 1 <=> k = 0)
    BY <1>2, <1>11
  <2>2. CASE k = 0
    <3>1. common[1] = kinds[1] /\ kinds[1] \in Kinds
      BY <1>2, <1>3, <1>9
    <3>2. \A i \in 1..1 : i = 1
      OBVIOUS
    <3>3. CommonKind(kinds[1], kinds, 1)
      BY <3>1, <3>2, PromotesFacts DEF CommonKind
    <3> QED
      BY <2>1, <2>2, <3>1, <3>3
  <2>3. CASE k # 0
    <3> DEFINE m == k + 1
    <3>1. CommonKind(common[k], kinds, k) /\ k \in Nat \ {0}
      BY <1>11, <2>3
    <3>2. common[m] = IF common[k] = "none" THEN common[k] ELSE unify_variants(common[k], kinds[m])
      BY <1>2, <1>9, <2>1, <2>3
    <3>3. \A i \in 1..m : kinds[i] \in Kinds
      <4>1. \A i \in 1..m : i \in 1..top
        BY <1>2, <1>11
      <4> QED
        BY <1>3, <4>1
    <3>4. CommonKind(common[m], kinds, m)
      BY <3>1, <3>2, <3>3, CommonMore
    <3> QED
      BY <2>1, <3>4
  <2> QED
    BY <2>2, <2>3
<1> HIDE DEF K
<1>12. \A k \in 0..top : k \in K
  BY <1>2, <1>10, <1>11, IntervalInduction
<1>13. CommonKind(common[top], kinds, top)
  <2>1. top \in K
    BY <1>2, <1>12
  <2> QED
    BY <1>2, <2>1 DEF K
<1> QED
  BY <1>1, <1>13 DEF top, kinds

-----------------------------------------------------------------------------
(* Appending columns.                                                       *)

(* Two lengths of whole words make whole words.                             *)
LEMMA AlignedSum ==
  ASSUME NEW a \in Nat, NEW b \in Nat, a % WordBits = 0, b % WordBits = 0
  PROVE  (a + b) % WordBits = 0
<1> DEFINE c == a + b
           p == a \div WordBits
           q == b \div WordBits
           d == c \div WordBits
           r == c % WordBits
           u == p + q
<1>1. WordBits \in Nat /\ WordBits > 0 /\ c \in Nat
  BY ColumnsAssumption
<1>2. p \in Nat /\ q \in Nat /\ a = WordBits * p /\ b = WordBits * q
  <2>1. /\ p \in Nat /\ a = WordBits * p + (a % WordBits)
        /\ q \in Nat /\ b = WordBits * q + (b % WordBits)
    BY WordFacts
  <2> HIDE DEF p, q
  <2>2. WordBits * p \in Nat /\ WordBits * q \in Nat
    BY <1>1, <2>1
  <2> QED
    BY <2>1, <2>2
<1>3. d \in Nat /\ r \in 0..(WordBits - 1) /\ c = WordBits * d + r
  BY <1>1, WordFacts
<1>4. c = a + b /\ u = p + q
  OBVIOUS
<1> HIDE DEF c, p, q, d, r, u
<1>5. u \in Nat /\ WordBits * u = WordBits * p + WordBits * q
  BY <1>1, <1>2, <1>4
<1>6. c = WordBits * u
  BY <1>2, <1>4, <1>5
<1>7. WordBits * d \in Nat
  BY <1>1, <1>3
<1>8. WordBits * d <= WordBits * u /\ WordBits * u < WordBits * d + WordBits
  BY <1>1, <1>3, <1>6, <1>7
<1>9. d = u
  BY <1>3, <1>5, <1>8, SameWord
<1> QED
  BY <1>3, <1>6, <1>7, <1>9 DEF c, r

\* The bitmap t is a and then b.
BothBits(t, a, b) ==
  /\ t \in Bitmaps /\ t.len = a.len + b.len
  /\ \A i \in 1..a.len : is_valid(t, i) = is_valid(a, i)
  /\ \A i \in 1..b.len : is_valid(t, a.len + i) = is_valid(b, i)

(* Whole words copied and masked, or single bits pushed: b's bits follow.   *)
LEMMA AppendBits ==
  ASSUME NEW a \in Bitmaps, NEW b \in Bitmaps
  PROVE  BothBits(BitsAppend(a, b), a, b) /\ BothBits(BitsPushAll(a, ValidSeq(b)), a, b)
<1>1. BothBits(BitsPushAll(a, ValidSeq(b)), a, b)
  <2> DEFINE v == ValidSeq(b)
             t == BitsPushAll(a, v)
  <2>1. v \in Seq(BOOLEAN) /\ Len(v) = b.len /\ \A i \in 1..b.len : v[i] = is_valid(b, i)
    BY ValidSeqFacts
  <2> HIDE DEF v
  <2>2. /\ t \in Bitmaps /\ t.len = a.len + Len(v)
        /\ \A i \in 1..a.len : is_valid(t, i) = is_valid(a, i)
        /\ \A i \in 1..Len(v) : is_valid(t, a.len + i) = v[i]
    BY <2>1, PushBits
  <2> QED
    BY <2>1, <2>2 DEF BothBits, v
<1>2. CASE a.len % WordBits # 0
  BY <1>1, <1>2 DEF BitsAppend
<1>3. CASE a.len % WordBits = 0
  <2> DEFINE n == a.len
             m == b.len
             L == Len(b.bits)
             words == a.bits \o b.bits
             bits == [i \in DOMAIN words |-> i <= n + m /\ words[i]]
             nulls == a.null_count + b.null_count
             t == [bits |-> bits, len |-> n + m, null_count |-> nulls]
  <2>1. /\ a.bits \in Seq(BOOLEAN) /\ n \in Nat /\ Len(a.bits) = n
        /\ a.null_count = Cardinality(Clear(a.bits, n)) /\ a.null_count \in Nat
        /\ \A i \in 1..n : is_valid(a, i) = a.bits[i] /\ a.bits[i] \in BOOLEAN
    BY <1>3, BitmapFacts
  <2>2. /\ b.bits \in Seq(BOOLEAN) /\ m \in Nat /\ L \in Nat /\ L % WordBits = 0
        /\ m <= L /\ L < m + WordBits /\ \A i \in (m + 1)..L : ~ b.bits[i]
        /\ b.null_count = Cardinality(Clear(b.bits, m)) /\ b.null_count \in Nat
        /\ \A i \in 1..m : is_valid(b, i) = b.bits[i] /\ b.bits[i] \in BOOLEAN
    BY BitmapFacts
  <2>3. BitsAppend(a, b) = t
    BY <1>3 DEF BitsAppend
  <2>4. /\ DOMAIN words = 1..(n + L)
        /\ \A i \in 1..n : words[i] = a.bits[i]
        /\ \A i \in 1..L : words[n + i] = b.bits[i]
    <3>1. a.bits \in Seq(BOOLEAN) /\ b.bits \in Seq(BOOLEAN)
      BY <2>1, <2>2
    <3> DEFINE x == a.bits
               y == b.bits
    <3> HIDE DEF x, y
    <3>2. /\ Len(x \o y) = Len(x) + Len(y) /\ DOMAIN (x \o y) = 1..(Len(x) + Len(y))
          /\ \A i \in 1..Len(x) : (x \o y)[i] = x[i]
          /\ \A i \in 1..Len(y) : (x \o y)[Len(x) + i] = y[i]
      <4>1. x \in Seq(BOOLEAN) /\ y \in Seq(BOOLEAN)
        BY <3>1 DEF x, y
      <4> QED
        BY <4>1, Concatenated
    <3> QED
      BY <2>1, <3>2 DEF x, y
  <2> HIDE DEF words
  <2>5. bits = [i \in 1..(n + L) |-> i <= n + m /\ words[i]]
    BY <2>4
  <2>6. /\ \A i \in 1..n : bits[i] = a.bits[i]
        /\ \A i \in 1..m : bits[n + i] = b.bits[i]
        /\ \A i \in (n + m + 1)..(n + L) : bits[i] = FALSE
    <3>1. ASSUME NEW i \in 1..n
          PROVE  bits[i] = a.bits[i]
      <4>1. i \in 1..(n + L) /\ i <= n + m
        BY <2>1, <2>2
      <4> QED
        BY <2>1, <2>4, <4>1
    <3>2. ASSUME NEW i \in 1..m
          PROVE  bits[n + i] = b.bits[i]
      <4> DEFINE p == n
                 q == m
                 r == L
      <4> HIDE DEF p, q, r
      <4>2. p \in Nat /\ q \in Nat /\ r \in Nat /\ q <= r /\ i \in 1..q
        BY <2>1, <2>2 DEF p, q, r
      <4>3. p + i \in 1..(p + r) /\ p + i <= p + q /\ i \in 1..r
        BY <4>2
      <4>1. n + i \in 1..(n + L) /\ n + i <= n + m /\ i \in 1..L
        BY <4>3 DEF p, q, r
      <4> QED
        BY <2>2, <2>4, <4>1
    <3>3. ASSUME NEW i \in (n + m + 1)..(n + L)
          PROVE  bits[i] = FALSE
      <4>1. i \in 1..(n + L) /\ ~(i <= n + m)
        BY <2>1, <2>2
      <4> QED
        BY <2>4, <4>1
    <3> QED
      BY <3>1, <3>2, <3>3
  <2>7. bits \in Seq(BOOLEAN) /\ Len(bits) = n + L
    <3>1. ASSUME NEW i \in 1..(n + L)
          PROVE  bits[i] \in BOOLEAN
      BY <2>5
    <3>2. bits = [i \in 1..(n + L) |-> bits[i]] /\ n + L \in Nat
      BY <2>1, <2>2, <2>5
    <3> HIDE DEF bits
    <3> QED
      BY <3>1, <3>2
  <2> HIDE DEF bits
  <2> HIDE DEF n, m, L
  <2>8. nulls = Cardinality(Clear(bits, n + m)) /\ nulls \in Nat
    <3> DEFINE x == a.bits
               y == b.bits
    <3>2. /\ \A i \in 1..n : bits[i] = x[i]
          /\ \A i \in 1..m : bits[n + i] = y[i]
          /\ n \in Nat /\ m \in Nat
      BY <2>1, <2>2, <2>6
    <3>1. Cardinality(Clear(bits, n + m)) =
            Cardinality(Clear(a.bits, n)) + Cardinality(Clear(b.bits, m))
      <4> HIDE DEF x, y
      <4>1. Cardinality(Clear(bits, n + m)) = Cardinality(Clear(x, n)) + Cardinality(Clear(y, m))
        BY <3>2, ClearAdds
      <4> QED
        BY <4>1 DEF x, y
    <3> QED
      BY <2>1, <2>2, <3>1
  <2> HIDE DEF nulls
  <2>9. (n + L) % WordBits = 0
    BY <1>3, <2>1, <2>2, AlignedSum DEF n
  <2>10. t \in Bitmaps
    <3>1. t \in [bits : Seq(BOOLEAN), len : Nat, null_count : Nat]
      BY <2>1, <2>2, <2>7, <2>8
    <3>2. BitsOK(t)
      <4>1. Len(t.bits) >= t.len /\ Len(t.bits) < t.len + WordBits
        BY <2>1, <2>2, <2>7, ColumnsAssumption
      <4>2. \A i \in (t.len + 1)..Len(t.bits) : ~ t.bits[i]
        BY <2>6, <2>7
      <4> QED
        BY <2>7, <2>8, <2>9, <4>1, <4>2 DEF BitsOK, Clear
    <3> QED
      BY <3>1, <3>2 DEF Bitmaps
  <2>11. t.len = n + m /\ \A i \in 1..(n + m) : is_valid(t, i) = bits[i]
    <3>1. \A i \in 1..t.len : is_valid(t, i) = t.bits[i]
      BY <2>10, BitmapFacts
    <3> QED
      BY <3>1
  <2> HIDE DEF t
  <2>12. ASSUME NEW i \in 1..n
         PROVE  is_valid(t, i) = is_valid(a, i)
    <3>1. i \in 1..(n + m)
      BY <2>1, <2>2
    <3> QED
      BY <2>1, <2>6, <2>11, <3>1
  <2>13. ASSUME NEW i \in 1..m
         PROVE  is_valid(t, n + i) = is_valid(b, i)
    <3>1. n + i \in 1..(n + m)
      BY <2>1, <2>2
    <3> QED
      BY <2>2, <2>6, <2>11, <3>1
  <2>14. BothBits(t, a, b)
    BY <2>10, <2>11, <2>12, <2>13 DEF BothBits, n, m
  <2> QED
    BY <1>1, <2>3, <2>14
<1> QED
  BY <1>1, <1>2, <1>3

\* The column t has the cells of a and then those of b.
Appended(t, a, b) ==
  /\ Sound(t) /\ t.kind = a.kind /\ len(t) = len(a) + len(b)
  /\ \A i \in 1..len(a) : At(t, i) = At(a, i)
  /\ \A i \in 1..len(b) : At(t, len(a) + i) = At(b, i)

(* Strings after strings.                                                   *)
LEMMA StringsAppend ==
  ASSUME NEW a, Sound(a), a.kind = "string", NEW b, Sound(b), b.kind = "string"
  PROVE  Appended(StrAppend(a, b), a, b)
<1> DEFINE t == StrAppend(a, b)
           c == a.arena \o b.arena
           o == a.offsets \o [i \in 1..(Len(b.offsets) - 1) |-> b.offsets[i + 1] + Len(a.arena)]
           d == BitsAppend(a.validity, b.validity)
           n == len(a)
           m == len(b)
<1>1. /\ a \in Storage /\ a.validity \in Bitmaps /\ n = a.validity.len /\ n \in Nat
      /\ a.vals = <<>> /\ Len(a.offsets) = n + 1 /\ IsArena(a.arena, a.offsets)
  BY StorageFacts, KindFacts DEF Sound
<1>2. /\ b \in Storage /\ b.validity \in Bitmaps /\ m = b.validity.len /\ m \in Nat
      /\ b.vals = <<>> /\ Len(b.offsets) = m + 1 /\ IsArena(b.arena, b.offsets)
  BY StorageFacts, KindFacts DEF Sound
<1>3. t = [a EXCEPT !.arena = c, !.offsets = o, !.validity = d]
  BY <1>1 DEF StrAppend, Storage
<1>4. BothTexts(c, o, a.arena, a.offsets, b.arena, b.offsets)
  BY <1>1, <1>2, ArenaJoin
<1>5. BothBits(d, a.validity, b.validity)
  BY <1>1, <1>2, AppendBits
<1> HIDE DEF t, c, o, d
<1>6. /\ IsArena(c, o) /\ Len(o) = (n + m) + 1
      /\ \A i \in 1..n : Text(c, o, i) = Text(a.arena, a.offsets, i)
      /\ \A i \in 1..m : Text(c, o, n + i) = Text(b.arena, b.offsets, i)
  <2>1. /\ IsArena(c, o) /\ Len(o) = (Len(a.offsets) - 1) + Len(b.offsets)
        /\ \A i \in 1..(Len(a.offsets) - 1) : Text(c, o, i) = Text(a.arena, a.offsets, i)
        /\ \A i \in 1..(Len(b.offsets) - 1) :
             Text(c, o, (Len(a.offsets) - 1) + i) = Text(b.arena, b.offsets, i)
    BY <1>4 DEF BothTexts
  <2>2. Len(a.offsets) - 1 = n /\ Len(b.offsets) - 1 = m /\ Len(b.offsets) = m + 1
    BY <1>1, <1>2
  <2> HIDE DEF n, m
  <2>3. n + (m + 1) = (n + m) + 1
    BY <1>1, <1>2
  <2> QED
    BY <2>1, <2>2, <2>3
<1> HIDE DEF n, m
<1>7. /\ d \in Bitmaps /\ d.len = n + m
      /\ \A i \in 1..n : is_valid(d, i) = is_valid(a.validity, i)
      /\ \A i \in 1..m : is_valid(d, n + i) = is_valid(b.validity, i)
  BY <1>1, <1>2, <1>5 DEF BothBits
<1>8. /\ t \in Storage /\ t.kind = "string" /\ t.arena = c /\ t.offsets = o /\ t.validity = d
      /\ t.vals = <<>>
  <2>1. c \in Seq(Nat) /\ o \in Seq(Nat)
    BY <1>6 DEF IsArena
  <2> QED
    BY <1>1, <1>3, <1>7, <2>1 DEF Storage
<1>9. len(t) = n + m
  BY <1>7, <1>8 DEF len
<1>10. Sound(t)
  BY <1>6, <1>8, <1>9, KindFacts DEF Sound
<1>11. ASSUME NEW i \in 1..n
       PROVE  At(t, i) = At(a, i)
  BY <1>6, <1>7, <1>8, TextCells
<1>12. ASSUME NEW i \in 1..m
       PROVE  At(t, n + i) = At(b, i)
  BY <1>6, <1>7, <1>8, TextCells
<1> QED
  BY <1>8, <1>9, <1>10, <1>11, <1>12 DEF Appended, t, n, m

(* Values after values, or codes after codes.                               *)
MoreValues(t, a, v, b) ==
  /\ t \in Storage /\ t.kind = a.kind /\ t.arena = a.arena /\ t.offsets = a.offsets
  /\ t.index = a.index /\ len(t) = len(a) + b.len /\ Len(t.vals) = len(t)
  /\ \A i \in 1..len(a) : /\ t.vals[i] = a.vals[i]
                          /\ is_valid(t.validity, i) = is_valid(a.validity, i)
  /\ \A i \in 1..b.len : /\ t.vals[len(a) + i] = v[i]
                         /\ is_valid(t.validity, len(a) + i) = is_valid(b, i)

LEMMA ValuesAppend ==
  ASSUME NEW a \in Storage, Len(a.vals) = len(a), NEW v \in Seq(Nat),
         NEW b \in Bitmaps, Len(v) = b.len, NEW d, BothBits(d, a.validity, b)
  PROVE  MoreValues([a EXCEPT !.vals = a.vals \o v, !.validity = d], a, v, b)
<1> DEFINE x == a.vals
           n == len(a)
           m == b.len
           y == x \o v
           t == [a EXCEPT !.vals = y, !.validity = d]
<1>1. x \in Seq(Nat) /\ n = a.validity.len /\ n \in Nat /\ m \in Nat /\ a.validity \in Bitmaps
  BY StorageFacts, BitmapFacts
<1>2. /\ y \in Seq(Nat) /\ Len(y) = Len(x) + Len(v)
      /\ \A i \in 1..Len(x) : y[i] = x[i]
      /\ \A i \in 1..Len(v) : y[Len(x) + i] = v[i]
  <2> HIDE DEF x
  <2> QED
    BY <1>1, Concatenated
<1> HIDE DEF y
<1>3. /\ d \in Bitmaps /\ d.len = n + m
      /\ \A i \in 1..n : is_valid(d, i) = is_valid(a.validity, i)
      /\ \A i \in 1..m : is_valid(d, n + i) = is_valid(b, i)
  BY <1>1 DEF BothBits
<1>4. /\ t \in Storage /\ t.kind = a.kind /\ t.arena = a.arena /\ t.offsets = a.offsets
      /\ t.index = a.index /\ t.vals = y /\ t.validity = d
  BY <1>2, <1>3 DEF Storage
<1> HIDE DEF t
<1>5. len(t) = n + m
  BY <1>3, <1>4 DEF len
<1>6. Len(x) = n /\ Len(v) = m
  OBVIOUS
<1> HIDE DEF n, m, x
<1> QED
  BY <1>2, <1>3, <1>4, <1>5, <1>6 DEF MoreValues, t, n, m, x, y

(* Scalars after scalars.                                                   *)
LEMMA ScalarsAppend ==
  ASSUME NEW a, Sound(a), a.kind \in Scalars, NEW b, Sound(b), b.kind = a.kind
  PROVE  Appended(PrimAppend(a, b), a, b)
<1> DEFINE d == BitsAppend(a.validity, b.validity)
           t == PrimAppend(a, b)
           n == len(a)
           m == len(b)
<1>1. a.kind # "string" /\ a.kind # "dictionary"
  BY KindFacts
<1>2. /\ a \in Storage /\ b \in Storage /\ Len(a.vals) = n /\ Len(b.vals) = m
      /\ a.validity \in Bitmaps /\ b.validity \in Bitmaps /\ m = b.validity.len
      /\ b.vals \in Seq(Nat)
  BY <1>1, StorageFacts DEF Sound
<1>3. BothBits(d, a.validity, b.validity)
  BY <1>2, AppendBits
<1>4. t = [a EXCEPT !.vals = a.vals \o b.vals, !.validity = d]
  BY DEF PrimAppend
<1> HIDE DEF d
<1>5. /\ t \in Storage /\ t.kind = a.kind /\ len(t) = n + m /\ Len(t.vals) = len(t)
      /\ \A i \in 1..n : /\ t.vals[i] = a.vals[i]
                         /\ is_valid(t.validity, i) = is_valid(a.validity, i)
      /\ \A i \in 1..m : /\ t.vals[n + i] = b.vals[i]
                         /\ is_valid(t.validity, n + i) = is_valid(b.validity, i)
  <2>1. MoreValues(t, a, b.vals, b.validity)
    <3> DEFINE v == b.vals
               p == b.validity
    <3>1. v \in Seq(Nat) /\ p \in Bitmaps /\ Len(v) = p.len /\ BothBits(d, a.validity, p)
      BY <1>2, <1>3
    <3> HIDE DEF v, p
    <3>2. MoreValues([a EXCEPT !.vals = a.vals \o v, !.validity = d], a, v, p)
      BY <1>2, <3>1, ValuesAppend
    <3> QED
      BY <1>4, <3>2 DEF v, p
  <2> HIDE DEF t
  <2> QED
    BY <1>2, <2>1 DEF MoreValues
<1> HIDE DEF t, n, m
<1>6. Sound(t)
  BY <1>1, <1>5 DEF Sound
<1>7. \A i \in 1..n : At(t, i) = At(a, i)
  BY <1>5, ScalarCells
<1>8. \A i \in 1..m : At(t, n + i) = At(b, i)
  BY <1>5, ScalarCells
<1> QED
  BY <1>5, <1>6, <1>7, <1>8 DEF Appended, t, n, m

(* The code that the index has for a text names it.                         *)
LEMMA IndexFacts ==
  ASSUME NEW d, DictSound(d), NEW s \in DOMAIN d.index
  PROVE  /\ d.index[s] \in Nat /\ d.index[s] + 1 < Len(d.offsets)
         /\ Text(d.arena, d.offsets, d.index[s] + 1) = s
<1>1. Size(d) \in Nat /\ Len(d.offsets) = Size(d) + 1
  BY DictFacts
<1>2. IsIndex(d.arena, d.offsets, d.index) /\ Size(d) = Len(d.offsets) - 1
  BY DEF DictSound, Sound, Size
<1>3. PICK i \in 1..Size(d) : s = Text(d.arena, d.offsets, i)
  BY <1>2 DEF IsIndex
<1>4. d.index[s] = i - 1
  BY <1>2, <1>3 DEF IsIndex
<1>5. i - 1 \in Nat /\ (i - 1) + 1 = i /\ i < Size(d) + 1
  BY <1>1
<1> QED
  BY <1>1, <1>3, <1>4, <1>5

\* The column d is c, and has some texts in its dictionary.
Knows(d, c, texts) ==
  /\ DictSound(d) /\ d.vals = c.vals /\ d.validity = c.validity
  /\ \A i \in 1..len(c) : At(d, i) = At(c, i)
  /\ texts \subseteq DOMAIN d.index

LEMMA KnowsMore ==
  ASSUME NEW c, DictSound(c), NEW s \in Seq(Nat)
  PROVE  Knows(dict_code(c, s), c, DOMAIN c.index \cup {s})
<1> DEFINE d == dict_code(c, s)
<1>1. Sound(c) /\ c.kind = "dictionary"
  BY DEF DictSound
<1>2. Coded(d, c, s)
  BY <1>1, CodeFor
<1>3. DOMAIN c.index \cup {s} \subseteq DOMAIN d.index
  <2>1. CASE s \in DOMAIN c.index
    BY <2>1 DEF dict_code
  <2>2. CASE s \notin DOMAIN c.index
    <3>1. c \in Storage
      BY <1>1 DEF Sound
    <3>2. d.index = [k \in DOMAIN c.index \cup {s} |->
                       IF k = s THEN Len(c.offsets) - 1 ELSE c.index[k]]
      BY <2>2, <3>1 DEF dict_code, AddEntry, Storage
    <3> QED
      BY <3>2
  <2> QED
    BY <2>1, <2>2
<1> QED
  BY <1>2, <1>3 DEF Coded, Knows, DictSound

(* Texts are added to the dictionary one after the other.                   *)
LEMMA KnownAll ==
  ASSUME NEW c, DictSound(c), NEW texts \in Seq(Seq(Nat))
  PROVE  Knows(Known(c, texts), c, ToSet(texts))
<1> DEFINE top == Len(texts)
           Dicts == {x \in SoundColumns : x.kind = "dictionary"}
           Eqn(r) == r = [i \in 0..top |-> IF i = 0 THEN c ELSE dict_code(r[i - 1], texts[i])]
           step == [i \in 1..top |-> [x \in Dicts |-> dict_code(x, texts[i])]]
           run == CHOOSE r : Eqn(r)
<1>1. Known(c, texts) = run[top]
  BY DEF Known
<1> HIDE DEF run
<1>2. top \in Nat /\ \A i \in 1..top : texts[i] \in Seq(Nat)
  OBVIOUS
<1>3. \A x : x \in Dicts <=> DictSound(x)
  BY SoundIn DEF DictSound
<1> HIDE DEF top, Dicts
<1>4. step \in Steps(top, Dicts)
  <2>1. ASSUME NEW i \in 1..top, NEW x \in Dicts
        PROVE  dict_code(x, texts[i]) \in Dicts
    <3>1. DictSound(x) /\ texts[i] \in Seq(Nat)
      BY <1>2, <1>3
    <3>2. DictSound(dict_code(x, texts[i]))
      BY <3>1, KnowsMore DEF Knows
    <3> QED
      BY <1>3, <3>2
  <2> QED
    BY <2>1 DEF Steps
<1> HIDE DEF step
<1>5. PICK g : IsRecursion(g, top, Dicts, c, step)
  BY <1>2, <1>3, <1>4, RecursionExists
<1>6. Eqn(g)
  <2>1. ASSUME NEW i \in 0..top
        PROVE  g[i] = IF i = 0 THEN c ELSE dict_code(g[i - 1], texts[i])
    <3>1. CASE i = 0
      BY <1>5, <3>1 DEF IsRecursion
    <3>2. CASE i # 0
      <4>1. i \in 1..top /\ i - 1 \in 0..top
        BY <1>2, <3>2
      <4>2. g[i - 1] \in Dicts /\ g[i] = step[i][g[i - 1]]
        BY <1>5, <3>2, <4>1 DEF IsRecursion
      <4> QED
        BY <3>2, <4>1, <4>2 DEF step
    <3> QED
      BY <3>1, <3>2
  <2>2. g = [i \in 0..top |-> g[i]]
    BY <1>5 DEF IsRecursion
  <2> QED
    BY <2>1, <2>2
<1>7. Eqn(run)
  BY <1>6 DEF run
<1> DEFINE K == {k \in 0..top : Knows(run[k], c, {texts[i] : i \in 1..k})}
<1>8. 0 \in K
  <2>1. run[0] = c
    BY <1>2, <1>7
  <2>2. {texts[i] : i \in 1..0} = {}
    OBVIOUS
  <2> QED
    BY <1>2, <2>1, <2>2 DEF Knows
<1>9. ASSUME NEW k \in Nat, k < top, k \in K
      PROVE  k + 1 \in K
  <2> DEFINE m == k + 1
             s == texts[m]
             d == run[k]
             u == run[m]
  <2>1. /\ m \in 0..top /\ m # 0 /\ m - 1 = k /\ m \in 1..top
        /\ \A i : i \in 1..m <=> i \in 1..k \/ i = m
    BY <1>2, <1>9
  <2>2. u = dict_code(d, s) /\ s \in Seq(Nat)
    <3> HIDE DEF m
    <3> QED
      BY <1>2, <1>7, <2>1
  <2>3. Knows(d, c, {texts[i] : i \in 1..k})
    BY <1>9
  <2> HIDE DEF m, d, u
  <2>4. {texts[i] : i \in 1..m} = {texts[i] : i \in 1..k} \cup {s}
    BY <2>1
  <2> HIDE DEF s
  <2>5. Knows(u, d, DOMAIN d.index \cup {s})
    BY <2>2, <2>3, KnowsMore DEF Knows
  <2>6. len(d) = len(c)
    BY <2>3 DEF Knows, len
  <2>7. Knows(u, c, {texts[i] : i \in 1..m})
    BY <2>3, <2>4, <2>5, <2>6 DEF Knows
  <2> QED
    BY <2>1, <2>7 DEF m, u
<1> HIDE DEF K
<1>10. \A k \in 0..top : k \in K
  BY <1>2, <1>8, <1>9, IntervalInduction
<1>11. top \in K
  BY <1>2, <1>10
<1>12. Knows(run[top], c, {texts[i] : i \in 1..top})
  BY <1>11 DEF K
<1>13. {texts[i] : i \in 1..top} = ToSet(texts)
  BY DEF top, ToSet
<1> QED
  BY <1>1, <1>12, <1>13

(* The entries of a dictionary join another, and its codes are translated.  *)
LEMMA CodesAppend ==
  ASSUME NEW a, DictSound(a), NEW b, DictSound(b)
  PROVE  Appended(DictAppend(a, b), a, b)
<1> DEFINE texts == Entries(b)
           e == Known(a, texts)
           v == [i \in DOMAIN b.vals |->
                   IF is_valid(b.validity, i) THEN e.index[Entry(b, b.vals[i] + 1)] ELSE 0]
           d == BitsPushAll(e.validity, ValidSeq(b.validity))
           t == DictAppend(a, b)
           n == len(a)
           m == len(b)
<1>1. /\ a \in Storage /\ Sound(a) /\ a.kind = "dictionary" /\ Len(a.vals) = n /\ n \in Nat
      /\ CodesFit(a)
  BY StorageFacts DEF DictSound, Sound
<1>2. /\ b \in Storage /\ Sound(b) /\ b.kind = "dictionary" /\ Len(b.vals) = m /\ m \in Nat
      /\ b.vals \in Seq(Nat) /\ b.validity \in Bitmaps /\ m = b.validity.len /\ CodesFit(b)
  BY StorageFacts DEF DictSound, Sound
<1>3. /\ texts = [i \in 1..Size(b) |-> Text(b.arena, b.offsets, i)]
      /\ texts \in Seq(Seq(Nat)) /\ Len(texts) = Size(b) /\ Size(b) \in Nat
      /\ Len(b.offsets) = Size(b) + 1
  BY DictFacts
<1>4. t = [e EXCEPT !.vals = e.vals \o v, !.validity = d]
  BY DEF DictAppend
<1> HIDE DEF texts
<1>5. Knows(e, a, ToSet(texts))
  BY <1>3, KnownAll
<1> HIDE DEF e
<1>6. /\ DictSound(e) /\ Sound(e) /\ e.kind = "dictionary" /\ e \in Storage
      /\ e.vals = a.vals /\ e.validity = a.validity /\ len(e) = n /\ Len(e.vals) = len(e)
      /\ e.validity \in Bitmaps
      /\ \A i \in 1..n : At(e, i) = At(a, i)
      /\ ToSet(texts) \subseteq DOMAIN e.index
  <2>1. DictSound(e) /\ Sound(e) /\ e.kind = "dictionary" /\ e \in Storage
    BY <1>5 DEF Knows, DictSound, Sound
  <2> QED
    BY <1>1, <1>5, <2>1, StorageFacts DEF Knows, len
<1>7. BothBits(d, e.validity, b.validity)
  BY <1>2, <1>6, AppendBits
<1> HIDE DEF d, t
\* The code of a cell is that of its text in the joined dictionary.
<1>8. ASSUME NEW i \in 1..m, is_valid(b.validity, i)
      PROVE  /\ v[i] \in Nat /\ v[i] + 1 < Len(e.offsets)
             /\ Text(e.arena, e.offsets, v[i] + 1) = Text(b.arena, b.offsets, b.vals[i] + 1)
  <2> DEFINE j == b.vals[i] + 1
             s == Text(b.arena, b.offsets, j)
  <2>1. j \in 1..Size(b)
    <3>1. j \in 1..(Len(b.offsets) - 1)
      BY <1>2, <1>8, CodeFacts, SoundFit
    <3> QED
      BY <1>3, <3>1 DEF Size
  <2>2. Entry(b, j) = s
    BY DEF Entry, Text, Cut
  <2>3. v[i] = e.index[s]
    BY <1>2, <1>8, <2>2
  <2> HIDE DEF j, v
  <2>4. s \in DOMAIN e.index
    <3>1. texts[j] = s
      BY <1>3, <2>1
    <3>2. j \in 1..Len(texts)
      BY <1>3, <2>1
    <3>3. texts[j] \in ToSet(texts)
      BY <1>3, <3>2 DEF ToSet
    <3> QED
      BY <1>6, <3>1, <3>3
  <2> HIDE DEF s
  <2>5. e.index[s] \in Nat /\ e.index[s] + 1 < Len(e.offsets)
        /\ Text(e.arena, e.offsets, e.index[s] + 1) = s
    BY <1>6, <2>4, IndexFacts
  <2> QED
    BY <2>3, <2>5 DEF s, j
<1>9. v \in Seq(Nat) /\ Len(v) = m
  <2>1. DOMAIN b.vals = 1..m
    BY <1>2
  <2>2. \A i \in 1..m : v[i] \in Nat
    BY <1>8, <2>1
  <2>3. v = [i \in 1..m |-> v[i]]
    BY <2>1
  <2> HIDE DEF v, m
  <2>4. v \in [1..m -> Nat]
    BY <2>2, <2>3
  <2>5. m \in Nat
    BY <1>2
  <2> QED
    BY ONLY <2>4, <2>5
<1> HIDE DEF v
<1>10. MoreValues(t, e, v, b.validity)
  <2> DEFINE p == b.validity
  <2>1. p \in Bitmaps /\ Len(v) = p.len /\ BothBits(d, e.validity, p)
    BY <1>2, <1>7, <1>9
  <2> HIDE DEF p
  <2>2. MoreValues([e EXCEPT !.vals = e.vals \o v, !.validity = d], e, v, p)
    BY <1>6, <1>9, <2>1, ValuesAppend
  <2> QED
    BY <1>4, <2>2 DEF p
<1>11. /\ t \in Storage /\ t.kind = "dictionary" /\ t.arena = e.arena /\ t.offsets = e.offsets
       /\ t.index = e.index /\ len(t) = n + m /\ Len(t.vals) = len(t)
       /\ \A i \in 1..n : /\ t.vals[i] = e.vals[i]
                          /\ is_valid(t.validity, i) = is_valid(e.validity, i)
       /\ \A i \in 1..m : /\ t.vals[n + i] = v[i]
                          /\ is_valid(t.validity, n + i) = is_valid(b.validity, i)
  BY <1>2, <1>6, <1>10 DEF MoreValues
<1> HIDE DEF n, m
<1>12. ASSUME NEW i \in 1..n, is_valid(e.validity, i)
       PROVE  e.vals[i] + 1 < Len(e.offsets)
  BY <1>6, <1>12 DEF DictSound, Sound, CodesFit
<1>13. CodesFit(t)
  <2> SUFFICES ASSUME NEW i \in 1..len(t), is_valid(t.validity, i)
               PROVE  t.vals[i] + 1 < Len(t.offsets)
    BY DEF CodesFit
  <2>1. CASE i \in 1..n
    BY <1>11, <1>12, <2>1
  <2>2. CASE i \notin 1..n
    <3>1. i - n \in 1..m /\ n + (i - n) = i
      BY <1>1, <1>2, <1>11, <2>2
    <3>2. t.vals[i] = v[i - n] /\ is_valid(b.validity, i - n)
      BY <1>11, <3>1
    <3> QED
      BY <1>8, <1>11, <3>1, <3>2
  <2> QED
    BY <2>1, <2>2
<1>14. Sound(t)
  <2>1. IsArena(e.arena, e.offsets) /\ IsIndex(e.arena, e.offsets, e.index)
    BY <1>6, KindFacts DEF Sound
  <2> QED
    BY <1>11, <1>13, <2>1, KindFacts DEF Sound
<1>15. ASSUME NEW i \in 1..n
       PROVE  At(t, i) = At(a, i)
  <2>1. At(t, i) = IF is_valid(t.validity, i) THEN Text(t.arena, t.offsets, t.vals[i] + 1) ELSE Null
    BY <1>11, <1>12, CodeCells
  <2>2. At(e, i) = IF is_valid(e.validity, i) THEN Text(e.arena, e.offsets, e.vals[i] + 1) ELSE Null
    BY <1>6, <1>12, CodeCells
  <2>3. At(e, i) = At(a, i)
    BY <1>6
  <2> QED
    BY <1>11, <2>1, <2>2, <2>3
<1>16. ASSUME NEW i \in 1..m
       PROVE  At(t, n + i) = At(b, i)
  <2> DEFINE k == n + i
  <2>1. t.vals[k] = v[i] /\ is_valid(t.validity, k) = is_valid(b.validity, i)
    BY <1>11
  <2> HIDE DEF k
  <2>2. At(t, k) = IF is_valid(t.validity, k) THEN Text(t.arena, t.offsets, t.vals[k] + 1) ELSE Null
    BY <1>8, <1>11, <2>1, CodeCells
  <2>3. At(b, i) = IF is_valid(b.validity, i) THEN Text(b.arena, b.offsets, b.vals[i] + 1) ELSE Null
    <3>1. is_valid(b.validity, i) => b.vals[i] + 1 < Len(b.offsets)
      BY <1>2 DEF CodesFit, m
    <3> QED
      BY <1>2, <3>1, CodeCells
  <2> QED
    BY <1>8, <1>11, <2>1, <2>2, <2>3 DEF k
<1> QED
  BY <1>1, <1>11, <1>14, <1>15, <1>16 DEF Appended, t, n, m

(* b's cells after a's, whatever their kind.                                *)
LEMMA ExtendAppends ==
  ASSUME NEW a, Sound(a), NEW b, Sound(b), b.kind = a.kind
  PROVE  Appended(extend_owned(a, b), a, b)
<1>1. len(a) \in Nat /\ len(b) \in Nat /\ a.kind \in Kinds
  BY StorageFacts DEF Sound
<1>2. CASE len(a) = 0
  <2>1. extend_owned(a, b) = b
    BY <1>2 DEF extend_owned
  <2>2. len(b) = len(a) + len(b) /\ \A i \in 1..len(b) : len(a) + i = i
    BY <1>1, <1>2
  <2>3. \A i \in 1..len(a) : FALSE
    BY <1>2
  <2> QED
    BY <2>1, <2>2, <2>3 DEF Appended
<1>3. CASE len(a) # 0
  <2>1. CASE a.kind = "string"
    BY <1>3, <2>1, StringsAppend DEF extend_owned
  <2>2. CASE a.kind = "dictionary"
    BY <1>3, <2>2, CodesAppend DEF extend_owned, DictSound
  <2>3. CASE a.kind \in Scalars
    <3>1. a.kind # "string" /\ a.kind # "dictionary"
      BY <2>3, KindFacts
    <3> QED
      BY <1>3, <2>3, <3>1, ScalarsAppend DEF extend_owned
  <2> QED
    BY <1>1, <2>1, <2>2, <2>3, KindFacts
<1> QED
  BY <1>2, <1>3

-----------------------------------------------------------------------------
(* Exporting builders.                                                      *)

\* The builder t is e without a row that was never ended.
Normal(t, e) ==
  /\ t \in Engines /\ DOMAIN t.cols = DOMAIN e.cols /\ t.order = e.order
  /\ t.row_count = e.row_count /\ t.strict_error = e.strict_error
  /\ \A n \in DOMAIN e.cols :
       /\ Fit(t.cols[n]) /\ t.cols[n].kind = e.cols[n].kind /\ len(t.cols[n]) = e.row_count
       /\ \A i \in 1..e.row_count : At(t.cols[n], i) = At(e.cols[n], i)
       /\ Sound(e.cols[n]) => Sound(t.cols[n])

LEMMA NormalizeFits ==
  ASSUME NEW e, FitEngine(cfg, e)
  PROVE  Normal(normalize(e), e)
<1> DEFINE t == normalize(e)
           New(n) == Popped(e.cols[n], len(e.cols[n]) - e.row_count)
           cols == [n \in DOMAIN e.cols |-> New(n)]
           count == e.row_count
<1>1. count \in Nat /\ e \in Engines /\ DOMAIN e.cols \in SUBSET Names
  BY EngineFacts DEF FitEngine
<1>2. t = [cols |-> cols, order |-> e.order, row_count |-> e.row_count,
           strict_error |-> e.strict_error]
  <2>1. e = [cols |-> e.cols, order |-> e.order, row_count |-> e.row_count,
             strict_error |-> e.strict_error]
    BY <1>1, EngineFacts
  <2>2. t = [e EXCEPT !.cols = cols]
    BY DEF normalize
  <2> HIDE DEF cols, t
  <2> QED
    BY <2>1, <2>2
<1>3. ASSUME NEW n \in DOMAIN e.cols
      PROVE  FitPart(New(n), e.cols[n], 0, count) /\ (Sound(e.cols[n]) => Sound(New(n)))
  <2> DEFINE col == e.cols[n]
             more == len(col) - count
  <2>1. Fit(col) /\ count <= len(col)
    BY DEF FitEngine
  <2>2. len(col) \in Nat
    BY <2>1, StorageFacts DEF Fit
  <2> HIDE DEF col
  <2>3. more \in Nat /\ more <= len(col) /\ len(col) - more = count
    BY <1>1, <2>1, <2>2
  <2>4. New(n) = Popped(col, more)
    BY DEF col
  <2> HIDE DEF New, more, count
  <2>5. FitPart(Popped(col, more), col, 0, len(col) - more)
    BY <2>1, <2>3, PoppedFit
  <2>6. Sound(col) => Part(Popped(col, more), col, 0, len(col) - more)
    BY <2>5, PartOfSound
  <2> QED
    BY <2>3, <2>4, <2>5, <2>6 DEF col, Part
<1>4. \A n \in DOMAIN e.cols : cols[n] = New(n)
  OBVIOUS
<1> HIDE DEF New
<1>5. DOMAIN cols = DOMAIN e.cols
  OBVIOUS
<1> HIDE DEF cols
<1>6. \A n \in DOMAIN e.cols :
        /\ Fit(cols[n]) /\ cols[n].kind = e.cols[n].kind /\ len(cols[n]) = count
        /\ \A i \in 1..count : At(cols[n], i) = At(e.cols[n], i)
        /\ Sound(e.cols[n]) => Sound(cols[n])
  <2>1. \A i \in 1..count : 0 + i = i
    BY <1>1
  <2> QED
    BY <1>3, <1>4, <2>1 DEF FitPart
<1>7. t \in Engines
  <2>1. cols \in Tables
    <3> DEFINE N == DOMAIN e.cols
    <3>1. \A n \in N : cols[n] \in Storage
      BY <1>6 DEF Fit
    <3>2. cols = [n \in N |-> cols[n]]
      BY DEF cols
    <3>3. N \in SUBSET Names
      BY <1>1
    <3> HIDE DEF N
    <3>4. cols \in [N -> Storage]
      BY <3>1, <3>2
    <3> QED
      BY <3>3, <3>4, TableMade
  <2> HIDE DEF t
  <2> QED
    BY <1>1, <1>2, <2>1, EngineFacts DEF Engines
<1>8. t.cols = cols /\ t.row_count = count /\ t.strict_error = e.strict_error /\ t.order = e.order
  BY <1>2
<1> HIDE DEF t, count
<1>9. Normal(t, e)
  BY <1>5, <1>6, <1>7, <1>8 DEF Normal, count
<1> QED
  BY <1>9 DEF t

\* The parts of engines_to_record_batches.
NormalsOf(es) == [i \in DOMAIN es |-> normalize(es[i])]

LiveOf(es) == Picked(NormalsOf(es), {i \in DOMAIN es : es[i].row_count > 0})

ExportOrder(es) == FirstAppearance([i \in DOMAIN LiveOf(es) |-> LiveOf(es)[i].order])

ExportKinds(es) == [n \in ToSet(ExportOrder(es)) |-> target(LiveOf(es), n)]

PromotedOf(es, e, n) == promote_to_variant(e.cols[n], ExportKinds(es)[n])

ExportedOf(es, e) ==
  Batch(ExportOrder(es), e.row_count,
    [n \in ToSet(ExportOrder(es)) |->
       IF n \in DOMAIN e.cols THEN Column(PromotedOf(es, e, n))
       ELSE NullArray(ExportKinds(es)[n], e.row_count)])

Unexportable(es) ==
  \/ \E i \in DOMAIN es : es[i].strict_error
  \/ \E n \in ToSet(ExportOrder(es)) : ExportKinds(es)[n] = "none"
  \/ \E i \in DOMAIN LiveOf(es) : \E n \in DOMAIN LiveOf(es)[i].cols :
       ~Exportable(PromotedOf(es, LiveOf(es)[i], n))
  \/ ExportOrder(es) # <<>> /\ ~apply_compare_filter(ExportOrder(es))

LEMMA ExportAs ==
  ASSUME NEW es
  PROVE  engines_to_record_batches(es) =
           IF Unexportable(es) THEN Failed
           ELSE [ok |-> TRUE,
                 batches |-> IF ExportOrder(es) = <<>> THEN <<>>
                             ELSE [i \in DOMAIN LiveOf(es) |-> ExportedOf(es, LiveOf(es)[i])]]
BY DEF engines_to_record_batches, Unexportable, ExportedOf, PromotedOf, ExportKinds,
       ExportOrder, LiveOf, NormalsOf

\* The chunks with rows, in order.
LiveIds == Picked(Ids(Len(engines)), {c \in DOMAIN engines : engines[c].row_count > 0})

\* Every chunk with rows is exported, without a row that was never ended.
LEMMA LiveFacts ==
  ASSUME AssemblyInv, Prepared
  PROVE  /\ LiveIds \in Seq(Chunks)
         /\ ToSet(LiveIds) = {c \in Chunks : engines[c].row_count > 0}
         /\ LiveOf(engines) = Mapped(LiveIds, NormalsOf(engines))
         /\ LiveOf(engines) \in Seq(Engines) /\ Len(LiveOf(engines)) = Len(LiveIds)
         /\ Len(LiveIds) \in Nat /\ DOMAIN LiveOf(engines) = 1..Len(LiveIds)
         /\ \A j \in 1..Len(LiveIds) :
              /\ LiveIds[j] \in Chunks /\ engines[LiveIds[j]].row_count > 0
              /\ Normal(LiveOf(engines)[j], engines[LiveIds[j]])
         /\ \A c \in Chunks : engines[c].row_count > 0 =>
              \E j \in 1..Len(LiveIds) : LiveIds[j] = c
<1> DEFINE P == {c \in DOMAIN engines : engines[c].row_count > 0}
           norm == NormalsOf(engines)
<1>1. /\ engines \in Seq(Engines) /\ Chunks = 1..Len(engines) /\ Len(engines) \in Nat
      /\ DOMAIN engines = Chunks
  BY EnginesSeq DEF AssemblyInv
<1>2. \A c \in Chunks : FitEngine(cfg, engines[c])
  BY DEF Prepared, Assembled
<1>3. \A c \in Chunks : norm[c] = normalize(engines[c]) /\ Normal(norm[c], engines[c])
  BY <1>1, <1>2, NormalizeFits DEF NormalsOf
<1>4. norm \in Seq(Engines) /\ Len(norm) = Len(engines)
  <2>1. norm = [c \in 1..Len(engines) |-> norm[c]]
    BY <1>1 DEF NormalsOf
  <2>2. \A c \in 1..Len(engines) : norm[c] \in Engines
    BY <1>1, <1>3 DEF Normal
  <2> HIDE DEF norm
  <2> QED
    BY <1>1, <2>1, <2>2
<1>5. LiveOf(engines) = Picked(norm, P)
  BY DEF LiveOf
<1>6. LiveIds = Picked(Ids(Len(norm)), P)
  BY <1>4 DEF LiveIds
<1> HIDE DEF norm, P
<1>7. /\ LiveIds \in Seq(1..Len(norm)) /\ ToSet(LiveIds) = P \cap (1..Len(norm))
      /\ LiveOf(engines) = Mapped(LiveIds, norm)
  BY <1>4, <1>5, <1>6, PickedByPosition
<1>8. LiveIds \in Seq(Chunks) /\ ToSet(LiveIds) = {c \in Chunks : engines[c].row_count > 0}
  BY <1>1, <1>4, <1>7 DEF P
<1>9. Len(LiveIds) \in Nat /\ \A j \in 1..Len(LiveIds) : LiveIds[j] \in Chunks /\ LiveIds[j] \in ToSet(LiveIds)
  <2>1. DOMAIN LiveIds = 1..Len(LiveIds)
    BY <1>8
  <2> QED
    BY <1>8, <2>1 DEF ToSet
<1>10. /\ LiveOf(engines) \in Seq(Engines) /\ Len(LiveOf(engines)) = Len(LiveIds)
       /\ DOMAIN LiveOf(engines) = 1..Len(LiveIds)
       /\ \A j \in 1..Len(LiveIds) : LiveOf(engines)[j] = norm[LiveIds[j]]
  <2> DEFINE live == LiveOf(engines)
             ids == LiveIds
             top == Len(ids)
  <2>1. live = [j \in 1..top |-> norm[ids[j]]] /\ top \in Nat
    BY <1>7, <1>9 DEF Mapped
  <2>2. \A j \in 1..top : norm[ids[j]] \in Engines
    BY <1>3, <1>9 DEF Normal
  <2> HIDE DEF live, ids, top
  <2>3. live \in Seq(Engines) /\ Len(live) = top /\ DOMAIN live = 1..top
    BY <2>1, <2>2
  <2>4. \A j \in 1..top : live[j] = norm[ids[j]]
    BY <2>1
  <2> QED
    BY <2>3, <2>4 DEF live, ids, top
<1>11. ASSUME NEW j \in 1..Len(LiveIds)
       PROVE  /\ LiveIds[j] \in Chunks /\ engines[LiveIds[j]].row_count > 0
              /\ Normal(LiveOf(engines)[j], engines[LiveIds[j]])
  BY <1>3, <1>8, <1>9, <1>10
<1>12. ASSUME NEW c \in Chunks, engines[c].row_count > 0
       PROVE  \E j \in 1..Len(LiveIds) : LiveIds[j] = c
  <2>1. c \in ToSet(LiveIds) /\ DOMAIN LiveIds = 1..Len(LiveIds)
    BY <1>8, <1>12
  <2> QED
    BY <2>1 DEF ToSet
<1> QED
  BY <1>7, <1>8, <1>9, <1>10, <1>11, <1>12 DEF norm

\* Some chunk with rows has column n.
LiveIn(c, n) == c \in Chunks /\ engines[c].row_count > 0 /\ n \in DOMAIN engines[c].cols

(* The exported columns are those of the chunks with rows, once each.       *)
LEMMA ExportedColumns ==
  ASSUME AssemblyInv, Prepared
  PROVE  /\ ExportOrder(engines) \in Seq(Names) /\ Unrepeated(ExportOrder(engines))
         /\ \A n : n \in ToSet(ExportOrder(engines)) <=> \E c \in Chunks : LiveIn(c, n)
<1> DEFINE live == LiveOf(engines)
           ids == LiveIds
           orders == [i \in DOMAIN live |-> live[i].order]
           flat == FlattenSeq(orders)
<1>1. /\ live \in Seq(Engines) /\ Len(live) = Len(ids) /\ DOMAIN live = 1..Len(ids) /\ Len(ids) \in Nat
      /\ \A j \in 1..Len(ids) :
           ids[j] \in Chunks /\ engines[ids[j]].row_count > 0 /\ Normal(live[j], engines[ids[j]])
      /\ \A c \in Chunks : engines[c].row_count > 0 => \E j \in 1..Len(ids) : ids[j] = c
  BY LiveFacts
<1>2. ExportOrder(engines) = Firsts(flat)
  BY DEF ExportOrder, FirstAppearance
<1> HIDE DEF live, ids
<1>3. ASSUME NEW j \in 1..Len(ids)
      PROVE  live[j].order \in Seq(Names) /\ ToSet(live[j].order) = DOMAIN engines[ids[j]].cols
  <2>1. FitEngine(cfg, engines[ids[j]])
    BY <1>1 DEF Prepared, Assembled
  <2>2. live[j].order = engines[ids[j]].order
    BY <1>1 DEF Normal
  <2>3. engines[ids[j]].order \in Seq(Names)
    BY <2>1, EngineFacts DEF FitEngine
  <2> QED
    BY <2>1, <2>2, <2>3 DEF FitEngine
<1>4. /\ orders \in Seq(Seq(Names)) /\ Len(orders) = Len(ids)
      /\ \A j \in 1..Len(ids) : orders[j] = live[j].order
  <2> DEFINE top == Len(ids)
  <2>1. orders = [i \in 1..top |-> live[i].order] /\ \A j \in 1..top : live[j].order \in Seq(Names)
    BY <1>1, <1>3
  <2>2. top \in Nat
    BY <1>1
  <2> HIDE DEF top, orders
  <2>3. \A j \in 1..top : orders[j] = live[j].order
    BY <2>1
  <2>4. orders \in Seq(Seq(Names)) /\ Len(orders) = top
    BY <2>1, <2>2
  <2> QED
    BY <2>3, <2>4 DEF top
<1> HIDE DEF orders
<1>5. /\ flat \in Seq(Names)
      /\ \A n : n \in ToSet(flat) <=> \E j \in 1..Len(ids) : n \in ToSet(orders[j])
  BY <1>4, FlattenAll
<1> HIDE DEF flat
<1>6. Firsts(flat) \in Seq(Names) /\ ToSet(Firsts(flat)) = ToSet(flat) /\ Unrepeated(Firsts(flat))
  BY <1>5, FirstsFacts
<1>7. ASSUME NEW n
      PROVE  n \in ToSet(flat) <=> \E c \in Chunks : LiveIn(c, n)
  <2>1. ASSUME NEW j \in 1..Len(ids), n \in ToSet(orders[j])
        PROVE  LiveIn(ids[j], n) /\ ids[j] \in Chunks
    BY <1>1, <1>3, <1>4, <2>1 DEF LiveIn
  <2>2. ASSUME NEW c \in Chunks, LiveIn(c, n)
        PROVE  \E j \in 1..Len(ids) : n \in ToSet(orders[j])
    <3>1. PICK j \in 1..Len(ids) : ids[j] = c
      BY <1>1, <2>2 DEF LiveIn
    <3>2. n \in ToSet(orders[j])
      BY <1>3, <1>4, <2>2, <3>1 DEF LiveIn
    <3> QED
      BY <3>2
  <2> QED
    BY <1>5, <2>1, <2>2
<1> QED
  BY <1>2, <1>6, <1>7

KindIn(c, n) == engines[c].cols[n].kind

(* All chunks' columns may take the exported kind; there is none only where
   two of them cannot have one.                                             *)
LEMMA ExportedKind ==
  ASSUME AssemblyInv, Prepared, NEW n \in ToSet(ExportOrder(engines))
  PROVE  LET k == ExportKinds(engines)[n]
         IN /\ k # "none" => /\ k \in Kinds
                             /\ \A c \in Chunks : LiveIn(c, n) => Promotes(KindIn(c, n), k)
            /\ k = "none" /\ (\A c \in Chunks : LiveIn(c, n) => KindIn(c, n) \in VariantKeys) =>
                 \E c, d \in Chunks :
                   LiveIn(c, n) /\ LiveIn(d, n) /\ Class(KindIn(c, n)) # Class(KindIn(d, n))
<1> DEFINE live == LiveOf(engines)
           ids == LiveIds
           k == ExportKinds(engines)[n]
           P == {i \in DOMAIN live : n \in DOMAIN live[i].cols}
           with == Having(live, n)
           top == Len(with)
           kinds == [i \in 1..top |-> with[i].cols[n].kind]
<1>1. /\ live \in Seq(Engines) /\ Len(live) = Len(ids) /\ DOMAIN live = 1..Len(ids) /\ Len(ids) \in Nat
      /\ \A j \in 1..Len(ids) :
           ids[j] \in Chunks /\ engines[ids[j]].row_count > 0 /\ Normal(live[j], engines[ids[j]])
      /\ \A c \in Chunks : engines[c].row_count > 0 => \E j \in 1..Len(ids) : ids[j] = c
  BY LiveFacts
<1>2. k = target(live, n)
  BY DEF ExportKinds
<1>3. with = Picked(live, P)
  BY DEF Having
<1> HIDE DEF live, ids, P
<1>4. with \in Seq(Engines) /\ ToSet(with) = {live[i] : i \in P \cap (1..Len(live))}
  BY <1>1, <1>3, PickedMembers
<1>5. top \in Nat /\ DOMAIN with = 1..top /\ with = Having(live, n)
  BY <1>4
<1> HIDE DEF with, k
<1>6. P = {j \in 1..Len(ids) : LiveIn(ids[j], n)} /\ P \cap (1..Len(live)) = P
      /\ \A j \in P : live[j].cols[n].kind = KindIn(ids[j], n)
  BY <1>1 DEF P, Normal, LiveIn, KindIn
<1>7. ASSUME NEW i \in 1..top
      PROVE  \E c \in Chunks : LiveIn(c, n) /\ with[i].cols[n].kind = KindIn(c, n)
  <2>1. with[i] \in ToSet(with)
    BY <1>5 DEF ToSet
  <2>2. PICK j \in P : with[i] = live[j]
    BY <1>4, <1>6, <2>1
  <2> QED
    BY <1>1, <1>6, <2>2
<1>8. ASSUME NEW c \in Chunks, LiveIn(c, n)
      PROVE  \E i \in 1..top : with[i].cols[n].kind = KindIn(c, n)
  <2>1. PICK j \in 1..Len(ids) : ids[j] = c
    BY <1>1, <1>8 DEF LiveIn
  <2>2. j \in P
    BY <1>6, <1>8, <2>1
  <2>3. live[j] \in ToSet(with)
    BY <1>4, <1>6, <2>2
  <2>4. PICK i \in 1..top : with[i] = live[j]
    BY <1>5, <2>3 DEF ToSet
  <2> QED
    BY <1>6, <2>1, <2>2, <2>4
<1>9. ASSUME NEW c \in Chunks, LiveIn(c, n)
      PROVE  KindIn(c, n) \in Kinds
  <2>1. Fit(engines[c].cols[n])
    BY <1>9 DEF Prepared, Assembled, FitEngine, LiveIn
  <2> QED
    BY <2>1, StorageFacts DEF Fit, KindIn
<1>10. \A i \in 1..top : with[i].cols[n].kind \in Kinds
  BY <1>7, <1>9
<1>11. top \in Nat \ {0}
  <2>1. PICK c \in Chunks : LiveIn(c, n)
    BY ExportedColumns
  <2>2. PICK i \in 1..top : with[i].cols[n].kind = KindIn(c, n)
    BY <1>8, <2>1
  <2> QED
    BY <1>5, <2>2
<1>12. CommonKind(k, kinds, top)
  <2>1. CommonKind(target(live, n), kinds, top)
    BY <1>5, <1>10, <1>11, TargetFacts
  <2> QED
    BY <1>2, <2>1
<1>13. \A i \in 1..top : kinds[i] = with[i].cols[n].kind
  OBVIOUS
<1> HIDE DEF kinds, top
<1>14. ASSUME k # "none"
       PROVE  /\ k \in Kinds
              /\ \A c \in Chunks : LiveIn(c, n) => Promotes(KindIn(c, n), k)
  BY <1>8, <1>12, <1>13, <1>14 DEF CommonKind
<1>15. ASSUME k = "none", \A c \in Chunks : LiveIn(c, n) => KindIn(c, n) \in VariantKeys
       PROVE  \E c, d \in Chunks :
                LiveIn(c, n) /\ LiveIn(d, n) /\ Class(KindIn(c, n)) # Class(KindIn(d, n))
  <2>1. \A i \in 1..top : kinds[i] \in VariantKeys
    BY <1>7, <1>13, <1>15
  <2>2. PICK i \in 1..top : \E j \in 1..top : Class(kinds[i]) # Class(kinds[j])
    BY <1>12, <1>15, <2>1 DEF CommonKind
  <2>3. PICK j \in 1..top : Class(kinds[i]) # Class(kinds[j])
    BY <2>2
  <2>4. PICK c \in Chunks : LiveIn(c, n) /\ kinds[i] = KindIn(c, n)
    BY <1>7, <1>13
  <2>5. PICK d \in Chunks : LiveIn(d, n) /\ kinds[j] = KindIn(d, n)
    BY <1>7, <1>13
  <2> QED
    BY <2>3, <2>4, <2>5
<1> QED
  BY <1>14, <1>15 DEF k

(* A promoted column has the chunk's counted cells, all of them exported.   *)
LEMMA ExportedPart ==
  ASSUME AssemblyInv, Prepared, NEW n \in ToSet(ExportOrder(engines)),
         ExportKinds(engines)[n] # "none",
         NEW j \in 1..Len(LiveIds), n \in DOMAIN LiveOf(engines)[j].cols
  PROVE  LET e == engines[LiveIds[j]]
             t == PromotedOf(engines, LiveOf(engines)[j], n)
         IN /\ Exportable(t) /\ n \in DOMAIN e.cols
            /\ Column(t).cells = [i \in 1..e.row_count |-> At(e.cols[n], i)]
<1> DEFINE c == LiveIds[j]
           e == engines[c]
           f == LiveOf(engines)[j]
           k == ExportKinds(engines)[n]
           col == f.cols[n]
           t == promote_to_variant(col, k)
<1>1. c \in Chunks /\ e.row_count > 0 /\ Normal(f, e)
  BY LiveFacts
<1>2. n \in DOMAIN e.cols /\ LiveIn(c, n) /\ e.row_count \in Nat
  <2>1. FitEngine(cfg, e)
    BY <1>1 DEF Prepared, Assembled
  <2>2. e.row_count \in Nat
    BY <2>1, EngineFacts DEF FitEngine
  <2> QED
    BY <1>1, <2>2 DEF Normal, LiveIn
<1>3. /\ Fit(col) /\ col.kind = KindIn(c, n) /\ len(col) = e.row_count
      /\ \A i \in 1..e.row_count : At(col, i) = At(e.cols[n], i)
  BY <1>1, <1>2 DEF Normal, KindIn
<1>4. Promotes(KindIn(c, n), k)
  BY <1>1, <1>2, ExportedKind
<1>5. PromotedOf(engines, f, n) = t
  BY DEF PromotedOf
<1> HIDE DEF col, k, f, c
<1>6. Promoted(t, col, k)
  BY <1>3, <1>4, PromoteKeeps
<1> HIDE DEF t
<1>7. /\ Fit(t) /\ len(t) = e.row_count
      /\ \A i \in 1..e.row_count : At(t, i) = At(e.cols[n], i)
  BY <1>3, <1>6 DEF Promoted
<1>8. Exportable(t) /\ Exported(t) = [i \in 1..len(t) |-> At(t, i)]
  BY <1>7, ExportedCells
<1>9. Column(t).cells = [i \in 1..e.row_count |-> At(e.cols[n], i)]
  BY <1>7, <1>8 DEF Column
<1> QED
  BY <1>2, <1>5, <1>8, <1>9 DEF f, c

-----------------------------------------------------------------------------
(* How a run ends.                                                          *)

(* Every column has a planned kind.                                         *)
LEMMA ColumnsPlanned ==
  ASSUME AssemblyInv, Prepared, NEW c \in Chunks
  PROVE  DOMAIN engines[c].cols \subseteq DOMAIN cfg.kinds[c]
<1>1. /\ cfg \in Configs /\ log[c] \in Seq(Logged) /\ FitEngine(cfg, engines[c])
      /\ engines[c].order = OrderFrom(log[c])
  BY TypeFacts DEF AssemblyInv, Prepared, Assembled
<1>2. PICK names \in SUBSET Names :
        /\ cfg.kinds \in Seq([names -> Kinds])
        /\ cfg.schema_order \in Seq(names) /\ cfg.filter_names \subseteq names
  BY <1>1, ConfigFacts
<1>3. \A d \in Chunks : DOMAIN cfg.kinds[d] = names
  BY <1>2 DEF Chunks
<1>4. ASSUME Projects, NEW n \in DOMAIN engines[c].cols
      PROVE  n \in names
  <2>1. n \in ToSet(cfg.schema_order) \cup cfg.filter_names
    BY <1>1, <1>4 DEF FitEngine, Wanted, Projects
  <2>2. ToSet(cfg.schema_order) \subseteq names
    BY <1>2 DEF ToSet
  <2> QED
    BY <1>2, <2>1, <2>2
<1>5. ASSUME ~Projects, NEW n \in DOMAIN engines[c].cols
      PROVE  n \in names
  <2> DEFINE fields == FieldsIn(log[c])
  <2>1. fields \in Seq(Seq(Names)) /\ Len(fields) = Len(log[c])
    BY <1>1, FieldsInAs
  <2>2. n \in ToSet(Firsts(FlattenSeq(fields)))
    BY <1>1, <1>5 DEF FitEngine, OrderFrom
  <2>3. fields = [i \in DOMAIN log[c] |-> FieldsOf(log[c][i].vals)]
    BY DEF FieldsIn
  <2> HIDE DEF fields
  <2>4. n \in ToSet(FlattenSeq(fields))
    BY <2>1, <2>2, FlattenAll, FirstsFacts
  <2>5. PICK i \in 1..Len(log[c]) : n \in ToSet(fields[i])
    BY <2>1, <2>4, FlattenAll
  <2>6. log[c][i] \in Logged /\ i \in DOMAIN log[c]
    BY <1>1, <2>5
  <2>7. fields[i] = FieldsOf(log[c][i].vals) /\ log[c][i].vals \in Rows
    BY <2>3, <2>6 DEF Logged
  <2>8. n \in DOMAIN log[c][i].vals
    BY <2>5, <2>7, FieldsTyped
  <2>9. DOMAIN log[c][i].vals \subseteq AllNames
    BY <2>7 DEF Rows
  <2> QED
    BY <1>3, <2>8, <2>9 DEF AllNames
<1> QED
  BY <1>3, <1>4, <1>5

\* Some chunk has a strict violation.
AnyStrict == \E c \in Chunks : engines[c].strict_error

(* A column has kept the class of the kind that was planned.                *)
LEMMA PlainKinds ==
  ASSUME AssemblyInv, Prepared, PlainPlan(cfg), NEW c \in Chunks, NEW n \in DOMAIN engines[c].cols
  PROVE  /\ KindIn(c, n) \in VariantKeys /\ Class(KindIn(c, n)) = Class(cfg.kinds[c][n])
         /\ cfg.kinds[c][n] \in VariantKeys /\ cfg.kinds[c][n] \in Kinds
<1>1. cfg.kinds[c][n] \in VariantKeys
  BY ColumnsPlanned DEF PlainPlan, Chunks
<1>2. Promotes(cfg.kinds[c][n], KindIn(c, n))
  BY DEF Prepared, Assembled, Grown, KindIn
<1> QED
  BY <1>1, <1>2, PromotesFacts DEF VariantKeys

\* Two chunks with rows have a column that no kind can hold.
LiveClash ==
  \E c, d \in Chunks : \E n :
    LiveIn(c, n) /\ LiveIn(d, n) /\ Class(cfg.kinds[c][n]) # Class(cfg.kinds[d][n])

(* The fields that a filter compares are exported.                          *)
LEMMA FilterExported ==
  ASSUME AssemblyInv, Prepared, PlainPlan(cfg), ExportOrder(engines) # <<>>
  PROVE  apply_compare_filter(ExportOrder(engines))
<1> SUFFICES ASSUME cfg.compare_filter
             PROVE  cfg.filter_names \subseteq ToSet(ExportOrder(engines))
  BY DEF apply_compare_filter
<1>1. cfg.schema_order # <<>> /\ cfg.filter_names \subseteq ToSet(cfg.schema_order)
  BY DEF PlainPlan
<1> DEFINE order == ExportOrder(engines)
<1>2. order \in Seq(Names) /\ \A n : n \in ToSet(order) <=> \E c \in Chunks : LiveIn(c, n)
  BY ExportedColumns
<1> HIDE DEF order
<1>3. order # <<>>
  BY DEF order
<1>4. PICK n : n \in ToSet(order)
  <2>1. 1 \in DOMAIN order
    BY <1>2, <1>3
  <2> QED
    BY <2>1 DEF ToSet
<1>5. PICK c \in Chunks : LiveIn(c, n)
  BY <1>2, <1>4
<1>6. ToSet(cfg.schema_order) \subseteq DOMAIN engines[c].cols
  BY <1>1 DEF Prepared, Assembled, FitEngine
<1>7. \A m \in ToSet(cfg.schema_order) : LiveIn(c, m)
  BY <1>5, <1>6 DEF LiveIn
<1> QED
  BY <1>1, <1>2, <1>7 DEF order

(* The builders are exported unless a violation is strict or kinds clash.   *)
LEMMA ExportOutcome ==
  ASSUME AssemblyInv, Prepared, PlainPlan(cfg)
  PROVE  engines_to_record_batches(engines).ok <=> ~AnyStrict /\ ~LiveClash
<1> DEFINE order == ExportOrder(engines)
           kind == ExportKinds(engines)
<1>1. engines_to_record_batches(engines).ok <=> ~Unexportable(engines)
  BY ExportAs DEF Failed
<1>2. DOMAIN engines = Chunks
  BY DEF AssemblyInv, AssemblyTypeOK
<1>3. ASSUME NEW n \in ToSet(order)
      PROVE  kind[n] = "none" <=>
               \E c, d \in Chunks :
                 LiveIn(c, n) /\ LiveIn(d, n) /\ Class(cfg.kinds[c][n]) # Class(cfg.kinds[d][n])
  <2>1. \A c \in Chunks : LiveIn(c, n) =>
          KindIn(c, n) \in VariantKeys /\ Class(KindIn(c, n)) = Class(cfg.kinds[c][n])
    BY PlainKinds DEF LiveIn
  <2>2. ASSUME kind[n] = "none"
        PROVE  \E c, d \in Chunks :
                 LiveIn(c, n) /\ LiveIn(d, n) /\ Class(cfg.kinds[c][n]) # Class(cfg.kinds[d][n])
    <3>1. PICK c \in Chunks : \E d \in Chunks :
            LiveIn(c, n) /\ LiveIn(d, n) /\ Class(KindIn(c, n)) # Class(KindIn(d, n))
      BY <2>1, <2>2, ExportedKind
    <3>2. PICK d \in Chunks :
            LiveIn(c, n) /\ LiveIn(d, n) /\ Class(KindIn(c, n)) # Class(KindIn(d, n))
      BY <3>1
    <3> QED
      BY <2>1, <3>2
  <2>3. ASSUME kind[n] # "none", NEW c \in Chunks, NEW d \in Chunks, LiveIn(c, n), LiveIn(d, n)
        PROVE  Class(cfg.kinds[c][n]) = Class(cfg.kinds[d][n])
    <3>1. Promotes(KindIn(c, n), kind[n]) /\ Promotes(KindIn(d, n), kind[n])
      BY <2>3, ExportedKind
    <3>2. Class(KindIn(c, n)) = Class(kind[n]) /\ Class(KindIn(d, n)) = Class(kind[n])
      BY <3>1, PromotesFacts
    <3> QED
      BY <2>1, <2>3, <3>2
  <2> QED
    BY <2>2, <2>3
<1>4. (\E n \in ToSet(order) : kind[n] = "none") <=> LiveClash
  BY <1>3, ExportedColumns DEF LiveClash
<1>5. ASSUME ~LiveClash, NEW i \in DOMAIN LiveOf(engines), NEW n \in DOMAIN LiveOf(engines)[i].cols
      PROVE  Exportable(PromotedOf(engines, LiveOf(engines)[i], n))
  <2>1. /\ i \in 1..Len(LiveIds) /\ LiveIds[i] \in Chunks /\ engines[LiveIds[i]].row_count > 0
        /\ Normal(LiveOf(engines)[i], engines[LiveIds[i]])
    BY LiveFacts
  <2>2. LiveIn(LiveIds[i], n)
    BY <2>1 DEF Normal, LiveIn
  <2>3. n \in ToSet(order)
    BY <2>1, <2>2, ExportedColumns
  <2>4. kind[n] # "none"
    BY <1>4, <1>5, <2>3
  <2> QED
    BY <2>1, <2>3, <2>4, ExportedPart
<1>6. (\E i \in DOMAIN engines : engines[i].strict_error) <=> AnyStrict
  BY <1>2 DEF AnyStrict
<1> QED
  BY <1>1, <1>4, <1>5, <1>6, FilterExported DEF Unexportable

-----------------------------------------------------------------------------
(* Merging builders.                                                        *)

\* What a merged builder has of a builder.
Core(a) ==
  [cols |-> a.cols, order |-> a.order, row_count |-> a.row_count, strict_error |-> a.strict_error]

WrapOf(e, c) ==
  [cols |-> e.cols, order |-> e.order, row_count |-> e.row_count,
   strict_error |-> e.strict_error, conflict |-> FALSE, planned |-> cfg.kinds[c]]

Mergings ==
  {x \in [cols : Tables, order : Seq(Names), row_count : Nat, strict_error : BOOLEAN,
          conflict : BOOLEAN, planned : ToSet(cfg.kinds)] : SoundEngine(cfg, Core(x))}

\* The mergings t and a differ in their builders only.
SameMerging(t, a) == t.conflict = a.conflict /\ t.planned = a.planned

(* The fields of a merged builder.                                          *)
LEMMA MergingFacts ==
  ASSUME NEW a \in Mergings
  PROVE  /\ a = [cols |-> a.cols, order |-> a.order, row_count |-> a.row_count,
                 strict_error |-> a.strict_error, conflict |-> a.conflict,
                 planned |-> a.planned]
         /\ SoundEngine(cfg, Core(a)) /\ Core(a) \in Engines
         /\ Core(a).cols = a.cols /\ Core(a).order = a.order
         /\ Core(a).row_count = a.row_count /\ Core(a).strict_error = a.strict_error
         /\ a.row_count \in Nat /\ a.order \in Seq(Names) /\ a.strict_error \in BOOLEAN
         /\ a.conflict \in BOOLEAN /\ a.planned \in ToSet(cfg.kinds)
  BY DEF Mergings, Core, SoundEngine

(* A builder that is sound makes a merging.                                 *)
LEMMA MergingMade ==
  ASSUME NEW e, SoundEngine(cfg, e), NEW conflict \in BOOLEAN, NEW planned \in ToSet(cfg.kinds)
  PROVE  LET a == [cols |-> e.cols, order |-> e.order, row_count |-> e.row_count,
                   strict_error |-> e.strict_error, conflict |-> conflict, planned |-> planned]
         IN a \in Mergings /\ Core(a) = e
<1> DEFINE a == [cols |-> e.cols, order |-> e.order, row_count |-> e.row_count,
                 strict_error |-> e.strict_error, conflict |-> conflict, planned |-> planned]
<1>1. e \in Engines
  BY DEF SoundEngine
<1>2. /\ e.cols \in Tables /\ e.order \in Seq(Names) /\ e.row_count \in Nat
      /\ e.strict_error \in BOOLEAN
      /\ e = [cols |-> e.cols, order |-> e.order, row_count |-> e.row_count,
              strict_error |-> e.strict_error]
  BY <1>1, EngineFacts
<1>3. Core(a) = e
  BY <1>2 DEF Core
<1>4. a \in Mergings
  BY <1>2, <1>3 DEF Mergings
<1> QED
  BY <1>3, <1>4

(* The operations on a builder leave the rest of a merging.                 *)
LEMMA MergingEnsure ==
  ASSUME NEW a \in Mergings, NEW n \in Names, Wanted(cfg, n), NEW kind \in Kinds
  PROVE  LET w == ensure_column(a, n, kind)
         IN /\ w \in Mergings /\ SameMerging(w, a)
            /\ Ensured(Core(w), Core(a), n, kind)
            /\ w.order = New1(a.order, n) /\ w.strict_error = a.strict_error
<1> DEFINE w == ensure_column(a, n, kind)
           e == Core(a)
           f == ensure_column(e, n, kind)
<1>1. /\ a = [cols |-> a.cols, order |-> a.order, row_count |-> a.row_count,
              strict_error |-> a.strict_error, conflict |-> a.conflict, planned |-> a.planned]
      /\ SoundEngine(cfg, e) /\ e \in Engines /\ a.conflict \in BOOLEAN
      /\ a.planned \in ToSet(cfg.kinds)
      /\ e.cols = a.cols /\ e.order = a.order /\ e.row_count = a.row_count
      /\ e.strict_error = a.strict_error
  BY MergingFacts
<1>2. Ensured(f, e, n, kind)
  BY <1>1, EnsureColumn
<1>3. f.order = New1(e.order, n)
  BY <1>1, EnsureOrder DEF SoundEngine
<1>4. /\ w = [cols |-> f.cols, order |-> f.order, row_count |-> f.row_count,
              strict_error |-> f.strict_error, conflict |-> a.conflict, planned |-> a.planned]
      /\ f.strict_error = a.strict_error
  <2>1. CASE n \in DOMAIN a.cols
    BY <1>1, <2>1 DEF ensure_column
  <2>2. CASE n \notin DOMAIN a.cols
    <3> DEFINE cols == [m \in DOMAIN a.cols \cup {n} |->
                          IF m = n THEN Nulls(new_column(kind), a.row_count) ELSE a.cols[m]]
               order == Append(a.order, n)
    <3>1. w = [a EXCEPT !.cols = cols, !.order = order]
      BY <1>1, <2>2 DEF ensure_column
    <3>2. f = [e EXCEPT !.cols = cols, !.order = order]
      BY <1>1, <2>2 DEF ensure_column
    <3>3. e = [cols |-> a.cols, order |-> a.order, row_count |-> a.row_count,
               strict_error |-> a.strict_error]
      BY DEF Core
    <3> HIDE DEF cols, order, w, f, e
    <3>4. f = [cols |-> cols, order |-> order, row_count |-> a.row_count,
               strict_error |-> a.strict_error]
      BY <3>2, <3>3
    <3>5. w = [cols |-> cols, order |-> order, row_count |-> a.row_count,
               strict_error |-> a.strict_error, conflict |-> a.conflict, planned |-> a.planned]
      BY <1>1, <3>1
    <3> QED
      BY <3>4, <3>5
  <2> QED
    BY <2>1, <2>2
<1> HIDE DEF w, f, e
<1>5. SoundEngine(cfg, f)
  BY <1>2 DEF Ensured
<1>6. w \in Mergings /\ Core(w) = f
  BY <1>1, <1>4, <1>5, MergingMade
<1>7. SameMerging(w, a) /\ w.order = f.order /\ w.strict_error = f.strict_error
  BY <1>4 DEF SameMerging
<1> QED
  BY <1>1, <1>2, <1>3, <1>4, <1>6, <1>7 DEF w, e

(* A merging without rows that were never ended.                            *)
LEMMA MergingNormal ==
  ASSUME NEW a \in Mergings
  PROVE  LET t == normalize(a)
         IN t \in Mergings /\ SameMerging(t, a) /\ Normal(Core(t), Core(a))
            /\ \A n \in DOMAIN a.cols : n \in DOMAIN t.cols /\ Sound(t.cols[n])
<1> DEFINE t == normalize(a)
           e == Core(a)
           f == normalize(e)
           cols == [n \in DOMAIN a.cols |-> Popped(a.cols[n], len(a.cols[n]) - a.row_count)]
<1>1. /\ a = [cols |-> a.cols, order |-> a.order, row_count |-> a.row_count,
              strict_error |-> a.strict_error, conflict |-> a.conflict, planned |-> a.planned]
      /\ SoundEngine(cfg, e) /\ e \in Engines /\ a.conflict \in BOOLEAN
      /\ a.planned \in ToSet(cfg.kinds)
      /\ e.cols = a.cols /\ e.order = a.order /\ e.row_count = a.row_count
      /\ e.strict_error = a.strict_error
  BY MergingFacts
<1>2. Normal(f, e)
  BY <1>1, SoundEngineFit, NormalizeFits
<1>3. SoundEngine(cfg, f)
  <2>1. SameRows(f, e)
    BY <1>1, NormalizeLeavesRows
  <2> QED
    BY <2>1 DEF SameRows
<1>4. t = [cols |-> f.cols, order |-> f.order, row_count |-> f.row_count,
           strict_error |-> f.strict_error, conflict |-> a.conflict, planned |-> a.planned]
  <2>1. t = [a EXCEPT !.cols = cols]
    BY DEF normalize
  <2>2. f = [e EXCEPT !.cols = cols]
    BY <1>1 DEF normalize
  <2>3. e = [cols |-> a.cols, order |-> a.order, row_count |-> a.row_count,
             strict_error |-> a.strict_error]
    BY DEF Core
  <2> HIDE DEF cols, t, f, e
  <2>4. f = [cols |-> cols, order |-> a.order, row_count |-> a.row_count,
             strict_error |-> a.strict_error]
    BY <2>2, <2>3
  <2>5. t = [cols |-> cols, order |-> a.order, row_count |-> a.row_count,
             strict_error |-> a.strict_error, conflict |-> a.conflict, planned |-> a.planned]
    BY <1>1, <2>1
  <2> QED
    BY <2>4, <2>5
<1> HIDE DEF t, f, e
<1>5. t \in Mergings /\ Core(t) = f
  BY <1>1, <1>3, <1>4, MergingMade
<1>6. SameMerging(t, a) /\ t.cols = f.cols
  BY <1>4 DEF SameMerging
<1>7. \A n \in DOMAIN a.cols : n \in DOMAIN t.cols /\ Sound(t.cols[n])
  BY <1>1, <1>2, <1>3, <1>6 DEF Normal, SoundEngine
<1> QED
  BY <1>2, <1>5, <1>6, <1>7 DEF t, e

\* The merging with a column for each name of an order.
WidenedOf(a, order, planned) ==
  LET widened[i \in 0..Len(order)] ==
        IF i = 0 THEN a ELSE ensure_column(widened[i - 1], order[i], planned[order[i]])
  IN widened[Len(order)]

IsWidening(run, a, order, planned) ==
  /\ run[0] = a /\ WidenedOf(a, order, planned) = run[Len(order)]
  /\ \A i \in 1..Len(order) : run[i] = ensure_column(run[i - 1], order[i], planned[order[i]])

\* The order names wanted columns of a planned kind.
Declares(order, planned) ==
  /\ order \in Seq(Names)
  /\ \A i \in 1..Len(order) : Wanted(cfg, order[i]) /\ planned[order[i]] \in Kinds

LEMMA WideningExists ==
  ASSUME NEW a \in Mergings, NEW order, NEW planned, Declares(order, planned)
  PROVE  \E run : IsWidening(run, a, order, planned)
<1> DEFINE top == Len(order)
           Eqn(r) == r = [i \in 0..top |->
             IF i = 0 THEN a ELSE ensure_column(r[i - 1], order[i], planned[order[i]])]
           step == [i \in 1..top |->
             [x \in Mergings |-> ensure_column(x, order[i], planned[order[i]])]]
           run == CHOOSE r : Eqn(r)
<1>1. WidenedOf(a, order, planned) = run[top]
  BY DEF WidenedOf
<1> HIDE DEF run
<1>2. /\ top \in Nat
      /\ \A i \in 1..top : order[i] \in Names /\ Wanted(cfg, order[i]) /\ planned[order[i]] \in Kinds
  BY DEF Declares
<1> HIDE DEF top
<1>3. step \in Steps(top, Mergings)
  <2>1. ASSUME NEW i \in 1..top, NEW x \in Mergings
        PROVE  ensure_column(x, order[i], planned[order[i]]) \in Mergings
    BY <1>2, MergingEnsure
  <2> QED
    BY <2>1 DEF Steps
<1> HIDE DEF step
<1>4. PICK g : IsRecursion(g, top, Mergings, a, step)
  BY <1>2, <1>3, RecursionExists
<1>5. Eqn(g)
  <2>1. ASSUME NEW i \in 0..top
        PROVE  g[i] = IF i = 0 THEN a ELSE ensure_column(g[i - 1], order[i], planned[order[i]])
    <3>1. CASE i = 0
      BY <1>4, <3>1 DEF IsRecursion
    <3>2. CASE i # 0
      <4>1. i \in 1..top /\ i - 1 \in 0..top
        BY <1>2, <3>2
      <4>2. g[i - 1] \in Mergings /\ g[i] = step[i][g[i - 1]]
        BY <1>4, <3>2, <4>1 DEF IsRecursion
      <4> QED
        BY <3>2, <4>1, <4>2 DEF step
    <3> QED
      BY <3>1, <3>2
  <2>2. g = [i \in 0..top |-> g[i]]
    BY <1>4 DEF IsRecursion
  <2> QED
    BY <2>1, <2>2
<1>6. Eqn(run)
  BY <1>5 DEF run
<1>7. run[0] = a /\ \A i \in 1..top : run[i] = ensure_column(run[i - 1], order[i], planned[order[i]])
  BY <1>2, <1>6
<1> QED
  BY <1>1, <1>7 DEF IsWidening, top

\* The merging w is a with a column, null so far, for every name in s.
Widens(w, a, s, planned) ==
  /\ w \in Mergings /\ SameMerging(w, a)
  /\ w.row_count = a.row_count /\ w.strict_error = a.strict_error
  /\ DOMAIN w.cols = DOMAIN a.cols \cup ToSet(s)
  /\ \A n \in DOMAIN a.cols : w.cols[n] = a.cols[n]
  /\ \A n \in ToSet(s) : n \notin DOMAIN a.cols =>
       NullColumn(w.cols[n], planned[n], a.row_count)
  /\ Unrepeated(a.order) => w.order = Firsts(Joined(a.order, s))

(* Every column that is missing is added once, null so far.                 *)
LEMMA WidenFacts ==
  ASSUME NEW a \in Mergings, NEW order, NEW planned, Declares(order, planned)
  PROVE  Widens(WidenedOf(a, order, planned), a, order, planned)
<1> DEFINE top == Len(order)
           Upto(k) == [i \in 1..k |-> order[i]]
<1>1. /\ top \in Nat /\ order \in Seq(Names)
      /\ \A i \in 1..top : order[i] \in Names /\ Wanted(cfg, order[i]) /\ planned[order[i]] \in Kinds
  BY DEF Declares
<1>2. PICK run : IsWidening(run, a, order, planned)
  BY WideningExists
<1>3. a.order \in Seq(Names)
  BY MergingFacts
<1> DEFINE K == {k \in 0..top : Widens(run[k], a, Upto(k), planned)}
<1>4. 0 \in K
  <2>1. run[0] = a /\ Upto(0) = <<>>
    BY <1>2 DEF IsWidening
  <2>2. ToSet(<<>>) = {}
    BY DEF ToSet
  <2>3. Unrepeated(a.order) => a.order = Firsts(Joined(a.order, <<>>))
    <3> DEFINE o == a.order
    <3>1. o \in Seq(Names)
      BY <1>3
    <3> HIDE DEF o
    <3>2. Unrepeated(o) => Firsts(o) = o
      BY <3>1, FirstsFacts
    <3>3. Joined(o, <<>>) = o
      BY <3>1 DEF Joined
    <3> QED
      BY <3>2, <3>3 DEF o
  <2>4. Widens(a, a, <<>>, planned)
    BY <2>2, <2>3 DEF Widens, SameMerging
  <2> QED
    BY <1>1, <2>1, <2>4
<1>5. ASSUME NEW k \in Nat, k < top, k \in K
      PROVE  k + 1 \in K
  <2> DEFINE m == k + 1
             n == order[m]
             x == run[k]
             y == run[m]
             s == Upto(k)
             t == Upto(m)
             kind == planned[n]
  <2>1. m \in 1..top /\ m \in 0..top /\ m - 1 = k /\ k \in 0..top
    BY <1>1, <1>5
  <2>2. Widens(x, a, s, planned)
    BY <1>5
  <2>3. n \in Names /\ Wanted(cfg, n) /\ kind \in Kinds
    BY <1>1, <2>1
  <2>4. y = ensure_column(x, n, kind)
    BY <1>2, <2>1 DEF IsWidening
  <2>5. s \in Seq(Names) /\ t = Append(s, n)
    <3>1. \A i \in 1..m : order[i] \in Names
      BY <1>1, <2>1
    <3>2. s \in Seq(Names) /\ Len(s) = k
      BY <3>1
    <3> QED
      BY <3>1, <3>2
  <2> HIDE DEF m, n, x, y, s, t, kind, Upto
  <2>6. /\ y \in Mergings /\ SameMerging(y, x) /\ Ensured(Core(y), Core(x), n, kind)
        /\ y.order = New1(x.order, n) /\ y.strict_error = x.strict_error
    BY <2>2, <2>3, <2>4, MergingEnsure DEF Widens
  <2>7. /\ y.row_count = x.row_count /\ DOMAIN y.cols = DOMAIN x.cols \cup {n}
        /\ \A j \in DOMAIN x.cols : y.cols[j] = x.cols[j]
        /\ n \notin DOMAIN x.cols => NullColumn(y.cols[n], kind, x.row_count)
    BY <2>2, <2>6, MergingFacts DEF Ensured, Widens
  <2>8. ToSet(t) = ToSet(s) \cup {n}
    BY <2>3, <2>5, ToSetMore
  <2>9. ASSUME Unrepeated(a.order)
        PROVE  y.order = Firsts(Joined(a.order, t))
    <3>1. Joined(a.order, t) = Append(Joined(a.order, s), n) /\ Joined(a.order, s) \in Seq(Names)
      BY <1>3, <2>3, <2>5, JoinedMore
    <3> DEFINE j == Joined(a.order, s)
    <3> HIDE DEF j
    <3>2. Firsts(Append(j, n)) = New1(Firsts(j), n)
      BY <2>3, <3>1, FirstsMore DEF j
    <3> QED
      BY <2>2, <2>6, <2>9, <3>1, <3>2 DEF Widens, j
  <2>10. ASSUME NEW j \in ToSet(t), j \notin DOMAIN a.cols
         PROVE  NullColumn(y.cols[j], planned[j], a.row_count)
    <3>1. CASE j \in DOMAIN x.cols
      BY <2>2, <2>7, <2>8, <2>10, <3>1 DEF Widens
    <3>2. CASE j \notin DOMAIN x.cols
      BY <2>2, <2>7, <2>8, <2>10, <3>2 DEF Widens, kind
    <3> QED
      BY <3>1, <3>2
  <2>11. Widens(y, a, t, planned)
    BY <2>2, <2>6, <2>7, <2>8, <2>9, <2>10 DEF Widens, SameMerging
  <2> QED
    BY <2>1, <2>11 DEF m, y, t
<1>6. \A k \in 0..top : k \in K
  <2> HIDE DEF K
  <2> QED
    BY <1>1, <1>4, <1>5, IntervalInduction
<1>7. Widens(run[top], a, Upto(top), planned)
  <2>1. top \in 0..top
    BY <1>1
  <2> QED
    BY <1>6, <2>1
<1>8. Upto(top) = order
  BY <1>1
<1> HIDE DEF Upto
<1>9. Widens(run[top], a, order, planned)
  BY <1>7, <1>8
<1>10. run[top] = WidenedOf(a, order, planned)
  BY <1>2 DEF IsWidening
<1> QED
  BY <1>9, <1>10

\* The parts of extend: the common kind of column n, and what is made of it.
KindOf(w, m, n) ==
  IF w.cols[n].kind = m.cols[n].kind THEN m.cols[n].kind
  ELSE unify_variants(w.cols[n].kind, m.cols[n].kind)

JoinedCol(w, m, n) ==
  IF n \in DOMAIN m.cols
    THEN extend_owned(promote_to_variant(w.cols[n], KindOf(w, m, n)),
                      promote_to_variant(m.cols[n], KindOf(w, m, n)))
    ELSE Nulls(w.cols[n], m.row_count)

WideOf(a, b) == WidenedOf(normalize(a), normalize(b).order, b.planned)

LEMMA ExtendAs ==
  ASSUME NEW a, NEW b
  PROVE  LET m == normalize(b)
             w == WideOf(a, b)
         IN extend(a, b) =
              IF a.conflict \/ \E n \in DOMAIN m.cols : KindOf(w, m, n) = "none"
                THEN [a EXCEPT !.conflict = TRUE]
              ELSE [w EXCEPT !.cols = [n \in DOMAIN @ |-> JoinedCol(w, m, n)],
                             !.row_count = @ + m.row_count,
                             !.strict_error = @ \/ b.strict_error]
  BY DEF extend, WideOf, WidenedOf, KindOf, JoinedCol

\* The column t has the cells of u and then those of v, in a kind both may take.
JoinsTo(t, u, v) ==
  /\ Sound(t) /\ Promotes(u.kind, t.kind) /\ Promotes(v.kind, t.kind)
  /\ len(t) = len(u) + len(v)
  /\ \A i \in 1..len(u) : At(t, i) = At(u, i)
  /\ \A i \in 1..len(v) : At(t, len(u) + i) = At(v, i)

(* Two columns that can share a kind are joined in it.                      *)
LEMMA JoinColumns ==
  ASSUME NEW u, Sound(u), NEW v, Sound(v), NEW k, k # "none",
         k = IF u.kind = v.kind THEN v.kind ELSE unify_variants(u.kind, v.kind)
  PROVE  JoinsTo(extend_owned(promote_to_variant(u, k), promote_to_variant(v, k)), u, v)
<1> DEFINE p == promote_to_variant(u, k)
           q == promote_to_variant(v, k)
           t == extend_owned(p, q)
<1>1. u.kind \in Kinds /\ v.kind \in Kinds
  BY StorageFacts DEF Sound
<1>2. Promotes(u.kind, k) /\ Promotes(v.kind, k)
  <2>1. CASE u.kind = v.kind
    BY <2>1, PromotesFacts
  <2>2. CASE u.kind # v.kind
    BY <1>1, <2>2, ClassFacts
  <2> QED
    BY <2>1, <2>2
<1>3. Promoted(p, u, k) /\ Promoted(q, v, k)
  BY <1>2, PromoteKeeps, SoundFit
<1> HIDE DEF p, q
<1>4. Sound(p) /\ Sound(q) /\ p.kind = k /\ q.kind = k
  BY <1>3 DEF Promoted
<1>5. Appended(t, p, q)
  BY <1>4, ExtendAppends
<1> HIDE DEF t
<1>6. JoinsTo(t, u, v)
  BY <1>2, <1>3, <1>4, <1>5 DEF Promoted, Appended, JoinsTo
<1> QED
  BY <1>6 DEF t, p, q

\* The cell of a builder in a column that it may not have.
CellAt(e, n, i) == IF n \in DOMAIN e.cols THEN At(e.cols[n], i) ELSE Null

\* The column t has the rows of a and then those of e.
ColumnExtends(t, a, e, n) ==
  /\ Sound(t) /\ len(t) = a.row_count + e.row_count
  /\ n \in DOMAIN a.cols => Promotes(a.cols[n].kind, t.kind)
  /\ n \in DOMAIN e.cols => Promotes(e.cols[n].kind, t.kind)
  /\ \A i \in 1..a.row_count : At(t, i) = CellAt(a, n, i)
  /\ \A i \in 1..e.row_count : At(t, a.row_count + i) = CellAt(e, n, i)

\* The merging t has the rows of a and then those of the builder e.
Extended(t, a, e) ==
  /\ t \in Mergings /\ SameMerging(t, a) /\ t.row_count = a.row_count + e.row_count
  /\ t.strict_error = (a.strict_error \/ e.strict_error)
  /\ DOMAIN t.cols = DOMAIN a.cols \cup DOMAIN e.cols
  /\ Unrepeated(a.order) => t.order = Firsts(Joined(a.order, e.order))
  /\ \A n \in DOMAIN t.cols : ColumnExtends(t.cols[n], a, e, n)

\* Kinds that no column can hold together keep a builder from being appended.
ExtendsOrClashes(t, a, e) ==
  \/ /\ t \in Mergings /\ t.conflict
     /\ \E n \in DOMAIN a.cols \cap DOMAIN e.cols : Class(a.cols[n].kind) # Class(e.cols[n].kind)
  \/ ~t.conflict /\ Extended(t, a, e)

(* extend appends the rows of a builder, unless kinds clash.                *)
LEMMA ExtendBuilder ==
  ASSUME cfg \in Configs, NEW a \in Mergings, ~a.conflict, NEW c \in Chunks,
         NEW e, SoundEngine(cfg, e), Grown(cfg, c, e),
         \A n \in DOMAIN e.cols : cfg.kinds[c][n] \in VariantKeys,
         \A n \in DOMAIN a.cols : a.cols[n].kind \in VariantKeys
  PROVE  ExtendsOrClashes(extend(a, WrapOf(e, c)), a, e)
<1> DEFINE b == WrapOf(e, c)
           m == normalize(b)
           x == normalize(a)
           planned == cfg.kinds[c]
           w == WideOf(a, b)
           t == extend(a, b)
<1>1. b \in Mergings /\ Core(b) = e /\ b.planned = planned /\ b.strict_error = e.strict_error
  <2>1. planned \in ToSet(cfg.kinds)
    BY DEF ToSet, Chunks
  <2> QED
    BY <2>1, MergingMade DEF WrapOf
<1>2. e \in Engines /\ e.row_count \in Nat /\ e.order \in Seq(Names) /\ DOMAIN e.cols \in SUBSET Names
      /\ DOMAIN e.cols = ToSet(e.order)
  BY EngineFacts DEF SoundEngine
<1> HIDE DEF b
<1>3. /\ m.order = e.order /\ m.row_count = e.row_count /\ DOMAIN m.cols = DOMAIN e.cols
      /\ \A n \in DOMAIN e.cols :
           /\ Sound(m.cols[n]) /\ m.cols[n].kind = e.cols[n].kind /\ len(m.cols[n]) = e.row_count
           /\ \A i \in 1..e.row_count : At(m.cols[n], i) = At(e.cols[n], i)
  <2>1. m \in Mergings /\ Normal(Core(m), e)
        /\ \A n \in DOMAIN b.cols : n \in DOMAIN m.cols /\ Sound(m.cols[n])
    BY <1>1, MergingNormal
  <2>2. /\ Core(m).cols = m.cols /\ Core(m).order = m.order /\ Core(m).row_count = m.row_count
        /\ b.cols = e.cols
    BY <1>1, <2>1, MergingFacts
  <2> HIDE DEF m
  <2> QED
    BY <2>1, <2>2 DEF Normal
<1>4. /\ x \in Mergings /\ SameMerging(x, a) /\ x.order = a.order /\ x.row_count = a.row_count
      /\ x.strict_error = a.strict_error /\ DOMAIN x.cols = DOMAIN a.cols
      /\ \A n \in DOMAIN a.cols :
           /\ Sound(x.cols[n]) /\ x.cols[n].kind = a.cols[n].kind /\ len(x.cols[n]) = a.row_count
           /\ \A i \in 1..a.row_count : At(x.cols[n], i) = At(a.cols[n], i)
  <2>1. x \in Mergings /\ SameMerging(x, a) /\ Normal(Core(x), Core(a))
        /\ \A n \in DOMAIN a.cols : n \in DOMAIN x.cols /\ Sound(x.cols[n])
    BY MergingNormal
  <2>2. /\ Core(x).cols = x.cols /\ Core(x).order = x.order /\ Core(x).row_count = x.row_count
        /\ Core(x).strict_error = x.strict_error
    BY <2>1, MergingFacts
  <2>3. /\ Core(a).cols = a.cols /\ Core(a).order = a.order /\ Core(a).row_count = a.row_count
        /\ Core(a).strict_error = a.strict_error
    BY MergingFacts
  <2> HIDE DEF x
  <2> QED
    BY <2>1, <2>2, <2>3 DEF Normal
<1>5. \A n \in DOMAIN e.cols :
        planned[n] \in VariantKeys /\ Promotes(planned[n], e.cols[n].kind)
  BY DEF Grown
<1>6. Declares(e.order, planned)
  <2>1. ASSUME NEW i \in 1..Len(e.order)
        PROVE  Wanted(cfg, e.order[i]) /\ planned[e.order[i]] \in Kinds
    <3>1. e.order[i] \in DOMAIN e.cols
      BY <1>2 DEF ToSet
    <3> HIDE DEF planned
    <3> QED
      BY <1>5, <3>1, PromotesFacts DEF SoundEngine
  <2> QED
    BY <1>2, <2>1 DEF Declares
<1> HIDE DEF planned
<1>7. Widens(w, x, e.order, planned)
  <2>1. w = WidenedOf(x, e.order, planned)
    BY <1>1, <1>3 DEF WideOf
  <2> QED
    BY <1>4, <1>6, <2>1, WidenFacts
<1>8. t = IF a.conflict \/ \E n \in DOMAIN m.cols : KindOf(w, m, n) = "none"
            THEN [a EXCEPT !.conflict = TRUE]
          ELSE [w EXCEPT !.cols = [n \in DOMAIN @ |-> JoinedCol(w, m, n)],
                         !.row_count = @ + m.row_count,
                         !.strict_error = @ \/ b.strict_error]
  BY ExtendAs
<1> HIDE DEF w, m, x, t
<1>9. /\ DOMAIN w.cols = DOMAIN a.cols \cup DOMAIN e.cols
      /\ w \in Mergings /\ w.row_count = a.row_count /\ w.strict_error = a.strict_error
      /\ SameMerging(w, a) /\ a.row_count \in Nat
  BY <1>2, <1>4, <1>7, MergingFacts DEF Widens, SameMerging
<1>10. ASSUME NEW n \in DOMAIN w.cols
       PROVE  /\ Sound(w.cols[n]) /\ len(w.cols[n]) = a.row_count
              /\ \A i \in 1..a.row_count : At(w.cols[n], i) = CellAt(a, n, i)
              /\ n \in DOMAIN a.cols => w.cols[n].kind = a.cols[n].kind
              /\ n \notin DOMAIN a.cols => w.cols[n].kind = planned[n] /\ n \in DOMAIN e.cols
  <2>1. CASE n \in DOMAIN a.cols
    <3>1. w.cols[n] = x.cols[n]
      BY <1>4, <1>7, <2>1 DEF Widens
    <3> QED
      BY <1>4, <2>1, <3>1 DEF CellAt
  <2>2. CASE n \notin DOMAIN a.cols
    <3>1. n \in DOMAIN e.cols
      BY <1>9, <2>2
    <3>2. NullColumn(w.cols[n], planned[n], a.row_count)
      BY <1>2, <1>4, <1>7, <2>2, <3>1 DEF Widens
    <3> QED
      BY <2>2, <3>1, <3>2 DEF NullColumn, CellAt
  <2> QED
    BY <2>1, <2>2
<1>11. CASE \E n \in DOMAIN m.cols : KindOf(w, m, n) = "none"
  <2>1. PICK n \in DOMAIN m.cols : KindOf(w, m, n) = "none"
    BY <1>11
  <2>2. n \in DOMAIN e.cols /\ n \in DOMAIN w.cols /\ m.cols[n].kind = e.cols[n].kind
    BY <1>3, <1>9, <2>1
  <2> DEFINE j == w.cols[n].kind
             k == e.cols[n].kind
  <2>3. j \in Kinds /\ k \in Kinds
    <3>1. Sound(w.cols[n]) /\ Sound(m.cols[n])
      BY <1>3, <1>10, <2>2
    <3> QED
      BY <2>2, <3>1, StorageFacts DEF Sound
  <2>4. k \in VariantKeys /\ Class(planned[n]) = Class(k)
    BY <1>5, <2>2, PromotesFacts
  <2>5. unify_variants(j, k) = "none"
    BY <2>1, <2>2, <2>3, PromotesFacts DEF KindOf
  <2>6. ASSUME n \notin DOMAIN a.cols
        PROVE  FALSE
    <3>1. j = planned[n] /\ j \in VariantKeys
      BY <1>5, <1>10, <2>2, <2>6
    <3> QED
      BY <2>3, <2>4, <2>5, <3>1, ClassFacts
  <2>7. n \in DOMAIN a.cols /\ j = a.cols[n].kind /\ j \in VariantKeys
    BY <1>10, <2>2, <2>6
  <2>8. Class(j) # Class(k)
    BY <2>3, <2>4, <2>5, <2>7, ClassFacts
  <2>9. t \in Mergings /\ t.conflict
    <3> DEFINE f == Core(a)
    <3>1. t = [a EXCEPT !.conflict = TRUE]
      BY <1>8, <1>11
    <3>2. /\ SoundEngine(cfg, f) /\ f.cols = a.cols /\ f.order = a.order
          /\ f.row_count = a.row_count /\ f.strict_error = a.strict_error
          /\ a.planned \in ToSet(cfg.kinds)
      BY MergingFacts
    <3>3. t = [cols |-> f.cols, order |-> f.order, row_count |-> f.row_count,
               strict_error |-> f.strict_error, conflict |-> TRUE, planned |-> a.planned]
      <4>1. a = [cols |-> a.cols, order |-> a.order, row_count |-> a.row_count,
                 strict_error |-> a.strict_error, conflict |-> a.conflict, planned |-> a.planned]
        BY MergingFacts
      <4> HIDE DEF f
      <4> QED
        BY ONLY <3>1, <3>2, <4>1
    <3> HIDE DEF f
    <3> QED
      BY <3>2, <3>3, MergingMade
  <2> QED
    BY <2>2, <2>7, <2>8, <2>9 DEF ExtendsOrClashes, t, b
<1>12. CASE ~ \E n \in DOMAIN m.cols : KindOf(w, m, n) = "none"
  <2> DEFINE cols == [n \in DOMAIN w.cols |-> JoinedCol(w, m, n)]
             rows == a.row_count + e.row_count
             strict == (a.strict_error \/ e.strict_error)
             f == [cols |-> cols, order |-> w.order, row_count |-> rows, strict_error |-> strict]
  <2>1. ASSUME NEW n \in DOMAIN w.cols
        PROVE  ColumnExtends(JoinedCol(w, m, n), a, e, n)
    <3> DEFINE u == w.cols[n]
               v == m.cols[n]
               k == KindOf(w, m, n)
               j == JoinedCol(w, m, n)
    <3>1. /\ Sound(u) /\ len(u) = a.row_count /\ \A i \in 1..a.row_count : At(u, i) = CellAt(a, n, i)
          /\ n \in DOMAIN a.cols => u.kind = a.cols[n].kind
      BY <1>10
    <3>2. CASE n \in DOMAIN e.cols
      <4>1. /\ Sound(v) /\ v.kind = e.cols[n].kind /\ len(v) = e.row_count
            /\ \A i \in 1..e.row_count : At(v, i) = CellAt(e, n, i)
        BY <1>3, <3>2 DEF CellAt
      <4>2. k = (IF u.kind = v.kind THEN v.kind ELSE unify_variants(u.kind, v.kind)) /\ k # "none"
        BY <1>3, <1>12, <3>2 DEF KindOf
      <4>3. j = extend_owned(promote_to_variant(u, k), promote_to_variant(v, k))
        BY <1>3, <3>2 DEF JoinedCol
      <4> HIDE DEF u, v, k, j
      <4>4. JoinsTo(j, u, v)
        BY <3>1, <4>1, <4>2, <4>3, JoinColumns
      <4> QED
        BY <3>1, <4>1, <4>4 DEF JoinsTo, ColumnExtends, j
    <3>3. CASE n \notin DOMAIN e.cols
      <4>1. j = Nulls(u, e.row_count)
        BY <1>3, <3>3 DEF JoinedCol
      <4> HIDE DEF u, j
      <4>2. Padded(j, u, e.row_count)
        BY <1>2, <3>1, <4>1, NullsPad
      <4>3. \A i \in 1..e.row_count : CellAt(e, n, i) = Null
        BY <3>3 DEF CellAt
      <4>4. n \in DOMAIN a.cols => Promotes(a.cols[n].kind, j.kind)
        BY <3>1, <4>2, PromotesFacts DEF Padded
      <4> QED
        BY <3>1, <3>3, <4>2, <4>3, <4>4 DEF Padded, ColumnExtends, j
    <3> QED
      BY <3>2, <3>3
  <2>2. \A n \in DOMAIN w.cols : cols[n] = JoinedCol(w, m, n)
    OBVIOUS
  <2>3. DOMAIN cols = DOMAIN w.cols /\ cols = [n \in DOMAIN w.cols |-> cols[n]]
    OBVIOUS
  <2>4. t = [w EXCEPT !.cols = cols, !.row_count = @ + m.row_count,
                      !.strict_error = @ \/ b.strict_error]
    BY <1>8, <1>12
  <2> HIDE DEF cols
  <2>5. rows \in Nat
    BY <1>2, <1>9
  <2>6. t = [cols |-> f.cols, order |-> f.order, row_count |-> f.row_count,
             strict_error |-> f.strict_error, conflict |-> w.conflict, planned |-> w.planned]
    <3>1. w = [cols |-> w.cols, order |-> w.order, row_count |-> w.row_count,
               strict_error |-> w.strict_error, conflict |-> w.conflict, planned |-> w.planned]
      BY <1>9, MergingFacts
    <3> QED
      BY <1>1, <1>3, <1>9, <2>4, <3>1
  <2>7. SoundEngine(cfg, f)
    <3> DEFINE core == Core(w)
    <3>1. SoundEngine(cfg, core) /\ core.cols = w.cols /\ core.order = w.order
      BY <1>9, MergingFacts
    <3>2. strict \in BOOLEAN
      BY <1>2, MergingFacts, EngineFacts
    <3> HIDE DEF core
    <3>3. \A n \in DOMAIN core.cols : Sound(cols[n]) /\ rows <= len(cols[n])
      BY <2>1, <2>2, <2>5, <3>1 DEF ColumnExtends
    <3> HIDE DEF rows, strict
    <3>4. SoundEngine(cfg, [cols |-> cols, order |-> core.order, row_count |-> rows,
                            strict_error |-> strict])
      BY <2>3, <2>5, <3>1, <3>2, <3>3, NewColumns
    <3> QED
      BY <3>1, <3>4
  <2>8. w.conflict \in BOOLEAN /\ w.planned \in ToSet(cfg.kinds)
    BY <1>9, MergingFacts
  <2>9. t \in Mergings
    <3> HIDE DEF f
    <3> QED
      BY <2>6, <2>7, <2>8, MergingMade
  <2>10. /\ t.cols = cols /\ t.order = w.order /\ t.row_count = rows
         /\ t.strict_error = strict /\ SameMerging(t, a)
    BY <1>9, <2>6 DEF SameMerging
  <2>11. Unrepeated(a.order) => t.order = Firsts(Joined(a.order, e.order))
    BY <1>4, <1>7, <2>10 DEF Widens
  <2>12. Extended(t, a, e)
    BY <1>9, <2>1, <2>2, <2>3, <2>9, <2>10, <2>11 DEF Extended
  <2> QED
    BY <2>10, <2>12 DEF ExtendsOrClashes, SameMerging, t, b
<1> QED
  BY <1>11, <1>12

(* A merge that failed stays failed.                                        *)
LEMMA ExtendFailed ==
  ASSUME NEW a \in Mergings, a.conflict, NEW b
  PROVE  extend(a, b) = a
<1>1. extend(a, b) = [a EXCEPT !.conflict = TRUE]
  BY ExtendAs
<1> HIDE DEF extend
<1>2. a.conflict = TRUE
  BY MergingFacts
<1> QED
  BY <1>1, <1>2, MergingFacts

\* The merged builders while chunks are appended.
PlainMergings ==
  {x \in Mergings : ~x.conflict => \A n \in DOMAIN x.cols : x.cols[n].kind \in VariantKeys}

IsMerging(run, top) ==
  /\ run[0] = WrapOf(new_engine(1), 1) /\ Merged = run[top]
  /\ \A c \in 1..top : run[c] = extend(run[c - 1], WrapOf(engines[c], c))

\* What merging needs of a chunk.
LEMMA MergedChunk ==
  ASSUME AssemblyInv, Prepared, Assembling, PlainPlan(cfg), NEW c \in Chunks
  PROVE  /\ cfg \in Configs /\ engines[c] \in Engines
         /\ SoundEngine(cfg, engines[c]) /\ Grown(cfg, c, engines[c])
         /\ \A n \in DOMAIN engines[c].cols :
              /\ cfg.kinds[c][n] \in VariantKeys /\ engines[c].cols[n].kind \in VariantKeys
              /\ Class(engines[c].cols[n].kind) = Class(cfg.kinds[c][n])
<1>1. SoundEngine(cfg, engines[c]) /\ cfg \in Configs
  BY DEF AssemblyInv, BuildersOK, BuilderOK, AssemblyTypeOK
<1>2. Grown(cfg, c, engines[c])
  BY DEF Prepared, Assembled
<1>3. \A n \in DOMAIN engines[c].cols :
        /\ cfg.kinds[c][n] \in VariantKeys /\ engines[c].cols[n].kind \in VariantKeys
        /\ Class(engines[c].cols[n].kind) = Class(cfg.kinds[c][n])
  BY PlainKinds DEF KindIn
<1> QED
  BY <1>1, <1>2, <1>3 DEF SoundEngine

\* Appending a chunk makes another such builder.
LEMMA MergeStep ==
  ASSUME AssemblyInv, Prepared, Assembling, PlainPlan(cfg), NEW c \in Chunks,
         NEW a \in PlainMergings
  PROVE  LET t == extend(a, WrapOf(engines[c], c))
         IN /\ t \in PlainMergings
            /\ IF a.conflict THEN t = a ELSE ExtendsOrClashes(t, a, engines[c])
<1> DEFINE e == engines[c]
           t == extend(a, WrapOf(e, c))
<1>1. a \in Mergings
  BY DEF PlainMergings
<1>2. CASE a.conflict
  BY <1>1, <1>2, ExtendFailed DEF PlainMergings
<1>3. CASE ~a.conflict
  <2>1. /\ cfg \in Configs /\ SoundEngine(cfg, e) /\ Grown(cfg, c, e)
        /\ \A n \in DOMAIN e.cols : cfg.kinds[c][n] \in VariantKeys /\ e.cols[n].kind \in VariantKeys
    BY MergedChunk
  <2>2. \A n \in DOMAIN a.cols : a.cols[n].kind \in VariantKeys
    BY <1>3 DEF PlainMergings
  <2> HIDE DEF e
  <2>3. ExtendsOrClashes(t, a, e)
    BY <1>1, <1>3, <2>1, <2>2, ExtendBuilder
  <2> HIDE DEF t
  <2>4. ASSUME Extended(t, a, e), NEW n \in DOMAIN t.cols
        PROVE  t.cols[n].kind \in VariantKeys
    <3>1. n \in DOMAIN a.cols \cup DOMAIN e.cols /\ ColumnExtends(t.cols[n], a, e, n)
      BY <2>4 DEF Extended
    <3> QED
      BY <2>1, <2>2, <3>1, PromotesFacts DEF ColumnExtends
  <2>5. t \in PlainMergings
    BY <2>3, <2>4 DEF ExtendsOrClashes, Extended, PlainMergings
  <2> QED
    BY <1>3, <2>3, <2>5 DEF t, e
<1> QED
  BY <1>2, <1>3

LEMMA FirstMerging ==
  ASSUME AssemblyInv, Prepared, Assembling, PlainPlan(cfg)
  PROVE  /\ 1 \in Chunks /\ Chunks = 1..Len(engines) /\ Len(engines) \in Nat \ {0}
         /\ engines \in Seq(Engines)
         /\ LET a == WrapOf(new_engine(1), 1)
            IN /\ a \in PlainMergings /\ ~a.conflict /\ a.row_count = 0 /\ ~a.strict_error
               /\ a.order = predeclared
               /\ \A n \in DOMAIN a.cols :
                    /\ n \in DOMAIN engines[1].cols /\ len(a.cols[n]) = 0
                    /\ a.cols[n].kind = cfg.kinds[1][n]
<1> DEFINE e == new_engine(1)
           a == WrapOf(e, 1)
<1>1. engines \in Seq(Engines) /\ Chunks = 1..Len(engines) /\ Len(engines) \in Nat
  BY EnginesSeq DEF AssemblyInv
<1>2. 1 \in Chunks
  <2>1. cfg.kinds # <<>> /\ Chunks = DOMAIN cfg.kinds
    BY DEF PlainPlan, Chunks
  <2>2. cfg \in Configs
    BY DEF AssemblyInv, AssemblyTypeOK
  <2>3. PICK names \in SUBSET Names : cfg.kinds \in Seq([names -> Kinds])
    BY <2>2, ConfigFacts
  <2>4. Chunks # {}
    <3> DEFINE s == cfg.kinds
               S == [names -> Kinds]
    <3>1. s \in Seq(S) /\ s # <<>>
      BY <2>1, <2>3
    <3> HIDE DEF s, S
    <3>2. 1 \in DOMAIN s
      BY <3>1
    <3> QED
      BY <2>1, <3>2 DEF s
  <2> QED
    BY <2>4, EnginesSeq DEF AssemblyInv
<1>3. cfg \in Configs
  BY <1>2, MergedChunk
<1>4. SoundEngine(cfg, e) /\ Planned(cfg, 1, e) /\ Even(e) /\ e.row_count = 0
  BY <1>2, <1>3, NewEngine DEF BetweenRows
<1>5. e.order = predeclared /\ e.strict_error = FALSE /\ DOMAIN e.cols = ToSet(predeclared)
  BY DEF new_engine
<1> HIDE DEF e
<1>6. a \in Mergings
  <2>1. cfg.kinds[1] \in ToSet(cfg.kinds)
    BY <1>2 DEF ToSet, Chunks
  <2> QED
    BY <1>4, <2>1, MergingMade DEF WrapOf
<1>7. /\ a.cols = e.cols /\ a.order = predeclared /\ a.row_count = 0 /\ ~a.strict_error
      /\ ~a.conflict
  BY <1>4, <1>5 DEF WrapOf
<1>8. ToSet(predeclared) \subseteq DOMAIN engines[1].cols
  <2>1. engines[1].order = OrderFrom(log[1]) /\ FitEngine(cfg, engines[1])
    BY <1>2 DEF Prepared, Assembled
  <2>2. CASE Projects
    BY <2>1, <2>2 DEF OrderFrom, FitEngine
  <2>3. CASE ~Projects
    BY <2>3 DEF predeclared, ToSet
  <2> QED
    BY <2>2, <2>3
<1> HIDE DEF a
<1>9. ASSUME NEW n \in DOMAIN a.cols
      PROVE  /\ n \in DOMAIN engines[1].cols /\ len(a.cols[n]) = 0
             /\ a.cols[n].kind = cfg.kinds[1][n] /\ a.cols[n].kind \in VariantKeys
  <2>1. n \in DOMAIN engines[1].cols
    BY <1>5, <1>7, <1>8
  <2>2. cfg.kinds[1][n] \in VariantKeys
    BY <1>2, <2>1, PlainKinds
  <2> QED
    BY <1>4, <1>7, <2>1, <2>2 DEF Planned, Even
<1>10. a \in PlainMergings
  BY <1>6, <1>9 DEF PlainMergings
<1> QED
  BY <1>1, <1>2, <1>7, <1>9, <1>10 DEF a, e

LEMMA MergingExists ==
  ASSUME AssemblyInv, Prepared, Assembling, PlainPlan(cfg)
  PROVE  \E run : IsMerging(run, Len(engines))
<1> DEFINE top == Len(engines)
           base == WrapOf(new_engine(1), 1)
           Eqn(r) == r = [c \in {0} \cup Chunks |->
             IF c = 0 THEN base ELSE extend(r[c - 1], WrapOf(engines[c], c))]
           step == [i \in 1..top |-> [x \in PlainMergings |-> extend(x, WrapOf(engines[i], i))]]
           run == CHOOSE r : Eqn(r)
<1>1. Merged = run[top]
  BY DEF Merged, WrapOf
<1> HIDE DEF run
<1>2. top \in Nat /\ Chunks = 1..top /\ base \in PlainMergings /\ {0} \cup Chunks = 0..top
  BY FirstMerging
<1> HIDE DEF top, base
<1>3. step \in Steps(top, PlainMergings)
  <2>1. ASSUME NEW i \in 1..top, NEW x \in PlainMergings
        PROVE  extend(x, WrapOf(engines[i], i)) \in PlainMergings
    BY <1>2, MergeStep
  <2> QED
    BY <2>1 DEF Steps
<1> HIDE DEF step
<1>4. PICK g : IsRecursion(g, top, PlainMergings, base, step)
  BY <1>2, <1>3, RecursionExists
<1>5. Eqn(g)
  <2>1. ASSUME NEW i \in 0..top
        PROVE  g[i] = IF i = 0 THEN base ELSE extend(g[i - 1], WrapOf(engines[i], i))
    <3>1. CASE i = 0
      BY <1>4, <3>1 DEF IsRecursion
    <3>2. CASE i # 0
      <4>1. i \in 1..top /\ i - 1 \in 0..top
        BY <1>2, <3>2
      <4>2. g[i - 1] \in PlainMergings /\ g[i] = step[i][g[i - 1]]
        BY <1>4, <3>2, <4>1 DEF IsRecursion
      <4> QED
        BY <3>2, <4>1, <4>2 DEF step
    <3> QED
      BY <3>1, <3>2
  <2>2. g = [i \in 0..top |-> g[i]]
    BY <1>4 DEF IsRecursion
  <2> QED
    BY <1>2, <2>1, <2>2
<1>6. Eqn(run)
  BY <1>5 DEF run
<1>7. run[0] = base /\ \A c \in 1..top : run[c] = extend(run[c - 1], WrapOf(engines[c], c))
  BY <1>2, <1>6
<1> QED
  BY <1>1, <1>7 DEF IsMerging, top, base

-----------------------------------------------------------------------------
(* What is merged.                                                          *)

\* Two chunks have a column that no kind can hold.
Clash ==
  \E c, d \in Chunks : \E n \in DOMAIN engines[c].cols \cap DOMAIN engines[d].cols :
    Class(cfg.kinds[c][n]) # Class(cfg.kinds[d][n])

\* The counted rows of a builder in a column that it may not have.
RowsOf(e, n) == [i \in 1..e.row_count |-> CellAt(e, n, i)]

LEMMA RowsTyped ==
  ASSUME NEW e \in Engines, \A n \in DOMAIN e.cols : Fit(e.cols[n]) /\ e.row_count <= len(e.cols[n]),
         NEW n
  PROVE  RowsOf(e, n) \in Seq(CellValues) /\ Len(RowsOf(e, n)) = e.row_count
<1>1. e.row_count \in Nat
  BY EngineFacts
<1>2. ASSUME NEW i \in 1..e.row_count
      PROVE  CellAt(e, n, i) \in CellValues
  <2>1. CASE n \in DOMAIN e.cols
    <3> DEFINE col == e.cols[n]
    <3>1. Fit(col) /\ e.row_count <= len(col) /\ len(col) \in Nat
      BY <2>1, StorageFacts DEF Fit
    <3> HIDE DEF col
    <3>2. i \in 1..len(col)
      BY <1>1, <3>1
    <3> QED
      BY <2>1, <3>1, <3>2, AtValue DEF CellAt, col
  <2>2. CASE n \notin DOMAIN e.cols
    BY <2>2 DEF CellAt, CellValues
  <2> QED
    BY <2>1, <2>2
<1> QED
  BY <1>1, <1>2 DEF RowsOf

\* The rows, and the columns, of the first k chunks.
RowsUpto(k, n) == FlattenSeq([c \in 1..k |-> RowsOf(engines[c], n)])

OrderUpto(k) == Firsts(FlattenSeq([c \in 1..k |-> engines[c].order]))

\* The merging t has the first k chunks, unless kinds clash.
MergedUpto(t, k) ==
  IF t.conflict THEN Clash
  ELSE /\ \A n \in DOMAIN t.cols :
            /\ len(t.cols[n]) = t.row_count
            /\ \E c \in Chunks : /\ n \in DOMAIN engines[c].cols
                                 /\ Class(t.cols[n].kind) = Class(cfg.kinds[c][n])
       /\ \A c \in 1..k : \A n \in DOMAIN engines[c].cols :
            n \in DOMAIN t.cols /\ Class(t.cols[n].kind) = Class(cfg.kinds[c][n])
       /\ t.strict_error <=> \E c \in 1..k : engines[c].strict_error
       /\ \A n : RowsOf(Core(t), n) = RowsUpto(k, n)
       /\ ~Projects => Unrepeated(t.order) /\ t.order = OrderUpto(k)

(* The rows of a chunk more.                                                *)
LEMMA UptoMore ==
  ASSUME AssemblyInv, Prepared, Assembling, NEW k \in Nat, k + 1 \in Chunks, 1..(k + 1) \subseteq Chunks
  PROVE  /\ \A n : /\ RowsUpto(k, n) \in Seq(CellValues)
                   /\ RowsUpto(k + 1, n) = Joined(RowsUpto(k, n), RowsOf(engines[k + 1], n))
         /\ FlattenSeq([c \in 1..k |-> engines[c].order]) \in Seq(Names)
         /\ FlattenSeq([c \in 1..(k + 1) |-> engines[c].order]) =
              Joined(FlattenSeq([c \in 1..k |-> engines[c].order]), engines[k + 1].order)
<1> DEFINE m == k + 1
<1>1. ASSUME NEW c \in 1..m
      PROVE  /\ engines[c].order \in Seq(Names)
             /\ \A n : RowsOf(engines[c], n) \in Seq(CellValues)
  <2> DEFINE e == engines[c]
  <2>1. FitEngine(cfg, e)
    BY DEF Prepared, Assembled
  <2> HIDE DEF e
  <2>2. e \in Engines /\ \A n \in DOMAIN e.cols : Fit(e.cols[n]) /\ e.row_count <= len(e.cols[n])
    BY <2>1 DEF FitEngine
  <2> QED
    BY <2>2, RowsTyped, EngineFacts DEF e
<1>2. m \in 1..m /\ \A i : i \in 1..m <=> i \in 1..k \/ i = m
  OBVIOUS
<1>3. ASSUME NEW f, NEW S, \A c \in 1..m : f[c] \in Seq(S)
      PROVE  /\ [c \in 1..k |-> f[c]] \in Seq(Seq(S)) /\ f[m] \in Seq(S)
             /\ [c \in 1..m |-> f[c]] = Append([c \in 1..k |-> f[c]], f[m])
  <2> DEFINE R == Seq(S)
  <2>1. \A c \in 1..m : f[c] \in R
    BY <1>3
  <2> HIDE DEF R
  <2>2. [c \in 1..k |-> f[c]] \in Seq(R) /\ Len([c \in 1..k |-> f[c]]) = k
    BY <1>2, <2>1
  <2>3. [c \in 1..m |-> f[c]] = Append([c \in 1..k |-> f[c]], f[m])
    BY <1>2, <2>2
  <2> QED
    BY <1>2, <2>1, <2>2, <2>3 DEF R
<1>4. ASSUME NEW n
      PROVE  /\ RowsUpto(k, n) \in Seq(CellValues)
             /\ RowsUpto(m, n) = Joined(RowsUpto(k, n), RowsOf(engines[m], n))
  <2> DEFINE f == [c \in 1..m |-> RowsOf(engines[c], n)]
             a == [c \in 1..k |-> f[c]]
  <2>1. \A c \in 1..m : f[c] \in Seq(CellValues)
    BY <1>1
  <2>2. /\ [c \in 1..k |-> RowsOf(engines[c], n)] = a
        /\ [c \in 1..m |-> RowsOf(engines[c], n)] = [c \in 1..m |-> f[c]]
        /\ f[m] = RowsOf(engines[m], n)
    BY <1>2
  <2> HIDE DEF f, m
  <2>3. /\ a \in Seq(Seq(CellValues)) /\ f[m] \in Seq(CellValues)
        /\ [c \in 1..m |-> f[c]] = Append(a, f[m])
    BY <1>3, <2>1
  <2> HIDE DEF a
  <2>4. /\ FlattenSeq(a) \in Seq(CellValues)
        /\ FlattenSeq(Append(a, f[m])) = Joined(FlattenSeq(a), f[m])
    BY <2>3, FlattenMore
  <2> QED
    BY <2>2, <2>3, <2>4 DEF RowsUpto
<1>5. /\ FlattenSeq([c \in 1..k |-> engines[c].order]) \in Seq(Names)
      /\ FlattenSeq([c \in 1..m |-> engines[c].order]) =
           Joined(FlattenSeq([c \in 1..k |-> engines[c].order]), engines[m].order)
  <2> DEFINE f == [c \in 1..m |-> engines[c].order]
             a == [c \in 1..k |-> f[c]]
  <2>1. \A c \in 1..m : f[c] \in Seq(Names)
    BY <1>1
  <2>2. /\ [c \in 1..k |-> engines[c].order] = a
        /\ [c \in 1..m |-> engines[c].order] = [c \in 1..m |-> f[c]]
        /\ f[m] = engines[m].order
    BY <1>2
  <2> HIDE DEF f, m
  <2>3. /\ a \in Seq(Seq(Names)) /\ f[m] \in Seq(Names)
        /\ [c \in 1..m |-> f[c]] = Append(a, f[m])
    BY <1>3, <2>1
  <2> HIDE DEF a
  <2>4. /\ FlattenSeq(a) \in Seq(Names)
        /\ FlattenSeq(Append(a, f[m])) = Joined(FlattenSeq(a), f[m])
    BY <2>3, FlattenMore
  <2> QED
    BY <2>2, <2>3, <2>4
<1> QED
  BY <1>4, <1>5

(* The rows of a merging and of a builder appended to it.                   *)
LEMMA ExtendedRows ==
  ASSUME NEW a \in Mergings, NEW e \in Engines, NEW t, Extended(t, a, e), NEW n,
         RowsOf(Core(a), n) \in Seq(CellValues), RowsOf(e, n) \in Seq(CellValues)
  PROVE  RowsOf(Core(t), n) = Joined(RowsOf(Core(a), n), RowsOf(e, n))
<1> DEFINE r == a.row_count
           s == e.row_count
           x == RowsOf(Core(a), n)
           y == RowsOf(e, n)
           z == RowsOf(Core(t), n)
<1>1. r \in Nat /\ s \in Nat
  BY MergingFacts, EngineFacts
<1>2. /\ Core(a).row_count = r /\ Core(a).cols = a.cols
      /\ Core(t).row_count = t.row_count /\ Core(t).cols = t.cols
  BY DEF Core
<1>3. t.row_count = r + s
  BY DEF Extended
<1>4. z = [i \in 1..(r + s) |-> CellAt(Core(t), n, i)]
  BY <1>2, <1>3 DEF RowsOf
<1>5. x = [i \in 1..r |-> CellAt(a, n, i)] /\ y = [i \in 1..s |-> CellAt(e, n, i)]
  BY <1>2 DEF RowsOf, CellAt
<1>6. /\ \A i \in 1..r : CellAt(Core(t), n, i) = CellAt(a, n, i)
      /\ \A i \in 1..s : CellAt(Core(t), n, r + i) = CellAt(e, n, i)
  <2>1. CASE n \in DOMAIN t.cols
    BY <1>2, <2>1 DEF Extended, ColumnExtends, CellAt
  <2>2. CASE n \notin DOMAIN t.cols
    BY <1>2, <2>2 DEF Extended, CellAt
  <2> QED
    BY <2>1, <2>2
<1>7. Follows(z, x, y, r, s)
  <2>1. Len(x) = r /\ Len(y) = s
    BY <1>1, <1>5
  <2>2. \A i \in 1..r : i \in 1..(r + s)
    BY <1>1
  <2>3. \A i \in 1..s : r + i \in 1..(r + s)
    BY <1>1
  <2> HIDE DEF x, y, z, r, s
  <2> QED
    BY <1>4, <1>5, <1>6, <2>1, <2>2, <2>3 DEF Follows
<1> HIDE DEF r, s, x, y, z
<1>8. Joined(x, y) = z
  BY <1>1, <1>7, JoinedRows DEF x, y
<1> QED
  BY <1>8 DEF x, y, z

\* Nothing is merged yet.
LEMMA MergedNone ==
  ASSUME AssemblyInv, Prepared, Assembling, PlainPlan(cfg)
  PROVE  MergedUpto(WrapOf(new_engine(1), 1), 0)
<1> DEFINE a == WrapOf(new_engine(1), 1)
<1>1. /\ 1 \in Chunks /\ a \in PlainMergings /\ ~a.conflict /\ a.row_count = 0 /\ ~a.strict_error
      /\ a.order = predeclared
      /\ \A n \in DOMAIN a.cols :
           /\ n \in DOMAIN engines[1].cols /\ len(a.cols[n]) = 0
           /\ a.cols[n].kind = cfg.kinds[1][n]
  BY FirstMerging
<1> HIDE DEF a
<1>2. \A S : \A f : [c \in 1..0 |-> f[c]] = <<>>
  OBVIOUS
<1>3. FlattenSeq(<<>>) = <<>>
  BY FlattenNone
<1>4. ASSUME NEW n
      PROVE  RowsOf(Core(a), n) = RowsUpto(0, n)
  <2>1. RowsOf(Core(a), n) = <<>>
    BY <1>1 DEF RowsOf, Core
  <2>2. [c \in 1..0 |-> RowsOf(engines[c], n)] = <<>>
    OBVIOUS
  <2> QED
    BY <1>3, <2>1, <2>2 DEF RowsUpto
<1>5. ASSUME ~Projects
      PROVE  Unrepeated(a.order) /\ a.order = OrderUpto(0)
  <2>1. a.order = <<>>
    BY <1>1, <1>5 DEF predeclared
  <2>2. [c \in 1..0 |-> engines[c].order] = <<>>
    OBVIOUS
  <2>3. Firsts(<<>>) = <<>> /\ Unrepeated(<<>>)
    BY FirstsMore DEF Unrepeated
  <2> QED
    BY <1>3, <2>1, <2>2, <2>3 DEF OrderUpto
<1>6. MergedUpto(a, 0)
  BY <1>1, <1>4, <1>5 DEF MergedUpto
<1> QED
  BY <1>6 DEF a

\* A chunk more is merged.
LEMMA MergedMore ==
  ASSUME AssemblyInv, Prepared, Assembling, PlainPlan(cfg), NEW k \in Nat,
         1..(k + 1) \subseteq Chunks, NEW x \in PlainMergings, MergedUpto(x, k),
         NEW y, y = extend(x, WrapOf(engines[k + 1], k + 1))
  PROVE  y \in PlainMergings /\ MergedUpto(y, k + 1)
<1> DEFINE m == k + 1
           e == engines[m]
<1>1. m \in Chunks /\ \A c : c \in 1..m <=> c \in 1..k \/ c = m
  OBVIOUS
<1>2. y \in PlainMergings /\ IF x.conflict THEN y = x ELSE ExtendsOrClashes(y, x, e)
  BY <1>1, MergeStep
<1>3. /\ e \in Engines
      /\ \A n \in DOMAIN e.cols : Class(e.cols[n].kind) = Class(cfg.kinds[m][n])
  BY <1>1, MergedChunk
<1>4. /\ \A n : /\ RowsUpto(k, n) \in Seq(CellValues)
                /\ RowsUpto(m, n) = Joined(RowsUpto(k, n), RowsOf(e, n))
      /\ FlattenSeq([c \in 1..k |-> engines[c].order]) \in Seq(Names)
      /\ FlattenSeq([c \in 1..m |-> engines[c].order]) =
           Joined(FlattenSeq([c \in 1..k |-> engines[c].order]), e.order)
  BY <1>1, UptoMore
<1>5. \A n : RowsOf(e, n) \in Seq(CellValues)
  <2>1. FitEngine(cfg, e)
    BY <1>1 DEF Prepared, Assembled
  <2> HIDE DEF e
  <2> QED
    BY <2>1, RowsTyped DEF FitEngine
<1>6. x \in Mergings /\ y \in Mergings
  BY <1>2 DEF PlainMergings
<1>7. e.order \in Seq(Names)
  BY <1>3, EngineFacts
<1> DEFINE flat == FlattenSeq([c \in 1..k |-> engines[c].order])
<1> HIDE DEF m, flat
<1>8. CASE x.conflict
  BY <1>2, <1>8 DEF MergedUpto, m
<1>9. CASE ~x.conflict /\ y.conflict
  <2>1. PICK n \in DOMAIN x.cols \cap DOMAIN e.cols : Class(x.cols[n].kind) # Class(e.cols[n].kind)
    BY <1>2, <1>9 DEF ExtendsOrClashes
  <2>2. PICK c \in Chunks : /\ n \in DOMAIN engines[c].cols
                            /\ Class(x.cols[n].kind) = Class(cfg.kinds[c][n])
    BY <1>9, <2>1 DEF MergedUpto
  <2>3. Clash
    BY <1>1, <1>3, <2>1, <2>2 DEF Clash
  <2> QED
    BY <1>2, <1>9, <2>3 DEF MergedUpto, m
<1>10. CASE ~x.conflict /\ ~y.conflict
  <2>1. Extended(y, x, e)
    BY <1>2, <1>10 DEF ExtendsOrClashes
  <2> HIDE DEF e
  <2>2. ASSUME NEW n \in DOMAIN y.cols
        PROVE  /\ len(y.cols[n]) = y.row_count
               /\ n \in DOMAIN x.cols \cup DOMAIN e.cols
               /\ n \in DOMAIN x.cols => Class(y.cols[n].kind) = Class(x.cols[n].kind)
               /\ n \in DOMAIN e.cols => Class(y.cols[n].kind) = Class(cfg.kinds[m][n])
    <3>1. ColumnExtends(y.cols[n], x, e, n) /\ y.row_count = x.row_count + e.row_count
          /\ n \in DOMAIN x.cols \cup DOMAIN e.cols
      BY <2>1 DEF Extended
    <3> QED
      BY <1>3, <3>1, PromotesFacts DEF ColumnExtends
  <2>3. ASSUME NEW n \in DOMAIN y.cols
        PROVE  \E c \in Chunks : /\ n \in DOMAIN engines[c].cols
                                 /\ Class(y.cols[n].kind) = Class(cfg.kinds[c][n])
    <3>1. CASE n \in DOMAIN e.cols
      BY <1>1, <2>2, <3>1 DEF e
    <3>2. CASE n \in DOMAIN x.cols
      <4>1. PICK c \in Chunks : /\ n \in DOMAIN engines[c].cols
                                /\ Class(x.cols[n].kind) = Class(cfg.kinds[c][n])
        BY <1>10, <3>2 DEF MergedUpto
      <4> QED
        BY <2>2, <3>2, <4>1
    <3> QED
      BY <2>2, <3>1, <3>2
  <2>4. ASSUME NEW c \in 1..m, NEW n \in DOMAIN engines[c].cols
        PROVE  n \in DOMAIN y.cols /\ Class(y.cols[n].kind) = Class(cfg.kinds[c][n])
    <3>1. DOMAIN y.cols = DOMAIN x.cols \cup DOMAIN e.cols
      BY <2>1 DEF Extended
    <3>2. CASE c = m
      BY <2>2, <3>1, <3>2 DEF e
    <3>3. CASE c \in 1..k
      <4>1. n \in DOMAIN x.cols /\ Class(x.cols[n].kind) = Class(cfg.kinds[c][n])
        BY <1>10, <3>3 DEF MergedUpto
      <4> QED
        BY <2>2, <3>1, <4>1
    <3> QED
      BY <1>1, <3>2, <3>3
  <2>5. y.strict_error <=> \E c \in 1..m : engines[c].strict_error
    <3>1. x.strict_error <=> \E c \in 1..k : engines[c].strict_error
      BY <1>10 DEF MergedUpto
    <3>2. y.strict_error <=> (x.strict_error \/ engines[m].strict_error)
      BY <2>1 DEF Extended, e
    <3> QED
      BY <1>1, <3>1, <3>2
  <2>6. ASSUME NEW n
        PROVE  RowsOf(Core(y), n) = RowsUpto(m, n)
    <3>1. RowsOf(Core(x), n) = RowsUpto(k, n)
      BY <1>10 DEF MergedUpto
    <3>2. RowsOf(Core(x), n) \in Seq(CellValues) /\ RowsOf(e, n) \in Seq(CellValues)
      BY <1>4, <1>5, <3>1
    <3>3. RowsOf(Core(y), n) = Joined(RowsOf(Core(x), n), RowsOf(e, n))
      BY <1>3, <1>6, <2>1, <3>2, ExtendedRows
    <3> QED
      BY <1>4, <3>1, <3>3
  <2>7. ASSUME ~Projects
        PROVE  Unrepeated(y.order) /\ y.order = OrderUpto(m)
    <3>1. Unrepeated(x.order) /\ x.order = Firsts(flat)
      BY <1>10, <2>7 DEF MergedUpto, OrderUpto, flat
    <3>2. y.order = Firsts(Joined(x.order, e.order))
      BY <2>1, <3>1 DEF Extended
    <3>3. flat \in Seq(Names) /\ OrderUpto(m) = Firsts(Joined(flat, e.order))
      BY <1>4 DEF OrderUpto, flat
    <3>4. Firsts(Joined(flat, e.order)) = Firsts(Joined(Firsts(flat), e.order))
      BY <1>7, <3>3, FirstsJoined
    <3>5. Joined(flat, e.order) \in Seq(Names)
      BY <1>7, <3>3, Concatenated DEF Joined
    <3>6. Unrepeated(Firsts(Joined(flat, e.order)))
      <4> DEFINE j == Joined(flat, e.order)
      <4>1. j \in Seq(Names)
        BY <3>5
      <4> HIDE DEF j
      <4>2. Unrepeated(Firsts(j))
        BY <4>1, FirstsFacts
      <4> QED
        BY <4>2 DEF j
    <3> QED
      BY <3>1, <3>2, <3>3, <3>4, <3>6
  <2>8. MergedUpto(y, m)
    BY <1>10, <2>2, <2>3, <2>4, <2>5, <2>6, <2>7 DEF MergedUpto
  <2> QED
    BY <1>2, <2>8 DEF m
<1> QED
  BY <1>8, <1>9, <1>10

(* The merged builder has every chunk, unless kinds clash.                  *)
LEMMA MergedAll ==
  ASSUME AssemblyInv, Prepared, Assembling, PlainPlan(cfg)
  PROVE  /\ Merged \in PlainMergings /\ MergedUpto(Merged, Len(engines))
         /\ Len(engines) \in Nat /\ Chunks = 1..Len(engines) /\ 1 \in Chunks
<1> DEFINE top == Len(engines)
<1>1. PICK run : IsMerging(run, top)
  BY MergingExists
<1>2. top \in Nat /\ Chunks = 1..top /\ 1 \in Chunks /\ WrapOf(new_engine(1), 1) \in PlainMergings
  BY FirstMerging
<1> DEFINE K == {k \in 0..top : run[k] \in PlainMergings /\ MergedUpto(run[k], k)}
<1> HIDE DEF top
<1>3. 0 \in K
  <2>1. run[0] = WrapOf(new_engine(1), 1)
    BY <1>1 DEF IsMerging
  <2> QED
    BY <1>2, <2>1, MergedNone
<1>4. ASSUME NEW k \in Nat, k < top, k \in K
      PROVE  k + 1 \in K
  <2> DEFINE x == run[k]
             y == run[k + 1]
  <2>1. k + 1 \in 1..top /\ k + 1 \in 0..top /\ (k + 1) - 1 = k /\ 1..(k + 1) \subseteq Chunks
    BY <1>2, <1>4
  <2>2. y = extend(x, WrapOf(engines[k + 1], k + 1))
    BY <1>1, <2>1 DEF IsMerging
  <2>3. x \in PlainMergings /\ MergedUpto(x, k)
    BY <1>4
  <2> HIDE DEF x, y
  <2>4. y \in PlainMergings /\ MergedUpto(y, k + 1)
    BY <2>1, <2>2, <2>3, MergedMore
  <2> QED
    BY <2>1, <2>4 DEF y
<1> HIDE DEF K
<1>5. top \in K
  <2>1. \A k \in 0..top : k \in K
    BY <1>2, <1>3, <1>4, IntervalInduction
  <2> QED
    BY <1>2, <2>1
<1>6. run[top] \in PlainMergings /\ MergedUpto(run[top], top)
  BY <1>5 DEF K
<1>7. Merged = run[top]
  BY <1>1 DEF IsMerging
<1> QED
  BY <1>2, <1>6, <1>7 DEF top

-----------------------------------------------------------------------------
(* The outcome of each way to end.                                          *)

(* Only the builder of a merging is finished.                               *)
LEMMA FinishCore ==
  ASSUME NEW a \in Mergings
  PROVE  finish(a) = finish(Core(a))
<1> DEFINE e == Core(a)
           s == normalize(a)
           t == normalize(e)
           n == auto_dict_upgrade(s)
           m == auto_dict_upgrade(t)
           cols == [j \in DOMAIN a.cols |-> Popped(a.cols[j], len(a.cols[j]) - a.row_count)]
           made == IF cfg.auto_dict
                     THEN [j \in DOMAIN cols |->
                             try_upgrade_to_dict(cols[j], cfg.dict_min_rows, cfg.dict_cap)]
                     ELSE cols
<1>1. /\ a = [cols |-> a.cols, order |-> a.order, row_count |-> a.row_count,
              strict_error |-> a.strict_error, conflict |-> a.conflict, planned |-> a.planned]
      /\ e = [cols |-> a.cols, order |-> a.order, row_count |-> a.row_count,
              strict_error |-> a.strict_error]
      /\ e.cols = a.cols /\ e.row_count = a.row_count
  BY MergingFacts DEF Core
<1>2. s = [a EXCEPT !.cols = cols] /\ t = [e EXCEPT !.cols = cols]
  BY <1>1 DEF normalize
<1> HIDE DEF cols, s, t, e
<1>3. /\ s = [cols |-> cols, order |-> a.order, row_count |-> a.row_count,
              strict_error |-> a.strict_error, conflict |-> a.conflict, planned |-> a.planned]
      /\ t = [cols |-> cols, order |-> a.order, row_count |-> a.row_count,
              strict_error |-> a.strict_error]
  BY <1>1, <1>2
<1>4. /\ n = (IF cfg.auto_dict THEN [s EXCEPT !.cols = made] ELSE s)
      /\ m = (IF cfg.auto_dict THEN [t EXCEPT !.cols = made] ELSE t)
  BY <1>3 DEF auto_dict_upgrade
<1>5. ~cfg.auto_dict => made = cols
  OBVIOUS
<1> HIDE DEF made, n, m
<1>6. n.cols = m.cols /\ n.order = m.order /\ n.row_count = m.row_count
  BY <1>3, <1>4, <1>5
<1>7. a.strict_error = e.strict_error
  BY <1>1
<1> DEFINE order == IF Projects THEN cfg.schema_order ELSE m.order
<1>8. /\ finish(a) =
           IF a.strict_error \/ \E j \in ToSet(order) : ~Exportable(m.cols[j])
             THEN Failed
           ELSE [ok |-> TRUE,
                 batches |-> <<Batch(order, IF order = <<>> THEN 0 ELSE m.row_count,
                                     [j \in ToSet(order) |-> Column(m.cols[j])])>>]
      /\ finish(e) =
           IF a.strict_error \/ \E j \in ToSet(order) : ~Exportable(m.cols[j])
             THEN Failed
           ELSE [ok |-> TRUE,
                 batches |-> <<Batch(order, IF order = <<>> THEN 0 ELSE m.row_count,
                                     [j \in ToSet(order) |-> Column(m.cols[j])])>>]
  <2>1. n = auto_dict_upgrade(normalize(a)) /\ m = auto_dict_upgrade(normalize(e))
    BY DEF n, m, s, t
  <2> QED
    BY <1>6, <1>7, <2>1 DEF finish
<1> QED
  BY <1>8 DEF e

(* A builder without columns makes a batch without rows.                    *)
LEMMA FinishedEmpty ==
  ASSUME NEW e, SoundEngine(cfg, e), e.strict_error = FALSE, OrderIn(e) = <<>>
  PROVE  finish(e).ok /\ Len(finish(e).batches) = 1 /\ finish(e).batches[1].order = <<>>
         /\ finish(e) = [ok |-> TRUE, batches |-> finish(e).batches]
<1> DEFINE m == normalize(e)
           t == auto_dict_upgrade(m)
<1>1. SameRows(m, e)
  BY NormalizeLeavesRows
<1>2. SameRows(t, m)
  <2> HIDE DEF m
  <2> QED
    BY <1>1, UpgradeLeavesRows DEF SameRows
<1>3. t.order = e.order
  BY <1>1, <1>2 DEF SameRows
<1>4. (IF Projects THEN cfg.schema_order ELSE t.order) = <<>>
  BY <1>3 DEF OrderIn
<1>5. ToSet(<<>>) = {}
  BY DEF ToSet
<1>6. finish(e) = [ok |-> TRUE,
                   batches |-> <<Batch(<<>>, 0, [j \in {} |-> Column(t.cols[j])])>>]
  BY <1>4, <1>5 DEF finish
<1> HIDE DEF t
<1> QED
  BY <1>6 DEF Batch

(* A sound builder is finished unless a violation is strict.                *)
LEMMA FinishOutcome ==
  ASSUME cfg \in Configs, NEW e, SoundEngine(cfg, e)
  PROVE  /\ finish(e).ok <=> ~e.strict_error
         /\ finish(e).ok => finish(e).batches[1].order = OrderIn(e)
<1>1. e.strict_error \in BOOLEAN
  BY EngineFacts DEF SoundEngine
<1>2. CASE e.strict_error
  <2>1. finish(e) = Failed
    BY <1>2 DEF finish
  <2> QED
    BY <1>2, <2>1 DEF Failed
<1>3. CASE ~e.strict_error /\ OrderIn(e) = <<>>
  BY <1>1, <1>3, FinishedEmpty
<1>4. CASE ~e.strict_error /\ OrderIn(e) # <<>>
  <2>1. PICK b : BatchOf(b, e) /\ finish(e) = [ok |-> TRUE, batches |-> <<b>>]
    BY <1>1, <1>4, FinishedBatch
  <2> QED
    BY <1>4, <2>1 DEF BatchOf
<1> QED
  BY <1>2, <1>3, <1>4

\* What MergeChunks returns.
MergeResult ==
  LET r == finish(Merged)
  IN IF Merged.conflict \/ ~r.ok \/ ~apply_compare_filter(r.batches[1].order)
       THEN Failed ELSE r

(* All chunks merge into one builder unless a violation is strict or kinds
   clash.                                                                   *)
LEMMA MergeOutcome ==
  ASSUME AssemblyInv, Prepared, Assembling, PlainPlan(cfg)
  PROVE  MergeResult.ok <=> ~AnyStrict /\ ~Clash
<1> DEFINE t == Merged
           e == Core(t)
           r == finish(t)
           top == Len(engines)
<1>1. /\ t \in PlainMergings /\ MergedUpto(t, top)
      /\ top \in Nat /\ Chunks = 1..top /\ 1 \in Chunks
  BY MergedAll
<1>2. cfg \in Configs
  BY DEF AssemblyInv, AssemblyTypeOK
<1>3. t \in Mergings
  BY <1>1 DEF PlainMergings
<1>4. MergeResult = IF t.conflict \/ ~r.ok \/ ~apply_compare_filter(r.batches[1].order)
                      THEN Failed ELSE r
  BY DEF MergeResult
<1>5. r = finish(e) /\ SoundEngine(cfg, e) /\ e.strict_error = t.strict_error
  BY <1>3, FinishCore, MergingFacts
<1> HIDE DEF t, e, r, top
<1>6. /\ r.ok <=> ~t.strict_error
      /\ r.ok => r.batches[1].order = OrderIn(e)
  BY <1>2, <1>5, FinishOutcome
<1>7. apply_compare_filter(OrderIn(e))
  BY DEF apply_compare_filter, PlainPlan, OrderIn, Projects
<1>8. MergeResult.ok <=> ~t.conflict /\ r.ok
  BY <1>4, <1>6, <1>7 DEF Failed
<1>9. t.conflict => Clash
  BY <1>1 DEF MergedUpto
<1>10. ASSUME ~t.conflict
       PROVE  ~Clash /\ (t.strict_error <=> AnyStrict)
  <2>1. t.strict_error <=> AnyStrict
    BY <1>1, <1>10 DEF MergedUpto, AnyStrict
  <2>2. \A c \in Chunks : \A n \in DOMAIN engines[c].cols :
          Class(t.cols[n].kind) = Class(cfg.kinds[c][n])
    BY <1>1, <1>10 DEF MergedUpto
  <2>3. ~Clash
    BY <2>2 DEF Clash
  <2> QED
    BY <2>1, <2>3
<1> QED
  BY <1>6, <1>8, <1>9, <1>10

-----------------------------------------------------------------------------
(* Errors.                                                                  *)

SomeFailed == \E c \in Chunks : state[c] = "failed"

Conflicting ==
  \E c, d \in Chunks :
    \E n \in DOMAIN engines[c].cols \cap DOMAIN engines[d].cols :
      /\ unify_variants(cfg.kinds[c][n], cfg.kinds[d][n]) = "none"
      /\ cfg.mode = "direct" => engines[c].row_count > 0 /\ engines[d].row_count > 0

Troubled == SomeFailed \/ AnyStrict \/ Conflicting

(* Planned kinds conflict when no kind can hold both.                       *)
LEMMA ConflictAs ==
  ASSUME AssemblyInv, Prepared, PlainPlan(cfg)
  PROVE  /\ cfg.mode = "direct" => (Conflicting <=> LiveClash)
         /\ cfg.mode # "direct" => (Conflicting <=> Clash)
         /\ LiveClash => Clash
         /\ cfg.mode \in {"parallel", "spill"} => ~Clash
<1>1. ASSUME NEW c \in Chunks, NEW d \in Chunks,
             NEW n \in DOMAIN engines[c].cols \cap DOMAIN engines[d].cols
      PROVE  unify_variants(cfg.kinds[c][n], cfg.kinds[d][n]) = "none" <=>
               Class(cfg.kinds[c][n]) # Class(cfg.kinds[d][n])
  <2>1. /\ cfg.kinds[c][n] \in VariantKeys /\ cfg.kinds[c][n] \in Kinds
        /\ cfg.kinds[d][n] \in VariantKeys /\ cfg.kinds[d][n] \in Kinds
    BY <1>1, PlainKinds
  <2> QED
    BY <2>1, ClassFacts
<1>2. cfg.mode # "direct" => (Conflicting <=> Clash)
  BY <1>1 DEF Conflicting, Clash
<1>3. ASSUME cfg.mode = "direct"
      PROVE  Conflicting <=> LiveClash
  <2>1. ASSUME LiveClash
        PROVE  Conflicting
    <3>1. PICK c \in Chunks : \E d \in Chunks : \E n :
            LiveIn(c, n) /\ LiveIn(d, n) /\ Class(cfg.kinds[c][n]) # Class(cfg.kinds[d][n])
      BY <2>1 DEF LiveClash
    <3>2. PICK d \in Chunks : \E n :
            LiveIn(c, n) /\ LiveIn(d, n) /\ Class(cfg.kinds[c][n]) # Class(cfg.kinds[d][n])
      BY <3>1
    <3>3. PICK n :
            LiveIn(c, n) /\ LiveIn(d, n) /\ Class(cfg.kinds[c][n]) # Class(cfg.kinds[d][n])
      BY <3>2
    <3>4. n \in DOMAIN engines[c].cols \cap DOMAIN engines[d].cols
      BY <3>3 DEF LiveIn
    <3>5. unify_variants(cfg.kinds[c][n], cfg.kinds[d][n]) = "none"
      BY <1>1, <3>3, <3>4
    <3> QED
      BY <3>3, <3>4, <3>5 DEF LiveIn, Conflicting
  <2>2. ASSUME Conflicting
        PROVE  LiveClash
    <3>1. PICK c \in Chunks : \E d \in Chunks :
            \E n \in DOMAIN engines[c].cols \cap DOMAIN engines[d].cols :
              /\ unify_variants(cfg.kinds[c][n], cfg.kinds[d][n]) = "none"
              /\ engines[c].row_count > 0 /\ engines[d].row_count > 0
      BY <1>3, <2>2 DEF Conflicting
    <3>2. PICK d \in Chunks :
            \E n \in DOMAIN engines[c].cols \cap DOMAIN engines[d].cols :
              /\ unify_variants(cfg.kinds[c][n], cfg.kinds[d][n]) = "none"
              /\ engines[c].row_count > 0 /\ engines[d].row_count > 0
      BY <3>1
    <3>3. PICK n \in DOMAIN engines[c].cols \cap DOMAIN engines[d].cols :
            /\ unify_variants(cfg.kinds[c][n], cfg.kinds[d][n]) = "none"
            /\ engines[c].row_count > 0 /\ engines[d].row_count > 0
      BY <3>2
    <3>4. LiveIn(c, n) /\ LiveIn(d, n) /\ Class(cfg.kinds[c][n]) # Class(cfg.kinds[d][n])
      BY <1>1, <3>3 DEF LiveIn
    <3> QED
      BY <3>4 DEF LiveClash
  <2> QED
    BY <2>1, <2>2
<1>4. LiveClash => Clash
  BY DEF LiveClash, Clash, LiveIn
<1>5. ASSUME cfg.mode = "parallel"
      PROVE  ~Clash
  <2>1. \A c, d \in Chunks : cfg.kinds[c] = cfg.kinds[d]
    BY <1>5 DEF PlainPlan, Chunks
  <2> QED
    BY <2>1 DEF Clash
<1>6. ASSUME cfg.mode = "spill"
      PROVE  ~Clash
  <2>1. Chunks = {1}
    BY <1>6, SinkHasOne DEF AssemblyInv, AssemblyTypeOK
  <2> QED
    BY <2>1 DEF Clash
<1> QED
  BY <1>2, <1>3, <1>4, <1>5, <1>6

\* Trouble is an error, and nothing else is.
Exact == (phase = "ok" => ~Troubled) /\ (phase = "err" => Troubled)

LEMMA ExactErrors == Exact => ErrorsExact
  BY DEF Exact, ErrorsExact, Troubled, SomeFailed, AnyStrict, Conflicting

(* A run that ends as it should.                                            *)
LEMMA Concluded ==
  ASSUME NEW r, Conclude(r), r.ok <=> ~Troubled
  PROVE  Exact'
<1>1. (Troubled <=> Troubled') /\ phase' = IF r.ok THEN "ok" ELSE "err"
  BY DEF Conclude, Troubled, SomeFailed, AnyStrict, Conflicting, Chunks
<1> QED
  BY <1>1 DEF Exact

(* A chunk that failed.                                                     *)
LEMMA CollectFailsExactly ==
  ASSUME CollectFails
  PROVE  Exact'
<1>1. Conclude(Failed) /\ Troubled
  BY DEF CollectFails, Troubled, SomeFailed
<1> QED
  BY <1>1, Concluded DEF Failed

(* The chunks' builders, exported as they are.                              *)
LEMMA ExportsExactly ==
  ASSUME AssemblyInv, Prepared, PlainPlan(cfg), ExportChunks \/ ExportUnified
  PROVE  Exact'
<1> DEFINE r == engines_to_record_batches(engines)
<1>1. Conclude(r)
  BY DEF ExportChunks, ExportUnified
<1>2. \A c \in Chunks : state[c] = "parsed"
  BY DEF ExportChunks, ExportUnified, AllParsed, Prepared, PhaseOK
<1>3. cfg.mode \in {"parallel", "direct"}
  BY DEF ExportChunks, ExportUnified, Prepared, PhaseOK
<1>4. r.ok <=> ~AnyStrict /\ ~LiveClash
  BY ExportOutcome
<1> HIDE DEF r
<1>5. Conflicting <=> LiveClash
  BY <1>3, ConflictAs
<1>6. ~SomeFailed
  BY <1>2 DEF SomeFailed
<1> QED
  BY <1>1, <1>4, <1>5, <1>6, Concluded DEF Troubled

(* The builders merged into one.                                            *)
LEMMA MergesExactly ==
  ASSUME AssemblyInv, Prepared, PlainPlan(cfg), MergeChunks
  PROVE  Exact'
<1>1. Conclude(MergeResult)
  BY DEF MergeChunks, MergeResult
<1>2. \A c \in Chunks : state[c] = "parsed"
  BY DEF MergeChunks, AllParsed, Prepared, PhaseOK
<1>3. Assembling /\ cfg.mode # "direct"
  BY DEF MergeChunks, AllParsed, Prepared, PhaseOK, Assembling
<1>4. MergeResult.ok <=> ~AnyStrict /\ ~Clash
  BY <1>3, MergeOutcome
<1>5. Conflicting <=> Clash
  BY <1>3, ConflictAs
<1>6. ~SomeFailed
  BY <1>2 DEF SomeFailed
<1> QED
  BY <1>1, <1>4, <1>5, <1>6, Concluded DEF Troubled

(* The batches of a sink.                                                   *)
LEMMA CollectsExactly ==
  ASSUME AssemblyInv, Prepared, PlainPlan(cfg), CollectBatches
  PROVE  Exact'
<1> DEFINE r == IF engines[1].strict_error THEN Failed ELSE [ok |-> TRUE, batches |-> Aligned]
<1>1. Conclude(r)
  BY DEF CollectBatches
<1>2. Chunks = {1}
  BY SinkHasOne DEF AssemblyInv, AssemblyTypeOK, CollectBatches
<1>3. ~SomeFailed /\ (AnyStrict <=> engines[1].strict_error)
  BY <1>2 DEF SomeFailed, AnyStrict, CollectBatches, AllParsed
<1>4. ~Conflicting
  BY ConflictAs DEF CollectBatches
<1>5. r.ok <=> ~engines[1].strict_error
  BY DEF Failed
<1> HIDE DEF r
<1> QED
  BY <1>1, <1>3, <1>4, <1>5, Concluded DEF Troubled

(* A chunk that failed, a strict violation and kinds that no column can hold
   are errors of a run, and nothing else is, whichever way its builders become
   batches: unified or not, merged or spilled (ParallelExecutor::parse in
   parallel.rs, merge.rs, SpillingTableSink in spill.rs). It is the outcome of
   every plan without decimals whose chunks, when they are parsed in parallel,
   share one plan.                                                          *)
THEOREM ErrorsAreExact == PlainPlans => (Spec => []ErrorsExact)
<1> SUFFICES ASSUME PlainPlans
             PROVE  Spec => []ErrorsExact
  OBVIOUS
<1>1. Init => AssemblyInv /\ Prepared /\ Exact
  <2>1. Init => Exact
    BY DEF Init, Exact
  <2> QED
    BY <2>1, InitInv, InitPrepared
<1>2. ASSUME AssemblyInv, Prepared, Exact, [Next]_vars
      PROVE  AssemblyInv' /\ Prepared' /\ Exact'
  <2>1. AssemblyInv' /\ Prepared'
    BY <1>2, NextKeeps, NextPrepares
  <2>2. PlainPlan(cfg)
    BY <1>2 DEF PlainPlans, AssemblyInv, AssemblyTypeOK
  <2>3. CASE \/ \E c \in Chunks : ParseRow(c) \/ EndChunk(c) \/ ChunkFails(c)
             \/ UpgradeChunks \/ UnifyDictionaries \/ SpillRows
    <3>1. phase' # "ok" /\ phase' # "err"
      BY <2>3 DEF ParseRow, EndChunk, ChunkFails, UpgradeChunks, UnifyDictionaries, SpillRows
    <3> QED
      BY <2>1, <3>1 DEF Exact
  <2>4. CASE UNCHANGED vars
    <3>1. (Troubled <=> Troubled') /\ phase' = phase
      BY <2>4 DEF vars, Troubled, SomeFailed, AnyStrict, Conflicting, Chunks
    <3> QED
      BY <1>2, <2>1, <3>1 DEF Exact
  <2>5. CASE CollectFails \/ ExportChunks \/ ExportUnified \/ MergeChunks \/ CollectBatches
    BY <1>2, <2>1, <2>2, <2>5, CollectFailsExactly, ExportsExactly, MergesExactly, CollectsExactly
  <2> QED
    BY <1>2, <2>1, <2>3, <2>4, <2>5 DEF Next
<1> QED
  BY <1>1, <1>2, ExactErrors, PTL DEF Spec
=============================================================================
