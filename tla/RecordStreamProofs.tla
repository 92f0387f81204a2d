-------------------------- MODULE RecordStreamProofs --------------------------
(***************************************************************************)
(* Proofs about RecordStream, for every format, every input, every limit   *)
(* and every size of the reads, the pieces of a feed and the chunks: a     *)
(* compressed file is read to its end exactly when it is within the limit, *)
(* and a live feed and a split file yield the records of the whole input.  *)
(***************************************************************************)
EXTENDS RecordStream, Induction, SequenceTheorems, TLAPS

\* What has been read and what may still be read make up the limit.
ReadInv ==
  /\ Len(input) \in Nat /\ taken \in Nat /\ taken <= Len(input) /\ remaining \in Nat
  /\ phase \in {"new", "mapped", "stream", "eof"} => remaining = Limit
  /\ phase = "new" => taken = 0
  /\ phase \in {"reading", "read"} => taken + remaining = Limit
  /\ phase = "read" => taken = Len(input)
  /\ phase = "over" => Len(input) > Limit

LEMMA InitReads ==
  ASSUME Init
  PROVE  ReadInv
<1>1. PICK k \in Formats : input \in UNION {[1..n -> k.alphabet] : n \in 0..k.longest}
  BY DEF Init
<1>2. PICK n \in 0..k.longest : input \in [1..n -> k.alphabet]
  BY <1>1
<1>3. n \in Nat
  BY StreamAssumption
<1>4. Len(input) = n
  BY <1>2, <1>3
<1> QED
  BY <1>3, <1>4, StreamAssumption DEF Init, ReadInv

(* One read takes what the limit leaves, or fails because there is more.    *)
LEMMA ReadStep ==
  ASSUME ReadInv, read
  PROVE  ReadInv'
<1>1. PICK length \in 1..MaxRead : \E n \in 0..AtMost(allowed(length), Len(input) - taken) :
        /\ n = 0 => taken = Len(input) \/ allowed(length) = 0
        /\ IF n > remaining
             THEN phase' = "over" /\ remaining' = 0 /\ UNCHANGED taken
             ELSE /\ phase' = IF n = 0 THEN "read" ELSE "reading"
                  /\ remaining' = remaining - n
                  /\ taken' = taken + n
  BY DEF read
<1>2. PICK n \in 0..AtMost(allowed(length), Len(input) - taken) :
        /\ n = 0 => taken = Len(input) \/ allowed(length) = 0
        /\ IF n > remaining
             THEN phase' = "over" /\ remaining' = 0 /\ UNCHANGED taken
             ELSE /\ phase' = IF n = 0 THEN "read" ELSE "reading"
                  /\ remaining' = remaining - n
                  /\ taken' = taken + n
  BY <1>1
<1>3. /\ phase = "reading" /\ UNCHANGED input
      /\ Len(input) \in Nat /\ taken \in Nat /\ taken <= Len(input) /\ remaining \in Nat
      /\ taken + remaining = Limit
  BY DEF read, ReadInv
<1>4. length \in Nat /\ length >= 1
  BY StreamAssumption
<1>5. allowed(length) \in Nat /\ allowed(length) >= 1
  BY <1>3, <1>4 DEF allowed, AtMost
<1>6. n \in Nat /\ n <= Len(input) - taken
  BY <1>3, <1>5 DEF AtMost
<1>7. CASE n > remaining
  <2>1. Len(input) > Limit
    BY <1>3, <1>6, <1>7
  <2> QED
    BY <1>2, <1>3, <1>7, <2>1 DEF ReadInv
<1>8. CASE ~(n > remaining)
  <2>1. /\ phase' = IF n = 0 THEN "read" ELSE "reading"
        /\ remaining' = remaining - n /\ taken' = taken + n
    BY <1>2, <1>8
  <2>2. n = 0 => taken = Len(input)
    BY <1>2, <1>5
  <2> QED
    BY <1>3, <1>6, <1>8, <2>1, <2>2, StreamAssumption DEF ReadInv
<1> QED
  BY <1>7, <1>8

LEMMA StepReads ==
  ASSUME ReadInv, [Next]_vars
  PROVE  ReadInv'
<1> USE StreamAssumption
<1>1. CASE open
  BY <1>1 DEF open, ReadInv
<1>2. CASE Split
  BY <1>2 DEF Split, ReadInv
<1>3. CASE feed
  <2>1. PICK n \in 1..(Len(input) - taken) : taken' = taken + n
    BY <1>3 DEF feed
  <2> QED
    BY <1>3, <2>1 DEF feed, ReadInv
<1>4. CASE finish
  BY <1>4 DEF finish, ReadInv
<1>5. CASE parse
  BY <1>5 DEF parse, ReadInv
<1>6. CASE parse_fails
  BY <1>6 DEF parse_fails, ReadInv
<1>7. CASE UNCHANGED vars
  BY <1>7 DEF vars, ReadInv
<1> QED
  BY <1>1, <1>2, <1>3, <1>4, <1>5, <1>6, <1>7, ReadStep DEF Next

(* Whatever sizes the reader below returns, a decompressed file is read to  *)
(* its end exactly when it is within the limit (LimitReader::read).         *)
THEOREM ReaderKeepsLimit == Spec => []LimitExact
<1>1. ReadInv => LimitExact
  BY StreamAssumption DEF ReadInv, LimitExact
<1>2. ReadInv /\ [Next]_vars => ReadInv'
  BY StepReads
<1> QED
  BY InitReads, <1>1, <1>2, PTL DEF Spec
-----------------------------------------------------------------------------
(* The format, read one byte at a time.                                     *)

\* What a parser may remember of an input over the letters A.
Readers(f, A) ==
  [recs : Seq(Seq(A)), rec : Seq(A), line : Seq(A), glue : BOOLEAN,
   await : {"none"} \cup {r[2] : r \in f.regions}]

\* The text of the line that is being read.
LineText(s) ==
  IF s.line # <<>> /\ Last(s.line) = "CR" THEN Front(s.line) ELSE s.line

\* What the end of a line may leave: the line dropped, added to the record,
\* added with more to come, or added as a line of a paragraph.
Dropped(s) == [s EXCEPT !.line = <<>>, !.glue = FALSE]
Added(s)   == [Dropped(s) EXCEPT !.rec = s.rec \o LineText(s)]
Going(s)   == [Dropped(s) EXCEPT !.rec = s.rec \o Front(LineText(s)), !.glue = TRUE]
InPara(s)  == [Added(s) EXCEPT !.rec = Append(s.rec \o LineText(s), "LF")]

\* A byte of a line, after which the parser awaits w.
Kept(s, c, w) == [s EXCEPT !.line = Append(s.line, c), !.await = w]

(* The piece of a sequence between two positions.                           *)
LEMMA Piece ==
  ASSUME NEW S, NEW s \in Seq(S), NEW m \in Nat, NEW n \in Int, 1 <= m, n <= Len(s)
  PROVE  /\ SubSeq(s, m, n) \in Seq(S)
         /\ Len(SubSeq(s, m, n)) = IF m <= n THEN n - m + 1 ELSE 0
         /\ \A i \in 1..(n - m + 1) : SubSeq(s, m, n)[i] = s[m + i - 1]
<1>1. \A i \in m..n : s[i] \in S
  OBVIOUS
<1> QED
  BY <1>1, SubSeqProperties

(* The first elements of a sequence.                                        *)
LEMMA PrefixOf ==
  ASSUME NEW S, NEW s \in Seq(S), NEW n \in 0..Len(s)
  PROVE  /\ SubSeq(s, 1, n) \in Seq(S)
         /\ Len(SubSeq(s, 1, n)) = n
         /\ \A i \in 1..n : SubSeq(s, 1, n)[i] = s[i]
<1>1. /\ SubSeq(s, 1, n) \in Seq(S)
      /\ Len(SubSeq(s, 1, n)) = IF 1 <= n THEN n - 1 + 1 ELSE 0
      /\ \A i \in 1..(n - 1 + 1) : SubSeq(s, 1, n)[i] = s[1 + i - 1]
  BY Piece
<1>2. ASSUME NEW i \in 1..n
      PROVE  i \in 1..(n - 1 + 1) /\ 1 + i - 1 = i
  OBVIOUS
<1>3. \A i \in 1..n : SubSeq(s, 1, n)[i] = s[i]
  BY <1>1, <1>2
<1> QED
  BY <1>1, <1>3

(* A sequence without its last element.                                     *)
LEMMA FrontOf ==
  ASSUME NEW S, NEW s \in Seq(S)
  PROVE  /\ Front(s) \in Seq(S)
         /\ s # <<>> => Len(Front(s)) = Len(s) - 1
         /\ \A i \in 1..(Len(s) - 1) : Front(s)[i] = s[i]
<1>1. CASE s = <<>>
  <2>1. Front(s) = <<>>
    BY <1>1, SubSeqEmpty DEF Front
  <2> QED
    BY <1>1, <2>1
<1>2. CASE s # <<>>
  <2>1. Len(s) - 1 \in 0..Len(s)
    BY <1>2
  <2> QED
    BY <2>1, PrefixOf DEF Front
<1> QED
  BY <1>1, <1>2

(* What a parser remembers keeps its form.                                  *)
LEMMA NothingReads ==
  ASSUME NEW f, NEW A
  PROVE  NothingRead \in Readers(f, A)
BY DEF NothingRead, Readers

LEMMA RecordEnds ==
  ASSUME NEW f, NEW A, NEW s \in Readers(f, A)
  PROVE  /\ EndRecord(s) \in Readers(f, A)
         /\ EndRecord(s).rec = <<>>
         /\ EndRecord(s).line = s.line
         /\ EndRecord(s).glue = s.glue
         /\ EndRecord(s).await = s.await
         /\ EndRecord(s).recs = IF s.rec = <<>> THEN s.recs ELSE Append(s.recs, s.rec)
<1> DEFINE recs == IF s.rec = <<>> THEN s.recs ELSE Append(s.recs, s.rec)
<1>1. recs \in Seq(Seq(A)) /\ <<>> \in Seq(A)
  BY DEF Readers
<1>2. EndRecord(s) = [s EXCEPT !.recs = recs, !.rec = <<>>]
  BY DEF EndRecord, Readers
<1> HIDE DEF recs
<1>3. /\ EndRecord(s) \in Readers(f, A)
      /\ EndRecord(s).rec = <<>>
      /\ EndRecord(s).line = s.line
      /\ EndRecord(s).glue = s.glue
      /\ EndRecord(s).await = s.await
      /\ EndRecord(s).recs = recs
  BY <1>1, <1>2 DEF Readers
<1> QED
  BY <1>3 DEF recs

(* The end of a line, by what the line says.                                *)
LEMMA LineEnds ==
  ASSUME NEW f, NEW A, "LF" \in A, NEW s \in Readers(f, A)
  PROVE  /\ LineText(s) \in Seq(A)
         /\ {Dropped(s), Added(s), Going(s), InPara(s)} \subseteq Readers(f, A)
         /\ \A t \in {Dropped(s), Added(s), Going(s), InPara(s)} :
              t.line = <<>> /\ t.await = s.await /\ t.recs = s.recs
         /\ Dropped(s).rec = s.rec /\ ~Dropped(s).glue /\ ~Added(s).glue
         /\ EndLine(f, s) =
              IF /\ f.comments /\ ~s.glue
                 /\ LineText(s) # <<>> /\ LineText(s)[1] = "#" THEN Dropped(s)
              ELSE IF GoesOn(f, LineText(s)) THEN Going(s)
              ELSE IF ~f.blank THEN EndRecord(Added(s))
              ELSE IF LineText(s) = <<>> /\ ~s.glue THEN EndRecord(Dropped(s))
              ELSE InPara(s)
<1> DEFINE text == LineText(s)
           next == [s EXCEPT !.line = <<>>, !.glue = FALSE]
           with == [next EXCEPT !.rec = s.rec \o text]
<1>1. text \in Seq(A)
  <2>1. s.line \in Seq(A)
    BY DEF Readers
  <2> QED
    BY <2>1, FrontOf DEF LineText
<1>2. /\ s.rec \o text \in Seq(A) /\ s.rec \o Front(text) \in Seq(A)
      /\ Append(s.rec \o text, "LF") \in Seq(A)
  <2>1. Front(text) \in Seq(A) /\ s.rec \in Seq(A)
    BY <1>1, FrontOf DEF Readers
  <2> QED
    BY <1>1, <2>1
<1>3. /\ Dropped(s) \in Readers(f, A)
      /\ Dropped(s).line = <<>> /\ Dropped(s).await = s.await
      /\ Dropped(s).rec = s.rec /\ ~Dropped(s).glue /\ Dropped(s).recs = s.recs
  <2>1. <<>> \in Seq(A) /\ FALSE \in BOOLEAN
    OBVIOUS
  <2> QED
    BY <2>1 DEF Readers, Dropped
<1>4. /\ Added(s) \in Readers(f, A) /\ ~Added(s).glue
      /\ Added(s).line = <<>> /\ Added(s).await = s.await /\ Added(s).recs = s.recs
  BY <1>2, <1>3 DEF Readers, Added
<1>5. /\ Going(s) \in Readers(f, A)
      /\ Going(s).line = <<>> /\ Going(s).await = s.await /\ Going(s).recs = s.recs
  BY <1>2, <1>3 DEF Readers, Going
<1>6. /\ InPara(s) \in Readers(f, A)
      /\ InPara(s).line = <<>> /\ InPara(s).await = s.await /\ InPara(s).recs = s.recs
  BY <1>2, <1>4 DEF Readers, InPara
<1>7. next.rec = s.rec /\ with.rec = s.rec \o text
  BY DEF Readers
<1>8. /\ [next EXCEPT !.rec = @ \o text] = with
      /\ [next EXCEPT !.rec = @ \o Front(text), !.glue = TRUE]
           = [next EXCEPT !.rec = s.rec \o Front(text), !.glue = TRUE]
      /\ [with EXCEPT !.rec = Append(@, "LF")]
           = [with EXCEPT !.rec = Append(s.rec \o text, "LF")]
  BY <1>7
<1>9. EndLine(f, s) =
        IF f.comments /\ ~s.glue /\ text # <<>> /\ text[1] = "#" THEN Dropped(s)
        ELSE IF GoesOn(f, text) THEN Going(s)
        ELSE IF ~f.blank THEN EndRecord(Added(s))
        ELSE IF text = <<>> /\ ~s.glue THEN EndRecord(Dropped(s))
        ELSE InPara(s)
  BY <1>8 DEF EndLine, LineText, Dropped, Added, Going, InPara
<1> QED
  BY <1>1, <1>3, <1>4, <1>5, <1>6, <1>9

(* However a line ends, the next one begins.                                *)
LEMMA LineReads ==
  ASSUME NEW f, NEW A, "LF" \in A, NEW s \in Readers(f, A)
  PROVE  /\ EndLine(f, s) \in Readers(f, A)
         /\ EndLine(f, s).line = <<>>
         /\ EndLine(f, s).await = s.await
<1>1. /\ {Dropped(s), Added(s), Going(s), InPara(s)} \subseteq Readers(f, A)
      /\ \A t \in {Dropped(s), Added(s), Going(s), InPara(s)} :
           t.line = <<>> /\ t.await = s.await
      /\ EndLine(f, s) \in
           {Dropped(s), Going(s), EndRecord(Added(s)), EndRecord(Dropped(s)), InPara(s)}
  BY LineEnds
<1>2. \A t \in {Added(s), Dropped(s)} :
        /\ EndRecord(t) \in Readers(f, A)
        /\ EndRecord(t).line = <<>> /\ EndRecord(t).await = s.await
  BY <1>1, RecordEnds
<1> QED
  BY <1>1, <1>2

(* A byte that a line keeps.                                                *)
LEMMA Keeps ==
  ASSUME NEW f, NEW A, NEW s \in Readers(f, A), NEW c \in A,
         NEW w \in {"none"} \cup {r[2] : r \in f.regions}
  PROVE  /\ Kept(s, c, w) \in Readers(f, A)
         /\ Kept(s, c, w).line = Append(s.line, c) /\ Kept(s, c, w).line # <<>>
         /\ Kept(s, c, w).await = w
         /\ Kept(s, c, w).rec = s.rec /\ Kept(s, c, w).glue = s.glue
<1>1. s.line \in Seq(A)
  BY DEF Readers
<1>2. Append(s.line, c) \in Seq(A) /\ Append(s.line, c) # <<>>
  BY <1>1, AppendProperties
<1> QED
  BY <1>2 DEF Kept, Readers

(* One byte: into the line, into or out of a region, or the end of a line.  *)
LEMMA ByteReads ==
  ASSUME NEW f, NEW A, "LF" \in A, NEW s \in Readers(f, A), NEW c \in A
  PROVE  /\ ReadByte(f, s, c) \in Readers(f, A)
         /\ \/ /\ s.await # "none"
               /\ ReadByte(f, s, c) = Kept(s, c, IF c = s.await THEN "none" ELSE s.await)
            \/ /\ s.await = "none"
               /\ \E r \in f.regions : r[1] = c /\ ReadByte(f, s, c) = Kept(s, c, r[2])
            \/ /\ s.await = "none" /\ ~(\E r \in f.regions : r[1] = c) /\ c # "LF"
               /\ ReadByte(f, s, c) = Kept(s, c, "none")
            \/ /\ s.await = "none" /\ ~(\E r \in f.regions : r[1] = c) /\ c = "LF"
               /\ ReadByte(f, s, c) = EndLine(f, s)
<1> DEFINE plain == [s EXCEPT !.line = Append(s.line, c)]
           opened == {r \in f.regions : r[1] = c}
           t == ReadByte(f, s, c)
           chosen == CHOOSE r \in opened : TRUE
<1>1. [s EXCEPT !.line = Append(@, c)] = plain
  BY DEF Readers
<1>2. t = IF s.await # "none"
            THEN [plain EXCEPT !.await = IF c = s.await THEN "none" ELSE s.await]
          ELSE IF opened # {} THEN [plain EXCEPT !.await = chosen[2]]
          ELSE IF c = "LF" THEN EndLine(f, s) ELSE plain
  BY <1>1 DEF ReadByte
<1>3. /\ s.await = "none" => plain = Kept(s, c, "none")
      /\ \A w : [plain EXCEPT !.await = w] = Kept(s, c, w)
  BY DEF Kept, Readers
<1>4. s.await \in {"none"} \cup {r[2] : r \in f.regions}
  BY DEF Readers
<1> HIDE DEF plain, t
<1>5. CASE s.await # "none"
  <2>1. t = Kept(s, c, IF c = s.await THEN "none" ELSE s.await)
    BY <1>2, <1>3, <1>5
  <2>2. t \in Readers(f, A)
    BY <1>4, <2>1, Keeps
  <2> QED
    BY <1>5, <2>1, <2>2 DEF t
<1>6. CASE s.await = "none" /\ opened # {}
  <2>1. chosen \in opened
    BY <1>6
  <2>2. chosen \in f.regions /\ chosen[1] = c
    BY <2>1
  <2>3. t = Kept(s, c, chosen[2])
    BY <1>2, <1>3, <1>6
  <2> HIDE DEF chosen
  <2>4. t \in Readers(f, A)
    BY <2>2, <2>3, Keeps
  <2> QED
    BY <1>6, <2>2, <2>3, <2>4 DEF t
<1>7. CASE s.await = "none" /\ opened = {}
  <2>1. ~(\E r \in f.regions : r[1] = c)
    BY <1>7
  <2>2. t = IF c = "LF" THEN EndLine(f, s) ELSE Kept(s, c, "none")
    BY <1>2, <1>3, <1>7
  <2>3. t \in Readers(f, A)
    BY <2>2, LineReads, Keeps
  <2> QED
    BY <1>7, <2>1, <2>2, <2>3 DEF t
<1> QED
  BY <1>5, <1>6, <1>7

\* What a parser remembers when records came before.
After(R, s) == [s EXCEPT !.recs = R \o s.recs]

(* The records read before a byte do not matter to what the byte does.      *)
LEMMA RecordEndAfter ==
  ASSUME NEW f, NEW A, NEW s \in Readers(f, A), NEW R \in Seq(Seq(A))
  PROVE  EndRecord(After(R, s)) = After(R, EndRecord(s))
<1>1. s.recs \in Seq(Seq(A)) /\ s.rec \in Seq(A)
  BY DEF Readers
<1>2. R \o Append(s.recs, s.rec) = Append(R \o s.recs, s.rec)
  BY <1>1
<1> DEFINE recs == IF s.rec = <<>> THEN s.recs ELSE Append(s.recs, s.rec)
           more == IF s.rec = <<>> THEN R \o s.recs ELSE Append(R \o s.recs, s.rec)
<1>3. more = R \o recs
  BY <1>2
<1>4. EndRecord(s) = [s EXCEPT !.recs = recs, !.rec = <<>>]
  BY DEF EndRecord, Readers
<1>5. EndRecord(After(R, s)) = [s EXCEPT !.recs = more, !.rec = <<>>]
  BY DEF EndRecord, After, Readers
<1> HIDE DEF recs, more
<1> QED
  BY <1>3, <1>4, <1>5 DEF After, Readers

LEMMA LineEndAfter ==
  ASSUME NEW f, NEW A, "LF" \in A, NEW s \in Readers(f, A), NEW R \in Seq(Seq(A))
  PROVE  EndLine(f, After(R, s)) = After(R, EndLine(f, s))
<1> DEFINE z == After(R, s)
<1>1. /\ z \in Readers(f, A) /\ z.line = s.line /\ z.glue = s.glue /\ z.rec = s.rec
  <2>1. R \o s.recs \in Seq(Seq(A))
    BY DEF Readers
  <2> QED
    BY <2>1 DEF After, Readers
<1>2. LineText(z) = LineText(s)
  BY <1>1 DEF LineText
<1>3. /\ Dropped(z) = After(R, Dropped(s)) /\ Added(z) = After(R, Added(s))
      /\ Going(z) = After(R, Going(s)) /\ InPara(z) = After(R, InPara(s))
  BY <1>1, <1>2 DEF Dropped, Added, Going, InPara, After, Readers
<1> HIDE DEF z
<1>4. /\ EndRecord(Added(z)) = After(R, EndRecord(Added(s)))
      /\ EndRecord(Dropped(z)) = After(R, EndRecord(Dropped(s)))
  BY <1>3, LineEnds, RecordEndAfter
<1>5. /\ EndLine(f, s) =
           IF /\ f.comments /\ ~s.glue
              /\ LineText(s) # <<>> /\ LineText(s)[1] = "#" THEN Dropped(s)
           ELSE IF GoesOn(f, LineText(s)) THEN Going(s)
           ELSE IF ~f.blank THEN EndRecord(Added(s))
           ELSE IF LineText(s) = <<>> /\ ~s.glue THEN EndRecord(Dropped(s))
           ELSE InPara(s)
  BY LineEnds
<1>6. /\ EndLine(f, z) =
           IF /\ f.comments /\ ~s.glue
              /\ LineText(s) # <<>> /\ LineText(s)[1] = "#" THEN Dropped(z)
           ELSE IF GoesOn(f, LineText(s)) THEN Going(z)
           ELSE IF ~f.blank THEN EndRecord(Added(z))
           ELSE IF LineText(s) = <<>> /\ ~s.glue THEN EndRecord(Dropped(z))
           ELSE InPara(z)
  BY <1>1, <1>2, LineEnds
<1> QED
  BY <1>3, <1>4, <1>5, <1>6 DEF z

LEMMA ByteAfter ==
  ASSUME NEW f, NEW A, "LF" \in A, NEW s \in Readers(f, A), NEW c \in A,
         NEW R \in Seq(Seq(A))
  PROVE  ReadByte(f, After(R, s), c) = After(R, ReadByte(f, s, c))
<1> DEFINE z == After(R, s)
           opened == {r \in f.regions : r[1] = c}
           chosen == CHOOSE r \in opened : TRUE
           plain(x) == [x EXCEPT !.line = Append(x.line, c)]
           went(x, w) == [plain(x) EXCEPT !.await = w]
           w1 == IF c = s.await THEN "none" ELSE s.await
           Read(x) == IF s.await # "none" THEN went(x, w1)
                      ELSE IF opened # {} THEN went(x, chosen[2])
                      ELSE IF c = "LF" THEN EndLine(f, x) ELSE plain(x)
<1>1. z.await = s.await /\ z.line = s.line
  BY DEF After, Readers
<1>2. ReadByte(f, s, c) = Read(s)
  BY DEF ReadByte, Readers
<1>3. ReadByte(f, z, c) = Read(z)
  BY <1>1 DEF ReadByte, Readers, After
<1>4. plain(z) = After(R, plain(s))
  BY DEF After, Readers
<1>5. \A w : went(z, w) = After(R, went(s, w))
  BY DEF After, Readers
<1>6. EndLine(f, z) = After(R, EndLine(f, s))
  BY LineEndAfter
<1> HIDE DEF z, plain, went, w1, chosen, opened
<1>7. Read(z) = After(R, Read(s))
  BY <1>4, <1>5, <1>6
<1> QED
  BY <1>2, <1>3, <1>7 DEF z

(* Reading an input is reading its bytes one after the other.               *)
IsReading(f, A, b, run) ==
  /\ run \in [0..Len(b) -> Readers(f, A)]
  /\ run[0] = NothingRead
  /\ \A n \in 1..Len(b) : run[n] = ReadByte(f, run[n - 1], b[n])
  /\ ReadAll(f, b) = run[Len(b)]

LEMMA Reading ==
  ASSUME NEW f, NEW A, "LF" \in A, NEW b \in Seq(A)
  PROVE  \E run : IsReading(f, A, b, run)
<1> DEFINE top == Len(b)
           V == Readers(f, A)
           Eqn(r) == r = [n \in 0..top |-> IF n = 0 THEN NothingRead
                                           ELSE ReadByte(f, r[n - 1], b[n])]
           step == [n \in 1..top |-> [s \in V |-> ReadByte(f, s, b[n])]]
<1>1. step \in Steps(top, V)
  <2>1. ASSUME NEW n \in 1..top, NEW s \in V
        PROVE  ReadByte(f, s, b[n]) \in V
    <3>1. b[n] \in A
      OBVIOUS
    <3> QED
      BY <3>1, ByteReads
  <2> HIDE DEF V
  <2> QED
    BY <2>1 DEF Steps
<1>2. top \in Nat /\ NothingRead \in V
  BY NothingReads
<1> HIDE DEF step, top, V
<1>3. PICK g : Iteration(g, top, V, NothingRead, step)
  BY <1>1, <1>2, IterationExists
<1> USE DEF Iteration
<1>4. ASSUME NEW n \in 1..top
      PROVE  g[n] = ReadByte(f, g[n - 1], b[n])
  <2>1. g[n - 1] \in V
    BY <1>2, <1>3
  <2> QED
    BY <1>3, <2>1 DEF step
<1>5. Eqn(g)
  BY <1>2, <1>3, <1>4
<1> DEFINE run == CHOOSE r : Eqn(r)
<1>6. Eqn(run)
  BY <1>5
<1>7. ReadAll(f, b) = run[top]
  BY DEF ReadAll, top
<1> HIDE DEF run
<1>8. /\ run[0] = NothingRead
      /\ \A n \in 1..top : run[n] = ReadByte(f, run[n - 1], b[n])
  <2>1. run[0] = NothingRead
    BY <1>2, <1>6
  <2>2. ASSUME NEW n \in 1..top
        PROVE  run[n] = ReadByte(f, run[n - 1], b[n])
    BY <1>2, <1>6
  <2> QED
    BY <2>1, <2>2
<1> DEFINE S == {n \in 0..top : run[n] = g[n]}
<1>9. 0 \in S
  BY <1>2, <1>3, <1>8
<1>10. ASSUME NEW n \in Nat, n < top, n \in S
       PROVE  n + 1 \in S
  <2>1. n + 1 \in 1..top /\ n + 1 \in 0..top /\ (n + 1) - 1 = n
    BY <1>2, <1>10
  <2>2. run[n + 1] = ReadByte(f, run[n], b[n + 1])
    BY <1>8, <2>1
  <2>3. g[n + 1] = ReadByte(f, g[n], b[n + 1])
    BY <1>4, <2>1
  <2> QED
    BY <1>10, <2>1, <2>2, <2>3
<1> HIDE DEF S
<1>11. \A n \in 0..top : n \in S
  BY <1>2, <1>9, <1>10, IntervalInduction
<1> HIDE DEF Eqn
<1>12. \A n \in 0..top : run[n] = g[n]
  BY <1>11 DEF S
<1>13. ReadAll(f, b) = g[top]
  BY <1>2, <1>7, <1>12
<1> QED
  <2>1. IsReading(f, A, b, g)
    BY <1>3, <1>4, <1>13 DEF top, V, IsReading
  <2> QED
    BY <2>1

LEMMA ReadNothing ==
  ASSUME NEW f, NEW A, "LF" \in A
  PROVE  ReadAll(f, <<>>) = NothingRead
<1> DEFINE b == <<>>
<1>1. b \in Seq(A) /\ Len(b) = 0 /\ "LF" \in A
  OBVIOUS
<1> HIDE DEF b
<1>2. PICK run : IsReading(f, A, b, run)
  BY <1>1, Reading
<1> QED
  BY <1>1, <1>2 DEF b, IsReading

LEMMA ReadAllReads ==
  ASSUME NEW f, NEW A, "LF" \in A, NEW b \in Seq(A)
  PROVE  ReadAll(f, b) \in Readers(f, A)
<1>1. Len(b) \in 0..Len(b)
  OBVIOUS
<1>2. PICK run : IsReading(f, A, b, run)
  BY Reading
<1> QED
  BY <1>1, <1>2 DEF IsReading

LEMMA ReadOneMore ==
  ASSUME NEW f, NEW A, "LF" \in A, NEW b \in Seq(A), NEW c \in A
  PROVE  ReadAll(f, Append(b, c)) = ReadByte(f, ReadAll(f, b), c)
<1> DEFINE d == Append(b, c)
           top == Len(b)
<1>1. /\ d \in Seq(A) /\ Len(d) = top + 1 /\ top \in Nat
      /\ d[top + 1] = c /\ \A n \in 1..top : d[n] = b[n]
  OBVIOUS
<1>2. PICK g : IsReading(f, A, b, g)
  BY Reading
<1> HIDE DEF d
<1>3. PICK h : IsReading(f, A, d, h)
  BY <1>1, Reading
<1> USE DEF IsReading
<1> HIDE DEF top
<1> DEFINE S == {n \in 0..top : h[n] = g[n]}
<1>4. 0 \in S
  BY <1>1, <1>2, <1>3
<1>5. ASSUME NEW n \in Nat, n < top, n \in S
      PROVE  n + 1 \in S
  <2>1. n + 1 \in 1..top /\ n + 1 \in 1..Len(d) /\ n + 1 \in 0..top /\ (n + 1) - 1 = n
    BY <1>1, <1>5
  <2>2. g[n + 1] = ReadByte(f, g[n], b[n + 1])
    BY <1>2, <2>1
  <2>3. h[n + 1] = ReadByte(f, h[n], d[n + 1])
    BY <1>3, <2>1
  <2>4. d[n + 1] = b[n + 1]
    BY <1>1, <2>1
  <2> QED
    BY <1>5, <2>1, <2>2, <2>3, <2>4
<1> HIDE DEF S
<1>6. \A n \in 0..top : n \in S
  BY <1>1, <1>4, <1>5, IntervalInduction
<1>7. h[top] = g[top]
  BY <1>1, <1>6 DEF S
<1>8. top + 1 \in 1..Len(d) /\ (top + 1) - 1 = top
  BY <1>1
<1>9. h[top + 1] = ReadByte(f, h[top], c)
  BY <1>1, <1>3, <1>8
<1> QED
  BY <1>1, <1>2, <1>3, <1>7, <1>9 DEF d

(* The same for the pieces an input begins with.                            *)
LEMMA NextPrefix ==
  ASSUME NEW A, NEW b \in Seq(A), NEW n \in Nat, n < Len(b)
  PROVE  /\ n + 1 \in 1..Len(b) /\ b[n + 1] \in A
         /\ SubSeq(b, 1, n) \in Seq(A) /\ SubSeq(b, 1, n + 1) \in Seq(A)
         /\ SubSeq(b, 1, n + 1) = Append(SubSeq(b, 1, n), b[n + 1])
<1>1. n \in 0..Len(b) /\ n + 1 \in 0..Len(b) /\ n + 1 \in 1..Len(b)
  OBVIOUS
<1> DEFINE p == SubSeq(b, 1, n)
           q == SubSeq(b, 1, n + 1)
           r == Append(p, b[n + 1])
<1>2. p \in Seq(A) /\ Len(p) = n /\ \A i \in 1..n : p[i] = b[i]
  BY <1>1, PrefixOf
<1>3. q \in Seq(A) /\ Len(q) = n + 1 /\ \A i \in 1..(n + 1) : q[i] = b[i]
  BY <1>1, PrefixOf
<1>4. b[n + 1] \in A
  BY <1>1
<1> HIDE DEF p, q
<1>5. r \in Seq(A) /\ Len(r) = n + 1 /\ \A i \in 1..(n + 1) : r[i] = b[i]
  BY <1>2, <1>4
<1> HIDE DEF r
<1>6. q = r
  BY <1>3, <1>5, SeqEqual
<1> QED
  BY <1>1, <1>2, <1>3, <1>4, <1>6 DEF p, q, r

LEMMA ReadPrefix ==
  ASSUME NEW f, NEW A, "LF" \in A, NEW b \in Seq(A), NEW n \in Nat, n < Len(b)
  PROVE  ReadAll(f, SubSeq(b, 1, n + 1)) = ReadByte(f, ReadAll(f, SubSeq(b, 1, n)), b[n + 1])
<1> DEFINE p == SubSeq(b, 1, n)
           c == b[n + 1]
<1>1. c \in A /\ p \in Seq(A) /\ SubSeq(b, 1, n + 1) = Append(p, c)
  BY NextPrefix
<1> HIDE DEF p, c
<1>2. ReadAll(f, Append(p, c)) = ReadByte(f, ReadAll(f, p), c)
  BY <1>1, ReadOneMore
<1> QED
  BY <1>1, <1>2 DEF p, c

\* In a region a line is open; without paragraphs only a continued line leaves
\* a record open at its end.
Sound(f, s) ==
  /\ s.await # "none" => s.line # <<>>
  /\ ~f.blank /\ ~s.glue => s.rec = <<>>

LEMMA ByteSound ==
  ASSUME NEW f, NEW A, "LF" \in A, NEW s \in Readers(f, A), NEW c \in A, Sound(f, s)
  PROVE  Sound(f, ReadByte(f, s, c))
<1> DEFINE t == ReadByte(f, s, c)
<1>1. ASSUME NEW w \in {"none"} \cup {r[2] : r \in f.regions}, t = Kept(s, c, w)
      PROVE  Sound(f, t)
  <2>1. t.line # <<>> /\ t.rec = s.rec /\ t.glue = s.glue
    BY <1>1, Keeps
  <2> HIDE DEF t
  <2> QED
    BY <2>1 DEF Sound
<1>2. ASSUME t = EndLine(f, s), s.await = "none"
      PROVE  Sound(f, t)
  <2>1. t.await = "none" /\ t \in Readers(f, A)
    BY <1>2, LineReads
  <2>2. /\ Dropped(s) \in Readers(f, A) /\ Added(s) \in Readers(f, A)
        /\ Dropped(s).rec = s.rec
        /\ ~f.blank => \/ t = Dropped(s) /\ ~s.glue
                       \/ t = Going(s)
                       \/ t = EndRecord(Added(s))
    BY <1>2, LineEnds
  <2>3. Going(s).glue
    BY DEF Going, Dropped, Readers
  <2>4. EndRecord(Added(s)).rec = <<>>
    BY <2>2, RecordEnds
  <2> HIDE DEF t
  <2>5. ~f.blank => t.glue \/ t.rec = <<>>
    BY <2>2, <2>3, <2>4 DEF Sound
  <2> QED
    BY <2>1, <2>5 DEF Sound
<1>3. s.await \in {"none"} \cup {r[2] : r \in f.regions}
  BY DEF Readers
<1>4. \/ t = Kept(s, c, "none") \/ t = Kept(s, c, s.await)
      \/ \E r \in f.regions : t = Kept(s, c, r[2])
      \/ t = EndLine(f, s) /\ s.await = "none"
  <2> HIDE DEF t
  <2>1. \/ t = Kept(s, c, IF c = s.await THEN "none" ELSE s.await)
        \/ \E r \in f.regions : r[1] = c /\ t = Kept(s, c, r[2])
        \/ t = Kept(s, c, "none")
        \/ t = EndLine(f, s) /\ s.await = "none"
    BY ByteReads DEF t
  <2> QED
    BY <2>1
<1> HIDE DEF t
<1>5. Sound(f, t)
  BY <1>1, <1>2, <1>3, <1>4
<1> QED
  BY <1>5 DEF t

LEMMA AllSound ==
  ASSUME NEW f, NEW A, "LF" \in A, NEW b \in Seq(A)
  PROVE  Sound(f, ReadAll(f, b))
<1> DEFINE top == Len(b)
           S == {n \in 0..top : Sound(f, ReadAll(f, SubSeq(b, 1, n)))}
<1>1. top \in Nat
  OBVIOUS
<1>2. 0 \in S
  <2>1. SubSeq(b, 1, 0) = <<>>
    BY SubSeqEmpty
  <2>2. Sound(f, NothingRead)
    BY DEF Sound, NothingRead
  <2>3. ReadAll(f, SubSeq(b, 1, 0)) = NothingRead
    BY <2>1, ReadNothing
  <2>4. 0 \in 0..top
    BY <1>1
  <2> QED
    BY <2>2, <2>3, <2>4
<1>3. ASSUME NEW n \in Nat, n < top, n \in S
      PROVE  n + 1 \in S
  <2> DEFINE p == SubSeq(b, 1, n)
  <2>1. p \in Seq(A) /\ b[n + 1] \in A
    BY <1>3, NextPrefix
  <2>2. ReadAll(f, SubSeq(b, 1, n + 1)) = ReadByte(f, ReadAll(f, p), b[n + 1])
    BY <1>3, ReadPrefix
  <2> HIDE DEF p
  <2>3. ReadAll(f, p) \in Readers(f, A)
    BY <2>1, ReadAllReads
  <2>4. Sound(f, ReadAll(f, p))
    BY <1>3 DEF p
  <2>5. Sound(f, ReadByte(f, ReadAll(f, p), b[n + 1]))
    BY <2>1, <2>3, <2>4, ByteSound
  <2>6. n + 1 \in 0..top
    BY <1>3
  <2> QED
    BY <2>2, <2>5, <2>6
<1> HIDE DEF S
<1>4. \A n \in 0..top : n \in S
  <2> HIDE DEF top
  <2> QED
    BY <1>1, <1>2, <1>3, IntervalInduction
<1>5. SubSeq(b, 1, top) = b
  BY SubSeqFull
<1>6. top \in S
  BY <1>1, <1>4
<1> QED
  BY <1>5, <1>6 DEF S

\* The records R have been read, and no more.
Between(R) ==
  [recs |-> R, rec |-> <<>>, line |-> <<>>, glue |-> FALSE, await |-> "none"]

(* Between records a parser remembers the records and nothing else.         *)
LEMMA CompleteReads ==
  ASSUME NEW f, NEW A, "LF" \in A, NEW b \in Seq(A), Complete(f, b)
  PROVE  /\ Records(f, b) \in Seq(Seq(A))
         /\ ReadAll(f, b) = Between(Records(f, b))
<1> DEFINE s == ReadAll(f, b)
<1>1. s \in Readers(f, A) /\ Sound(f, s)
  BY ReadAllReads, AllSound
<1>2. s.rec = <<>> /\ s.line = <<>> /\ s.glue = FALSE
  BY <1>1 DEF Complete, Readers
<1>3. Records(f, b) = EndRecord(s).recs
  BY <1>2 DEF Records
<1> HIDE DEF s
<1>4. s.await = "none"
  BY <1>1, <1>2 DEF Sound
<1>5. Records(f, b) = s.recs
  BY <1>1, <1>2, <1>3, RecordEnds
<1>6. s = Between(s.recs)
  <2>1. s = [recs |-> s.recs, rec |-> s.rec, line |-> s.line, glue |-> s.glue,
             await |-> s.await]
    BY <1>1 DEF Readers
  <2> QED
    BY <1>2, <1>4, <2>1 DEF Between
<1>7. s.recs \in Seq(Seq(A))
  BY <1>1 DEF Readers
<1> QED
  BY <1>5, <1>6, <1>7 DEF s

(* What comes after complete records is read as if nothing came before.     *)
LEMMA ReadAfter ==
  ASSUME NEW f, NEW A, "LF" \in A, NEW b \in Seq(A), NEW c \in Seq(A), Complete(f, b)
  PROVE  ReadAll(f, b \o c) = After(Records(f, b), ReadAll(f, c))
<1> DEFINE R == Records(f, b)
           top == Len(c)
           Upto(n) == SubSeq(c, 1, n)
           S == {n \in 0..top :
                   ReadAll(f, b \o Upto(n)) = After(R, ReadAll(f, Upto(n)))}
<1>1. /\ R \in Seq(Seq(A)) /\ ReadAll(f, b) = Between(R)
  BY CompleteReads
<1>2. top \in Nat
  OBVIOUS
<1>3. 0 \in S
  <2>1. Upto(0) = <<>> /\ b \o <<>> = b
    BY SubSeqEmpty, ConcatEmptySeq
  <2>2. ReadAll(f, Upto(0)) = NothingRead /\ ReadAll(f, b \o Upto(0)) = Between(R)
    BY <1>1, <2>1, ReadNothing
  <2>3. R \o <<>> = R
    BY <1>1, ConcatEmptySeq
  <2>4. After(R, NothingRead) = Between(R)
    <3> HIDE DEF R
    <3>1. NothingRead.recs = <<>>
      BY DEF NothingRead
    <3>2. After(R, NothingRead) = [NothingRead EXCEPT !.recs = R]
      BY <2>3, <3>1 DEF After
    <3> QED
      BY <3>2 DEF NothingRead, Between
  <2>5. 0 \in 0..top
    BY <1>2
  <2> HIDE DEF R, Upto
  <2> QED
    BY <2>2, <2>4, <2>5
<1>4. ASSUME NEW n \in Nat, n < top, n \in S
      PROVE  n + 1 \in S
  <2> DEFINE p == Upto(n)
             x == c[n + 1]
  <2>1. x \in A /\ p \in Seq(A) /\ Upto(n + 1) = Append(p, x)
    BY <1>4, NextPrefix
  <2>2. ReadAll(f, b \o p) = After(R, ReadAll(f, p))
    BY <1>4
  <2> HIDE DEF p, x, Upto, R
  <2>3. b \o p \in Seq(A) /\ b \o Append(p, x) = Append(b \o p, x)
    BY <2>1
  <2>4. ReadAll(f, p) \in Readers(f, A)
    BY <2>1, ReadAllReads
  <2>5. ReadAll(f, Append(p, x)) = ReadByte(f, ReadAll(f, p), x)
    BY <2>1, ReadOneMore
  <2>6. ReadAll(f, Append(b \o p, x)) = ReadByte(f, ReadAll(f, b \o p), x)
    <3> DEFINE bp == b \o p
    <3>1. bp \in Seq(A)
      BY <2>3
    <3> HIDE DEF bp
    <3>2. ReadAll(f, Append(bp, x)) = ReadByte(f, ReadAll(f, bp), x)
      BY <2>1, <3>1, ReadOneMore
    <3> QED
      BY <3>2 DEF bp
  <2>7. ReadByte(f, After(R, ReadAll(f, p)), x) = After(R, ReadByte(f, ReadAll(f, p), x))
    BY <1>1, <2>1, <2>4, ByteAfter
  <2>8. n + 1 \in 0..top
    BY <1>2, <1>4
  <2> QED
    BY <2>1, <2>2, <2>3, <2>5, <2>6, <2>7, <2>8
<1> HIDE DEF S
<1>5. \A n \in 0..top : n \in S
  <2> HIDE DEF top
  <2> QED
    BY <1>2, <1>3, <1>4, IntervalInduction
<1>6. Upto(top) = c
  BY SubSeqFull
<1>7. top \in S
  BY <1>2, <1>5
<1> QED
  BY <1>6, <1>7 DEF S

LEMMA RecordsSeq ==
  ASSUME NEW f, NEW A, "LF" \in A, NEW b \in Seq(A)
  PROVE  Records(f, b) \in Seq(Seq(A))
<1> DEFINE s == ReadAll(f, b)
           u == [s EXCEPT !.await = "none"]
           last == IF s.line = <<>> THEN s ELSE EndLine(f, u)
<1>1. s \in Readers(f, A)
  BY ReadAllReads
<1>2. u \in Readers(f, A)
  BY <1>1 DEF Readers
<1> HIDE DEF s, u
<1>3. last \in Readers(f, A)
  BY <1>1, <1>2, LineReads
<1>4. Records(f, b) = EndRecord(last).recs
  BY DEF Records, s, u
<1> HIDE DEF last
<1>5. EndRecord(last) \in Readers(f, A)
  BY <1>3, RecordEnds
<1> QED
  BY <1>4, <1>5 DEF Readers

(* The records of complete records and what follows: one after the other.   *)
LEMMA RecordsAfter ==
  ASSUME NEW f, NEW A, "LF" \in A, NEW b \in Seq(A), NEW c \in Seq(A), Complete(f, b)
  PROVE  /\ Records(f, b \o c) = Records(f, b) \o Records(f, c)
         /\ Complete(f, b \o c) <=> Complete(f, c)
<1> DEFINE R == Records(f, b)
           s == ReadAll(f, c)
           z == ReadAll(f, b \o c)
           clear(x) == [x EXCEPT !.await = "none"]
           last(x) == IF s.line = <<>> THEN x ELSE EndLine(f, clear(x))
<1>1. R \in Seq(Seq(A))
  BY CompleteReads
<1>2. s \in Readers(f, A)
  BY ReadAllReads
<1>3. z = After(R, s)
  BY ReadAfter
<1> HIDE DEF R, s, z
<1>4. z.line = s.line /\ z.rec = s.rec /\ z.glue = s.glue
  BY <1>2, <1>3 DEF After, Readers
<1>5. clear(s) \in Readers(f, A) /\ clear(z) = After(R, clear(s))
  BY <1>2, <1>3 DEF After, Readers
<1>6. Records(f, c) = EndRecord(last(s)).recs
  BY DEF Records, s
<1>7. Records(f, b \o c) = EndRecord(last(z)).recs
  BY <1>4 DEF Records, z
<1> HIDE DEF clear
<1>8. last(s) \in Readers(f, A) /\ last(z) = After(R, last(s))
  BY <1>1, <1>2, <1>3, <1>5, LineReads, LineEndAfter
<1> HIDE DEF last
<1>9. EndRecord(last(z)) = After(R, EndRecord(last(s)))
  BY <1>1, <1>8, RecordEndAfter
<1>10. EndRecord(last(s)) \in Readers(f, A)
  BY <1>8, RecordEnds
<1>11. After(R, EndRecord(last(s))).recs = R \o EndRecord(last(s)).recs
  BY <1>10 DEF After, Readers
<1>12. Records(f, b \o c) = R \o Records(f, c)
  BY <1>6, <1>7, <1>9, <1>11
<1>13. Complete(f, b \o c) <=> Complete(f, c)
  BY <1>4 DEF Complete, s, z
<1> QED
  BY <1>12, <1>13 DEF R

LEMMA CompleteNothing ==
  ASSUME NEW f, NEW A, "LF" \in A
  PROVE  Complete(f, <<>>) /\ Records(f, <<>>) = <<>>
<1>1. ReadAll(f, <<>>) = NothingRead
  BY ReadNothing
<1>2. EndRecord(NothingRead).recs = <<>>
  BY DEF EndRecord, NothingRead
<1>3. NothingRead.rec = <<>> /\ NothingRead.line = <<>> /\ ~NothingRead.glue
  BY DEF NothingRead
<1> QED
  BY <1>1, <1>2, <1>3 DEF Complete, Records
-----------------------------------------------------------------------------
LEMMA PrefixOfConcat ==
  ASSUME NEW S, NEW s \in Seq(S), NEW t \in Seq(S)
  PROVE  IsPrefix(s, s \o t)
<1> DEFINE u == s \o t
<1>1. /\ u \in Seq(S) /\ Len(u) = Len(s) + Len(t)
      /\ \A n \in 1..Len(u) : u[n] = IF n <= Len(s) THEN s[n] ELSE t[n - Len(s)]
  BY ConcatProperties
<1> HIDE DEF u
<1> DEFINE p == SubSeq(s, 1, Len(s))
           q == SubSeq(u, 1, Len(s))
<1>2. Len(s) \in 0..Len(s) /\ Len(s) \in 0..Len(u)
  BY <1>1
<1>3. p \in Seq(S) /\ Len(p) = Len(s) /\ \A n \in 1..Len(s) : p[n] = s[n]
  BY <1>2, PrefixOf
<1>4. q \in Seq(S) /\ Len(q) = Len(s) /\ \A n \in 1..Len(s) : q[n] = u[n]
  BY <1>1, <1>2, PrefixOf
<1> HIDE DEF p, q
<1>5. \A n \in 1..Len(s) : u[n] = s[n]
  BY <1>1
<1>6. p = q
  BY <1>3, <1>4, <1>5, SeqEqual
<1> QED
  BY <1>1, <1>6 DEF IsPrefix, p, q, u
-----------------------------------------------------------------------------
(* A live feed.                                                             *)

\* The letters of every format.
Bytes == {"LF"} \cup UNION {k.alphabet : k \in Formats}

\* What the caller has and what the buffer still holds make up what was fed;
\* the parser stops between records until the end of the feed is announced.
FeedInv ==
  /\ \E k \in Formats : fmt = k.format
  /\ input \in Seq(Bytes) /\ emitted \in Seq(Seq(Bytes))
  /\ phase \notin {"stream", "eof", "err"} =>
       /\ phase \in {"new", "mapped", "reading", "read", "over", "split"}
       /\ emitted = <<>> /\ consumed = 0 /\ buffer = <<>> /\ start = 0 /\ ~eof
  /\ phase \in {"new", "stream", "eof"} =>
       /\ buffer \in Seq(Bytes) /\ start \in 0..Len(buffer)
       /\ consumed \in 0..taken
       /\ pending = Cut(input, consumed, taken)
       /\ emitted = Records(fmt, Cut(input, 0, consumed))
  /\ phase \in {"new", "stream"} => Complete(fmt, Cut(input, 0, consumed))
  /\ phase \in {"stream", "eof"} /\ eof => taken = Len(input)
  /\ phase = "eof" => consumed = Len(input)
  /\ IsPrefix(emitted, Records(fmt, input))

LEMMA BytesFact == "LF" \in Bytes
BY DEF Bytes

LEMMA NoRecordsFirst ==
  ASSUME input \in Seq(Bytes)
  PROVE  /\ <<>> \in Seq(Seq(Bytes))
         /\ IsPrefix(<<>>, Records(fmt, input))
         /\ Cut(input, 0, 0) = <<>>
         /\ Complete(fmt, <<>>) /\ Records(fmt, <<>>) = <<>>
<1> DEFINE R == Records(fmt, input)
           e == <<>>
<1>1. R \in Seq(Seq(Bytes)) /\ e \in Seq(Seq(Bytes))
  BY BytesFact, RecordsSeq
<1>2. e \o R = R
  BY <1>1, ConcatEmptySeq
<1> HIDE DEF R, e
<1>3. IsPrefix(e, e \o R)
  BY <1>1, PrefixOfConcat
<1>4. Cut(input, 0, 0) = <<>>
  BY CutNothing
<1>5. Complete(fmt, <<>>) /\ Records(fmt, <<>>) = <<>>
  BY BytesFact, CompleteNothing
<1> QED
  BY <1>1, <1>2, <1>3, <1>4, <1>5 DEF R, e

LEMMA InitFeeds ==
  ASSUME Init
  PROVE  FeedInv
<1>1. PICK k \in Formats :
        fmt = k.format /\ input \in UNION {[1..n -> k.alphabet] : n \in 0..k.longest}
  BY DEF Init
<1>2. PICK n \in 0..k.longest : input \in [1..n -> k.alphabet]
  BY <1>1
<1>3. input \in Seq(Bytes)
  <2>1. n \in Nat /\ k.alphabet \subseteq Bytes
    BY StreamAssumption DEF Bytes
  <2>2. input \in [1..n -> Bytes]
    BY <1>2, <2>1
  <2> QED
    BY <2>1, <2>2
<1>4. /\ <<>> \in Seq(Seq(Bytes))
      /\ IsPrefix(<<>>, Records(fmt, input))
      /\ Cut(input, 0, 0) = <<>>
      /\ Complete(fmt, <<>>) /\ Records(fmt, <<>>) = <<>>
  BY <1>3, NoRecordsFirst
<1>5. /\ phase = "new" /\ taken = 0 /\ buffer = <<>> /\ start = 0 /\ eof = FALSE
      /\ emitted = <<>> /\ consumed = 0
  BY DEF Init
<1>6. buffer \in Seq(Bytes) /\ start \in 0..Len(buffer) /\ consumed \in 0..taken
  BY <1>5
<1>7. pending = <<>>
  BY <1>5, SubSeqEmpty DEF pending
<1> QED
  BY <1>1, <1>3, <1>4, <1>5, <1>6, <1>7 DEF FeedInv

(* What a parser may take from the buffer: complete records, or the rest;   *)
(* its records are the next ones of the input.                              *)
LEMMA Available ==
  ASSUME ReadInv, FeedInv, phase = "stream"
  PROVE  LET n == parse_available(pending)
             to == consumed + n
             records == Records(fmt, SubSeq(pending, 1, n))
         IN /\ n \in 0..Len(pending) /\ to \in Nat /\ to <= taken
            /\ pending \in Seq(Bytes) /\ Len(pending) = taken - consumed
            /\ eof => to = Len(input)
            /\ ~eof => Complete(fmt, Cut(input, 0, to))
            /\ records \in Seq(Seq(Bytes))
            /\ emitted \o records = Records(fmt, Cut(input, 0, to))
            /\ \E more \in Seq(Seq(Bytes)) :
                 Records(fmt, input) = (emitted \o records) \o more
<1> DEFINE n == parse_available(pending)
           to == consumed + n
           piece == SubSeq(pending, 1, n)
           records == Records(fmt, piece)
           top == taken - consumed
           before == Cut(input, 0, consumed)
           upto == Cut(input, 0, to)
           rest == Cut(input, to, Len(input))
<1>1. /\ input \in Seq(Bytes) /\ Len(input) \in Nat /\ taken \in Nat /\ taken <= Len(input)
      /\ consumed \in Nat /\ consumed <= taken
      /\ pending = Cut(input, consumed, taken)
      /\ emitted = Records(fmt, before)
      /\ Complete(fmt, before)
      /\ eof => taken = Len(input)
  BY DEF ReadInv, FeedInv
<1>2. pending \in Seq(Bytes) /\ Len(pending) = top /\ top \in Nat
  BY <1>1, CutFacts
<1>3. /\ n \in 0..top
      /\ eof => n = top
      /\ ~eof => Complete(fmt, piece)
  <2>1. CASE eof
    BY <1>2, <2>1 DEF parse_available
  <2>2. CASE ~eof
    <3> DEFINE T == {m \in 0..top : Complete(fmt, SubSeq(pending, 1, m))}
    <3>1. 0 \in T
      <4>1. SubSeq(pending, 1, 0) = <<>>
        BY SubSeqEmpty
      <4>2. Complete(fmt, <<>>)
        BY BytesFact, CompleteNothing
      <4>3. 0 \in 0..top
        BY <1>2
      <4> QED
        BY <4>1, <4>2, <4>3
    <3>2. n = Max(T)
      BY <1>2, <2>2 DEF parse_available
    <3>3. T \subseteq 0..top
      OBVIOUS
    <3> HIDE DEF T, n, top
    <3>4. \E m \in T : \A j \in T : j <= m
      BY <1>2, <3>1, <3>3, GreatestNat
    <3>5. PICK m \in T : \A j \in T : m >= j
      BY <1>2, <3>3, <3>4
    <3>6. n \in T
      BY <3>2, <3>5 DEF Max
    <3> QED
      BY <2>2, <3>6 DEF T
  <2> QED
    BY <2>1, <2>2
<1> HIDE DEF n
<1>4. /\ to \in Nat /\ consumed <= to /\ to <= taken /\ n \in Nat
      /\ eof => to = Len(input)
  BY <1>1, <1>2, <1>3
<1>5. piece = Cut(input, consumed, to)
  <2>1. Cut(Cut(input, consumed, taken), 0, n) = Cut(input, consumed + 0, consumed + n)
    BY <1>1, <1>2, <1>3, <1>4, CutOfCut
  <2>2. consumed + 0 = consumed /\ 0 + 1 = 1
    BY <1>1
  <2> QED
    BY <1>1, <2>1, <2>2 DEF Cut
<1> HIDE DEF to
<1>6. /\ before \in Seq(Bytes) /\ piece \in Seq(Bytes) /\ upto \in Seq(Bytes)
      /\ rest \in Seq(Bytes)
      /\ upto = before \o piece /\ input = upto \o rest
  <2>1. /\ input \in Seq(Bytes) /\ consumed \in Nat /\ to \in Nat
        /\ consumed <= to /\ to <= Len(input)
    BY <1>1, <1>4
  <2>2. /\ Cut(input, 0, consumed) \in Seq(Bytes) /\ Cut(input, consumed, to) \in Seq(Bytes)
        /\ Cut(input, 0, to) \in Seq(Bytes) /\ Cut(input, to, Len(input)) \in Seq(Bytes)
        /\ Cut(input, 0, to) = Cut(input, 0, consumed) \o Cut(input, consumed, to)
        /\ input = Cut(input, 0, to) \o Cut(input, to, Len(input))
    BY ONLY <2>1, CutsMeet, SMTT(30)
  <2> QED
    BY <1>5, <2>2
<1> HIDE DEF before, piece, upto, rest
<1>9. /\ Records(fmt, upto) = emitted \o records
      /\ Complete(fmt, upto) <=> Complete(fmt, piece)
  BY <1>1, <1>6, BytesFact, RecordsAfter
<1>10. records \in Seq(Seq(Bytes)) /\ Records(fmt, upto) \in Seq(Seq(Bytes))
  BY <1>6, BytesFact, RecordsSeq
<1>11. \E more \in Seq(Seq(Bytes)) : Records(fmt, input) = (emitted \o records) \o more
  <2>1. CASE eof
    <3>1. rest = <<>>
      BY <1>1, <1>4, <2>1, CutNothing DEF rest
    <3>2. input = upto
      BY <1>6, <3>1, ConcatEmptySeq
    <3>3. Records(fmt, input) = (emitted \o records) \o <<>>
      BY <1>9, <1>10, <3>2, ConcatEmptySeq
    <3>4. <<>> \in Seq(Seq(Bytes))
      OBVIOUS
    <3> QED
      BY <3>3, <3>4
  <2>2. CASE ~eof
    <3>1. Complete(fmt, upto)
      BY <1>3, <1>9, <2>2
    <3>2. Records(fmt, input) = Records(fmt, upto) \o Records(fmt, rest)
      BY <1>6, <3>1, BytesFact, RecordsAfter
    <3>3. Records(fmt, rest) \in Seq(Seq(Bytes))
      BY <1>6, BytesFact, RecordsSeq
    <3> QED
      BY <1>9, <3>2, <3>3
  <2> QED
    BY <2>1, <2>2
<1> HIDE DEF records
<1> QED
  BY <1>2, <1>3, <1>4, <1>9, <1>10, <1>11 DEF n, to, piece, records, upto

LEMMA FeedStep ==
  ASSUME ReadInv, FeedInv, feed
  PROVE  FeedInv'
<1>1. PICK n \in 1..(Len(input) - taken) :
        /\ buffer' = buffer \o SubSeq(input, taken + 1, taken + n)
        /\ taken' = taken + n
  BY DEF feed
<1>2. /\ phase \in {"new", "stream"} /\ ~eof /\ phase' = "stream"
      /\ UNCHANGED <<fmt, input, start, eof, emitted, consumed>>
  BY DEF feed
<1>3. /\ input \in Seq(Bytes) /\ Len(input) \in Nat /\ taken \in Nat /\ consumed \in Nat
      /\ taken <= Len(input) /\ consumed <= taken
      /\ buffer \in Seq(Bytes) /\ start \in 0..Len(buffer)
      /\ pending = Cut(input, consumed, taken)
      /\ \E k \in Formats : fmt = k.format
      /\ emitted \in Seq(Seq(Bytes)) /\ emitted = Records(fmt, Cut(input, 0, consumed))
      /\ Complete(fmt, Cut(input, 0, consumed))
      /\ IsPrefix(emitted, Records(fmt, input))
  BY <1>2 DEF ReadInv, FeedInv
<1> DEFINE to == taken + n
           new == Cut(input, taken, to)
<1>4. /\ to \in Nat /\ taken <= to /\ to <= Len(input) /\ consumed <= to
      /\ consumed \in 0..to
  BY <1>3
<1>5. buffer' = buffer \o new /\ taken' = to
  BY <1>1 DEF Cut
<1> HIDE DEF to
<1>6. new \in Seq(Bytes)
  BY <1>3, <1>4, CutFacts
<1>7. Cut(input, consumed, taken) \o new = Cut(input, consumed, to)
  BY <1>3, <1>4, CutJoins
<1> HIDE DEF new
<1>8. buffer' \in Seq(Bytes) /\ start \in 0..Len(buffer')
  BY <1>3, <1>5, <1>6
<1>9. pending' = Cut(input, consumed, to)
  <2>1. start \in Nat /\ start <= Len(buffer)
    BY <1>3
  <2>2. Cut(buffer \o new, start, Len(buffer \o new)) = Cut(buffer, start, Len(buffer)) \o new
    BY <1>3, <1>6, <2>1, CutOfConcat
  <2>3. pending = Cut(buffer, start, Len(buffer))
    BY DEF pending, Cut
  <2>4. pending' = Cut(buffer', start', Len(buffer'))
    BY DEF pending, Cut
  <2> QED
    BY <1>2, <1>3, <1>5, <1>7, <2>2, <2>3, <2>4
<1> QED
  BY <1>2, <1>3, <1>4, <1>5, <1>8, <1>9 DEF FeedInv

LEMMA FinishStep ==
  ASSUME ReadInv, FeedInv, finish
  PROVE  FeedInv'
<1>1. /\ phase \in {"new", "stream"} /\ taken = Len(input) /\ phase' = "stream"
      /\ UNCHANGED <<fmt, input, taken, buffer, start, emitted, consumed>>
  BY DEF finish
<1>2. pending' = pending
  BY <1>1 DEF pending
<1> QED
  BY <1>1, <1>2 DEF FeedInv

LEMMA ParseStep ==
  ASSUME ReadInv, FeedInv, parse
  PROVE  FeedInv'
<1> DEFINE n == parse_available(pending)
           to == consumed + n
           s == start + n
           records == Records(fmt, SubSeq(pending, 1, n))
           after == Compacted(buffer, s)
<1>1. /\ phase = "stream" /\ phase' = IF eof THEN "eof" ELSE "stream"
      /\ emitted' = emitted \o records /\ consumed' = to
      /\ buffer' = after.buffer /\ start' = after.start
      /\ UNCHANGED <<fmt, input, taken, eof>>
  BY DEF parse
<1>2. /\ n \in 0..Len(pending) /\ to \in Nat /\ to <= taken
      /\ pending \in Seq(Bytes) /\ Len(pending) = taken - consumed
      /\ eof => to = Len(input)
      /\ ~eof => Complete(fmt, Cut(input, 0, to))
      /\ records \in Seq(Seq(Bytes))
      /\ emitted \o records = Records(fmt, Cut(input, 0, to))
      /\ \E more \in Seq(Seq(Bytes)) :
           Records(fmt, input) = (emitted \o records) \o more
  BY <1>1, Available
<1>3. /\ input \in Seq(Bytes) /\ Len(input) \in Nat /\ taken \in Nat /\ consumed \in Nat
      /\ taken <= Len(input) /\ consumed <= taken
      /\ buffer \in Seq(Bytes) /\ start \in 0..Len(buffer)
      /\ pending = Cut(input, consumed, taken)
      /\ \E k \in Formats : fmt = k.format
      /\ emitted \in Seq(Seq(Bytes))
      /\ eof => taken = Len(input)
  BY <1>1 DEF ReadInv, FeedInv
<1> DEFINE end == Len(buffer)
<1>4. pending = Cut(buffer, start, end) /\ pending' = Cut(buffer', start', Len(buffer'))
  BY DEF pending, Cut
<1>5. Len(pending) = end - start /\ end \in Nat
  <2>1. end \in Nat /\ start \in 0..Len(buffer) /\ Len(buffer) \in 0..Len(buffer)
    BY <1>3, LenProperties
  <2>2. Len(Cut(buffer, start, Len(buffer))) = Len(buffer) - start
    BY <1>3, <2>1, CutFacts
  <2> QED
    BY <1>4, <2>1, <2>2
<1> HIDE DEF n, records
<1>6. /\ n \in Nat /\ s \in Nat /\ s <= end /\ start \in Nat /\ s + 0 = s /\ start <= end
      /\ n <= end - start /\ n <= taken - consumed /\ start + (end - start) = end
      /\ consumed + (taken - consumed) = taken /\ end - start \in Nat
      /\ taken - consumed \in Nat /\ to \in 0..taken
  BY <1>2, <1>3, <1>5
<1>7. Cut(buffer, s, end) = Cut(input, to, taken)
  <2>1. Cut(pending, n, end - start) = Cut(buffer, start + n, end)
    <3>1. /\ buffer \in Seq(Bytes) /\ start \in Nat /\ end \in Nat /\ start <= end
          /\ end <= Len(buffer) /\ n \in Nat /\ n <= end - start
      BY <1>3, <1>5, <1>6
    <3> HIDE DEF end
    <3>2. Cut(Cut(buffer, start, end), n, end - start) = Cut(buffer, start + n, end)
      BY ONLY <3>1, CutTail
    <3> QED
      BY <1>4, <3>2
  <2>2. Cut(pending, n, taken - consumed) = Cut(input, consumed + n, taken)
    BY <1>3, <1>6, CutTail
  <2> QED
    BY <1>2, <1>5, <2>1, <2>2
<1> HIDE DEF to, s
<1>8. /\ buffer' \in Seq(Bytes) /\ start' \in 0..Len(buffer')
      /\ pending' = Cut(buffer, s, end)
  <2>1. CASE s >= Len(buffer) \/ s >= CompactAfter
    <3> DEFINE q == Cut(buffer, s, end)
    <3>1. buffer' = q /\ start' = 0
      BY <1>1, <2>1 DEF Compacted, Cut
    <3>2. q \in Seq(Bytes)
      BY <1>3, <1>6, CutFacts, SMTT(30)
    <3> HIDE DEF q
    <3>3. Cut(q, 0, Len(q)) = q
      BY <3>2, CutWhole
    <3>4. 0 \in 0..Len(q)
      BY <3>2
    <3> QED
      BY <1>4, <3>1, <3>2, <3>3, <3>4 DEF q
  <2>2. CASE ~(s >= Len(buffer) \/ s >= CompactAfter)
    <3>1. buffer' = buffer /\ start' = s
      BY <1>1, <2>2 DEF Compacted
    <3> QED
      BY <1>3, <1>4, <1>6, <3>1
  <2> QED
    BY <2>1, <2>2
<1>9. emitted' \in Seq(Seq(Bytes))
  <2>1. emitted \in Seq(Seq(Bytes)) /\ records \in Seq(Seq(Bytes))
    BY <1>2, <1>3
  <2>2. emitted \o records \in Seq(Seq(Bytes))
    BY ONLY <2>1, ConcatProperties
  <2> QED
    BY <1>1, <2>2
<1>10. IsPrefix(emitted', Records(fmt, input))
  <2>1. PICK more \in Seq(Seq(Bytes)) : Records(fmt, input) = emitted' \o more
    BY <1>1, <1>2
  <2> QED
    BY <1>9, <2>1, PrefixOfConcat
<1> HIDE DEF after, end
<1> QED
  BY <1>1, <1>2, <1>3, <1>6, <1>7, <1>8, <1>9, <1>10 DEF FeedInv

LEMMA FailStep ==
  ASSUME ReadInv, FeedInv, parse_fails
  PROVE  FeedInv'
<1> DEFINE records == Records(fmt, SubSeq(pending, 1, parse_available(pending)))
<1>1. /\ phase = "stream" /\ phase' = "err"
      /\ UNCHANGED <<fmt, input, taken, buffer, start, eof, consumed>>
  BY DEF parse_fails
<1>2. PICK n \in 0..Len(records) : emitted' = emitted \o SubSeq(records, 1, n)
  BY DEF parse_fails
<1>3. /\ records \in Seq(Seq(Bytes))
      /\ \E more \in Seq(Seq(Bytes)) :
           Records(fmt, input) = (emitted \o records) \o more
  BY <1>1, Available
<1>4. /\ input \in Seq(Bytes) /\ emitted \in Seq(Seq(Bytes))
      /\ \E k \in Formats : fmt = k.format
  BY DEF FeedInv
<1> HIDE DEF records
<1> DEFINE end == Len(records)
           out == Cut(records, 0, n)
           left == Cut(records, n, end)
<1>5. n \in Nat /\ n <= end /\ end \in Nat /\ end <= Len(records)
  BY <1>3
<1>6. out \in Seq(Seq(Bytes)) /\ left \in Seq(Seq(Bytes)) /\ records = out \o left
  BY <1>3, <1>5, CutsMeet
<1>7. emitted' = emitted \o out
  BY <1>2 DEF Cut
<1> HIDE DEF out, left
<1>8. PICK more \in Seq(Seq(Bytes)) : Records(fmt, input) = (emitted \o records) \o more
  BY <1>3
<1>9. emitted' \in Seq(Seq(Bytes)) /\ left \o more \in Seq(Seq(Bytes))
  BY <1>4, <1>6, <1>7, <1>8
<1>10. Records(fmt, input) = emitted' \o (left \o more)
  <2> DEFINE RS == Seq(Bytes)
             all == emitted'
  <2>1. /\ emitted \in Seq(RS) /\ out \in Seq(RS) /\ left \in Seq(RS)
        /\ more \in Seq(RS) /\ all \in Seq(RS)
    BY <1>4, <1>6, <1>8, <1>9
  <2> HIDE DEF RS, all
  <2>2. Joined(Joined(emitted, out), left) = Joined(emitted, Joined(out, left))
    BY ONLY <2>1, JoinAssociative
  <2>3. Joined(Joined(all, left), more) = Joined(all, Joined(left, more))
    BY ONLY <2>1, JoinAssociative
  <2> QED
    BY <1>6, <1>7, <1>8, <2>2, <2>3 DEF all, Joined
<1>11. IsPrefix(emitted', Records(fmt, input))
  BY <1>9, <1>10, PrefixOfConcat
<1> QED
  BY <1>1, <1>4, <1>9, <1>11 DEF FeedInv

LEMMA StepFeeds ==
  ASSUME ReadInv, FeedInv, [Next]_vars
  PROVE  FeedInv'
<1>1. CASE open
  BY <1>1 DEF open, stream_vars, FeedInv
<1>2. CASE read
  <2>1. phase = "reading" /\ UNCHANGED <<fmt, input>> /\ UNCHANGED stream_vars
    BY <1>2 DEF read
  <2>2. phase' \in {"over", "read", "reading"}
    BY <1>2 DEF read
  <2> QED
    BY <2>1, <2>2 DEF stream_vars, FeedInv
<1>3. CASE Split
  BY <1>3 DEF Split, stream_vars, FeedInv
<1>4. CASE UNCHANGED vars
  BY <1>4 DEF vars, FeedInv, pending
<1> QED
  BY <1>1, <1>2, <1>3, <1>4, FeedStep, FinishStep, ParseStep, FailStep DEF Next

(* However a feed is cut into pieces and whenever it is parsed, nothing is  *)
(* lost, repeated or torn, and a failure leaves the first records of the    *)
(* input (RecordStream::feed, parse and its compaction).                    *)
THEOREM FeedKeepsRecords == Spec => []StreamKeepsRecords
<1>1. ASSUME ReadInv, FeedInv
      PROVE  StreamKeepsRecords
  <2>1. Cut(input, 0, Len(input)) = input
    BY <1>1, CutWhole DEF FeedInv
  <2>2. /\ Cut(input, 0, consumed) = SubSeq(input, 1, consumed)
        /\ Cut(input, consumed, taken) = SubSeq(input, consumed + 1, taken)
    BY DEF Cut
  <2> QED
    BY <1>1, <2>1, <2>2 DEF FeedInv, StreamKeepsRecords
<1>2. Init => ReadInv /\ FeedInv
  BY InitReads, InitFeeds
<1>3. ReadInv /\ FeedInv /\ [Next]_vars => ReadInv' /\ FeedInv'
  BY StepReads, StepFeeds
<1> QED
  BY <1>1, <1>2, <1>3, PTL DEF Spec
-----------------------------------------------------------------------------
(* Where an input may be cut: what a parser that has come to a position     *)
(* remembers, and what the bytes behind the position say.                   *)

StateAt(f, b, n) == ReadAll(f, SubSeq(b, 1, n))

\* The letters and the format go together (FormatAssumption).
Plain(f, A) ==
  /\ "LF" \in A /\ "none" \notin A
  /\ f.continuation # "LF"
  /\ \A r \in f.regions : r[2] \notin {"none", "LF", "CR"}

\* The line ends at the position n and begins after a newline or in front.
LineBehind(b, n, line) ==
  /\ Len(line) <= n
  /\ \A i \in 1..Len(line) : line[i] = b[n - Len(line) + i]
  /\ Len(line) < n => b[n - Len(line)] = "LF"

LEMMA StateStep ==
  ASSUME NEW f, NEW A, "LF" \in A, NEW b \in Seq(A), NEW n \in Nat, n < Len(b)
  PROVE  /\ At(b, n) \in A /\ At(b, n) = b[n + 1]
         /\ StateAt(f, b, n) \in Readers(f, A)
         /\ StateAt(f, b, n + 1) = ReadByte(f, StateAt(f, b, n), At(b, n))
<1>1. b[n + 1] \in A /\ SubSeq(b, 1, n) \in Seq(A)
  BY NextPrefix
<1>2. StateAt(f, b, n + 1) = ReadByte(f, StateAt(f, b, n), b[n + 1])
  BY ReadPrefix DEF StateAt
<1>3. StateAt(f, b, n) \in Readers(f, A)
  BY <1>1, ReadAllReads DEF StateAt
<1> QED
  BY <1>1, <1>2, <1>3 DEF At

LEMMA StateFirst ==
  ASSUME NEW f, NEW A, "LF" \in A, NEW b \in Seq(A)
  PROVE  StateAt(f, b, 0) = NothingRead
<1>1. SubSeq(b, 1, 0) = <<>>
  BY SubSeqEmpty
<1> QED
  BY <1>1, ReadNothing DEF StateAt

(* A byte joins the line, unless it is the newline that ends it.            *)
LEMMA ByteLine ==
  ASSUME NEW f, NEW A, "LF" \in A, NEW s \in Readers(f, A), NEW c \in A
  PROVE  \/ ReadByte(f, s, c).line = Append(s.line, c)
         \/ ReadByte(f, s, c).line = <<>> /\ c = "LF"
<1> DEFINE t == ReadByte(f, s, c)
<1>1. s.await \in {"none"} \cup {r[2] : r \in f.regions}
  BY DEF Readers
<1>2. \/ \E w \in {"none"} \cup {r[2] : r \in f.regions} : t = Kept(s, c, w)
      \/ t = EndLine(f, s) /\ c = "LF"
  <2> HIDE DEF t
  <2>1. \/ t = Kept(s, c, IF c = s.await THEN "none" ELSE s.await)
        \/ \E r \in f.regions : r[1] = c /\ t = Kept(s, c, r[2])
        \/ t = Kept(s, c, "none")
        \/ t = EndLine(f, s) /\ c = "LF"
    BY ByteReads DEF t
  <2> QED
    BY <1>1, <2>1
<1> HIDE DEF t
<1>3. t.line = Append(s.line, c) \/ (t.line = <<>> /\ c = "LF")
  BY <1>2, Keeps, LineReads
<1> QED
  BY <1>3 DEF t

LEMMA LineGrows ==
  ASSUME NEW A, NEW b \in Seq(A), NEW n \in Nat, n < Len(b), NEW line \in Seq(A),
         LineBehind(b, n, line)
  PROVE  LineBehind(b, n + 1, Append(line, b[n + 1]))
<1> DEFINE more == Append(line, b[n + 1])
<1>1. /\ Len(more) = Len(line) + 1 /\ Len(line) \in Nat
      /\ \A i \in 1..Len(line) : more[i] = line[i]
      /\ more[Len(line) + 1] = b[n + 1]
  OBVIOUS
<1>2. /\ Len(line) <= n
      /\ \A i \in 1..Len(line) : line[i] = b[n - Len(line) + i]
      /\ Len(line) < n => b[n - Len(line)] = "LF"
  BY DEF LineBehind
<1> HIDE DEF more
<1>3. (n + 1) - Len(more) = n - Len(line)
  BY <1>1
<1>4. ASSUME NEW i \in 1..Len(more)
      PROVE  more[i] = b[n - Len(line) + i]
  <2>1. CASE i \in 1..Len(line)
    BY <1>1, <1>2, <2>1
  <2>2. CASE i = Len(line) + 1
    <3>1. n - Len(line) + i = n + 1
      BY <1>1, <2>2
    <3> QED
      BY <1>1, <2>2, <3>1
  <2> QED
    BY <1>1, <2>1, <2>2
<1>5. Len(more) <= n + 1 /\ (Len(more) < n + 1 => Len(line) < n)
  BY <1>1, <1>2
<1>6. LineBehind(b, n + 1, more)
  BY <1>2, <1>3, <1>4, <1>5 DEF LineBehind
<1> QED
  BY <1>6 DEF more

(* The line a parser has begun is what stands behind it.                    *)
LEMMA LineSoFar ==
  ASSUME NEW f, NEW A, "LF" \in A, NEW b \in Seq(A), NEW n \in 0..Len(b)
  PROVE  /\ StateAt(f, b, n).line \in Seq(A)
         /\ LineBehind(b, n, StateAt(f, b, n).line)
<1> DEFINE top == Len(b)
           Right(m) == /\ StateAt(f, b, m).line \in Seq(A)
                       /\ LineBehind(b, m, StateAt(f, b, m).line)
           S == {m \in 0..top : Right(m)}
<1>1. top \in Nat
  OBVIOUS
<1>2. 0 \in S
  <2>1. StateAt(f, b, 0).line = <<>>
    BY StateFirst DEF NothingRead
  <2>2. LineBehind(b, 0, <<>>)
    BY DEF LineBehind
  <2>3. 0 \in 0..top
    BY <1>1
  <2>4. <<>> \in Seq(A)
    OBVIOUS
  <2>5. Right(0)
    BY <2>1, <2>2, <2>4
  <2> HIDE DEF Right
  <2> QED
    BY <2>3, <2>5
<1>3. ASSUME NEW m \in Nat, m < top, m \in S
      PROVE  m + 1 \in S
  <2> DEFINE s == StateAt(f, b, m)
             t == StateAt(f, b, m + 1)
             c == b[m + 1]
  <2>1. c \in A /\ s \in Readers(f, A) /\ t = ReadByte(f, s, c)
    BY <1>3, StateStep
  <2>2. s.line \in Seq(A) /\ LineBehind(b, m, s.line)
    BY <1>3
  <2>3. LineBehind(b, m + 1, Append(s.line, c))
    <3> HIDE DEF s
    <3> QED
      BY <1>3, <2>2, LineGrows
  <2> HIDE DEF s, t
  <2>4. t.line = Append(s.line, c) \/ (t.line = <<>> /\ c = "LF")
    BY <2>1, ByteLine
  <2>5. t.line \in Seq(A)
    <3>1. t \in Readers(f, A)
      BY <2>1, ByteReads
    <3> QED
      BY <3>1 DEF Readers
  <2>6. c = "LF" => LineBehind(b, m + 1, <<>>)
    BY DEF LineBehind, c
  <2>7. LineBehind(b, m + 1, t.line)
    BY <2>3, <2>4, <2>6
  <2>8. m + 1 \in 0..top
    BY <1>3
  <2> QED
    BY <2>5, <2>7, <2>8 DEF t
<1> HIDE DEF S
<1>4. \A m \in 0..top : m \in S
  <2> HIDE DEF top
  <2> QED
    BY <1>1, <1>2, <1>3, IntervalInduction
<1>5. n \in S
  BY <1>4
<1> QED
  BY <1>5 DEF S

(* Only an opener begins to wait, for its closer.                           *)
LEMMA ByteAwaits ==
  ASSUME NEW f, NEW A, "LF" \in A, NEW s \in Readers(f, A), NEW c \in A
  PROVE  LET t == ReadByte(f, s, c)
         IN /\ s.await = "none" /\ t.await # "none" =>
                 \E r \in f.regions : r[1] = c /\ t.await = r[2]
            /\ s.await # "none" =>
                 t.await = (IF c = s.await THEN "none" ELSE s.await)
<1> DEFINE t == ReadByte(f, s, c)
           w == IF c = s.await THEN "none" ELSE s.await
<1>1. w \in {"none"} \cup {r[2] : r \in f.regions}
  BY DEF Readers
<1>2. \/ s.await # "none" /\ t = Kept(s, c, w)
      \/ /\ s.await = "none"
         /\ \E r \in f.regions : r[1] = c /\ t = Kept(s, c, r[2])
      \/ s.await = "none" /\ t = Kept(s, c, "none")
      \/ s.await = "none" /\ t = EndLine(f, s)
  BY ByteReads
<1> HIDE DEF t, w
<1>3. CASE s.await # "none" /\ t = Kept(s, c, w)
  <2>1. t.await = w
    BY <1>1, <1>3, Keeps
  <2> QED
    BY <1>3, <2>1 DEF t, w
<1>4. ASSUME s.await = "none", NEW r \in f.regions, r[1] = c, t = Kept(s, c, r[2])
      PROVE  t.await = r[2]
  <2> DEFINE closer == r[2]
  <2>1. closer \in {"none"} \cup {q[2] : q \in f.regions} /\ t = Kept(s, c, closer)
    BY <1>4
  <2> HIDE DEF closer
  <2>2. t.await = closer
    BY <2>1, Keeps
  <2> QED
    BY <2>2 DEF closer
<1>5. CASE s.await = "none" /\ t = Kept(s, c, "none")
  <2>1. t.await = "none"
    BY <1>5, Keeps
  <2> QED
    BY <1>5, <2>1 DEF t
<1>6. CASE s.await = "none" /\ t = EndLine(f, s)
  <2>1. t.await = "none"
    BY <1>6, LineReads
  <2> QED
    BY <1>6, <2>1 DEF t
<1> QED
  BY <1>2, <1>3, <1>4, <1>5, <1>6 DEF t

(* While nothing ends the wait, the closer has not come.                    *)
LEMMA Waiting ==
  ASSUME NEW f, NEW A, Plain(f, A), NEW b \in Seq(A),
         NEW from \in Nat, NEW to \in Nat, from <= to, to <= Len(b),
         \A q \in from..to : StateAt(f, b, q).await # "none"
  PROVE  /\ \A q \in from..to : StateAt(f, b, q).await = StateAt(f, b, from).await
         /\ \A q \in from..(to - 1) : At(b, q) # StateAt(f, b, from).await
<1> DEFINE top == to - from
           w == StateAt(f, b, from).await
           S == {k \in 0..top : StateAt(f, b, from + k).await = w}
<1>1. top \in Nat /\ "LF" \in A
  BY DEF Plain
<1>2. 0 \in S
  <2>1. from + 0 = from /\ 0 \in 0..top
    BY <1>1
  <2> QED
    BY <2>1
<1>3. ASSUME NEW q \in Nat, from <= q, q < to, StateAt(f, b, q).await = w
      PROVE  At(b, q) # w /\ StateAt(f, b, q + 1).await = w
  <2>1. /\ At(b, q) \in A /\ StateAt(f, b, q) \in Readers(f, A)
        /\ StateAt(f, b, q + 1) = ReadByte(f, StateAt(f, b, q), At(b, q))
    <3>1. q < Len(b)
      BY <1>3
    <3> QED
      BY <1>1, <3>1, StateStep
  <2>2. q \in from..to /\ q + 1 \in from..to
    BY <1>3
  <2>3. w # "none" /\ StateAt(f, b, q + 1).await # "none"
    BY <1>3, <2>2
  <2>4. StateAt(f, b, q + 1).await = (IF At(b, q) = w THEN "none" ELSE w)
    BY <1>1, <1>3, <2>1, <2>3, ByteAwaits
  <2> QED
    BY <2>3, <2>4
<1> HIDE DEF w
<1>4. ASSUME NEW k \in Nat, k < top, k \in S
      PROVE  k + 1 \in S
  <2>1. /\ from + k \in Nat /\ from <= from + k /\ from + k < to
        /\ (from + k) + 1 = from + (k + 1) /\ k + 1 \in 0..top
    BY <1>4
  <2>2. StateAt(f, b, from + k).await = w
    BY <1>4
  <2>3. StateAt(f, b, (from + k) + 1).await = w
    BY <1>3, <2>1, <2>2
  <2> QED
    BY <2>1, <2>3
<1> HIDE DEF S
<1>5. \A k \in 0..top : k \in S
  <2> HIDE DEF top
  <2> QED
    BY <1>1, <1>2, <1>4, IntervalInduction
<1>6. ASSUME NEW q \in from..to
      PROVE  StateAt(f, b, q).await = w
  <2>1. q - from \in 0..top /\ from + (q - from) = q
    OBVIOUS
  <2>2. StateAt(f, b, from + (q - from)).await = w
    BY <1>5, <2>1 DEF S
  <2> QED
    BY <2>1, <2>2
<1>7. ASSUME NEW q \in from..(to - 1)
      PROVE  At(b, q) # w
  <2>1. q \in Nat /\ from <= q /\ q < to /\ q \in from..to
    OBVIOUS
  <2> QED
    BY <1>3, <1>6, <2>1
<1> QED
  BY <1>6, <1>7 DEF w

LEMMA SkipSeen ==
  ASSUME NEW f, NEW b, NEW at, NEW r \in f.regions,
         NEW p \in (IF at > Window THEN at - Window ELSE 0)..(at - 1),
         At(b, p) = r[1], \A q \in (p + 1)..(at - 1) : At(b, q) # r[2]
  PROVE  in_skip_region(f, b, at)
BY DEF in_skip_region

(* A region that is open at a newline is seen from behind it.               *)
LEMMA RegionSeen ==
  ASSUME NEW f, NEW A, Plain(f, A), NEW b \in Seq(A), RegionsFit(f, b),
         NEW nl \in Newlines(b), StateAt(f, b, nl).await # "none"
  PROVE  in_skip_region(f, b, nl + 1)
<1> DEFINE T == {p \in 0..(nl - 1) : StateAt(f, b, p).await = "none"}
<1>1. nl \in Nat /\ nl < Len(b) /\ At(b, nl) = "LF" /\ "LF" \in A /\ Window \in Nat
  BY SplitterAssumption DEF Newlines, Plain
<1>2. PICK p0 \in 0..(nl - 1) : nl + 1 - p0 <= Window /\ StateAt(f, b, p0).await = "none"
  BY DEF RegionsFit, StateAt
<1>3. p0 \in T
  BY <1>2
<1>4. nl - 1 \in Nat /\ T \subseteq 0..(nl - 1) /\ T # {}
  BY <1>1, <1>3
<1> HIDE DEF T
<1>5. PICK p \in T : \A k \in T : k <= p
  <2> DEFINE top == nl - 1
  <2>1. top \in Nat /\ T \subseteq 0..top
    BY <1>4
  <2> HIDE DEF top
  <2> QED
    BY <1>4, <2>1, GreatestNat
<1>6. p \in Nat /\ p < nl /\ p0 <= p /\ StateAt(f, b, p).await = "none"
  BY <1>1, <1>3, <1>5 DEF T
<1>7. ASSUME NEW q \in (p + 1)..nl
      PROVE  StateAt(f, b, q).await # "none"
  <2>1. CASE q = nl
    BY <2>1
  <2>2. CASE q # nl
    <3>1. q \in 0..(nl - 1) /\ ~(q <= p)
      BY <1>1, <1>6, <2>2
    <3> QED
      BY <1>5, <3>1 DEF T
  <2> QED
    BY <2>1, <2>2
<1>8. PICK r \in f.regions : r[1] = At(b, p) /\ StateAt(f, b, p + 1).await = r[2]
  <2>1. /\ At(b, p) \in A /\ StateAt(f, b, p) \in Readers(f, A)
        /\ StateAt(f, b, p + 1) = ReadByte(f, StateAt(f, b, p), At(b, p))
    <3>1. p < Len(b)
      BY <1>1, <1>6
    <3> QED
      BY <1>1, <1>6, <3>1, StateStep
  <2>2. StateAt(f, b, p + 1).await # "none"
    BY <1>1, <1>6, <1>7
  <2> QED
    BY <1>1, <1>6, <2>1, <2>2, ByteAwaits
<1>9. \A q \in (p + 1)..(nl - 1) : At(b, q) # r[2]
  <2> DEFINE from == p + 1
  <2>1. from \in Nat /\ from <= nl /\ nl <= Len(b)
    BY <1>1, <1>6
  <2>2. \A q \in from..nl : StateAt(f, b, q).await # "none"
    BY <1>7
  <2>3. StateAt(f, b, from).await = r[2]
    BY <1>8
  <2> HIDE DEF from
  <2>4. \A q \in from..(nl - 1) : At(b, q) # StateAt(f, b, from).await
    BY <1>1, <2>1, <2>2, Waiting
  <2> QED
    BY <2>3, <2>4 DEF from
<1>10. r[2] # "LF"
  BY DEF Plain
<1> DEFINE at == nl + 1
<1>11. ASSUME NEW q \in (p + 1)..(at - 1)
       PROVE  At(b, q) # r[2]
  <2>1. q = nl \/ q \in (p + 1)..(nl - 1)
    BY <1>1, <1>6
  <2> QED
    BY <1>1, <1>9, <1>10, <2>1
<1>12. p \in (IF at > Window THEN at - Window ELSE 0)..(at - 1)
  BY <1>1, <1>2, <1>6
<1> HIDE DEF at
<1>13. in_skip_region(f, b, at)
  BY <1>8, <1>11, <1>12, SkipSeen
<1> QED
  BY <1>13 DEF at

(* The text of the line that a newline ends stands before it.               *)
LEMMA TextMatches ==
  ASSUME NEW f, NEW A, "LF" \in A, NEW b \in Seq(A), NEW nl \in Newlines(b)
  PROVE  /\ LineText(StateAt(f, b, nl)) \in Seq(A)
         /\ TextEnd(b, nl) \in 0..nl
         /\ LineBehind(b, TextEnd(b, nl), LineText(StateAt(f, b, nl)))
<1> DEFINE line == StateAt(f, b, nl).line
           text == LineText(StateAt(f, b, nl))
           end == TextEnd(b, nl)
<1>1. nl \in Nat /\ nl < Len(b) /\ nl \in 0..Len(b)
  BY DEF Newlines
<1>2. line \in Seq(A) /\ LineBehind(b, nl, line)
  BY <1>1, LineSoFar
<1>3. text = IF line # <<>> /\ Last(line) = "CR" THEN Front(line) ELSE line
  BY DEF LineText
<1>4. end = IF nl > 0 /\ b[nl] = "CR" THEN nl - 1 ELSE nl
  BY <1>1 DEF TextEnd, At
<1> HIDE DEF line, text, end
<1>5. /\ Len(line) \in Nat /\ Len(line) <= nl
      /\ \A i \in 1..Len(line) : line[i] = b[nl - Len(line) + i]
      /\ Len(line) < nl => b[nl - Len(line)] = "LF"
  BY <1>2 DEF LineBehind
<1>6. line # <<>> => Last(line) = b[nl]
  <2>1. line # <<>> => Len(line) \in 1..Len(line) /\ nl - Len(line) + Len(line) = nl
    BY <1>1, <1>2, <1>5
  <2> QED
    BY <1>5, <2>1 DEF Last
<1>7. CASE line # <<>> /\ b[nl] = "CR"
  <2>1. text = Front(line) /\ end = nl - 1 /\ Len(line) >= 1
    BY <1>1, <1>2, <1>3, <1>4, <1>5, <1>6, <1>7
  <2>2. /\ text \in Seq(A) /\ Len(text) = Len(line) - 1
        /\ \A i \in 1..(Len(line) - 1) : text[i] = line[i]
    BY <1>2, <1>7, <2>1, FrontOf
  <2>3. end \in 0..nl /\ end - Len(text) = nl - Len(line)
    BY <1>1, <1>5, <2>1, <2>2
  <2>4. ASSUME NEW i \in 1..Len(text)
        PROVE  text[i] = b[end - Len(text) + i]
    <3>1. i \in 1..(Len(line) - 1) /\ i \in 1..Len(line)
      BY <1>5, <2>2
    <3> QED
      BY <1>5, <2>2, <2>3, <3>1
  <2>5. Len(text) <= end /\ (Len(text) < end => Len(line) < nl)
    BY <1>1, <1>5, <2>1, <2>2
  <2>6. LineBehind(b, end, text)
    BY <1>5, <2>3, <2>4, <2>5 DEF LineBehind
  <2> QED
    BY <2>2, <2>3, <2>6 DEF text, end
<1>8. CASE ~(line # <<>> /\ b[nl] = "CR")
  <2>1. text = line
    BY <1>3, <1>6, <1>8
  <2>2. end = nl
    <3>1. CASE line = <<>> /\ nl > 0
      <4>1. Len(line) = 0 /\ nl - 0 = nl
        BY <1>1, <3>1
      <4>2. b[nl] = "LF"
        BY <1>5, <3>1, <4>1
      <4> QED
        BY <1>4, <4>2
    <3> QED
      BY <1>1, <1>4, <1>8, <3>1
  <2> QED
    BY <1>1, <1>2, <2>1, <2>2 DEF text, end
<1> QED
  BY <1>7, <1>8

(* What is not continued, seen from behind, is not continued.               *)
LEMMA Continues ==
  ASSUME NEW f, NEW A, Plain(f, A), NEW b \in Seq(A), NEW nl \in Nat, nl < Len(b),
         NEW text \in Seq(A), TextEnd(b, nl) \in Nat, TextEnd(b, nl) <= nl,
         LineBehind(b, TextEnd(b, nl), text), ~continued(f, b, nl)
  PROVE  ~GoesOn(f, text)
<1> DEFINE end == TextEnd(b, nl)
           len == Len(text)
<1>1. /\ end \in Nat /\ end <= nl /\ len \in Nat /\ len <= end
      /\ \A i \in 1..len : text[i] = b[end - len + i]
      /\ len < end => b[end - len] = "LF"
  BY DEF LineBehind
<1>2. text # <<>> => len >= 1 /\ Last(text) = text[len] /\ text[len] \in A
  BY DEF Last
<1> HIDE DEF end
<1>3. CASE f.continuation = "ESC"
  <2> DEFINE K == {k \in 0..end : \A i \in (end - k)..(end - 1) : At(b, i) = "ESC"}
             L == {k \in 0..len : \A i \in (len - k + 1)..len : text[i] = "ESC"}
  <2>1. ASSUME NEW k \in L
        PROVE  k \in K
    <3>1. k \in 0..end
      BY <1>1
    <3>2. ASSUME NEW i \in (end - k)..(end - 1)
          PROVE  At(b, i) = "ESC"
      <4> DEFINE j == i + 1 - end + len
      <4>1. j \in (len - k + 1)..len /\ j \in 1..len /\ end - len + j = i + 1
        BY <1>1
      <4> HIDE DEF j
      <4>2. text[j] = "ESC" /\ text[j] = b[i + 1]
        BY <1>1, <4>1
      <4> QED
        BY <4>2 DEF At
    <3> QED
      BY <3>1, <3>2
  <2>2. ASSUME NEW k \in K
        PROVE  k \in L
    <3>1. k <= len
      <4>1. SUFFICES ASSUME k > len
                     PROVE  FALSE
        BY <1>1
      <4> DEFINE i == end - len - 1
      <4>2. i \in (end - k)..(end - 1) /\ i + 1 = end - len /\ len < end
        BY <1>1, <4>1
      <4> HIDE DEF i
      <4>3. At(b, i) = "ESC" /\ At(b, i) = "LF"
        BY <1>1, <4>2 DEF At
      <4> QED
        BY <4>3
    <3>2. ASSUME NEW i \in (len - k + 1)..len
          PROVE  text[i] = "ESC"
      <4> DEFINE j == end - len + i - 1
      <4>1. j \in (end - k)..(end - 1) /\ i \in 1..len /\ end - len + i = j + 1
        BY <1>1, <3>1
      <4> HIDE DEF j
      <4>2. At(b, j) = "ESC" /\ text[i] = b[j + 1]
        BY <1>1, <4>1
      <4> QED
        BY <4>2 DEF At
    <3>3. k \in 0..len
      BY <1>1, <3>1
    <3> QED
      BY <3>2, <3>3
  <2>3. K = L
    BY <2>1, <2>2
  <2>4. Max(K) % 2 # 1
    BY <1>3 DEF continued, is_continued_newline, end
  <2>5. GoesOn(f, text) <=> Max(L) % 2 = 1
    BY <1>3 DEF GoesOn
  <2> QED
    BY <2>3, <2>4, <2>5
<1>4. CASE f.continuation = "none"
  <2>1. text # <<>> => Last(text) # f.continuation
    BY <1>2, <1>4 DEF Plain
  <2> QED
    BY <1>4, <2>1 DEF GoesOn
<1>5. CASE f.continuation \notin {"ESC", "none"}
  <2>1. ~(end > 0 /\ At(b, end - 1) = f.continuation)
    BY <1>5 DEF continued, end
  <2>2. text # <<>> => Last(text) # f.continuation
    <3>1. SUFFICES ASSUME text # <<>>
                   PROVE  Last(text) # f.continuation
      OBVIOUS
    <3>2. len \in 1..len /\ end - len + len = end /\ end > 0 /\ end - 1 + 1 = end
      BY <1>1, <1>2, <3>1
    <3>3. Last(text) = b[end] /\ At(b, end - 1) = b[end]
      BY <1>1, <1>2, <3>1, <3>2 DEF At
    <3> QED
      BY <2>1, <3>2, <3>3
  <2> QED
    BY <1>5, <2>2 DEF GoesOn
<1> QED
  BY <1>3, <1>4, <1>5

(* A line that does not go on leaves no text behind, and no record that a   *)
(* line without text would not end.                                         *)
LEMMA LineEndsHere ==
  ASSUME NEW f, NEW A, "LF" \in A, NEW s \in Readers(f, A), Sound(f, s),
         ~GoesOn(f, LineText(s))
  PROVE  LET t == EndLine(f, s)
         IN /\ t \in Readers(f, A) /\ t.line = <<>> /\ ~t.glue /\ t.await = s.await
            /\ ~f.blank => t.rec = <<>>
            /\ LineText(s) = <<>> /\ ~s.glue => t.rec = <<>>
<1> DEFINE t == EndLine(f, s)
<1>1. /\ {Dropped(s), Added(s), InPara(s)} \subseteq Readers(f, A)
      /\ Dropped(s).rec = s.rec /\ ~Dropped(s).glue /\ ~Added(s).glue
      /\ t = IF /\ f.comments /\ ~s.glue
                /\ LineText(s) # <<>> /\ LineText(s)[1] = "#" THEN Dropped(s)
             ELSE IF ~f.blank THEN EndRecord(Added(s))
             ELSE IF LineText(s) = <<>> /\ ~s.glue THEN EndRecord(Dropped(s))
             ELSE InPara(s)
  BY LineEnds
<1>2. t \in Readers(f, A) /\ t.line = <<>> /\ t.await = s.await
  BY LineReads
<1>3. ~InPara(s).glue
  BY <1>1 DEF InPara, Readers
<1>4. \A u \in {Dropped(s), Added(s)} :
        EndRecord(u).rec = <<>> /\ EndRecord(u).glue = u.glue
  BY <1>1, RecordEnds
<1> HIDE DEF t
<1>5. ~t.glue
  BY <1>1, <1>3, <1>4
<1>6. ~f.blank => t.rec = <<>>
  BY <1>1, <1>4 DEF Sound
<1>7. LineText(s) = <<>> /\ ~s.glue => t.rec = <<>>
  BY <1>1, <1>4, <1>6
<1> QED
  BY <1>2, <1>5, <1>6, <1>7 DEF t

(* A newline that no opener and no escape touches ends its line.            *)
LEMMA NewlineEnds ==
  ASSUME NEW f, NEW A, Plain(f, A), NEW b \in Seq(A), NEW nl \in Newlines(b),
         StateAt(f, b, nl).await = "none", ~continued(f, b, nl),
         ~(\E r \in f.regions : r[1] = "LF")
  PROVE  LET s == StateAt(f, b, nl)
             t == StateAt(f, b, nl + 1)
         IN /\ t \in Readers(f, A) /\ t.line = <<>> /\ ~t.glue /\ t.await = "none"
            /\ ~f.blank => t.rec = <<>>
            /\ LineText(s) = <<>> /\ ~s.glue => t.rec = <<>>
<1> DEFINE s == StateAt(f, b, nl)
           text == LineText(s)
           end == TextEnd(b, nl)
<1>1. nl \in Nat /\ nl < Len(b) /\ At(b, nl) = "LF" /\ "LF" \in A
  BY DEF Newlines, Plain
<1>2. s \in Readers(f, A) /\ StateAt(f, b, nl + 1) = ReadByte(f, s, "LF")
  BY <1>1, StateStep
<1>3. text \in Seq(A) /\ end \in 0..nl /\ LineBehind(b, end, text)
  BY <1>1, TextMatches
<1>4. ~GoesOn(f, text)
  <2>1. end \in Nat /\ end <= nl
    BY <1>1, <1>3
  <2> HIDE DEF text
  <2> QED
    BY <1>1, <1>3, <2>1, Continues
<1>5. Sound(f, s)
  <2>1. SubSeq(b, 1, nl) \in Seq(A)
    BY <1>1, NextPrefix
  <2> QED
    BY <1>1, <2>1, AllSound DEF StateAt
<1>6. StateAt(f, b, nl + 1) = EndLine(f, s)
  <2> HIDE DEF s
  <2>1. s.await = "none"
    BY DEF s
  <2>2. ReadByte(f, s, "LF") = EndLine(f, s)
    BY <1>1, <1>2, <2>1, ByteReads
  <2> QED
    BY <1>2, <2>2
<1>7. s.await = "none"
  OBVIOUS
<1> HIDE DEF s
<1> QED
  BY <1>1, <1>2, <1>4, <1>5, <1>6, <1>7, LineEndsHere DEF s

(* A newline and a carriage return do not close a region.                   *)
LEMMA StillWaits ==
  ASSUME NEW f, NEW A, Plain(f, A), NEW b \in Seq(A), NEW n \in Nat, n < Len(b),
         At(b, n) \in {"LF", "CR"}, StateAt(f, b, n).await # "none"
  PROVE  StateAt(f, b, n + 1).await # "none"
<1>1. "LF" \in A
  BY DEF Plain
<1>2. /\ At(b, n) \in A /\ StateAt(f, b, n) \in Readers(f, A)
      /\ StateAt(f, b, n + 1) = ReadByte(f, StateAt(f, b, n), At(b, n))
  BY <1>1, StateStep
<1>3. StateAt(f, b, n).await \in {r[2] : r \in f.regions}
  BY <1>2 DEF Readers
<1>4. StateAt(f, b, n).await # At(b, n)
  BY <1>3 DEF Plain
<1> QED
  BY <1>1, <1>2, <1>4, ByteAwaits

(* An opener begins to wait.                                                *)
LEMMA OpenerWaits ==
  ASSUME NEW f, NEW A, Plain(f, A), NEW b \in Seq(A), NEW n \in Nat, n < Len(b),
         NEW r \in f.regions, r[1] = At(b, n), StateAt(f, b, n).await = "none"
  PROVE  StateAt(f, b, n + 1).await # "none"
<1> DEFINE s == StateAt(f, b, n)
           t == StateAt(f, b, n + 1)
           c == At(b, n)
<1>1. "LF" \in A /\ c \in A /\ s \in Readers(f, A) /\ t = ReadByte(f, s, c)
  <2>1. "LF" \in A
    BY DEF Plain
  <2> QED
    BY <2>1, StateStep
<1>2. s.await = "none" /\ r[1] = c
  OBVIOUS
<1> HIDE DEF s, t, c
<1>3. PICK q \in f.regions : q[1] = c /\ t = Kept(s, c, q[2])
  BY <1>1, <1>2, ByteReads
<1>4. t.await = q[2]
  <2> DEFINE w == q[2]
  <2>1. w \in {"none"} \cup {x[2] : x \in f.regions} /\ t = Kept(s, c, w)
    BY <1>3
  <2> HIDE DEF w
  <2>2. t.await = w
    BY <1>1, <2>1, Keeps
  <2> QED
    BY <2>2 DEF w
<1> QED
  BY <1>4 DEF Plain, t

(* Where a record may end by what is behind it, none is open.               *)
LEMMA BoundaryComplete ==
  ASSUME NEW f, NEW A, Plain(f, A), NEW b \in Seq(A), RegionsFit(f, b),
         NEW nl \in Newlines(b), IsBoundary(f, b, nl), ~in_skip_region(f, b, nl + 1)
  PROVE  Complete(f, SubSeq(b, 1, nl + 1))
<1> DEFINE s == StateAt(f, b, nl)
           t == StateAt(f, b, nl + 1)
<1>1. nl \in Nat /\ nl < Len(b) /\ At(b, nl) = "LF" /\ "LF" \in A
  BY DEF Newlines, Plain
<1>2. s.await = "none"
  BY RegionSeen
<1>3. ASSUME NEW r \in f.regions
      PROVE  r[1] # "LF"
  <2>1. SUFFICES ASSUME r[1] = "LF"
                 PROVE  FALSE
    OBVIOUS
  <2> DEFINE at == nl + 1
  <2>2. nl \in (IF at > Window THEN at - Window ELSE 0)..(at - 1)
    BY <1>1, SplitterAssumption
  <2>3. \A q \in (nl + 1)..(at - 1) : At(b, q) # r[2]
    BY <1>1
  <2>4. ~in_skip_region(f, b, at)
    OBVIOUS
  <2> HIDE DEF at
  <2> QED
    BY <1>1, <2>1, <2>2, <2>3, <2>4, SkipSeen
<1>4. ~continued(f, b, nl)
  BY DEF IsBoundary
<1>5. /\ t \in Readers(f, A) /\ t.line = <<>> /\ ~t.glue
      /\ ~f.blank => t.rec = <<>>
      /\ LineText(s) = <<>> /\ ~s.glue => t.rec = <<>>
  BY <1>2, <1>3, <1>4, NewlineEnds
<1>6. ASSUME f.blank
      PROVE  LineText(s) = <<>> /\ ~s.glue
  <2> DEFINE e == TextEnd(b, nl) - 1
             u == StateAt(f, b, e)
             v == StateAt(f, b, e + 1)
  <2>1. /\ TextEnd(b, nl) = IF nl > 0 /\ At(b, nl - 1) = "CR" THEN nl - 1 ELSE nl
        /\ TextEnd(b, nl) > 0 /\ At(b, e) = "LF" /\ ~continued(f, b, e)
    BY <1>6 DEF IsBoundary, EndsBlankLine, TextEnd
  <2>2. /\ e \in Nat /\ e < nl /\ e < Len(b) /\ e \in Newlines(b)
        /\ \/ e + 1 = nl
           \/ e + 2 = nl /\ At(b, e + 1) = "CR"
    <3>1. TextEnd(b, nl) \in {nl - 1, nl}
      BY <2>1
    <3>2. e \in Nat /\ e < nl /\ e < Len(b) /\ e \in 0..(Len(b) - 1)
      BY <1>1, <2>1, <3>1
    <3>3. e + 1 = nl \/ (e + 2 = nl /\ nl - 1 = e + 1 /\ At(b, nl - 1) = "CR")
      BY <1>1, <2>1
    <3>4. e \in Newlines(b)
      BY <2>1, <3>2 DEF Newlines
    <3> QED
      BY <3>2, <3>3, <3>4
  <2> HIDE DEF e
  <2>3. e + 2 = nl =>
          /\ e + 1 \in Nat /\ e + 1 < Len(b) /\ (e + 1) + 1 = nl
          /\ At(b, e + 1) = "CR"
    BY <1>1, <2>2
  <2>4. v.await = "none"
    <3>1. SUFFICES ASSUME v.await # "none", e + 2 = nl
                   PROVE  FALSE
      BY <1>2, <2>2
    <3> DEFINE n == e + 1
    <3>2. n \in Nat /\ n < Len(b) /\ n + 1 = nl /\ At(b, n) = "CR"
      BY <2>3, <3>1
    <3>3. StateAt(f, b, n).await # "none"
      BY <3>1
    <3> HIDE DEF n
    <3>4. StateAt(f, b, n + 1).await # "none"
      BY <3>2, <3>3, StillWaits
    <3> QED
      BY <1>2, <3>2, <3>4
  <2>5. u.await = "none"
    BY <2>1, <2>2, <2>4, StillWaits
  <2>6. v \in Readers(f, A) /\ v.line = <<>> /\ ~v.glue
    BY <1>3, <2>1, <2>2, <2>5, NewlineEnds
  <2>7. CASE e + 1 = nl
    <3>1. s.line = <<>> /\ ~s.glue
      BY <2>6, <2>7
    <3> QED
      BY <3>1 DEF LineText
  <2>8. CASE e + 2 = nl
    <3> DEFINE n == e + 1
    <3>1. n \in Nat /\ n < Len(b) /\ n + 1 = nl /\ At(b, n) = "CR"
      BY <2>3, <2>8
    <3>2. /\ StateAt(f, b, n) = v /\ v \in Readers(f, A) /\ v.await = "none"
      BY <2>4, <2>6
    <3> HIDE DEF n, v, s
    <3>3. s = ReadByte(f, v, "CR") /\ "CR" \in A
      BY <1>1, <3>1, <3>2, StateStep DEF s
    <3>4. ASSUME NEW r \in f.regions
          PROVE  r[1] # "CR"
      <4>1. SUFFICES ASSUME r[1] = "CR"
                     PROVE  FALSE
        OBVIOUS
      <4>2. StateAt(f, b, n).await = "none" /\ r[1] = At(b, n)
        BY <3>1, <3>2, <4>1
      <4>3. StateAt(f, b, n + 1).await # "none"
        BY <3>1, <4>2, OpenerWaits
      <4> QED
        BY <1>2, <3>1, <4>3 DEF s
    <3>5. ReadByte(f, v, "CR") = Kept(v, "CR", "none")
      <4>1. "CR" # "LF"
        OBVIOUS
      <4> QED
        BY <1>1, <3>2, <3>3, <3>4, <4>1, ByteReads
    <3>6. s.line = Append(<<>>, "CR") /\ s.glue = v.glue
      BY <2>6, <3>2, <3>3, <3>5, Keeps DEF v
    <3>7. LineText(s) = <<>>
      <4> DEFINE line == Append(<<>>, "CR")
      <4>1. line # <<>> /\ Len(line) = 1 /\ Last(line) = "CR"
        BY DEF Last
      <4>2. Front(line) = <<>>
        <5>1. SubSeq(line, 1, 0) = <<>>
          BY SubSeqEmpty
        <5> QED
          BY <4>1, <5>1 DEF Front
      <4> HIDE DEF line
      <4>3. s.line = line
        BY <3>6 DEF line
      <4> QED
        BY <4>1, <4>2, <4>3 DEF LineText
    <3> QED
      BY <2>6, <3>6, <3>7 DEF s, v
  <2> QED
    BY <2>2, <2>7, <2>8
<1> HIDE DEF s
<1>7. t.rec = <<>> /\ t.line = <<>> /\ ~t.glue
  BY <1>5, <1>6
<1> QED
  BY <1>7 DEF Complete, StateAt
-----------------------------------------------------------------------------
(* Split points and the ranges between them.                                *)

Increasing(s, n) == \A i, j \in 1..n : i < j => s[i] < s[j]

\* The members of a finite set can be put in ascending order.
LEMMA AscendingExists ==
  ASSUME NEW top \in Nat, NEW S \in SUBSET (0..top)
  PROVE  /\ IsFiniteSet(S) /\ Cardinality(S) \in Nat
         /\ \E s \in [1..Cardinality(S) -> S] : Increasing(s, Cardinality(S))
<1> DEFINE Up(T) == \E s \in [1..Cardinality(T) -> T] : Increasing(s, Cardinality(T))
           Below(k) == {x \in S : x < k}
           end == top + 1
           I == {k \in 0..end : Up(Below(k))}
<1>1. ASSUME NEW T \in SUBSET (0..top)
      PROVE  IsFiniteSet(T) /\ Cardinality(T) \in Nat
  <2>1. IsFiniteSet(0..top)
    BY FS_Interval
  <2>2. IsFiniteSet(T)
    BY <2>1, FS_Subset
  <2> QED
    BY <2>2, FS_CardinalityType
<1>2. end \in Nat /\ \A x \in S : x \in Nat /\ x < end
  OBVIOUS
<1>3. 0 \in I
  <2>1. Below(0) = {} /\ Cardinality({}) = 0
    <3>1. \A x \in S : ~(x < 0)
      BY <1>2
    <3>2. Below(0) = {}
      BY <3>1
    <3> QED
      BY <3>2, FS_EmptySet
  <2>2. Up({})
    <3> DEFINE s == [i \in 1..0 |-> i]
    <3>1. s \in [1..0 -> {}] /\ Increasing(s, 0)
      BY DEF Increasing
    <3> QED
      BY <2>1, <3>1
  <2>3. 0 \in 0..end
    BY <1>2
  <2> HIDE DEF Up, Below, end
  <2> QED
    BY <2>1, <2>2, <2>3
<1>4. ASSUME NEW k \in Nat, k < end, k \in I
      PROVE  k + 1 \in I
  <2> DEFINE T == Below(k)
  <2>1. IsFiniteSet(T) /\ Cardinality(T) \in Nat
    BY <1>1
  <2>2. Below(k + 1) = IF k \in S THEN T \cup {k} ELSE T
    <3>1. \A x \in S : x < k + 1 <=> x < k \/ x = k
      BY <1>2, <1>4
    <3>2. ~(k < k) /\ k < k + 1
      BY <1>4
    <3> QED
      BY <3>1, <3>2
  <2>3. Up(T)
    BY <1>4
  <2>4. k + 1 \in 0..end
    BY <1>2, <1>4
  <2>5. \A x \in T : x \in Nat /\ x < k
    OBVIOUS
  <2>6. CASE k \in S
    <3> DEFINE n == Cardinality(T)
               U == T \cup {k}
    <3>1. k \notin T
      BY <2>5
    <3> HIDE DEF T
    <3>2. Cardinality(U) = n + 1
      BY <2>1, <3>1, FS_AddElement
    <3>3. PICK s \in [1..n -> T] : Increasing(s, n)
      BY <2>3
    <3> DEFINE m == n + 1
               t == [i \in 1..m |-> IF i = m THEN k ELSE s[i]]
    <3> HIDE DEF n
    <3>4. n \in Nat
      BY <2>1 DEF n
    <3>5. ASSUME NEW i \in 1..m
          PROVE  IF i = m THEN t[i] = k ELSE i \in 1..n /\ t[i] = s[i] /\ s[i] \in T
      <4>1. i # m => i \in 1..n
        BY <3>4
      <4> QED
        BY <3>3, <4>1
    <3>6. t \in [1..m -> U]
      BY <3>5
    <3> HIDE DEF t
    <3>7. ASSUME NEW i \in 1..m, NEW j \in 1..m, i < j
          PROVE  t[i] < t[j]
      <4>1. i # m
        BY <3>4, <3>7
      <4>2. i \in 1..n /\ t[i] = s[i] /\ s[i] \in T
        BY <3>5, <4>1
      <4>3. CASE j = m
        BY <2>5, <3>5, <4>2, <4>3
      <4>4. CASE j # m
        BY <3>3, <3>5, <3>7, <4>2, <4>4 DEF Increasing
      <4> QED
        BY <4>3, <4>4
    <3>8. Increasing(t, m)
      BY <3>7 DEF Increasing
    <3>9. Up(U)
      BY <3>2, <3>6, <3>8 DEF n
    <3> HIDE DEF Up, Below
    <3> QED
      BY <2>2, <2>4, <2>6, <3>9 DEF T
  <2>7. CASE k \notin S
    <3> HIDE DEF Up, Below
    <3> QED
      BY <2>2, <2>3, <2>4, <2>7
  <2> QED
    BY <2>6, <2>7
<1> HIDE DEF I
<1>5. \A k \in 0..end : k \in I
  <2> HIDE DEF end
  <2> QED
    BY <1>2, <1>3, <1>4, IntervalInduction
<1>6. Below(end) = S
  BY <1>2
<1>7. Up(Below(end))
  <2>1. end \in 0..end
    BY <1>2
  <2> HIDE DEF Up, Below, end
  <2> QED
    BY <1>5, <2>1 DEF I
<1> QED
  BY <1>1, <1>6, <1>7

LEMMA AscendingFacts ==
  ASSUME NEW top \in Nat, NEW S \in SUBSET (0..top)
  PROVE  LET n == Cardinality(S)
             s == Ascending(S)
         IN /\ n \in Nat /\ s \in [1..n -> S]
            /\ Increasing(s, n)
            /\ \A x \in S : \E i \in 1..n : s[i] = x
            /\ \A i \in 1..n, x \in S : i < n /\ s[i] < x => s[i + 1] <= x
<1> DEFINE n == Cardinality(S)
           s == Ascending(S)
<1>1. /\ IsFiniteSet(S) /\ n \in Nat
      /\ \E t \in [1..n -> S] : Increasing(t, n)
  BY AscendingExists
<1>2. s \in [1..n -> S] /\ Increasing(s, n)
  BY <1>1 DEF Ascending, Increasing
<1> HIDE DEF s
<1>3. ASSUME NEW i \in 1..n
      PROVE  s[i] \in S /\ s[i] \in Nat
  <2>1. S \subseteq Nat
    OBVIOUS
  <2> QED
    BY <1>2, <2>1
<1>4. s \in Injection(1..n, S)
  <2>1. ASSUME NEW i \in 1..n, NEW j \in 1..n, s[i] = s[j]
        PROVE  i = j
    <3> HIDE DEF n
    <3>1. ~(i < j) /\ ~(j < i)
      BY <1>2, <1>3, <2>1 DEF Increasing
    <3> QED
      BY <1>1, <3>1
  <2> QED
    BY <1>2, <2>1 DEF Injection, IsInjective
<1>5. Cardinality(1..n) = n
  <2> HIDE DEF n
  <2> QED
    BY <1>1, FS_Interval
<1>6. s \in Surjection(1..n, S)
  BY <1>1, <1>4, <1>5, FS_Injection
<1>7. \A x \in S : \E i \in 1..n : s[i] = x
  BY <1>6 DEF Surjection
<1>8. ASSUME NEW i \in 1..n, NEW x \in S, i < n, s[i] < x
      PROVE  s[i + 1] <= x
  <2>1. PICK j \in 1..n : s[j] = x
    BY <1>7
  <2> HIDE DEF n
  <2>2. i + 1 \in 1..n /\ s[i] \in Nat /\ s[j] \in Nat /\ s[i + 1] \in Nat
    BY <1>1, <1>3, <1>8
  <2>3. i < j
    <3>1. SUFFICES ASSUME j <= i
                   PROVE  FALSE
      BY <1>1
    <3>2. j < i => s[j] < s[i]
      BY <1>2 DEF Increasing
    <3> QED
      BY <1>1, <1>8, <2>1, <2>2, <3>1, <3>2
  <2>4. i + 1 < j => s[i + 1] < s[j]
    BY <1>2, <2>2 DEF Increasing
  <2> QED
    BY <1>1, <2>1, <2>2, <2>3, <2>4
<1> QED
  BY <1>1, <1>2, <1>7, <1>8 DEF s

\* A position right behind a newline where a record may end.
SafeCut(f, b, p) ==
  \E nl \in Newlines(b) :
    p = nl + 1 /\ IsBoundary(f, b, nl) /\ ~in_skip_region(f, b, p)

\* The ranges R cover the input b in order and meet at safe cuts.
Tiling(f, b, R, n) ==
  /\ n \in Nat \ {0} /\ R \in [1..n -> (0..Len(b)) \X (0..Len(b))]
  /\ R[1][1] = 0 /\ R[n][2] = Len(b)
  /\ \A i \in 1..n : R[i][1] <= R[i][2]
  /\ \A i \in 1..n : i < n => /\ R[i][1] < R[i][2]
                              /\ R[i][2] = R[i + 1][1]
                              /\ SafeCut(f, b, R[i][2])

LEMMA BoundaryFound ==
  ASSUME NEW f, NEW A, NEW b \in Seq(A), NEW from,
         find_next_record_boundary(f, b, from) # NoPosition
  PROVE  LET p == find_next_record_boundary(f, b, from)
         IN /\ p \in 1..Len(b)
            /\ \E nl \in Newlines(b) : p = nl + 1 /\ IsBoundary(f, b, nl)
<1> DEFINE found == {nl \in Newlines(b) : nl >= from /\ IsBoundary(f, b, nl)}
           p == find_next_record_boundary(f, b, from)
<1>1. p = IF found = {} THEN NoPosition ELSE Min(found) + 1
  BY DEF find_next_record_boundary
<1>2. found \subseteq Nat /\ found \subseteq 0..(Len(b) - 1)
  BY DEF Newlines
<1>3. ASSUME NEW nl \in found
      PROVE  nl \in Newlines(b) /\ IsBoundary(f, b, nl)
  OBVIOUS
<1> HIDE DEF found, p
<1>4. found # {}
  BY <1>1 DEF p
<1>5. \E x \in found : \A y \in found : x <= y
  BY <1>2, <1>4, LeastNat
<1>6. Min(found) \in found
  BY <1>5 DEF Min
<1> DEFINE m == Min(found)
<1> HIDE DEF m
<1>7. m \in found /\ p = m + 1
  BY <1>1, <1>4, <1>6 DEF m
<1>8. p \in 1..Len(b)
  BY <1>2, <1>7
<1> QED
  BY <1>3, <1>7, <1>8 DEF p

\* Positions in ascending order from the front of b to its end.
Points(f, b, s, m) ==
  /\ m \in Nat /\ m >= 2 /\ s \in [1..m -> 0..Len(b)]
  /\ Increasing(s, m)
  /\ s[1] = 0 /\ s[m] = Len(b)
  /\ \A i \in 1..m : 1 < i /\ i < m => SafeCut(f, b, s[i])

LEMMA SplitPoints ==
  ASSUME NEW f, NEW A, NEW b \in Seq(A), b # <<>>, NEW max_chunks, NEW min_chunk_bytes
  PROVE  \E m : Points(f, b, default_find_split_points(f, b, max_chunks, min_chunk_bytes), m)
<1> DEFINE top == Len(b)
           found == {find_next_record_boundary(f, b, (top \div
                       plan_chunk_count_with(top, max_chunks, "Parallel", min_chunk_bytes)) * i) :
                       i \in 1..(plan_chunk_count_with(top, max_chunks, "Parallel",
                                                       min_chunk_bytes) - 1)}
           safe == {p \in found \ {NoPosition} : p > 0 /\ ~in_skip_region(f, b, p)}
           S == {0, top} \cup safe
           points == default_find_split_points(f, b, max_chunks, min_chunk_bytes)
<1>1. points = IF max_chunks <= 1 \/ b = <<>> THEN <<0, top>> ELSE Ascending(S)
  BY DEF default_find_split_points
<1>2. top \in Nat /\ top > 0
  OBVIOUS
<1>3. ASSUME NEW p \in safe
      PROVE  p \in 1..top /\ SafeCut(f, b, p)
  <2>1. PICK from : p = find_next_record_boundary(f, b, from) /\ p # NoPosition
    OBVIOUS
  <2>2. ~in_skip_region(f, b, p)
    OBVIOUS
  <2> HIDE DEF safe
  <2> QED
    BY <2>1, <2>2, BoundaryFound DEF SafeCut
<1> HIDE DEF safe
<1>4. CASE max_chunks <= 1
  <2>1. points = <<0, top>>
    BY <1>1, <1>4
  <2>2. Points(f, b, <<0, top>>, 2)
    BY <1>2 DEF Points, Increasing
  <2> QED
    BY <2>1, <2>2
<1>5. CASE ~(max_chunks <= 1)
  <2>1. points = Ascending(S)
    BY <1>1, <1>5
  <2>2. S \in SUBSET (0..top) /\ 0 \in S /\ top \in S
    BY <1>2, <1>3
  <2>3. ASSUME NEW p \in S, p # 0, p # top
        PROVE  SafeCut(f, b, p)
    BY <1>3, <2>3
  <2> DEFINE s == Ascending(S)
             n == Cardinality(S)
  <2> HIDE DEF S, top, points
  <2>4. /\ n \in Nat /\ s \in [1..n -> S] /\ Increasing(s, n)
        /\ \A x \in S : \E i \in 1..n : s[i] = x
    BY <1>2, <2>2, AscendingFacts
  <2> HIDE DEF s, n
  <2>5. \A i \in 1..n : s[i] \in S /\ s[i] \in Nat /\ s[i] <= top
    <3>1. \A x \in S : x \in Nat /\ x <= top
      BY <1>2, <2>2
    <3>2. \A i \in 1..n : s[i] \in S
      BY <2>4
    <3> QED
      BY <3>1, <3>2
  <2>6. PICK x \in 1..n : s[x] = 0
    BY <2>2, <2>4
  <2>7. PICK y \in 1..n : s[y] = top
    BY <2>2, <2>4
  <2>8. x = 1
    <3>1. 1 \in 1..n
      BY <2>4, <2>6
    <3>2. 1 < x => s[1] < s[x]
      BY <2>4, <3>1 DEF Increasing
    <3> QED
      BY <2>4, <2>5, <2>6, <3>1, <3>2
  <2>9. y = n
    <3>1. n \in 1..n
      BY <2>4, <2>7
    <3>2. y < n => s[y] < s[n]
      BY <2>4, <3>1 DEF Increasing
    <3> QED
      BY <1>2, <2>4, <2>5, <2>7, <3>1, <3>2
  <2>10. s[1] = 0 /\ s[n] = top /\ n >= 2
    BY <1>2, <2>4, <2>6, <2>7, <2>8, <2>9
  <2>11. ASSUME NEW i \in 1..n, 1 < i, i < n
         PROVE  SafeCut(f, b, s[i])
    <3>1. 1 \in 1..n /\ n \in 1..n
      BY <2>4, <2>10
    <3>2. s[1] < s[i] /\ s[i] < s[n]
      BY <2>4, <2>11, <3>1 DEF Increasing
    <3>3. s[i] # 0 /\ s[i] # top /\ s[i] \in S
      BY <1>2, <2>5, <2>10, <3>2
    <3> QED
      BY <2>3, <3>3
  <2>12. s \in [1..n -> 0..top]
    BY <2>2, <2>4
  <2>13. Points(f, b, s, n)
    BY <2>4, <2>10, <2>11, <2>12 DEF Points, top
  <2> QED
    BY <2>1, <2>13 DEF s, points
<1> QED
  BY <1>4, <1>5

LEMMA KeptPoints ==
  ASSUME NEW f, NEW A, NEW b \in Seq(A), NEW s, NEW m, Points(f, b, s, m)
  PROVE  \E n : Tiling(f, b, split_points_to_ranges(s, Len(b)), n)
<1> DEFINE top == m - 1
           K == {i \in 1..(Len(s) - 1) : s[i] < s[i + 1]}
           kept == Ascending(K)
           R == split_points_to_ranges(s, Len(b))
<1>1. /\ m \in Nat /\ m >= 2 /\ s \in [1..m -> 0..Len(b)] /\ Len(s) = m
      /\ s[1] = 0 /\ s[m] = Len(b) /\ top \in Nat /\ top >= 1
      /\ \A i \in 1..m : 1 < i /\ i < m => SafeCut(f, b, s[i])
  BY DEF Points
<1>2. K = 1..top
  <2>1. ASSUME NEW i \in 1..top
        PROVE  s[i] < s[i + 1]
    <3>1. i \in 1..m /\ i + 1 \in 1..m /\ i < i + 1
      BY <1>1
    <3> QED
      BY <3>1 DEF Points, Increasing
  <2> QED
    BY <1>1, <2>1
<1>3. R = [i \in DOMAIN kept |-> <<s[kept[i]], s[kept[i] + 1]>>]
  BY <1>1 DEF split_points_to_ranges
<1> HIDE DEF K, top
<1>4. Cardinality(K) = top
  BY <1>1, <1>2, FS_Interval
<1>5. K \in SUBSET (0..top)
  BY <1>1, <1>2
<1>6. /\ kept \in [1..top -> K] /\ Increasing(kept, top)
      /\ \A x \in K : \E i \in 1..top : kept[i] = x
      /\ \A i \in 1..top, x \in K : i < top /\ kept[i] < x => kept[i + 1] <= x
  BY <1>1, <1>4, <1>5, AscendingFacts
<1> HIDE DEF kept, R
<1>7. ASSUME NEW i \in 1..top
      PROVE  /\ kept[i] \in 1..top
             /\ R[i] = <<s[kept[i]], s[kept[i] + 1]>>
             /\ s[kept[i]] \in 0..Len(b) /\ s[kept[i] + 1] \in 0..Len(b)
             /\ s[kept[i]] < s[kept[i] + 1]
  <2> DEFINE k == kept[i]
  <2>1. k \in K
    BY <1>6
  <2>2. k \in 1..top
    BY <1>2, <2>1
  <2>3. R[i] = <<s[k], s[k + 1]>>
    BY <1>3, <1>6
  <2>4. s[k] < s[k + 1]
    BY <2>1 DEF K
  <2> HIDE DEF k
  <2>5. k \in 1..m /\ k + 1 \in 1..m
    BY <1>1, <2>2 DEF top
  <2>6. s[k] \in 0..Len(b) /\ s[k + 1] \in 0..Len(b)
    BY <1>1, <2>5
  <2> QED
    BY <2>2, <2>3, <2>4, <2>6 DEF k
<1>8. ASSUME NEW i \in 1..top, i < top
      PROVE  i + 1 \in 1..top /\ kept[i + 1] = kept[i] + 1
  <2>1. i + 1 \in 1..top /\ i < i + 1
    BY <1>1, <1>8
  <2>2. kept[i] < kept[i + 1]
    BY <1>6, <2>1 DEF Increasing
  <2>3. kept[i] \in 1..top /\ kept[i + 1] \in 1..top
    BY <1>7, <2>1
  <2>4. kept[i] + 1 \in K
    BY <1>1, <1>2, <2>2, <2>3
  <2>5. kept[i + 1] <= kept[i] + 1
    <3> DEFINE x == kept[i] + 1
    <3>1. x \in K /\ kept[i] < x
      BY <2>3, <2>4
    <3> HIDE DEF x
    <3>2. kept[i + 1] <= x
      BY <1>6, <1>8, <3>1
    <3> QED
      BY <3>2 DEF x
  <2> QED
    BY <2>1, <2>2, <2>3, <2>5
<1>9. 1 \in 1..top /\ top \in 1..top /\ \A i \in 1..top : i \in Nat
  BY <1>1
<1>10. kept[1] = 1
  <2>1. PICK x \in 1..top : kept[x] = 1
    BY <1>2, <1>6, <1>9
  <2>2. 1 < x => kept[1] < kept[x]
    BY <1>6, <1>9 DEF Increasing
  <2> QED
    BY <1>7, <1>9, <2>1, <2>2
<1>11. kept[top] = top
  <2>1. PICK x \in 1..top : kept[x] = top
    BY <1>2, <1>6, <1>9
  <2>2. x < top => kept[x] < kept[top]
    BY <1>6, <1>9 DEF Increasing
  <2> QED
    BY <1>1, <1>7, <1>9, <2>1, <2>2
<1>12. R[1][1] = 0 /\ R[top][2] = Len(b)
  <2>1. R[1] = <<s[1], s[1 + 1]>>
    BY <1>7, <1>9, <1>10
  <2>2. R[top] = <<s[top], s[top + 1]>>
    BY <1>7, <1>9, <1>11
  <2>3. top + 1 = m
    BY <1>1 DEF top
  <2> QED
    BY <1>1, <2>1, <2>2, <2>3
<1>13. ASSUME NEW i \in 1..top, i < top
       PROVE  R[i][2] = R[i + 1][1] /\ SafeCut(f, b, R[i][2])
  <2> DEFINE k == kept[i] + 1
  <2>1. i + 1 \in 1..top /\ kept[i + 1] = k
    BY <1>8, <1>13
  <2>2. R[i][2] = s[k] /\ R[i + 1][1] = s[k]
    BY <1>7, <2>1
  <2>3. k \in 1..top /\ k > 1 /\ k \in 1..m /\ k < m
    <3>1. kept[i] \in 1..top /\ k \in 1..top
      BY <1>7, <2>1
    <3> QED
      BY <1>1, <3>1 DEF top
  <2> QED
    BY <1>1, <2>2, <2>3
<1>14. R \in [1..top -> (0..Len(b)) \X (0..Len(b))]
  <2>1. R = [i \in 1..top |-> R[i]]
    BY <1>3, <1>6
  <2>2. \A i \in 1..top : R[i] \in (0..Len(b)) \X (0..Len(b))
    <3>1. ASSUME NEW i \in 1..top
          PROVE  R[i] \in (0..Len(b)) \X (0..Len(b))
      <4> DEFINE u == s[kept[i]]
                 v == s[kept[i] + 1]
      <4>1. R[i] = <<u, v>> /\ u \in 0..Len(b) /\ v \in 0..Len(b)
        BY <1>7
      <4> HIDE DEF u, v
      <4> QED
        BY <4>1
    <3> QED
      BY <3>1
  <2> QED
    BY <2>1, <2>2
<1>15. \A i \in 1..top : R[i][1] < R[i][2] /\ R[i][1] <= R[i][2]
  <2>1. ASSUME NEW i \in 1..top
        PROVE  R[i][1] < R[i][2] /\ R[i][1] <= R[i][2]
    <3>1. R[i][1] = s[kept[i]] /\ R[i][2] = s[kept[i] + 1]
      BY <1>7
    <3>2. \A x, y \in 0..Len(b) : x < y => x <= y
      OBVIOUS
    <3> QED
      BY <1>7, <3>1, <3>2
  <2> QED
    BY <2>1
<1>16. Tiling(f, b, R, top)
  BY <1>1, <1>12, <1>13, <1>14, <1>15 DEF Tiling
<1> QED
  BY <1>16 DEF R

LEMMA RangesTile ==
  ASSUME NEW f, NEW A, NEW b \in Seq(A), NEW max_chunks, NEW min_chunk_bytes
  PROVE  \E n : Tiling(f, b, Ranges(f, b, max_chunks, min_chunk_bytes), n)
<1> DEFINE points == default_find_split_points(f, b, max_chunks, min_chunk_bytes)
           tiles == split_points_to_ranges(points, Len(b))
           R == Ranges(f, b, max_chunks, min_chunk_bytes)
           whole == << <<0, Len(b)>> >>
<1>1. R = IF tiles = <<>> THEN whole ELSE tiles
  BY DEF Ranges
<1>2. CASE b = <<>>
  <2> DEFINE K == {i \in 1..(Len(points) - 1) : points[i] < points[i + 1]}
  <2>1. points = <<0, 0>> /\ Len(b) = 0
    BY <1>2 DEF default_find_split_points
  <2>2. K = {}
    BY <2>1
  <2>3. tiles = [i \in DOMAIN Ascending(K) |-> <<points[Ascending(K)[i]], points[Ascending(K)[i] + 1]>>]
    BY <2>1 DEF split_points_to_ranges
  <2> HIDE DEF K, points
  <2>4. Ascending(K) \in [1..0 -> K]
    <3>1. K \in SUBSET (0..0) /\ Cardinality(K) = 0
      BY <2>2, FS_EmptySet
    <3> QED
      BY <3>1, AscendingFacts
  <2> HIDE DEF tiles
  <2>5. tiles = <<>>
    <3>1. DOMAIN tiles = 1..0
      BY <2>3, <2>4
    <3> QED
      BY <2>3, <3>1
  <2>6. R = whole
    BY <1>1, <2>5
  <2>7. Tiling(f, b, whole, 1)
    BY <2>1 DEF Tiling
  <2> QED
    BY <2>6, <2>7
<1>3. CASE b # <<>>
  <2>1. PICK m : Points(f, b, points, m)
    BY <1>3, SplitPoints
  <2> HIDE DEF points
  <2>2. PICK n : Tiling(f, b, tiles, n)
    BY <2>1, KeptPoints
  <2> HIDE DEF tiles
  <2>3. tiles # <<>>
    <3> DEFINE T == (0..Len(b)) \X (0..Len(b))
    <3>1. n \in Nat /\ n # 0 /\ tiles \in [1..n -> T]
      BY <2>2 DEF Tiling
    <3> HIDE DEF T
    <3>2. tiles \in Seq(T) /\ Len(tiles) = n
      BY <3>1
    <3> QED
      BY <3>1, <3>2
  <2> QED
    BY <1>1, <2>2, <2>3
<1> QED
  BY <1>2, <1>3

(* The records of the tiles, one range after the other.                    *)
LEMMA RangesKeepRecords ==
  ASSUME NEW f, NEW A, Plain(f, A), NEW b \in Seq(A), RegionsFit(f, b),
         NEW R, NEW n, Tiling(f, b, R, n), NEW Q,
         Q = [i \in 1..n |-> Records(f, Cut(b, R[i][1], R[i][2]))]
  PROVE  FlattenSeq(Q) = Records(f, b)
<1> DEFINE h == [i \in 1..n |-> Records(f, Cut(b, 0, R[i][2]))]
           Eqn(g) == g = [i \in 1..Len(Q) |-> IF i = 1 THEN Q[i] ELSE g[i - 1] \o Q[i]]
           T == Seq(Seq(A))
<1>1. /\ "LF" \in A /\ n \in Nat /\ n >= 1
      /\ R[1][1] = 0 /\ R[n][2] = Len(b)
      /\ \A i \in 1..n : i < n => R[i][2] = R[i + 1][1] /\ SafeCut(f, b, R[i][2])
  BY DEF Plain, Tiling
<1>2. ASSUME NEW i \in 1..n
      PROVE  /\ R[i][1] \in Nat /\ R[i][2] \in Nat
             /\ R[i][1] <= R[i][2] /\ R[i][2] <= Len(b)
             /\ Q[i] = Records(f, Cut(b, R[i][1], R[i][2])) /\ Q[i] \in T
             /\ h[i] = Records(f, Cut(b, 0, R[i][2]))
  <2> DEFINE u == R[i][1]
             v == R[i][2]
  <2>1. R[i] \in (0..Len(b)) \X (0..Len(b)) /\ u <= v
    BY DEF Tiling
  <2>2. u \in Nat /\ v \in Nat /\ v <= Len(b)
    BY <2>1
  <2>3. Q[i] = Records(f, Cut(b, u, v)) /\ h[i] = Records(f, Cut(b, 0, v))
    OBVIOUS
  <2> HIDE DEF u, v
  <2>4. Cut(b, u, v) \in Seq(A)
    BY <2>1, <2>2, CutFacts
  <2>5. Q[i] \in T
    BY <1>1, <2>3, <2>4, RecordsSeq
  <2> QED
    BY <2>1, <2>2, <2>3, <2>5 DEF u, v
<1>3. Len(Q) = n
  <2>1. Q \in [1..n -> T]
    BY <1>2
  <2> HIDE DEF T
  <2> QED
    BY <1>1, <2>1
<1>4. ASSUME NEW i \in 1..n, i > 1
      PROVE  i - 1 \in 1..n /\ h[i] = h[i - 1] \o Q[i]
  <2> DEFINE j == i - 1
             u == R[i][1]
             v == R[i][2]
  <2>1. j \in 1..n /\ j < n /\ j + 1 = i
    BY <1>1, <1>4
  <2>2. R[j][2] = u /\ SafeCut(f, b, u)
    BY <1>1, <2>1
  <2>3. u \in Nat /\ v \in Nat /\ u <= v /\ v <= Len(b)
    BY <1>2
  <2>4. /\ h[j] = Records(f, Cut(b, 0, u)) /\ h[i] = Records(f, Cut(b, 0, v))
        /\ Q[i] = Records(f, Cut(b, u, v))
    <3>1. h[j] = Records(f, Cut(b, 0, R[j][2]))
      BY <1>2, <2>1
    <3> QED
      BY <1>2, <2>2, <3>1
  <2> HIDE DEF u, v, h
  <2>5. Complete(f, Cut(b, 0, u))
    <3>1. PICK nl \in Newlines(b) :
            u = nl + 1 /\ IsBoundary(f, b, nl) /\ ~in_skip_region(f, b, nl + 1)
      BY <2>2 DEF SafeCut
    <3>2. Complete(f, SubSeq(b, 1, nl + 1))
      BY <3>1, BoundaryComplete
    <3>3. 0 + 1 = 1
      OBVIOUS
    <3> QED
      BY <3>1, <3>2, <3>3 DEF Cut
  <2>6. /\ Cut(b, 0, u) \in Seq(A) /\ Cut(b, u, v) \in Seq(A)
        /\ Cut(b, 0, v) = Cut(b, 0, u) \o Cut(b, u, v)
    BY <2>3, CutsMeet
  <2>7. Records(f, Cut(b, 0, v)) = Records(f, Cut(b, 0, u)) \o Records(f, Cut(b, u, v))
    <3> DEFINE before == Cut(b, 0, u)
               piece == Cut(b, u, v)
    <3>1. before \in Seq(A) /\ piece \in Seq(A) /\ Complete(f, before)
      BY <2>5, <2>6
    <3> HIDE DEF before, piece
    <3>2. Records(f, before \o piece) = Records(f, before) \o Records(f, piece)
      BY <1>1, <3>1, RecordsAfter
    <3> QED
      BY <2>6, <3>2 DEF before, piece
  <2> QED
    BY <2>1, <2>4, <2>7
<1>5. h[1] = Q[1]
  <2>1. 1 \in 1..n
    BY <1>1
  <2> QED
    BY <1>1, <1>2, <2>1
<1>6. Eqn(h)
  <2>1. h = [i \in 1..n |-> h[i]]
    OBVIOUS
  <2> HIDE DEF h
  <2>2. ASSUME NEW i \in 1..n
        PROVE  h[i] = IF i = 1 THEN Q[i] ELSE h[i - 1] \o Q[i]
    <3>1. i = 1 \/ i > 1
      BY <1>1
    <3> QED
      BY <1>4, <1>5, <3>1
  <2>3. h = [i \in 1..n |-> IF i = 1 THEN Q[i] ELSE h[i - 1] \o Q[i]]
    BY ONLY <2>1, <2>2
  <2> QED
    BY <1>3, <2>3
<1> DEFINE g == CHOOSE x : Eqn(x)
<1>7. Eqn(g)
  BY <1>6
<1>8. FlattenSeq(Q) = g[n]
  BY <1>1, <1>3 DEF FlattenSeq
<1> HIDE DEF g, h
<1> DEFINE S == {k \in 0..n : k > 0 => g[k] = h[k]}
<1>9. 0 \in S
  <2>1. 0 \in 0..n
    BY <1>1
  <2> QED
    BY <2>1
<1>10. ASSUME NEW k \in Nat, k < n, k \in S
       PROVE  k + 1 \in S
  <2> DEFINE i == k + 1
  <2>1. i \in 1..n /\ i \in 0..n /\ i - 1 = k
    BY <1>1, <1>10
  <2>2. k > 0 => g[k] = h[k]
    BY <1>10
  <2> HIDE DEF i
  <2>3. g[i] = IF i = 1 THEN Q[i] ELSE g[i - 1] \o Q[i]
    BY <1>3, <1>7, <2>1
  <2>4. g[i] = h[i]
    <3>1. CASE i = 1
      BY <1>5, <2>3, <3>1
    <3>2. CASE i > 1
      <4>1. i # 1 /\ k > 0
        BY <2>1, <3>2
      <4>2. h[i] = h[k] \o Q[i]
        BY <1>4, <2>1, <3>2
      <4> QED
        BY <2>1, <2>2, <2>3, <4>1, <4>2
    <3> QED
      BY <2>1, <3>1, <3>2
  <2>5. i \in S
    BY <2>1, <2>4
  <2> QED
    BY <2>5 DEF i
<1> HIDE DEF S
<1>11. \A k \in 0..n : k \in S
  BY <1>1, <1>9, <1>10, IntervalInduction
<1>12. g[n] = h[n]
  BY <1>1, <1>11 DEF S
<1>13. h[n] = Records(f, b)
  <2>1. n \in 1..n /\ R[n][2] = Len(b)
    BY <1>1
  <2>2. h[n] = Records(f, Cut(b, 0, Len(b)))
    BY <1>2, <2>1
  <2> QED
    BY <2>2, CutWhole
<1> QED
  BY <1>8, <1>12, <1>13
-----------------------------------------------------------------------------
(* A file that is split.                                                    *)

\* A file that is mapped is there in full, and the ranges of a split input are
\* those the splitter makes of it.
SplitInv ==
  /\ phase = "mapped" => taken = Len(input)
  /\ phase = "split" =>
       \E max_chunks \in 1..MaxChunks, min_chunk_bytes \in {0, 2} :
         ranges = Ranges(fmt, input, max_chunks, min_chunk_bytes)

LEMMA StepSplits ==
  ASSUME ReadInv, FeedInv, SplitInv, [Next]_vars
  PROVE  SplitInv'
<1>1. CASE open
  BY <1>1 DEF open, SplitInv
<1>2. CASE read
  <2>1. phase' \in {"over", "read", "reading"}
    BY <1>2 DEF read
  <2> QED
    BY <2>1 DEF SplitInv
<1>3. CASE Split
  <2>1. taken = Len(input)
    BY <1>3 DEF Split, ReadInv, SplitInv
  <2>2. SubSeq(input, 1, taken) = input
    BY <2>1, SubSeqFull DEF FeedInv
  <2>3. PICK max_chunks \in 1..MaxChunks, min_chunk_bytes \in {0, 2} :
          ranges' = Ranges(fmt, SubSeq(input, 1, taken), max_chunks, min_chunk_bytes)
    BY <1>3 DEF Split
  <2>4. phase' = "split" /\ fmt' = fmt /\ input' = input
    BY <1>3 DEF Split
  <2>5. ranges' = Ranges(fmt', input', max_chunks, min_chunk_bytes)
    BY <2>2, <2>3, <2>4
  <2> QED
    BY <2>4, <2>5 DEF SplitInv
<1>4. CASE feed
  BY <1>4 DEF feed, SplitInv
<1>5. CASE finish
  BY <1>5 DEF finish, SplitInv
<1>6. CASE parse
  <2>1. phase' \in {"eof", "stream"}
    BY <1>6 DEF parse
  <2> QED
    BY <2>1 DEF SplitInv
<1>7. CASE parse_fails
  BY <1>7 DEF parse_fails, SplitInv
<1>8. CASE UNCHANGED vars
  BY <1>8 DEF vars, SplitInv
<1> QED
  BY <1>1, <1>2, <1>3, <1>4, <1>5, <1>6, <1>7, <1>8 DEF Next

(* The ranges of every file, whatever its format and however many chunks    *)
(* are asked for, cover it in order, and parsing each on its own gives the  *)
(* records of the whole (find_split_points, find_next_record_boundary).     *)
LEMMA SplitIsRight ==
  ASSUME FeedInv, SplitInv
  PROVE  SplitKeepsRecords
<1> SUFFICES ASSUME phase = "split"
             PROVE  SplitKeepsRecords
  BY DEF SplitKeepsRecords
<1>1. PICK max_chunks \in 1..MaxChunks, min_chunk_bytes \in {0, 2} :
        ranges = Ranges(fmt, input, max_chunks, min_chunk_bytes)
  BY DEF SplitInv
<1>2. input \in Seq(Bytes) /\ Plain(fmt, Bytes)
  <2>1. PICK k \in Formats : fmt = k.format
    BY DEF FeedInv
  <2>2. "none" \notin Bytes
    BY FormatAssumption DEF Bytes
  <2> QED
    BY <2>1, <2>2, FormatAssumption, BytesFact DEF FeedInv, Plain
<1>3. PICK n : Tiling(fmt, input, ranges, n)
  BY <1>1, <1>2, RangesTile
<1> DEFINE T == (0..Len(input)) \X (0..Len(input))
           Q == [i \in DOMAIN ranges |-> Records(fmt, RangeText(ranges[i]))]
<1>4. /\ n \in Nat /\ n >= 1 /\ ranges \in [1..n -> T]
      /\ ranges[1][1] = 0 /\ ranges[n][2] = Len(input)
      /\ \A i \in 1..n : i < n =>
           ranges[i][1] < ranges[i][2] /\ ranges[i][2] = ranges[i + 1][1]
  BY <1>3 DEF Tiling
<1>5. ASSUME RegionsFit(fmt, input)
      PROVE  FlattenSeq(Q) = Records(fmt, input)
  <2>1. Q = [i \in 1..n |-> Records(fmt, Cut(input, ranges[i][1], ranges[i][2]))]
    <3> HIDE DEF T
    <3> QED
      BY <1>4 DEF RangeText, Cut
  <2> HIDE DEF Q
  <2> QED
    BY <1>2, <1>3, <1>5, <2>1, RangesKeepRecords
<1> HIDE DEF T, Q
<1>6. Len(ranges) = n /\ Last(ranges) = ranges[n]
  BY <1>4 DEF Last
<1>7. \A i \in 1..(Len(ranges) - 1) :
        ranges[i][1] < ranges[i][2] /\ ranges[i][2] = ranges[i + 1][1]
  <2>1. \A i \in 1..(Len(ranges) - 1) : i \in 1..n /\ i < n
    BY <1>4, <1>6
  <2> QED
    BY <1>4, <2>1
<1> QED
  BY <1>4, <1>5, <1>6, <1>7 DEF SplitKeepsRecords, Q

(* The ranges of a split file cover it in order, and their records, parsed
   range by range, are those of the whole: no split point that
   find_split_points and split_points_to_ranges (decoder.rs) choose falls into
   a record, for every format, input and number of chunks, and every window
   that no skip region of the input outgrows.                               *)
THEOREM SplittingKeepsRecords == Spec => []SplitKeepsRecords
<1> DEFINE Inv == ReadInv /\ FeedInv /\ SplitInv
<1>1. Init => Inv
  <2>1. Init => SplitInv
    BY DEF Init, SplitInv
  <2> QED
    BY <2>1, InitReads, InitFeeds
<1>2. Inv /\ [Next]_vars => Inv'
  BY StepReads, StepFeeds, StepSplits
<1>3. Inv => SplitKeepsRecords
  BY SplitIsRight
<1> QED
  BY <1>1, <1>2, <1>3, PTL DEF Spec
=============================================================================
