------------------------- MODULE SessionBufferProofs -------------------------
(* Proofs about SessionBuffer, for any readers, sizes and output.          *)
EXTENDS SessionBuffer, SequenceTheorems, WellFoundedInduction, TLAPS

USE SizesAssumption, ReadersAssumption

-----------------------------------------------------------------------------
(* The operators.                                                          *)

Less == {ss \in Nat \X Nat : ss[1] < ss[2]}

LEMMA LessIsWellFounded == IsWellFoundedOn(Less, Nat)
<1>1. Less = OpToRel(<, Nat)
  BY Zenon DEF Less, OpToRel
<1> QED BY <1>1, NatLessThanWellFounded, Zenon

(* A set of numbers that is not empty has a least element.                 *)
LEMMA LeastExists ==
  ASSUME NEW T, T \subseteq Nat, T # {}
  PROVE  \E x \in T : \A y \in T : x <= y
<1>1. PICK x \in T : \A y \in T : ~(<<y, x>> \in Less)
  BY WFMin, LessIsWellFounded, Zenon
<1>2. ASSUME NEW y \in T, y < x
      PROVE  FALSE
  <2>1. <<y, x>> \in Nat \X Nat /\ <<y, x>>[1] < <<y, x>>[2]
    BY <1>2
  <2> QED BY <1>1, <2>1, Zenon DEF Less
<1>3. T \subseteq Int
  OBVIOUS
<1> QED BY <1>2, <1>3

LEMMA MinOf ==
  ASSUME NEW T, T \subseteq Nat, T # {}
  PROVE  Min(T) \in T /\ \A k \in T : Min(T) <= k
BY LeastExists DEF Min

(* A set of numbers that is bounded and not empty has a greatest element.  *)
LEMMA MaxOf ==
  ASSUME NEW n \in Nat, NEW T, T \subseteq 0..n, T # {}
  PROVE  Max(T) \in T /\ \A k \in T : k <= Max(T)
<1> DEFINE U == {u \in 0..n : n - u \in T}
<1>1. \A k \in T : k \in 0..n /\ n - k \in U
  OBVIOUS
<1>2. U # {} /\ U \subseteq Nat
  <2>1. PICK k \in T : TRUE
    OBVIOUS
  <2>2. n - k \in U
    BY <1>1
  <2>3. U \subseteq Nat
    OBVIOUS
  <2> QED BY <2>2, <2>3, Zenon
<1>3. PICK x \in U : \A y \in U : x <= y
  BY <1>2, LeastExists
<1>4. n - x \in T /\ x \in 0..n
  OBVIOUS
<1>5. ASSUME NEW k \in T
      PROVE  n - x >= k
  <2>1. k \in 0..n /\ n - k \in U
    BY <1>1
  <2>2. x <= n - k
    BY <1>3, <2>1
  <2> QED BY <1>4, <2>1, <2>2
<1>6. T \subseteq Int
  BY <1>1
<1> QED BY <1>4, <1>5, <1>6 DEF Max

LEMMA MinOfTwo ==
  ASSUME NEW j \in Nat, NEW k \in Nat
  PROVE  Min({j, k}) = IF j <= k THEN j ELSE k
BY MinOf

Bits == Seq(1..Bytes)

LEMMA Associative ==
  ASSUME NEW s \in Bits, NEW t \in Bits, NEW u \in Bits
  PROVE  (s \o t) \o u = s \o (t \o u)
BY ConcatAssociative DEF Bits

(* What takeLocked takes is in the buffer, within the room, and nothing    *)
(* only if there is no byte, or no line and room left.                     *)
LEMMA TakenFits ==
  ASSUME NEW b \in Bits, NEW max \in Nat \ {0}, NEW delimited \in BOOLEAN
  PROVE  /\ Taken(b, max, delimited) \in 0..Len(b)
         /\ Taken(b, max, delimited) <= max
         /\ Taken(b, max, delimited) = 0 <=>
              IF delimited THEN Newlines(b) = {} /\ Len(b) < max ELSE b = <<>>
<1>1. Len(b) \in Nat /\ DOMAIN b = 1..Len(b) /\ (b = <<>> <=> Len(b) = 0)
  BY LenProperties, EmptySeq DEF Bits
<1>2. Newlines(b) \subseteq 1..Len(b)
  BY <1>1 DEF Newlines
<1>3. CASE ~delimited
  BY <1>1, <1>3, MinOfTwo DEF Taken
<1>4. CASE delimited /\ \E i \in Newlines(b) : i <= max
  <2>1. PICK i \in Newlines(b) : i <= max
    BY <1>4
  <2> DEFINE m == Min(Newlines(b))
  <2>2. m \in Newlines(b) /\ m <= i
    BY <1>2, <2>1, MinOf
  <2>3. m \in 1..Len(b) /\ i \in 1..Len(b) /\ Newlines(b) # {}
    BY <1>2, <2>1, <2>2
  <2>4. Taken(b, max, delimited) = m
    BY <1>4 DEF Taken
  <2> HIDE DEF m
  <2>5. m <= max /\ m # 0 /\ m \in 0..Len(b)
    BY <1>1, <2>1, <2>2, <2>3
  <2> QED BY <1>4, <2>3, <2>4, <2>5
<1>5. CASE delimited /\ ~ \E i \in Newlines(b) : i <= max
  <2>1. Taken(b, max, delimited) = IF Len(b) >= max THEN max ELSE 0
    BY <1>5 DEF Taken
  <2>2. Len(b) < max => Newlines(b) = {}
    <3> SUFFICES ASSUME Len(b) < max, NEW i \in Newlines(b)
                 PROVE  FALSE
      OBVIOUS
    <3>1. i \in 1..Len(b)
      BY <1>2
    <3> QED BY <1>1, <1>5, <3>1
  <2> DEFINE t == Taken(b, max, delimited)
  <2> HIDE DEF t
  <2>3. t \in 0..Len(b) /\ t <= max
    BY <1>1, <2>1 DEF t
  <2>4. t = 0 <=> Newlines(b) = {} /\ Len(b) < max
    BY <1>1, <2>1, <2>2 DEF t
  <2> QED BY <1>5, <2>3, <2>4 DEF t
<1> QED BY <1>1, <1>2, <1>3, <1>4, <1>5

(* The same of the loop of a read that asked for lines.                    *)
LEMMA TakenLinesFits ==
  ASSUME NEW b \in Bits, NEW max \in Nat \ {0}
  PROVE  /\ TakenLines(b, max) \in 0..Len(b)
         /\ TakenLines(b, max) <= max
         /\ TakenLines(b, max) = 0 <=> Newlines(b) = {} /\ Len(b) < max
<1>1. Len(b) \in Nat /\ DOMAIN b = 1..Len(b)
  BY LenProperties DEF Bits
<1> DEFINE T == Newlines(b) \cup {0}
           m == Max(T)
<1>2. Newlines(b) \subseteq 1..Len(b)
  BY <1>1 DEF Newlines
<1>3. T \subseteq 0..Len(b) /\ T # {} /\ 0 \in T
  BY <1>1, <1>2
<1>4. m \in T /\ \A k \in T : k <= m
  <2> HIDE DEF T
  <2> QED BY <1>1, <1>3, MaxOf
<1>5. m = 0 <=> Newlines(b) = {}
  <2>1. ASSUME m = 0, NEW i \in Newlines(b)
        PROVE  FALSE
    <3>1. i \in 1..Len(b) /\ i <= m
      BY <1>2, <1>4
    <3> QED BY <1>1, <2>1, <3>1
  <2>2. ASSUME Newlines(b) = {}
        PROVE  m = 0
    BY <1>4, <2>2
  <2> QED BY <2>1, <2>2
<1>6. m \in 0..Len(b)
  BY <1>3, <1>4
<1>7. TakenLines(b, max) = IF Len(b) >= max THEN max ELSE m
  BY DEF TakenLines
<1> HIDE DEF m, T
<1> QED BY <1>1, <1>5, <1>6, <1>7

(* What is left of a sequence when its first n elements are taken.         *)
LEMMA Suffix ==
  ASSUME NEW S, NEW b \in Seq(S), NEW n \in 0..Len(b)
  PROVE  /\ SubSeq(b, n + 1, Len(b)) \in Seq(S)
         /\ Len(SubSeq(b, n + 1, Len(b))) = Len(b) - n
         /\ \A i \in 1..Len(b) - n : SubSeq(b, n + 1, Len(b))[i] = b[n + i]
<1>1. Len(b) \in Nat /\ n \in Nat /\ n <= Len(b)
  BY LenProperties
<1>2. \A i \in n + 1..Len(b) : b[i] \in S
  BY <1>1, ElementOfSeq
<1>3. /\ SubSeq(b, n + 1, Len(b)) \in Seq(S)
      /\ Len(SubSeq(b, n + 1, Len(b)))
           = IF n + 1 <= Len(b) THEN Len(b) - (n + 1) + 1 ELSE 0
      /\ \A i \in 1..Len(b) - (n + 1) + 1 : SubSeq(b, n + 1, Len(b))[i] = b[n + 1 + i - 1]
  BY <1>1, <1>2, SubSeqProperties
<1> QED BY <1>1, <1>3

(* TakenLines is what the loop of readWith ends with (broker.go:271-281):  *)
(* it takes once, and goes on with what is left of the buffer and of the   *)
(* room, for any buffer and any room.                                      *)
THEOREM LinesLoopTakesLines ==
  ASSUME NEW b \in Bits, NEW max \in Nat \ {0}
  PROVE  TakenLines(b, max) =
           LET n == Taken(b, max, TRUE)
           IN IF n = 0 \/ n >= max THEN n
              ELSE n + TakenLines(SubSeq(b, n + 1, Len(b)), max - n)
<1> DEFINE n == Taken(b, max, TRUE)
           s == SubSeq(b, n + 1, Len(b))
<1>1. /\ n \in 0..Len(b) /\ n <= max /\ Len(b) \in Nat /\ DOMAIN b = 1..Len(b)
      /\ n = 0 <=> Newlines(b) = {} /\ Len(b) < max
  BY TakenFits, LenProperties DEF Bits
<1>2. /\ TakenLines(b, max) \in 0..Len(b)
      /\ TakenLines(b, max) = 0 <=> Newlines(b) = {} /\ Len(b) < max
  BY TakenLinesFits
<1>3. /\ s \in Bits /\ Len(s) = Len(b) - n
      /\ \A i \in 1..Len(b) - n : s[i] = b[n + i]
  BY <1>1, Suffix DEF Bits
<1>4. DOMAIN s = 1..Len(b) - n
  BY <1>3, LenProperties DEF Bits
<1> HIDE DEF n, s
<1>5. n > 0 /\ n < max => n \in Newlines(b)
  <2>1. ASSUME n > 0, n < max, ~ \E i \in Newlines(b) : i <= max
        PROVE  FALSE
    <3>1. n = IF Len(b) >= max THEN max ELSE 0
      BY <2>1 DEF Taken, n
    <3> QED BY <1>1, <2>1, <3>1
  <2>2. ASSUME \E i \in Newlines(b) : i <= max
        PROVE  n \in Newlines(b)
    <3>1. n = Min(Newlines(b)) /\ Newlines(b) # {}
      BY <2>2 DEF Taken, n
    <3>2. Newlines(b) \subseteq Nat
      BY <1>1 DEF Newlines
    <3> QED BY <3>1, <3>2, MinOf
  <2> QED BY <2>1, <2>2
<1>6. CASE n = 0
  BY <1>1, <1>2, <1>6 DEF n
<1>7. CASE n >= max
  <2>1. n = max /\ Len(b) >= max /\ n # 0
    BY <1>1, <1>7
  <2>2. TakenLines(b, max) = max
    BY <2>1 DEF TakenLines
  <2> QED BY <1>7, <2>1, <2>2 DEF n
<1>8. CASE n > 0 /\ n < max
  <2>1. max - n \in Nat \ {0} /\ n \in Nat
    BY <1>1, <1>8
  <2>0. n # 0 /\ ~ (n >= max)
    BY <1>1, <1>8
  <2> DEFINE B == Newlines(b) \cup {0}
             S == Newlines(s) \cup {0}
  <2>2. CASE Len(b) >= max
    <3>1. TakenLines(b, max) = max
      BY <2>2 DEF TakenLines
    <3>2. TakenLines(s, max - n) = max - n
      BY <1>1, <1>3, <2>1, <2>2 DEF TakenLines
    <3>3. TakenLines(b, max) = n + TakenLines(s, max - n)
      BY <2>1, <3>1, <3>2
    <3> QED BY <2>0, <3>3, Zenon DEF n, s
  <2>3. CASE Len(b) < max
    <3>1. TakenLines(b, max) = Max(B)
      BY <1>1, <2>3 DEF TakenLines
    <3>2. TakenLines(s, max - n) = Max(S)
      BY <1>1, <1>3, <2>1, <2>3 DEF TakenLines
    <3>3. B \subseteq 0..Len(b) /\ B # {}
      BY <1>1 DEF Newlines
    <3>4. S \subseteq 0..Len(b) /\ S # {}
      BY <1>1, <1>3, <1>4, <2>1 DEF Newlines
    <3>5. \A i \in 1..Len(b) - n : i \in S <=> n + i \in B
      <4> TAKE i \in 1..Len(b) - n
      <4>1. i \in S <=> b[n + i] \in LineEnds
        BY <1>3, <1>4 DEF Newlines
      <4>2. n + i \in DOMAIN b /\ n + i # 0
        BY <1>1, <2>1
      <4>3. n + i \in B <=> b[n + i] \in LineEnds
        BY <4>2 DEF Newlines
      <4> QED BY <4>1, <4>3
    <3>6. n \in B /\ 0 \in S
      BY <1>5, <1>8
    <3> HIDE DEF B, S
    <3>7. Max(B) \in B /\ \A k \in B : k <= Max(B)
      BY <1>1, <3>3, MaxOf
    <3>8. Max(S) \in S /\ \A k \in S : k <= Max(S)
      BY <1>1, <3>4, MaxOf
    <3>9. Max(B) \in 0..Len(b) /\ n <= Max(B) /\ Max(S) \in 0..Len(b)
      BY <3>3, <3>4, <3>6, <3>7, <3>8
    <3>10. n + Max(S) <= Max(B)
      <4>1. CASE Max(S) = 0
        BY <2>1, <3>9, <4>1
      <4>2. CASE Max(S) # 0
        <5>1. Max(S) \in Newlines(s)
          BY <3>8, <4>2 DEF S
        <5>2. Max(S) \in 1..Len(b) - n
          BY <1>4, <5>1 DEF Newlines
        <5>3. n + Max(S) \in B
          BY <3>5, <3>8, <5>2
        <5> QED BY <3>7, <5>3
      <4> QED BY <4>1, <4>2
    <3>11. Max(B) - n <= Max(S)
      <4>1. CASE Max(B) = n
        BY <2>1, <3>9, <4>1
      <4>2. CASE Max(B) # n
        <5>1. Max(B) - n \in 1..Len(b) - n /\ n + (Max(B) - n) = Max(B)
          BY <1>1, <2>1, <3>9, <4>2
        <5>2. Max(B) - n \in S
          BY <3>5, <3>7, <5>1
        <5> QED BY <3>8, <5>2
      <4> QED BY <4>1, <4>2
    <3>12. Max(B) = n + Max(S)
      BY <2>1, <3>9, <3>10, <3>11
    <3>13. TakenLines(b, max) = n + TakenLines(s, max - n)
      BY <3>1, <3>2, <3>12, Zenon
    <3> QED BY <2>0, <3>13, Zenon DEF n, s
  <2>4. Len(b) >= max \/ Len(b) < max
    BY <1>1
  <2> QED BY <2>2, <2>3, <2>4, Zenon
<1>9. n = 0 \/ n >= max \/ (n > 0 /\ n < max)
  BY <1>1
<1> QED BY <1>6, <1>7, <1>8, <1>9

(* What a read with the parameters c takes from the buffer b: Complete(r)  *)
(* of the module, as a function of the two.                                *)
Quota(b, c) == IF c.mode = "lines" THEN TakenLines(b, c.max)
               ELSE Taken(b, c.max, c.mode = "delimiter")

(* There is nothing in b that such a read would return before its time.    *)
Starved(b, c) == IF c.mode = "plain" THEN b = <<>>
                 ELSE Newlines(b) = {} /\ Len(b) < c.max

LEMMA QuotaFits ==
  ASSUME NEW b \in Bits, NEW c \in Call
  PROVE  /\ Quota(b, c) \in 0..Len(b)
         /\ Quota(b, c) = 0 <=> Starved(b, c)
<1>1. c.max \in Nat \ {0} /\ c.mode \in {"plain", "delimiter", "lines"}
  BY DEF Call
<1>2. CASE c.mode = "lines"
  BY <1>1, <1>2, TakenLinesFits DEF Quota, Starved
<1>3. CASE c.mode = "delimiter"
  <2>1. Quota(b, c) = Taken(b, c.max, TRUE)
    BY <1>3 DEF Quota
  <2> QED BY <1>1, <1>3, <2>1, TakenFits DEF Starved
<1>4. CASE c.mode = "plain"
  <2>1. Quota(b, c) = Taken(b, c.max, FALSE)
    BY <1>4 DEF Quota
  <2> QED BY <1>1, <1>4, <2>1, TakenFits DEF Starved
<1> QED BY <1>1, <1>2, <1>3, <1>4

(* Who finds nothing in the buffer finds nothing in what is left of it.    *)
LEMMA StarvedStaysSo ==
  ASSUME NEW b \in Bits, NEW c \in Call, NEW n \in 0..Len(b), Starved(b, c)
  PROVE  Starved(SubSeq(b, n + 1, Len(b)), c)
<1> DEFINE s == SubSeq(b, n + 1, Len(b))
<1>1. Len(b) \in Nat /\ DOMAIN b = 1..Len(b) /\ c.max \in Nat
  BY LenProperties DEF Bits, Call
<1>2. s \in Bits /\ Len(s) = Len(b) - n /\ \A i \in 1..Len(b) - n : s[i] = b[n + i]
  BY Suffix DEF Bits
<1>3. DOMAIN s = 1..Len(b) - n
  BY <1>2, LenProperties DEF Bits
<1> HIDE DEF s
<1>4. CASE c.mode = "plain"
  BY <1>1, <1>2, <1>4, EmptySeq DEF Starved, Bits, s
<1>5. CASE c.mode # "plain"
  <2>1. Newlines(b) = {} /\ Len(b) < c.max
    BY <1>5 DEF Starved
  <2>2. ASSUME NEW i \in Newlines(s)
        PROVE  FALSE
    <3>1. i \in 1..Len(b) - n /\ s[i] \in LineEnds
      BY <1>3 DEF Newlines
    <3>2. n + i \in DOMAIN b /\ b[n + i] \in LineEnds
      BY <1>1, <1>2, <3>1
    <3> QED BY <2>1, <3>2 DEF Newlines
  <2>3. Newlines(s) = {} /\ Len(s) < c.max
    BY <1>1, <1>2, <2>1, <2>2
  <2> QED BY <1>5, <2>3 DEF Starved, s
<1> QED BY <1>4, <1>5 DEF s

-----------------------------------------------------------------------------
(* The inductive invariant: the four invariants, and what keeps them.      *)

(* What is between the stream and the buffer is one read of the stream.    *)
OneChunk == Len(chunk) <= Chunk /\ (pump # "put" => chunk = <<>>)

(* A session that its consumer has not closed is closed by the pump, which *)
(* is its last act; and no read reports EOF before.                        *)
PumpEndsLast == /\ closed /\ known => pump = "done"
                /\ closing => ~known
                /\ \A r \in Reader : eof[r] => closed

SleepersRead == \A r \in Reader \cap waiting : call[r] # NoCall

BufferInv == /\ TypeOK /\ StreamIsIntact /\ SleepersHaveReason /\ EofIsLast
             /\ OneChunk /\ PumpEndsLast /\ SleepersRead

LEMMA InitInv == Init => BufferInv
<1> SUFFICES ASSUME Init PROVE BufferInv
  OBVIOUS
<1> USE DEF Init
<1>1. <<>> \in Bits /\ Len(<<>>) = 0
  BY EmptySeq DEF Bits
<1>2. TypeOK
  <2>1. /\ call \in [Reader -> Call \cup {NoCall}]
        /\ time \in [Reader -> {"before", "past", "rang"}]
        /\ eof \in [Reader -> BOOLEAN]
    OBVIOUS
  <2>2. 0 \in 0..Bytes /\ Len(buf) < BufCap + Chunk
    BY <1>1
  <2> QED BY <1>1, <2>1, <2>2 DEF TypeOK, Bits
<1>3. StreamIsIntact
  <2>1. got \o buf \o chunk = <<>>
    BY <1>1, ConcatEmptySeq DEF Bits
  <2>2. [i \in 1..0 |-> i] = <<>>
    OBVIOUS
  <2> QED BY <2>1, <2>2 DEF StreamIsIntact
<1>4. SleepersHaveReason /\ EofIsLast /\ PumpEndsLast /\ SleepersRead
  BY DEF SleepersHaveReason, EofIsLast, PumpEndsLast, SleepersRead
<1>5. OneChunk
  BY <1>1 DEF OneChunk
<1> QED BY <1>2, <1>3, <1>4, <1>5 DEF BufferInv

(* What a caller that runs takes: Complete when there is something, and    *)
(* Rest when it ends with what there is.                                   *)
LEMMA RunningCall ==
  ASSUME TypeOK, NEW r \in Reader, call[r] # NoCall
  PROVE  /\ call[r] \in Call
         /\ Complete(r) = Quota(buf, call[r])
         /\ Complete(r) \in 0..Len(buf)
         /\ Complete(r) = 0 <=> Starved(buf, call[r])
         /\ Rest(r) \in 0..Len(buf)
<1>1. call[r] \in Call /\ buf \in Bits
  BY DEF TypeOK, Bits
<1>2. Complete(r) = Quota(buf, call[r])
  BY DEF Complete, Quota
<1>3. Len(buf) \in Nat /\ call[r].max \in Nat
  BY <1>1, LenProperties DEF Bits, Call
<1>4. Rest(r) \in 0..Len(buf)
  BY <1>3, MinOfTwo DEF Rest
<1> QED BY <1>1, <1>2, <1>4, QuotaFits

(* Returning the first n bytes of the buffer.                              *)
LEMMA Returning ==
  ASSUME TypeOK, NEW r \in Reader, NEW n \in 0..Len(buf), NEW over \in BOOLEAN,
         ReturnFirst(r, n, over)
  PROVE  /\ buf' = SubSeq(buf, n + 1, Len(buf)) /\ Len(buf') = Len(buf) - n
         /\ Len(got') = Len(got) + n
         /\ got' \o buf' = got \o buf
         /\ buf' \in Bits /\ got' \in Bits
         /\ call' \in [Reader -> Call \cup {NoCall}]
         /\ time' \in [Reader -> {"before", "past", "rang"}]
         /\ eof' \in [Reader -> BOOLEAN]
<1> USE DEF ReturnFirst, Answer
<1>1. buf \in Bits /\ got \in Bits
  BY DEF TypeOK, Bits
<1>2. Len(buf) \in Nat /\ Len(got) \in Nat
  BY <1>1, LenProperties DEF Bits
<1> DEFINE first == SubSeq(buf, 1, n)
           rest == SubSeq(buf, n + 1, Len(buf))
<1>3. first \in Bits /\ Len(first) = n
  <2>1. \A i \in 1..n : buf[i] \in 1..Bytes
    BY <1>1, <1>2, ElementOfSeq DEF Bits
  <2> QED BY <1>2, <2>1, SubSeqProperties DEF Bits
<1>4. rest \in Bits /\ Len(rest) = Len(buf) - n
  BY <1>1, Suffix DEF Bits
<1>5. first \o rest = buf
  <2>1. 1 \in 1..Len(buf) + 1 /\ n \in 1 - 1..Len(buf) /\ Len(buf) \in n..Len(buf)
    BY <1>2
  <2>2. first \o rest = SubSeq(buf, 1, Len(buf))
    BY <1>1, <2>1, ConcatAdjacentSubSeq DEF Bits
  <2> QED BY <1>1, <2>2, SubSeqFull DEF Bits
<1>6. got' = got \o first /\ buf' = rest
  OBVIOUS
<1> HIDE DEF first, rest
<1>7. got' \in Bits /\ Len(got') = Len(got) + n
  BY <1>1, <1>3, <1>6, ConcatProperties DEF Bits
<1>8. got' \o buf' = got \o buf
  <2>1. (got \o first) \o rest = got \o (first \o rest)
    BY <1>1, <1>3, <1>4, Associative, Zenon
  <2> QED BY <2>1, <1>5, <1>6, Zenon
<1>9. /\ call' \in [Reader -> Call \cup {NoCall}]
      /\ time' \in [Reader -> {"before", "past", "rang"}]
      /\ eof' \in [Reader -> BOOLEAN]
  <2>1. call' \in [Reader -> Call \cup {NoCall}]
    BY DEF TypeOK
  <2>2. time' \in [Reader -> {"before", "past", "rang"}]
    BY DEF TypeOK
  <2>3. eof' \in [Reader -> BOOLEAN]
    BY DEF TypeOK
  <2> QED BY <2>1, <2>2, <2>3
<1> QED BY <1>4, <1>6, <1>7, <1>8, <1>9 DEF rest

(* Each way a read ends is a return of some first bytes.                   *)
LEMMA EndingRead ==
  ASSUME TypeOK, NEW r \in Reader, Take(r) \/ TakeRest(r) \/ TimeOut(r)
  PROVE  \E n \in 0..Len(buf), over \in BOOLEAN : ReturnFirst(r, n, over)
<1>1. call[r] # NoCall
  BY DEF Take, TakeRest, TimeOut, Runs
<1>2. Complete(r) \in 0..Len(buf) /\ Rest(r) \in 0..Len(buf)
  BY <1>1, RunningCall
<1>3. CASE Take(r)
  BY <1>2, <1>3 DEF Take
<1>4. CASE TakeRest(r)
  BY <1>2, <1>4 DEF TakeRest
<1>5. CASE TimeOut(r)
  BY <1>2, <1>5 DEF TimeOut
<1> QED BY <1>3, <1>4, <1>5

(* A step that only changes what is not the data.                          *)
LEMMA TypeNext == TypeOK /\ OneChunk /\ [Next]_vars => TypeOK'
<1> SUFFICES ASSUME TypeOK, OneChunk, [Next]_vars
             PROVE  TypeOK'
  OBVIOUS
<1>0. /\ chunk \in Bits /\ buf \in Bits /\ got \in Bits
      /\ Len(chunk) \in Nat /\ Len(buf) \in Nat
  BY LenProperties DEF TypeOK, Bits
<1>1. CASE PumpChecks
  BY <1>1 DEF PumpChecks, TypeOK, entry, reads
<1>2. CASE PumpReads
  <2>1. CASE pump' = "fail"
    BY <1>2, <2>1 DEF PumpReads, TypeOK, entry, reads
  <2>2. CASE pump' # "fail"
    <3>1. PICK n \in 1..Chunk : /\ sent + n <= Bytes
                               /\ chunk' = [i \in 1..n |-> sent + i]
                               /\ sent' = sent + n /\ pump' = "put"
      BY <1>2, <2>2 DEF PumpReads
    <3>2. n \in Nat /\ sent \in Nat /\ \A i \in 1..n : sent + i \in 1..Bytes
      BY <3>1 DEF TypeOK
    <3>3. chunk' \in Seq(1..Bytes)
      BY <3>1, <3>2, IsASeq
    <3>4. sent' \in 0..Bytes
      BY <3>1, <3>2
    <3> QED BY <1>2, <3>1, <3>3, <3>4 DEF PumpReads, TypeOK, entry, reads
  <2> QED BY <2>1, <2>2
<1>3. CASE PumpPuts
  <2>1. buf' \in Bits /\ Len(buf') = Len(buf) + Len(chunk)
    BY <1>0, <1>3, ConcatProperties DEF PumpPuts, Bits
  <2>2. Len(buf') < BufCap + Chunk
    <3>1. CASE pump = "put"
      BY <1>0, <2>1, <3>1 DEF OneChunk, TypeOK
    <3>2. CASE pump # "put"
      BY <1>0, <2>1, <3>2, EmptySeq DEF OneChunk, TypeOK
    <3> QED BY <3>1, <3>2
  <2>3. chunk' \in Bits
    BY <1>3, EmptySeq DEF PumpPuts, Bits
  <2> QED BY <1>3, <2>1, <2>2, <2>3 DEF PumpPuts, Broadcast, TypeOK, Bits, entry, reads
<1>4. CASE Reap
  BY <1>4 DEF Reap, TypeOK, stream, reads
<1>5. ASSUME NEW r \in Reader, NEW c \in Call, StartRead(r, c)
      PROVE  TypeOK'
  <2>1. call' \in [Reader -> Call \cup {NoCall}]
    BY <1>5 DEF StartRead, TypeOK
  <2>2. eof' \in [Reader -> BOOLEAN]
    BY <1>5 DEF StartRead, TypeOK
  <2> QED BY <1>5, <2>1, <2>2 DEF StartRead, TypeOK, stream, entry
<1>6. ASSUME NEW r \in Reader, DeadlinePasses(r) \/ TimerRings(r)
      PROVE  TypeOK'
  <2>1. time' \in [Reader -> {"before", "past", "rang"}]
    BY <1>6 DEF DeadlinePasses, TimerRings, TypeOK
  <2>2. waiting' \subseteq Reader \cup {Pump}
    BY <1>6 DEF DeadlinePasses, TimerRings, Broadcast, TypeOK
  <2> QED BY <1>6, <2>1, <2>2 DEF DeadlinePasses, TimerRings, TypeOK, stream, entry
<1>7. ASSUME NEW r \in Reader, Take(r) \/ TakeRest(r) \/ TimeOut(r)
      PROVE  TypeOK'
  <2>1. PICK n \in 0..Len(buf), over \in BOOLEAN : ReturnFirst(r, n, over)
    BY <1>7, EndingRead
  <2>2. waiting' \subseteq Reader \cup {Pump}
    BY <1>7 DEF Take, TakeRest, TimeOut, Broadcast, TypeOK
  <2>3. /\ buf' \in Bits /\ got' \in Bits /\ Len(buf') = Len(buf) - n
        /\ call' \in [Reader -> Call \cup {NoCall}]
        /\ time' \in [Reader -> {"before", "past", "rang"}]
        /\ eof' \in [Reader -> BOOLEAN]
    BY <2>1, Returning
  <2>4. Len(buf') <= Len(buf) /\ Len(buf') \in Nat
    BY <1>0, <2>3
  <2>5. UNCHANGED <<sent, ended, pump, chunk, closed, known, closing>>
    BY <2>1 DEF ReturnFirst, Answer, stream, entry
  <2>6. /\ Len(buf') < BufCap + Chunk
        /\ pump' \in {"read", "put"} => Len(buf') < BufCap
    BY <1>0, <2>4, <2>5 DEF TypeOK
  <2> QED BY <2>2, <2>3, <2>5, <2>6 DEF TypeOK, Bits
<1>8. ASSUME NEW r \in Reader, Wait(r)
      PROVE  TypeOK'
  BY <1>8 DEF Wait, TypeOK, stream, entry, reads
<1>9. CASE EndStream
  BY <1>9 DEF EndStream, TypeOK, entry, reads
<1>10. CASE Close
  BY <1>10 DEF Close, TypeOK, stream, reads
<1>11. CASE MarkClosed
  BY <1>11 DEF MarkClosed, Broadcast, TypeOK, stream, reads
<1>12. CASE UNCHANGED vars
  BY <1>12 DEF TypeOK, vars
<1> QED BY <1>1, <1>2, <1>3, <1>4, <1>5, <1>6, <1>7, <1>8, <1>9, <1>10, <1>11, <1>12
       DEF Next, Reading

-----------------------------------------------------------------------------
(* What the device has sent so far: the stream of its bytes.               *)

Sent(n) == [i \in 1..n |-> i]

LEMMA SentIs ==
  ASSUME NEW n \in 0..Bytes
  PROVE  /\ Sent(n) \in Bits /\ Len(Sent(n)) = n
         /\ \A i \in 1..n : Sent(n)[i] = i
<1>1. n \in Nat /\ \A i \in 1..n : i \in 1..Bytes
  OBVIOUS
<1>2. Sent(n) \in Seq(1..Bytes)
  BY <1>1, IsASeq DEF Sent
<1>3. Len(Sent(n)) = n
  BY <1>1, <1>2, LenProperties DEF Sent
<1> QED BY <1>2, <1>3 DEF Sent, Bits

(* What a read of the stream adds to it.                                   *)
LEMMA SentGrows ==
  ASSUME NEW m \in 0..Bytes, NEW n \in Nat, m + n <= Bytes
  PROVE  Sent(m) \o [i \in 1..n |-> m + i] = Sent(m + n)
<1> DEFINE more == [i \in 1..n |-> m + i]
<1>1. m \in Nat /\ m + n \in 0..Bytes
  OBVIOUS
<1>2. \A i \in 1..n : m + i \in 1..Bytes
  BY <1>1
<1>3. more \in Bits
  BY <1>2, IsASeq DEF Bits
<1>4. Len(more) = n /\ \A i \in 1..n : more[i] = m + i
  BY <1>3, LenProperties DEF Bits
<1> HIDE DEF more
<1>5. /\ Sent(m) \in Bits /\ Len(Sent(m)) = m /\ \A i \in 1..m : Sent(m)[i] = i
      /\ Sent(m + n) \in Bits /\ Len(Sent(m + n)) = m + n
      /\ \A i \in 1..m + n : Sent(m + n)[i] = i
  BY <1>1, SentIs
<1>6. /\ Sent(m) \o more \in Bits /\ Len(Sent(m) \o more) = m + n
      /\ \A i \in 1..m + n : (Sent(m) \o more)[i] = IF i <= m THEN Sent(m)[i] ELSE more[i - m]
  BY <1>3, <1>4, <1>5, ConcatProperties DEF Bits
<1>7. \A i \in 1..m + n : (Sent(m) \o more)[i] = Sent(m + n)[i]
  <2> TAKE i \in 1..m + n
  <2>1. CASE i <= m
    BY <1>1, <1>5, <1>6, <2>1
  <2>2. CASE i > m
    <3>1. i - m \in 1..n
      BY <1>1, <2>2
    <3>2. more[i - m] = i
      BY <1>1, <1>4, <3>1
    <3> QED BY <1>1, <1>5, <1>6, <2>2, <3>2
  <2>3. i <= m \/ i > m
    BY <1>1
  <2> QED BY <2>1, <2>2, <2>3, Zenon
<1>8. Sent(m) \o more = Sent(m + n)
  BY <1>5, <1>6, <1>7, SeqEqual DEF Bits
<1> QED BY <1>8 DEF more

(* No step loses, repeats or reorders a byte.                              *)
LEMMA IntactNext ==
  TypeOK /\ OneChunk /\ StreamIsIntact /\ [Next]_vars => StreamIsIntact'
<1> SUFFICES ASSUME TypeOK, OneChunk, StreamIsIntact, [Next]_vars
             PROVE  StreamIsIntact'
  OBVIOUS
<1>0. /\ chunk \in Bits /\ buf \in Bits /\ got \in Bits /\ sent \in 0..Bytes
      /\ got \o buf \in Bits
      /\ (got \o buf) \o chunk = Sent(sent)
  <2>1. chunk \in Bits /\ buf \in Bits /\ got \in Bits /\ sent \in 0..Bytes
    BY DEF TypeOK, Bits
  <2> QED BY <2>1, ConcatProperties DEF StreamIsIntact, Sent, Bits
<1>1. CASE UNCHANGED <<sent, chunk>> /\ got' \o buf' = got \o buf
  BY <1>1 DEF StreamIsIntact
<1>2. CASE PumpReads
  <2>1. CASE pump' = "fail"
    BY <1>1, <1>2, <2>1 DEF PumpReads, reads
  <2>2. CASE pump' # "fail"
    <3>1. PICK n \in 1..Chunk : /\ sent + n <= Bytes
                               /\ chunk' = [i \in 1..n |-> sent + i]
                               /\ sent' = sent + n
      BY <1>2, <2>2 DEF PumpReads
    <3>2. got \o buf = Sent(sent)
      <4>1. chunk = <<>>
        BY <1>2 DEF PumpReads, OneChunk
      <4> QED BY <1>0, <4>1, ConcatEmptySeq DEF Bits
    <3>3. Sent(sent) \o chunk' = Sent(sent')
      <4>1. n \in Nat /\ sent \in 0..Bytes
        BY <1>0, <3>1
      <4>2. Sent(sent) \o [i \in 1..n |-> sent + i] = Sent(sent + n)
        BY <3>1, <4>1, SentGrows
      <4> QED BY <3>1, <4>2, Zenon
    <3>4. UNCHANGED <<got, buf>>
      BY <1>2 DEF PumpReads, reads
    <3> QED BY <3>2, <3>3, <3>4 DEF StreamIsIntact, Sent
  <2> QED BY <2>1, <2>2
<1>3. CASE PumpPuts
  <2>1. buf' = buf \o chunk /\ chunk' = <<>> /\ UNCHANGED <<got, sent>>
    BY <1>3 DEF PumpPuts, reads
  <2>2. (got \o buf) \o chunk = got \o (buf \o chunk)
    BY <1>0, Associative, Zenon
  <2>3. buf \o chunk \in Bits
    BY <1>0, ConcatProperties DEF Bits
  <2>4. got \o (buf \o chunk) \in Bits
    BY <1>0, <2>3, ConcatProperties DEF Bits
  <2>5. (got \o (buf \o chunk)) \o <<>> = got \o (buf \o chunk)
    BY <2>4, ConcatEmptySeq DEF Bits
  <2>6. (got' \o buf') \o chunk' = Sent(sent')
    BY <1>0, <2>1, <2>2, <2>5, Zenon
  <2> QED BY <2>6 DEF StreamIsIntact, Sent
<1>4. ASSUME NEW r \in Reader, Take(r) \/ TakeRest(r) \/ TimeOut(r)
      PROVE  StreamIsIntact'
  <2>1. PICK n \in 0..Len(buf), over \in BOOLEAN : ReturnFirst(r, n, over)
    BY <1>4, EndingRead
  <2>2. got' \o buf' = got \o buf
    BY <2>1, Returning
  <2>3. UNCHANGED <<sent, chunk>>
    BY <2>1 DEF ReturnFirst, Answer, stream
  <2> QED BY <1>1, <2>2, <2>3
<1>5. ASSUME NEW r \in Reader, NEW c \in Call, StartRead(r, c)
      PROVE  StreamIsIntact'
  BY <1>1, <1>5 DEF StartRead, stream
<1>6. ASSUME NEW r \in Reader, DeadlinePasses(r) \/ TimerRings(r) \/ Wait(r)
      PROVE  StreamIsIntact'
  BY <1>1, <1>6 DEF DeadlinePasses, TimerRings, Wait, stream, reads
<1>7. CASE PumpChecks \/ Reap \/ EndStream \/ Close \/ MarkClosed
  BY <1>1, <1>7 DEF PumpChecks, Reap, EndStream, Close, MarkClosed, stream, reads
<1>8. CASE UNCHANGED vars
  BY <1>1, <1>8 DEF vars
<1> QED BY <1>2, <1>3, <1>4, <1>5, <1>6, <1>7, <1>8 DEF Next, Reading

-----------------------------------------------------------------------------
(* Why nobody sleeps without a reason.                                     *)

LEMMA SleepersNext ==
  TypeOK /\ SleepersHaveReason /\ SleepersRead /\ [Next]_vars
    => SleepersHaveReason' /\ SleepersRead'
<1> SUFFICES ASSUME TypeOK, SleepersHaveReason, SleepersRead, [Next]_vars
             PROVE  SleepersHaveReason' /\ SleepersRead'
  OBVIOUS
<1> DEFINE Rests(q) == call[q] # NoCall /\ Complete(q) = 0 /\ ~closed /\ time[q] # "rang"
<1>0. /\ Pump \in waiting => Len(buf) >= BufCap /\ ~closed
      /\ \A q \in Reader \cap waiting : Rests(q)
      /\ waiting \subseteq Reader \cup {Pump}
  BY DEF SleepersHaveReason, SleepersRead, TypeOK
<1>1. ASSUME waiting' = {}
      PROVE  SleepersHaveReason' /\ SleepersRead'
  BY <1>1 DEF SleepersHaveReason, SleepersRead
<1>2. ASSUME Pump \in waiting' => Len(buf') >= BufCap /\ ~closed',
             \A q \in Reader \cap waiting' : Rests(q)'
      PROVE  SleepersHaveReason' /\ SleepersRead'
  BY <1>2 DEF SleepersHaveReason, SleepersRead
<1>3. ASSUME NEW q \in Reader, UNCHANGED <<buf, call>>
      PROVE  Complete(q)' = Complete(q)
  BY <1>3 DEF Complete, TakenLines, Taken, Newlines
<1>4. CASE UNCHANGED <<buf, closed, call, time, waiting>>
  BY <1>0, <1>2, <1>3, <1>4
<1>5. CASE PumpChecks
  <2>1. UNCHANGED <<buf, closed, call, time>> /\ Reader \cap waiting' = Reader \cap waiting
    BY <1>5 DEF PumpChecks, reads
  <2>2. Pump \in waiting' => Len(buf) >= BufCap /\ ~closed
    BY <1>5 DEF PumpChecks
  <2> QED BY <1>0, <1>2, <1>3, <2>1, <2>2
<1>6. CASE PumpPuts \/ MarkClosed
  BY <1>1, <1>6 DEF PumpPuts, MarkClosed, Broadcast
<1>7. CASE PumpReads \/ Reap \/ EndStream \/ Close
  BY <1>4, <1>7 DEF PumpReads, Reap, EndStream, Close, reads
<1>8. ASSUME NEW r \in Reader, NEW c \in Call, StartRead(r, c)
      PROVE  SleepersHaveReason' /\ SleepersRead'
  <2>1. r \notin waiting
    BY <1>0, <1>8 DEF StartRead
  <2>2. /\ UNCHANGED <<buf, closed, time, waiting>>
        /\ \A q \in Reader \ {r} : call'[q] = call[q]
    BY <1>8 DEF StartRead, TypeOK
  <2>3. \A q \in Reader \ {r} : Complete(q)' = Complete(q)
    BY <2>2 DEF Complete, TakenLines, Taken, Newlines
  <2> QED BY <1>0, <1>2, <2>1, <2>2, <2>3
<1>9. ASSUME NEW r \in Reader, DeadlinePasses(r)
      PROVE  SleepersHaveReason' /\ SleepersRead'
  <2>1. /\ UNCHANGED <<buf, closed, call, waiting>>
        /\ \A q \in Reader : time[q] # "rang" => time'[q] # "rang"
    BY <1>9 DEF DeadlinePasses, TypeOK
  <2> QED BY <1>0, <1>2, <1>3, <2>1
<1>10. ASSUME NEW r \in Reader, TimerRings(r) \/ Take(r)
       PROVE  SleepersHaveReason' /\ SleepersRead'
  BY <1>1, <1>10 DEF TimerRings, Take, Broadcast
<1>11. ASSUME NEW r \in Reader, TakeRest(r)
       PROVE  SleepersHaveReason' /\ SleepersRead'
  <2>1. closed /\ waiting' = waiting
    BY <1>11 DEF TakeRest
  <2>2. waiting = {}
    BY <1>0, <2>1
  <2> QED BY <1>1, <2>1, <2>2
<1>12. ASSUME NEW r \in Reader, TimeOut(r)
       PROVE  SleepersHaveReason' /\ SleepersRead'
  <2>1. call[r] # NoCall /\ r \notin waiting /\ Complete(r) = 0 /\ waiting' = waiting
    BY <1>12 DEF TimeOut, Runs
  <2>2. call[r] \in Call /\ Starved(buf, call[r])
    BY <2>1, RunningCall
  <2>3. buf \in Bits /\ Len(buf) \in Nat
    BY LenProperties DEF TypeOK, Bits
  <2>4. Len(buf) < BufCap
    BY <2>2, <2>3, EmptySeq DEF Starved, Call
  <2>5. Pump \notin waiting
    BY <1>0, <2>3, <2>4
  <2>6. PICK n \in 0..Len(buf), over \in BOOLEAN : ReturnFirst(r, n, over)
    BY <1>12, EndingRead
  <2>7. buf' = SubSeq(buf, n + 1, Len(buf)) /\ closed' = closed
    BY <2>6 DEF ReturnFirst, Answer
  <2>8. \A q \in Reader \ {r} : call'[q] = call[q] /\ time'[q] = time[q]
    BY <2>6 DEF ReturnFirst, Answer, TypeOK
  <2>9. ASSUME NEW q \in Reader \cap waiting'
        PROVE  Rests(q)'
    <3>1. q \in Reader \ {r} /\ Rests(q)
      BY <1>0, <2>1
    <3>2. call[q] \in Call /\ Starved(buf, call[q])
      BY <3>1, RunningCall
    <3>3. Starved(buf', call[q]) /\ buf' \in Bits
      BY <2>3, <2>6, <2>7, <3>2, StarvedStaysSo, Returning
    <3>4. Quota(buf', call[q]) = 0
      BY <3>2, <3>3, QuotaFits
    <3>5. Complete(q)' = 0
      BY <2>8, <3>1, <3>4 DEF Complete, Quota
    <3> QED BY <2>7, <2>8, <3>1, <3>5
  <2> QED BY <1>2, <2>1, <2>5, <2>9
<1>13. ASSUME NEW r \in Reader, Wait(r)
       PROVE  SleepersHaveReason' /\ SleepersRead'
  <2>1. UNCHANGED <<buf, closed, call, time>> /\ waiting' = waiting \cup {r}
    BY <1>13 DEF Wait, reads
  <2>2. Rests(r)
    BY <1>13 DEF Wait, Runs
  <2>3. Pump \in waiting' => Pump \in waiting
    BY <2>1
  <2> QED BY <1>0, <1>2, <1>3, <2>1, <2>2, <2>3
<1>14. CASE UNCHANGED vars
  BY <1>4, <1>14 DEF vars
<1> QED BY <1>5, <1>6, <1>7, <1>8, <1>9, <1>10, <1>11, <1>12, <1>13, <1>14 DEF Next, Reading

-----------------------------------------------------------------------------
(* The end of the session.                                                 *)

LEMMA ChunkNext == TypeOK /\ OneChunk /\ [Next]_vars => OneChunk'
<1> SUFFICES ASSUME TypeOK, OneChunk, [Next]_vars
             PROVE  OneChunk'
  OBVIOUS
<1>1. CASE UNCHANGED <<pump, chunk>>
  BY <1>1 DEF OneChunk
<1>2. CASE PumpReads
  <2>1. CASE pump' = "fail"
    BY <1>2, <2>1 DEF PumpReads, OneChunk
  <2>2. CASE pump' # "fail"
    <3>1. PICK n \in 1..Chunk : chunk' = [i \in 1..n |-> sent + i] /\ pump' = "put"
      BY <1>2, <2>2 DEF PumpReads
    <3>2. n \in Nat /\ sent \in Nat /\ \A i \in 1..n : sent + i \in Int
      BY <3>1 DEF TypeOK
    <3>3. chunk' \in Seq(Int) /\ DOMAIN chunk' = 1..n
      BY <3>1, <3>2, IsASeq
    <3>4. Len(chunk') = n
      BY <3>2, <3>3, LenProperties
    <3> QED BY <3>1, <3>4 DEF OneChunk
  <2> QED BY <2>1, <2>2
<1>3. CASE PumpPuts
  BY <1>3, EmptySeq DEF PumpPuts, OneChunk
<1>4. CASE PumpChecks
  BY <1>4 DEF PumpChecks, OneChunk
<1>5. ASSUME NEW r \in Reader, Reading(r)
      PROVE  OneChunk'
  BY <1>1, <1>5 DEF Reading, Take, TakeRest, TimeOut, Wait, ReturnFirst, Answer, stream
<1>6. ASSUME NEW r \in Reader, NEW c \in Call, StartRead(r, c)
      PROVE  OneChunk'
  BY <1>1, <1>6 DEF StartRead, stream
<1>7. ASSUME NEW r \in Reader, DeadlinePasses(r) \/ TimerRings(r)
      PROVE  OneChunk'
  BY <1>1, <1>7 DEF DeadlinePasses, TimerRings, stream
<1>8. CASE Reap \/ EndStream \/ Close \/ MarkClosed
  BY <1>1, <1>8 DEF Reap, EndStream, Close, MarkClosed, stream
<1>9. CASE UNCHANGED vars
  BY <1>1, <1>9 DEF vars
<1> QED BY <1>2, <1>3, <1>4, <1>5, <1>6, <1>7, <1>8, <1>9 DEF Next

LEMMA EndNext == TypeOK /\ PumpEndsLast /\ [Next]_vars => PumpEndsLast'
<1> SUFFICES ASSUME TypeOK, PumpEndsLast, [Next]_vars
             PROVE  PumpEndsLast'
  OBVIOUS
<1>1. CASE UNCHANGED <<pump, closed, known, closing, eof>>
  BY <1>1 DEF PumpEndsLast
<1>2. CASE PumpChecks \/ PumpReads \/ PumpPuts \/ Reap \/ Close \/ MarkClosed
  BY <1>2 DEF PumpChecks, PumpReads, PumpPuts, Reap, Close, MarkClosed,
              entry, stream, reads, PumpEndsLast, TypeOK
<1>3. ASSUME NEW r \in Reader, NEW c \in Call, StartRead(r, c)
      PROVE  PumpEndsLast'
  BY <1>3 DEF StartRead, stream, entry, PumpEndsLast, TypeOK
<1>4. ASSUME NEW r \in Reader, Take(r) \/ TakeRest(r) \/ TimeOut(r)
      PROVE  PumpEndsLast'
  <2>1. /\ UNCHANGED <<pump, closed, known, closing>>
        /\ \A q \in Reader \ {r} : eof'[q] = eof[q]
        /\ eof'[r] => closed
    BY <1>4 DEF Take, TakeRest, TimeOut, ReturnFirst, Answer, stream, entry, TypeOK
  <2> QED BY <2>1 DEF PumpEndsLast
<1>5. ASSUME NEW r \in Reader, DeadlinePasses(r) \/ TimerRings(r) \/ Wait(r)
      PROVE  PumpEndsLast'
  BY <1>1, <1>5 DEF DeadlinePasses, TimerRings, Wait, stream, entry, reads
<1>6. CASE EndStream
  BY <1>1, <1>6 DEF EndStream, entry, reads
<1>7. CASE UNCHANGED vars
  BY <1>1, <1>7 DEF vars
<1> QED BY <1>2, <1>3, <1>4, <1>5, <1>6, <1>7 DEF Next, Reading

(* The three parts of the stream add up.                                   *)
LEMMA Lengths ==
  ASSUME TypeOK, StreamIsIntact
  PROVE  /\ Len(got) \in Nat /\ Len(buf) \in Nat /\ Len(chunk) \in Nat /\ sent \in Nat
         /\ Len(got) + Len(buf) + Len(chunk) = sent
<1>1. /\ chunk \in Bits /\ buf \in Bits /\ got \in Bits /\ sent \in 0..Bytes
      /\ Len(got) \in Nat /\ Len(buf) \in Nat /\ Len(chunk) \in Nat
  BY LenProperties DEF TypeOK, Bits
<1>2. got \o buf \in Bits /\ Len(got \o buf) = Len(got) + Len(buf)
  BY <1>1, ConcatProperties DEF Bits
<1>3. Len((got \o buf) \o chunk) = Len(got) + Len(buf) + Len(chunk)
  BY <1>1, <1>2, ConcatProperties DEF Bits
<1>4. (got \o buf) \o chunk = Sent(sent)
  BY DEF StreamIsIntact, Sent
<1> QED BY <1>1, <1>3, <1>4, SentIs

LEMMA EofNext == BufferInv /\ [Next]_vars => EofIsLast'
<1> SUFFICES ASSUME BufferInv, [Next]_vars, NEW q \in Reader, eof'[q], known'
             PROVE  Len(got') = sent'
  BY DEF EofIsLast
<1> USE DEF BufferInv
<1>1. known
  BY DEF Next, PumpChecks, PumpReads, PumpPuts, Reap, Reading, StartRead, DeadlinePasses,
         TimerRings, Take, TakeRest, TimeOut, Wait, ReturnFirst, Answer, EndStream, Close,
         MarkClosed, entry, reads, vars, TypeOK
<1>2. CASE UNCHANGED <<eof, got, sent>>
  BY <1>1, <1>2 DEF EofIsLast
<1>3. CASE PumpReads
  <2>1. pump = "read" /\ eof' = eof
    BY <1>3 DEF PumpReads, reads
  <2> QED BY <1>1, <2>1 DEF PumpEndsLast
<1>4. ASSUME NEW r \in Reader, NEW c \in Call, StartRead(r, c)
      PROVE  Len(got') = sent'
  <2>1. UNCHANGED <<got, sent>> /\ eof[q]
    BY <1>4 DEF StartRead, TypeOK, stream
  <2> QED BY <1>1, <2>1 DEF EofIsLast
<1>5. ASSUME NEW r \in Reader, Take(r) \/ TakeRest(r) \/ TimeOut(r)
      PROVE  Len(got') = sent'
  <2>1. PICK n \in 0..Len(buf), over \in BOOLEAN : ReturnFirst(r, n, over)
    BY <1>5, EndingRead
  <2>2. /\ Len(got') = Len(got) + n /\ UNCHANGED <<sent, chunk>>
        /\ \A p \in Reader \ {r} : eof'[p] = eof[p]
    BY <2>1, Returning DEF ReturnFirst, Answer, stream, TypeOK
  <2>3. /\ Len(got) \in Nat /\ Len(buf) \in Nat /\ Len(chunk) \in Nat /\ sent \in Nat
        /\ Len(got) + Len(buf) + Len(chunk) = sent
    BY Lengths
  <2>4. CASE eof[q]
    <3>1. Len(got) = sent
      BY <1>1, <2>4 DEF EofIsLast
    <3> QED BY <2>2, <2>3, <3>1
  <2>5. CASE ~eof[q]
    <3>1. q = r
      BY <2>2, <2>5
    <3>2. /\ closed /\ call[r] # NoCall
          /\ Rest(r) = Len(buf) /\ ReturnFirst(r, Rest(r), Rest(r) = Len(buf))
      BY <1>5, <3>1 DEF Take, TakeRest, TimeOut, Runs, ReturnFirst, Answer, TypeOK
    <3>3. Len(got') = Len(got) + Len(buf)
      <4>1. Rest(r) \in 0..Len(buf) /\ (Rest(r) = Len(buf)) \in BOOLEAN
        BY <2>3, <3>2
      <4>2. Len(got') = Len(got) + Rest(r)
        BY <3>2, <4>1, Returning
      <4> QED BY <3>2, <4>2
    <3>4. chunk = <<>>
      BY <1>1, <3>2 DEF PumpEndsLast, OneChunk
    <3> QED BY <2>2, <2>3, <3>3, <3>4, EmptySeq
  <2> QED BY <2>4, <2>5
<1>6. ASSUME NEW r \in Reader, DeadlinePasses(r) \/ TimerRings(r) \/ Wait(r)
      PROVE  Len(got') = sent'
  BY <1>2, <1>6 DEF DeadlinePasses, TimerRings, Wait, stream, reads
<1>7. CASE PumpChecks \/ PumpPuts \/ Reap \/ EndStream \/ Close \/ MarkClosed
  BY <1>2, <1>7 DEF PumpChecks, PumpPuts, Reap, EndStream, Close, MarkClosed, stream, reads
<1>8. CASE UNCHANGED vars
  BY <1>2, <1>8 DEF vars
<1> QED BY <1>3, <1>4, <1>5, <1>6, <1>7, <1>8 DEF Next, Reading

-----------------------------------------------------------------------------
(* The inductive invariant holds, and the four invariants with it.         *)

THEOREM BufferInvHolds == Spec => []BufferInv
<1>1. BufferInv /\ [Next]_vars => BufferInv'
  BY TypeNext, IntactNext, SleepersNext, EofNext, ChunkNext, EndNext DEF BufferInv
<1> QED BY InitInv, <1>1, PTL DEF Spec

(* Every variable stays within its type and the buffer within its bound,   *)
(* whatever the sizes, and although the pump reads without the lock        *)
(* (broker.go:28): the cap is exceeded by less than one chunk.             *)
THEOREM BufferIsBounded == Spec => []TypeOK
<1>1. BufferInv => TypeOK
  BY DEF BufferInv
<1> QED BY <1>1, BufferInvHolds, PTL

(* Nothing the device says is lost, repeated or reordered between the      *)
(* stream and the readers, for any number of readers (broker.go:167-288).  *)
THEOREM BytesArriveInOrder == Spec => []StreamIsIntact
<1>1. BufferInv => StreamIsIntact
  BY DEF BufferInv
<1> QED BY <1>1, BufferInvHolds, PTL

(* No wakeup is lost: who sleeps on the condition variable has a reason    *)
(* to.  In particular a read that gives up after its deadline tells        *)
(* nobody that it took bytes, and nobody needs to know.                    *)
THEOREM NoWakeupIsLost == Spec => []SleepersHaveReason
<1>1. BufferInv => SleepersHaveReason
  BY DEF BufferInv
<1> QED BY <1>1, BufferInvHolds, PTL

(* A read reports EOF only when everything the device sent has been        *)
(* returned (broker.go:284-288), unless the consumer closed the session.   *)
THEOREM NothingFollowsEof == Spec => []EofIsLast
<1>1. BufferInv => EofIsLast
  BY DEF BufferInv
<1> QED BY <1>1, BufferInvHolds, PTL
=============================================================================
