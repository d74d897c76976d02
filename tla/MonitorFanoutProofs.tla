------------------------- MODULE MonitorFanoutProofs -------------------------
(* Proofs about MonitorFanout, for any subscribers and sizes.              *)
EXTENDS MonitorFanout, Integers, SequenceTheorems, TLAPS

-----------------------------------------------------------------------------
(* Pieces of the stream: the positions from i to j.                        *)

Bits == Seq(1..Bytes)

LEMMA Sizes == /\ Bytes \in Nat \ {0} /\ Chunk \in Nat \ {0} /\ MaxRead \in Nat \ {0}
               /\ HistoryBytes \in Nat \ {0} /\ SubscriberBytes \in Nat \ {0}
               /\ HistoryBytes <= SubscriberBytes
BY FanoutAssumption

LEMMA PieceIs ==
  ASSUME NEW i \in Nat \ {0}, NEW j \in 0..Bytes, i <= j + 1
  PROVE  /\ From(i, j) \in Bits /\ Len(From(i, j)) = j - i + 1
         /\ \A k \in 1..j - i + 1 : From(i, j)[k] = i + k - 1
         /\ i <= j => From(i, j) # <<>> /\ Head(From(i, j)) = i /\ Last(From(i, j)) = j
         /\ i > j => From(i, j) = <<>>
<1> DEFINE n == j - i + 1
           f == From(i, j)
<1>1. n \in Nat /\ \A k \in 1..n : i + k - 1 \in 1..Bytes
  BY Sizes
<1>2. f = [k \in 1..n |-> i + k - 1]
  BY DEF From
<1>3. f \in Seq(1..Bytes)
  BY <1>1, <1>2, IsASeq
<1>4. DOMAIN f = 1..n
  BY <1>2
<1>5. Len(f) = n
  <2> HIDE DEF n, f
  <2> QED BY <1>1, <1>3, <1>4, LenProperties
<1>6. \A k \in 1..n : f[k] = i + k - 1
  BY <1>2
<1>7. i <= j => f # <<>> /\ f[1] = i /\ f[n] = j
  BY <1>1, <1>5, <1>6, EmptySeq
<1>8. i > j => f = <<>>
  <2>1. i > j => n = 0
    BY <1>1
  <2> HIDE DEF n, f
  <2> QED BY <1>3, <1>5, <2>1, EmptySeq
<1>9. i <= j => Head(f) = i /\ Last(f) = j
  BY <1>5, <1>7 DEF Last
<1> QED BY <1>3, <1>5, <1>6, <1>7, <1>8, <1>9 DEF Bits

(* A piece and the one after it make one piece.                            *)
LEMMA PiecesJoin ==
  ASSUME NEW i \in Nat \ {0}, NEW j \in 0..Bytes, NEW k \in 0..Bytes, i <= j + 1, j <= k
  PROVE  From(i, j) \o From(j + 1, k) = From(i, k)
<1> DEFINE a == From(i, j)
           b == From(j + 1, k)
           c == From(i, k)
<1>0. j + 1 \in Nat \ {0} /\ j + 1 <= k + 1 /\ i <= k + 1
  OBVIOUS
<1>1. /\ a \in Bits /\ Len(a) = j - i + 1
      /\ \A m \in 1..j - i + 1 : a[m] = i + m - 1
  BY PieceIs
<1>2. /\ b \in Bits /\ Len(b) = k - j
      /\ \A m \in 1..k - j : b[m] = j + m
  <2>1. /\ b \in Bits /\ Len(b) = k - (j + 1) + 1
        /\ \A m \in 1..k - (j + 1) + 1 : b[m] = j + 1 + m - 1
    BY <1>0, PieceIs
  <2> QED BY <2>1
<1>3. /\ c \in Bits /\ Len(c) = k - i + 1
      /\ \A m \in 1..k - i + 1 : c[m] = i + m - 1
  BY <1>0, PieceIs
<1> HIDE DEF a, b, c
<1>4. /\ a \o b \in Bits /\ Len(a \o b) = Len(a) + Len(b)
      /\ \A m \in 1..Len(a) + Len(b) : (a \o b)[m] = IF m <= Len(a) THEN a[m] ELSE b[m - Len(a)]
  BY <1>1, <1>2, ConcatProperties DEF Bits
<1>5. Len(a) + Len(b) = k - i + 1
  BY <1>1, <1>2
<1>6. ASSUME NEW m \in 1..k - i + 1
      PROVE  (a \o b)[m] = c[m]
  <2>1. CASE m <= j - i + 1
    BY <1>1, <1>3, <1>4, <1>5, <2>1
  <2>2. CASE m > j - i + 1
    <3>1. m - (j - i + 1) \in 1..k - j
      BY <2>2
    <3>2. b[m - (j - i + 1)] = i + m - 1
      BY <1>2, <3>1
    <3>3. (a \o b)[m] = b[m - Len(a)]
      <4>1. m \in 1..Len(a) + Len(b) /\ ~ (m <= Len(a))
        BY <1>1, <1>5, <2>2
      <4> QED BY <1>4, <4>1, Zenon
    <3> QED BY <1>1, <1>3, <3>2, <3>3
  <2>3. m <= j - i + 1 \/ m > j - i + 1
    OBVIOUS
  <2> QED BY <2>1, <2>2, <2>3, Zenon
<1>7. a \o b = c
  BY <1>3, <1>4, <1>5, <1>6, SeqEqual DEF Bits
<1> QED BY <1>7 DEF a, b, c

(* A part of a piece is a piece.                                           *)
LEMMA PieceOfPiece ==
  ASSUME NEW i \in Nat \ {0}, NEW j \in 0..Bytes, i <= j + 1,
         NEW m \in Nat \ {0}, NEW n \in Nat, m <= n + 1, n <= j - i + 1
  PROVE  SubSeq(From(i, j), m, n) = From(i + m - 1, i + n - 1)
<1> DEFINE a == From(i, j)
           c == From(i + m - 1, i + n - 1)
           s == SubSeq(a, m, n)
<1>1. /\ a \in Bits /\ Len(a) = j - i + 1
      /\ \A k \in 1..j - i + 1 : a[k] = i + k - 1
  BY PieceIs
<1>2. i + m - 1 \in Nat \ {0} /\ i + n - 1 \in 0..Bytes /\ i + m - 1 <= (i + n - 1) + 1
  BY Sizes
<1>3. /\ c \in Bits /\ Len(c) = n - m + 1
      /\ \A k \in 1..n - m + 1 : c[k] = i + m + k - 2
  <2>1. /\ c \in Bits /\ Len(c) = (i + n - 1) - (i + m - 1) + 1
        /\ \A k \in 1..(i + n - 1) - (i + m - 1) + 1 : c[k] = (i + m - 1) + k - 1
    BY <1>2, PieceIs
  <2> QED BY <2>1
<1> HIDE DEF a, c
<1>4. \A k \in m..n : a[k] \in 1..Bytes
  <2> TAKE k \in m..n
  <2>1. k \in 1..Len(a)
    BY <1>1, Sizes
  <2> QED BY <1>1, <2>1, ElementOfSeq DEF Bits
<1>5. /\ s \in Bits /\ Len(s) = IF m <= n THEN n - m + 1 ELSE 0
      /\ \A k \in 1..n - m + 1 : s[k] = a[m + k - 1]
  BY <1>4, SubSeqProperties DEF Bits
<1> HIDE DEF s
<1>6. Len(s) = n - m + 1
  BY <1>5
<1>7. ASSUME NEW k \in 1..n - m + 1
      PROVE  s[k] = c[k]
  <2>1. m + k - 1 \in 1..j - i + 1
    OBVIOUS
  <2>2. a[m + k - 1] = i + (m + k - 1) - 1
    BY <1>1, <2>1
  <2> QED BY <1>3, <1>5, <2>2
<1>8. s = c
  BY <1>3, <1>5, <1>6, <1>7, SeqEqual DEF Bits
<1> QED BY <1>8 DEF s, a, c

LEMMA PieceTail ==
  ASSUME NEW i \in Nat \ {0}, NEW j \in 0..Bytes, i <= j + 1,
         NEW m \in Nat \ {0}, m <= j - i + 2
  PROVE  SubSeq(From(i, j), m, Len(From(i, j))) = From(i + m - 1, j)
<1> DEFINE n == j - i + 1
<1>1. Len(From(i, j)) = n
  BY PieceIs
<1>2. n \in Nat /\ m <= n + 1 /\ n <= j - i + 1
  OBVIOUS
<1>3. i + n - 1 = j
  OBVIOUS
<1> HIDE DEF n
<1>4. SubSeq(From(i, j), m, n) = From(i + m - 1, i + n - 1)
  BY <1>2, PieceOfPiece, Zenon
<1> QED BY <1>1, <1>3, <1>4

(* appendBounded, on a piece and the one after it, keeps the newest.       *)
LEMMA AppendKeepsNewest ==
  ASSUME NEW i \in Nat \ {0}, NEW j \in 0..Bytes, NEW k \in 0..Bytes, NEW max \in Nat \ {0},
         i <= j + 1, j <= k
  PROVE  AppendBounded(From(i, j), From(j + 1, k), max)
           = From(IF k - i + 1 > max THEN k - max + 1 ELSE i, k)
<1> DEFINE b == From(i, j)
           p == From(j + 1, k)
<1>1. b \in Bits /\ Len(b) = j - i + 1
  BY PieceIs
<1>2. j + 1 \in Nat \ {0} /\ j + 1 <= k + 1
  OBVIOUS
<1>3. p \in Bits /\ Len(p) = k - j
  <2>1. p \in Bits /\ Len(p) = k - (j + 1) + 1
    BY <1>2, PieceIs
  <2> QED BY <2>1
<1> HIDE DEF b, p
<1>4. CASE k - j >= max
  <2> DEFINE m == Len(p) - max + 1
             l == j + 1
  <2>1. AppendBounded(b, p, max) = SubSeq(p, m, Len(p))
    BY <1>3, <1>4 DEF AppendBounded, Newest
  <2>2. m \in Nat \ {0} /\ m <= k - l + 2 /\ l \in Nat \ {0} /\ l <= k + 1
    BY <1>3, <1>4
  <2>4. l + m - 1 = k - max + 1
    BY <1>3
  <2> HIDE DEF m, l
  <2>3. SubSeq(p, m, Len(p)) = From(l + m - 1, k)
    <3>1. p = From(l, k)
      BY DEF p, l
    <3> QED BY <2>2, <3>1, PieceTail
  <2>5. (IF k - i + 1 > max THEN k - max + 1 ELSE i) = k - max + 1
    BY <1>4
  <2> QED BY <2>1, <2>3, <2>4, <2>5 DEF b, p
<1>5. CASE k - j < max /\ k - i + 1 > max
  <2>1. Len(b) + Len(p) = k - i + 1
    BY <1>1, <1>3
  <2> DEFINE m == Len(b) + Len(p) - max + 1
  <2>2. AppendBounded(b, p, max) = SubSeq(b, m, Len(b)) \o p
    <3>1. ~ (Len(p) >= max) /\ Len(b) + Len(p) > max
      BY <1>3, <1>5, <2>1
    <3> QED BY <3>1 DEF AppendBounded
  <2>4. i + m - 1 = k - max + 1 /\ m \in Nat \ {0} /\ m <= j - i + 2
    BY <1>5, <2>1
  <2> HIDE DEF m
  <2>3. SubSeq(b, m, Len(b)) = From(i + m - 1, j)
    BY <2>4, PieceTail DEF b
  <2>5. From(k - max + 1, j) \o p = From(k - max + 1, k)
    <3>1. k - max + 1 \in Nat \ {0} /\ k - max + 1 <= j + 1
      BY <1>5
    <3> QED BY <3>1, PiecesJoin DEF p
  <2>6. AppendBounded(b, p, max) = From(k - max + 1, k)
    BY <2>2, <2>3, <2>4, <2>5, Zenon
  <2> QED BY <1>5, <2>6 DEF b, p
<1>6. CASE k - j < max /\ ~ (k - i + 1 > max)
  <2>1. Len(b) + Len(p) = k - i + 1
    BY <1>1, <1>3
  <2>2. AppendBounded(b, p, max) = b \o p
    BY <1>1, <1>3, <1>6, <2>1 DEF AppendBounded
  <2>3. b \o p = From(i, k)
    BY PiecesJoin DEF b, p
  <2> QED BY <1>6, <2>2, <2>3 DEF b, p
<1>7. k - j >= max \/ k - j < max
  OBVIOUS
<1> QED BY <1>4, <1>5, <1>6, <1>7, Zenon

(* A contiguous buffer is the piece from its head to its last.             *)
LEMMA PieceOf ==
  ASSUME NEW b \in Bits, b # <<>>, Contiguous(b)
  PROVE  /\ Head(b) \in 1..Bytes /\ Last(b) \in 1..Bytes /\ Head(b) <= Last(b)
         /\ b = From(Head(b), Last(b)) /\ Len(b) = Last(b) - Head(b) + 1
<1> DEFINE h == Head(b)
           t == Last(b)
<1>1. Len(b) \in Nat \ {0} /\ DOMAIN b = 1..Len(b)
  BY EmptySeq, LenProperties DEF Bits
<1>2. h \in 1..Bytes /\ t \in 1..Bytes
  <2>1. h = b[1] /\ t = b[Len(b)]
    BY <1>1 DEF Last
  <2> HIDE DEF h, t
  <2>2. 1 \in 1..Len(b) /\ Len(b) \in 1..Len(b)
    BY <1>1
  <2> QED BY <1>1, <2>1, <2>2, ElementOfSeq DEF Bits
<1>3. b = From(h, t)
  BY DEF Contiguous
<1> HIDE DEF h, t
<1>4. DOMAIN b = 1..(t - h + 1)
  BY <1>3 DEF From
<1>5. h <= t
  <2>1. 1 \in 1..(t - h + 1)
    <3>1. 1 \in DOMAIN b
      BY <1>1
    <3> QED BY <1>4, <3>1
  <2> QED BY <1>2, <2>1
<1>6. Len(b) = t - h + 1
  <2>1. h \in Nat \ {0} /\ t \in 0..Bytes /\ h <= t + 1
    BY <1>2, <1>5, Sizes
  <2> QED BY <1>3, <2>1, PieceIs
<1> QED BY <1>2, <1>3, <1>5, <1>6 DEF h, t

LEMMA PieceIsContiguous ==
  ASSUME NEW i \in Nat \ {0}, NEW j \in 0..Bytes, i <= j + 1
  PROVE  Contiguous(From(i, j))
<1>1. CASE i <= j
  <2>1. Head(From(i, j)) = i /\ Last(From(i, j)) = j
    BY <1>1, PieceIs
  <2> QED BY <2>1 DEF Contiguous
<1>2. CASE i > j
  BY <1>2, PieceIs DEF Contiguous
<1>3. i <= j \/ i > j
  BY Sizes
<1> QED BY <1>1, <1>2, <1>3

(* What OnlyOverflowLoses says of a subscriber with the buffer b that is   *)
(* to see the position due next, when r are recorded.                      *)
Follows(b, due, ended, r) ==
  /\ Contiguous(b)
  /\ b # <<>> => Head(b) >= due
  /\ ~ended => r = IF b = <<>> THEN due - 1 ELSE Last(b)
  /\ b # <<>> /\ Head(b) # due => Len(b) = SubscriberBytes

(* A piece that starts where it should, and reaches up to what is recorded *)
(* as long as the subscriber is attached.                                  *)
LEMMA PieceFollows ==
  ASSUME NEW i \in Nat \ {0}, NEW j \in 0..Bytes, i <= j + 1,
         NEW r, NEW ended \in BOOLEAN, ~ended => r = j
  PROVE  Follows(From(i, j), i, ended, r)
<1>1. Contiguous(From(i, j))
  BY PieceIsContiguous
<1>2. CASE i <= j
  <2>1. Head(From(i, j)) = i /\ Last(From(i, j)) = j /\ From(i, j) # <<>>
    BY <1>2, PieceIs
  <2> QED BY <1>1, <2>1 DEF Follows
<1>3. CASE i > j
  <2>1. From(i, j) = <<>> /\ i - 1 = j
    BY <1>3, PieceIs, Sizes
  <2> QED BY <1>1, <2>1 DEF Follows
<1> QED BY <1>2, <1>3, Sizes

(* A chunk that is pushed to it, bounded, leaves it so.                    *)
LEMMA PushFollows ==
  ASSUME NEW b \in Bits, NEW due \in Nat, NEW r \in 0..Bytes, NEW k \in 0..Bytes, r < k,
         Follows(b, due, FALSE, r)
  PROVE  LET c == AppendBounded(b, From(r + 1, k), SubscriberBytes)
         IN c \in Bits /\ Len(c) <= SubscriberBytes /\ \A e \in BOOLEAN : Follows(c, due, e, k)
<1> DEFINE c == AppendBounded(b, From(r + 1, k), SubscriberBytes)
           low == IF b = <<>> THEN due ELSE Head(b)
           i == IF k - low + 1 > SubscriberBytes THEN k - SubscriberBytes + 1 ELSE low
<1>1. /\ low \in Nat \ {0} /\ low <= r + 1 /\ b = From(low, r) /\ low >= due
      /\ low # due => r - low + 1 = SubscriberBytes
  <2>1. CASE b = <<>>
    <3>1. due = r + 1
      BY <2>1, Sizes DEF Follows
    <3>2. From(due, r) = <<>>
      BY <3>1, Sizes, PieceIs
    <3> QED BY <2>1, <3>1, <3>2, Sizes
  <2>2. CASE b # <<>>
    <3>1. /\ Head(b) \in 1..Bytes /\ Last(b) = r /\ Head(b) <= r
          /\ b = From(Head(b), r) /\ Len(b) = r - Head(b) + 1
      BY <2>2, PieceOf DEF Follows
    <3> QED BY <2>2, <3>1, Sizes DEF Follows
  <2> QED BY <2>1, <2>2
<1> HIDE DEF low
<1>2. c = From(i, k)
  <2>1. SubscriberBytes \in Nat \ {0} /\ r <= k
    BY Sizes
  <2> QED BY <1>1, <2>1, AppendKeepsNewest
<1>3. /\ i \in Nat \ {0} /\ i <= k /\ i <= k + 1 /\ i >= due
      /\ k - i + 1 <= SubscriberBytes
      /\ i # due => k - i + 1 = SubscriberBytes
  BY <1>1, Sizes
<1> HIDE DEF i, c
<1>4. c \in Bits /\ Len(c) = k - i + 1 /\ c # <<>> /\ Head(c) = i /\ Last(c) = k
  BY <1>2, <1>3, PieceIs
<1>5. Contiguous(c)
  BY <1>2, <1>3, PieceIsContiguous
<1>6. \A e \in BOOLEAN : Follows(c, due, e, k)
  BY <1>3, <1>4, <1>5 DEF Follows
<1> QED BY <1>3, <1>4, <1>6 DEF c

(* What is left when the first n bytes are read follows them.              *)
LEMMA RestFollows ==
  ASSUME NEW b \in Bits, NEW due \in Nat, NEW r \in 0..Bytes, NEW e \in BOOLEAN,
         b # <<>>, NEW n \in 1..Len(b), Follows(b, due, e, r)
  PROVE  LET f == SubSeq(b, 1, n)
             c == SubSeq(b, n + 1, Len(b))
         IN /\ f \in Bits /\ f # <<>> /\ c \in Bits /\ Len(c) <= Len(b)
            /\ Follows(c, Last(f) + 1, e, r)
<1> DEFINE f == SubSeq(b, 1, n)
           c == SubSeq(b, n + 1, Len(b))
           h == Head(b)
           t == Last(b)
<1>1. /\ h \in 1..Bytes /\ t \in 1..Bytes /\ h <= t /\ b = From(h, t)
      /\ Len(b) = t - h + 1
  BY PieceOf DEF Follows
<1>2. ~e => r = t
  BY DEF Follows
<1> HIDE DEF h, t
<1>3. h \in Nat \ {0} /\ t \in 0..Bytes /\ h <= t + 1 /\ n \in Nat /\ n <= t - h + 1
  BY <1>1, Sizes
<1>4. f = From(h, h + n - 1)
  <2>1. 1 \in Nat \ {0} /\ 1 <= n + 1
    BY <1>3
  <2>2. SubSeq(From(h, t), 1, n) = From(h + 1 - 1, h + n - 1)
    BY <1>3, <2>1, PieceOfPiece
  <2>3. h + 1 - 1 = h
    BY <1>3
  <2> QED BY <1>1, <2>2, <2>3
<1>5. c = From(h + n, t)
  <2> DEFINE m == n + 1
  <2>1. m \in Nat \ {0} /\ m <= t - h + 2 /\ h + m - 1 = h + n
    BY <1>3
  <2> HIDE DEF m
  <2>2. SubSeq(From(h, t), m, Len(From(h, t))) = From(h + m - 1, t)
    BY <1>3, <2>1, PieceTail
  <2> QED BY <1>1, <2>1, <2>2 DEF m
<1> HIDE DEF f, c
<1>6. f \in Bits /\ f # <<>> /\ Last(f) = h + n - 1
  <2>1. h + n - 1 \in 0..Bytes /\ h <= h + n - 1 /\ h <= (h + n - 1) + 1
    BY <1>1, <1>3, Sizes
  <2> QED BY <1>3, <1>4, <2>1, PieceIs
<1>7. h + n \in Nat \ {0} /\ h + n <= t + 1
  BY <1>3
<1>8. /\ c \in Bits /\ Len(c) = t - (h + n) + 1
      /\ Follows(c, h + n, e, r)
  BY <1>2, <1>3, <1>5, <1>7, PieceIs, PieceFollows
<1>10. Len(c) <= Len(b)
  BY <1>1, <1>3, <1>8
<1>11. Last(f) + 1 = h + n
  BY <1>3, <1>6
<1>13. Follows(c, Last(f) + 1, e, r)
  BY <1>8, <1>11, Zenon
<1> QED BY <1>6, <1>8, <1>10, <1>13 DEF f, c

-----------------------------------------------------------------------------
(* The inductive invariant.                                                *)

(* What the pump has at hand comes after what is recorded.                 *)
ChunkFollows ==
  IF pump = "record"
  THEN /\ chunk # <<>> /\ Recorded + Len(chunk) <= Bytes
       /\ chunk = From(Recorded + 1, Recorded + Len(chunk))
  ELSE chunk = <<>>

(* Who attached and has not left is in the monitor's list.                 *)
Membership == \A s \in Sub :
  /\ reader[s] = "none" => s \notin subs /\ ~over[s] /\ buf[s] = <<>> /\ got[s] = <<>>
  /\ reader[s] # "none" /\ ~over[s] => s \in subs

FanoutInv == TypeOK /\ HistoryIsRecent /\ OnlyOverflowLoses /\ ChunkFollows /\ Membership

(* The history is the piece that ends with what is recorded.               *)
HistoryStart(r) == IF r > HistoryBytes THEN r - HistoryBytes + 1 ELSE 1

LEMMA RecordedIs ==
  ASSUME TypeOK
  PROVE  Recorded \in 0..Bytes /\ (Recorded = 0 <=> history = <<>>)
<1>1. CASE history = <<>>
  BY <1>1, Sizes DEF Recorded
<1>2. CASE history # <<>>
  <2>1. history \in Bits /\ Len(history) \in 1..Len(history)
    BY <1>2, EmptySeq DEF TypeOK, Bits
  <2>2. history[Len(history)] \in 1..Bytes
    BY <2>1, ElementOfSeq DEF Bits
  <2> QED BY <1>2, <2>2, Sizes DEF Recorded, Last
<1> QED BY <1>1, <1>2

(* The newest n of the first r positions.                                  *)
LEMMA NewestOf ==
  ASSUME NEW r \in 0..Bytes
  PROVE  /\ Newest(From(1, r), Smaller(HistoryBytes, r)) = From(HistoryStart(r), r)
         /\ HistoryStart(r) \in Nat \ {0} /\ HistoryStart(r) <= r + 1
<1> DEFINE n == Smaller(HistoryBytes, r)
<1>1. n \in 0..r /\ r - n + 1 = HistoryStart(r)
  BY Sizes DEF Smaller, HistoryStart
<1> HIDE DEF n
<1>2. Len(From(1, r)) = r
  <2>1. Len(From(1, r)) = r - 1 + 1
    BY PieceIs
  <2> QED BY <2>1
<1> DEFINE m == Len(From(1, r)) - n + 1
<1>3. m \in Nat \ {0} /\ m <= r - 1 + 2 /\ 1 + m - 1 = HistoryStart(r) /\ m <= r + 1
  BY <1>1, <1>2
<1>4. Newest(From(1, r), n) = SubSeq(From(1, r), m, Len(From(1, r)))
  BY DEF Newest
<1> HIDE DEF m
<1>5. SubSeq(From(1, r), m, Len(From(1, r))) = From(1 + m - 1, r)
  <2>1. 1 \in Nat \ {0} /\ 1 <= r + 1
    OBVIOUS
  <2> QED BY <1>3, <2>1, PieceTail, Zenon
<1>6. HistoryStart(r) = m
  BY <1>3
<1> QED BY <1>3, <1>4, <1>5, <1>6 DEF n

LEMMA HistoryIs ==
  ASSUME TypeOK
  PROVE  HistoryIsRecent <=> history = From(HistoryStart(Recorded), Recorded)
BY RecordedIs, NewestOf DEF HistoryIsRecent

(* Without a buffer nothing is wrong with a subscriber.                    *)
LEMMA FollowersAreFine ==
  ASSUME Membership
  PROVE  OnlyOverflowLoses <=>
           \A s \in Sub : reader[s] # "none" => Follows(buf[s], Due(s), over[s], Recorded)
BY DEF Membership, OnlyOverflowLoses, NothingIsMissed, LossMeansFull, Follows

LEMMA FollowersStayFine ==
  ASSUME Membership',
         \A s \in Sub : reader'[s] # "none" => Follows(buf'[s], Due(s)', over'[s], Recorded')
  PROVE  OnlyOverflowLoses'
BY DEF Membership, OnlyOverflowLoses, NothingIsMissed, LossMeansFull, Follows

LEMMA DueIs ==
  ASSUME TypeOK, NEW s \in Sub
  PROVE  Due(s) \in Nat
<1>1. got[s] \in Bits /\ first[s] \in 0..Bytes
  BY DEF TypeOK, Bits
<1>2. CASE got[s] = <<>>
  BY <1>1, <1>2, Sizes DEF Due
<1>3. CASE got[s] # <<>>
  <2>1. Len(got[s]) \in 1..Len(got[s])
    BY <1>1, <1>3, EmptySeq DEF Bits
  <2>2. got[s][Len(got[s])] \in 1..Bytes
    BY <1>1, <2>1, ElementOfSeq DEF Bits
  <2> QED BY <1>3, <2>2, Sizes DEF Due, Last
<1> QED BY <1>2, <1>3

LEMMA InitInv == Init => FanoutInv
<1> SUFFICES ASSUME Init PROVE FanoutInv
  OBVIOUS
<1>1. TypeOK
  <2>1. <<>> \in Seq(1..Bytes) /\ Len(<<>>) = 0
    OBVIOUS
  <2>2. /\ buf \in [Sub -> Seq(1..Bytes)] /\ got \in [Sub -> Seq(1..Bytes)]
        /\ \A s \in Sub : buf[s] = <<>>
    BY <2>1 DEF Init
  <2>3. over \in [Sub -> BOOLEAN] /\ reader \in [Sub -> Reader] /\ first \in [Sub -> 0..Bytes]
    BY Sizes DEF Init, Reader
  <2>4. \A s \in Sub : Len(buf[s]) <= SubscriberBytes
    BY <2>1, <2>2, Sizes
  <2>5. /\ {port, closed} \subseteq BOOLEAN /\ pump \in {"read", "record", "ended"}
        /\ chunk = <<>> /\ history = <<>> /\ subs \subseteq Sub
    BY DEF Init
  <2>6. 0 <= Chunk /\ 0 <= HistoryBytes
    BY Sizes
  <2> QED BY <2>1, <2>2, <2>3, <2>4, <2>5, <2>6 DEF TypeOK
<1>2. HistoryIsRecent
  <2>1. Recorded = 0
    BY DEF Init, Recorded
  <2>2. HistoryStart(0) = 1
    BY Sizes DEF HistoryStart
  <2>3. From(1, 0) = <<>>
    BY Sizes, PieceIs
  <2> QED BY <1>1, <2>1, <2>2, <2>3, HistoryIs DEF Init
<1>3. OnlyOverflowLoses
  BY DEF Init, OnlyOverflowLoses, NothingIsMissed, LossMeansFull
<1>4. ChunkFollows /\ Membership
  BY DEF Init, ChunkFollows, Membership
<1> QED BY <1>1, <1>2, <1>3, <1>4 DEF FanoutInv

-----------------------------------------------------------------------------
(* What the pump records and pushes.                                       *)

LEMMA RecordsNext ==
  ASSUME FanoutInv, PumpRecords
  PROVE  LET k == Recorded + Len(chunk)
         IN /\ k \in 0..Bytes /\ Recorded \in 0..Bytes /\ Recorded < k
            /\ chunk = From(Recorded + 1, k)
            /\ history' = From(HistoryStart(k), k) /\ Recorded' = k
            /\ history' \in Bits /\ Len(history') <= HistoryBytes
<1> DEFINE r == Recorded
           k == r + Len(chunk)
           i == HistoryStart(r)
           l == HistoryStart(k)
<1>1. r \in 0..Bytes
  BY RecordedIs DEF FanoutInv
<1>2. chunk \in Bits /\ chunk # <<>> /\ k <= Bytes /\ chunk = From(r + 1, k)
  BY DEF FanoutInv, ChunkFollows, PumpRecords, TypeOK, Bits
<1>3. k \in 0..Bytes /\ r < k
  <2>1. Len(chunk) \in Nat \ {0}
    BY <1>2, EmptySeq, LenProperties DEF Bits
  <2> QED BY <1>1, <1>2, <2>1, Sizes
<1>4. history = From(i, r) /\ i \in Nat \ {0} /\ i <= r + 1
  BY <1>1, HistoryIs, NewestOf DEF FanoutInv
<1>5. history' = AppendBounded(history, chunk, HistoryBytes)
  BY DEF PumpRecords
<1>6. (IF k - i + 1 > HistoryBytes THEN k - HistoryBytes + 1 ELSE i) = l
  BY <1>1, <1>3, Sizes DEF HistoryStart
<1>7. l \in Nat \ {0} /\ l <= k /\ l <= k + 1 /\ k - l + 1 <= HistoryBytes
  BY <1>1, <1>3, Sizes DEF HistoryStart
<1> HIDE DEF r, k, i, l
<1>8. history' = From(l, k)
  <2>1. r <= k /\ HistoryBytes \in Nat \ {0}
    BY <1>1, <1>3, Sizes
  <2>2. AppendBounded(From(i, r), From(r + 1, k), HistoryBytes)
          = From(IF k - i + 1 > HistoryBytes THEN k - HistoryBytes + 1 ELSE i, k)
    BY <1>1, <1>3, <1>4, <2>1, AppendKeepsNewest
  <2> QED BY <1>2, <1>4, <1>5, <1>6, <2>2
<1>9. /\ history' \in Bits /\ Len(history') = k - l + 1
      /\ history' # <<>> /\ Last(history') = k
  BY <1>3, <1>7, <1>8, PieceIs
<1>10. Recorded' = k
  BY <1>9 DEF Recorded
<1> QED BY <1>1, <1>2, <1>3, <1>7, <1>8, <1>9, <1>10 DEF r, k, l

LEMMA PushNext ==
  ASSUME FanoutInv, PumpRecords, NEW s \in Sub
  PROVE  /\ buf'[s] \in Bits /\ Len(buf'[s]) <= SubscriberBytes
         /\ reader[s] # "none" => Follows(buf'[s], Due(s), over[s], Recorded')
<1> DEFINE k == Recorded + Len(chunk)
<1>1. /\ k \in 0..Bytes /\ Recorded \in 0..Bytes /\ Recorded < k
      /\ chunk = From(Recorded + 1, k) /\ Recorded' = k
  BY RecordsNext
<1>2. buf[s] \in Bits /\ Len(buf[s]) <= SubscriberBytes /\ over[s] \in BOOLEAN /\ Due(s) \in Nat
  BY DueIs DEF FanoutInv, TypeOK, Bits
<1>3. reader[s] # "none" => Follows(buf[s], Due(s), over[s], Recorded)
  BY FollowersAreFine DEF FanoutInv
<1> HIDE DEF k
<1>4. CASE s \in Receivers
  <2>1. reader[s] # "none" /\ ~over[s]
    BY <1>4 DEF FanoutInv, Membership, Receivers
  <2>2. buf'[s] = AppendBounded(buf[s], chunk, SubscriberBytes)
    BY <1>4 DEF PumpRecords
  <2>3. Follows(buf[s], Due(s), FALSE, Recorded)
    BY <1>2, <1>3, <2>1
  <2> QED BY <1>1, <1>2, <2>2, <2>3, PushFollows
<1>5. CASE s \notin Receivers
  <2>1. buf'[s] = buf[s]
    BY <1>5 DEF PumpRecords
  <2>2. reader[s] # "none" => over[s]
    BY <1>5 DEF FanoutInv, Membership, Receivers
  <2> QED BY <1>2, <1>3, <2>1, <2>2 DEF Follows
<1> QED BY <1>4, <1>5

-----------------------------------------------------------------------------
(* What attaches, and what is read.                                        *)

LEMMA BacklogIs ==
  ASSUME TypeOK
  PROVE  AppendBounded(<<>>, history, SubscriberBytes) = history
<1>1. history \in Bits /\ Len(history) \in Nat /\ Len(history) <= SubscriberBytes
  BY Sizes, LenProperties DEF TypeOK, Bits
<1>2. CASE Len(history) >= SubscriberBytes
  <2>1. Len(history) = SubscriberBytes /\ Len(history) - SubscriberBytes + 1 = 1
    BY <1>1, <1>2, Sizes
  <2>2. AppendBounded(<<>>, history, SubscriberBytes) = SubSeq(history, 1, Len(history))
    BY <1>2, <2>1 DEF AppendBounded, Newest
  <2>3. SubSeq(history, 1, Len(history)) = history
    BY <1>1, SubSeqFull DEF Bits
  <2> QED BY <2>2, <2>3
<1>3. CASE ~ (Len(history) >= SubscriberBytes)
  <2>1. ~ (Len(<<>>) + Len(history) > SubscriberBytes)
    BY <1>1, <1>3, Sizes
  <2>2. AppendBounded(<<>>, history, SubscriberBytes) = <<>> \o history
    BY <1>3, <2>1 DEF AppendBounded
  <2>3. <<>> \o history = history
    BY <1>1, ConcatEmptySeq DEF Bits
  <2> QED BY <2>2, <2>3
<1> QED BY <1>2, <1>3

LEMMA AttachNext ==
  ASSUME FanoutInv, NEW s \in Sub, Attach(s)
  PROVE  /\ buf' = [buf EXCEPT ![s] = history] /\ first' \in [Sub -> 0..Bytes]
         /\ Follows(buf'[s], Due(s)', over'[s], Recorded)
<1> DEFINE r == Recorded
           i == HistoryStart(r)
<1>1. buf' = [buf EXCEPT ![s] = history]
  BY BacklogIs DEF FanoutInv, Attach
<1>2. /\ r \in 0..Bytes /\ (r = 0 <=> history = <<>>)
      /\ history = From(i, r) /\ i \in Nat \ {0} /\ i <= r + 1
  BY RecordedIs, HistoryIs, NewestOf DEF FanoutInv
<1>3. r = 0 => i = 1
  BY <1>2, Sizes DEF HistoryStart
<1>4. r # 0 => i <= r
  BY <1>2, Sizes DEF HistoryStart
<1>5. first' = [first EXCEPT ![s] = IF history = <<>> THEN 1 ELSE Head(history)]
  BY DEF Attach
<1> HIDE DEF r, i
<1>6. (IF history = <<>> THEN 1 ELSE Head(history)) = i
  BY <1>2, <1>3, <1>4, PieceIs
<1>7. first' = [first EXCEPT ![s] = i]
  BY <1>5, <1>6
<1>8. i \in 1..Bytes
  BY <1>2, <1>3, <1>4, Sizes
<1>9. buf \in [Sub -> Bits] /\ first \in [Sub -> 0..Bytes]
      /\ over \in [Sub -> BOOLEAN] /\ got[s] = <<>>
  BY DEF FanoutInv, TypeOK, Membership, Attach, Bits
<1>10. first' \in [Sub -> 0..Bytes] /\ first'[s] = i
  BY <1>7, <1>8, <1>9
<1>11. Due(s)' = i
  BY <1>9, <1>10 DEF Due, Attach
<1>12. buf'[s] = From(i, r)
  BY <1>1, <1>2, <1>9
<1>13. over'[s] \in BOOLEAN
  BY <1>9 DEF Attach
<1>14. Follows(From(i, r), i, over'[s], r)
  BY <1>2, <1>13, PieceFollows
<1> QED BY <1>1, <1>10, <1>11, <1>12, <1>14 DEF r

LEMMA TakesNext ==
  ASSUME FanoutInv, NEW s \in Sub, ReaderTakes(s)
  PROVE  /\ got'[s] \in Bits /\ buf'[s] \in Bits /\ Len(buf'[s]) <= SubscriberBytes
         /\ \A t \in Sub : t # s => got'[t] = got[t] /\ buf'[t] = buf[t]
         /\ got' = [got EXCEPT ![s] = got'[s]] /\ buf' = [buf EXCEPT ![s] = buf'[s]]
         /\ Follows(buf'[s], Due(s)', over[s], Recorded)
<1> DEFINE n == Smaller(MaxRead, Len(buf[s]))
           f == SubSeq(buf[s], 1, n)
           c == SubSeq(buf[s], n + 1, Len(buf[s]))
<1>1. /\ buf \in [Sub -> Bits] /\ got \in [Sub -> Bits]
      /\ buf[s] \in Bits /\ got[s] \in Bits /\ over[s] \in BOOLEAN
      /\ Len(buf[s]) <= SubscriberBytes /\ buf[s] # <<>> /\ Len(buf[s]) \in Nat \ {0}
  BY EmptySeq, LenProperties DEF FanoutInv, TypeOK, ReaderTakes, Bits
<1>2. got' = [got EXCEPT ![s] = got[s] \o f] /\ buf' = [buf EXCEPT ![s] = c]
  BY DEF ReaderTakes
<1>3. n \in 1..Len(buf[s])
  BY <1>1, Sizes DEF Smaller
<1>4. Follows(buf[s], Due(s), over[s], Recorded)
  BY FollowersAreFine DEF FanoutInv, ReaderTakes
<1>5. Due(s) \in Nat /\ Recorded \in 0..Bytes
  BY DueIs, RecordedIs DEF FanoutInv
<1> HIDE DEF n
<1>6. /\ f \in Bits /\ f # <<>> /\ c \in Bits /\ Len(c) <= Len(buf[s])
      /\ Follows(c, Last(f) + 1, over[s], Recorded)
  BY <1>1, <1>3, <1>4, <1>5, RestFollows
<1> HIDE DEF f, c
<1>7. got'[s] = got[s] \o f /\ buf'[s] = c
  BY <1>1, <1>2
<1>8. got'[s] \in Bits /\ got'[s] # <<>> /\ Last(got'[s]) = Last(f)
  <2>1. /\ got[s] \o f \in Bits /\ Len(got[s] \o f) = Len(got[s]) + Len(f)
        /\ \A m \in 1..Len(got[s]) + Len(f) :
             (got[s] \o f)[m] = IF m <= Len(got[s]) THEN got[s][m] ELSE f[m - Len(got[s])]
    BY <1>1, <1>6, ConcatProperties DEF Bits
  <2>2. Len(got[s]) \in Nat /\ Len(f) \in Nat \ {0}
    BY <1>1, <1>6, EmptySeq, LenProperties DEF Bits
  <2>3. (got[s] \o f)[Len(got[s]) + Len(f)] = f[Len(f)]
    <3>1. /\ Len(got[s]) + Len(f) \in 1..Len(got[s]) + Len(f)
          /\ ~ (Len(got[s]) + Len(f) <= Len(got[s]))
          /\ Len(got[s]) + Len(f) - Len(got[s]) = Len(f)
      BY <2>2
    <3> QED BY <2>1, <3>1
  <2>4. got[s] \o f # <<>>
    BY <2>1, <2>2, EmptySeq
  <2> QED BY <1>7, <2>1, <2>3, <2>4 DEF Last
<1>9. Due(s)' = Last(f) + 1
  BY <1>8 DEF Due
<1>10. Len(buf'[s]) <= SubscriberBytes
  <2>1. Len(c) \in Nat
    BY <1>6, LenProperties DEF Bits
  <2> QED BY <1>1, <1>6, <1>7, <2>1, Sizes
<1>11. \A t \in Sub : t # s => got'[t] = got[t] /\ buf'[t] = buf[t]
  BY <1>1, <1>2
<1> QED BY <1>2, <1>6, <1>7, <1>8, <1>9, <1>10, <1>11

-----------------------------------------------------------------------------
(* The steps.                                                              *)

LEMMA WokenIs ==
  ASSUME TypeOK, NEW s \in Sub
  PROVE  Woken(s) \in Reader /\ (Woken(s) = "none" <=> reader[s] = "none")
BY DEF TypeOK, Woken, Reader

LEMMA ControlNext ==
  ASSUME FanoutInv, [Next]_vars
  PROVE  /\ {port', closed'} \subseteq BOOLEAN /\ pump' \in {"read", "record", "ended"}
         /\ subs' \subseteq Sub
         /\ over' \in [Sub -> BOOLEAN] /\ reader' \in [Sub -> Reader]
<1> DEFINE Goal == /\ {port', closed'} \subseteq BOOLEAN /\ pump' \in {"read", "record", "ended"}
                   /\ subs' \subseteq Sub
                   /\ over' \in [Sub -> BOOLEAN] /\ reader' \in [Sub -> Reader]
<1>1. /\ {port, closed} \subseteq BOOLEAN /\ pump \in {"read", "record", "ended"}
      /\ subs \subseteq Sub /\ over \in [Sub -> BOOLEAN] /\ reader \in [Sub -> Reader]
  BY DEF FanoutInv, TypeOK
<1>2. \A s \in Sub : Woken(s) \in Reader
  BY WokenIs DEF FanoutInv
<1>3. {"ready", "asleep", "sending", "ended", "failed"} \subseteq Reader
  BY DEF Reader
<1>4. ASSUME CloseSubs PROVE over' \in [Sub -> BOOLEAN] /\ reader' \in [Sub -> Reader]
  BY <1>1, <1>2, <1>4 DEF CloseSubs
<1>5. CASE UNCHANGED vars
  BY <1>1, <1>5 DEF vars
<1>6. ASSUME NEW n \in 1..Chunk, PumpReads(n) PROVE Goal
  BY <1>1, <1>6 DEF PumpReads
<1>7. CASE PumpRecords
  BY <1>1, <1>2, <1>7 DEF PumpRecords
<1>8. CASE PumpEnds
  BY <1>1, <1>4, <1>8 DEF PumpEnds
<1>9. CASE PortFails
  BY <1>1, <1>9 DEF PortFails
<1>10. CASE Close
  BY <1>1, <1>4, <1>10 DEF Close, source
<1>11. ASSUME NEW s \in Sub, Attach(s) PROVE Goal
  BY <1>1, <1>3, <1>11 DEF Attach, source
<1>12. ASSUME NEW s \in Sub, Leave(s) PROVE Goal
  BY <1>1, <1>2, <1>12 DEF Leave, source
<1>13. ASSUME NEW s \in Sub, Detach(s) PROVE Goal
  BY <1>1, <1>13 DEF Detach, source
<1>14. ASSUME NEW s \in Sub, ReaderTakes(s) \/ ReaderSleeps(s) \/ ReaderEnds(s) \/ Sent(s)
       PROVE  Goal
  BY <1>1, <1>3, <1>14 DEF ReaderTakes, ReaderSleeps, ReaderEnds, Sent, source
<1> QED BY <1>5, <1>6, <1>7, <1>8, <1>9, <1>10, <1>11, <1>12, <1>13, <1>14 DEF Next

(* A step that records, pushes and takes nothing leaves the subscribers    *)
(* as they are, even if it ends some.                                      *)
Quiet == /\ UNCHANGED <<history, buf, got, first>>
         /\ \A s \in Sub : (over[s] => over'[s]) /\ (reader'[s] # "none" => reader[s] # "none")

LEMMA Steps ==
  ASSUME FanoutInv, [Next]_vars
  PROVE  \/ Quiet
         \/ PumpRecords
         \/ \E s \in Sub : Attach(s) \/ ReaderTakes(s)
<1>1. over \in [Sub -> BOOLEAN] /\ reader \in [Sub -> Reader]
      /\ \A s \in Sub : Woken(s) = "none" <=> reader[s] = "none"
  BY WokenIs DEF FanoutInv, TypeOK
<1>2. ASSUME CloseSubs
      PROVE  \A s \in Sub : (over[s] => over'[s]) /\ (reader'[s] # "none" => reader[s] # "none")
  BY <1>1, <1>2 DEF CloseSubs
<1>3. CASE UNCHANGED vars
  BY <1>3 DEF vars, Quiet
<1>4. ASSUME NEW n \in 1..Chunk, PumpReads(n) PROVE Quiet
  BY <1>4 DEF PumpReads, Quiet
<1>5. PumpEnds \/ Close => Quiet
  BY <1>2 DEF PumpEnds, Close, source, Quiet
<1>6. PortFails => Quiet
  BY DEF PortFails, Quiet
<1>7. ASSUME NEW s \in Sub, Leave(s) PROVE Quiet
  BY <1>1, <1>7 DEF Leave, source, Quiet
<1>8. ASSUME NEW s \in Sub, Detach(s) PROVE Quiet
  BY <1>8 DEF Detach, source, Quiet
<1>9. ASSUME NEW s \in Sub, ReaderSleeps(s) \/ ReaderEnds(s) \/ Sent(s) PROVE Quiet
  BY <1>1, <1>9 DEF ReaderSleeps, ReaderEnds, Sent, source, Quiet
<1> QED BY <1>3, <1>4, <1>5, <1>6, <1>7, <1>8, <1>9 DEF Next

LEMMA DataNext ==
  ASSUME FanoutInv, [Next]_vars
  PROVE  /\ history' \in Bits /\ Len(history') <= HistoryBytes
         /\ buf' \in [Sub -> Bits] /\ \A s \in Sub : Len(buf'[s]) <= SubscriberBytes
         /\ got' \in [Sub -> Bits] /\ first' \in [Sub -> 0..Bytes]
         /\ history' = From(HistoryStart(Recorded'), Recorded')
<1> DEFINE Goal == /\ history' \in Bits /\ Len(history') <= HistoryBytes
                   /\ buf' \in [Sub -> Bits] /\ \A s \in Sub : Len(buf'[s]) <= SubscriberBytes
                   /\ got' \in [Sub -> Bits] /\ first' \in [Sub -> 0..Bytes]
                   /\ history' = From(HistoryStart(Recorded'), Recorded')
<1>1. /\ history \in Bits /\ Len(history) <= HistoryBytes
      /\ buf \in [Sub -> Bits] /\ \A s \in Sub : Len(buf[s]) <= SubscriberBytes
      /\ got \in [Sub -> Bits] /\ first \in [Sub -> 0..Bytes]
      /\ history = From(HistoryStart(Recorded), Recorded)
  BY HistoryIs DEF FanoutInv, TypeOK, Bits
<1>2. history' = history => Recorded' = Recorded
  BY DEF Recorded
<1>3. Len(history) <= SubscriberBytes
  <2>1. Len(history) \in Nat
    BY <1>1, LenProperties DEF Bits
  <2> QED BY <1>1, <2>1, Sizes
<1>4. CASE Quiet
  BY <1>1, <1>2, <1>4 DEF Quiet
<1>5. CASE PumpRecords
  <2>1. /\ history' \in Bits /\ Len(history') <= HistoryBytes
        /\ history' = From(HistoryStart(Recorded'), Recorded')
    <3>1. LET k == Recorded + Len(chunk)
          IN /\ history' = From(HistoryStart(k), k) /\ Recorded' = k
             /\ history' \in Bits /\ Len(history') <= HistoryBytes
      BY <1>5, RecordsNext
    <3> QED BY <3>1
  <2>2. \A s \in Sub : buf'[s] \in Bits /\ Len(buf'[s]) <= SubscriberBytes
    BY <1>5, PushNext
  <2>3. buf' \in [Sub -> Bits]
    <3>1. buf' = [s \in Sub |-> buf'[s]]
      BY <1>5 DEF PumpRecords
    <3> QED BY <2>2, <3>1
  <2>4. got' = got /\ first' = first
    BY <1>5 DEF PumpRecords
  <2> QED BY <1>1, <2>1, <2>2, <2>3, <2>4
<1>6. ASSUME NEW s \in Sub, Attach(s) PROVE Goal
  <2>1. history' = history /\ got' = got
    BY <1>6 DEF Attach, source
  <2>2. buf' = [buf EXCEPT ![s] = history] /\ first' \in [Sub -> 0..Bytes]
    BY <1>6, AttachNext
  <2> QED BY <1>1, <1>2, <1>3, <2>1, <2>2
<1>7. ASSUME NEW s \in Sub, ReaderTakes(s) PROVE Goal
  <2>1. history' = history /\ first' = first
    BY <1>7 DEF ReaderTakes, source
  <2>2. /\ got'[s] \in Bits /\ buf'[s] \in Bits /\ Len(buf'[s]) <= SubscriberBytes
        /\ \A t \in Sub : t # s => got'[t] = got[t] /\ buf'[t] = buf[t]
        /\ got' = [got EXCEPT ![s] = got'[s]] /\ buf' = [buf EXCEPT ![s] = buf'[s]]
    BY <1>7, TakesNext
  <2>3. got' \in [Sub -> Bits] /\ buf' \in [Sub -> Bits]
    BY <1>1, <2>2
  <2> QED BY <1>1, <1>2, <2>1, <2>2, <2>3
<1> QED BY <1>4, <1>5, <1>6, <1>7, Steps

LEMMA ChunkNext ==
  ASSUME FanoutInv, [Next]_vars
  PROVE  chunk' \in Bits /\ Len(chunk') <= Chunk /\ ChunkFollows'
<1>1. chunk \in Bits /\ Len(chunk) <= Chunk /\ ChunkFollows /\ Recorded \in 0..Bytes
  BY RecordedIs DEF FanoutInv, TypeOK, Bits
<1>2. history' = history => Recorded' = Recorded
  BY DEF Recorded
<1>3. ASSUME NEW n \in 1..Chunk, PumpReads(n)
      PROVE  chunk' \in Bits /\ Len(chunk') <= Chunk /\ ChunkFollows'
  <2> DEFINE i == Recorded + 1
             j == Recorded + n
  <2>1. /\ chunk' = From(i, j) /\ pump' = "record" /\ history' = history /\ j <= Bytes
    BY <1>3 DEF PumpReads
  <2>2. i \in Nat \ {0} /\ j \in 0..Bytes /\ i <= j /\ i <= j + 1 /\ j - i + 1 = n
    BY <1>1, <2>1, Sizes
  <2> HIDE DEF i, j
  <2>3. chunk' \in Bits /\ Len(chunk') = n /\ chunk' # <<>>
    BY <2>1, <2>2, PieceIs
  <2>4. n <= Chunk /\ Recorded + Len(chunk') = j
    BY <2>3, Sizes DEF j
  <2> QED BY <1>2, <2>1, <2>3, <2>4 DEF ChunkFollows, i
<1>4. CASE PumpRecords
  <2>1. chunk' = <<>> /\ pump' = "read"
    BY <1>4 DEF PumpRecords
  <2> QED BY <2>1, Sizes DEF ChunkFollows, Bits
<1>5. CASE PumpEnds
  <2>1. chunk' = chunk /\ pump = "read" /\ pump' = "ended"
    BY <1>5 DEF PumpEnds
  <2> QED BY <1>1, <2>1 DEF ChunkFollows
<1>6. CASE UNCHANGED <<chunk, pump, history>>
  BY <1>1, <1>2, <1>6 DEF ChunkFollows
<1>7. CASE UNCHANGED vars \/ PortFails \/ Close
  BY <1>6, <1>7 DEF vars, PortFails, Close, source
<1>8. ASSUME NEW s \in Sub, \/ Attach(s) \/ Leave(s) \/ Detach(s)
                            \/ ReaderTakes(s) \/ ReaderSleeps(s) \/ ReaderEnds(s) \/ Sent(s)
      PROVE  UNCHANGED <<chunk, pump, history>>
  BY <1>8 DEF Attach, Leave, Detach, ReaderTakes, ReaderSleeps, ReaderEnds, Sent, source
<1> QED BY <1>3, <1>4, <1>5, <1>6, <1>7, <1>8 DEF Next

LEMMA MembershipNext ==
  ASSUME FanoutInv, [Next]_vars
  PROVE  Membership'
<1>1. /\ buf \in [Sub -> Bits] /\ got \in [Sub -> Bits] /\ subs \subseteq Sub
      /\ over \in [Sub -> BOOLEAN] /\ reader \in [Sub -> Reader]
      /\ \A s \in Sub : Woken(s) = "none" <=> reader[s] = "none"
  BY WokenIs DEF FanoutInv, TypeOK, Bits
<1>2. Membership
  BY DEF FanoutInv
<1>3. CASE UNCHANGED <<subs, buf, over, reader, got>>
  BY <1>2, <1>3 DEF Membership
<1>4. UNCHANGED vars \/ PortFails => UNCHANGED <<subs, buf, over, reader, got>>
  BY DEF vars, PortFails
<1>5. ASSUME NEW n \in 1..Chunk, PumpReads(n) PROVE UNCHANGED <<subs, buf, over, reader, got>>
  BY <1>5 DEF PumpReads
<1>6. CASE PumpRecords
  <2>1. subs' = subs /\ over' = over /\ got' = got
    BY <1>6 DEF PumpRecords
  <2>2. ASSUME NEW s \in Sub
        PROVE  /\ reader'[s] = "none" <=> reader[s] = "none"
               /\ s \notin subs => buf'[s] = buf[s]
    BY <1>1, <1>6 DEF PumpRecords, Receivers
  <2> QED BY <1>2, <2>1, <2>2 DEF Membership
<1>7. CASE PumpEnds \/ Close
  <2>1. subs' = subs /\ buf' = buf /\ got' = got /\ CloseSubs
    BY <1>7 DEF PumpEnds, Close
  <2>2. ASSUME NEW s \in Sub
        PROVE  /\ reader'[s] = "none" <=> reader[s] = "none"
               /\ over'[s] <=> over[s] \/ s \in subs
    BY <1>1, <2>1 DEF CloseSubs
  <2> QED BY <1>2, <2>1, <2>2 DEF Membership
<1>8. ASSUME NEW s \in Sub, Attach(s) PROVE Membership'
  <2>1. \A t \in Sub : t # s =>
          /\ reader'[t] = reader[t] /\ buf'[t] = buf[t] /\ over'[t] = over[t]
          /\ t \in subs' <=> t \in subs
    BY <1>1, <1>8 DEF Attach
  <2>2. got' = got /\ reader'[s] = "ready"
    BY <1>1, <1>8 DEF Attach
  <2>3. over'[s] \/ s \in subs'
    BY <1>1, <1>8 DEF Attach
  <2>4. ASSUME NEW t \in Sub
        PROVE  /\ reader'[t] = "none" =>
                    t \notin subs' /\ ~over'[t] /\ buf'[t] = <<>> /\ got'[t] = <<>>
               /\ reader'[t] # "none" /\ ~over'[t] => t \in subs'
    <3>1. CASE t = s
      BY <2>2, <2>3, <3>1
    <3>2. CASE t # s
      <4>1. /\ reader[t] = "none" => t \notin subs /\ ~over[t] /\ buf[t] = <<>> /\ got[t] = <<>>
            /\ reader[t] # "none" /\ ~over[t] => t \in subs
        BY <1>2 DEF Membership
      <4>2. /\ reader'[t] = reader[t] /\ buf'[t] = buf[t] /\ over'[t] = over[t]
            /\ t \in subs' <=> t \in subs
        BY <2>1, <3>2
      <4> QED BY <2>2, <4>1, <4>2
    <3> QED BY <3>1, <3>2
  <2> QED BY <2>4 DEF Membership
<1>9. ASSUME NEW s \in Sub, Leave(s) PROVE Membership'
  <2>1. \A t \in Sub : t # s => reader'[t] = reader[t] /\ over'[t] = over[t]
    BY <1>1, <1>9 DEF Leave
  <2>2. /\ subs' = subs /\ buf' = buf /\ got' = got
        /\ reader'[s] # "none" /\ over'[s]
    BY <1>1, <1>9 DEF Leave
  <2> QED BY <1>2, <2>1, <2>2 DEF Membership
<1>10. ASSUME NEW s \in Sub, Detach(s) PROVE Membership'
  BY <1>2, <1>10 DEF Detach, Membership
<1>11. ASSUME NEW s \in Sub, ReaderTakes(s) PROVE Membership'
  <2>1. \A t \in Sub : t # s => reader'[t] = reader[t] /\ buf'[t] = buf[t] /\ got'[t] = got[t]
    BY <1>1, <1>11 DEF ReaderTakes
  <2>2. subs' = subs /\ over' = over /\ reader[s] = "ready" /\ reader'[s] = "sending"
    BY <1>1, <1>11 DEF ReaderTakes
  <2> QED BY <1>2, <2>1, <2>2 DEF Membership
<1>12. ASSUME NEW s \in Sub, ReaderSleeps(s) \/ ReaderEnds(s) \/ Sent(s) PROVE Membership'
  <2>1. \A t \in Sub : t # s => reader'[t] = reader[t]
    BY <1>1, <1>12 DEF ReaderSleeps, ReaderEnds, Sent
  <2>2. /\ subs' = subs /\ over' = over /\ buf' = buf /\ got' = got
        /\ reader[s] # "none" /\ reader'[s] # "none"
    BY <1>1, <1>12 DEF ReaderSleeps, ReaderEnds, Sent
  <2> QED BY <1>2, <2>1, <2>2 DEF Membership
<1> QED BY <1>3, <1>4, <1>5, <1>6, <1>7, <1>8, <1>9, <1>10, <1>11, <1>12 DEF Next

LEMMA LossNext ==
  ASSUME FanoutInv, [Next]_vars
  PROVE  OnlyOverflowLoses'
<1>1. /\ over \in [Sub -> BOOLEAN] /\ reader \in [Sub -> Reader]
      /\ \A s \in Sub : Woken(s) = "none" <=> reader[s] = "none"
  BY WokenIs DEF FanoutInv, TypeOK
<1>2. \A s \in Sub : reader[s] # "none" => Follows(buf[s], Due(s), over[s], Recorded)
  BY FollowersAreFine DEF FanoutInv
<1>3. history' = history => Recorded' = Recorded
  BY DEF Recorded
<1>4. ASSUME NEW s \in Sub, reader'[s] # "none"
      PROVE  Follows(buf'[s], Due(s)', over'[s], Recorded')
  <2>1. got'[s] = got[s] /\ first'[s] = first[s] => Due(s)' = Due(s)
    BY DEF Due
  <2>2. ASSUME Recorded' = Recorded, buf'[s] = buf[s], Due(s)' = Due(s), over[s] => over'[s],
               reader[s] # "none"
        PROVE  Follows(buf'[s], Due(s)', over'[s], Recorded')
    BY <1>2, <2>2 DEF Follows
  <2>3. CASE Quiet
    <3>1. /\ Recorded' = Recorded /\ buf'[s] = buf[s] /\ Due(s)' = Due(s)
          /\ over[s] => over'[s]
          /\ reader[s] # "none"
      BY <1>3, <1>4, <2>1, <2>3 DEF Quiet
    <3> QED BY <2>2, <3>1
  <2>4. CASE PumpRecords
    <3>1. reader[s] # "none"
      BY <1>1, <1>4, <2>4 DEF PumpRecords
    <3>2. Due(s)' = Due(s) /\ over'[s] = over[s]
      BY <2>1, <2>4 DEF PumpRecords
    <3>3. Follows(buf'[s], Due(s), over[s], Recorded')
      BY <2>4, <3>1, PushNext
    <3> QED BY <3>2, <3>3
  <2>5. ASSUME NEW t \in Sub, Attach(t)
        PROVE  Follows(buf'[s], Due(s)', over'[s], Recorded')
    <3>1. Recorded' = Recorded
      BY <1>3, <2>5 DEF Attach, source
    <3>2. CASE t = s
      BY <2>5, <3>1, <3>2, AttachNext
    <3>3. CASE t # s
      <4>1. /\ buf'[s] = buf[s] /\ over'[s] = over[s] /\ reader'[s] = reader[s]
            /\ got'[s] = got[s] /\ first'[s] = first[s]
        <5>1. buf \in [Sub -> Bits] /\ first \in [Sub -> 0..Bytes]
          BY DEF FanoutInv, TypeOK, Bits
        <5> QED BY <1>1, <2>5, <3>3, <5>1 DEF Attach
      <4> QED BY <1>4, <2>1, <2>2, <3>1, <4>1
    <3> QED BY <3>2, <3>3
  <2>6. ASSUME NEW t \in Sub, ReaderTakes(t)
        PROVE  Follows(buf'[s], Due(s)', over'[s], Recorded')
    <3>1. Recorded' = Recorded /\ over' = over /\ first' = first
      BY <1>3, <2>6 DEF ReaderTakes, source
    <3>2. CASE t = s
      BY <2>6, <3>1, <3>2, TakesNext
    <3>3. CASE t # s
      <4>1. got'[s] = got[s] /\ buf'[s] = buf[s]
        BY <2>6, <3>3, TakesNext
      <4>2. reader'[s] = reader[s]
        BY <1>1, <2>6, <3>3 DEF ReaderTakes
      <4> QED BY <1>4, <2>1, <2>2, <3>1, <4>1, <4>2
    <3> QED BY <3>2, <3>3
  <2> QED BY <2>3, <2>4, <2>5, <2>6, Steps
<1> QED BY <1>4, MembershipNext, FollowersStayFine

LEMMA FanoutInvNext == FanoutInv /\ [Next]_vars => FanoutInv'
<1> SUFFICES ASSUME FanoutInv, [Next]_vars PROVE FanoutInv'
  OBVIOUS
<1>1. TypeOK'
  BY ControlNext, DataNext, ChunkNext DEF TypeOK, Bits
<1>2. HistoryIsRecent'
  <2>1. Recorded' \in 0..Bytes
    <3>1. CASE history' = <<>>
      BY <3>1, Sizes DEF Recorded
    <3>2. CASE history' # <<>>
      <4>1. Len(history') \in 1..Len(history')
        BY <3>2, DataNext, EmptySeq DEF Bits
      <4>2. history'[Len(history')] \in 1..Bytes
        BY <4>1, DataNext, ElementOfSeq DEF Bits
      <4> QED BY <3>2, <4>2, Sizes DEF Recorded, Last
    <3> QED BY <3>1, <3>2
  <2>2. Newest(From(1, Recorded'), Smaller(HistoryBytes, Recorded'))
          = From(HistoryStart(Recorded'), Recorded')
    BY <2>1, NewestOf
  <2> QED BY <2>2, DataNext DEF HistoryIsRecent
<1> QED BY <1>1, <1>2, LossNext, ChunkNext, MembershipNext DEF FanoutInv

-----------------------------------------------------------------------------
(* The invariant holds: besides what is said below, the pump's chunk comes *)
(* after what is recorded, and who attached and has not left is pushed to. *)
THEOREM FanoutInvHolds == Spec => []FanoutInv
BY InitInv, FanoutInvNext, PTL DEF Spec

(* The history and every subscriber's buffer stay within their bounds,     *)
(* whatever the sizes, and every variable within its type.                 *)
THEOREM MonitorIsBounded == Spec => []TypeOK
<1>1. FanoutInv => TypeOK
  BY DEF FanoutInv
<1> QED BY <1>1, FanoutInvHolds, PTL

(* The history is the newest of what was recorded, and all of it while it  *)
(* fits (monitor.go:36-38).                                                *)
THEOREM HistoryStaysRecent == Spec => []HistoryIsRecent
<1>1. FanoutInv => HistoryIsRecent
  BY DEF FanoutInv
<1> QED BY <1>1, FanoutInvHolds, PTL

(* Between the backlog and the live output a subscriber misses nothing,    *)
(* and one that is slow loses the oldest bytes only, and only when its     *)
(* buffer is full (monitor.go:40-42), for any number of subscribers that   *)
(* attach, read, stall and leave at any time.                              *)
THEOREM SubscribersMissNothing == Spec => []OnlyOverflowLoses
<1>1. FanoutInv => OnlyOverflowLoses
  BY DEF FanoutInv
<1> QED BY <1>1, FanoutInvHolds, PTL
=============================================================================
