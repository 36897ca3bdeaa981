--------------------------- MODULE MailListProofs ---------------------------
(***************************************************************************)
(* Theorems about MailList, for any mailbox, any folders and searches, any *)
(* page and batch sizes and any number of requests and events.             *)
(*                                                                         *)
(*   1. Sets of rows: Newest, Descending and Min. What needs induction is  *)
(*      proved from a least counterexample.                                *)
(*   2. The pages of the server.                                           *)
(*   3. The mailbox: what a batch of the backfill stores.                  *)
(*   4. TypeOK, with MailboxStored and RequestsFit.                        *)
(*   5. BackfillReachesTarget.                                             *)
(*   6. ListOfView.                                                        *)
(*   7. ListExact, from InboxStretch.                                      *)
(***************************************************************************)
EXTENDS MailList, TLAPS, FiniteSetTheorems, WellFoundedInduction, SequenceTheorems

(***************************************************************************)
(* 1. Sets of rows                                                         *)
(***************************************************************************)
LEMMA Least ==
  ASSUME NEW T \in SUBSET Nat, T # {}
  PROVE  \E n \in T : \A m \in T : n <= m
<1>1. PICK n \in T : \A m \in T : ~(<<m, n>> \in OpToRel(<, Nat))
  BY NatLessThanWellFounded, WFMin
<1>2. \A m \in T : <<m, n>> \in Nat \X Nat /\ <<m, n>>[1] = m /\ <<m, n>>[2] = n
  OBVIOUS
<1>3. \A m \in T : ~(m < n)
  BY <1>1, <1>2, Zenon DEF OpToRel
<1> QED
  BY <1>3

LEMMA DisjointUnion ==
  ASSUME NEW A, IsFiniteSet(A), NEW B, IsFiniteSet(B), A \cap B = {}
  PROVE  Cardinality(A \cup B) = Cardinality(A) + Cardinality(B)
<1>1. Cardinality(A \cup B) = Cardinality(A) + Cardinality(B) - Cardinality(A \cap B)
  BY FS_Union
<1>2. Cardinality(A \cap B) = 0
  BY FS_EmptySet
<1>3. Cardinality(A) \in Nat /\ Cardinality(B) \in Nat
  BY FS_CardinalityType
<1> QED
  BY <1>1, <1>2, <1>3

\* Rows are numbered from 1 up to some bound.
Numbered(S) == \E n \in Nat : S \subseteq 1..n

Above(S, r) == {s \in S : s > r}

LEMMA NumberedFacts ==
  ASSUME NEW S, Numbered(S)
  PROVE  /\ IsFiniteSet(S) /\ Cardinality(S) \in Nat
         /\ \A s \in S : s \in Nat /\ s > 0
         /\ \A T : T \subseteq S => Numbered(T)
<1>1. PICK n \in Nat : S \subseteq 1..n
  BY DEF Numbered
<1>2. IsFiniteSet(1..n)
  BY FS_Interval
<1>3. IsFiniteSet(S)
  BY <1>1, <1>2, FS_Subset
<1>4. Cardinality(S) \in Nat
  BY <1>3, FS_CardinalityType
<1>5. \A s \in S : s \in Nat /\ s > 0
  BY <1>1
<1>6. ASSUME NEW T, T \subseteq S PROVE Numbered(T)
  BY <1>1, <1>6 DEF Numbered
<1> QED
  BY <1>3, <1>4, <1>5, <1>6

LEMMA AboveType ==
  ASSUME NEW S, Numbered(S), NEW r
  PROVE  /\ Above(S, r) \subseteq S /\ Numbered(Above(S, r))
         /\ IsFiniteSet(Above(S, r)) /\ Cardinality(Above(S, r)) \in Nat
         /\ Cardinality(Above(S, r)) <= Cardinality(S)
<1>1. Above(S, r) \subseteq S
  BY DEF Above
<1>2. IsFiniteSet(S) /\ Numbered(Above(S, r))
  BY <1>1, NumberedFacts
<1>3. Cardinality(Above(S, r)) <= Cardinality(S)
  BY <1>1, <1>2, FS_Subset
<1> QED
  BY <1>1, <1>2, <1>3, NumberedFacts

LEMMA AboveStep ==
  ASSUME NEW S, Numbered(S), NEW r \in Nat
  PROVE  Cardinality(Above(S, r)) =
           Cardinality(Above(S, r + 1)) + IF r + 1 \in S THEN 1 ELSE 0
<1>1. IsFiniteSet(Above(S, r + 1)) /\ Cardinality(Above(S, r + 1)) \in Nat
  BY AboveType
<1>0. \A s \in S : s \in Nat
  BY NumberedFacts
<1>2. CASE r + 1 \in S
  <2>1. Above(S, r) = Above(S, r + 1) \cup {r + 1}
    BY <1>0, <1>2 DEF Above
  <2>2. r + 1 \notin Above(S, r + 1)
    BY DEF Above
  <2> QED
    BY <1>1, <1>2, <2>1, <2>2, FS_AddElement
<1>3. CASE r + 1 \notin S
  <2>1. Above(S, r) = Above(S, r + 1)
    BY <1>0, <1>3 DEF Above
  <2> QED
    BY <1>1, <1>3, <2>1
<1> QED
  BY <1>2, <1>3

\* The higher of two rows has fewer rows above it.
LEMMA AboveOrder ==
  ASSUME NEW S, Numbered(S), NEW q \in Nat, NEW r \in Nat, q <= r
  PROVE  /\ Cardinality(Above(S, r)) <= Cardinality(Above(S, q))
         /\ r \in S /\ q < r => Cardinality(Above(S, r)) < Cardinality(Above(S, q))
<1>0. \A s \in S : s \in Nat
  BY NumberedFacts
<1>1. /\ IsFiniteSet(Above(S, q)) /\ Cardinality(Above(S, q)) \in Nat
      /\ IsFiniteSet(Above(S, r)) /\ Cardinality(Above(S, r)) \in Nat
  BY AboveType
<1>2. Above(S, r) \in SUBSET Above(S, q)
  BY <1>0 DEF Above
<1>3. /\ Cardinality(Above(S, r)) <= Cardinality(Above(S, q))
      /\ Cardinality(Above(S, r)) = Cardinality(Above(S, q)) => Above(S, r) = Above(S, q)
  BY <1>1, <1>2, FS_Subset
<1>4. r \in S /\ q < r => r \in Above(S, q) /\ r \notin Above(S, r)
  BY DEF Above
<1> QED
  BY <1>1, <1>3, <1>4

LEMMA RankUnique ==
  ASSUME NEW S, Numbered(S), NEW q \in S, NEW r \in S,
         Cardinality(Above(S, q)) = Cardinality(Above(S, r))
  PROVE  q = r
<1>1. q \in Nat /\ r \in Nat /\ Cardinality(Above(S, q)) \in Nat
  BY AboveType, NumberedFacts
<1>2. CASE q < r
  BY <1>1, <1>2, AboveOrder
<1>3. CASE r < q
  BY <1>1, <1>3, AboveOrder
<1> QED
  BY <1>1, <1>2, <1>3

\* Going down, the number of rows above grows by one at each row: no rank is left out.
LEMMA RankExists ==
  ASSUME NEW S, Numbered(S), NEW i \in Nat, i < Cardinality(S)
  PROVE  \E r \in S : Cardinality(Above(S, r)) = i
<1> DEFINE T == {r \in Nat : Cardinality(Above(S, r)) <= i}
<1>0. \A r \in Nat : Cardinality(Above(S, r)) \in Nat
  BY AboveType
<1>1. T # {}
  <2>1. PICK n \in Nat : S \subseteq 1..n
    BY DEF Numbered
  <2>2. \A s \in S : ~(s > n)
    BY <2>1
  <2>3. Above(S, n) = {}
    BY <2>2 DEF Above
  <2>4. Cardinality(Above(S, n)) = 0
    BY <2>3, FS_EmptySet
  <2> QED
    BY <2>1, <2>4
<1>2. PICK r \in T : \A q \in T : r <= q
  BY <1>1, Least
<1>3. r # 0
  <2>1. Above(S, 0) = S
    BY NumberedFacts DEF Above
  <2>2. ~(Cardinality(S) <= i)
    BY NumberedFacts
  <2> QED
    BY <1>2, <2>1, <2>2
<1>4. r - 1 \in Nat /\ r - 1 \notin T /\ (r - 1) + 1 = r
  BY <1>2, <1>3
<1>5. Cardinality(Above(S, r - 1)) = Cardinality(Above(S, r)) + IF r \in S THEN 1 ELSE 0
  <2>1. Cardinality(Above(S, r - 1)) =
          Cardinality(Above(S, (r - 1) + 1)) + IF (r - 1) + 1 \in S THEN 1 ELSE 0
    BY <1>4, AboveStep
  <2> QED
    BY <1>4, <2>1
<1>6. Cardinality(Above(S, r - 1)) \in Nat /\ Cardinality(Above(S, r - 1)) > i
  BY <1>0, <1>4
<1>7. Cardinality(Above(S, r)) \in Nat /\ Cardinality(Above(S, r)) <= i
  BY <1>0, <1>2
<1> HIDE DEF T
<1> QED
  BY <1>5, <1>6, <1>7

\* Descending lists every row once, the newest first.
LEMMA DescendingRows ==
  ASSUME NEW S, Numbered(S)
  PROVE  /\ Descending(S) \in Seq(S) /\ Len(Descending(S)) = Cardinality(S)
         /\ DOMAIN Descending(S) = 1..Cardinality(S)
         /\ \A i \in 1..Cardinality(S) :
              /\ Descending(S)[i] \in S
              /\ Cardinality(Above(S, Descending(S)[i])) = i - 1
         /\ \A r \in S : Cardinality(Above(S, r)) + 1 \in 1..Cardinality(S)
                         /\ Descending(S)[Cardinality(Above(S, r)) + 1] = r
<1>0. Cardinality(S) \in Nat
  BY NumberedFacts
<1>1. ASSUME NEW i \in 1..Cardinality(S)
      PROVE  /\ Descending(S)[i] \in S
             /\ Cardinality(Above(S, Descending(S)[i])) = i - 1
  <2>1. \E r \in S : Cardinality(Above(S, r)) = i - 1
    BY <1>0, RankExists
  <2>2. Descending(S)[i] = CHOOSE r \in S : Cardinality(Above(S, r)) = i - 1
    BY DEF Descending, Above
  <2> QED
    BY <2>1, <2>2
<1>2. /\ DOMAIN Descending(S) = 1..Cardinality(S)
      /\ Descending(S) \in Seq(S) /\ Len(Descending(S)) = Cardinality(S)
  <2>1. DOMAIN Descending(S) = 1..Cardinality(S)
    BY DEF Descending
  <2>2. Descending(S) \in [1..Cardinality(S) -> S]
    BY <1>1, <2>1 DEF Descending
  <2> QED
    BY <1>0, <2>1, <2>2
<1>3. ASSUME NEW r \in S
      PROVE  Cardinality(Above(S, r)) + 1 \in 1..Cardinality(S)
             /\ Descending(S)[Cardinality(Above(S, r)) + 1] = r
  <2>1. Cardinality(Above(S, r)) \in Nat /\ Above(S, 0) = S /\ r \in Nat /\ 0 < r
    BY AboveType, NumberedFacts DEF Above
  <2>2. Cardinality(Above(S, r)) < Cardinality(S)
    BY <2>1, AboveOrder
  <2>3. Cardinality(Above(S, r)) + 1 \in 1..Cardinality(S)
    BY <1>0, <2>1, <2>2
  <2>4. /\ Descending(S)[Cardinality(Above(S, r)) + 1] \in S
        /\ Cardinality(Above(S, Descending(S)[Cardinality(Above(S, r)) + 1])) =
             Cardinality(Above(S, r))
    BY <1>1, <2>1, <2>3
  <2> QED
    BY <2>3, <2>4, RankUnique
<1> QED
  BY <1>1, <1>2, <1>3

LEMMA DescendingRange ==
  ASSUME NEW S, Numbered(S)
  PROVE  Range(Descending(S)) = S
  BY DescendingRows DEF Range

LEMMA DescendingEmpty ==
  Descending({}) = <<>>
<1>1. Numbered({})
  BY DEF Numbered
<1>2. Descending({}) \in Seq({}) /\ Len(Descending({})) = 0
  BY <1>1, DescendingRows, FS_EmptySet
<1> QED
  BY <1>2

\* The first row of a list is the highest, the last one the lowest.
LEMMA DescendingEnds ==
  ASSUME NEW S, Numbered(S), S # {}
  PROVE  /\ Descending(S) # <<>>
         /\ Head(Descending(S)) \in S /\ \A s \in S : s <= Head(Descending(S))
         /\ Last(Descending(S)) \in S /\ \A s \in S : Last(Descending(S)) <= s
<1> DEFINE D == Descending(S)
           n == Cardinality(S)
<1>0. \A s \in S : s \in Nat
  BY NumberedFacts
<1>1. n \in Nat /\ n # 0
  BY NumberedFacts, FS_EmptySet
<1>2. D \in Seq(S) /\ Len(D) = n
  BY DescendingRows
<1>3. D # <<>> /\ Head(D) = D[1] /\ Last(D) = D[n]
  BY <1>1, <1>2 DEF Last
<1>4. /\ D[1] \in S /\ Cardinality(Above(S, D[1])) = 0
      /\ D[n] \in S /\ Cardinality(Above(S, D[n])) = n - 1
  BY <1>1, DescendingRows
<1>5. \A s \in S : s <= D[1]
  <2>1. Above(S, D[1]) = {}
    BY <1>4, AboveType, FS_EmptySet
  <2> QED
    BY <1>0, <1>4, <2>1 DEF Above
<1>6. ASSUME NEW s \in S PROVE D[n] <= s
  <2>1. s \in Nat /\ D[n] \in Nat
    BY <1>0, <1>4
  <2>2. Cardinality(Above(S, s)) \in Nat /\ Cardinality(Above(S, s)) + 1 \in 1..n
    BY DescendingRows, AboveType
  <2>3. s < D[n] => Cardinality(Above(S, D[n])) < Cardinality(Above(S, s))
    BY <1>4, <2>1, AboveOrder
  <2> QED
    BY <1>1, <1>4, <2>1, <2>2, <2>3
<1> QED
  BY <1>3, <1>4, <1>5, <1>6

LEMMA MinRow ==
  ASSUME NEW S, Numbered(S), S # {}
  PROVE  Min(S) \in S /\ (\A s \in S : Min(S) <= s) /\ Min(S) = Last(Descending(S))
<1>1. Last(Descending(S)) \in S /\ \A s \in S : Last(Descending(S)) <= s
  BY DescendingEnds
<1>2. Min(S) \in S /\ \A s \in S : Min(S) <= s
  BY <1>1, Zenon DEF Min
<1>3. Min(S) \in Nat /\ Last(Descending(S)) \in Nat
  BY <1>1, <1>2, NumberedFacts
<1> QED
  BY <1>1, <1>2, <1>3

\* Newest takes rows from the top, as many as it is told or all there are.
LEMMA NewestRows ==
  ASSUME NEW S, Numbered(S), NEW k \in Nat
  PROVE  /\ Newest(S, k) \subseteq S /\ Numbered(Newest(S, k))
         /\ \A r \in Newest(S, k), s \in S \ Newest(S, k) : s < r
         /\ Newest(S, k) # S => Cardinality(Newest(S, k)) = k
         /\ Cardinality(Newest(S, k)) <= k
<1> DEFINE W == Newest(S, k)
<1>0. \A s \in S : s \in Nat
  BY NumberedFacts
<1>1. \A s : s \in W <=> s \in S /\ Cardinality(Above(S, s)) < k
  BY DEF Newest, Above
<1>2. W \subseteq S /\ Numbered(W)
  <2>1. W \subseteq S
    BY <1>1
  <2> QED
    BY <2>1, NumberedFacts
<1>3. ASSUME NEW r \in W, NEW s \in S \ W PROVE s < r
  <2>1. r \in S /\ Cardinality(Above(S, r)) < k /\ ~(Cardinality(Above(S, s)) < k)
    BY <1>1
  <2>2. /\ Cardinality(Above(S, r)) \in Nat /\ Cardinality(Above(S, s)) \in Nat
        /\ r \in Nat /\ s \in Nat
    BY <1>0, <2>1, AboveType
  <2>3. r <= s => Cardinality(Above(S, s)) <= Cardinality(Above(S, r))
    BY <2>2, AboveOrder
  <2> QED
    BY <2>1, <2>2, <2>3
<1>4. Cardinality(S) \in Nat /\ Cardinality(W) \in Nat
  BY <1>2, NumberedFacts
<1>5. CASE k <= Cardinality(S)
  <2>1. CASE k = 0
    <3>1. W = {}
      <4>1. \A s \in S : Cardinality(Above(S, s)) \in Nat
        BY AboveType
      <4> QED
        BY <1>1, <2>1, <4>1
    <3> QED
      BY <1>2, <1>3, <2>1, <3>1, FS_EmptySet
  <2>2. CASE k # 0
    <3>1. PICK r \in S : Cardinality(Above(S, r)) = k - 1
      BY <1>4, <1>5, <2>2, RankExists
    <3>2. W = Above(S, r) \cup {r}
      <4>1. ASSUME NEW s \in S PROVE s \in W <=> s \in Above(S, r) \cup {r}
        <5>1. s \in Nat /\ r \in Nat /\ Cardinality(Above(S, s)) \in Nat
          BY <1>0, AboveType
        <5>2. CASE s = r
          BY <1>1, <3>1, <5>2
        <5>3. CASE s > r
          <6>1. Cardinality(Above(S, s)) < Cardinality(Above(S, r))
            BY <5>1, <5>3, AboveOrder
          <6> QED
            BY <1>1, <3>1, <5>1, <5>3, <6>1 DEF Above
        <5>4. CASE s < r
          <6>1. Cardinality(Above(S, r)) < Cardinality(Above(S, s))
            BY <5>1, <5>4, AboveOrder
          <6>2. s \notin Above(S, r) /\ s # r
            BY <5>1, <5>4 DEF Above
          <6> QED
            BY <1>1, <3>1, <5>1, <6>1, <6>2
        <5> QED
          BY <5>1, <5>2, <5>3, <5>4
      <4> QED
        BY <1>2, <4>1, AboveType
    <3>3. r \notin Above(S, r) /\ IsFiniteSet(Above(S, r))
      BY <1>0, AboveType DEF Above
    <3>4. Cardinality(W) = k
      <4>1. Cardinality(Above(S, r) \cup {r}) = Cardinality(Above(S, r)) + 1
        BY <3>3, FS_AddElement
      <4>2. Cardinality(Above(S, r)) + 1 = k
        BY <3>1
      <4> QED
        BY <3>2, <4>1, <4>2
    <3> QED
      BY <1>2, <1>3, <3>4
  <2> QED
    BY <2>1, <2>2
<1>6. CASE Cardinality(S) < k
  <2>1. \A s \in S : Cardinality(Above(S, s)) \in Nat /\ Cardinality(Above(S, s)) <= Cardinality(S)
    BY AboveType
  <2>2. W = S
    BY <1>1, <1>2, <1>4, <1>6, <2>1
  <2> QED
    BY <1>2, <1>3, <1>4, <1>6, <2>2
<1> QED
  BY <1>4, <1>5, <1>6

\* The list of a stretch of rows and of a lower one is that of both, one after the other.
LEMMA DescendingConcat ==
  ASSUME NEW A, Numbered(A), NEW B, Numbered(B), \A a \in A, b \in B : b < a,
         Numbered(A \cup B)
  PROVE  Descending(A) \o Descending(B) = Descending(A \cup B)
<1> DEFINE n == Cardinality(A)
           m == Cardinality(B)
           C == A \cup B
<1>0. \A s \in C : s \in Nat
  BY NumberedFacts
<1>1. IsFiniteSet(A) /\ IsFiniteSet(B) /\ n \in Nat /\ m \in Nat
  BY NumberedFacts
<1>2. Cardinality(C) = n + m
  <2>1. A \cap B = {}
    BY <1>0
  <2> QED
    BY <1>1, <2>1, DisjointUnion
<1>3. /\ Descending(A) \in Seq(A) /\ Len(Descending(A)) = n
      /\ Descending(B) \in Seq(B) /\ Len(Descending(B)) = m
      /\ Descending(C) \in Seq(C) /\ Len(Descending(C)) = n + m
  BY <1>2, DescendingRows
<1>5. /\ Descending(A) \o Descending(B) \in Seq(C)
      /\ Len(Descending(A) \o Descending(B)) = n + m
      /\ \A i \in 1..(n + m) : (Descending(A) \o Descending(B))[i] =
           IF i <= n THEN Descending(A)[i] ELSE Descending(B)[i - n]
  <2>1. Descending(A) \in Seq(C) /\ Descending(B) \in Seq(C)
    BY <1>3
  <2> DEFINE a == Descending(A)
             b == Descending(B)
  <2> HIDE DEF a, b
  <2>2. /\ a \o b \in Seq(C) /\ Len(a \o b) = Len(a) + Len(b)
        /\ \A i \in 1..(Len(a) + Len(b)) :
             (a \o b)[i] = IF i <= Len(a) THEN a[i] ELSE b[i - Len(a)]
    BY <2>1, ConcatProperties DEF a, b
  <2> QED
    BY <1>3, <2>2 DEF a, b
<1>4. ASSUME NEW i \in 1..(n + m)
      PROVE  (Descending(A) \o Descending(B))[i] = Descending(C)[i]
  <2>1. /\ Descending(C)[i] \in C
        /\ Cardinality(Above(C, Descending(C)[i])) = i - 1
    BY <1>2, DescendingRows
  <2>2. CASE i <= n
    <3>1. i \in 1..n
      BY <1>1, <2>2
    <3>2. /\ Descending(A)[i] \in A
          /\ Cardinality(Above(A, Descending(A)[i])) = i - 1
      BY <3>1, DescendingRows
    <3>3. Above(C, Descending(A)[i]) = Above(A, Descending(A)[i])
      BY <1>0, <3>2 DEF Above
    <3>4. Descending(A)[i] = Descending(C)[i]
      BY <2>1, <3>2, <3>3, RankUnique
    <3> QED
      BY <1>1, <1>5, <2>2, <3>4
  <2>3. CASE i > n
    <3>1. i - n \in 1..m
      BY <1>1, <2>3
    <3> DEFINE b == Descending(B)[i - n]
    <3>2. b \in B /\ Cardinality(Above(B, b)) = (i - n) - 1
      BY <3>1, DescendingRows
    <3>3. Above(C, b) = A \cup Above(B, b) /\ A \cap Above(B, b) = {}
      BY <1>0, <3>2 DEF Above
    <3>4. IsFiniteSet(Above(B, b))
      BY AboveType
    <3>5. Cardinality(Above(C, b)) = i - 1
      <4>1. Cardinality(Above(C, b)) = n + Cardinality(Above(B, b))
        BY <1>1, <3>3, <3>4, DisjointUnion
      <4> QED
        BY <1>1, <3>2, <4>1
    <3>6. b = Descending(C)[i]
      BY <2>1, <3>2, <3>5, RankUnique
    <3> HIDE DEF b
    <3>7. (Descending(A) \o Descending(B))[i] = Descending(B)[i - n]
      BY <1>1, <1>3, <1>5, <2>3
    <3> QED
      BY <3>6, <3>7 DEF b
  <2>4. i <= n \/ i > n
    BY <1>1
  <2> QED
    BY <2>2, <2>3, <2>4
<1> HIDE DEF n, m, C
<1>6. Descending(A) \o Descending(B) = Descending(C)
  BY <1>3, <1>4, <1>5, SeqEqual
<1> QED
  BY <1>6 DEF C

(***************************************************************************)
(* 2. Pages                                                                *)
(***************************************************************************)
Beyond(S, cursor) == {r \in S : cursor = None \/ r < cursor}

Shown(S, cursor) == Newest(Beyond(S, cursor), PageSize)

LEMMA SizesPositive ==
  /\ PageSize \in Nat /\ PageSize > 0 /\ BatchSize \in Nat /\ BatchSize > 0
  /\ MaxRow \in Nat /\ MaxRequests \in Nat /\ MaxRequests > 0
  BY ListAssumption

LEMMA ShownRows ==
  ASSUME NEW S, Numbered(S), NEW cursor
  PROVE  /\ Beyond(S, cursor) \subseteq S /\ Numbered(Beyond(S, cursor))
         /\ Shown(S, cursor) \subseteq Beyond(S, cursor) /\ Numbered(Shown(S, cursor))
         /\ \A r \in Shown(S, cursor), s \in Beyond(S, cursor) \ Shown(S, cursor) : s < r
         /\ Shown(S, cursor) # Beyond(S, cursor) => Cardinality(Shown(S, cursor)) = PageSize
         /\ Shown(S, cursor) = {} => Beyond(S, cursor) = {}
<1>1. Beyond(S, cursor) \subseteq S
  BY DEF Beyond
<1>2. Numbered(Beyond(S, cursor))
  BY <1>1, NumberedFacts
<1>3. /\ Shown(S, cursor) \subseteq Beyond(S, cursor) /\ Numbered(Shown(S, cursor))
      /\ \A r \in Shown(S, cursor), s \in Beyond(S, cursor) \ Shown(S, cursor) : s < r
      /\ Shown(S, cursor) # Beyond(S, cursor) => Cardinality(Shown(S, cursor)) = PageSize
  BY <1>2, SizesPositive, NewestRows DEF Shown
<1>4. ASSUME Shown(S, cursor) = {} PROVE Beyond(S, cursor) = {}
  <2>1. Cardinality(Shown(S, cursor)) # PageSize
    BY <1>4, FS_EmptySet, SizesPositive
  <2> QED
    BY <1>3, <1>4, <2>1
<1> QED
  BY <1>1, <1>2, <1>3, <1>4

\* A page lists the newest rows beyond the cursor; its cursors are its last row.
LEMMA PageRows ==
  ASSUME NEW S, Numbered(S), NEW cursor
  PROVE  LET page == ListPage(S, cursor) IN
         /\ page = [rows |-> page.rows, next |-> page.next, end |-> page.end]
         /\ page.rows = Descending(Shown(S, cursor))
         /\ page.rows \in Seq(S) /\ Range(page.rows) = Shown(S, cursor)
         /\ page.next \in {None, page.end}
         /\ Shown(S, cursor) = {} => page.end = None /\ page.rows = <<>>
         /\ Shown(S, cursor) # {} => page.end = Last(page.rows) /\ page.end \in S
<1> DEFINE P == Shown(S, cursor)
           end == IF P = {} THEN None ELSE Min(P)
<1>1. ListPage(S, cursor) =
        [rows |-> Descending(P), next |-> IF P = Beyond(S, cursor) THEN None ELSE end,
         end |-> end]
  BY DEF ListPage, Page, Shown, Beyond
<1>2. P \subseteq S /\ Numbered(P)
  BY ShownRows
<1>3. Descending(P) \in Seq(P) /\ Range(Descending(P)) = P
  BY <1>2, DescendingRows, DescendingRange
<1>4. Descending(P) \in Seq(S)
  BY <1>2, <1>3
<1>5. P = {} => Descending(P) = <<>>
  BY DescendingEmpty
<1>6. P # {} => Min(P) \in P /\ Min(P) = Last(Descending(P))
  BY <1>2, MinRow
<1> HIDE DEF P
<1> QED
  BY <1>1, <1>2, <1>3, <1>4, <1>5, <1>6 DEF P

LEMMA ViewsApart ==
  /\ \A q \in Lookups \cup Questions : q \notin Folders /\ q # "blank" /\ q # "off"
  /\ \A q \in Lookups : q \notin Questions
  BY ListAssumption

\* What a search or a folder shows are rows of the database that belong to it.
LEMMA PageFits ==
  ASSUME tagged \subseteq known, Numbered(known), NEW v \in Views \ {"blank"}, NEW cursor
  PROVE  LET page == PageOf(v, cursor) IN
         /\ page.rows \in Seq(known)
         /\ page.next \in known \cup {None} /\ page.end \in known \cup {None}
         /\ tagged \subseteq Rows \ Archived => Range(page.rows) \subseteq Belongs(v)
<1>1. \A S, c : S \subseteq known =>
         /\ ListPage(S, c).rows \in Seq(known) /\ Range(ListPage(S, c).rows) \subseteq S
         /\ ListPage(S, c).next \in known \cup {None}
         /\ ListPage(S, c).end \in known \cup {None}
  <2> SUFFICES ASSUME NEW S, NEW c, S \subseteq known
               PROVE  /\ ListPage(S, c).rows \in Seq(known)
                      /\ Range(ListPage(S, c).rows) \subseteq S
                      /\ ListPage(S, c).next \in known \cup {None}
                      /\ ListPage(S, c).end \in known \cup {None}
    OBVIOUS
  <2>1. Numbered(S)
    BY NumberedFacts
  <2>2. Shown(S, c) \subseteq S
    BY <2>1, ShownRows
  <2>3. /\ ListPage(S, c).rows \in Seq(S) /\ Range(ListPage(S, c).rows) = Shown(S, c)
        /\ ListPage(S, c).next \in {None, ListPage(S, c).end}
        /\ Shown(S, c) = {} => ListPage(S, c).end = None
        /\ Shown(S, c) # {} => ListPage(S, c).end \in S
    BY <2>1, PageRows
  <2>4. ListPage(S, c).rows \in Seq(known)
    BY <2>3
  <2> QED
    BY <2>2, <2>3, <2>4
<1>2. \A c : /\ SearchPage(c).rows \in Seq(known)
             /\ Range(SearchPage(c).rows) \subseteq known \cap Found
             /\ SearchPage(c).next \in known \cup {None}
             /\ SearchPage(c).end = None
  <2> TAKE c
  <2>1. known \cap Found \subseteq known /\ Numbered(known \cap Found)
    BY NumberedFacts
  <2>2. ListPage(known \cap Found, c) =
          [rows |-> ListPage(known \cap Found, c).rows,
           next |-> ListPage(known \cap Found, c).next,
           end  |-> ListPage(known \cap Found, c).end]
    BY <2>1, PageRows
  <2>3. /\ SearchPage(c).rows = ListPage(known \cap Found, c).rows
        /\ SearchPage(c).next = ListPage(known \cap Found, c).next
        /\ SearchPage(c).end = None
    BY <2>2 DEF SearchPage
  <2>4. /\ ListPage(known \cap Found, c).rows \in Seq(known)
        /\ Range(ListPage(known \cap Found, c).rows) \subseteq known \cap Found
        /\ ListPage(known \cap Found, c).next \in known \cup {None}
    BY <1>1, <2>1
  <2> QED
    BY <2>3, <2>4
<1>3. CASE v = "all"
  <2>1. PageOf(v, cursor) = ListPage(tagged, cursor)
    BY <1>3, ViewsApart DEF PageOf, Listing, Folders
  <2>2. Belongs(v) = Rows \ Archived
    BY <1>3, ViewsApart DEF Belongs, Folders
  <2> QED
    BY <1>1, <2>1, <2>2
<1>4. CASE v = "starred"
  <2>1. PageOf(v, cursor) = ListPage(known \cap Starred, cursor)
    BY <1>4, ViewsApart DEF PageOf, Listing, Folders
  <2>2. Belongs(v) = Starred
    BY <1>4, ViewsApart DEF Belongs, Folders
  <2> QED
    BY <1>1, <2>1, <2>2
<1>5. CASE v \in Lookups
  <2>1. PageOf(v, cursor) = SearchPage(cursor)
    BY <1>5, ViewsApart DEF PageOf, Folders
  <2>2. Belongs(v) = Found
    BY <1>5, ViewsApart DEF Belongs, Folders
  <2> QED
    BY <1>2, <2>1, <2>2
<1>6. CASE v \in Questions
  <2>0. v \notin Lookups /\ v # "all" /\ v # "starred" /\ v \notin Folders
    BY <1>6, ViewsApart DEF Folders
  <2>1. Belongs(v) = Found \cup Meant
    BY <1>6, <2>0 DEF Belongs
  <2>2. CASE known \cap Meant = {}
    <3>1. PageOf(v, cursor) = SearchPage(None)
      BY <1>6, <2>0, <2>2 DEF PageOf
    <3> QED
      BY <1>2, <2>1, <3>1
  <2>3. CASE known \cap Meant # {}
    <3>1. PageOf(v, cursor) = Page(Descending(known \cap Meant), None, None)
      BY <1>6, <2>0, <2>3 DEF PageOf
    <3>2. Numbered(known \cap Meant)
      BY NumberedFacts
    <3>3. /\ Descending(known \cap Meant) \in Seq(known \cap Meant)
          /\ Range(Descending(known \cap Meant)) = known \cap Meant
      BY <3>2, DescendingRows, DescendingRange
    <3>4. Descending(known \cap Meant) \in Seq(known)
      BY <3>3
    <3>5. /\ PageOf(v, cursor).rows = Descending(known \cap Meant)
          /\ PageOf(v, cursor).next = None /\ PageOf(v, cursor).end = None
      BY <3>1 DEF Page
    <3> QED
      BY <2>1, <3>3, <3>4, <3>5
  <2> QED
    BY <2>2, <2>3
<1> QED
  BY <1>3, <1>4, <1>5, <1>6 DEF Views, Folders

LEMMA WithoutRows ==
  ASSUME NEW S, NEW s \in Seq(S), NEW gone
  PROVE  Without(s, gone) \in Seq(S) /\ Range(Without(s, gone)) \subseteq Range(s)
<1> DEFINE Q == {i \in 1..Len(s) : s[i] \notin gone}
           P == Descending(Q)
<1>1. Len(s) \in Nat /\ DOMAIN s = 1..Len(s) /\ \A i \in 1..Len(s) : s[i] \in S
  OBVIOUS
<1>2. Numbered(Q)
  BY <1>1 DEF Numbered
<1>3. P \in Seq(Q)
  BY <1>2, DescendingRows
<1>4. Without(s, gone) = [k \in 1..Len(P) |-> s[P[Len(P) + 1 - k]]]
  BY DEF Without
<1> HIDE DEF P
<1>5. ASSUME NEW k \in 1..Len(P)
      PROVE  P[Len(P) + 1 - k] \in 1..Len(s)
  <2>1. Len(P) + 1 - k \in 1..Len(P)
    BY <1>3
  <2>2. P[Len(P) + 1 - k] \in Q
    BY <1>3, <2>1
  <2> QED
    BY <2>2
<1>6. Len(P) \in Nat
  BY <1>3
<1>7. Without(s, gone) \in [1..Len(P) -> S]
  BY <1>1, <1>4, <1>5
<1>8. Range(Without(s, gone)) \subseteq Range(s)
  BY <1>1, <1>4, <1>5 DEF Range
<1> QED
  BY <1>6, <1>7, <1>8

(***************************************************************************)
(* 3. The mailbox                                                          *)
(***************************************************************************)
LEMMA ViewType ==
  ASSUME NEW f \in Folders, NEW q \in (Views \ Folders) \cup {"off"}
  PROVE  /\ View(f, q) \in Views
         /\ q = "off" => View(f, q) = f
         /\ q # "off" => View(f, q) = q /\ q \notin Folders
  BY ViewsApart DEF View, Views, Folders

LEMMA MinPair ==
  ASSUME NEW a \in Nat, NEW b \in Nat
  PROVE  Min({a, b}) = IF a <= b THEN a ELSE b
<1>1. \E x \in {a, b} : \A y \in {a, b} : x <= y
  BY Zenon, SMT
<1>2. Min({a, b}) \in {a, b} /\ \A y \in {a, b} : Min({a, b}) <= y
  BY <1>1, Zenon DEF Min
<1> QED
  BY <1>2

LEMMA MaxPair ==
  ASSUME NEW a \in Nat, NEW b \in Nat
  PROVE  Max({a, b}) = IF a >= b THEN a ELSE b
<1>1. \E x \in {a, b} : \A y \in {a, b} : x >= y
  OBVIOUS
<1>2. Max({a, b}) \in {a, b} /\ \A y \in {a, b} : Max({a, b}) >= y
  BY <1>1, Zenon DEF Max
<1> QED
  BY <1>2

LEMMA MaxSyncedType ==
  ASSUME NEW t \in Number
  PROVE  MaxSynced(t) \in Nat /\ MaxSynced(t) > 0
<1>1. DefaultMax \in Nat \ {0} /\ Ceiling \in Nat \ {0}
  BY ListAssumption
<1>2. CASE t = Unknown
  BY <1>1, <1>2 DEF MaxSynced
<1>3. CASE t # Unknown
  <2>1. t \in Nat
    BY <1>3 DEF Number
  <2>2. Max({1, t}) \in Nat /\ Max({1, t}) > 0
    BY <2>1, MaxPair
  <2>3. MaxSynced(t) = Min({Ceiling, Max({1, t})})
    BY <1>3 DEF MaxSynced
  <2> QED
    BY <1>1, <2>2, <2>3, MinPair
<1> QED
  BY <1>2, <1>3

\* Rows of Gmail's inbox that a call of the walk lists: from the token down.
Ahead == {r \in gmail : more.walk.token = None \/ r < more.walk.token}

\* Storing these leaves no untagged row of the inbox above a tagged one.
FromTheTop(refs) ==
  refs \subseteq gmail /\ \A r \in refs, g \in gmail \ (tagged \cup refs) : g < r

LEMMA BatchRows ==
  ASSUME TypeOK, MailboxStored
  PROVE  /\ Batch.refs \subseteq Ahead /\ Numbered(Batch.refs) /\ Ahead \subseteq gmail
         /\ Batch.synced = more.walk.synced + Cardinality(Batch.refs) /\ Batch.synced \in Nat
         /\ \A r \in Batch.refs, g \in Ahead \ Batch.refs : g < r
         /\ FromTheTop(Batch.refs)
         /\ \A n \in Nat : FromTheTop(Newest(Batch.refs, n))
         /\ Batch.done <=> Batch.synced >= MaxSynced(more.target) \/ Batch.refs = Ahead
         /\ ~Batch.done => Batch.refs # {}
<1> DEFINE max  == MaxSynced(more.target)
           w    == more.walk
           k    == IF w.synced >= max THEN 0 ELSE Min({BatchSize, max - w.synced})
           refs == Newest(Ahead, k)
<1>1. /\ w.synced \in Nat /\ w.token \in Rows \cup {None}
      /\ max \in Nat /\ max > 0
  <2>1. more.walk \in [token : Rows \cup {None}, synced : Nat] /\ more.target \in Number
    BY DEF TypeOK
  <2> QED
    BY <2>1, MaxSyncedType
<1>2. /\ k \in Nat
      /\ w.synced < max => k > 0
  <2>1. CASE w.synced >= max
    BY <1>1, <2>1
  <2>2. CASE w.synced < max
    <3>1. max - w.synced \in Nat /\ max - w.synced > 0 /\ ~(w.synced >= max)
      BY <1>1, <2>2
    <3>2. Min({BatchSize, max - w.synced}) \in Nat /\ Min({BatchSize, max - w.synced}) > 0
      BY <3>1, SizesPositive, MinPair
    <3> QED
      BY <3>1, <3>2
  <2> QED
    BY <1>1, <2>1, <2>2
<1>3. Batch = [refs |-> refs, synced |-> w.synced + Cardinality(refs),
               done |-> w.synced + Cardinality(refs) >= max \/ refs = Ahead]
  BY Zenon DEF Batch, Ahead
<1>4. /\ Batch.refs = refs /\ Batch.synced = w.synced + Cardinality(refs)
      /\ Batch.done = (w.synced + Cardinality(refs) >= max \/ refs = Ahead)
  BY <1>3
<1>5. Ahead \subseteq gmail /\ Numbered(Ahead)
  <2>1. gmail \subseteq 1..arrived /\ arrived \in Nat
    BY SizesPositive, ListAssumption DEF MailboxStored, TypeOK
  <2> QED
    BY <2>1 DEF Ahead, Numbered
<1> HIDE DEF k
<1>6. /\ refs \subseteq Ahead /\ Numbered(refs)
      /\ \A r \in refs, g \in Ahead \ refs : g < r
      /\ refs # Ahead => Cardinality(refs) = k
      /\ Cardinality(refs) \in Nat
  BY <1>2, <1>5, NewestRows, NumberedFacts
<1>7. \A g \in gmail \ tagged : g \in Ahead
  <2>1. w.token # None => {r \in gmail : r >= w.token} \subseteq tagged
    BY DEF MailboxStored, WalkDone
  <2>2. \A g \in gmail : g \in Nat
    BY <1>5, SizesPositive DEF MailboxStored, TypeOK
  <2> QED
    BY <1>1, <2>1, <2>2 DEF Ahead, Rows, None
<1>8. FromTheTop(refs)
  BY <1>5, <1>6, <1>7 DEF FromTheTop
<1>9. ASSUME NEW n \in Nat PROVE FromTheTop(Newest(refs, n))
  <2>1. /\ Newest(refs, n) \subseteq refs
        /\ \A r \in Newest(refs, n), s \in refs \ Newest(refs, n) : s < r
    BY <1>6, NewestRows
  <2> QED
    BY <1>5, <1>6, <1>7, <2>1 DEF FromTheTop
<1>10. ~Batch.done => refs # {}
  <2> SUFFICES ASSUME ~Batch.done, refs = {} PROVE FALSE
    OBVIOUS
  <2>1. Cardinality(refs) = 0
    BY FS_EmptySet
  <2>2. ~(w.synced + Cardinality(refs) >= max) /\ refs # Ahead
    BY <1>4
  <2>3. w.synced < max
    BY <1>1, <2>1, <2>2
  <2> HIDE DEF refs
  <2> QED
    BY <1>2, <1>6, <2>1, <2>2, <2>3
<1> HIDE DEF refs
<1>11. Batch.synced = w.synced + Cardinality(Batch.refs) /\ Batch.synced \in Nat
  BY <1>1, <1>4, <1>6
<1>12. Batch.done <=> Batch.synced >= max \/ Batch.refs = Ahead
  BY <1>4, Zenon
<1>13. ~Batch.done => Batch.refs # {}
  BY <1>4, <1>10
<1> QED
  BY <1>4, <1>5, <1>6, <1>8, <1>9, <1>11, <1>12, <1>13

\* The five ways in which a step changes the mailbox.
LEMMA ServerMoves ==
  ASSUME TypeOK, MailboxStored, [Next]_vars
  PROVE  \/ UNCHANGED <<server, shifted, behind>>
         \/ UNCHANGED server /\ shifted' = FALSE /\ behind' = 0
         \/ UNCHANGED server /\ shifted' = shifted /\ behind' = 0
         \/ \E refs : FromTheTop(refs) /\ Stores(refs)
         \/ /\ tagged' = tagged \cap gmail /\ shifted' = (shifted \/ tagged' # tagged)
            /\ UNCHANGED <<gmail, known, arrived, behind>>
         \/ Arrives
         \/ \E r \in gmail : ArchivedElsewhere(r)
<1> USE DEF server, vars
<1>1. ASSUME NEW f \in Folders, ToFolder(f) PROVE UNCHANGED <<server, shifted, behind>>
  BY <1>1 DEF ToFolder, ghosts
<1>2. ASSUME NEW q \in Lookups \cup Questions, ToSearch(q)
      PROVE  UNCHANGED <<server, shifted, behind>>
  BY <1>2 DEF ToSearch, ghosts
<1>3. ASSUME ToBlank PROVE UNCHANGED server /\ shifted' = FALSE /\ behind' = 0
  BY <1>3 DEF ToBlank, Replace
<1>4. ASSUME Reload \/ TimerFires \/ UserLoadsMore \/ AutoSync \/ Poll \/ PollFails
             \/ CountArrives \/ Reconcile
      PROVE  UNCHANGED <<server, shifted, behind>>
  BY <1>4 DEF Reload, TimerFires, UserLoadsMore, AutoSync, Poll, PollFails, CountArrives,
              Reconcile, ghosts
<1>5. ASSUME NEW r \in requests, FirstPageArrives(r) \/ FirstPageFails(r)
      PROVE  UNCHANGED server /\ shifted' = FALSE /\ behind' = 0
  BY <1>5 DEF FirstPageArrives, FirstPageFails, Replace
<1>6. ASSUME NEW r \in requests, DropSuperseded(r)
      PROVE  UNCHANGED <<server, shifted, behind>>
  BY <1>6 DEF DropSuperseded, ghosts
<1>7. ASSUME MorePage \/ AfterBackfill PROVE UNCHANGED <<server, shifted, behind>>
  BY <1>7 DEF MorePage, AfterBackfill, Append2List
<1>8. ASSUME BackfillAnswers PROVE \E refs : FromTheTop(refs) /\ Stores(refs)
  BY <1>8, BatchRows DEF BackfillAnswers
<1>9. ASSUME MoreFails
      PROVE  \/ UNCHANGED <<server, shifted, behind>>
             \/ \E refs : FromTheTop(refs) /\ Stores(refs)
  <2>1. CASE more.step = "backfill"
    <3>1. PICK refs \in {Newest(Batch.refs, n) : n \in 0..BatchSize} : Stores(refs)
      BY <1>9, <2>1 DEF MoreFails
    <3>2. FromTheTop(refs)
      BY BatchRows, SizesPositive
    <3> QED
      BY <3>1, <3>2
  <2>2. CASE more.step # "backfill"
    BY <1>9, <2>2 DEF MoreFails, ghosts
  <2> QED
    BY <2>1, <2>2
<1>10. ASSUME PollArrives PROVE UNCHANGED server /\ shifted' = shifted /\ behind' = 0
  BY <1>10 DEF PollArrives
<1>11. ASSUME NEW id \in reconciling, ReconcileArrives(id)
       PROVE  /\ tagged' = tagged \cap gmail /\ shifted' = (shifted \/ tagged' # tagged)
              /\ UNCHANGED <<gmail, known, arrived, behind>>
  BY <1>11 DEF ReconcileArrives
<1>12. ASSUME NEW id \in reconciling, ReconcileFails(id)
       PROVE  UNCHANGED <<server, shifted, behind>>
  BY <1>12 DEF ReconcileFails, ghosts
<1>13. ASSUME UNCHANGED vars PROVE UNCHANGED <<server, shifted, behind>>
  BY <1>13 DEF ghosts
<1> QED
  BY <1>1, <1>2, <1>3, <1>4, <1>5, <1>6, <1>7, <1>8, <1>9, <1>10, <1>11, <1>12, <1>13
     DEF Next, User, Answers, Mailbox

MailboxType ==
  /\ gmail \subseteq tagged \cup (Rows \ known) /\ tagged \subseteq known
  /\ known \subseteq Rows /\ arrived \in First..MaxRow /\ behind \in Nat

\* The part of MailboxStored that is about the mailbox alone.
TopTagged ==
  /\ gmail \cup tagged \subseteq (1..arrived) \ Archived /\ known \subseteq 1..arrived
  /\ \A g \in gmail \ tagged, t \in tagged : g < t

LEMMA MailboxStep ==
  ASSUME TypeOK, MailboxStored, [Next]_vars
  PROVE  /\ MailboxType' /\ TopTagged'
         /\ known \subseteq known' /\ \A g \in gmail' \ tagged' : g \in gmail \ tagged
<1> DEFINE Goal == /\ MailboxType' /\ TopTagged' /\ known \subseteq known'
                   /\ \A g \in gmail' \ tagged' : g \in gmail \ tagged
<1>0. MailboxType /\ TopTagged /\ arrived \in Nat /\ behind \in Nat
  BY ListAssumption DEF TypeOK, MailboxStored, MailboxType, TopTagged
<1> USE DEF MailboxType, TopTagged, Rows
<1>1. ASSUME UNCHANGED server, behind' = 0 \/ UNCHANGED behind PROVE Goal
  BY <1>0, <1>1 DEF server
<1>2. ASSUME NEW refs, FromTheTop(refs), Stores(refs) PROVE Goal
  <2>1. /\ tagged' = tagged \cup refs /\ known' = known \cup refs
        /\ UNCHANGED <<gmail, arrived, behind>>
    BY <1>2 DEF Stores
  <2>2. refs \subseteq gmail /\ \A r \in refs, g \in gmail \ (tagged \cup refs) : g < r
    BY <1>2 DEF FromTheTop
  <2>3. MailboxType'
    BY <1>0, <2>1, <2>2
  <2>4. TopTagged'
    BY <1>0, <2>1, <2>2
  <2> QED
    BY <2>1, <2>3, <2>4
<1>3. ASSUME tagged' = tagged \cap gmail, UNCHANGED <<gmail, known, arrived, behind>>
      PROVE  Goal
  BY <1>0, <1>3
<1>4. ASSUME Arrives PROVE Goal
  <2>1. /\ arrived < MaxRow /\ arrived' = arrived + 1 /\ known' = known \cup {arrived + 1}
        /\ \/ arrived + 1 \in Archived /\ UNCHANGED <<gmail, tagged, behind>>
           \/ /\ arrived + 1 \notin Archived /\ gmail' = gmail \cup {arrived + 1}
              /\ tagged' = tagged \cup {arrived + 1} /\ behind' = behind + 1
    BY <1>4 DEF Arrives
  <2> DEFINE a == arrived + 1
  <2>2. a \notin gmail \cup tagged \cup known /\ MaxRow \in Nat /\ First \in 0..MaxRow
    BY <1>0, ListAssumption
  <2>3. a \in 1..MaxRow /\ a \in First..MaxRow /\ \A g \in gmail \cup tagged : g \in Nat /\ g < a
    BY <1>0, <2>1, <2>2
  <2>4. behind' \in Nat
    BY <1>0, <2>1
  <2>5. 1..arrived' = (1..arrived) \cup {a}
    BY <1>0, <2>1
  <2> HIDE DEF a
  <2>6. /\ arrived' = a /\ known' = known \cup {a}
        /\ \/ a \in Archived /\ UNCHANGED <<gmail, tagged>>
           \/ a \notin Archived /\ gmail' = gmail \cup {a} /\ tagged' = tagged \cup {a}
    BY <2>1 DEF a
  <2>7. MailboxType'
    BY <1>0, <2>2, <2>3, <2>4, <2>6
  <2>8. TopTagged'
    BY <1>0, <2>2, <2>3, <2>5, <2>6
  <2> QED
    BY <1>0, <2>6, <2>7, <2>8
<1>5. ASSUME NEW r \in gmail, ArchivedElsewhere(r) PROVE Goal
  <2>1. /\ gmail' = gmail \ {r} /\ tagged' \in {tagged, tagged \ {r}}
        /\ UNCHANGED <<known, arrived, behind>>
    BY <1>5 DEF ArchivedElsewhere
  <2> QED
    BY <1>0, <2>1
<1> QED
  BY <1>1, <1>2, <1>3, <1>4, <1>5, ServerMoves DEF server

\* WalkDone, of a walk w and any mailbox.
Walked(w, G, T, K) ==
  IF w.token = None THEN w.synced = 0
  ELSE /\ {r \in G : r >= w.token} \subseteq T
       /\ w.synced <= Cardinality({r \in K \ Archived : r >= w.token})

LEMMA WalkedGrows ==
  ASSUME NEW w, NEW G, NEW T, NEW K, NEW G2, NEW T2, NEW K2, Walked(w, G, T, K),
         w.synced \in Nat, Numbered(K2), K \subseteq K2,
         \A g \in G2 \ T2 : g \in G \ T
  PROVE  Walked(w, G2, T2, K2)
<1>1. CASE w.token = None
  BY <1>1 DEF Walked
<1>2. CASE w.token # None
  <2> DEFINE A == {r \in K \ Archived : r >= w.token}
             B == {r \in K2 \ Archived : r >= w.token}
  <2>1. A \subseteq B /\ Numbered(B) /\ Numbered(A)
    BY NumberedFacts
  <2>2. Cardinality(A) <= Cardinality(B) /\ Cardinality(A) \in Nat /\ Cardinality(B) \in Nat
    BY <2>1, NumberedFacts, FS_Subset
  <2>3. w.synced <= Cardinality(A) /\ {r \in G : r >= w.token} \subseteq T
    BY <1>2 DEF Walked
  <2>4. w.synced <= Cardinality(B)
    BY <2>2, <2>3
  <2>5. {r \in G2 : r >= w.token} \subseteq T2
    BY <2>3
  <2> QED
    BY <2>4, <2>5 DEF Walked
<1> QED
  BY <1>1, <1>2

(***************************************************************************)
(* 4. Types, and what the outstanding calls fit                            *)
(***************************************************************************)
Walks == [token : Rows \cup {None}, synced : Nat]

Calls == [step : {"none", "page", "backfill", "after"}, view : Views,
          cursor : Rows \cup {None}, stale : BOOLEAN, walk : Walks, target : Number]

LEMMA NoCall ==
  NoMore \in Calls /\ NoMore.walk = FreshWalk /\ FreshWalk \in Walks /\ NoMore.step = "none"
  BY DEF NoMore, FreshWalk, Calls, Walks, Views, Folders, Number, None

LEMMA LoadMoreCall ==
  ASSUME TypeOK, NEW v \in Views, LoadMore(v)
  PROVE  /\ more' \in Calls /\ more'.view = v /\ ~more'.stale /\ more'.step \in {"page", "backfill"}
         /\ more'.step = "backfill" => v = "all"
         /\ more'.walk = FreshWalk \/ more'.walk = backfillCursor
         /\ more'.cursor # None /\ more'.cursor \in {nextCursor, endCursor}
         /\ more' # NoMore /\ autoSyncFailed' \in {FALSE, autoSyncFailed}
<1>1. /\ nextCursor \in Rows \cup {None} /\ endCursor \in Rows \cup {None}
      /\ backfillCursor \in Walks /\ inboxTarget \in Number /\ Unknown \in Number
  BY DEF TypeOK, Walks, inboxTarget, Number
<1>2. ASSUME NEW step \in {"page", "backfill"}, NEW c \in Rows \cup {None}
      PROVE  LET call == Asked(step, v, c) IN
             /\ call \in Calls /\ call.view = v /\ ~call.stale /\ call.step = step
             /\ call.walk = FreshWalk \/ call.walk = backfillCursor
             /\ call.cursor = c /\ call # NoMore
  BY <1>1, NoCall DEF Asked, Calls
<1>3. CASE nextCursor # None /\ more' = Asked("page", v, nextCursor) /\ UNCHANGED autoSyncFailed
  BY <1>1, <1>2, <1>3
<1>4. CASE /\ canBackfill(v) /\ endCursor # None
           /\ more' = Asked("backfill", v, endCursor) /\ autoSyncFailed' = FALSE
  <2>1. v = "all"
    BY <1>4 DEF canBackfill
  <2> DEFINE call == Asked("backfill", v, endCursor)
  <2>2. /\ call \in Calls /\ call.view = v /\ ~call.stale /\ call.step = "backfill"
        /\ call.walk = FreshWalk \/ call.walk = backfillCursor
        /\ call.cursor = endCursor /\ call # NoMore
    BY <1>1, <1>2
  <2> QED
    BY <1>4, <2>1, <2>2
<1> QED
  BY <1>3, <1>4 DEF LoadMore

\* The ways in which the call of load more changes.
LEMMA MoreMoves ==
  ASSUME TypeOK, [Next]_vars
  PROVE  \/ more' \in {more, NoMore, [more EXCEPT !.stale = TRUE]}
         \/ \E v \in Views : LoadMore(v)
         \/ BackfillAnswers
<1> USE DEF vars
<1>1. ASSUME NEW f \in Folders, ToFolder(f) PROVE more' = more \/ \E v \in Views : LoadMore(v)
  BY <1>1 DEF ToFolder, Views
<1>2. ASSUME UserLoadsMore \/ AutoSync PROVE \E v \in Views : LoadMore(v)
  <2>1. CurrentView \in Views
    BY ViewType DEF CurrentView, TypeOK
  <2> QED
    BY <1>2, <2>1 DEF UserLoadsMore, AutoSync
<1>3. ASSUME ToBlank \/ \E r \in requests : FirstPageArrives(r) \/ FirstPageFails(r)
      PROVE  more' \in {more, NoMore, [more EXCEPT !.stale = TRUE]}
  BY <1>3 DEF ToBlank, FirstPageArrives, FirstPageFails, Replace
<1>4. ASSUME MorePage \/ AfterBackfill \/ MoreFails PROVE more' = NoMore
  BY <1>4 DEF MorePage, AfterBackfill, MoreFails
<1>5. ASSUME NEW r, \/ ToSearch(r) \/ DropSuperseded(r) \/ ReconcileArrives(r)
                    \/ ReconcileFails(r) \/ ArchivedElsewhere(r)
      PROVE  more' = more
  BY <1>5 DEF ToSearch, DropSuperseded, ReconcileArrives, ReconcileFails, ArchivedElsewhere
<1>6. ASSUME \/ Reload \/ TimerFires \/ Poll \/ PollArrives \/ PollFails \/ CountArrives
             \/ Reconcile \/ Arrives \/ UNCHANGED vars
      PROVE  more' = more
  BY <1>6 DEF Reload, TimerFires, Poll, PollArrives, PollFails, CountArrives, Reconcile, Arrives
<1> QED
  BY <1>1, <1>2, <1>3, <1>4, <1>5, <1>6 DEF Next, User, Answers, Mailbox

LEMMA CallStep ==
  ASSUME TypeOK, MailboxStored, [Next]_vars
  PROVE  more' \in Calls
<1>1. more \in Calls
  BY DEF TypeOK, Calls, Walks
<1>2. [more EXCEPT !.stale = TRUE] \in Calls
  BY <1>1 DEF Calls
<1>3. Synced \in Calls
  BY <1>1, NoCall DEF Synced, Calls, Number
<1>4. BackfillAnswers => more' \in {NoMore, Synced}
  BY DEF BackfillAnswers
<1> QED
  BY <1>1, <1>2, <1>3, <1>4, NoCall, MoreMoves, LoadMoreCall

\* A batch leaves the walk where everything down to its token has been stored.
LEMMA BatchWalked ==
  ASSUME TypeOK, MailboxStored, BackfillAnswers
  PROVE  /\ backfillCursor' \in Walks
         /\ Walked(backfillCursor', gmail', tagged', known')
<1> DEFINE w    == more.walk
           refs == Batch.refs
           low  == Min(refs)
<1>0. /\ w.token \in Rows \cup {None} /\ w.synced \in Nat
      /\ gmail \subseteq tagged \cup (Rows \ known)
      /\ gmail \cup tagged \subseteq (1..arrived) \ Archived /\ known \subseteq 1..arrived
      /\ arrived \in Nat /\ tagged \subseteq known /\ known \subseteq Rows
  BY ListAssumption DEF TypeOK, MailboxStored
<1>1. CASE Batch.done
  <2>1. backfillCursor' = FreshWalk
    BY <1>1 DEF BackfillAnswers
  <2> QED
    BY <2>1, NoCall DEF Walked, FreshWalk
<1>2. CASE ~Batch.done
  <2>1. /\ refs \subseteq Ahead /\ Numbered(refs) /\ Ahead \subseteq gmail
        /\ Batch.synced = w.synced + Cardinality(refs) /\ Batch.synced \in Nat
        /\ \A r \in refs, g \in Ahead \ refs : g < r
        /\ refs # {}
    BY <1>2, BatchRows
  <2>2. backfillCursor' = [token |-> low, synced |-> Batch.synced]
    BY <1>2 DEF BackfillAnswers
  <2>3. UNCHANGED gmail /\ tagged' = tagged \cup refs /\ known' = known \cup refs
    BY DEF BackfillAnswers, Stores
  <2>4. low \in refs /\ \A r \in refs : low <= r
    BY <2>1, MinRow
  <2> HIDE DEF low, refs
  <2>5. low \in Rows /\ low # None /\ low \in Nat
    <3>1. low \in Rows
      BY <1>0, <2>1, <2>4
    <3> QED
      BY <3>1 DEF Rows, None
  <2>6. w.token # None => {r \in gmail : r >= w.token} \subseteq tagged
                          /\ w.synced <= Cardinality({r \in known \ Archived : r >= w.token})
    BY DEF MailboxStored, WalkDone
  <2>7. {r \in gmail' : r >= low} \subseteq tagged'
    <3> SUFFICES ASSUME NEW g \in gmail, g >= low, g \notin tagged, g \notin refs PROVE FALSE
      BY <2>3
    <3>1. g \in Nat /\ low \in Nat
      BY <1>0, <2>5 DEF Rows
    <3>2. g \in Ahead
      BY <1>0, <2>6, <3>1 DEF Ahead, Rows, None
    <3> QED
      BY <2>1, <2>4, <3>1, <3>2
  <2> DEFINE A == {r \in known \ Archived : w.token # None /\ r >= w.token}
             B == {r \in known' \ Archived : r >= low}
  <2>8. w.synced <= Cardinality(A) /\ Cardinality(A) \in Nat /\ Numbered(A)
    <3>1. Numbered(A)
      BY <1>0 DEF Numbered
    <3>2. w.token # None => A = {r \in known \ Archived : r >= w.token}
      OBVIOUS
    <3>3. w.token = None => w.synced = 0
      BY DEF MailboxStored, WalkDone
    <3>4. Cardinality(A) \in Nat
      BY <3>1, NumberedFacts
    <3> HIDE DEF A
    <3> QED
      BY <1>0, <2>6, <3>1, <3>2, <3>3, <3>4
  <2>9. A \cap refs = {} /\ A \cup refs \subseteq B /\ Numbered(B)
    <3>1. refs \subseteq (1..arrived) \ Archived /\ \A r \in refs : r \in Ahead
      BY <1>0, <2>1
    <3>2. \A r \in refs, a \in A : r \in Nat /\ a \in Nat /\ r < a
      <4> SUFFICES ASSUME NEW r \in refs, NEW a \in A PROVE r \in Nat /\ a \in Nat /\ r < a
        OBVIOUS
      <4>1. r \in Nat /\ a \in Nat /\ w.token # None /\ a >= w.token
        BY <1>0, <3>1
      <4>2. r < w.token /\ w.token \in Nat
        BY <1>0, <3>1, <4>1 DEF Ahead, Rows
      <4> QED
        BY <4>1, <4>2
    <3>3. Numbered(B)
      BY <1>0, <2>3, <3>1 DEF Numbered
    <3>4. A \cup refs \subseteq B
      <4>1. \A a \in A : a \in B
        BY <2>3, <2>4, <2>5, <3>2
      <4>2. \A r \in refs : r \in B
        BY <2>3, <2>4, <2>5, <3>1
      <4> QED
        BY <4>1, <4>2
    <3>5. A \cap refs = {}
      <4> SUFFICES ASSUME NEW x \in A, x \in refs PROVE FALSE
        OBVIOUS
      <4>1. x \in Nat /\ x < x
        BY <3>2
      <4> QED
        BY <4>1
    <3> QED
      BY <3>3, <3>4, <3>5
  <2>10. Batch.synced <= Cardinality(B)
    <3>1. IsFiniteSet(A) /\ IsFiniteSet(refs) /\ IsFiniteSet(B) /\ Cardinality(refs) \in Nat
      BY <2>1, <2>8, <2>9, NumberedFacts
    <3> HIDE DEF A, B
    <3>2. Cardinality(A \cup refs) = Cardinality(A) + Cardinality(refs)
      BY <2>9, <3>1, DisjointUnion
    <3>3. Cardinality(A \cup refs) <= Cardinality(B) /\ Cardinality(B) \in Nat
      BY <2>9, <3>1, FS_Subset, FS_CardinalityType
    <3> QED
      BY <1>0, <2>1, <2>8, <3>1, <3>2, <3>3
  <2>11. backfillCursor' \in Walks
    BY <2>1, <2>2, <2>5 DEF Walks
  <2>12. Walked(backfillCursor', gmail', tagged', known')
    BY <2>2, <2>5, <2>7, <2>10 DEF Walked
  <2> QED
    BY <2>11, <2>12
<1> QED
  BY <1>1, <1>2

ScreenType ==
  /\ filter \in Folders /\ query \in (Views \ Folders) \cup {"off"}
  /\ messages \in Seq(known)
  /\ nextCursor \in known \cup {None} /\ endCursor \in known \cup {None}
  /\ backfillCursor \in Walks
  /\ labelTotal \in Number /\ inboxLiveCount \in Number
  /\ reqId \in 1..MaxRequests /\ reconciling \subseteq 1..reqId
  /\ requests \subseteq [id : 1..reqId, view : Views]
  /\ polling \in {"none", filter} /\ base \in Views \cup {"none"}
  /\ {backfillExhausted, autoSyncFailed, loading, timer, countAsked, reconciled, mixed,
      shifted, outran} \subseteq BOOLEAN

\* A request for the first page of v: its number is new.
LEMMA FirstPageCall ==
  ASSUME TypeOK, NEW v \in Views, LoadFirstPage(v)
  PROVE  /\ reqId' \in 1..MaxRequests /\ reqId' = reqId + 1 /\ loading' = TRUE
         /\ requests' \subseteq [id : 1..reqId', view : Views]
         /\ reconciling \subseteq 1..reqId' /\ reqId' \in 1..reqId'
         /\ \A r \in requests' : r.id = reqId' => r.view = v
<1> DEFINE new == [id |-> reqId + 1, view |-> v]
<1>1. /\ reqId < MaxRequests /\ reqId' = reqId + 1 /\ loading' = TRUE
      /\ requests' = requests \cup {new}
  BY DEF LoadFirstPage
<1>2. /\ reqId \in Nat /\ reqId >= 1 /\ reconciling \subseteq 1..reqId
      /\ \A r \in requests : r \in [id : 1..reqId, view : Views]
  BY DEF TypeOK
<1>3. reqId' \in 1..MaxRequests /\ reqId' \in 1..reqId' /\ 1..reqId \subseteq 1..reqId'
  BY <1>1, <1>2, SizesPositive
<1>4. \A r \in requests : r \in [id : 1..reqId', view : Views] /\ r.id # reqId'
  BY <1>1, <1>2, <1>3
<1>5. new \in [id : 1..reqId', view : Views] /\ new.view = v
  BY <1>1, <1>3
<1> QED
  BY <1>1, <1>2, <1>3, <1>4, <1>5

LEMMA CountType ==
  ASSUME TypeOK, MailboxStored
  PROVE  Cardinality(gmail) \in Number
<1>1. Numbered(gmail)
  <2>1. arrived \in Nat /\ gmail \subseteq 1..arrived
    BY ListAssumption DEF TypeOK, MailboxStored
  <2> QED
    BY <2>1 DEF Numbered
<1> QED
  BY <1>1, NumberedFacts DEF Number

LEMMA PageCall ==
  ASSUME TypeOK, NEW v \in Views \ {"blank"}, NEW cursor
  PROVE  LET page == PageOf(v, cursor) IN
         /\ page.rows \in Seq(known) /\ messages \o page.rows \in Seq(known)
         /\ page.next \in known \cup {None} /\ page.end \in known \cup {None}
<1>1. Numbered(known) /\ tagged \subseteq known /\ messages \in Seq(known)
  BY SizesPositive DEF TypeOK, Rows, Numbered
<1> QED
  BY <1>1, PageFits

LEMMA ScreenStep ==
  ASSUME TypeOK, MailboxStored, RequestsFit, [Next]_vars
  PROVE  ScreenType'
<1>0. ScreenType /\ more \in Calls /\ known \subseteq known'
  BY MailboxStep DEF TypeOK, ScreenType, Calls, Walks
<1>1. /\ messages \in Seq(known') /\ nextCursor \in known' \cup {None}
      /\ endCursor \in known' \cup {None}
  BY <1>0 DEF ScreenType
<1>2. CurrentView \in Views
  BY <1>0, ViewType DEF CurrentView, ScreenType
<1> USE DEF list, walk, counts, recon, ghosts, vars
<1>3. ASSUME NEW f \in Folders, ToFolder(f) PROVE ScreenType'
  <2>1. LoadFirstPage(f) /\ f \in Views
    BY <1>3 DEF ToFolder, Views
  <2>2. autoSyncFailed' \in BOOLEAN
    BY <1>0, <1>3, <2>1, LoadMoreCall DEF ToFolder, ScreenType
  <2>3. reconciled' \in BOOLEAN /\ reconciling' \subseteq 1..reqId'
    BY <1>3, <2>1, FirstPageCall DEF ToFolder, ReconcileAtSwitch
  <2>4. countAsked' \in BOOLEAN
    BY <1>0, <1>3 DEF ToFolder, ScreenType
  <2> QED
    BY <1>0, <1>1, <1>3, <2>1, <2>2, <2>3, <2>4, FirstPageCall DEF ToFolder, ScreenType
<1>4. ASSUME NEW q \in Lookups \cup Questions, ToSearch(q) PROVE ScreenType'
  BY <1>0, <1>1, <1>4, ViewsApart DEF ToSearch, ScreenType, Views
<1>5. ASSUME ToBlank PROVE ScreenType'
  <2>1. reqId' \in 1..MaxRequests /\ 1..reqId \subseteq 1..reqId'
    BY <1>0, <1>5, SizesPositive DEF ToBlank, ScreenType
  <2>2. "blank" \in Views \ Folders
    BY DEF Views, Folders
  <2>3. <<>> \in Seq(known')
    OBVIOUS
  <2> QED
    BY <1>0, <1>1, <1>5, <2>1, <2>2, <2>3 DEF ToBlank, Replace, ScreenType
<1>6. ASSUME Reload \/ TimerFires PROVE ScreenType'
  <2>1. LoadFirstPage(CurrentView) /\ reconciled' \in {reconciled, FALSE}
    BY <1>6 DEF Reload, TimerFires
  <2> QED
    BY <1>0, <1>1, <1>2, <1>6, <2>1, FirstPageCall DEF Reload, TimerFires, ScreenType
<1>7. ASSUME UserLoadsMore \/ AutoSync PROVE ScreenType'
  <2>1. autoSyncFailed' \in {FALSE, autoSyncFailed}
    BY <1>2, <1>7, LoadMoreCall DEF UserLoadsMore, AutoSync
  <2> QED
    BY <1>0, <1>1, <1>7, <2>1 DEF UserLoadsMore, AutoSync, ScreenType
<1>8. ASSUME NEW r \in requests, FirstPageArrives(r) PROVE ScreenType'
  <2>1. r.view \in Views \ {"blank"}
    BY <1>0, <1>8 DEF FirstPageArrives, ScreenType
  <2> DEFINE page == PageOf(r.view, None)
  <2>2. /\ page.rows \in Seq(known)
        /\ page.next \in known \cup {None} /\ page.end \in known \cup {None}
    BY <2>1, PageCall
  <2>3. /\ messages' = page.rows /\ nextCursor' = page.next /\ endCursor' = page.end
        /\ base' = r.view /\ mixed' = FALSE /\ shifted' = FALSE /\ outran' = FALSE
        /\ backfillCursor' = FreshWalk /\ UNCHANGED known
    BY <1>8 DEF FirstPageArrives, Replace, server
  <2> HIDE DEF page
  <2> QED
    BY <1>0, <1>8, <2>1, <2>2, <2>3, NoCall DEF FirstPageArrives, ScreenType
<1>9. ASSUME NEW r \in requests, FirstPageFails(r) PROVE ScreenType'
  <2>1. r.view \in Views
    BY <1>0 DEF ScreenType
  <2>2. <<>> \in Seq(known')
    OBVIOUS
  <2> QED
    BY <1>0, <1>1, <1>9, <2>1, <2>2 DEF FirstPageFails, Replace, ScreenType
<1>10. ASSUME NEW r \in requests, DropSuperseded(r) PROVE ScreenType'
  BY <1>0, <1>1, <1>10 DEF DropSuperseded, ScreenType
<1>11. ASSUME MorePage \/ AfterBackfill PROVE ScreenType'
  <2> DEFINE page == PageOf(more.view, more.cursor)
  <2>1. more.view \in Views \ {"blank"}
    <3>1. AfterBackfill => more.view = "all"
      BY DEF AfterBackfill, RequestsFit
    <3> QED
      BY <1>0, <1>11, <3>1 DEF MorePage, Calls
  <2>2. /\ messages \o page.rows \in Seq(known)
        /\ page.next \in known \cup {None} /\ page.end \in known \cup {None}
    BY <2>1, PageCall
  <2>3. /\ messages' = messages \o page.rows /\ nextCursor' = page.next
        /\ endCursor' \in {endCursor, page.end} /\ mixed' = (mixed \/ more.stale)
        /\ UNCHANGED <<known, filter, query, walk, counts, loading, reqId, timer,
                       requests, polling, recon, base, shifted, outran>>
    BY <1>11 DEF MorePage, AfterBackfill, Append2List, server
  <2> HIDE DEF page
  <2> QED
    BY <1>0, <1>1, <2>2, <2>3 DEF ScreenType
<1>12. ASSUME BackfillAnswers PROVE ScreenType'
  <2>1. backfillCursor' \in Walks /\ backfillExhausted' \in BOOLEAN /\ shifted' \in BOOLEAN
    BY <1>12, BatchWalked DEF BackfillAnswers, Stores
  <2> QED
    BY <1>0, <1>1, <1>12, <2>1 DEF BackfillAnswers, Stores, ScreenType
<1>13. ASSUME MoreFails PROVE ScreenType'
  <2>1. autoSyncFailed' \in BOOLEAN
    BY <1>13 DEF MoreFails
  <2>2. shifted' \in BOOLEAN /\ UNCHANGED <<base, mixed, outran>>
    BY <1>0, <1>13 DEF MoreFails, Stores, ScreenType
  <2> QED
    BY <1>0, <1>1, <1>13, <2>1, <2>2 DEF MoreFails, ScreenType
<1>14. ASSUME PollArrives PROVE ScreenType'
  <2> DEFINE rows == Range(PageOf(polling, None).rows) \ Range(messages)
  <2>1. polling \in Views \ {"blank"} /\ Numbered(known)
    BY <1>0, <1>14, SizesPositive
       DEF PollArrives, ScreenType, Views, Folders, TypeOK, Rows, Numbered
  <2>2. PageOf(polling, None).rows \in Seq(known)
    BY <2>1, PageCall
  <2>3. rows \subseteq known
    BY <2>2 DEF Range
  <2>4. Descending(rows) \in Seq(known)
    <3>1. Numbered(rows)
      BY <2>1, <2>3, NumberedFacts
    <3>2. Descending(rows) \in Seq(rows)
      BY <3>1, DescendingRows
    <3> HIDE DEF rows
    <3> QED
      BY <2>3, <3>2
  <2>5. messages' = Descending(rows) \o messages /\ UNCHANGED known
    BY <1>14 DEF PollArrives, server
  <2> HIDE DEF rows
  <2>6. messages' \in Seq(known')
    <3>1. messages \in Seq(known)
      BY <1>0 DEF ScreenType
    <3> QED
      BY <2>4, <2>5, <3>1
  <2>7. outran' \in BOOLEAN
    BY <1>14 DEF PollArrives
  <2>8. /\ polling' = "none"
        /\ UNCHANGED <<server, filter, query, nextCursor, endCursor, walk, counts, loading,
                       reqId, timer, requests, recon, base, mixed, shifted>>
    BY <1>14 DEF PollArrives
  <2> QED
    BY <1>0, <1>1, <2>6, <2>7, <2>8 DEF ScreenType
<1>15. ASSUME Poll \/ PollFails PROVE ScreenType'
  BY <1>0, <1>1, <1>15 DEF Poll, PollFails, ScreenType
<1>22. ASSUME Reconcile PROVE ScreenType'
  <2>1. reqId \in 1..reqId
    BY <1>0 DEF ScreenType
  <2> QED
    BY <1>0, <1>1, <1>22, <2>1 DEF Reconcile, ScreenType
<1>16. ASSUME CountArrives PROVE ScreenType'
  BY <1>0, <1>1, <1>16, CountType DEF CountArrives, ScreenType
<1>17. ASSUME NEW id \in reconciling, ReconcileArrives(id) PROVE ScreenType'
  <2>1. messages' \in Seq(known')
    <3>1. messages' \in {messages, Without(messages, tagged \ gmail)} /\ UNCHANGED known
      BY <1>17 DEF ReconcileArrives
    <3> QED
      BY <1>0, <3>1, WithoutRows DEF ScreenType
  <2>2. inboxLiveCount' \in Number
    BY <1>0, <1>17, CountType DEF ReconcileArrives, ScreenType
  <2>3. shifted' \in BOOLEAN
    BY <1>17 DEF ReconcileArrives
  <2> QED
    BY <1>0, <1>1, <1>17, <2>1, <2>2, <2>3 DEF ReconcileArrives, ScreenType
<1>18. ASSUME NEW id \in reconciling, ReconcileFails(id) PROVE ScreenType'
  BY <1>0, <1>1, <1>18 DEF ReconcileFails, ScreenType
<1>19. ASSUME Arrives PROVE ScreenType'
  BY <1>0, <1>1, <1>19 DEF Arrives, ScreenType
<1>20. ASSUME NEW r \in gmail, ArchivedElsewhere(r) PROVE ScreenType'
  <2>1. shifted' \in BOOLEAN
    BY <1>20 DEF ArchivedElsewhere
  <2> QED
    BY <1>0, <1>1, <1>20, <2>1 DEF ArchivedElsewhere, ScreenType
<1>21. ASSUME UNCHANGED vars PROVE ScreenType'
  BY <1>0, <1>1, <1>21 DEF ScreenType
<1> QED
  BY <1>3, <1>4, <1>5, <1>6, <1>7, <1>8, <1>9, <1>10, <1>11, <1>12, <1>13, <1>14, <1>15,
     <1>16, <1>17, <1>18, <1>19, <1>20, <1>21, <1>22 DEF Next, User, Answers, Mailbox

LEMMA FitStep ==
  ASSUME TypeOK, MailboxStored, RequestsFit, [Next]_vars
  PROVE  RequestsFit'
<1>0. /\ ScreenType /\ more \in Calls /\ reqId \in Nat
      /\ \A r \in requests : r.id \in 1..reqId
  BY DEF TypeOK, ScreenType, Calls, Walks
<1>1. CurrentView \in Views
  BY <1>0, ViewType DEF CurrentView, ScreenType
<1> USE DEF list, walk, counts, recon, ghosts, vars
<1> DEFINE m == [more EXCEPT !.stale = TRUE]
<1>2. m.step = more.step /\ m.view = more.view /\ m.stale
  BY <1>0 DEF Calls
<1>3. ASSUME NEW f \in Folders, ToFolder(f) PROVE RequestsFit'
  <2>1. LoadFirstPage(f) /\ f \in Views /\ timer' = FALSE /\ polling' = "none"
    BY <1>3 DEF ToFolder, Views
  <2>2. CurrentView' = f
    BY <1>3 DEF ToFolder, CurrentView, View
  <2>3. more' = more \/ LoadMore(f)
    BY <1>3 DEF ToFolder
  <2>4. more'.step \in {"backfill", "after"} => more'.view = "all"
    BY <2>1, <2>3, LoadMoreCall DEF RequestsFit
  <2> QED
    BY <2>1, <2>2, <2>4, FirstPageCall DEF RequestsFit
<1>4. ASSUME NEW q \in Lookups \cup Questions, ToSearch(q) PROVE RequestsFit'
  BY <1>4, ViewsApart DEF ToSearch, RequestsFit
<1>5. ASSUME ToBlank PROVE RequestsFit'
  <2>1. /\ timer' = FALSE /\ polling' = "none" /\ reqId' = reqId + 1 /\ requests' = requests
        /\ more' = IF more = NoMore THEN more ELSE m
    BY <1>5 DEF ToBlank, Replace
  <2>2. \A r \in requests : r.id # reqId'
    BY <1>0, <2>1
  <2>3. more'.step \in {"backfill", "after"} => more'.view = "all"
    BY <1>2, <2>1 DEF RequestsFit
  <2>4. loadingMore' => more'.stale
    BY <1>2, <2>1 DEF loadingMore
  <2> QED
    BY <2>1, <2>2, <2>3, <2>4 DEF RequestsFit
<1>6. ASSUME Reload \/ TimerFires PROVE RequestsFit'
  <2>1. LoadFirstPage(CurrentView) /\ UNCHANGED <<filter, query, more, polling>>
    BY <1>6 DEF Reload, TimerFires
  <2>4. timer' => timer
    BY <1>6 DEF Reload, TimerFires
  <2>2. CurrentView' = CurrentView
    BY <2>1 DEF CurrentView
  <2>3. /\ loading' = TRUE
        /\ \A r \in requests' : r.id = reqId' => r.view = CurrentView
    BY <1>1, <2>1, FirstPageCall
  <2> QED
    BY <2>1, <2>2, <2>3, <2>4 DEF RequestsFit
<1>7. ASSUME UserLoadsMore \/ AutoSync PROVE RequestsFit'
  <2>1. /\ LoadMore(CurrentView)
        /\ UNCHANGED <<filter, query, loading, reqId, timer, requests, polling>>
    BY <1>7 DEF UserLoadsMore, AutoSync
  <2>2. CurrentView' = CurrentView
    BY <2>1 DEF CurrentView
  <2>3. /\ more'.view = CurrentView
        /\ more'.step \in {"backfill", "after"} => more'.view = "all"
    BY <1>1, <2>1, LoadMoreCall
  <2> QED
    BY <2>1, <2>2, <2>3 DEF RequestsFit
<1>8. ASSUME NEW r \in requests, FirstPageArrives(r) \/ FirstPageFails(r) PROVE RequestsFit'
  <2>1. /\ requests' = requests \ {r} /\ UNCHANGED <<filter, query, reqId, timer, polling>>
        /\ more' = IF more = NoMore THEN more ELSE m
    BY <1>8 DEF FirstPageArrives, FirstPageFails, Replace
  <2>2. CurrentView' = CurrentView
    BY <2>1 DEF CurrentView
  <2>3. more'.step \in {"backfill", "after"} => more'.view = "all"
    BY <1>2, <2>1 DEF RequestsFit
  <2>4. loadingMore' => more'.stale
    BY <1>2, <2>1 DEF loadingMore
  <2> QED
    BY <2>1, <2>2, <2>3, <2>4 DEF RequestsFit
<1>9. ASSUME \/ MorePage \/ AfterBackfill \/ MoreFails PROVE RequestsFit'
  <2>1. more' = NoMore /\ UNCHANGED <<filter, query, reqId, timer, requests, polling>>
    BY <1>9 DEF MorePage, AfterBackfill, MoreFails
  <2>2. CurrentView' = CurrentView /\ ~loadingMore' /\ more'.step = "none"
    BY <2>1, NoCall DEF CurrentView, loadingMore
  <2> QED
    BY <2>1, <2>2 DEF RequestsFit
<1>10. ASSUME BackfillAnswers PROVE RequestsFit'
  <2>1. /\ more' \in {NoMore, Synced} /\ more.step = "backfill"
        /\ UNCHANGED <<filter, query, loading, reqId, timer, requests, polling>>
    BY <1>10 DEF BackfillAnswers
  <2>2. CurrentView' = CurrentView /\ more # NoMore
    BY <2>1, NoCall DEF CurrentView
  <2>3. Synced.view = more.view /\ Synced.stale = more.stale
    BY <1>0 DEF Synced, Calls
  <2>4. more'.step \in {"backfill", "after"} => more'.view = "all"
    BY <2>1, <2>3, NoCall DEF RequestsFit
  <2>5. loadingMore' => more'.view = more.view /\ more'.stale = more.stale /\ loadingMore
    BY <2>1, <2>2, <2>3 DEF loadingMore
  <2> QED
    BY <2>1, <2>2, <2>4, <2>5 DEF RequestsFit
<1>11. ASSUME NEW r, \/ DropSuperseded(r) \/ ReconcileArrives(r)
                     \/ ReconcileFails(r) \/ ArchivedElsewhere(r)
       PROVE  RequestsFit'
  <2>1. /\ requests' \subseteq requests
        /\ UNCHANGED <<filter, query, loading, reqId, timer, more, polling>>
    BY <1>11 DEF DropSuperseded, ReconcileArrives, ReconcileFails, ArchivedElsewhere
  <2>2. CurrentView' = CurrentView /\ (loadingMore' <=> loadingMore)
    BY <2>1 DEF CurrentView, loadingMore
  <2> QED
    BY <2>1, <2>2 DEF RequestsFit
<1>12. ASSUME \/ Poll \/ PollArrives \/ PollFails \/ CountArrives \/ Reconcile \/ Arrives
              \/ UNCHANGED vars
       PROVE  RequestsFit'
  <2>1. /\ UNCHANGED <<filter, query, loading, reqId, timer, more, requests>>
        /\ polling' # "none" => polling' = polling \/ query = "off"
    BY <1>12 DEF Poll, PollArrives, PollFails, CountArrives, Reconcile, Arrives
  <2>2. CurrentView' = CurrentView /\ (loadingMore' <=> loadingMore)
    BY <2>1 DEF CurrentView, loadingMore
  <2> QED
    BY <2>1, <2>2 DEF RequestsFit
<1> QED
  BY <1>3, <1>4, <1>5, <1>6, <1>7, <1>8, <1>9, <1>10, <1>11, <1>12
     DEF Next, User, Answers, Mailbox

LEMMA StoredStep ==
  ASSUME TypeOK, MailboxStored, [Next]_vars
  PROVE  MailboxStored'
<1>1. /\ known \subseteq known' /\ Numbered(known') /\ TopTagged'
      /\ \A g \in gmail' \ tagged' : g \in gmail \ tagged
  <2>1. MailboxType' /\ TopTagged' /\ known \subseteq known'
    BY MailboxStep
  <2>2. known' \subseteq 1..MaxRow
    BY <2>1 DEF MailboxType, Rows
  <2> QED
    BY <2>1, <2>2, MailboxStep, SizesPositive DEF Numbered
<1>2. \A w \in Walks : Walked(w, gmail, tagged, known) => Walked(w, gmail', tagged', known')
  <2> SUFFICES ASSUME NEW w \in Walks, Walked(w, gmail, tagged, known)
               PROVE  Walked(w, gmail', tagged', known')
    OBVIOUS
  <2>1. w.synced \in Nat
    BY DEF Walks
  <2> QED
    BY <1>1, <2>1, WalkedGrows
<1>3. /\ more \in Calls /\ backfillCursor \in Walks /\ more.walk \in Walks
      /\ Walked(backfillCursor, gmail, tagged, known) /\ Walked(more.walk, gmail, tagged, known)
  BY DEF TypeOK, Calls, Walks, MailboxStored, WalkDone, Walked
<1>4. Walked(FreshWalk, gmail', tagged', known')
  BY DEF Walked, FreshWalk
<1>5. Walked(more'.walk, gmail', tagged', known')
  <2>1. CASE more' \in {more, NoMore, [more EXCEPT !.stale = TRUE]}
    <3>1. more'.walk \in {more.walk, FreshWalk}
      BY <1>3, <2>1, NoCall DEF Calls
    <3> QED
      BY <1>2, <1>3, <1>4, <3>1
  <2>2. ASSUME NEW v \in Views, LoadMore(v) PROVE Walked(more'.walk, gmail', tagged', known')
    BY <1>2, <1>3, <1>4, <2>2, LoadMoreCall
  <2>3. CASE BackfillAnswers
    <3>1. more' \in {NoMore, Synced}
      BY <2>3 DEF BackfillAnswers
    <3>2. more'.walk = FreshWalk
      BY <1>3, <3>1, NoCall DEF Synced, Calls
    <3> QED
      BY <1>4, <3>2
  <2> QED
    BY <2>1, <2>2, <2>3, MoreMoves
<1>6. Walked(backfillCursor', gmail', tagged', known')
  <2>1. CASE BackfillAnswers
    BY <2>1, BatchWalked
  <2>2. CASE ~BackfillAnswers
    <3>1. backfillCursor' \in {backfillCursor, FreshWalk}
      <4> USE DEF vars, walk
      <4>1. ASSUME NEW r, \/ ToFolder(r) \/ ToSearch(r) \/ FirstPageArrives(r)
                          \/ FirstPageFails(r) \/ DropSuperseded(r) \/ ReconcileArrives(r)
                          \/ ReconcileFails(r) \/ ArchivedElsewhere(r)
            PROVE  backfillCursor' \in {backfillCursor, FreshWalk}
        BY <4>1 DEF ToFolder, ToSearch, FirstPageArrives, FirstPageFails, DropSuperseded,
                    ReconcileArrives, ReconcileFails, ArchivedElsewhere
      <4>2. ASSUME \/ ToBlank \/ Reload \/ UserLoadsMore \/ MorePage \/ AfterBackfill \/ MoreFails
                   \/ PollArrives \/ PollFails \/ CountArrives \/ Arrives \/ AutoSync
                   \/ TimerFires \/ Poll \/ Reconcile \/ UNCHANGED vars
            PROVE  backfillCursor' = backfillCursor
        BY <4>2 DEF ToBlank, Reload, UserLoadsMore, MorePage, AfterBackfill, MoreFails,
                    PollArrives, PollFails, CountArrives, Arrives, AutoSync, TimerFires, Poll,
                    Reconcile
      <4> QED
        BY <2>2, <4>1, <4>2 DEF Next, User, Answers, Mailbox
    <3> QED
      BY <1>2, <1>3, <1>4, <3>1
  <2> QED
    BY <2>1, <2>2
<1> QED
  BY <1>1, <1>5, <1>6 DEF MailboxStored, TopTagged, WalkDone, Walked

ListInv == TypeOK /\ MailboxStored /\ RequestsFit

LEMMA ListInit ==
  Init => ListInv
<1> SUFFICES ASSUME Init PROVE ListInv
  OBVIOUS
<1>1. /\ First \in Nat /\ First <= MaxRow /\ MaxRow \in Nat /\ Seed \in Nat
      /\ Archived \subseteq Rows
  BY ListAssumption
<1>2. gmail \subseteq 1..First /\ Numbered(gmail) /\ 1..First \subseteq Rows
  <2>1. gmail \subseteq 1..First
    BY DEF Init
  <2>2. 1..First \subseteq Rows
    BY <1>1 DEF Rows
  <2> QED
    BY <1>1, <2>1, <2>2 DEF Numbered
<1>3. /\ tagged \subseteq gmail
      /\ \A r \in tagged, s \in gmail \ tagged : s < r
  <2>1. tagged = Newest(gmail, Seed)
    BY DEF Init
  <2> QED
    BY <1>1, <1>2, <2>1, NewestRows
<1>4. /\ known \subseteq 1..First /\ tagged \subseteq known
      /\ gmail \subseteq tagged \cup (Rows \ known)
  BY <1>2, <1>3 DEF Init
<1>5. 1 \in 1..MaxRequests /\ 1 \in 1..1 /\ Unknown \in Number
  BY SizesPositive DEF Number
<1>6. TypeOK
  <2>1. MailboxType
    <3>1. arrived = First /\ behind = 0 /\ First \in First..MaxRow
      BY <1>1 DEF Init
    <3> QED
      BY <1>2, <1>4, <3>1 DEF MailboxType
  <2>2. "all" \in Folders /\ "all" \in Views
    BY DEF Folders, Views
  <2>3. ScreenType
    <3>1. <<>> \in Seq(known)
      OBVIOUS
    <3>2. [id |-> 1, view |-> "all"] \in [id : 1..1, view : Views]
      BY <1>5, <2>2
    <3>3. query = "off" /\ polling = "none" /\ base = "none" /\ filter = "all"
      BY DEF Init
    <3> QED
      BY <1>5, <2>2, <3>1, <3>2, <3>3, NoCall DEF Init, ScreenType
  <2>4. more \in Calls
    BY NoCall DEF Init
  <2> QED
    BY <2>1, <2>3, <2>4 DEF TypeOK, MailboxType, ScreenType, Calls, Walks
<1>7. MailboxStored
  <2>1. WalkDone(backfillCursor) /\ WalkDone(more.walk)
    BY NoCall DEF Init, WalkDone, FreshWalk
  <2> QED
    BY <1>2, <1>3, <1>4, <2>1 DEF Init, MailboxStored
<1>8. RequestsFit
  BY NoCall DEF Init, RequestsFit, CurrentView, View, loadingMore
<1> QED
  BY <1>6, <1>7, <1>8 DEF ListInv

LEMMA ListStep ==
  ListInv /\ [Next]_vars => ListInv'
<1> SUFFICES ASSUME ListInv, [Next]_vars PROVE ListInv'
  OBVIOUS
<1>1. TypeOK /\ MailboxStored /\ RequestsFit
  BY DEF ListInv
<1>2. MailboxType' /\ ScreenType' /\ more' \in Calls
  BY <1>1, MailboxStep, ScreenStep, CallStep
<1>3. TypeOK'
  BY <1>2 DEF TypeOK, MailboxType, ScreenType, Calls, Walks
<1> QED
  BY <1>1, <1>3, StoredStep, FitStep DEF ListInv

\* TypeOK: the list holds rows of the database, every cursor is the number of a row
\* that is there, and a message of Gmail's inbox that is not in the list routes' inbox
\* is not in the database at all.
THEOREM TypeSafe == Spec => []TypeOK
<1>1. Spec => []ListInv
  BY ListInit, ListStep, PTL DEF Spec
<1>2. ListInv => TypeOK
  BY DEF ListInv
<1> QED
  BY <1>1, <1>2, PTL

(***************************************************************************)
(* 5. The walk through Gmail's inbox                                       *)
(***************************************************************************)
LEMMA LastBatch ==
  ASSUME TypeOK, MailboxStored, BackfillAnswers, Batch.done,
         NEW g \in gmail, g \in Newest(gmail \cup (known \ Archived), MaxSynced(more.target))
  PROVE  g \in tagged'
<1> DEFINE w    == more.walk
           refs == Batch.refs
           max  == MaxSynced(more.target)
           U    == gmail \cup (known \ Archived)
           A    == {r \in known \ Archived : w.token # None /\ r >= w.token}
<1>0. /\ w.token \in Rows \cup {None} /\ w.synced \in Nat /\ more.target \in Number
      /\ gmail \subseteq (1..arrived) \ Archived /\ known \subseteq 1..arrived /\ arrived \in Nat
  BY ListAssumption DEF TypeOK, MailboxStored
<1>1. tagged' = tagged \cup refs
  BY DEF BackfillAnswers, Stores
<1>2. /\ refs \subseteq Ahead /\ Numbered(refs) /\ Ahead \subseteq gmail
      /\ Batch.synced = w.synced + Cardinality(refs) /\ Batch.synced \in Nat
      /\ \A r \in refs, s \in Ahead \ refs : s < r
      /\ Batch.synced >= max \/ refs = Ahead
  BY BatchRows
<1> HIDE DEF refs
<1>3. SUFFICES ASSUME g \notin tagged, g \notin refs PROVE FALSE
  BY <1>1
<1>4. g \in Ahead
  <2>1. w.token # None => {r \in gmail : r >= w.token} \subseteq tagged
    BY DEF MailboxStored, WalkDone
  <2> QED
    BY <1>0, <1>3, <2>1 DEF Ahead, Rows, None
<1>5. Batch.synced >= max
  BY <1>2, <1>3, <1>4
<1>6. Numbered(U) /\ Numbered(A)
  BY <1>0 DEF Numbered
<1>7. w.synced <= Cardinality(A) /\ Cardinality(A) \in Nat
  <2>1. IF w.token = None THEN w.synced = 0
        ELSE w.synced <= Cardinality({r \in known \ Archived : r >= w.token})
    BY DEF MailboxStored, WalkDone
  <2>2. w.token # None => A = {r \in known \ Archived : r >= w.token}
    OBVIOUS
  <2>3. Cardinality(A) \in Nat
    BY <1>6, NumberedFacts
  <2> HIDE DEF A
  <2> QED
    BY <1>0, <2>1, <2>2, <2>3
<1>8. A \cup refs \subseteq Above(U, g) /\ A \cap refs = {}
  <2>1. \A r \in refs : r \in U /\ r > g /\ r \in Nat
    BY <1>0, <1>2, <1>3, <1>4
  <2>2. \A a \in A : a \in U /\ a \in Nat /\ w.token \in Nat /\ a >= w.token
    <3> SUFFICES ASSUME NEW a \in A
                 PROVE  a \in U /\ a \in Nat /\ w.token \in Nat /\ a >= w.token
      OBVIOUS
    <3>1. a \in known \ Archived /\ w.token # None /\ a >= w.token
      OBVIOUS
    <3>2. w.token \in Nat
      BY <1>0, <3>1 DEF Rows
    <3> QED
      BY <1>0, <3>1, <3>2
  <2>3. \A r \in Ahead : A # {} => r < w.token /\ r \in Nat
    <3>1. A # {} => w.token # None
      OBVIOUS
    <3>2. \A r \in Ahead : r \in Nat
      BY <1>0, <1>2
    <3> QED
      BY <3>1, <3>2 DEF Ahead
  <2>4. \A a \in A : a > g
    BY <1>0, <1>4, <2>2, <2>3
  <2>5. \A a \in A, r \in refs : r < a
    BY <1>2, <2>1, <2>2, <2>3
  <2>6. A \cup refs \subseteq Above(U, g)
    BY <2>1, <2>2, <2>4 DEF Above
  <2> HIDE DEF A
  <2>7. A \cap refs = {}
    <3> SUFFICES ASSUME NEW x \in A, x \in refs PROVE FALSE
      OBVIOUS
    <3>1. x \in Nat /\ x < x
      BY <2>1, <2>5
    <3> QED
      BY <3>1
  <2> QED
    BY <2>6, <2>7
<1> HIDE DEF A, U
<1>9. IsFiniteSet(A) /\ IsFiniteSet(refs) /\ Cardinality(refs) \in Nat
  BY <1>2, <1>6, NumberedFacts
<1>10. IsFiniteSet(Above(U, g)) /\ Cardinality(Above(U, g)) \in Nat
  BY <1>6, AboveType
<1>11. Cardinality(A \cup refs) = Cardinality(A) + Cardinality(refs)
  BY <1>8, <1>9, DisjointUnion
<1>12. Cardinality(A \cup refs) <= Cardinality(Above(U, g))
  BY <1>8, <1>10, FS_Subset
<1>13. Cardinality(Above(U, g)) < max
  BY DEF U, Newest, Above
<1>14. max \in Nat
  BY <1>0, MaxSyncedType
<1> QED
  BY <1>0, <1>2, <1>5, <1>7, <1>9, <1>10, <1>11, <1>12, <1>13, <1>14

\* The walk is taken for exhausted by the answer to a batch and by nothing else.
LEMMA OnlyBatchExhausts ==
  ASSUME Next, ~BackfillAnswers, backfillExhausted'
  PROVE  backfillExhausted
<1> USE DEF vars, walk
<1>1. ASSUME NEW r, \/ ToFolder(r) \/ ToSearch(r) \/ FirstPageArrives(r) \/ FirstPageFails(r)
                    \/ DropSuperseded(r) \/ ReconcileArrives(r) \/ ReconcileFails(r)
                    \/ ArchivedElsewhere(r)
      PROVE  backfillExhausted
  BY <1>1 DEF ToFolder, ToSearch, FirstPageArrives, FirstPageFails, DropSuperseded,
              ReconcileArrives, ReconcileFails, ArchivedElsewhere
<1>2. ASSUME \/ ToBlank \/ Reload \/ UserLoadsMore \/ MorePage \/ AfterBackfill \/ MoreFails
             \/ PollArrives \/ PollFails \/ CountArrives \/ Arrives \/ AutoSync
             \/ TimerFires \/ Poll \/ Reconcile
      PROVE  backfillExhausted
  BY <1>2 DEF ToBlank, Reload, UserLoadsMore, MorePage, AfterBackfill, MoreFails, PollArrives,
              PollFails, CountArrives, Arrives, AutoSync, TimerFires, Poll, Reconcile
<1> QED
  BY <1>1, <1>2 DEF Next, User, Answers, Mailbox

\* BackfillReachesTarget: when runBackfill reports the history as exhausted, the newest
\* messages of the inbox, as many as the cap of the last call, have all been stored,
\* whatever arrived, was archived or was counted differently between the calls.
THEOREM BackfillReaches == Spec => BackfillReachesTarget
<1>1. Spec => []ListInv
  BY ListInit, ListStep, PTL DEF Spec
<1> DEFINE Reached ==
      backfillExhausted' /\ ~backfillExhausted
        => gmail \cap Newest(gmail \cup (known \ Archived), MaxSynced(more.target))
             \subseteq tagged'
<1>2. ListInv /\ [Next]_vars => [Reached]_vars
  <2> SUFFICES ASSUME ListInv, Next, backfillExhausted', ~backfillExhausted
               PROVE  gmail \cap Newest(gmail \cup (known \ Archived), MaxSynced(more.target))
                        \subseteq tagged'
    OBVIOUS
  <2>1. BackfillAnswers
    BY OnlyBatchExhausts
  <2>2. Batch.done
    BY <2>1 DEF BackfillAnswers
  <2> QED
    BY <2>1, <2>2, LastBatch DEF ListInv
<1>3. []ListInv /\ [][Next]_vars => [][Reached]_vars
  BY <1>2, PTL
<1> QED
  BY <1>1, <1>3, PTL DEF Spec, BackfillReachesTarget

(***************************************************************************)
(* 6. The list of the view                                                 *)
(***************************************************************************)
LEMMA ListFits ==
  ASSUME TypeOK, MailboxStored, NEW v \in Views \ {"blank"}, NEW cursor
  PROVE  /\ PageOf(v, cursor).rows \in Seq(known)
         /\ Range(PageOf(v, cursor).rows) \subseteq Belongs(v)
<1>1. Numbered(known) /\ tagged \subseteq known
  BY SizesPositive DEF TypeOK, Rows, Numbered
<1>2. tagged \subseteq Rows \ Archived
  BY DEF TypeOK, MailboxStored
<1> QED
  BY <1>1, <1>2, PageFits

LEMMA RangeOfConcat ==
  ASSUME NEW S, NEW s \in Seq(S), NEW t \in Seq(S)
  PROVE  Range(s \o t) \subseteq Range(s) \cup Range(t)
<1>1. /\ Len(s) \in Nat /\ Len(t) \in Nat /\ s \o t \in Seq(S)
      /\ Len(s \o t) = Len(s) + Len(t)
      /\ \A i \in 1..(Len(s) + Len(t)) :
           (s \o t)[i] = IF i <= Len(s) THEN s[i] ELSE t[i - Len(s)]
  BY ConcatProperties
<1>2. DOMAIN (s \o t) = 1..(Len(s) + Len(t)) /\ DOMAIN s = 1..Len(s) /\ DOMAIN t = 1..Len(t)
  BY <1>1
<1> QED
  BY <1>1, <1>2 DEF Range

\* ListOfView, of any list and view.
Fits(b, m, s, v) == b = v /\ (~m => Range(s) \subseteq Belongs(v))

LEMMA ViewStep ==
  ASSUME TypeOK, MailboxStored, RequestsFit, ListOfView, Next, ~loading', ~timer'
  PROVE  Fits(base', mixed', messages', View(filter', query'))
<1> DEFINE Goal == Fits(base', mixed', messages', View(filter', query'))
<1>0. ScreenType /\ more \in Calls
  BY DEF TypeOK, ScreenType, Calls, Walks
<1>1. ~loading /\ ~timer => Fits(base, mixed, messages, View(filter, query))
  BY DEF ListOfView, Fits, CurrentView
<1>2. Range(<<>>) = {}
  BY DEF Range
<1> USE DEF list, walk, counts, recon, ghosts, vars
<1>3. ASSUME UNCHANGED <<filter, query, messages, base, mixed, loading, timer>> PROVE Goal
  BY <1>1, <1>3
<1>4. ASSUME NEW f \in Folders, ToFolder(f) PROVE Goal
  BY <1>4 DEF ToFolder, LoadFirstPage
<1>5. ASSUME NEW q \in Lookups \cup Questions, ToSearch(q) PROVE Goal
  BY <1>5 DEF ToSearch
<1>6. ASSUME ToBlank PROVE Goal
  BY <1>2, <1>6 DEF ToBlank, Replace, Fits, View
<1>7. ASSUME Reload \/ TimerFires PROVE Goal
  BY <1>7 DEF Reload, TimerFires, LoadFirstPage
<1>8. ASSUME NEW r \in requests, FirstPageArrives(r) PROVE Goal
  <2>1. /\ r.view # "blank" /\ r.id = reqId /\ UNCHANGED <<filter, query, timer>>
        /\ messages' = PageOf(r.view, None).rows /\ base' = r.view
    BY <1>8 DEF FirstPageArrives, Wanted, Replace
  <2>2. r.view = View(filter, query) /\ r.view \in Views
    BY <1>0, <2>1 DEF RequestsFit, CurrentView, ScreenType
  <2> QED
    BY <2>1, <2>2, ListFits DEF Fits
<1>9. ASSUME NEW r \in requests, FirstPageFails(r) PROVE Goal
  <2>1. /\ r.id = reqId /\ UNCHANGED <<filter, query, timer>> /\ messages' = <<>> /\ base' = r.view
    BY <1>9 DEF FirstPageFails, Wanted, Replace
  <2>2. r.view = View(filter, query)
    BY <2>1 DEF RequestsFit, CurrentView
  <2> QED
    BY <1>2, <2>1, <2>2 DEF Fits
<1>10. ASSUME MorePage \/ AfterBackfill PROVE Goal
  <2>1. /\ UNCHANGED <<filter, query, loading, timer, base>> /\ mixed' = (mixed \/ more.stale)
        /\ messages' = messages \o PageOf(more.view, more.cursor).rows
        /\ more.step # "none"
    BY <1>10 DEF MorePage, AfterBackfill, Append2List
  <2>2. more.view \in Views \ {"blank"}
    <3>1. AfterBackfill => more.view = "all"
      BY DEF AfterBackfill, RequestsFit
    <3> QED
      BY <1>0, <1>10, <3>1 DEF MorePage, Calls
  <2>3. ~mixed' => ~mixed /\ more.view = View(filter, query)
    <3>1. loadingMore
      BY <2>1, NoCall DEF loadingMore
    <3> QED
      BY <2>1, <3>1 DEF RequestsFit, CurrentView
  <2> DEFINE rows == PageOf(more.view, more.cursor).rows
  <2>4. rows \in Seq(known) /\ messages \in Seq(known) /\ Range(rows) \subseteq Belongs(more.view)
    BY <1>0, <2>2, ListFits DEF ScreenType
  <2> HIDE DEF rows
  <2>5. Range(messages \o rows) \subseteq Range(messages) \cup Range(rows)
    BY <2>4, RangeOfConcat
  <2>6. messages' = messages \o rows
    BY <2>1 DEF rows
  <2> QED
    BY <1>1, <2>1, <2>3, <2>4, <2>5, <2>6 DEF Fits
<1>11. ASSUME BackfillAnswers \/ MoreFails PROVE Goal
  <2>1. UNCHANGED <<filter, query, messages, base, mixed, loading, timer>>
    BY <1>11 DEF BackfillAnswers, MoreFails, Stores
  <2> QED
    BY <1>3, <2>1
<1>12. ASSUME PollArrives PROVE Goal
  <2>1. /\ UNCHANGED <<filter, query, loading, timer, base, mixed>> /\ polling # "none"
        /\ messages' = Descending(Range(PageOf(polling, None).rows) \ Range(messages)) \o messages
    BY <1>12 DEF PollArrives
  <2>2. polling = View(filter, query) /\ polling \in Views \ {"blank"}
    BY <1>0, <2>1 DEF ScreenType, RequestsFit, View, Views, Folders
  <2> DEFINE page == PageOf(polling, None).rows
             new == Range(page) \ Range(messages)
  <2>3. page \in Seq(known) /\ messages \in Seq(known) /\ Range(page) \subseteq Belongs(polling)
    BY <1>0, <2>2, ListFits DEF ScreenType
  <2>4. Numbered(known)
    BY SizesPositive DEF TypeOK, Rows, Numbered
  <2> HIDE DEF page
  <2>5. new \subseteq known
    BY <2>3 DEF Range
  <2>6. Numbered(new)
    BY <2>4, <2>5, NumberedFacts
  <2>7. Descending(new) \in Seq(new) /\ Range(Descending(new)) = new
    BY <2>6, DescendingRows, DescendingRange
  <2>8. new \subseteq Belongs(polling)
    BY <2>3
  <2>9. messages' = Descending(new) \o messages
    BY <2>1 DEF page
  <2> HIDE DEF new
  <2>10. Range(messages') \subseteq new \cup Range(messages)
    <3>1. Descending(new) \in Seq(known)
      BY <2>5, <2>7
    <3> QED
      BY <2>3, <2>7, <2>9, <3>1, RangeOfConcat
  <2> QED
    BY <1>1, <2>1, <2>2, <2>8, <2>10 DEF Fits
<1>13. ASSUME NEW id, ReconcileArrives(id) PROVE Goal
  <2>1. /\ messages' \in {messages, Without(messages, tagged \ gmail)}
        /\ UNCHANGED <<filter, query, loading, timer, base, mixed>>
    BY <1>13 DEF ReconcileArrives
  <2>2. Range(messages') \subseteq Range(messages)
    BY <1>0, <2>1, WithoutRows DEF ScreenType
  <2> QED
    BY <1>1, <2>1, <2>2 DEF Fits
<1>14. ASSUME NEW r, DropSuperseded(r) \/ ReconcileFails(r) \/ ArchivedElsewhere(r) PROVE Goal
  <2>1. UNCHANGED <<filter, query, messages, base, mixed, loading, timer>>
    BY <1>14 DEF DropSuperseded, ReconcileFails, ArchivedElsewhere
  <2> QED
    BY <1>3, <2>1
<1>15. ASSUME \/ UserLoadsMore \/ AutoSync \/ Poll \/ PollFails \/ CountArrives \/ Reconcile
              \/ Arrives
       PROVE  Goal
  <2>1. UNCHANGED <<filter, query, messages, base, mixed, loading, timer>>
    BY <1>15 DEF UserLoadsMore, AutoSync, Poll, PollFails, CountArrives, Reconcile, Arrives
  <2> QED
    BY <1>3, <2>1
<1> HIDE DEF Goal
<1> QED
  BY <1>4, <1>5, <1>6, <1>7, <1>8, <1>9, <1>10, <1>11, <1>12, <1>13, <1>14, <1>15
     DEF Next, User, Answers, Mailbox, Goal

\* ListOfView: whenever nothing is loading, the first page of the list was that of the
\* folder or the search on the screen, however the answers to first pages, polls and
\* reconciliations are ordered; and all its rows belong there, as long as no page that
\* load more asked for in an earlier view has been appended to it (mixed), which nothing
\* in the code prevents (SupersededDiscarded).
THEOREM ViewSafe == Spec => []ListOfView
<1> DEFINE I == ListInv /\ ListOfView
<1>1. Init => I
  <2> SUFFICES ASSUME Init PROVE I
    OBVIOUS
  <2>1. loading
    BY DEF Init
  <2> QED
    BY <2>1, ListInit DEF ListOfView
<1>2. I /\ [Next]_vars => I'
  <2> SUFFICES ASSUME I, [Next]_vars PROVE I'
    OBVIOUS
  <2>1. ListInv'
    BY ListStep
  <2>2. CASE UNCHANGED vars
    <3>1. UNCHANGED <<filter, query, messages, base, mixed, loading, timer>>
      BY <2>2 DEF vars, list, ghosts
    <3>2. ListOfView'
      BY <3>1 DEF ListOfView, CurrentView
    <3> QED
      BY <2>1, <3>2
  <2>3. CASE Next
    <3>1. ~loading' /\ ~timer' => Fits(base', mixed', messages', View(filter', query'))
      BY <2>3, ViewStep DEF ListInv
    <3>2. ListOfView'
      BY <3>1 DEF ListOfView, Fits, CurrentView
    <3> QED
      BY <2>1, <3>2
  <2> QED
    BY <2>2, <2>3
<1>3. I => ListOfView
  OBVIOUS
<1> QED
  BY <1>1, <1>2, <1>3, PTL DEF Spec

(***************************************************************************)
(* 7. The list as a stretch of the inbox                                   *)
(***************************************************************************)
FromIn(T, r) == {s \in T : s >= r}

\* StretchOf, of a list s over any inbox T with b new messages.
StretchIn(s, T, b) ==
  s # <<>> =>
    /\ s = Descending({r \in T : r \in Last(s)..Head(s)})
    /\ Cardinality(FromIn(T, Head(s) + 1)) <= b
    /\ T = FromIn(T, Last(s)) \/ Cardinality(FromIn(T, Last(s))) >= PageSize

LEMMA FromInType ==
  ASSUME NEW T, Numbered(T), NEW r
  PROVE  /\ FromIn(T, r) \subseteq T /\ Numbered(FromIn(T, r)) /\ IsFiniteSet(FromIn(T, r))
         /\ Cardinality(FromIn(T, r)) \in Nat
<1>1. FromIn(T, r) \subseteq T
  BY DEF FromIn
<1> QED
  BY <1>1, NumberedFacts

LEMMA FromInOrder ==
  ASSUME NEW T, NEW T2, Numbered(T2), T \subseteq T2, NEW q \in Nat, NEW r \in Nat, q <= r
  PROVE  /\ FromIn(T, r) \subseteq FromIn(T2, q)
         /\ Cardinality(FromIn(T, r)) <= Cardinality(FromIn(T2, q))
         /\ Cardinality(FromIn(T, r)) \in Nat /\ Cardinality(FromIn(T2, q)) \in Nat
<1>1. FromIn(T, r) \subseteq FromIn(T2, q)
  <2> SUFFICES ASSUME NEW x \in T, x >= r PROVE x >= q /\ x \in T2
    BY DEF FromIn
  <2>1. x \in Nat
    BY NumberedFacts
  <2> QED
    BY <2>1
<1>2. Numbered(T)
  BY NumberedFacts
<1> QED
  BY <1>1, <1>2, FromInType, FS_Subset

LEMMA StretchEnds ==
  ASSUME NEW T, Numbered(T), NEW l \in T, NEW h \in T, l <= h
  PROVE  LET W == {r \in T : r \in l..h}
             s == Descending(W)
         IN  /\ Numbered(W) /\ W \subseteq T
             /\ s # <<>> /\ Head(s) = h /\ Last(s) = l
<1> DEFINE W == {r \in T : r \in l..h}
           s == Descending(W)
<1>1. \A r \in T : r \in Nat
  BY NumberedFacts
<1>2. Numbered(W) /\ W \subseteq T
  BY NumberedFacts
<1>3. l \in W /\ h \in W
  BY <1>1
<1>4. /\ s # <<>> /\ Head(s) \in W /\ (\A r \in W : r <= Head(s))
      /\ Last(s) \in W /\ \A r \in W : Last(s) <= r
  BY <1>2, <1>3, DescendingEnds
<1> HIDE DEF s
<1>5. Head(s) = h /\ Last(s) = l
  <2>1. Head(s) \in l..h /\ h <= Head(s) /\ Last(s) \in l..h /\ Last(s) <= l
    BY <1>3, <1>4
  <2> QED
    BY <1>1, <2>1
<1> QED
  BY <1>2, <1>4, <1>5 DEF s

LEMMA StretchFacts ==
  ASSUME NEW T, Numbered(T), NEW b, NEW s, StretchIn(s, T, b), s # <<>>
  PROVE  LET W == {r \in T : r \in Last(s)..Head(s)} IN
         /\ Last(s) \in T /\ Head(s) \in T /\ Last(s) <= Head(s)
         /\ s = Descending(W) /\ Numbered(W) /\ W \subseteq T /\ Range(s) = W
<1> DEFINE W == {r \in T : r \in Last(s)..Head(s)}
<1>1. s = Descending(W)
  BY DEF StretchIn
<1>2. Numbered(W) /\ W \subseteq T
  BY NumberedFacts
<1>3. W # {}
  BY <1>1, DescendingEmpty
<1> HIDE DEF W
<1>4. /\ Head(s) \in W /\ (\A r \in W : r <= Head(s))
      /\ Last(s) \in W /\ \A r \in W : Last(s) <= r
  BY <1>1, <1>2, <1>3, DescendingEnds
<1>5. Range(s) = W
  BY <1>1, <1>2, DescendingRange
<1> QED
  BY <1>1, <1>2, <1>4, <1>5 DEF W

\* The first page.
LEMMA FirstStretch ==
  ASSUME NEW T, Numbered(T)
  PROVE  StretchIn(Descending(Shown(T, None)), T, 0)
<1> DEFINE P == Shown(T, None)
           s == Descending(P)
<1> SUFFICES ASSUME s # <<>> PROVE
      /\ s = Descending({r \in T : r \in Last(s)..Head(s)})
      /\ Cardinality(FromIn(T, Head(s) + 1)) <= 0
      /\ T = FromIn(T, Last(s)) \/ Cardinality(FromIn(T, Last(s))) >= PageSize
  BY DEF StretchIn
<1>1. Beyond(T, None) = T
  BY DEF Beyond
<1>2. /\ P \subseteq T /\ Numbered(P) /\ (\A r \in P, q \in T \ P : q < r)
      /\ P # T => Cardinality(P) = PageSize
  BY <1>1, ShownRows
<1>3. P # {}
  BY DescendingEmpty
<1>4. \A r \in T : r \in Nat
  BY NumberedFacts
<1> HIDE DEF P
<1>5. /\ Head(s) \in P /\ (\A r \in P : r <= Head(s))
      /\ Last(s) \in P /\ \A r \in P : Last(s) <= r
  BY <1>2, <1>3, DescendingEnds
<1> DEFINE h == Head(s)
           l == Last(s)
<1> HIDE DEF h, l
<1>6. /\ h \in P /\ (\A r \in P : r <= h) /\ l \in P /\ (\A r \in P : l <= r)
      /\ h \in Nat /\ l \in Nat
  BY <1>2, <1>4, <1>5 DEF h, l
<1>7. \A r \in T : /\ r \in Nat
                   /\ r \in P => l <= r /\ r <= h
                   /\ r \notin P => r < l
  BY <1>2, <1>4, <1>6
<1>12. {r \in T : r \in l..h} = P
  <2>1. \A r \in T : r \in l..h <=> r \in P
    BY <1>6, <1>7
  <2> QED
    BY <1>2, <2>1
<1>8. FromIn(T, h + 1) = {}
  <2>1. \A r \in T : r <= h
    BY <1>2, <1>4, <1>6
  <2> QED
    BY <1>4, <1>6, <2>1 DEF FromIn
<1>9. FromIn(T, l) = P
  <2>1. \A r \in T : r >= l <=> r \in P
    BY <1>6, <1>7
  <2> QED
    BY <1>2, <2>1 DEF FromIn
<1>10. Cardinality(FromIn(T, h + 1)) <= 0
  BY <1>8, FS_EmptySet
<1>11. T = FromIn(T, l) \/ Cardinality(FromIn(T, l)) >= PageSize
  BY <1>2, <1>9, SizesPositive
<1> QED
  BY <1>10, <1>11, <1>12 DEF h, l

\* A page more, read from the last row on.
LEMMA NextStretch ==
  ASSUME NEW T, Numbered(T), NEW b, NEW s, StretchIn(s, T, b), s # <<>>,
         Shown(T, Last(s)) # {}
  PROVE  LET t == s \o Descending(Shown(T, Last(s))) IN
         /\ StretchIn(t, T, b) /\ t # <<>>
         /\ Last(t) = Last(Descending(Shown(T, Last(s))))
<1> DEFINE l == Last(s)
           h == Head(s)
           P == Shown(T, l)
           k == Last(Descending(P))
           W == {r \in T : r \in l..h}
           t == s \o Descending(P)
<1>0. \A r \in T : r \in Nat /\ r > 0
  BY NumberedFacts
<1>1. /\ l \in T /\ h \in T /\ l <= h
      /\ s = Descending(W) /\ Numbered(W) /\ W \subseteq T
  BY StretchFacts
<1>2. l \in Nat /\ l # None /\ h \in Nat
  <2> HIDE DEF l, h
  <2> QED
    BY <1>0, <1>1 DEF None
<1>3. /\ P \subseteq Beyond(T, l) /\ Numbered(P)
      /\ \A r \in P, q \in Beyond(T, l) \ P : q < r
      /\ Beyond(T, l) \subseteq T
  BY ShownRows
<1>4. \A r \in T : r \in Beyond(T, l) <=> r < l
  BY <1>2 DEF Beyond
<1>5. k \in P /\ \A r \in P : k <= r
  BY <1>3, DescendingEnds
<1>6. /\ Cardinality(FromIn(T, h + 1)) <= b
      /\ T = FromIn(T, l) \/ Cardinality(FromIn(T, l)) >= PageSize
  BY DEF StretchIn
<1> HIDE DEF l, h, P, k
<1>7. k \in T /\ k < l /\ k \in Nat /\ k <= h
  <2>1. k \in Beyond(T, l) /\ k \in T
    BY <1>3, <1>5
  <2>2. k < l /\ k \in Nat
    BY <1>0, <1>4, <2>1
  <2> QED
    BY <1>1, <1>2, <2>1, <2>2
<1>8. W \cup P = {r \in T : r \in k..h}
  <2>1. ASSUME NEW r \in T PROVE r \in W \cup P <=> r \in k..h
    <3>1. r \in Nat
      BY <1>0
    <3>2. CASE r >= l
      <4>1. r \notin P
        BY <1>2, <1>3, <1>4, <3>1, <3>2
      <4> QED
        BY <1>2, <1>7, <3>1, <3>2, <4>1
    <3>3. CASE r < l
      <4>1. r \notin W /\ r \in Beyond(T, l) /\ r <= h
        BY <1>1, <1>2, <1>4, <3>1, <3>3
      <4>2. r \in P => k <= r
        BY <1>5
      <4>3. r \notin P => r < k
        BY <1>3, <1>5, <4>1
      <4> QED
        BY <1>2, <1>7, <3>1, <4>1, <4>2, <4>3
    <3> QED
      BY <1>2, <3>1, <3>2, <3>3
  <2>2. P \subseteq T
    BY <1>3
  <2> QED
    BY <1>1, <2>1, <2>2
<1>9. t = Descending({r \in T : r \in k..h})
  <2>1. \A r \in W, q \in P : q < r
    <3> SUFFICES ASSUME NEW r \in W, NEW q \in P PROVE q < r
      OBVIOUS
    <3>1. q \in T /\ q \in Nat /\ q < l
      BY <1>0, <1>3, <1>4
    <3>2. r \in Nat /\ l <= r
      BY <1>0, <1>2
    <3> QED
      BY <1>2, <3>1, <3>2
  <2>2. W \cup P \subseteq T /\ Numbered(W \cup P)
    BY <1>1, <1>3, NumberedFacts
  <2> HIDE DEF W
  <2>3. Descending(W) \o Descending(P) = Descending(W \cup P)
    BY <1>1, <1>3, <2>1, <2>2, DescendingConcat
  <2> QED
    BY <1>1, <1>8, <2>3
<1> HIDE DEF t
<1>10. t # <<>> /\ Head(t) = h /\ Last(t) = k
  BY <1>1, <1>7, <1>9, StretchEnds
<1>11. Cardinality(FromIn(T, k)) >= PageSize
  <2>1. T # FromIn(T, l)
    <3>1. k \in T /\ ~(k >= l)
      BY <1>2, <1>7
    <3> QED
      BY <3>1 DEF FromIn
  <2>2. /\ Cardinality(FromIn(T, l)) <= Cardinality(FromIn(T, k))
        /\ Cardinality(FromIn(T, l)) \in Nat /\ Cardinality(FromIn(T, k)) \in Nat
    <3>1. T \subseteq T /\ k <= l
      BY <1>2, <1>7
    <3> QED
      BY <1>2, <1>7, <3>1, FromInOrder
  <2> QED
    BY <1>6, <2>1, <2>2, SizesPositive
<1>12. StretchIn(t, T, b)
  BY <1>6, <1>9, <1>10, <1>11 DEF StretchIn
<1> QED
  BY <1>10, <1>12 DEF t, k, P, l

\* Rows stored below the list do not change it; with fewer than a page of rows in the
\* inbox they would have belonged to the first page.
LEMMA LowerStretch ==
  ASSUME NEW T, NEW T2, Numbered(T2), NEW b, NEW s, StretchIn(s, T, b), T \subseteq T2,
         T2 = T \/ Cardinality(T) >= PageSize,
         \A r \in T2 \ T, t \in T : r < t
  PROVE  StretchIn(s, T2, b)
<1> SUFFICES ASSUME s # <<>> PROVE StretchIn(s, T2, b)
  BY DEF StretchIn
<1> DEFINE l == Last(s)
           h == Head(s)
<1>0. Numbered(T) /\ \A r \in T2 : r \in Nat
  BY NumberedFacts
<1>1. l \in T /\ h \in T /\ l <= h
  BY <1>0, StretchFacts
<1>2. /\ s = Descending({r \in T : r \in l..h})
      /\ Cardinality(FromIn(T, h + 1)) <= b
      /\ T = FromIn(T, l) \/ Cardinality(FromIn(T, l)) >= PageSize
  BY DEF StretchIn
<1> HIDE DEF l, h
<1>3. l \in Nat /\ h \in Nat /\ \A r \in T2 \ T : r < l /\ r < h
  BY <1>0, <1>1
<1>4. {r \in T : r \in l..h} = {r \in T2 : r \in l..h}
  BY <1>0, <1>3
<1>5. FromIn(T, h + 1) = FromIn(T2, h + 1) /\ FromIn(T, l) = FromIn(T2, l)
  BY <1>0, <1>3 DEF FromIn
<1> QED
  BY <1>2, <1>4, <1>5 DEF StretchIn, l, h

\* An arrival is above the list.
LEMMA HigherStretch ==
  ASSUME NEW T, Numbered(T), NEW a, Numbered(T \cup {a}), NEW b \in Nat, NEW s, StretchIn(s, T, b),
         \A t \in T : t < a
  PROVE  StretchIn(s, T \cup {a}, b + 1)
<1> SUFFICES ASSUME s # <<>> PROVE StretchIn(s, T \cup {a}, b + 1)
  BY DEF StretchIn
<1> DEFINE l == Last(s)
           h == Head(s)
           T2 == T \cup {a}
<1>0. \A r \in T2 : r \in Nat
  BY NumberedFacts
<1>1. l \in T /\ h \in T /\ l <= h
  BY StretchFacts
<1>2. /\ s = Descending({r \in T : r \in l..h})
      /\ Cardinality(FromIn(T, h + 1)) <= b
      /\ T = FromIn(T, l) \/ Cardinality(FromIn(T, l)) >= PageSize
  BY DEF StretchIn
<1> HIDE DEF l, h
<1>3. l \in Nat /\ h \in Nat /\ a \in Nat /\ l < a /\ h < a
  BY <1>0, <1>1
<1>4. {r \in T : r \in l..h} = {r \in T2 : r \in l..h}
  BY <1>3
<1>5. FromIn(T2, h + 1) = FromIn(T, h + 1) \cup {a} /\ FromIn(T2, l) = FromIn(T, l) \cup {a}
  BY <1>0, <1>3 DEF FromIn
<1>9. Numbered(T2) /\ T \subseteq T2
  OBVIOUS
<1> HIDE DEF T2
<1>6. Cardinality(FromIn(T2, h + 1)) <= b + 1
  <2>1. IsFiniteSet(FromIn(T, h + 1)) /\ Cardinality(FromIn(T, h + 1)) \in Nat
    BY FromInType
  <2>2. \/ Cardinality(FromIn(T, h + 1) \cup {a}) = Cardinality(FromIn(T, h + 1))
        \/ Cardinality(FromIn(T, h + 1) \cup {a}) = Cardinality(FromIn(T, h + 1)) + 1
    BY <2>1, FS_AddElement
  <2> DEFINE c == Cardinality(FromIn(T, h + 1))
             d == Cardinality(FromIn(T2, h + 1))
  <2>3. c \in Nat /\ c <= b /\ (d = c \/ d = c + 1)
    BY <1>2, <1>5, <2>1, <2>2
  <2> HIDE DEF c, d
  <2>4. d <= b + 1
    BY <2>3
  <2> QED
    BY <2>4 DEF d
<1>7. T2 = FromIn(T2, l) \/ Cardinality(FromIn(T2, l)) >= PageSize
  <2>1. T = FromIn(T, l) => T2 = FromIn(T2, l)
    BY <1>5 DEF T2
  <2>2. /\ Cardinality(FromIn(T, l)) <= Cardinality(FromIn(T2, l))
        /\ Cardinality(FromIn(T, l)) \in Nat /\ Cardinality(FromIn(T2, l)) \in Nat
    <3>1. l <= l
      BY <1>3
    <3> QED
      BY <1>3, <1>9, <3>1, FromInOrder
  <2> QED
    BY <1>2, <2>1, <2>2, SizesPositive
<1>8. StretchIn(s, T2, b + 1)
  BY <1>2, <1>4, <1>6, <1>7 DEF StretchIn, l, h
<1> QED
  BY <1>8 DEF T2

\* A poll brings exactly the rows above the list, unless they are more than a page.
LEMMA PolledStretch ==
  ASSUME NEW T, Numbered(T), NEW b \in Nat, b <= PageSize, NEW s, StretchIn(s, T, b)
  PROVE  LET t == Descending(Shown(T, None) \ Range(s)) \o s IN
         /\ StretchIn(t, T, 0)
         /\ s # <<>> => t # <<>> /\ Last(t) = Last(s)
<1> DEFINE P == Shown(T, None)
           t == Descending(P \ Range(s)) \o s
<1>0. \A r \in T : r \in Nat
  BY NumberedFacts
<1>1. CASE s = <<>>
  <2>1. Numbered(P)
    BY ShownRows
  <2>2. Descending(P) \in Seq(P)
    BY <2>1, DescendingRows
  <2>3. P \ Range(s) = P
    BY <1>1 DEF Range
  <2>4. Descending(P) \o s = Descending(P)
    BY <1>1, <2>2, ConcatEmptySeq
  <2>5. StretchIn(Descending(P), T, 0)
    BY FirstStretch
  <2> HIDE DEF P
  <2> QED
    BY <1>1, <2>3, <2>4, <2>5 DEF P
<1>2. CASE s # <<>>
  <2> DEFINE l == Last(s)
             h == Head(s)
             W == {r \in T : r \in l..h}
             A == FromIn(T, h + 1)
             k == Head(Descending(A \cup W))
  <2>1. /\ l \in T /\ h \in T /\ l <= h
        /\ s = Descending(W) /\ Numbered(W) /\ W \subseteq T /\ Range(s) = W
    BY <1>2, StretchFacts
  <2>2. /\ Cardinality(A) <= b
        /\ T = FromIn(T, l) \/ Cardinality(FromIn(T, l)) >= PageSize
    BY <1>2 DEF StretchIn
  <2> HIDE DEF l, h
  <2>3. l \in Nat /\ h \in Nat
    BY <1>0, <2>1
  <2>4. A \subseteq T /\ Numbered(A) /\ IsFiniteSet(A) /\ Cardinality(A) \in Nat
    BY FromInType
  <2>5. \A r \in T : r \in P <=> Cardinality(Above(T, r)) < PageSize
    BY DEF Shown, Beyond, Newest, Above
  <2>6. \A r \in A : r \in P
    <3> SUFFICES ASSUME NEW r \in A PROVE Cardinality(Above(T, r)) < PageSize
      BY <2>4, <2>5
    <3>1. r \in T /\ r \in Nat /\ r > h
      BY <1>0, <2>3, <2>4 DEF FromIn
    <3>2. Above(T, r) \subseteq A /\ r \notin Above(T, r)
      <4>1. ASSUME NEW x \in T, x > r PROVE x >= h + 1
        <5>1. x \in Nat
          BY <1>0
        <5> QED
          BY <2>3, <3>1, <4>1, <5>1
      <4>2. Above(T, r) \subseteq A
        BY <4>1 DEF Above, FromIn
      <4>3. r \notin Above(T, r)
        BY <3>1 DEF Above
      <4> QED
        BY <4>2, <4>3
    <3>3. Cardinality(Above(T, r)) <= Cardinality(A) /\ Cardinality(Above(T, r)) \in Nat
          /\ (Cardinality(Above(T, r)) = Cardinality(A) => Above(T, r) = A)
      BY <2>4, <3>2, AboveType, FS_Subset
    <3> QED
      BY <2>2, <2>4, <3>2, <3>3, SizesPositive
  <2>7. \A r \in P : r >= l /\ r \in T
    <3> SUFFICES ASSUME NEW r \in P, r < l PROVE FALSE
      BY <1>0, <2>3, ShownRows DEF Beyond
    <3>1. r \in T /\ r \in Nat /\ Cardinality(Above(T, r)) < PageSize
      BY <1>0, <2>5, ShownRows
    <3>2. T # FromIn(T, l)
      BY <2>3, <3>1 DEF FromIn
    <3>3. FromIn(T, l) \subseteq Above(T, r)
      <4>1. ASSUME NEW x \in T, x >= l PROVE x > r
        <5>1. x \in Nat
          BY <1>0
        <5> QED
          BY <2>3, <3>1, <4>1, <5>1
      <4> QED
        BY <4>1 DEF Above, FromIn
    <3>4. /\ Cardinality(FromIn(T, l)) <= Cardinality(Above(T, r))
          /\ Cardinality(FromIn(T, l)) \in Nat /\ Cardinality(Above(T, r)) \in Nat
      BY <3>3, AboveType, FromInType, FS_Subset
    <3> QED
      BY <2>2, <3>1, <3>2, <3>4, SizesPositive
  <2>8. P \ Range(s) = A
    <3>1. \A r \in P : r \in T /\ r \in Nat /\ r >= l
      BY <1>0, <2>7
    <3>2. \A r \in P : r \notin W => r \in A
      BY <2>3, <3>1 DEF FromIn
    <3>3. \A r \in A : r \notin W
      BY <1>0, <2>3 DEF FromIn
    <3> HIDE DEF W, A, P
    <3> QED
      BY <2>1, <2>6, <3>2, <3>3
  <2>9. A \cup W = {r \in T : r >= l} /\ Numbered(A \cup W) /\ A \cup W # {}
    <3>1. ASSUME NEW r \in T PROVE r \in A \cup W <=> r >= l
      BY <1>0, <2>1, <2>3 DEF FromIn
    <3>2. A \cup W \subseteq T /\ Numbered(A \cup W)
      BY <2>1, <2>4, NumberedFacts
    <3>3. l \in W
      BY <2>1, <2>3
    <3> HIDE DEF W, A
    <3> QED
      BY <3>1, <3>2, <3>3
  <2>10. /\ k \in A \cup W /\ \A r \in A \cup W : r <= k
    BY <2>9, DescendingEnds
  <2>11. k \in T /\ k \in Nat /\ l <= k /\ \A r \in T : r <= k
    <3>1. k \in T /\ k \in Nat /\ l <= k
      BY <1>0, <2>3, <2>9, <2>10
    <3>2. \A r \in T : r >= l => r <= k
      BY <2>9, <2>10
    <3> QED
      BY <1>0, <2>3, <3>1, <3>2
  <2> HIDE DEF k
  <2>12. t = Descending({r \in T : r \in l..k})
    <3>1. \A a \in A, w \in W : w < a
      <4> SUFFICES ASSUME NEW a \in A, NEW w \in W PROVE w < a
        OBVIOUS
      <4>1. a \in Nat /\ a >= h + 1
        BY <1>0, <2>4 DEF FromIn
      <4>2. w \in Nat /\ w <= h
        BY <1>0, <2>3
      <4> QED
        BY <2>3, <4>1, <4>2
    <3>2. Descending(A) \o Descending(W) = Descending(A \cup W)
      <4> HIDE DEF A, W
      <4> QED
        BY <2>1, <2>4, <2>9, <3>1, DescendingConcat
    <3>3. {r \in T : r >= l} = {r \in T : r \in l..k}
      <4>1. ASSUME NEW r \in T PROVE r >= l <=> r \in l..k
        <5>1. r \in Nat /\ r <= k
          BY <1>0, <2>11
        <5> QED
          BY <2>3, <2>11, <5>1
      <4> QED
        BY <4>1
    <3> QED
      BY <2>1, <2>8, <2>9, <3>2, <3>3
  <2> HIDE DEF t
  <2>13. t # <<>> /\ Head(t) = k /\ Last(t) = l
    <3>1. l \in T /\ k \in T /\ l <= k
      BY <2>1, <2>11
    <3> QED
      BY <2>12, <3>1, StretchEnds
  <2>14. Cardinality(FromIn(T, k + 1)) <= 0
    <3>1. FromIn(T, k + 1) = {}
      <4>1. ASSUME NEW r \in T PROVE ~(r >= k + 1)
        <5>1. r \in Nat /\ r <= k
          BY <1>0, <2>11
        <5> QED
          BY <2>11, <5>1
      <4> QED
        BY <4>1 DEF FromIn
    <3> QED
      BY <3>1, FS_EmptySet
  <2>15. StretchIn(t, T, 0)
    BY <2>2, <2>12, <2>13, <2>14 DEF StretchIn
  <2> QED
    BY <2>13, <2>15 DEF t, l, P
<1> QED
  BY <1>1, <1>2

\* InboxStretch, of any list s over any inbox T with its cursors and its load more.
Stretched(s, T, b, next, end, m) ==
  /\ StretchIn(s, T, b)
  /\ next # None => s # <<>> /\ next = Last(s)
  /\ end # None => s # <<>> /\ end = Last(s)
  /\ m # NoMore /\ ~m.stale => s # <<>> /\ m.cursor = Last(s)

LEMMA InboxPage ==
  ASSUME NEW c
  PROVE  PageOf("all", c) = ListPage(tagged, c)
  BY ViewsApart DEF PageOf, Listing, Folders

\* What load more appends to an inbox that is one stretch.
LEMMA MoreStretch ==
  ASSUME Numbered(tagged), NEW b, NEW s, StretchIn(s, tagged, b), s # <<>>
  PROVE  LET page == PageOf("all", Last(s))
             t    == s \o page.rows
         IN  /\ StretchIn(t, tagged, b) /\ t # <<>>
             /\ page.next # None => page.next = Last(t)
             /\ page.end # None => page.end = Last(t)
             /\ page.end = None => t = s
<1> DEFINE page == PageOf("all", Last(s))
           P == Shown(tagged, Last(s))
<1>1. page = ListPage(tagged, Last(s))
  BY InboxPage
<1>2. /\ page.rows = Descending(P) /\ page.next \in {None, page.end}
      /\ P = {} => page.end = None /\ page.rows = <<>>
      /\ P # {} => page.end = Last(page.rows) /\ page.end \in tagged
  BY <1>1, PageRows
<1> HIDE DEF page
<1>3. CASE P = {}
  <2>1. s = Descending({r \in tagged : r \in Last(s)..Head(s)})
        /\ Numbered({r \in tagged : r \in Last(s)..Head(s)})
    BY StretchFacts
  <2>2. s \in Seq({r \in tagged : r \in Last(s)..Head(s)})
    BY <2>1, DescendingRows
  <2>3. s \o page.rows = s
    BY <1>2, <1>3, <2>2, ConcatEmptySeq
  <2> QED
    BY <1>2, <1>3, <2>3 DEF page
<1>4. CASE P # {}
  <2>1. /\ StretchIn(s \o Descending(P), tagged, b) /\ s \o Descending(P) # <<>>
        /\ Last(s \o Descending(P)) = Last(Descending(P))
    BY <1>4, NextStretch
  <2>2. page.end # None
    BY <1>2, <1>4, NumberedFacts DEF None
  <2> QED
    BY <1>2, <1>4, <2>1, <2>2 DEF page
<1> QED
  BY <1>3, <1>4

LEMMA StretchStep ==
  ASSUME TypeOK, MailboxStored, RequestsFit, InboxStretch, Next,
         View(filter', query') = "all", ~loading', ~mixed', ~shifted', ~outran'
  PROVE  Stretched(messages', tagged', behind', nextCursor', endCursor', more')
<1> DEFINE Goal == Stretched(messages', tagged', behind', nextCursor', endCursor', more')
           Was  == Stretched(messages, tagged, behind, nextCursor, endCursor, more)
<1>0. ScreenType /\ more \in Calls /\ behind \in Nat
  BY DEF TypeOK, ScreenType, Calls, Walks
<1>1. View(filter, query) = "all" /\ ~loading /\ ~mixed /\ ~shifted /\ ~outran => Was
  BY DEF InboxStretch, Stretched, StretchOf, StretchIn, From, FromIn, EndsAt, CurrentView,
         loadingMore
<1>2. View(filter, query) = "all" => ~timer /\ query = "off"
  <2>1. "all" \in Folders
    BY DEF Folders
  <2> QED
    BY <1>0, <2>1, ViewType DEF ScreenType, RequestsFit
<1>3. Numbered(tagged) /\ Numbered(tagged')
  <2>1. /\ known \subseteq Rows /\ tagged \subseteq known
        /\ known' \subseteq Rows /\ tagged' \subseteq known'
    BY MailboxStep DEF TypeOK, MailboxType
  <2> QED
    BY <2>1, SizesPositive DEF Rows, Numbered
<1>4. StretchIn(<<>>, tagged, 0)
  BY DEF StretchIn
<1> USE DEF list, walk, counts, recon, ghosts, vars, server
<1>5. ASSUME UNCHANGED <<filter, query, loading, mixed, shifted, outran, messages, tagged, behind,
                         nextCursor, endCursor, more>>
      PROVE  Goal
  BY <1>1, <1>5
<1>6. ASSUME NEW f \in Folders, ToFolder(f) PROVE Goal
  BY <1>6 DEF ToFolder, LoadFirstPage
<1>7. ASSUME NEW q \in Lookups \cup Questions, ToSearch(q) PROVE Goal
  <2>1. View(filter', query') = q /\ q # "all"
    BY <1>7, ViewsApart DEF ToSearch, View, Folders
  <2> QED
    BY <2>1
<1>8. ASSUME ToBlank PROVE Goal
  BY <1>8 DEF ToBlank, View
<1>9. ASSUME Reload \/ TimerFires PROVE Goal
  BY <1>9 DEF Reload, TimerFires, LoadFirstPage
<1>10. ASSUME UserLoadsMore \/ AutoSync PROVE Goal
  <2>1. LoadMore(CurrentView)
        /\ UNCHANGED <<filter, query, loading, mixed, shifted, outran, messages, tagged, behind,
                       nextCursor, endCursor>>
    BY <1>10 DEF UserLoadsMore, AutoSync
  <2>2. CurrentView \in Views
    BY <1>0, ViewType DEF CurrentView, ScreenType
  <2>3. more'.cursor # None /\ more'.cursor \in {nextCursor, endCursor}
    BY <2>1, <2>2, LoadMoreCall
  <2> QED
    BY <1>1, <2>1, <2>3 DEF Stretched
<1>11. ASSUME NEW r \in requests, FirstPageArrives(r) PROVE Goal
  <2> DEFINE page == PageOf(r.view, None)
             P == Shown(tagged, None)
  <2>1. /\ r.id = reqId /\ UNCHANGED <<filter, query, timer, tagged>>
        /\ messages' = page.rows /\ nextCursor' = page.next /\ endCursor' = page.end
        /\ behind' = 0 /\ more' = IF more = NoMore THEN more ELSE [more EXCEPT !.stale = TRUE]
    BY <1>11 DEF FirstPageArrives, Wanted, Replace
  <2>2. r.view = "all"
    BY <1>2, <2>1 DEF RequestsFit, CurrentView
  <2>3. page = ListPage(tagged, None)
    BY <2>2, InboxPage
  <2>4. /\ page.rows = Descending(P) /\ page.next \in {None, page.end}
        /\ P = {} => page.end = None
        /\ P # {} => page.end = Last(page.rows)
    BY <1>3, <2>3, PageRows
  <2>5. P # {} => Descending(P) # <<>>
    BY <1>3, ShownRows, DescendingEnds
  <2>6. StretchIn(Descending(P), tagged, 0)
    BY <1>3, FirstStretch
  <2>7. more' # NoMore => more'.stale
    BY <1>0, <2>1 DEF Calls
  <2> HIDE DEF page, P
  <2> QED
    BY <2>1, <2>4, <2>5, <2>6, <2>7 DEF Stretched
<1>12. ASSUME NEW r \in requests, FirstPageFails(r) PROVE Goal
  <2>1. /\ messages' = <<>> /\ nextCursor' = None /\ endCursor' = None /\ tagged' = tagged
        /\ behind' = 0 /\ more' = IF more = NoMore THEN more ELSE [more EXCEPT !.stale = TRUE]
    BY <1>12 DEF FirstPageFails, Replace
  <2>2. more' # NoMore => more'.stale
    BY <1>0, <2>1 DEF Calls
  <2> QED
    BY <1>4, <2>1, <2>2 DEF Stretched
<1>13. ASSUME MorePage \/ AfterBackfill PROVE Goal
  <2> DEFINE page == PageOf(more.view, more.cursor)
  <2>1. /\ UNCHANGED <<filter, query, loading, shifted, outran, tagged, behind>>
        /\ mixed' = (mixed \/ more.stale) /\ more' = NoMore
        /\ messages' = messages \o page.rows
        /\ nextCursor' = page.next
        /\ endCursor' = page.end \/ (endCursor' = endCursor /\ page.end = None)
        /\ more.step # "none"
    BY <1>13 DEF MorePage, AfterBackfill, Append2List
  <2>2. more # NoMore /\ ~more.stale /\ ~mixed
    BY <2>1, NoCall
  <2>3. Was
    BY <1>1, <2>1, <2>2
  <2>4. more.view = "all" /\ messages # <<>> /\ more.cursor = Last(messages)
    BY <1>2, <2>1, <2>2, <2>3 DEF RequestsFit, CurrentView, loadingMore, Stretched
  <2>5. page = PageOf("all", Last(messages))
    BY <2>4
  <2> HIDE DEF page
  <2>6. /\ StretchIn(messages \o page.rows, tagged, behind) /\ messages \o page.rows # <<>>
        /\ page.next # None => page.next = Last(messages \o page.rows)
        /\ page.end # None => page.end = Last(messages \o page.rows)
        /\ page.end = None => messages \o page.rows = messages
    BY <1>3, <2>3, <2>4, <2>5, MoreStretch DEF Stretched
  <2> QED
    BY <2>1, <2>3, <2>6 DEF Stretched
<1>14. ASSUME NEW refs, FromTheTop(refs), Stores(refs),
              UNCHANGED <<filter, query, loading, messages, nextCursor, endCursor>>,
              more' = NoMore \/ (more' = Synced /\ more.step = "backfill")
       PROVE  Goal
  <2>1. /\ tagged' = tagged \cup refs /\ UNCHANGED <<mixed, outran, behind>>
        /\ shifted' = (shifted \/ (Cardinality(tagged) < PageSize /\ ~ refs \subseteq tagged))
    BY <1>14 DEF Stores
  <2>2. Was
    BY <1>1, <1>14, <2>1
  <2>3. tagged' = tagged \/ Cardinality(tagged) >= PageSize
    <3>1. Cardinality(tagged) \in Nat
      BY <1>3, NumberedFacts
    <3>2. ~(Cardinality(tagged) < PageSize) \/ refs \subseteq tagged
      BY <2>1
    <3>3. refs \subseteq tagged => tagged' = tagged
      BY <2>1
    <3> QED
      BY <3>1, <3>2, <3>3, SizesPositive
  <2>4. \A r \in tagged' \ tagged, t \in tagged : r < t
    BY <1>14, <2>1 DEF FromTheTop, MailboxStored
  <2>5. tagged \subseteq tagged'
    BY <2>1
  <2>6. StretchIn(messages, tagged', behind)
    BY <1>3, <2>2, <2>3, <2>4, <2>5, LowerStretch DEF Stretched
  <2>7. more' # NoMore => more # NoMore /\ more'.stale = more.stale /\ more'.cursor = more.cursor
    BY <1>0, <1>14, NoCall DEF Synced, Calls
  <2> QED
    BY <1>14, <2>1, <2>2, <2>6, <2>7 DEF Stretched
<1>15. ASSUME BackfillAnswers PROVE Goal
  <2>1. /\ FromTheTop(Batch.refs) /\ Stores(Batch.refs)
        /\ UNCHANGED <<filter, query, loading, messages, nextCursor, endCursor>>
        /\ more' = NoMore \/ (more' = Synced /\ more.step = "backfill")
    BY <1>15, BatchRows DEF BackfillAnswers
  <2> QED
    BY <1>14, <2>1
<1>16. ASSUME MoreFails PROVE Goal
  <2>1. /\ UNCHANGED <<filter, query, loading, messages, nextCursor, endCursor>>
        /\ more' = NoMore
    BY <1>16 DEF MoreFails
  <2>4. more' = NoMore \/ (more' = Synced /\ more.step = "backfill")
    BY <2>1
  <2>2. CASE more.step = "backfill"
    <3>1. PICK refs \in {Newest(Batch.refs, n) : n \in 0..BatchSize} : Stores(refs)
      BY <1>16, <2>2 DEF MoreFails
    <3>2. FromTheTop(refs)
      BY BatchRows, SizesPositive
    <3> QED
      BY <1>14, <2>1, <2>4, <3>1, <3>2
  <2>3. CASE more.step # "backfill"
    <3>1. UNCHANGED <<mixed, shifted, outran, tagged, behind>>
      BY <1>16, <2>3 DEF MoreFails
    <3> QED
      BY <1>1, <2>1, <3>1 DEF Stretched
  <2> QED
    BY <2>2, <2>3
<1>17. ASSUME PollArrives PROVE Goal
  <2> DEFINE page == PageOf(polling, None)
  <2>1. /\ UNCHANGED <<filter, query, loading, nextCursor, endCursor, tagged, mixed, shifted, more>>
        /\ polling # "none" /\ behind' = 0 /\ outran' = (outran \/ behind > PageSize)
        /\ messages' = Descending(Range(page.rows) \ Range(messages)) \o messages
    BY <1>17 DEF PollArrives
  <2>6. ~outran /\ ~(behind > PageSize)
    BY <2>1
  <2>7. behind <= PageSize
    BY <1>0, <2>6, SizesPositive
  <2>2. Was /\ behind <= PageSize
    BY <1>1, <2>1, <2>6, <2>7
  <2>3. polling = "all"
    BY <1>0, <1>2, <2>1 DEF ScreenType, View
  <2>4. Range(page.rows) = Shown(tagged, None)
    BY <1>3, <2>3, InboxPage, PageRows
  <2> HIDE DEF page
  <2>5. /\ StretchIn(messages', tagged, 0)
        /\ messages # <<>> => messages' # <<>> /\ Last(messages') = Last(messages)
    BY <1>0, <1>3, <2>1, <2>2, <2>4, PolledStretch DEF Stretched
  <2> QED
    BY <2>1, <2>2, <2>5 DEF Stretched
<1>18. ASSUME NEW id, ReconcileArrives(id) PROVE Goal
  <2>1. /\ UNCHANGED <<filter, query, loading, nextCursor, endCursor, mixed, outran, behind, more>>
        /\ tagged' = tagged \cap gmail /\ shifted' = (shifted \/ tagged' # tagged)
        /\ messages' \in {messages, IF tagged \subseteq gmail THEN messages
                                    ELSE Without(messages, tagged \ gmail)}
    BY <1>18 DEF ReconcileArrives
  <2>2. tagged' = tagged /\ ~shifted
    BY <2>1
  <2>3. tagged \subseteq gmail
    BY <2>1, <2>2
  <2>4. messages' = messages
    BY <2>1, <2>3
  <2>5. Was
    BY <1>1, <2>1, <2>2
  <2> QED
    BY <2>1, <2>2, <2>4, <2>5
<1>19. ASSUME Arrives PROVE Goal
  <2>1. /\ UNCHANGED <<filter, query, loading, messages, nextCursor, endCursor, mixed, shifted,
                       outran, more>>
        /\ \/ UNCHANGED <<tagged, behind>>
           \/ tagged' = tagged \cup {arrived + 1} /\ behind' = behind + 1
    BY <1>19 DEF Arrives
  <2>2. Was
    BY <1>1, <2>1
  <2>3. CASE UNCHANGED <<tagged, behind>>
    BY <2>1, <2>2, <2>3
  <2>4. CASE tagged' = tagged \cup {arrived + 1} /\ behind' = behind + 1
    <3>1. \A t \in tagged : t < arrived + 1
      BY ListAssumption DEF MailboxStored, TypeOK
    <3>2. StretchIn(messages, tagged \cup {arrived + 1}, behind + 1)
      BY <1>0, <1>3, <2>2, <2>4, <3>1, HigherStretch DEF Stretched
    <3> QED
      BY <2>1, <2>2, <2>4, <3>2 DEF Stretched
  <2> QED
    BY <2>1, <2>3, <2>4
<1>20. ASSUME NEW r \in gmail, ArchivedElsewhere(r) PROVE Goal
  <2>1. /\ UNCHANGED <<filter, query, loading, messages, nextCursor, endCursor, mixed, outran,
                       behind, more>>
        /\ shifted' = (shifted \/ tagged' # tagged)
    BY <1>20 DEF ArchivedElsewhere
  <2>2. tagged' = tagged /\ ~shifted
    BY <2>1
  <2>3. Was
    BY <1>1, <2>1, <2>2
  <2> QED
    BY <2>1, <2>2, <2>3
<1>21. ASSUME NEW r, DropSuperseded(r) \/ ReconcileFails(r) PROVE Goal
  <2>1. UNCHANGED <<filter, query, loading, mixed, shifted, outran, messages, tagged, behind,
                    nextCursor, endCursor, more>>
    BY <1>21 DEF DropSuperseded, ReconcileFails
  <2> QED
    BY <1>5, <2>1
<1>22. ASSUME Poll \/ PollFails \/ CountArrives \/ Reconcile PROVE Goal
  <2>1. UNCHANGED <<filter, query, loading, mixed, shifted, outran, messages, tagged, behind,
                    nextCursor, endCursor, more>>
    BY <1>22 DEF Poll, PollFails, CountArrives, Reconcile
  <2> QED
    BY <1>5, <2>1
<1> HIDE DEF Goal
<1> QED
  BY <1>6, <1>7, <1>8, <1>9, <1>10, <1>11, <1>12, <1>13, <1>15, <1>16, <1>17, <1>18, <1>19,
     <1>20, <1>21, <1>22 DEF Next, User, Answers, Mailbox, Goal

\* ListExact: whatever was paged, backfilled and polled, and in whichever order, the inbox
\* list is exactly the rows of the inbox between its first and its last one; excepted are
\* the lists recorded by mixed, shifted and outran.
THEOREM ExactSafe == Spec => []ListExact
<1> DEFINE I == ListInv /\ InboxStretch
<1>1. Init => I
  <2> SUFFICES ASSUME Init PROVE I
    OBVIOUS
  <2>1. loading
    BY DEF Init
  <2> QED
    BY <2>1, ListInit DEF InboxStretch
<1>2. I /\ [Next]_vars => I'
  <2> SUFFICES ASSUME I, [Next]_vars PROVE I'
    OBVIOUS
  <2>1. ListInv'
    BY ListStep
  <2>2. CASE UNCHANGED vars
    <3>1. UNCHANGED <<filter, query, loading, mixed, shifted, outran, messages, tagged, behind,
                      nextCursor, endCursor, more>>
      BY <2>2 DEF vars, list, ghosts, server
    <3>2. InboxStretch'
      BY <3>1 DEF InboxStretch, CurrentView, StretchOf, From, EndsAt, loadingMore
    <3> QED
      BY <2>1, <3>2
  <2>3. CASE Next
    <3>1. /\ View(filter', query') = "all"
          /\ ~loading' /\ ~mixed' /\ ~shifted' /\ ~outran'
          => Stretched(messages', tagged', behind', nextCursor', endCursor', more')
      BY <2>3, StretchStep DEF ListInv
    <3>2. InboxStretch'
      BY <3>1 DEF InboxStretch, Stretched, StretchOf, StretchIn, From, FromIn, EndsAt, CurrentView,
                  loadingMore
    <3> QED
      BY <2>1, <3>2
  <2> QED
    BY <2>2, <2>3
<1>3. I => ListExact
  BY DEF InboxStretch, ListExact, InboxShown, StretchOf
<1> QED
  BY <1>1, <1>2, <1>3, PTL DEF Spec
=============================================================================
