---------------------------- MODULE ClientProofs ----------------------------
(***************************************************************************)
(* What the two components of the browser that ask and wait promise:       *)
(* SearchAnswers, for any mailbox, index, ranking of the sample mailbox,   *)
(* model output and number of requests, and the types of Session.          *)
(*                                                                         *)
(* The argument for SearchAnswers.  SearchInv adds to the properties what they  *)
(* rest on while requests are under way.  Once typing has settled, the     *)
(* newest request is for the query in the search field and of the kind the *)
(* view calls for (RequestFit), so only such a page can be shown.  Until   *)
(* then it carries what the properties say of the page: what a reasoner    *)
(* reads is near the query or holds a rare word of it and the text cites   *)
(* only that (AnswerFit), and a keyword search has the mail that contains  *)
(* the query (KeywordFit).  The rail and the requests for it that were not *)
(* cancelled belong to the open message (RailsFit).  Sections 1 to 3 show  *)
(* what retrieval returns, from the definitions of ranking and picking.    *)
(***************************************************************************)
EXTENDS SearchAnswers, TLAPS, FiniteSetTheorems, SequenceTheorems, WellFoundedInduction

(***************************************************************************)
(* 1. Lists                                                                *)
(***************************************************************************)
\* The smaller of two numbers, which is how far Take goes.
LEMMA LeastOfTwo ==
  ASSUME NEW a \in Nat, NEW b \in Nat
  PROVE  Min({a, b}) = IF a <= b THEN a ELSE b
<1>1. \E x \in {a, b} : \A y \in {a, b} : x <= y
  BY Zenon, SMT
<1>2. Min({a, b}) \in {a, b} /\ \A y \in {a, b} : Min({a, b}) <= y
  BY <1>1, Zenon DEF Min
<1> QED
  BY <1>2

\* The elements of S that come before m in an order.
Ahead(S, m, order) == {n \in S : <<n, m>> \in order}

StrictOrder(S, order) ==
  /\ \A m \in S : <<m, m>> \notin order
  /\ \A m, n \in S : m # n => <<m, n>> \in order \/ <<n, m>> \in order
  /\ \A l, m, n \in S : <<l, m>> \in order /\ <<m, n>> \in order => <<l, n>> \in order

\* In a finite ordered set no two elements have the same number of elements before
\* them, and so every number below the size of the set is taken.
LEMMA Places ==
  ASSUME NEW S, IsFiniteSet(S), NEW order, StrictOrder(S, order)
  PROVE  /\ \A m \in S : Cardinality(Ahead(S, m, order)) + 1 \in 1..Cardinality(S)
         /\ \A m, n \in S :
              Cardinality(Ahead(S, m, order)) = Cardinality(Ahead(S, n, order)) => m = n
         /\ \A k \in 1..Cardinality(S) :
              \E m \in S : Cardinality(Ahead(S, m, order)) = k - 1
<1> DEFINE C(m) == Cardinality(Ahead(S, m, order))
           place == [m \in S |-> C(m) + 1]
<1>1. ASSUME NEW m \in S
      PROVE  IsFiniteSet(Ahead(S, m, order)) /\ C(m) \in Nat /\ C(m) < Cardinality(S)
  <2>1. Ahead(S, m, order) \in SUBSET S /\ m \notin Ahead(S, m, order)
    BY DEF Ahead, StrictOrder
  <2>2. /\ IsFiniteSet(Ahead(S, m, order)) /\ C(m) <= Cardinality(S)
        /\ Cardinality(S) = C(m) => S = Ahead(S, m, order)
    BY <2>1, FS_Subset
  <2>3. C(m) \in Nat /\ Cardinality(S) \in Nat
    BY <2>2, FS_CardinalityType
  <2> QED
    BY <1>1, <2>1, <2>2, <2>3
<1>2. ASSUME NEW m \in S, NEW n \in S, <<m, n>> \in order
      PROVE  C(m) < C(n)
  <2>1. /\ Ahead(S, m, order) \in SUBSET Ahead(S, n, order)
        /\ m \in Ahead(S, n, order) /\ m \notin Ahead(S, m, order)
    BY <1>2 DEF Ahead, StrictOrder
  <2>2. IsFiniteSet(Ahead(S, n, order)) /\ C(m) \in Nat /\ C(n) \in Nat
    BY <1>1
  <2>3. C(m) <= C(n) /\ (C(n) = C(m) => Ahead(S, n, order) = Ahead(S, m, order))
    BY <2>1, <2>2, FS_Subset
  <2> QED
    BY <2>1, <2>2, <2>3
<1>3. Cardinality(S) \in Nat
  BY FS_CardinalityType
<1> HIDE DEF C
<1>4. \A m \in S : C(m) + 1 \in 1..Cardinality(S)
  BY <1>1, <1>3
<1>5. ASSUME NEW m \in S, NEW n \in S, C(m) = C(n)
      PROVE  m = n
  <2>1. C(m) \in Nat /\ C(n) \in Nat
    BY <1>1
  <2>2. <<m, n>> \notin order /\ <<n, m>> \notin order
    BY <1>2, <1>5, <2>1
  <2> QED
    BY <2>2 DEF StrictOrder
<1>6. place \in Injection(S, 1..Cardinality(S))
  <2>1. place \in [S -> 1..Cardinality(S)]
    BY <1>4
  <2>2. ASSUME NEW m \in S, NEW n \in S, place[m] = place[n]
        PROVE  m = n
    <3>1. C(m) \in Nat /\ C(n) \in Nat /\ C(m) + 1 = C(n) + 1
      BY <1>1, <2>2
    <3>2. C(m) = C(n)
      BY <3>1
    <3> QED
      BY <1>5, <3>2
  <2> QED
    BY <2>1, <2>2 DEF Injection, IsInjective
<1>7. IsFiniteSet(1..Cardinality(S)) /\ Cardinality(1..Cardinality(S)) = Cardinality(S)
  BY <1>3, FS_Interval
<1>8. place \in Surjection(S, 1..Cardinality(S))
  BY <1>6, <1>7, FS_Injection
<1>9. ASSUME NEW k \in 1..Cardinality(S)
      PROVE  \E m \in S : C(m) = k - 1
  <2>1. PICK m \in S : place[m] = k
    BY <1>8 DEF Surjection
  <2>2. C(m) \in Nat /\ C(m) + 1 = k /\ k \in Nat
    BY <1>1, <1>3, <2>1
  <2> QED
    BY <2>2
<1> QED
  BY <1>4, <1>5, <1>9 DEF C

ByScore(S, score) == {p \in S \X S : Before(p[1], p[2], score)}

\* The k-th element of a ranking has k - 1 before it, and every element is there once.
LEMMA RankedPlaces ==
  ASSUME NEW S \in SUBSET Nat, IsFiniteSet(S), NEW score \in [S -> Nat]
  PROVE  /\ Ranked(S, score) \in Seq(S) /\ Len(Ranked(S, score)) = Cardinality(S)
         /\ IsInjective(Ranked(S, score)) /\ Range(Ranked(S, score)) = S
<1> DEFINE order == ByScore(S, score)
           s     == Ranked(S, score)
<1>1. Cardinality(S) \in Nat
  BY FS_CardinalityType
<1>2. \A m, n \in S : <<m, n>> \in order <=> Before(m, n, score)
  BY DEF ByScore
<1>3. StrictOrder(S, order)
  <2>0. \A m \in S : m \in Nat /\ score[m] \in Nat
    OBVIOUS
  <2>1. \A m \in S : <<m, m>> \notin order
    BY <1>2, <2>0 DEF Before
  <2>2. \A m, n \in S : m # n => <<m, n>> \in order \/ <<n, m>> \in order
    BY <1>2, <2>0 DEF Before
  <2>3. \A l, m, n \in S : <<l, m>> \in order /\ <<m, n>> \in order => <<l, n>> \in order
    BY <1>2, <2>0 DEF Before
  <2> QED
    BY <2>1, <2>2, <2>3 DEF StrictOrder
<1>4. \A m \in S : {n \in S : Before(n, m, score)} = Ahead(S, m, order)
  BY <1>2 DEF Ahead
<1> HIDE DEF order
<1>50. /\ \A m \in S : Cardinality(Ahead(S, m, order)) + 1 \in 1..Cardinality(S)
       /\ \A m, n \in S :
            Cardinality(Ahead(S, m, order)) = Cardinality(Ahead(S, n, order)) => m = n
       /\ \A k \in 1..Cardinality(S) : \E m \in S : Cardinality(Ahead(S, m, order)) = k - 1
  BY <1>3, Places, Zenon
<1>5. ASSUME NEW k \in 1..Cardinality(S)
      PROVE  s[k] \in S /\ Cardinality(Ahead(S, s[k], order)) = k - 1
  <2>2. \E m \in S : Cardinality({n \in S : Before(n, m, score)}) = k - 1
    BY <1>4, <1>50
  <2>3. s[k] = CHOOSE m \in S : Cardinality({n \in S : Before(n, m, score)}) = k - 1
    BY DEF Ranked
  <2>4. s[k] \in S /\ Cardinality({n \in S : Before(n, s[k], score)}) = k - 1
    BY <2>2, <2>3
  <2> QED
    BY <1>4, <2>4
<1>6. s \in [1..Cardinality(S) -> S] /\ DOMAIN s = 1..Cardinality(S)
  <2> DEFINE F(k) == CHOOSE m \in S : Cardinality({n \in S : Before(n, m, score)}) = k - 1
  <2>1. s = [k \in 1..Cardinality(S) |-> F(k)]
    BY DEF Ranked
  <2> HIDE DEF F, s
  <2>2. \A k \in 1..Cardinality(S) : s[k] = F(k)
    BY <2>1
  <2>3. \A k \in 1..Cardinality(S) : F(k) \in S
    BY <1>5, <2>2
  <2> QED
    BY <2>1, <2>3
<1> HIDE DEF s
<1>7. s \in Seq(S) /\ Len(s) = Cardinality(S)
  BY <1>1, <1>6
<1>8. IsInjective(s)
  <2> SUFFICES ASSUME NEW j \in 1..Cardinality(S), NEW k \in 1..Cardinality(S), s[j] = s[k]
               PROVE  j = k
    BY <1>6 DEF IsInjective
  <2>1. j - 1 = k - 1
    BY <1>5
  <2> QED
    BY <1>1, <2>1
<1>9. ASSUME NEW m \in S
      PROVE  \E k \in 1..Cardinality(S) : s[k] = m
  <2> DEFINE k == Cardinality(Ahead(S, m, order)) + 1
  <2>1. k \in 1..Cardinality(S)
    BY <1>50
  <2>2. s[k] \in S /\ Cardinality(Ahead(S, s[k], order)) = k - 1
    BY <1>5, <2>1
  <2>3. Cardinality(Ahead(S, m, order)) = k - 1
    <3>1. Cardinality(Ahead(S, m, order)) \in Nat
      <4>1. Ahead(S, m, order) \in SUBSET S
        BY DEF Ahead
      <4> QED
        BY <4>1, FS_Subset, FS_CardinalityType
    <3> QED
      BY <3>1
  <2> HIDE DEF k
  <2>4. s[k] = m
    BY <1>50, <2>2, <2>3
  <2> QED
    BY <2>1, <2>4
<1>10. Range(s) = S
  BY <1>5, <1>6, <1>9 DEF Range
<1> QED
  BY <1>7, <1>8, <1>10 DEF s

Increasing(places) == {p \in places \X places : p[1] < p[2]}

\* What is at some places of a list: elements of it, each of those places once.
LEMMA AtPlaces ==
  ASSUME NEW T, NEW s \in Seq(T), NEW places \in SUBSET (1..Len(s))
  PROVE  /\ At(s, places) \in Seq(T)
         /\ \A i \in places : \E k \in 1..Len(At(s, places)) : At(s, places)[k] = s[i]
         /\ \E at \in [1..Len(At(s, places)) -> places] :
              /\ \A k \in 1..Len(At(s, places)) : At(s, places)[k] = s[at[k]]
              /\ \A j, k \in 1..Len(At(s, places)) : at[j] = at[k] => j = k
         /\ Len(At(s, places)) <= Len(s)
         /\ places = 1..Len(s) => At(s, places) = s
<1> DEFINE order == Increasing(places)
           n == Cardinality(places)
           F(k) == CHOOSE i \in places : Cardinality({j \in places : j < i}) = k - 1
           at == [k \in 1..n |-> F(k)]
           t == At(s, places)
<1>1. /\ IsFiniteSet(places) /\ n \in Nat /\ n <= Len(s)
      /\ Len(s) \in Nat /\ \A i \in places : i \in Nat
  <2>1. Len(s) \in Nat /\ IsFiniteSet(1..Len(s)) /\ Cardinality(1..Len(s)) = Len(s)
    BY FS_Interval
  <2>2. places \in SUBSET (1..Len(s))
    OBVIOUS
  <2>3. IsFiniteSet(places) /\ n <= Len(s)
    BY <2>1, <2>2, FS_Subset
  <2>4. n \in Nat
    BY <2>3, FS_CardinalityType
  <2> HIDE DEF n
  <2> QED
    BY <2>1, <2>2, <2>3, <2>4
<1>2. StrictOrder(places, order)
  BY <1>1 DEF StrictOrder, Increasing
<1>3. \A i \in places : {j \in places : j < i} = Ahead(places, i, order)
  BY DEF Ahead, Increasing
<1> HIDE DEF order
<1>14. /\ \A i \in places : Cardinality(Ahead(places, i, order)) + 1 \in 1..n
       /\ \A i, j \in places :
            Cardinality(Ahead(places, i, order)) = Cardinality(Ahead(places, j, order)) => i = j
       /\ \A k \in 1..n : \E i \in places : Cardinality(Ahead(places, i, order)) = k - 1
  BY <1>1, <1>2, Places, Zenon
<1>4. ASSUME NEW k \in 1..n
      PROVE  F(k) \in places /\ Cardinality(Ahead(places, F(k), order)) = k - 1
  <2>2. \E i \in places : Cardinality({j \in places : j < i}) = k - 1
    BY <1>3, <1>14
  <2>3. F(k) \in places /\ Cardinality({j \in places : j < F(k)}) = k - 1
    BY <2>2
  <2> QED
    BY <1>3, <2>3
<1>5. t = [k \in 1..n |-> s[F(k)]]
  BY DEF At
<1> HIDE DEF F, t, n
<1>6. t \in [1..n -> T]
  <2>1. \A k \in 1..n : F(k) \in 1..Len(s)
    BY <1>4
  <2>2. \A k \in 1..n : s[F(k)] \in T
    BY <2>1
  <2> QED
    BY <1>5, <2>2
<1>7. t \in Seq(T) /\ Len(t) = n
  BY <1>1, <1>6
<1>8. ASSUME NEW j \in 1..n, NEW k \in 1..n, F(j) = F(k)
      PROVE  j = k
  <2>1. j - 1 = k - 1
    BY <1>4, <1>8
  <2> QED
    BY <1>1, <2>1
<1>9. ASSUME NEW i \in places
      PROVE  \E k \in 1..n : F(k) = i
  <2> DEFINE k == Cardinality(Ahead(places, i, order)) + 1
  <2>1. k \in 1..n
    BY <1>14
  <2>2. F(k) \in places /\ Cardinality(Ahead(places, F(k), order)) = k - 1
    BY <1>4, <2>1
  <2>3. Cardinality(Ahead(places, i, order)) = k - 1
    <3>1. Cardinality(Ahead(places, i, order)) \in Nat
      <4>1. Ahead(places, i, order) \in SUBSET places
        BY DEF Ahead
      <4> QED
        BY <1>1, <4>1, FS_Subset, FS_CardinalityType
    <3> QED
      BY <3>1
  <2> HIDE DEF k
  <2>4. F(k) = i
    BY <1>14, <2>2, <2>3
  <2> QED
    BY <2>1, <2>4
<1>10. /\ at \in [1..n -> places] /\ \A k \in 1..n : t[k] = s[at[k]]
       /\ \A j, k \in 1..n : at[j] = at[k] => j = k
  BY <1>4, <1>5, <1>8
<1>11. ASSUME places = 1..Len(s)
       PROVE  t = s
  <2>1. n = Len(s)
    BY <1>1, <1>11, FS_Interval DEF n
  <2>2. ASSUME NEW k \in 1..n
        PROVE  F(k) = k
    <3>1. k \in Nat /\ k \in places /\ k > 0
      BY <1>1, <1>11, <2>1
    <3>2. {j \in places : j < k} = 1..(k - 1)
      BY <1>1, <1>11, <2>1, <3>1
    <3>3. Cardinality(1..(k - 1)) = k - 1
      BY <3>1, FS_Interval
    <3>4. Cardinality(Ahead(places, k, order)) = k - 1
      BY <1>3, <3>1, <3>2, <3>3
    <3> QED
      BY <1>4, <1>14, <3>1, <3>4
  <2>3. \A k \in 1..n : t[k] = s[k]
    BY <1>5, <2>2
  <2> QED
    BY <1>7, <2>1, <2>3, SeqEqual
<1>12. \A i \in places : \E k \in 1..n : t[k] = s[i]
  BY <1>5, <1>9
<1> HIDE DEF at
<1> QED
  BY <1>1, <1>7, <1>10, <1>11, <1>12 DEF t

\* The first elements of a list.
LEMMA TakeFirst ==
  ASSUME NEW T, NEW s \in Seq(T), NEW n \in Nat
  PROVE  /\ Take(s, n) \in Seq(T)
         /\ Len(Take(s, n)) \in Nat /\ Len(Take(s, n)) <= n /\ Len(Take(s, n)) <= Len(s)
         /\ \A k \in 1..Len(Take(s, n)) : k \in 1..Len(s) /\ Take(s, n)[k] = s[k]
         /\ s # <<>> /\ n > 0 => Take(s, n) # <<>>
<1> DEFINE e == IF n <= Len(s) THEN n ELSE Len(s)
<1>1. Len(s) \in Nat
  OBVIOUS
<1>2. Take(s, n) = SubSeq(s, 1, e)
  BY <1>1, LeastOfTwo DEF Take
<1>3. e \in Nat /\ e <= n /\ e <= Len(s)
  BY <1>1
<1>4. /\ SubSeq(s, 1, e) \in Seq(T) /\ Len(SubSeq(s, 1, e)) = e
      /\ \A k \in 1..e : SubSeq(s, 1, e)[k] = s[k]
  BY <1>1, <1>3
<1>5. s # <<>> => Len(s) > 0
  BY <1>1
<1>6. s # <<>> /\ n > 0 => e > 0
  BY <1>1, <1>5
<1> HIDE DEF e
<1> QED
  BY <1>1, <1>2, <1>3, <1>4, <1>6

(***************************************************************************)
(* 2. Hits                                                                 *)
(***************************************************************************)
\* The ids of hits, place by place.
LEMMA IdsOf ==
  ASSUME NEW hits \in Seq(Hit)
  PROVE  /\ Ids(hits) \in Seq(Messages) /\ Len(Ids(hits)) = Len(hits)
         /\ DOMAIN Ids(hits) = 1..Len(hits) /\ DOMAIN hits = 1..Len(hits)
         /\ \A i \in 1..Len(hits) : Ids(hits)[i] = hits[i].id /\ hits[i] \in Hit
<1>1. DOMAIN hits = 1..Len(hits) /\ Len(hits) \in Nat /\ \A i \in 1..Len(hits) : hits[i] \in Hit
  OBVIOUS
<1>2. Ids(hits) = [i \in 1..Len(hits) |-> hits[i].id]
  BY <1>1 DEF Ids
<1>3. \A i \in 1..Len(hits) : hits[i].id \in Messages
  BY <1>1 DEF Hit
<1>4. Ids(hits) \in [1..Len(hits) -> Messages]
  BY <1>2, <1>3
<1> QED
  BY <1>1, <1>2, <1>4

\* OwnHits, place by place.
LEMMA OwnHitsSay ==
  ASSUME NEW hits \in Seq(Hit)
  PROVE  OwnHits(hits) <=>
           /\ \A i, j \in 1..Len(hits) : hits[i].id = hits[j].id => i = j
           /\ \A i \in 1..Len(hits) : hits[i].id \in Mine
<1>1. /\ DOMAIN Ids(hits) = 1..Len(hits)
      /\ \A i \in 1..Len(hits) : Ids(hits)[i] = hits[i].id
  BY IdsOf
<1> QED
  BY <1>1 DEF OwnHits, IsInjective, Range

\* A list of own hits keeps being one when some of them are picked.
LEMMA OwnHitsPicked ==
  ASSUME NEW hits, OwnHits(hits), NEW part \in Seq(Hit),
         NEW at \in [1..Len(part) -> 1..Len(hits)],
         \A k \in 1..Len(part) : part[k] = hits[at[k]],
         \A j, k \in 1..Len(part) : at[j] = at[k] => j = k
  PROVE  OwnHits(part)
<1>1. hits \in Seq(Hit)
  BY DEF OwnHits
<1>2. \A k \in 1..Len(part) : part[k].id \in Mine
  BY <1>1, OwnHitsSay
<1>3. ASSUME NEW j \in 1..Len(part), NEW k \in 1..Len(part), part[j].id = part[k].id
      PROVE  j = k
  <2>1. hits[at[j]].id = hits[at[k]].id
    BY <1>3
  <2>2. at[j] = at[k]
    BY <1>1, <2>1, OwnHitsSay
  <2> QED
    BY <2>2
<1> QED
  BY <1>2, <1>3, OwnHitsSay

\* The first of own hits are own hits, and some if there are any.
LEMMA OwnHitsTake ==
  ASSUME NEW hits, OwnHits(hits), NEW n \in Nat
  PROVE  /\ OwnHits(Take(hits, n)) /\ Len(Take(hits, n)) <= n
         /\ Range(Take(hits, n)) \subseteq Range(hits)
         /\ hits # <<>> /\ n > 0 => Take(hits, n) # <<>>
<1> DEFINE t == Take(hits, n)
           at == [k \in 1..Len(t) |-> k]
<1>1. hits \in Seq(Hit)
  BY DEF OwnHits
<1>2. /\ t \in Seq(Hit) /\ Len(t) \in Nat /\ Len(t) <= n
      /\ \A k \in 1..Len(t) : k \in 1..Len(hits) /\ t[k] = hits[k]
      /\ hits # <<>> /\ n > 0 => t # <<>>
  BY <1>1, TakeFirst
<1> HIDE DEF t
<1>3. at \in [1..Len(t) -> 1..Len(hits)] /\ \A k \in 1..Len(t) : at[k] = k
  BY <1>2
<1> HIDE DEF at
<1>4. OwnHits(t)
  BY <1>2, <1>3, OwnHitsPicked
<1>5. Range(t) \subseteq Range(hits)
  BY <1>1, <1>2 DEF Range
<1> QED
  BY <1>2, <1>4, <1>5 DEF t

\* Hits picked by their places are own hits, and no other than those.
LEMMA OwnHitsAt ==
  ASSUME NEW hits, OwnHits(hits), NEW places \in SUBSET (1..Len(hits))
  PROVE  /\ OwnHits(At(hits, places)) /\ Len(At(hits, places)) <= Len(hits)
         /\ Range(At(hits, places)) = {hits[i] : i \in places}
         /\ places = 1..Len(hits) => At(hits, places) = hits
<1> DEFINE t == At(hits, places)
<1>1. hits \in Seq(Hit)
  BY DEF OwnHits
<1>2. /\ t \in Seq(Hit) /\ Len(t) <= Len(hits)
      /\ \A i \in places : \E k \in 1..Len(t) : t[k] = hits[i]
      /\ places = 1..Len(hits) => t = hits
  BY <1>1, AtPlaces
<1>3. PICK at \in [1..Len(t) -> places] :
        /\ \A k \in 1..Len(t) : t[k] = hits[at[k]]
        /\ \A j, k \in 1..Len(t) : at[j] = at[k] => j = k
  BY <1>1, AtPlaces
<1> HIDE DEF t
<1>4. at \in [1..Len(t) -> 1..Len(hits)]
  OBVIOUS
<1>5. OwnHits(t)
  BY <1>2, <1>3, <1>4, OwnHitsPicked
<1>6. DOMAIN t = 1..Len(t)
  BY <1>2
<1>7. Range(t) = {hits[i] : i \in places}
  <2>1. Range(t) = {t[k] : k \in 1..Len(t)}
    BY <1>6 DEF Range
  <2>2. ASSUME NEW k \in 1..Len(t)
        PROVE  t[k] \in {hits[i] : i \in places}
    BY <1>3
  <2>3. ASSUME NEW i \in places
        PROVE  hits[i] \in {t[k] : k \in 1..Len(t)}
    BY <1>2
  <2> QED
    BY <2>1, <2>2, <2>3
<1> QED
  BY <1>2, <1>5, <1>7 DEF t

\* Dropping statuses from own hits drops those hits and no others.
LEMMA OwnHitsWithout ==
  ASSUME NEW hits, OwnHits(hits), NEW S
  PROVE  /\ OwnHits(Without(hits, S)) /\ Len(Without(hits, S)) <= Len(hits)
         /\ Range(Without(hits, S)) = {h \in Range(hits) : h.status \notin S}
         /\ (\A h \in Range(hits) : h.status \notin S) => Without(hits, S) = hits
<1> DEFINE places == {i \in DOMAIN hits : hits[i].status \notin S}
<1>1. hits \in Seq(Hit) /\ DOMAIN hits = 1..Len(hits)
  BY DEF OwnHits
<1>2. places \in SUBSET (1..Len(hits))
  BY <1>1
<1>3. Without(hits, S) = At(hits, places)
  BY DEF Without
<1>4. {hits[i] : i \in places} = {h \in Range(hits) : h.status \notin S}
  BY DEF Range
<1>5. (\A h \in Range(hits) : h.status \notin S) => places = 1..Len(hits)
  BY <1>1 DEF Range
<1> HIDE DEF places
<1> QED
  BY <1>2, <1>3, <1>4, <1>5, OwnHitsAt

\* A list of own messages, read from the table.
OwnList(ids) == ids \in Seq(Mine) /\ IsInjective(ids)

\* Own messages read from the table are own hits with the status they have there.
LEMMA OwnHitsRead ==
  ASSUME NEW ids, OwnList(ids), NEW st \in [Messages -> Statuses]
  PROVE  /\ OwnHits(Read(ids, st)) /\ Len(Read(ids, st)) = Len(ids)
         /\ Range(Read(ids, st)) = {[id |-> m, status |-> st[m]] : m \in Range(ids)}
<1> DEFINE t == Read(ids, st)
<1>0. Mine \subseteq Messages
  BY RetrievalAssumption
<1>1. /\ ids \in Seq(Mine) /\ DOMAIN ids = 1..Len(ids) /\ Len(ids) \in Nat
      /\ \A i \in 1..Len(ids) : ids[i] \in Mine
  BY DEF OwnList
<1>2. t = [i \in 1..Len(ids) |-> [id |-> ids[i], status |-> st[ids[i]]]]
  BY <1>1 DEF Read
<1>3. \A i \in 1..Len(ids) : [id |-> ids[i], status |-> st[ids[i]]] \in Hit
  BY <1>0, <1>1 DEF Hit
<1>4. t \in Seq(Hit) /\ Len(t) = Len(ids) /\ DOMAIN t = 1..Len(ids)
  BY <1>1, <1>2, <1>3
<1>5. \A i \in 1..Len(ids) : t[i] = [id |-> ids[i], status |-> st[ids[i]]]
  BY <1>2
<1> HIDE DEF t
<1>6. OwnHits(t)
  <2>1. ASSUME NEW i \in 1..Len(ids)
        PROVE  t[i].id = ids[i]
    <3>1. t[i] = [id |-> ids[i], status |-> st[ids[i]]]
      BY <1>5
    <3> QED
      BY <3>1
  <2> QED
    BY <1>1, <1>4, <2>1, OwnHitsSay DEF OwnList, IsInjective
<1>7. Range(t) = {[id |-> m, status |-> st[m]] : m \in Range(ids)}
  BY <1>1, <1>4, <1>5 DEF Range
<1> QED
  BY <1>4, <1>6, <1>7 DEF t

(***************************************************************************)
(* 3. What retrieval returns                                               *)
(***************************************************************************)
\* The best score of a message is a number.
LEMMA LeastIsOne ==
  ASSUME NEW T \in SUBSET Nat, T # {}
  PROVE  Min(T) \in Nat
<1>1. PICK n \in T : \A m \in T : ~(<<m, n>> \in OpToRel(<, Nat))
  BY NatLessThanWellFounded, WFMin
<1>2. \A m \in T : <<m, n>> \in Nat \X Nat /\ <<m, n>>[1] = m /\ <<m, n>>[2] = n
  OBVIOUS
<1>3. \A m \in T : ~(m < n)
  BY <1>1, <1>2, Zenon DEF OpToRel
<1>4. \E x \in T : \A y \in T : x <= y
  BY <1>3
<1> QED
  BY <1>4, Zenon DEF Min

\* The user's messages are finitely many numbers, and so is their age.
LEMMA MineFinite ==
  ASSUME NEW S \in SUBSET Mine
  PROVE  /\ S \in SUBSET Nat /\ IsFiniteSet(S) /\ S \subseteq Messages
         /\ \A m \in S : Age(m) \in Nat
<1>1. Mine \subseteq 1..MaxMessage /\ MaxMessage \in Nat
  BY RetrievalAssumption DEF Messages
<1>2. IsFiniteSet(1..MaxMessage) /\ S \in SUBSET (1..MaxMessage)
  BY <1>1, FS_Interval
<1>3. IsFiniteSet(S)
  BY <1>2, FS_Subset
<1> QED
  BY <1>1, <1>3 DEF Age, Messages

\* Own messages that are ranked are all there, each once.
LEMMA OwnRanking ==
  ASSUME NEW S \in SUBSET Mine, NEW score \in [S -> Nat]
  PROVE  OwnList(Ranked(S, score)) /\ Range(Ranked(S, score)) = S
<1>1. S \in SUBSET Nat /\ IsFiniteSet(S)
  BY MineFinite
<1>2. /\ Ranked(S, score) \in Seq(S)
      /\ IsInjective(Ranked(S, score)) /\ Range(Ranked(S, score)) = S
  BY <1>1, RankedPlaces
<1>3. Ranked(S, score) \in Seq(Mine)
  BY <1>2, SeqMonotonic
<1> QED
  BY <1>2, <1>3 DEF OwnList

\* match_messages finds messages of the user above the floor.
LEMMA NearestClear ==
  ASSUME NEW dist \in [Chunks -> Nat]
  PROVE  OwnList(Nearest(dist)) /\ \A m \in Range(Nearest(dist)) : Clears(m, dist)
<1> DEFINE near == {m \in Mine : Clears(m, dist)}
           score == [m \in near |-> Score(m, dist) + Age(m)]
<1>1. ASSUME NEW m \in near
      PROVE  Score(m, dist) + Age(m) \in Nat
  <2>1. /\ {dist[c] : c \in ChunksOf(m)} \in SUBSET Nat
        /\ {dist[c] : c \in ChunksOf(m)} # {}
    BY DEF Clears, ChunksOf
  <2>2. Score(m, dist) \in Nat
    BY <2>1, LeastIsOne DEF Score
  <2>3. Age(m) \in Nat
    BY MineFinite
  <2> QED
    BY <2>2, <2>3
<1>2. score \in [near -> Nat]
  BY <1>1
<1>3. Nearest(dist) = Ranked(near, score)
  BY DEF Nearest
<1>4. near \in SUBSET Mine
  OBVIOUS
<1> HIDE DEF score
<1>5. OwnList(Ranked(near, score)) /\ Range(Ranked(near, score)) = near
  BY <1>2, <1>4, OwnRanking
<1> QED
  BY <1>3, <1>5

\* The newest first: all of them, each once.
LEMMA NewestFirstAll ==
  ASSUME NEW S \in SUBSET Mine
  PROVE  OwnList(NewestFirst(S)) /\ Range(NewestFirst(S)) = S
<1>1. [m \in S |-> Age(m)] \in [S -> Nat]
  BY MineFinite
<1> QED
  BY <1>1, OwnRanking DEF NewestFirst

\* A keyword search returns every row of the user that it looks for.
LEMMA IlikeAll ==
  ASSUME NEW found, NEW st \in [Messages -> Statuses]
  PROVE  /\ OwnHits(IlikeAny(found, st))
         /\ \A m \in found \cap Mine : [id |-> m, status |-> st[m]] \in Range(IlikeAny(found, st))
<1>1. OwnList(NewestFirst(found \cap Mine)) /\ Range(NewestFirst(found \cap Mine)) = found \cap Mine
  BY NewestFirstAll
<1> QED
  BY <1>1, OwnHitsRead DEF IlikeAny

\* The fields of a row as it was read.
LEMMA IdOfRow ==
  ASSUME NEW m, NEW s
  PROVE  [id |-> m, status |-> s].id = m /\ [id |-> m, status |-> s].status = s
OBVIOUS

\* What match_messages returns after LIMIT: own hits above the floor.
LEMMA MatchedHits ==
  ASSUME NEW dist \in [Chunks -> Nat], NEW count \in Nat, NEW st \in [Messages -> Statuses]
  PROVE  LET hits == MatchUserMessages(Nearest(dist), count, st)
         IN  /\ OwnHits(hits) /\ Len(hits) <= count
             /\ \A h \in Range(hits) : Clears(h.id, dist)
<1> DEFINE all == Nearest(dist)
           t   == Take(all, count)
           hits == MatchUserMessages(all, count, st)
<1>1. OwnList(all) /\ \A m \in Range(all) : Clears(m, dist)
  BY NearestClear
<1> HIDE DEF all
<1>2. all \in Seq(Mine) /\ IsInjective(all)
  BY <1>1 DEF OwnList
<1>3. /\ t \in Seq(Mine) /\ Len(t) <= count
      /\ \A k \in 1..Len(t) : k \in 1..Len(all) /\ t[k] = all[k]
  BY <1>2, TakeFirst
<1> HIDE DEF t
<1>4. DOMAIN t = 1..Len(t) /\ DOMAIN all = 1..Len(all)
  BY <1>2, <1>3
<1>5. OwnList(t)
  BY <1>2, <1>3, <1>4 DEF OwnList, IsInjective
<1>6. \A m \in Range(t) : Clears(m, dist)
  BY <1>1, <1>3, <1>4 DEF Range
<1>7. hits = Read(t, st)
  BY DEF MatchUserMessages, t
<1>8. /\ OwnHits(hits) /\ Len(hits) = Len(t)
      /\ Range(hits) = {[id |-> m, status |-> st[m]] : m \in Range(t)}
  BY <1>5, <1>7, OwnHitsRead
<1> HIDE DEF hits
<1>9. \A h \in Range(hits) : Clears(h.id, dist)
  <2> SUFFICES ASSUME NEW m \in Range(t)
               PROVE  Clears([id |-> m, status |-> st[m]].id, dist)
    BY <1>8
  <2> QED
    BY <1>6, IdOfRow
<1>10. OwnHits(hits) /\ Len(hits) <= count
  BY <1>3, <1>8
<1> QED
  BY <1>9, <1>10 DEF hits, all

\* The assumption on the constants, in the form the proofs use.
LEMMA Assumed ==
  /\ \A q \in Queries : QueryDistance[q] \in [Chunks -> Nat]
  /\ \A m \in Messages : ChunkDistance[m] \in [Chunks -> Nat]
  /\ \A q \in Queries : RareRows[q] \subseteq Chunks
  /\ \A q \in Queries : OwnList(Overlap[q])
  /\ \A m \in Messages : OwnList(DemoNear[m])
  /\ MatchCount \in Nat /\ MatchCount > 0 /\ DigestCount \in Nat /\ DigestCount > 0
  /\ RelatedCount \in Nat /\ RelatedCount > 0
  /\ Mine \subseteq Messages
  /\ \A q \in Questions : q \notin Lookups
  BY RetrievalAssumption DEF OwnList

\* searchByMeaning: own hits above the floor of the query.
LEMMA MeaningHits ==
  ASSUME NEW q \in Queries, NEW st \in [Messages -> Statuses]
  PROVE  /\ OwnHits(SearchByMeaning(q, st))
         /\ \A h \in Range(SearchByMeaning(q, st)) : Clears(h.id, QueryDistance[q])
<1>1. NearestToQuery[q] = Nearest(QueryDistance[q])
  BY DEF NearestToQuery
<1> QED
  BY <1>1, Assumed, MatchedHits DEF SearchByMeaning

\* messagesForDigest: own hits above the floor, none in the trash or a draft.
LEMMA DigestHits ==
  ASSUME NEW q \in Queries, NEW st \in [Messages -> Statuses]
  PROVE  /\ OwnHits(MessagesForDigest(q, st)) /\ Len(MessagesForDigest(q, st)) <= DigestCount
         /\ \A h \in Range(MessagesForDigest(q, st)) :
              Clears(h.id, QueryDistance[q]) /\ h.status \notin {"trash", "draft"}
<1> DEFINE near == MatchUserMessages(Nearest(QueryDistance[q]), DigestCount, st)
           hits == Without(near, {"trash", "draft"})
<1>1. MessagesForDigest(q, st) = hits
  BY DEF MessagesForDigest, NearestToQuery
<1>2. /\ OwnHits(near) /\ Len(near) <= DigestCount
      /\ \A h \in Range(near) : Clears(h.id, QueryDistance[q])
  BY Assumed, MatchedHits
<1> HIDE DEF near
<1>3. /\ OwnHits(hits) /\ Len(hits) <= Len(near)
      /\ Range(hits) = {h \in Range(near) : h.status \notin {"trash", "draft"}}
  BY <1>2, OwnHitsWithout
<1>4. Len(hits) \in Nat /\ Len(near) \in Nat
  BY <1>2, <1>3 DEF OwnHits
<1> HIDE DEF hits
<1>5. Len(hits) <= DigestCount
  BY <1>2, <1>3, <1>4, Assumed
<1> QED
  BY <1>1, <1>2, <1>3, <1>5

\* The keyword half of a question: own messages that hold a rare word of it.
LEMMA RareHitsRead ==
  ASSUME NEW q \in Queries, NEW st \in [Messages -> Statuses], NEW hits \in RareHits(q, st)
  PROVE  /\ OwnHits(hits)
         /\ \A h \in Range(hits) : \E c \in RareRows[q] : c[1] = h.id
<1> DEFINE own  == {c \in RareRows[q] : c[1] \in Mine}
           some == kSubset(Min({4 * MatchCount, Cardinality(own)}), own)
<1>0. PICK ids \in UNION {SetToSeqs({c[1] : c \in rs}) : rs \in some} :
        hits = Without(Read(Take(ids, MatchCount), st), {"trash", "draft"})
  BY DEF RareHits
<1>1. PICK rs \in some : ids \in SetToSeqs({c[1] : c \in rs})
  BY Zenon
<1> DEFINE S == {c[1] : c \in rs}
           t == Take(ids, MatchCount)
<1>2. S \in SUBSET Mine /\ \A m \in S : \E c \in RareRows[q] : c[1] = m
  BY DEF kSubset
<1>3. ids \in [1..Cardinality(S) -> S]
      /\ \A i, j \in 1..Cardinality(S) : i # j => ids[i] # ids[j]
  BY <1>1, Zenon DEF SetToSeqs
<1>4. Cardinality(S) \in Nat
  <2> HIDE DEF S
  <2> QED
    BY <1>2, MineFinite, FS_CardinalityType
<1> HIDE DEF S, own, some
<1>5. ids \in Seq(S) /\ Len(ids) = Cardinality(S)
  BY <1>3, <1>4
<1>6. /\ t \in Seq(S)
      /\ \A k \in 1..Len(t) : k \in 1..Len(ids) /\ t[k] = ids[k]
  BY <1>5, Assumed, TakeFirst
<1> HIDE DEF t
<1>7. IsInjective(t)
  BY <1>3, <1>5, <1>6 DEF IsInjective
<1>8. OwnList(t) /\ Range(t) \subseteq S
  <2>1. t \in Seq(Mine)
    BY <1>2, <1>6, SeqMonotonic
  <2>2. Range(t) \subseteq S
    BY <1>6 DEF Range
  <2> QED
    BY <1>7, <2>1, <2>2 DEF OwnList
<1> DEFINE read == Read(t, st)
<1>9. OwnHits(read) /\ Range(read) = {[id |-> m, status |-> st[m]] : m \in Range(t)}
  BY <1>8, OwnHitsRead
<1>10. hits = Without(read, {"trash", "draft"})
  BY <1>0 DEF t
<1> HIDE DEF read
<1>11. OwnHits(hits) /\ Range(hits) \subseteq Range(read)
  BY <1>9, <1>10, OwnHitsWithout
<1>12. ASSUME NEW m \in Range(t)
       PROVE  \E c \in RareRows[q] : c[1] = [id |-> m, status |-> st[m]].id
  BY <1>2, <1>8, IdOfRow
<1> QED
  BY <1>9, <1>11, <1>12

\* The rare words' hits come first, each message once, and no more than the cap.
LEMMA MergedHits ==
  ASSUME NEW a, OwnHits(a), NEW b, OwnHits(b), NEW cap \in Nat
  PROVE  /\ OwnHits(MergeRetrieval(a, b, cap)) /\ Len(MergeRetrieval(a, b, cap)) <= cap
         /\ Range(MergeRetrieval(a, b, cap)) \subseteq Range(a) \cup Range(b)
<1> DEFINE first  == Range(Ids(a))
           places == {i \in DOMAIN b : b[i].id \notin first}
           part   == At(b, places)
           whole  == a \o part
<1>1. /\ a \in Seq(Hit) /\ b \in Seq(Hit) /\ DOMAIN b = 1..Len(b)
      /\ DOMAIN a = 1..Len(a) /\ Len(a) \in Nat
  BY DEF OwnHits
<1>2. MergeRetrieval(a, b, cap) = Take(whole, cap)
  BY DEF MergeRetrieval
<1>3. places \in SUBSET (1..Len(b))
  BY <1>1
<1>4. OwnHits(part) /\ Range(part) = {b[i] : i \in places}
  BY <1>3, OwnHitsAt
<1>5. \A h \in Range(part) : h \in Range(b) /\ h.id \notin first
  <2>1. Range(b) = {b[i] : i \in DOMAIN b}
    BY DEF Range
  <2> QED
    BY <1>4, <2>1
<1>6. \A i \in 1..Len(a) : a[i].id \in first /\ a[i] \in Range(a)
  <2>1. DOMAIN Ids(a) = 1..Len(a) /\ \A i \in 1..Len(a) : Ids(a)[i] = a[i].id
    BY <1>1, IdsOf
  <2> QED
    BY <1>1, <2>1 DEF Range
<1> HIDE DEF places, part, first
<1>7. part \in Seq(Hit) /\ Len(part) \in Nat /\ \A i \in 1..Len(part) : part[i] \in Range(part)
  BY <1>4 DEF OwnHits, Range
<1>8. whole \in Seq(Hit) /\ Len(whole) = Len(a) + Len(part) /\ DOMAIN whole = 1..Len(whole)
      /\ \A i \in 1..Len(whole) : whole[i] = IF i <= Len(a) THEN a[i] ELSE part[i - Len(a)]
  BY <1>1, <1>7
<1> HIDE DEF whole
<1>9. OwnHits(whole)
  <2>1. ASSUME NEW i \in 1..Len(whole), NEW j \in 1..Len(whole), whole[i].id = whole[j].id
        PROVE  i = j
    <3>1. CASE i <= Len(a) /\ j <= Len(a)
      <4>1. a[i].id = a[j].id /\ i \in 1..Len(a) /\ j \in 1..Len(a)
        BY <1>1, <1>8, <2>1, <3>1
      <4> QED
        BY <1>1, <4>1, OwnHitsSay
    <3>2. CASE ~(i <= Len(a)) /\ ~(j <= Len(a))
      <4>1. /\ part[i - Len(a)].id = part[j - Len(a)].id
            /\ i - Len(a) \in 1..Len(part) /\ j - Len(a) \in 1..Len(part)
        BY <1>1, <1>7, <1>8, <2>1, <3>2
      <4>2. i - Len(a) = j - Len(a)
        BY <1>4, <1>7, <4>1, OwnHitsSay
      <4> QED
        BY <1>1, <1>7, <1>8, <4>2
    <3>3. CASE i <= Len(a) /\ ~(j <= Len(a))
      <4>1. i \in 1..Len(a) /\ whole[i] = a[i]
        BY <1>1, <1>8, <3>3
      <4>2. j - Len(a) \in 1..Len(part) /\ whole[j] = part[j - Len(a)]
        BY <1>1, <1>7, <1>8, <3>3
      <4> QED
        BY <1>5, <1>6, <1>7, <2>1, <4>1, <4>2
    <3>4. CASE ~(i <= Len(a)) /\ j <= Len(a)
      <4>1. j \in 1..Len(a) /\ whole[j] = a[j]
        BY <1>1, <1>8, <3>4
      <4>2. i - Len(a) \in 1..Len(part) /\ whole[i] = part[i - Len(a)]
        BY <1>1, <1>7, <1>8, <3>4
      <4> QED
        BY <1>5, <1>6, <1>7, <2>1, <4>1, <4>2
    <3> QED
      BY <3>1, <3>2, <3>3, <3>4
  <2>2. ASSUME NEW i \in 1..Len(whole)
        PROVE  whole[i].id \in Mine
    <3>1. CASE i <= Len(a)
      <4>1. i \in 1..Len(a) /\ whole[i] = a[i]
        BY <1>1, <1>8, <3>1
      <4> QED
        BY <1>1, <4>1, OwnHitsSay
    <3>2. CASE ~(i <= Len(a))
      <4>1. i - Len(a) \in 1..Len(part) /\ whole[i] = part[i - Len(a)]
        BY <1>1, <1>7, <1>8, <3>2
      <4> QED
        BY <1>4, <1>7, <4>1, OwnHitsSay
    <3> QED
      BY <3>1, <3>2
  <2> QED
    BY <1>8, <2>1, <2>2, OwnHitsSay
<1>10. Range(whole) \subseteq Range(a) \cup Range(b)
  <2> SUFFICES ASSUME NEW i \in 1..Len(whole)
               PROVE  whole[i] \in Range(a) \cup Range(b)
    BY <1>8 DEF Range
  <2>1. CASE i <= Len(a)
    BY <1>1, <1>6, <1>8, <2>1
  <2>2. CASE ~(i <= Len(a))
    <3>1. i - Len(a) \in 1..Len(part) /\ whole[i] = part[i - Len(a)]
      BY <1>1, <1>7, <1>8, <2>2
    <3> QED
      BY <1>5, <1>7, <3>1
  <2> QED
    BY <2>1, <2>2
<1>11. /\ OwnHits(Take(whole, cap)) /\ Len(Take(whole, cap)) <= cap
       /\ Range(Take(whole, cap)) \subseteq Range(whole)
  BY <1>9, OwnHitsTake
<1> QED
  BY <1>2, <1>10, <1>11

\* What is left of hits for the rail of m.
LEMMA OthersPicked ==
  ASSUME NEW hits, OwnHits(hits), NEW m
  PROVE  /\ OwnHits(Others(hits, m)) /\ Range(Others(hits, m)) \subseteq Range(hits)
         /\ \A h \in Range(Others(hits, m)) : ThreadOf[h.id] # ThreadOf[m]
<1> DEFINE places == {i \in DOMAIN hits : /\ hits[i].id # m
                                          /\ ThreadOf[hits[i].id] # ThreadOf[m]
                                          /\ hits[i].status # "trash"}
<1>1. hits \in Seq(Hit) /\ DOMAIN hits = 1..Len(hits)
  BY DEF OwnHits
<1>2. places \in SUBSET (1..Len(hits))
  BY <1>1
<1>3. Others(hits, m) = At(hits, places)
  BY DEF Others
<1>4. /\ \A i \in places : ThreadOf[hits[i].id] # ThreadOf[m]
      /\ {hits[i] : i \in places} \subseteq Range(hits)
  BY DEF Range
<1> HIDE DEF places
<1>5. OwnHits(At(hits, places)) /\ Range(At(hits, places)) = {hits[i] : i \in places}
  BY <1>2, OwnHitsAt
<1> QED
  BY <1>3, <1>4, <1>5

\* No hits are own hits.
LEMMA NoHits == OwnHits(<<>>) /\ Range(<<>>) = {}
BY DEF OwnHits, Ids, IsInjective, Range

\* The rail of a message of this user: other threads, near its first chunk, or among
\* its neighbours in the sample mailbox.
LEMMA RelatedHits ==
  ASSUME NEW m \in Mine, NEW st \in [Messages -> Statuses]
  PROVE  /\ OwnHits(RelatedMessages(m, st)) /\ OwnHits(DemoRelated(m, st))
         /\ \A h \in Range(RelatedMessages(m, st)) :
              ThreadOf[h.id] # ThreadOf[m] /\ Clears(h.id, ChunkDistance[m])
         /\ \A h \in Range(DemoRelated(m, st)) :
              ThreadOf[h.id] # ThreadOf[m] /\ h.id \in Range(DemoNear[m])
<1>0. m \in Messages
  BY Assumed
<1> DEFINE near  == MatchUserMessages(Nearest(ChunkDistance[m]), MatchCount + RelatedCount, st)
           other == Others(near, m)
           hits  == Take(other, RelatedCount)
           dnear == Read(DemoNear[m], st)
           dother == Others(dnear, m)
<1>1. OwnHits(near) /\ \A h \in Range(near) : Clears(h.id, ChunkDistance[m])
  <2>1. MatchCount + RelatedCount \in Nat /\ ChunkDistance[m] \in [Chunks -> Nat]
    BY <1>0, Assumed
  <2> QED
    BY <2>1, MatchedHits
<1>2. RelatedMessages(m, st) = <<>> \/ RelatedMessages(m, st) = hits
  BY <1>0 DEF RelatedMessages, NearestToMessage
<1> HIDE DEF near
<1>3. /\ OwnHits(other) /\ Range(other) \subseteq Range(near)
      /\ \A h \in Range(other) : ThreadOf[h.id] # ThreadOf[m]
  BY <1>1, OthersPicked
<1> HIDE DEF other
<1>4. OwnHits(hits) /\ Range(hits) \subseteq Range(other)
  BY <1>3, Assumed, OwnHitsTake
<1> HIDE DEF hits
<1>5. /\ OwnHits(RelatedMessages(m, st))
      /\ \A h \in Range(RelatedMessages(m, st)) :
           ThreadOf[h.id] # ThreadOf[m] /\ Clears(h.id, ChunkDistance[m])
  <2>1. CASE RelatedMessages(m, st) = <<>>
    BY <2>1, NoHits
  <2>2. CASE RelatedMessages(m, st) = hits
    BY <1>1, <1>3, <1>4, <2>2
  <2> QED
    BY <1>2, <2>1, <2>2
<1>6. OwnHits(dnear) /\ Range(dnear) = {[id |-> n, status |-> st[n]] : n \in Range(DemoNear[m])}
  BY <1>0, Assumed, OwnHitsRead
<1>7. \A h \in Range(dnear) : h.id \in Range(DemoNear[m])
  BY <1>6, IdOfRow
<1>8. DemoRelated(m, st) = Take(dother, 4)
  BY DEF DemoRelated
<1> HIDE DEF dnear
<1>9. /\ OwnHits(dother) /\ Range(dother) \subseteq Range(dnear)
      /\ \A h \in Range(dother) : ThreadOf[h.id] # ThreadOf[m]
  BY <1>6, OthersPicked
<1> HIDE DEF dother
<1>10. OwnHits(DemoRelated(m, st)) /\ Range(DemoRelated(m, st)) \subseteq Range(dother)
  BY <1>8, <1>9, OwnHitsTake
<1> QED
  BY <1>5, <1>7, <1>9, <1>10

\* The ids of hits are a list of own messages.
LEMMA IdsOwn ==
  ASSUME NEW hits, OwnHits(hits)
  PROVE  /\ OwnList(Ids(hits)) /\ Range(Ids(hits)) = {h.id : h \in Range(hits)}
         /\ Ids(hits) \in Seq(Mine) /\ (hits # <<>> => Ids(hits) # <<>>)
         /\ DOMAIN Ids(hits) = DOMAIN hits
<1>1. /\ DOMAIN Ids(hits) = 1..Len(hits) /\ DOMAIN hits = 1..Len(hits)
      /\ Ids(hits) \in Seq(Messages) /\ Len(Ids(hits)) = Len(hits)
      /\ \A i \in 1..Len(hits) : Ids(hits)[i] = hits[i].id
  BY IdsOf DEF OwnHits
<1>2. Range(Ids(hits)) = {h.id : h \in Range(hits)}
  BY <1>1 DEF Range
<1>3. Ids(hits) \in Seq(Mine)
  <2>1. \A i \in 1..Len(Ids(hits)) : Ids(hits)[i] \in Mine
    BY <1>1 DEF OwnHits, Range
  <2> QED
    BY <1>1, <2>1
<1>4. hits # <<>> => Ids(hits) # <<>>
  <2>1. hits \in Seq(Hit)
    BY DEF OwnHits
  <2>2. hits # <<>> => Len(hits) # 0
    BY <2>1
  <2> QED
    BY <1>1, <2>2
<1> QED
  BY <1>1, <1>2, <1>3, <1>4 DEF OwnList, OwnHits

\* The sample mailbox's hits: of its ranking, none in the trash or a draft.
LEMMA DemoHits ==
  ASSUME NEW q \in Queries, NEW st \in [Messages -> Statuses]
  PROVE  /\ OwnHits(DemoSemanticHits(q, st))
         /\ \A h \in Range(DemoSemanticHits(q, st)) :
              h.id \in Range(Overlap[q]) /\ h.status \notin {"trash", "draft"}
<1> DEFINE read == Read(Overlap[q], st)
<1>1. OwnHits(read) /\ Range(read) = {[id |-> m, status |-> st[m]] : m \in Range(Overlap[q])}
  BY Assumed, OwnHitsRead
<1>2. \A h \in Range(read) : h.id \in Range(Overlap[q])
  BY <1>1, IdOfRow
<1>3. DemoSemanticHits(q, st) = Without(read, {"trash", "draft"})
  BY DEF DemoSemanticHits
<1> HIDE DEF read
<1> QED
  BY <1>1, <1>2, <1>3, OwnHitsWithout

\* The folder as it is listed, of own messages.
LEMMA FolderHits ==
  ASSUME status \in [Messages -> Statuses]
  PROVE  OwnHits(Folder)
<1>1. {m \in Mine : status[m] = "inbox"} \in SUBSET Mine
  OBVIOUS
<1>2. OwnList(NewestFirst({m \in Mine : status[m] = "inbox"}))
  BY <1>1, NewestFirstAll, Zenon
<1> QED
  BY <1>2, OwnHitsRead DEF Folder

\* What arrives for the rail of m.
LEMMA RailArrives ==
  ASSUME NEW m \in Mine, status \in [Messages -> Statuses]
  PROVE  /\ OwnList(FetchRelated(m))
         /\ \A n \in Range(FetchRelated(m)) :
              /\ n \in Mine /\ ThreadOf[n] # ThreadOf[m]
              /\ IF api = "demo" THEN n \in Range(DemoNear[m])
                 ELSE Clears(n, ChunkDistance[m])
<1> DEFINE hits   == RelatedHandler(m)
           places == {i \in DOMAIN hits : hits[i].status # "trash" /\ hits[i].id # m}
           kept   == At(hits, places)
<1>1. /\ OwnHits(hits)
      /\ \A h \in Range(hits) : /\ ThreadOf[h.id] # ThreadOf[m]
                                /\ IF api = "demo" THEN h.id \in Range(DemoNear[m])
                                   ELSE Clears(h.id, ChunkDistance[m])
  BY RelatedHits DEF RelatedHandler
<1>2. FetchRelated(m) = Ids(kept)
  BY DEF FetchRelated
<1> HIDE DEF hits
<1>3. places \in SUBSET (1..Len(hits)) /\ {hits[i] : i \in places} \subseteq Range(hits)
  BY <1>1 DEF OwnHits, Range
<1> HIDE DEF places
<1>4. OwnHits(kept) /\ Range(kept) \subseteq Range(hits)
  BY <1>1, <1>3, OwnHitsAt
<1> HIDE DEF kept
<1>5. /\ OwnList(Ids(kept)) /\ Ids(kept) \in Seq(Mine)
      /\ Range(Ids(kept)) = {h.id : h \in Range(kept)}
  BY <1>4, IdsOwn
<1>6. Range(Ids(kept)) \subseteq Mine
  BY <1>5 DEF Range
<1> QED
  BY <1>1, <1>2, <1>4, <1>5, <1>6

(***************************************************************************)
(* 4. The invariant, and what leaves most of it alone                      *)
(***************************************************************************)
\* What SearchInv says of one request.
Sound(r) ==
  /\ r.id \in 1..reqId /\ r.tries \in 0 .. Attempts - 1
  /\ r.stage = "reasoning" =>
       Len(r.hits) \in 1 .. IF r.kind = "digest" THEN DigestCount ELSE MatchCount
  /\ RequestTyped(r) /\ AnswerFit(r) /\ KeywordFit(r)
  /\ ~timer => RequestFit(r)

SearchInv ==
  /\ TypeOK /\ RequestsFit /\ RailsFit
  /\ AnswerOfQuery /\ SearchFinds /\ RelatedOfOpen

\* In a state of the invariant every request is sound.
LEMMA RequestsSound ==
  ASSUME SearchInv
  PROVE  \A r \in requests : Sound(r)
BY DEF SearchInv, TypeOK, RequestsFit, Sound

\* A typed request is in one of the stages.
LEMMA StageTyped ==
  ASSUME NEW r, RequestTyped(r)
  PROVE  r.stage \in Stages
BY DEF RequestTyped

\* A request that no step touches stays sound: rows move only in and out of the trash
\* among Touched, and what is in the search field changes only while the timer runs or
\* with a new reqId.
LEMMA OthersAsIs ==
  ASSUME NEW s, Sound(s), reqId \in Nat, reqId' \in Nat, reqId <= reqId',
         timer' \/ (s.id = reqId' => UNCHANGED <<reqId, query, digestMode, timer>>),
         UNCHANGED api, \A m \in Mine \ Touched : UNCHANGED status[m]
  PROVE  Sound(s)'
<1>1. s.id \in 1..reqId'
  BY DEF Sound
<1>2. /\ s.tries \in 0 .. Attempts - 1
      /\ s.stage = "reasoning" =>
           Len(s.hits) \in 1 .. IF s.kind = "digest" THEN DigestCount ELSE MatchCount
      /\ RequestTyped(s) /\ AnswerFit(s) /\ KeywordFit(s)
  BY DEF Sound
<1>3. RequestTyped(s)'
  BY <1>2 DEF RequestTyped
<1>4. AnswerFit(s)'
  BY <1>2 DEF AnswerFit, Relevant
<1>5. KeywordFit(s)'
  BY <1>2 DEF KeywordFit
<1>6. ~timer' => RequestFit(s)'
  <2>0. SUFFICES ASSUME ~timer'
                 PROVE  RequestFit(s)'
    OBVIOUS
  <2>1. CASE s.id # reqId'
    BY <2>1 DEF RequestFit
  <2>2. CASE s.id = reqId'
    <3>1. reqId' = reqId /\ query' = query /\ digestMode' = digestMode /\ timer' = timer
      BY <2>0, <2>2
    <3> QED
      BY <2>0, <3>1 DEF Sound, RequestFit, Kind
  <2> QED
    BY <2>1, <2>2
<1> QED
  BY <1>1, <1>2, <1>3, <1>4, <1>5, <1>6 DEF Sound

\* A step of one request, on the server or on the way there.
LEMMA RequestStep ==
  ASSUME SearchInv, NEW r \in requests, NEW s, Sound(s), Becomes(r, s),
         UNCHANGED <<api, status, query, digestMode, timer, page, reader, opens>>,
         events' \in 0..MaxEvents
  PROVE  SearchInv'
<1>1. \A x \in requests' : Sound(x)
  BY RequestsSound DEF Becomes
<1>2. reqId \in Nat
  BY SearchAssumption DEF SearchInv, TypeOK
<1>3. ASSUME NEW x \in requests'
      PROVE  Sound(x)'
  <2>1. Sound(x)
    BY <1>1
  <2>2. /\ UNCHANGED <<query, digestMode, timer>> /\ reqId' = reqId /\ api' = api
        /\ status' = status
    BY DEF page
  <2> QED
    BY <1>2, <2>1, <2>2, OthersAsIs
<1>4. TypeOK'
  <2>1. \A x \in requests' : /\ x.id \in 1..reqId' /\ x.stage \in Stages
                             /\ x.tries \in 0 .. Attempts - 1
                             /\ x.stage = "reasoning" =>
                                  Len(x.hits) \in 1 .. IF x.kind = "digest" THEN DigestCount ELSE MatchCount
    BY <1>3, StageTyped DEF Sound
  <2> QED
    BY <2>1 DEF SearchInv, TypeOK, page, reader
<1>5. RequestsFit'
  <2>1. (timer => query \in Queries /\ reqId < MaxRequests)'
    BY DEF SearchInv, RequestsFit, page
  <2> QED
    BY <1>3, <2>1 DEF RequestsFit, Sound
<1>6. RailsFit' /\ AnswerOfQuery' /\ RelatedOfOpen'
  BY DEF SearchInv, RailsFit, AnswerOfQuery, RelatedOfOpen, page, reader, Selected
<1>7. SearchFinds'
  BY DEF SearchInv, SearchFinds, page
<1> QED
  BY <1>4, <1>5, <1>6, <1>7 DEF SearchInv

\* No message is called Nobody.
LEMMA NobodyElse == Nobody \notin Mine
BY RetrievalAssumption DEF Nobody, Messages

\* The related effect: after it the rail is empty or belongs to the message that is open.
LEMMA RailStep ==
  ASSUME SearchInv, RelatedEffect, UNCHANGED api,
         OwnList(messages'), selectedId' \in Mine \cup {Nobody}
  PROVE  /\ RailsFit' /\ RelatedOfOpen'
         /\ OwnList(related)' /\ rails' \subseteq [of : Mine, live : BOOLEAN]
<1> DEFINE now    == Selected(messages', selectedId')
           before == Selected(messages, selectedId)
<1>1. /\ messages \in Seq(Mine) /\ related \in Seq(Mine) /\ IsInjective(related)
      /\ rails \subseteq [of : Mine, live : BOOLEAN]
      /\ \A x \in rails : x.live => x.of = before
      /\ related # <<>> => selectedId \in Range(messages)
  BY DEF SearchInv, TypeOK, RailsFit
<1>2. messages' \in Seq(Mine)
  BY DEF OwnList
<1>3. Range(messages') \subseteq Mine /\ Range(messages) \subseteq Mine
  BY <1>1, <1>2 DEF Range
<1>4. CASE now = before
  <2>1. related' = related /\ rails' = rails
    BY <1>4 DEF RelatedEffect
  <2>2. related # <<>> => selectedId' = selectedId /\ selectedId' \in Range(messages')
    BY <1>1, <1>3, <1>4, NobodyElse DEF Selected
  <2>3. RailsFit'
    BY <1>1, <1>2, <1>4, <2>1, <2>2 DEF RailsFit
  <2>4. RelatedOfOpen'
    <3>1. Range(<<>>) = {}
      BY DEF Range
    <3> QED
      BY <2>1, <2>2, <3>1 DEF SearchInv, RelatedOfOpen
  <2> QED
    BY <1>1, <2>1, <2>3, <2>4 DEF OwnList
<1>5. CASE now # before
  <2>1. /\ related' = <<>>
        /\ rails' = {[x EXCEPT !.live = FALSE] : x \in rails}
                    \cup {[of |-> m, live |-> TRUE] : m \in {now} \ {Nobody}}
    BY <1>5 DEF RelatedEffect
  <2>2. now \in Mine \cup {Nobody}
    BY <1>3 DEF Selected
  <2>3. /\ \A x \in rails' : x.live => x.of = now
        /\ rails' \subseteq [of : Mine, live : BOOLEAN]
    <3>1. ASSUME NEW x \in rails
          PROVE  /\ [x EXCEPT !.live = FALSE] \in [of : Mine, live : BOOLEAN]
                 /\ [x EXCEPT !.live = FALSE].live = FALSE
      <4>1. x \in [of : Mine, live : BOOLEAN]
        BY <1>1
      <4> QED
        BY <4>1
    <3>2. ASSUME NEW m \in {now} \ {Nobody}
          PROVE  /\ [of |-> m, live |-> TRUE] \in [of : Mine, live : BOOLEAN]
                 /\ [of |-> m, live |-> TRUE].of = now
      BY <2>2
    <3> QED
      BY <2>1, <3>1, <3>2
  <2>4. Range(<<>>) = {} /\ OwnList(<<>>)
    BY DEF Range, OwnList, IsInjective
  <2>5. RailsFit'
    BY <1>2, <2>1, <2>3 DEF RailsFit
  <2>6. RelatedOfOpen'
    BY <2>1, <2>4 DEF RelatedOfOpen
  <2> QED
    BY <2>1, <2>3, <2>4, <2>5, <2>6
<1> QED
  BY <1>4, <1>5

\* What every step but those of the list, the page and the rail leaves to prove.
LEMMA Pieces ==
  ASSUME (/\ api \in Apis /\ status \in [Messages -> Statuses]
          /\ query \in Queries \cup {"off", "blank"}
          /\ {digestMode, timer, loading, error, searchNotice} \subseteq BOOLEAN
          /\ reqId \in 0..MaxRequests /\ opens \in 0..MaxOpens /\ events \in 0..MaxEvents
          /\ OwnList(messages) /\ OwnList(related) /\ searchAnswer \in Text
          /\ selectedId \in Mine \cup {Nobody} /\ rails \subseteq [of : Mine, live : BOOLEAN]
          /\ timer => query \in Queries /\ reqId < MaxRequests
          /\ RailsFit /\ AnswerOfQuery /\ SearchFinds /\ RelatedOfOpen)',
         \A r \in requests' : Sound(r)'
  PROVE  SearchInv'
<1>1. TypeOK'
  <2>1. \A r \in requests' : /\ r.id \in 1..reqId' /\ r.stage \in Stages
                             /\ r.tries \in 0 .. Attempts - 1
                             /\ r.stage = "reasoning" =>
                                  Len(r.hits) \in 1 .. IF r.kind = "digest" THEN DigestCount ELSE MatchCount
    BY StageTyped DEF Sound
  <2>2. (/\ IsInjective(messages) /\ IsInjective(related)
         /\ Range(messages) \cup Range(related) \subseteq Mine)'
    BY DEF OwnList, Range
  <2> QED
    BY <2>1, <2>2 DEF TypeOK, Text
<1>2. RequestsFit'
  BY DEF RequestsFit, Sound
<1> QED
  BY <1>1, <1>2 DEF SearchInv

\* The types of a state of the invariant, in the form the proofs use.
LEMMA KnownTypes ==
  ASSUME SearchInv
  PROVE  /\ api \in Apis /\ status \in [Messages -> Statuses]
         /\ query \in Queries \cup {"off", "blank"}
         /\ {digestMode, timer, loading, error, searchNotice} \subseteq BOOLEAN
         /\ reqId \in 0..MaxRequests /\ opens \in 0..MaxOpens /\ events \in 0..MaxEvents
         /\ reqId \in Nat /\ MaxRequests \in Nat /\ MaxOpens \in Nat /\ MaxEvents \in Nat
         /\ OwnList(messages) /\ OwnList(related) /\ searchAnswer \in Text
         /\ selectedId \in Mine \cup {Nobody} /\ rails \subseteq [of : Mine, live : BOOLEAN]
         /\ \A r \in requests : Sound(r)
         /\ timer => query \in Queries /\ reqId < MaxRequests
BY RequestsSound, SearchAssumption DEF SearchInv, TypeOK, RequestsFit, RailsFit, OwnList, Text

(***************************************************************************)
(* 5. The server                                                           *)
(***************************************************************************)
\* Hits a reasoner may be given for a query.
Fit(kind, q, hits) ==
  /\ kind \in {"digest", "semantic"} /\ hits # <<>>
  /\ \A h \in Range(hits) :
       /\ Relevant(kind, q, h.id)
       /\ kind = "digest" => h.status \notin {"trash", "draft"}

\* Hits of a keyword search that finds what contains the query.
Complete(q, hits) ==
  \A m \in (Mine \cap WholeHits[q]) \ Touched :
    status[m] # "trash" => [id |-> m, status |-> status[m]] \in Range(hits)

\* No text cites nothing.
LEMMA NoTextTyped == NoText \in Text /\ NoText.cites = {}
BY DEF NoText, Text

\* An answer is sound when its text is about fit hits and a keyword search is complete.
LEMMA AnsweredSound ==
  ASSUME SearchInv, NEW r \in requests, NEW hits, OwnHits(hits), NEW text \in Text,
         NEW unavailable \in BOOLEAN, text.cites \subseteq DOMAIN hits,
         text # NoText => Fit(r.kind, r.query, hits),
         r.kind = "search" => Complete(r.query, hits)
  PROVE  Sound(Answered(r, hits, text, unavailable))
<1> DEFINE s == Answered(r, hits, text, unavailable)
<1>1. Sound(r)
  BY RequestsSound
<1>2. hits \in Seq(Hit)
  BY DEF OwnHits
<1>3. /\ s.id = r.id /\ s.kind = r.kind /\ s.query = r.query /\ s.tries = r.tries
      /\ s.stage = "answered" /\ s.hits = hits /\ s.text = text
  BY <1>1 DEF Sound, RequestTyped, Answered
<1>4. RequestTyped(s)
  BY <1>1, <1>2, <1>3 DEF Sound, RequestTyped, Answered, Stages
<1> HIDE DEF s
<1>5. AnswerFit(s)
  BY <1>3 DEF AnswerFit, Fit
<1>6. KeywordFit(s)
  BY <1>3 DEF KeywordFit, Complete
<1>7. ~timer => RequestFit(s)
  BY <1>1, <1>3 DEF Sound, RequestFit
<1> QED
  BY <1>1, <1>3, <1>4, <1>5, <1>6, <1>7 DEF Sound, s

\* A request may go on to the model with hits that are fit.
LEMMA ReasoningSound ==
  ASSUME SearchInv, NEW r \in requests, r.stage = "sent", api = "server",
         NEW hits, OwnHits(hits), Fit(r.kind, r.query, hits),
         Len(hits) <= IF r.kind = "digest" THEN DigestCount ELSE MatchCount
  PROVE  Sound([r EXCEPT !.stage = "reasoning", !.hits = hits])
<1> DEFINE s == [r EXCEPT !.stage = "reasoning", !.hits = hits]
<1>1. Sound(r)
  BY RequestsSound
<1>2. hits \in Seq(Hit)
  BY DEF OwnHits
<1>3. /\ s.id = r.id /\ s.kind = r.kind /\ s.query = r.query /\ s.tries = r.tries
      /\ s.stage = "reasoning" /\ s.hits = hits /\ s.text = NoText
  BY <1>1 DEF Sound, RequestTyped, AnswerFit
<1>4. RequestTyped(s)
  BY <1>1, <1>2, <1>3 DEF Sound, RequestTyped, Stages
<1>5. Len(hits) \in 1 .. IF r.kind = "digest" THEN DigestCount ELSE MatchCount
  <2>1. Len(hits) \in Nat /\ (hits # <<>> => Len(hits) # 0)
    BY <1>2
  <2> QED
    BY <2>1, Assumed DEF Fit
<1> HIDE DEF s
<1>6. AnswerFit(s)
  BY <1>3, NoTextTyped DEF AnswerFit, Fit
<1>7. KeywordFit(s)
  BY <1>3 DEF KeywordFit
<1>8. ~timer => RequestFit(s)
  BY <1>1, <1>3 DEF Sound, RequestFit
<1> QED
  BY <1>1, <1>3, <1>4, <1>5, <1>6, <1>7, <1>8 DEF Sound, s

\* What the two keyword searches answer.
LEMMA KeywordSound ==
  ASSUME SearchInv, NEW r \in requests, r.kind # "folder"
  PROVE  /\ Sound(Answered(r, SearchMessages(r.query, status), NoText, FALSE))
         /\ r.kind # "search" =>
              Sound(Answered(r, SearchByKeyword(r.query, status), NoText, FALSE))
<1>1. status \in [Messages -> Statuses]
  BY KnownTypes
<1>2. /\ OwnHits(IlikeAny(WholeHits[r.query], status))
      /\ OwnHits(IlikeAny(TermHits[r.query], status))
      /\ Complete(r.query, IlikeAny(WholeHits[r.query], status))
  BY <1>1, IlikeAll DEF Complete
<1> QED
  BY <1>2, AnsweredSound, NoTextTyped DEF SearchMessages, SearchByKeyword

\* GET /messages/semantic, up to the model.
LEMMA SemanticSound ==
  ASSUME SearchInv, NEW r \in requests, r.stage = "sent", r.kind = "semantic", api = "server",
         NEW rare \in RareHits(r.query, status),
         MergeRetrieval(rare, SearchByMeaning(r.query, status), MatchCount) # <<>>
  PROVE  Sound([r EXCEPT !.stage = "reasoning",
                  !.hits = MergeRetrieval(rare, SearchByMeaning(r.query, status), MatchCount)])
<1> DEFINE near   == SearchByMeaning(r.query, status)
           merged == MergeRetrieval(rare, near, MatchCount)
<1>1. r.query \in Queries /\ status \in [Messages -> Statuses]
  BY KnownTypes DEF Sound, RequestTyped
<1>2. /\ OwnHits(rare) /\ \A h \in Range(rare) : \E c \in RareRows[r.query] : c[1] = h.id
      /\ OwnHits(near) /\ \A h \in Range(near) : Clears(h.id, QueryDistance[r.query])
  BY <1>1, RareHitsRead, MeaningHits
<1> HIDE DEF near
<1>3. /\ OwnHits(merged) /\ Len(merged) <= MatchCount
      /\ Range(merged) \subseteq Range(rare) \cup Range(near)
  BY <1>2, Assumed, MergedHits
<1>4. Fit(r.kind, r.query, merged)
  <2>1. merged # <<>>
    BY DEF near
  <2> HIDE DEF merged
  <2> QED
    BY <1>2, <1>3, <2>1 DEF Fit, Relevant
<1> HIDE DEF merged
<1> QED
  BY <1>3, <1>4, ReasoningSound DEF merged, near

\* GET /messages/digest, up to the model.
LEMMA DigestSound ==
  ASSUME SearchInv, NEW r \in requests, r.stage = "sent", r.kind = "digest", api = "server",
         MessagesForDigest(r.query, status) # <<>>
  PROVE  Sound([r EXCEPT !.stage = "reasoning", !.hits = MessagesForDigest(r.query, status)])
<1> DEFINE hits == MessagesForDigest(r.query, status)
<1>1. r.query \in Queries /\ status \in [Messages -> Statuses]
  BY KnownTypes DEF Sound, RequestTyped
<1>2. /\ OwnHits(hits) /\ Len(hits) <= DigestCount
      /\ \A h \in Range(hits) :
           Clears(h.id, QueryDistance[r.query]) /\ h.status \notin {"trash", "draft"}
  BY <1>1, DigestHits
<1>3. Fit(r.kind, r.query, hits)
  BY <1>2 DEF Fit, Relevant
<1> HIDE DEF hits
<1> QED
  BY <1>2, <1>3, ReasoningSound DEF hits

\* An answer without hits is sound, but to a keyword search.
LEMMA EmptySound ==
  ASSUME SearchInv, NEW r \in requests, r.kind # "search"
  PROVE  Sound(Answered(r, <<>>, NoText, FALSE))
BY AnsweredSound, NoHits, NoTextTyped

\* The sample mailbox.
LEMMA DemoSound ==
  ASSUME SearchInv, NEW r \in requests, r.kind # "folder", api = "demo"
  PROVE  Sound(DemoFetch(r))
<1> DEFINE hits  == DemoSemanticHits(r.query, status)
           wide  == Take(hits, 12)
           eight == Take(hits, 8)
           all   == SearchMessages(r.query, status)
           found == Without(all, {"trash"})
<1>1. /\ r.query \in Queries /\ status \in [Messages -> Statuses]
      /\ r.kind \in {"search", "digest", "semantic"}
  BY KnownTypes DEF Sound, RequestTyped, Kinds
<1>2. OwnHits(hits) /\ \A h \in Range(hits) :
        h.id \in Range(Overlap[r.query]) /\ h.status \notin {"trash", "draft"}
  BY <1>1, DemoHits
<1>3. /\ DemoFetch(r) = Answered(r, found, NoText, FALSE) \/ r.kind # "search"
      /\ r.kind = "digest" =>
           DemoFetch(r) = Answered(r, wide, IF wide = <<>> THEN NoText ELSE DemoDigest(wide), FALSE)
      /\ r.kind = "semantic" =>
           DemoFetch(r) = IF eight = <<>> THEN Answered(r, found, NoText, FALSE)
                          ELSE Answered(r, eight, DemoAnswer(eight), FALSE)
  BY <1>1 DEF DemoFetch
<1> HIDE DEF hits
<1>4. /\ OwnHits(wide) /\ Range(wide) \subseteq Range(hits)
      /\ OwnHits(eight) /\ Range(eight) \subseteq Range(hits)
  BY <1>2, OwnHitsTake
<1>5. OwnHits(found) /\ Complete(r.query, found)
  <2>1. /\ OwnHits(all)
        /\ \A m \in WholeHits[r.query] \cap Mine : [id |-> m, status |-> status[m]] \in Range(all)
    BY <1>1, IlikeAll DEF SearchMessages
  <2> HIDE DEF all
  <2>2. OwnHits(found) /\ Range(found) = {h \in Range(all) : h.status \notin {"trash"}}
    BY <2>1, OwnHitsWithout
  <2> QED
    BY <2>1, <2>2, IdOfRow DEF Complete
<1> HIDE DEF wide, eight, found
<1>6. ASSUME NEW some, OwnHits(some), NEW n \in Nat
      PROVE  DOMAIN Take(some, n) \subseteq DOMAIN some /\ DOMAIN some \subseteq Nat
  <2>1. some \in Seq(Hit) /\ DOMAIN some = 1..Len(some)
    BY <1>6 DEF OwnHits
  <2>2. /\ Take(some, n) \in Seq(Hit) /\ Len(Take(some, n)) <= Len(some)
        /\ Len(Take(some, n)) \in Nat
    BY <2>1, TakeFirst
  <2>3. DOMAIN Take(some, n) = 1..Len(Take(some, n))
    BY <2>2
  <2>4. Len(some) \in Nat
    BY <2>1
  <2> HIDE DEF Take
  <2> QED
    BY <2>1, <2>2, <2>3, <2>4
<1>7. DemoDigest(wide) \in Text /\ DemoDigest(wide).cites \subseteq DOMAIN wide
  BY <1>4, <1>6 DEF DemoDigest, Text
<1>8. DemoAnswer(eight) \in Text /\ DemoAnswer(eight).cites \subseteq DOMAIN eight
  BY <1>4, <1>6 DEF DemoAnswer, Text
<1>9. r.kind = "digest" /\ wide # <<>> => Fit(r.kind, r.query, wide)
  BY <1>2, <1>4 DEF Fit, Relevant
<1>10. r.kind = "semantic" /\ eight # <<>> => Fit(r.kind, r.query, eight)
  BY <1>2, <1>4 DEF Fit, Relevant
<1>11. Sound(Answered(r, found, NoText, FALSE))
  BY <1>5, AnsweredSound, NoTextTyped
<1>12. CASE r.kind = "digest"
  <2>1. CASE wide = <<>>
    BY <1>3, <1>12, <2>1, EmptySound
  <2>2. CASE wide # <<>>
    BY <1>3, <1>4, <1>7, <1>9, <1>12, <2>2, AnsweredSound
  <2> QED
    BY <2>1, <2>2
<1>13. CASE r.kind = "semantic"
  <2>1. CASE eight = <<>>
    BY <1>3, <1>11, <1>13, <2>1
  <2>2. CASE eight # <<>>
    BY <1>3, <1>4, <1>8, <1>10, <1>13, <2>2, AnsweredSound
  <2> QED
    BY <2>1, <2>2
<1> QED
  BY <1>1, <1>3, <1>11, <1>12, <1>13

\* Every route, on the server and in the sample mailbox, keeps the invariant.
LEMMA ServeStep ==
  ASSUME SearchInv, NEW r \in requests, Serve(r)
  PROVE  SearchInv'
<1>1. /\ r.stage = "sent" /\ events' \in 0..MaxEvents
      /\ UNCHANGED <<api, status, query, digestMode, timer, page, reader, opens>>
  BY KnownTypes DEF Serve
<1>2. /\ status \in [Messages -> Statuses]
      /\ r.kind \in {"folder", "search", "digest", "semantic"}
  BY KnownTypes DEF Sound, RequestTyped, Kinds
<1>3. CASE r.kind = "folder"
  <2>1. Becomes(r, Answered(r, Folder, NoText, FALSE))
    BY <1>3 DEF Serve
  <2>2. Sound(Answered(r, Folder, NoText, FALSE))
    BY <1>2, <1>3, AnsweredSound, FolderHits, NoTextTyped
  <2> QED
    BY <1>1, <2>1, <2>2, RequestStep
<1>4. CASE r.kind # "folder" /\ api = "demo"
  <2>1. Becomes(r, DemoFetch(r))
    BY <1>4 DEF Serve
  <2> QED
    BY <1>1, <1>4, <2>1, DemoSound, RequestStep
<1>5. CASE api = "server" /\ r.kind = "search"
  <2>1. SearchHandler(r)
    BY <1>5 DEF Serve
  <2> QED
    BY <1>1, <1>5, <2>1, KeywordSound, RequestStep DEF SearchHandler
<1>6. CASE api = "server" /\ r.kind = "digest"
  <2>1. DigestHandler(r)
    BY <1>6 DEF Serve
  <2>2. CASE MessagesForDigest(r.query, status) = <<>>
    <3>1. Becomes(r, Answered(r, <<>>, NoText, FALSE))
      BY <2>1, <2>2 DEF DigestHandler
    <3> QED
      BY <1>1, <1>6, <3>1, EmptySound, RequestStep
  <2>3. CASE MessagesForDigest(r.query, status) # <<>>
    <3>1. Becomes(r, [r EXCEPT !.stage = "reasoning", !.hits = MessagesForDigest(r.query, status)])
      BY <2>1, <2>3 DEF DigestHandler
    <3>2. Sound([r EXCEPT !.stage = "reasoning", !.hits = MessagesForDigest(r.query, status)])
      BY <1>1, <1>6, <2>3, DigestSound
    <3> QED
      BY <1>1, <3>1, <3>2, RequestStep
  <2> QED
    BY <2>2, <2>3
<1>7. CASE api = "server" /\ r.kind = "semantic"
  <2>1. SemanticHandler(r)
    BY <1>7 DEF Serve
  <2>2. PICK rare \in RareHits(r.query, status) :
          LET merged == MergeRetrieval(rare, SearchByMeaning(r.query, status), MatchCount)
          IN Becomes(r, IF merged = <<>>
                        THEN Answered(r, SearchByKeyword(r.query, status), NoText, FALSE)
                        ELSE [r EXCEPT !.stage = "reasoning", !.hits = merged])
    BY <2>1, Zenon DEF SemanticHandler
  <2> DEFINE merged == MergeRetrieval(rare, SearchByMeaning(r.query, status), MatchCount)
  <2>3. CASE merged = <<>>
    <3>1. Becomes(r, Answered(r, SearchByKeyword(r.query, status), NoText, FALSE))
      BY <2>2, <2>3
    <3> QED
      BY <1>1, <1>7, <3>1, KeywordSound, RequestStep
  <2>4. CASE merged # <<>>
    <3>1. Becomes(r, [r EXCEPT !.stage = "reasoning", !.hits = merged])
      BY <2>2, <2>4
    <3>2. Sound([r EXCEPT !.stage = "reasoning", !.hits = merged])
      BY <1>1, <1>7, <2>4, SemanticSound
    <3> QED
      BY <1>1, <3>1, <3>2, RequestStep
  <2> QED
    BY <2>3, <2>4
<1> QED
  <2>1. api = "demo" \/ api = "server" \/ r.kind = "folder"
    BY DEF Serve
  <2> QED
    BY <1>2, <1>3, <1>4, <1>5, <1>6, <1>7, <2>1

\* So does a route that fails.
LEMMA ServeFailsStep ==
  ASSUME SearchInv, NEW r \in requests, ServeFails(r)
  PROVE  SearchInv'
<1> DEFINE s == [r EXCEPT !.stage = "failed"]
<1>1. /\ Becomes(r, s) /\ events' \in 0..MaxEvents /\ r.stage = "sent"
      /\ UNCHANGED <<api, status, query, digestMode, timer, page, reader, opens>>
  BY KnownTypes DEF ServeFails
<1>2. Sound(r)
  BY RequestsSound
<1>3. /\ s.id = r.id /\ s.kind = r.kind /\ s.query = r.query /\ s.tries = r.tries
      /\ s.stage = "failed" /\ s.hits = r.hits /\ s.text = NoText
  BY <1>1, <1>2 DEF Sound, RequestTyped, AnswerFit
<1>4. RequestTyped(s)
  BY <1>2, <1>3 DEF Sound, RequestTyped, Stages
<1> HIDE DEF s
<1>5. Sound(s)
  BY <1>2, <1>3, <1>4, NoTextTyped DEF Sound, AnswerFit, KeywordFit, RequestFit
<1> QED
  BY <1>1, <1>5, RequestStep

\* Whatever the model writes, what becomes of it cites what it read.
LEMMA GroundedSound ==
  ASSUME SearchInv, NEW r \in requests, r.stage = "reasoning", NEW text \in Text
  PROVE  Sound(Grounded(r, text))
<1> DEFINE grounded == ConstrainCitedNames(text, r.hits)
<1>1. Sound(r)
  BY RequestsSound
<1>2. /\ r.kind \in {"digest", "semantic"} /\ OwnHits(r.hits)
      /\ Fit(r.kind, r.query, r.hits) /\ r.hits \in Seq(Hit)
  BY <1>1 DEF Sound, RequestTyped, AnswerFit, Fit
<1>3. DOMAIN r.hits \subseteq Nat
  BY <1>2
<1>4. grounded \in Text /\ grounded.cites \subseteq DOMAIN r.hits
  BY DEF ConstrainCitedNames, Text
<1>5. FallbackDigest(r.hits) \in Text /\ FallbackDigest(r.hits).cites \subseteq DOMAIN r.hits
  BY <1>3 DEF FallbackDigest, Text
<1> HIDE DEF grounded
<1>6. (text = NoText) \in BOOLEAN /\ r.kind # "search"
  BY <1>2
<1>7. CASE r.kind = "digest"
  <2> DEFINE said == IF grounded = NoText THEN FallbackDigest(r.hits) ELSE grounded
  <2>1. Grounded(r, text) = Answered(r, r.hits, said, text = NoText)
    BY <1>7 DEF Grounded, DigestFromMessages, grounded
  <2>2. said \in Text /\ said.cites \subseteq DOMAIN r.hits
    BY <1>4, <1>5
  <2> HIDE DEF said
  <2> QED
    BY <1>2, <1>6, <2>1, <2>2, AnsweredSound
<1>8. CASE r.kind # "digest"
  <2>1. Grounded(r, text) = Answered(r, r.hits, grounded, text = NoText)
    BY <1>8 DEF Grounded, AnswerFromMessages, grounded
  <2> QED
    BY <1>2, <1>4, <1>6, <2>1, AnsweredSound
<1> QED
  BY <1>7, <1>8

\* So do the model and its quota errors.
LEMMA ReasonStep ==
  ASSUME SearchInv, NEW r \in requests, Reason(r)
  PROVE  SearchInv'
<1>1. /\ r.stage = "reasoning" /\ events' \in 0..MaxEvents
      /\ UNCHANGED <<api, status, query, digestMode, timer, page, reader, opens>>
  BY KnownTypes DEF Reason, GenerateContent, QuotaError
<1>2. CASE GenerateContent(r)
  <2>1. PICK cites \in Citations, words \in BOOLEAN :
          Becomes(r, Grounded(r, [cites |-> cites, words |-> words]))
    BY <1>2 DEF GenerateContent
  <2>2. [cites |-> cites, words |-> words] \in Text
    BY SearchAssumption DEF Text
  <2> QED
    BY <1>1, <2>1, <2>2, GroundedSound, RequestStep
<1>3. CASE QuotaError(r) /\ r.tries + 1 < Attempts
  <2> DEFINE s == [r EXCEPT !.tries = @ + 1]
  <2>1. Becomes(r, s)
    BY <1>3 DEF QuotaError
  <2>2. Sound(r)
    BY RequestsSound
  <2>3. /\ s.id = r.id /\ s.kind = r.kind /\ s.query = r.query /\ s.tries = r.tries + 1
        /\ s.stage = r.stage /\ s.hits = r.hits /\ s.text = r.text
    BY <2>2 DEF Sound, RequestTyped
  <2>4. r.tries \in Nat /\ Attempts \in Nat
    BY <2>2, SearchAssumption DEF Sound, RequestTyped
  <2>5. RequestTyped(s)
    BY <2>2, <2>3, <2>4 DEF Sound, RequestTyped
  <2> HIDE DEF s
  <2>6. s.tries \in 0 .. Attempts - 1
    BY <1>3, <2>3, <2>4
  <2>7. Sound(s)
    BY <2>2, <2>3, <2>5, <2>6 DEF Sound, AnswerFit, KeywordFit, RequestFit
  <2> QED
    BY <1>1, <2>1, <2>7, RequestStep
<1>4. CASE QuotaError(r) /\ ~(r.tries + 1 < Attempts)
  <2>1. Becomes(r, Grounded(r, NoText))
    BY <1>4 DEF QuotaError
  <2> QED
    BY <1>1, <2>1, GroundedSound, NoTextTyped, RequestStep
<1> QED
  BY <1>2, <1>3, <1>4 DEF Reason

(***************************************************************************)
(* 6. The client                                                           *)
(***************************************************************************)
\* A request as it is sent.
LEMMA RequestSent ==
  ASSUME NEW id \in Nat, NEW kind \in Kinds, NEW q \in Queries \cup {"off"},
         kind # "folder" => q \in Queries, kind = "semantic" => q \in Questions
  PROVE  LET r == Request(id, kind, q)
         IN  /\ RequestTyped(r) /\ AnswerFit(r) /\ KeywordFit(r)
             /\ r.id = id /\ r.kind = kind /\ r.query = q /\ r.tries = 0
             /\ r.stage = "sent" /\ r.hits = <<>>
<1> DEFINE r == Request(id, kind, q)
<1>1. /\ r.id = id /\ r.kind = kind /\ r.query = q /\ r.tries = 0
      /\ r.stage = "sent" /\ r.hits = <<>> /\ r.text = NoText
  BY DEF Request
<1>2. RequestTyped(r)
  BY NoHits, NoTextTyped DEF RequestTyped, Request, Stages
<1> HIDE DEF r
<1>3. AnswerFit(r) /\ KeywordFit(r)
  BY <1>1, NoTextTyped DEF AnswerFit, KeywordFit
<1> QED
  BY <1>1, <1>2, <1>3 DEF r

\* The keyword search that follows an empty answer is fit for the same query.
LEMMA FetchByKeywordStep ==
  ASSUME SearchInv, NEW r \in requests, FetchByKeyword(r)
  PROVE  SearchInv'
<1> DEFINE s == Request(r.id, "search", r.query)
<1>1. /\ Becomes(r, s) /\ r.kind = "semantic" /\ events' \in 0..MaxEvents
      /\ UNCHANGED <<api, status, query, digestMode, timer, page, reader, opens>>
  BY KnownTypes DEF FetchByKeyword, NeedsKeyword
<1>2. Sound(r)
  BY RequestsSound
<1>3. r.id \in Nat /\ r.query \in Queries /\ Attempts - 1 \in Nat
  BY <1>1, <1>2, SearchAssumption DEF Sound, RequestTyped
<1>4. /\ RequestTyped(s) /\ AnswerFit(s) /\ KeywordFit(s)
      /\ s.id = r.id /\ s.kind = "search" /\ s.query = r.query /\ s.tries = 0
      /\ s.stage = "sent"
  <2>1. "search" \in Kinds
    BY DEF Kinds
  <2> QED
    BY <1>3, <2>1, RequestSent
<1> HIDE DEF s
<1>5. Sound(s)
  BY <1>1, <1>2, <1>3, <1>4 DEF Sound, RequestFit
<1> QED
  BY <1>1, <1>5, RequestStep

\* What the requests that are still open say after reqId has gone up or the timer runs.
LEMMA OldRequests ==
  ASSUME SearchInv, reqId' \in Nat, reqId <= reqId', timer' \/ reqId < reqId',
         UNCHANGED <<api, status>>
  PROVE  \A s \in requests : Sound(s)'
<1> SUFFICES ASSUME NEW s \in requests
             PROVE  Sound(s)'
  OBVIOUS
<1>1. Sound(s) /\ reqId \in Nat
  BY KnownTypes
<1>2. timer' \/ s.id # reqId'
  BY <1>1 DEF Sound
<1> QED
  BY <1>1, <1>2, OthersAsIs

\* The view starts to load: nothing is said about the old query any more.
LEMMA LoadStep ==
  ASSUME SearchInv, NEW q, NEW digest \in BOOLEAN, LoadFirstPage(q, digest),
         reqId < MaxRequests, q \in Queries \/ (q = "off" /\ ~digest),
         query' = q, digestMode' = digest, timer' = FALSE,
         selectedId' \in Mine \cup {Nobody}, RelatedEffect \/ UNCHANGED reader,
         UNCHANGED <<api, status, opens, events>>
  PROVE  SearchInv'
<1>0. PICK s : s = Request(reqId + 1, Kind(q, digest), q)
  OBVIOUS
<1>1. /\ reqId' = reqId + 1 /\ loading' = TRUE /\ error' = FALSE /\ searchAnswer' = NoText
      /\ searchNotice' = FALSE /\ requests' = requests \cup {s} /\ messages' = messages
  BY <1>0 DEF LoadFirstPage, ShowNothing
<1>2. reqId \in Nat /\ reqId' \in 0..MaxRequests /\ reqId' \in Nat /\ reqId < reqId'
  BY <1>1, KnownTypes
<1>3. \A r \in requests : Sound(r)'
  BY <1>2, OldRequests
<1>4. Sound(s)'
  <2>1. Kind(q, digest) \in Kinds /\ (Kind(q, digest) # "folder" => q \in Queries)
        /\ (Kind(q, digest) = "semantic" => q \in Questions)
    BY DEF Kind, Kinds, NeedsReasoning
  <2>2. /\ RequestTyped(s) /\ AnswerFit(s) /\ KeywordFit(s)
        /\ s.id = reqId + 1 /\ s.kind = Kind(q, digest) /\ s.query = q /\ s.tries = 0
        /\ s.stage = "sent"
    BY <1>0, <1>2, <2>1, RequestSent
  <2>3. RequestTyped(s)' /\ AnswerFit(s)' /\ KeywordFit(s)'
    BY <2>2 DEF RequestTyped, AnswerFit, KeywordFit, Relevant
  <2>4. RequestFit(s)'
    BY <2>2 DEF RequestFit, Kind
  <2>5. s.id \in 1..reqId' /\ s.tries \in 0 .. Attempts - 1
    BY <1>1, <1>2, <2>2, SearchAssumption
  <2> QED
    BY <2>2, <2>3, <2>4, <2>5 DEF Sound
<1>5. /\ RailsFit' /\ RelatedOfOpen'
      /\ OwnList(related)' /\ rails' \subseteq [of : Mine, live : BOOLEAN]
  <2>1. CASE RelatedEffect
    BY <1>1, <2>1, KnownTypes, RailStep
  <2>2. CASE UNCHANGED reader
    BY <1>1, <2>2, KnownTypes DEF reader, SearchInv, RailsFit, RelatedOfOpen, Selected
  <2> QED
    BY <2>1, <2>2
<1>6. AnswerOfQuery' /\ SearchFinds'
  BY <1>1 DEF AnswerOfQuery, SearchFinds
<1>7. /\ OwnList(messages)' /\ searchAnswer' \in Text
      /\ (api \in Apis /\ status \in [Messages -> Statuses])'
      /\ query' \in Queries \cup {"off", "blank"}
      /\ {digestMode', timer', loading', error', searchNotice'} \subseteq BOOLEAN
      /\ opens' \in 0..MaxOpens /\ events' \in 0..MaxEvents
  BY <1>1, KnownTypes, NoTextTyped
<1>8. \A r \in requests' : Sound(r)'
  BY <1>1, <1>3, <1>4
<1> QED
  BY <1>2, <1>5, <1>6, <1>7, <1>8, Pieces

\* Nothing to search for empties the view, a text starts the timer.
LEMMA EffectStep ==
  ASSUME SearchInv, NEW q \in Queries \cup {"blank"}, SearchEffect(q), query' = q,
         reqId < MaxRequests, digestMode' \in BOOLEAN, UNCHANGED selectedId, RelatedEffect,
         UNCHANGED <<api, status, requests, opens, events>>
  PROVE  SearchInv'
<1>1. CASE q = "blank"
  <2>1. /\ reqId' = reqId + 1 /\ timer' = FALSE /\ loading' = FALSE /\ error' = FALSE
        /\ messages' = <<>> /\ searchAnswer' = NoText /\ searchNotice' = FALSE
    BY <1>1 DEF SearchEffect, ShowNothing
  <2>2. reqId \in Nat /\ reqId' \in 0..MaxRequests /\ reqId' \in Nat /\ reqId < reqId'
    BY <2>1, KnownTypes
  <2>3. \A r \in requests' : Sound(r)'
    BY <2>2, OldRequests
  <2>4. OwnList(messages)'
    BY <2>1 DEF OwnList, IsInjective
  <2>5. /\ RailsFit' /\ RelatedOfOpen'
        /\ OwnList(related)' /\ rails' \subseteq [of : Mine, live : BOOLEAN]
    BY <2>4, KnownTypes, RailStep
  <2>6. query' \notin Queries
    BY <1>1, SearchAssumption
  <2>7. AnswerOfQuery' /\ SearchFinds'
    BY <2>1, <2>6 DEF AnswerOfQuery, SearchFinds
  <2>8. /\ searchAnswer' \in Text
        /\ (api \in Apis /\ status \in [Messages -> Statuses])'
        /\ query' \in Queries \cup {"off", "blank"}
        /\ {digestMode', timer', loading', error', searchNotice'} \subseteq BOOLEAN
        /\ opens' \in 0..MaxOpens /\ events' \in 0..MaxEvents
        /\ selectedId' \in Mine \cup {Nobody}
    BY <2>1, KnownTypes, NoTextTyped
  <2> QED
    BY <2>1, <2>2, <2>3, <2>4, <2>5, <2>7, <2>8, Pieces
<1>2. CASE q # "blank"
  <2>1. /\ timer' = TRUE /\ reqId' = reqId /\ loading' = loading /\ error' = error
        /\ messages' = messages /\ searchAnswer' = searchAnswer /\ searchNotice' = searchNotice
    BY <1>2 DEF SearchEffect, page
  <2>2. reqId' \in Nat /\ reqId <= reqId'
    BY <2>1, KnownTypes
  <2>3. \A r \in requests' : Sound(r)'
    BY <2>1, <2>2, OldRequests
  <2>4. OwnList(messages)' /\ selectedId' \in Mine \cup {Nobody}
    BY <2>1, KnownTypes
  <2>5. /\ RailsFit' /\ RelatedOfOpen'
        /\ OwnList(related)' /\ rails' \subseteq [of : Mine, live : BOOLEAN]
    BY <2>4, RailStep
  <2>6. AnswerOfQuery' /\ SearchFinds'
    BY <2>1 DEF AnswerOfQuery, SearchFinds
  <2>7. /\ searchAnswer' \in Text
        /\ (api \in Apis /\ status \in [Messages -> Statuses])'
        /\ query' \in Queries \cup {"off", "blank"}
        /\ {digestMode', timer', loading', error', searchNotice'} \subseteq BOOLEAN
        /\ reqId' \in 0..MaxRequests /\ opens' \in 0..MaxOpens /\ events' \in 0..MaxEvents
        /\ (timer => query \in Queries /\ reqId < MaxRequests)'
    BY <1>2, <2>1, KnownTypes
  <2> QED
    BY <2>3, <2>4, <2>5, <2>6, <2>7, Pieces
<1> QED
  BY <1>1, <1>2

\* A keystroke.
LEMMA TypeStep ==
  ASSUME SearchInv, NEW q \in Queries \cup {"blank"}, Type(q)
  PROVE  SearchInv'
BY EffectStep, KnownTypes DEF Type

\* The switch between search and digest.
LEMMA ToggleStep ==
  ASSUME SearchInv, ToggleDigest
  PROVE  SearchInv'
<1>1. PICK q : q = query'
  OBVIOUS
<1>2. q \in Queries \cup {"blank"} /\ digestMode' \in BOOLEAN
  BY <1>1, KnownTypes DEF ToggleDigest
<1>3. /\ SearchEffect(q) /\ reqId < MaxRequests /\ UNCHANGED selectedId /\ RelatedEffect
      /\ UNCHANGED <<api, status, requests, opens, events>>
  BY <1>1 DEF ToggleDigest, SearchEffect
<1> QED
  BY <1>1, <1>2, <1>3, EffectStep

\* The debounce timer fires.
LEMMA DebouncedStep ==
  ASSUME SearchInv, Debounced
  PROVE  SearchInv'
<1>1. /\ timer' = FALSE /\ LoadFirstPage(query, digestMode)
      /\ UNCHANGED <<api, status, query, digestMode, reader, opens, events>>
  BY DEF Debounced
<1>2. query \in Queries /\ reqId < MaxRequests /\ digestMode \in BOOLEAN
      /\ selectedId' \in Mine \cup {Nobody}
  BY <1>1, KnownTypes DEF Debounced, reader
<1> QED
  BY <1>1, <1>2, LoadStep

\* Search mode is left.
LEMMA LeaveStep ==
  ASSUME SearchInv, ClearSearch \/ SelectFolder
  PROVE  SearchInv'
<1>1. /\ query' = "off" /\ digestMode' = FALSE /\ timer' = FALSE /\ reqId < MaxRequests
      /\ LoadFirstPage("off", FALSE)
      /\ UNCHANGED <<api, status, opens, events>>
  BY DEF ClearSearch, SelectFolder, LeaveSearch
<1>2. /\ RelatedEffect \/ UNCHANGED reader
      /\ selectedId' \in Mine \cup {Nobody}
  BY KnownTypes DEF ClearSearch, SelectFolder, reader
<1>3. PICK d \in BOOLEAN : d = FALSE
  OBVIOUS
<1> QED
  BY <1>1, <1>2, <1>3, LoadStep

\* A page that is shown is the answer to the query in the search field, if typing has
\* settled.
LEMMA KeptOwn ==
  ASSUME NEW r, RequestTyped(r)
  PROVE  /\ OwnHits(Kept(r))
         /\ r.kind \in {"search", "semantic"} =>
              Range(Kept(r)) = {h \in Range(r.hits) : h.status \notin {"trash"}}
         /\ r.kind = "digest" /\ (\A h \in Range(r.hits) : h.status \notin {"trash", "draft"})
              => Kept(r) = r.hits
<1>1. OwnHits(r.hits) /\ r.kind \in Kinds
  BY DEF RequestTyped
<1>2. /\ r.kind = "folder" => Kept(r) = Without(r.hits, {})
      /\ r.kind = "digest" => Kept(r) = Without(r.hits, {"trash", "draft"})
      /\ r.kind \in {"search", "semantic"} => Kept(r) = Without(r.hits, {"trash"})
  BY DEF Kept
<1> QED
  BY <1>1, <1>2, OwnHitsWithout DEF Kinds

\* The answer of a current page is about the query in the search field.
LEMMA ShownAnswer ==
  ASSUME SearchInv, NEW r \in requests, Current(r), Show(r), r.stage = "answered",
         UNCHANGED <<api, query, digestMode, timer>>
  PROVE  AnswerOfQuery'
<1>1. Sound(r)
  BY RequestsSound
<1>2. SUFFICES ASSUME r.text # NoText, ~timer
               PROVE  (/\ query \in (IF digestMode THEN Queries ELSE Questions)
                       /\ seen # <<>> /\ Range(seen) \subseteq Mine
                       /\ searchAnswer.cites \subseteq DOMAIN seen
                       /\ \A m \in Range(seen) :
                            IF api = "demo" THEN m \in Range(Overlap[query])
                            ELSE \/ Clears(m, QueryDistance[query])
                                 \/ ~digestMode /\ \E c \in RareRows[query] : c[1] = m)'
  BY DEF AnswerOfQuery, Show
<1>3. searchAnswer' = r.text /\ seen' = Ids(r.hits)
  BY <1>2 DEF Show
<1>4. /\ r.query = query /\ r.kind \in {"digest", "semantic"}
      /\ r.kind = Kind(query, digestMode)
      /\ r.hits # <<>> /\ r.text.cites \subseteq DOMAIN r.hits
      /\ \A h \in Range(r.hits) : Relevant(r.kind, r.query, h.id)
      /\ OwnHits(r.hits) /\ query \in Queries /\ (r.kind = "semantic" => query \in Questions)
  BY <1>1, <1>2 DEF Sound, RequestFit, Current, AnswerFit, RequestTyped
<1>5. (r.kind = "digest" <=> digestMode) /\ (r.kind = "semantic" <=> ~digestMode)
  BY <1>4, KnownTypes DEF Kind
<1>6. /\ Range(Ids(r.hits)) = {h.id : h \in Range(r.hits)} /\ Ids(r.hits) # <<>>
      /\ Ids(r.hits) \in Seq(Mine) /\ DOMAIN Ids(r.hits) = DOMAIN r.hits
  BY <1>4, IdsOwn
<1>7. Range(Ids(r.hits)) \subseteq Mine
  BY <1>6 DEF Range
<1>8. \A m \in Range(Ids(r.hits)) : Relevant(r.kind, query, m)
  BY <1>4, <1>6
<1>9. \A m \in Range(Ids(r.hits)) :
         IF api = "demo" THEN m \in Range(Overlap[query])
         ELSE \/ Clears(m, QueryDistance[query])
              \/ ~digestMode /\ \E c \in RareRows[query] : c[1] = m
  BY <1>5, <1>8 DEF Relevant
<1> QED
  BY <1>3, <1>4, <1>5, <1>6, <1>7, <1>9

\* A current page of a search lists the mail that contains the query.
LEMMA ShownFinds ==
  ASSUME SearchInv, NEW r \in requests, Current(r), Show(r), r.stage = "answered",
         ~NeedsKeyword(r), UNCHANGED <<status, query, digestMode, timer>>
  PROVE  SearchFinds'
<1> SUFFICES ASSUME NEW m \in Mine \ Touched, query \in Queries, ~digestMode, ~timer,
                    status[m] # "trash", m \in WholeHits[query]
             PROVE  (IF query \in Lookups THEN m \in Range(messages) ELSE messages # <<>>)'
  BY DEF SearchFinds
<1>1. Sound(r)
  BY RequestsSound
<1>2. query # "off"
  BY SearchAssumption
<1>3. /\ r.query = query /\ r.kind \in {"search", "semantic"}
      /\ query \in Lookups => r.kind = "search"
  <2>1. Kind(query, digestMode) = IF query \in Questions THEN "semantic" ELSE "search"
    BY <1>2 DEF Kind, NeedsReasoning
  <2> QED
    BY <1>1, <2>1, Assumed DEF Sound, RequestFit, Current
<1>4. /\ OwnHits(Kept(r))
      /\ Range(Kept(r)) = {h \in Range(r.hits) : h.status \notin {"trash"}}
  BY <1>1, <1>3, KeptOwn DEF Sound
<1>5. messages' = Ids(Kept(r))
  BY DEF Show
<1>6. /\ Range(Ids(Kept(r))) = {h.id : h \in Range(Kept(r))}
      /\ Kept(r) # <<>> => Ids(Kept(r)) # <<>>
  BY <1>4, IdsOwn
<1>7. CASE r.kind = "search"
  <2>1. [id |-> m, status |-> status[m]] \in Range(r.hits)
    BY <1>1, <1>3, <1>7 DEF Sound, KeywordFit
  <2>2. [id |-> m, status |-> status[m]] \in Range(Kept(r))
    BY <1>4, <2>1, IdOfRow
  <2>3. m \in Range(messages')
    BY <1>5, <1>6, <2>2, IdOfRow
  <2>4. messages' # <<>>
    BY <2>3 DEF Range
  <2> QED
    BY <2>3, <2>4
<1>8. CASE r.kind = "semantic"
  <2>1. Kept(r) # <<>>
    BY <1>8 DEF NeedsKeyword
  <2> QED
    BY <1>3, <1>5, <1>6, <1>8, <2>1
<1> QED
  BY <1>3, <1>7, <1>8

\* A page is received, current or overtaken.
LEMMA ReceiveStep ==
  ASSUME SearchInv, NEW r \in requests, Receive(r)
  PROVE  SearchInv'
<1>1. /\ r.stage \in {"answered", "failed"} /\ ~NeedsKeyword(r) /\ requests' = requests \ {r}
      /\ UNCHANGED selectedId /\ RelatedEffect
      /\ UNCHANGED <<api, status, query, digestMode, timer, opens, events>>
  BY DEF Receive
<1>2. Sound(r) /\ reqId \in Nat
  BY RequestsSound, KnownTypes
<1>3. reqId' = reqId
  BY DEF Receive, ShowError, Show, page
<1>4. \A s \in requests' : Sound(s)'
  <2> SUFFICES ASSUME NEW s \in requests
               PROVE  Sound(s)'
    BY <1>1
  <2>1. Sound(s)
    BY RequestsSound
  <2> QED
    BY <1>1, <1>2, <1>3, <2>1, OthersAsIs
<1>5. /\ OwnList(messages)' /\ searchAnswer' \in Text
      /\ {loading', error', searchNotice'} \subseteq BOOLEAN
      /\ AnswerOfQuery' /\ SearchFinds'
  <2>1. CASE ~Current(r)
    <3>1. UNCHANGED page
      BY <2>1 DEF Receive
    <3> QED
      BY <1>1, <3>1, KnownTypes DEF page, SearchInv, AnswerOfQuery, SearchFinds
  <2>2. CASE Current(r) /\ r.stage = "failed"
    <3>1. /\ loading' = FALSE /\ error' = TRUE /\ messages' = <<>> /\ searchAnswer' = NoText
          /\ searchNotice' = FALSE
      BY <2>2 DEF Receive, ShowError, ShowNothing
    <3>2. OwnList(<<>>)
      BY DEF OwnList, IsInjective
    <3> QED
      BY <3>1, <3>2, NoTextTyped DEF AnswerOfQuery, SearchFinds
  <2>3. CASE Current(r) /\ r.stage = "answered"
    <3>1. Show(r)
      BY <2>3 DEF Receive
    <3>2. AnswerOfQuery' /\ SearchFinds'
      BY <1>1, <2>3, <3>1, ShownAnswer, ShownFinds
    <3>3. OwnList(Ids(Kept(r))) /\ r.text \in Text
      BY <1>2, KeptOwn, IdsOwn DEF Sound, RequestTyped
    <3>4. /\ messages' = Ids(Kept(r)) /\ searchAnswer' = r.text /\ loading' = FALSE
          /\ error' = error /\ searchNotice' \in BOOLEAN
      BY <3>1 DEF Show
    <3> QED
      BY <3>2, <3>3, <3>4, KnownTypes
  <2> QED
    BY <1>1, <2>1, <2>2, <2>3
<1>6. /\ RailsFit' /\ RelatedOfOpen'
      /\ OwnList(related)' /\ rails' \subseteq [of : Mine, live : BOOLEAN]
  BY <1>1, <1>5, KnownTypes, RailStep
<1>7. /\ (api \in Apis /\ status \in [Messages -> Statuses])'
      /\ query' \in Queries \cup {"off", "blank"}
      /\ {digestMode', timer', loading', error', searchNotice'} \subseteq BOOLEAN
      /\ reqId' \in 0..MaxRequests /\ opens' \in 0..MaxOpens /\ events' \in 0..MaxEvents
      /\ selectedId' \in Mine \cup {Nobody}
      /\ (timer => query \in Queries /\ reqId < MaxRequests)'
  BY <1>1, <1>3, <1>5, KnownTypes
<1> QED
  BY <1>4, <1>5, <1>6, <1>7, Pieces

\* A message put on top of a list it is not in.
LEMMA OnTop ==
  ASSUME NEW ms, OwnList(ms), NEW m \in Mine, m \notin Range(ms)
  PROVE  OwnList(<<m>> \o ms) /\ Range(ms) \subseteq Range(<<m>> \o ms) /\ <<m>> \o ms # <<>>
<1> DEFINE t == <<m>> \o ms
<1>1. ms \in Seq(Mine) /\ Len(ms) \in Nat /\ DOMAIN ms = 1..Len(ms)
  BY DEF OwnList
<1>2. /\ t \in Seq(Mine) /\ Len(t) = Len(ms) + 1 /\ DOMAIN t = 1..Len(t)
      /\ t[1] = m /\ \A i \in 1..Len(ms) : t[i + 1] = ms[i]
  BY <1>1
<1> HIDE DEF t
<1>3. \A i \in 1..Len(t) : i = 1 \/ (i - 1 \in 1..Len(ms) /\ t[i] = ms[i - 1])
  <2> SUFFICES ASSUME NEW i \in 1..Len(t), i # 1
               PROVE  i - 1 \in 1..Len(ms) /\ t[i] = ms[i - 1]
    OBVIOUS
  <2>1. i - 1 \in 1..Len(ms) /\ (i - 1) + 1 = i
    BY <1>1, <1>2
  <2> QED
    BY <1>2, <2>1
<1>4. \A i \in 1..Len(ms) : ms[i] # m
  BY <1>1 DEF Range
<1>5. IsInjective(t)
  <2> SUFFICES ASSUME NEW i \in 1..Len(t), NEW j \in 1..Len(t), t[i] = t[j]
               PROVE  i = j
    BY <1>2 DEF IsInjective
  <2>1. CASE i = 1 \/ j = 1
    BY <1>2, <1>3, <1>4, <2>1
  <2>2. CASE i # 1 /\ j # 1
    <3>1. i - 1 \in 1..Len(ms) /\ j - 1 \in 1..Len(ms) /\ ms[i - 1] = ms[j - 1]
      BY <1>3, <2>2
    <3>2. i - 1 = j - 1
      BY <1>1, <3>1 DEF OwnList, IsInjective
    <3> QED
      BY <1>1, <3>2
  <2> QED
    BY <2>1, <2>2
<1>6. Range(ms) \subseteq Range(t)
  <2> SUFFICES ASSUME NEW i \in 1..Len(ms)
               PROVE  ms[i] \in Range(t)
    BY <1>1 DEF Range
  <2>1. i + 1 \in DOMAIN t
    BY <1>1, <1>2
  <2> QED
    BY <1>2, <2>1 DEF Range
<1>7. t # <<>>
  BY <1>1, <1>2
<1> QED
  BY <1>2, <1>5, <1>6, <1>7 DEF OwnList, t

\* A message is opened or closed, from wherever it was clicked.
LEMMA OpenStep ==
  ASSUME SearchInv, NEW m \in Mine, OpenMessage(m)
  PROVE  SearchInv'
<1>1. /\ opens' \in 0..MaxOpens /\ RelatedEffect /\ reqId' = reqId /\ timer' = timer
      /\ UNCHANGED <<api, status, query, digestMode, loading, error,
                     searchAnswer, searchNotice, seen, requests, events>>
      /\ selectedId' \in Mine \cup {Nobody}
  BY KnownTypes DEF OpenMessage
<1>2. messages' = messages \/ (m \notin Range(messages) /\ messages' = <<m>> \o messages)
  BY DEF OpenMessage, KeptInMessages
<1>3. /\ OwnList(messages') /\ Range(messages) \subseteq Range(messages')
      /\ messages # <<>> => messages' # <<>>
  BY <1>2, KnownTypes, OnTop
<1>4. \A s \in requests' : Sound(s)'
  <2> SUFFICES ASSUME NEW s \in requests
               PROVE  Sound(s)'
    BY <1>1
  <2>1. Sound(s) /\ reqId \in Nat
    BY KnownTypes
  <2> QED
    BY <1>1, <2>1, OthersAsIs
<1>5. /\ RailsFit' /\ RelatedOfOpen'
      /\ OwnList(related)' /\ rails' \subseteq [of : Mine, live : BOOLEAN]
  BY <1>1, <1>3, RailStep
<1>6. AnswerOfQuery'
  BY <1>1 DEF SearchInv, AnswerOfQuery
<1>7. SearchFinds'
  BY <1>1, <1>3 DEF SearchInv, SearchFinds
<1>8. /\ (api \in Apis /\ status \in [Messages -> Statuses])'
      /\ query' \in Queries \cup {"off", "blank"}
      /\ {digestMode', timer', loading', error', searchNotice'} \subseteq BOOLEAN
      /\ reqId' \in 0..MaxRequests /\ opens' \in 0..MaxOpens /\ events' \in 0..MaxEvents
      /\ selectedId' \in Mine \cup {Nobody} /\ OwnList(messages)' /\ searchAnswer' \in Text
      /\ (timer => query \in Queries /\ reqId < MaxRequests)'
  BY <1>1, <1>3, KnownTypes
<1> QED
  BY <1>4, <1>5, <1>6, <1>7, <1>8, Pieces

\* A rail arrives, for the message that is open or cancelled.
LEMMA ArrivesStep ==
  ASSUME SearchInv, NEW x \in rails, RelatedArrives(x)
  PROVE  SearchInv'
<1>1. /\ rails' = rails \ {x}
      /\ UNCHANGED <<api, status, query, digestMode, timer, opens, events>>
      /\ UNCHANGED <<reqId, loading, error, messages, searchAnswer, searchNotice, seen,
                     requests, selectedId>>
  BY DEF RelatedArrives, page
<1>2. /\ x.of \in Mine /\ x.live \in BOOLEAN
      /\ status \in [Messages -> Statuses] /\ OwnList(related) /\ OwnList(messages)
  BY KnownTypes
<1>3. OwnList(<<>>) /\ Range(<<>>) = {}
  BY DEF OwnList, IsInjective, Range
<1>4. \/ related' = related
      \/ related' = <<>>
      \/ x.live /\ related' = FetchRelated(x.of)
  BY <1>2 DEF RelatedArrives
<1>5. x.live => selectedId \in Range(messages) /\ x.of = selectedId
  BY <1>2, NobodyElse DEF SearchInv, RailsFit, Selected
<1>6. /\ OwnList(FetchRelated(x.of))
      /\ \A n \in Range(FetchRelated(x.of)) :
           /\ n \in Mine /\ ThreadOf[n] # ThreadOf[x.of]
           /\ IF api = "demo" THEN n \in Range(DemoNear[x.of])
              ELSE Clears(n, ChunkDistance[x.of])
  BY <1>2, RailArrives
<1>7. OwnList(related')
  BY <1>2, <1>3, <1>4, <1>6
<1>8. RelatedOfOpen'
  <2>1. CASE related' = related
    BY <1>1, <2>1 DEF SearchInv, RelatedOfOpen
  <2>2. CASE related' = <<>>
    BY <1>3, <2>2 DEF RelatedOfOpen
  <2>3. CASE x.live /\ related' = FetchRelated(x.of)
    BY <1>1, <1>5, <1>6, <2>3 DEF RelatedOfOpen
  <2> QED
    BY <1>4, <2>1, <2>2, <2>3
<1>9. RailsFit'
  <2>1. related' # <<>> => selectedId \in Range(messages)
    BY <1>4, <1>5 DEF SearchInv, RailsFit
  <2>2. related' \in Seq(Mine)
    BY <1>7 DEF OwnList
  <2> QED
    BY <1>1, <2>1, <2>2 DEF SearchInv, RailsFit, Selected
<1>10. \A s \in requests' : Sound(s)'
  <2> SUFFICES ASSUME NEW s \in requests
               PROVE  Sound(s)'
    BY <1>1
  <2>1. Sound(s) /\ reqId \in Nat
    BY KnownTypes
  <2> QED
    BY <1>1, <2>1, OthersAsIs
<1>11. AnswerOfQuery' /\ SearchFinds'
  BY <1>1 DEF SearchInv, AnswerOfQuery, SearchFinds
<1>12. /\ (api \in Apis /\ status \in [Messages -> Statuses])'
       /\ query' \in Queries \cup {"off", "blank"}
       /\ {digestMode', timer', loading', error', searchNotice'} \subseteq BOOLEAN
       /\ reqId' \in 0..MaxRequests /\ opens' \in 0..MaxOpens /\ events' \in 0..MaxEvents
       /\ selectedId' \in Mine \cup {Nobody} /\ OwnList(messages)' /\ searchAnswer' \in Text
       /\ rails' \subseteq [of : Mine, live : BOOLEAN]
       /\ (timer => query \in Queries /\ reqId < MaxRequests)'
  BY <1>1, KnownTypes
<1> QED
  BY <1>7, <1>8, <1>9, <1>10, <1>11, <1>12, Pieces

\* A message goes to the trash or comes back, whatever is under way.
LEMMA MoveStep ==
  ASSUME SearchInv, NEW m \in Touched, Move(m)
  PROVE  SearchInv'
<1>1. /\ status' = [status EXCEPT ![m] = IF @ = "trash" THEN "inbox" ELSE "trash"]
      /\ events' \in 0..MaxEvents
      /\ UNCHANGED <<api, query, digestMode, timer, opens>>
      /\ UNCHANGED <<reqId, loading, error, messages, searchAnswer, searchNotice, seen,
                     requests, selectedId, related, rails>>
  BY KnownTypes DEF Move, page, reader
<1>2. status' \in [Messages -> Statuses] /\ \A n \in Mine \ Touched : UNCHANGED status[n]
  <2>1. status \in [Messages -> Statuses] /\ Mine \subseteq Messages
    BY KnownTypes, Assumed
  <2> QED
    BY <1>1, <2>1 DEF Statuses
<1>3. \A s \in requests' : Sound(s)'
  <2> SUFFICES ASSUME NEW s \in requests
               PROVE  Sound(s)'
    BY <1>1
  <2>1. Sound(s) /\ reqId \in Nat
    BY KnownTypes
  <2> QED
    BY <1>1, <1>2, <2>1, OthersAsIs
<1>4. /\ AnswerOfQuery' /\ RelatedOfOpen' /\ RailsFit'
  BY <1>1 DEF SearchInv, AnswerOfQuery, RelatedOfOpen, RailsFit, Selected
<1>5. SearchFinds'
  BY <1>1, <1>2 DEF SearchInv, SearchFinds
<1>6. /\ api' \in Apis
      /\ query' \in Queries \cup {"off", "blank"}
      /\ {digestMode', timer', loading', error', searchNotice'} \subseteq BOOLEAN
      /\ reqId' \in 0..MaxRequests /\ opens' \in 0..MaxOpens
      /\ selectedId' \in Mine \cup {Nobody} /\ OwnList(messages)' /\ searchAnswer' \in Text
      /\ OwnList(related)' /\ rails' \subseteq [of : Mine, live : BOOLEAN]
      /\ (timer => query \in Queries /\ reqId < MaxRequests)'
  BY <1>1, KnownTypes
<1> QED
  BY <1>1, <1>2, <1>3, <1>4, <1>5, <1>6, Pieces

\* The folder of the first page, before anything is asked.
LEMMA InitSound == Init => SearchInv
<1> SUFFICES ASSUME Init
             PROVE  SearchInv
  OBVIOUS
<1>1. api \in Apis /\ status \in [Messages -> Statuses]
  BY SearchAssumption DEF Init
<1>2. OwnList(messages)
  BY <1>1, FolderHits, IdsOwn DEF Init
<1>3. OwnList(<<>>) /\ Range(<<>>) = {}
  BY DEF OwnList, IsInjective, Range
<1>4. TypeOK
  <2>1. /\ IsInjective(messages) /\ IsInjective(related)
        /\ Range(messages) \cup Range(related) \subseteq Mine
    BY <1>2, <1>3 DEF OwnList, Range, Init
  <2>2. /\ 0 \in 0..MaxRequests /\ 0 \in 0..MaxOpens /\ 0 \in 0..MaxEvents
        /\ NoText \in [cites : SUBSET Nat, words : BOOLEAN]
    BY NoTextTyped, SearchAssumption DEF Text
  <2>3. /\ query = "off" /\ digestMode = FALSE /\ timer = FALSE
        /\ reqId = 0 /\ loading = FALSE /\ error = FALSE
        /\ searchAnswer = NoText /\ searchNotice = FALSE /\ requests = {}
        /\ selectedId = Nobody /\ rails = {} /\ opens = 0 /\ events = 0
    BY DEF Init
  <2>4. {digestMode, timer, loading, error, searchNotice} \subseteq BOOLEAN
    BY <2>3
  <2> QED
    BY <1>1, <2>1, <2>2, <2>3, <2>4 DEF TypeOK
<1>5. RequestsFit
  BY DEF Init, RequestsFit
<1>6. RailsFit
  BY <1>2, <1>3 DEF Init, RailsFit, OwnList
<1>7. AnswerOfQuery /\ SearchFinds /\ RelatedOfOpen
  BY <1>3, SearchAssumption DEF Init, AnswerOfQuery, SearchFinds, RelatedOfOpen
<1> QED
  BY <1>4, <1>5, <1>6, <1>7 DEF SearchInv

\* What a click can open is a message of this user.
LEMMA OpenedIsOwn ==
  ASSUME SearchInv, OpenCitation \/ OpenRelated \/ OpenListed
  PROVE  \E m \in Mine : OpenMessage(m)
<1>1. Range(messages) \cup Range(related) \subseteq Mine
  BY DEF SearchInv, TypeOK
<1>2. CASE OpenRelated \/ OpenListed
  BY <1>1, <1>2 DEF OpenRelated, OpenListed
<1>3. CASE OpenCitation
  <2>1. PICK n \in searchAnswer.cites : SourceOf(n) # Nobody /\ OpenMessage(SourceOf(n))
    BY <1>3 DEF OpenCitation
  <2>2. SourceOf(n) \in Range(messages)
    BY <2>1 DEF SourceOf, Range
  <2> QED
    BY <1>1, <2>1, <2>2
<1> QED
  BY <1>2, <1>3

\* Every step keeps the invariant.
LEMMA NextSound ==
  ASSUME SearchInv, [Next]_vars
  PROVE  SearchInv'
<1>1. ASSUME NEW q \in Queries \cup {"blank"}, Type(q)
      PROVE  SearchInv'
  BY <1>1, TypeStep
<1>2. CASE ToggleDigest
  BY <1>2, ToggleStep
<1>3. CASE Debounced
  BY <1>3, DebouncedStep
<1>4. CASE ClearSearch \/ SelectFolder
  BY <1>4, LeaveStep
<1>5. CASE Loads
  BY <1>5, ServeStep, ReasonStep, FetchByKeywordStep, ReceiveStep DEF Loads
<1>6. ASSUME NEW r \in requests, ServeFails(r)
      PROVE  SearchInv'
  BY <1>6, ServeFailsStep
<1>7. CASE OpenCitation \/ OpenRelated \/ OpenListed
  BY <1>7, OpenedIsOwn, OpenStep
<1>8. ASSUME NEW x \in rails, RelatedArrives(x)
      PROVE  SearchInv'
  BY <1>8, ArrivesStep
<1>9. ASSUME NEW m \in Touched, Move(m)
      PROVE  SearchInv'
  BY <1>9, MoveStep
<1>10. CASE UNCHANGED vars
  <2>1. \A s \in requests' : Sound(s)'
    <3> SUFFICES ASSUME NEW s \in requests
                 PROVE  Sound(s)'
      BY <1>10 DEF vars
    <3>1. Sound(s) /\ reqId \in Nat
      BY KnownTypes
    <3> QED
      BY <1>10, <3>1, OthersAsIs DEF vars, page
  <2>2. (/\ api \in Apis /\ status \in [Messages -> Statuses]
         /\ query \in Queries \cup {"off", "blank"}
         /\ {digestMode, timer, loading, error, searchNotice} \subseteq BOOLEAN
         /\ reqId \in 0..MaxRequests /\ opens \in 0..MaxOpens /\ events \in 0..MaxEvents
         /\ OwnList(messages) /\ OwnList(related) /\ searchAnswer \in Text
         /\ selectedId \in Mine \cup {Nobody} /\ rails \subseteq [of : Mine, live : BOOLEAN]
         /\ timer => query \in Queries /\ reqId < MaxRequests)'
    BY <1>10, KnownTypes DEF vars, page, reader
  <2>3. (RailsFit /\ AnswerOfQuery /\ SearchFinds /\ RelatedOfOpen)'
    BY <1>10 DEF vars, page, reader, SearchInv, RailsFit, AnswerOfQuery, SearchFinds,
                 RelatedOfOpen, Selected
  <2> QED
    BY <2>1, <2>2, <2>3, Pieces
<1> QED
  BY <1>1, <1>2, <1>3, <1>4, <1>5, <1>6, <1>7, <1>8, <1>9, <1>10 DEF Next

(***************************************************************************)
(* 7. The theorems of SearchAnswers                                        *)
(***************************************************************************)
\* The strengthened invariant holds of every behaviour.
LEMMA AlwaysSound == Spec => []SearchInv
BY InitSound, NextSound, PTL DEF Spec

\* Every variable has its type, no message is listed twice in the list or in the rail,
\* and a reasoner reads between one hit and the limit of its route.
THEOREM TypeSafe == Spec => []TypeOK
<1>1. SearchInv => TypeOK
  BY DEF SearchInv
<1> QED
  BY <1>1, AlwaysSound, PTL

\* Once typing has settled, the answer on the screen is about the query in the search
\* field, of the kind its heading says, drawn from own mail near the query (or with a
\* rare word of it), and cites only what was read, whatever requests overtook another.
THEOREM AnswerSafe == Spec => []AnswerOfQuery
<1>1. SearchInv => AnswerOfQuery
  BY DEF SearchInv
<1> QED
  BY <1>1, AlwaysSound, PTL

\* A settled search without an error lists the mail that contains the query: all of it
\* for a lookup, something for a question.
THEOREM SearchSafe == Spec => []SearchFinds
<1>1. SearchInv => SearchFinds
  BY DEF SearchInv
<1> QED
  BY <1>1, AlwaysSound, PTL

\* The rail holds own neighbours from other threads of the message that is open now.
THEOREM RailSafe == Spec => []RelatedOfOpen
<1>1. SearchInv => RelatedOfOpen
  BY DEF SearchInv
<1> QED
  BY <1>1, AlwaysSound, PTL

\* Only a page that is received brings an answer, and that answer is its text.
LEMMA AnswerShown ==
  ASSUME SearchInv, [Next]_vars, searchAnswer' # searchAnswer, searchAnswer' # NoText
  PROVE  \E r \in requests : /\ Receive(r) /\ Current(r) /\ Show(r) /\ r.stage = "answered"
<1>1. ~UNCHANGED vars /\ ~UNCHANGED page
  BY DEF vars, page
<1>2. ASSUME NEW q \in Queries \cup {"blank"}, Type(q)
      PROVE  FALSE
  BY <1>1, <1>2 DEF Type, SearchEffect, ShowNothing
<1>3. ~ToggleDigest
  BY <1>1 DEF ToggleDigest, SearchEffect, ShowNothing
<1>4. ~Debounced /\ ~ClearSearch /\ ~SelectFolder
  BY DEF Debounced, ClearSearch, SelectFolder, LeaveSearch, LoadFirstPage, ShowNothing
<1>5. ASSUME NEW r \in requests, Serve(r) \/ Reason(r) \/ FetchByKeyword(r) \/ ServeFails(r)
      PROVE  FALSE
  BY <1>1, <1>5 DEF Serve, Reason, GenerateContent, QuotaError, FetchByKeyword, ServeFails
<1>6. ASSUME NEW m, OpenMessage(m)
      PROVE  FALSE
  BY <1>6 DEF OpenMessage
<1>7. ASSUME NEW x \in rails, RelatedArrives(x)
      PROVE  FALSE
  BY <1>1, <1>7 DEF RelatedArrives
<1>8. ASSUME NEW m \in Touched, Move(m)
      PROVE  FALSE
  BY <1>1, <1>8 DEF Move
<1>9. ~OpenCitation /\ ~OpenRelated /\ ~OpenListed
  BY <1>6 DEF OpenCitation, OpenRelated, OpenListed
<1>10. PICK r \in requests : Receive(r)
  BY <1>1, <1>2, <1>3, <1>4, <1>5, <1>7, <1>8, <1>9 DEF Next, Loads
<1>11. Current(r) /\ r.stage # "failed"
  BY <1>1, <1>10 DEF Receive, ShowError, ShowNothing
<1>12. Show(r) /\ r.stage = "answered"
  BY <1>10, <1>11 DEF Receive
<1> QED
  BY <1>10, <1>11, <1>12

\* A brief that comes up resolves: the page keeps every hit the reasoner had.
LEMMA BriefStep ==
  ASSUME SearchInv, [Next]_vars
  PROVE  searchAnswer' # searchAnswer /\ searchAnswer' # NoText /\ digestMode /\ ~timer
         => Resolves'
<1> SUFFICES ASSUME searchAnswer' # searchAnswer, searchAnswer' # NoText, digestMode, ~timer
             PROVE  Resolves'
  OBVIOUS
<1>1. PICK r \in requests : /\ Receive(r) /\ Current(r) /\ Show(r) /\ r.stage = "answered"
  BY AnswerShown
<1>2. Sound(r)
  BY RequestsSound
<1>3. searchAnswer' = r.text /\ seen' = Ids(r.hits) /\ messages' = Ids(Kept(r))
  BY <1>1 DEF Show
<1>4. /\ r.text # NoText /\ r.kind \in {"digest", "semantic"} /\ OwnHits(r.hits)
      /\ r.kind = "digest" => \A h \in Range(r.hits) : h.status \notin {"trash", "draft"}
      /\ r.text.cites \subseteq DOMAIN r.hits
      /\ r.kind = Kind(query, digestMode)
  BY <1>1, <1>2, <1>3 DEF Sound, RequestFit, Current, AnswerFit, RequestTyped
<1>5. r.kind = "digest"
  BY <1>4 DEF Kind
<1>6. Kept(r) = r.hits
  BY <1>2, <1>4, <1>5, KeptOwn DEF Sound
<1>7. DOMAIN Ids(r.hits) = DOMAIN r.hits
  BY <1>4, IdsOwn
<1> QED
  BY <1>3, <1>4, <1>6, <1>7 DEF Resolves, SourceOf

\* When a brief comes up in a settled view, each [n] in it leads to the message the
\* reasoner had as number n.
THEOREM BriefSafe == Spec => BriefResolves
<1>1. SearchInv /\ [Next]_vars
      => [searchAnswer' # searchAnswer /\ searchAnswer' # NoText /\ digestMode /\ ~timer
          => Resolves']_vars
  BY BriefStep
<1> QED
  BY <1>1, AlwaysSound, PTL DEF Spec, BriefResolves

(***************************************************************************)
(* 8. The types of Session                                                 *)
(***************************************************************************)
CONSTANTS Tabs, Workers, MaxLogins

VARIABLES token, tabPage, reason, login, call, logins, live, user, writes, job

Session == INSTANCE Session WITH page <- tabPage

\* What a login and a refresh know between their steps: a tab that is signing in
\* has a login, once it has persisted there is a row, and a listener writes to a
\* row that exists.
Knows ==
    /\ \A t \in Tabs : tabPage[t] \in Session!SigningIn => login[t] \in Session!Logins
    /\ \A t \in Tabs : tabPage[t] = "persisted" => user # Session!NoUser
    /\ \A w \in Workers : job[w].at = "ready" => user # Session!NoUser
    /\ writes # {} => user # Session!NoUser

SessionInv == Session!TypeOK /\ Knows

\* A row is told from no row by its fields.
LEMMA RowIsNotNoUser ==
    ASSUME NEW r \in Session!TokenRow
    PROVE  r # Session!NoUser
BY DEF Session!TokenRow, Session!NoUser, Session!AccessToken

\* Nobody has signed in at the start.
LEMMA SessionInit == MaxLogins \in Nat /\ Session!Init => SessionInv
BY DEF Session!Init, SessionInv, Session!TypeOK, Knows, Session!Logins, Session!Tokens,
       Session!None, Session!NoCall, Session!Stale, Session!Pages, Session!InMail, Session!SigningIn,
       Session!Client, Session!Idle, Session!Failed, Session!NoUser

\* Every step keeps the types, and what the tabs and the invocations know.
LEMMA SessionStep ==
    ASSUME MaxLogins \in Nat, SessionInv, [Session!Next]_(Session!vars)
    PROVE  SessionInv'
<1> USE DEF SessionInv, Session!TypeOK, Knows, Session!Logins, Session!Tokens, Session!None,
            Session!NoCall, Session!Stale, Session!Pages, Session!InMail, Session!SigningIn,
            Session!browser, Session!server
<1>1. ASSUME NEW t \in Tabs, Session!Load(t)
      PROVE  SessionInv'
  BY <1>1 DEF Session!Load
<1>2. ASSUME NEW t \in Tabs, Session!Consent(t)
      PROVE  SessionInv'
  BY <1>2 DEF Session!Consent
<1>3. ASSUME NEW t \in Tabs, Session!Deny(t)
      PROVE  SessionInv'
  BY <1>3 DEF Session!Deny
<1>4. ASSUME NEW t \in Tabs, Session!PersistTokens(t)
      PROVE  SessionInv'
  <2>1. user' \in Session!TokenRow
    BY <1>4 DEF Session!PersistTokens, Session!TokenRow, Session!AccessToken
  <2>2. user' # Session!NoUser
    BY <2>1, RowIsNotNoUser
  <2> QED
    BY <1>4, <2>1, <2>2 DEF Session!PersistTokens
<1>5. ASSUME NEW t \in Tabs, Session!ExchangeFails(t)
      PROVE  SessionInv'
  BY <1>5 DEF Session!ExchangeFails
<1>6. ASSUME NEW t \in Tabs, Session!StoreToken(t)
      PROVE  SessionInv'
  BY <1>6 DEF Session!StoreToken
<1>7. ASSUME NEW t \in Tabs, Session!Search(t) \/ Session!SignOut(t) \/ Session!Reload(t)
      PROVE  SessionInv'
  BY <1>7 DEF Session!Search, Session!SignOut, Session!Reload, Session!ForceSignOut
<1>8. ASSUME NEW t \in Tabs, Session!Poll(t) \/ Session!UserCalls(t)
      PROVE  SessionInv'
  BY <1>8 DEF Session!Poll, Session!UserCalls, Session!ApiFetch
<1>9. ASSUME NEW t \in Tabs, Session!Unauthorized(t) \/ Session!Answered(t) \/ Session!NetworkFails(t)
      PROVE  SessionInv'
  BY <1>9 DEF Session!Unauthorized, Session!Answered, Session!NetworkFails, Session!ForceSignOut
<1>10. ASSUME NEW w \in Workers, Session!LoadOAuth2Client(w)
       PROVE  SessionInv'
  <2>1. user \in Session!TokenRow
    BY <1>10 DEF Session!LoadOAuth2Client
  <2>2. job' \in [Workers -> Session!Client \cup {Session!Idle, Session!Failed}]
    BY <1>10, <2>1 DEF Session!LoadOAuth2Client, Session!Client, Session!TokenRow
  <2> QED
    BY <1>10, <2>1, <2>2 DEF Session!LoadOAuth2Client
<1>11. ASSUME NEW w \in Workers, Session!SilentRefresh(w)
       PROVE  SessionInv'
  <2>1. job[w] \in Session!Client
    BY <1>11 DEF Session!SilentRefresh, Session!Idle, Session!Failed
  <2>2. job' \in [Workers -> Session!Client \cup {Session!Idle, Session!Failed}]
    BY <1>11, <2>1 DEF Session!SilentRefresh, Session!Client, Session!AccessToken
  <2>3. writes' \subseteq Session!Logins
    BY <1>11, <2>1 DEF Session!SilentRefresh, Session!Client
  <2>4. user # Session!NoUser
    BY <1>11 DEF Session!SilentRefresh
  <2> QED
    BY <1>11, <2>2, <2>3, <2>4 DEF Session!SilentRefresh
<1>12. ASSUME NEW w \in Workers, Session!GmailAnswers(w) \/ Session!RefreshFails(w) \/ Session!Returns(w)
       PROVE  SessionInv'
  <2>1. job' \in [Workers -> Session!Client \cup {Session!Idle, Session!Failed}]
    BY <1>12 DEF Session!GmailAnswers, Session!RefreshFails, Session!Returns
  <2>2. \A v \in Workers : job'[v].at = "ready" => job[v].at = "ready"
    BY <1>12 DEF Session!GmailAnswers, Session!RefreshFails, Session!Returns, Session!Idle, Session!Failed
  <2> QED
    BY <1>12, <2>1, <2>2 DEF Session!GmailAnswers, Session!RefreshFails, Session!Returns
<1>13. ASSUME NEW g \in Session!Logins, Session!UpdateUserTokens(g)
       PROVE  SessionInv'
  <2>1. user \in Session!TokenRow
    BY <1>13 DEF Session!UpdateUserTokens
  <2>2. user' \in Session!TokenRow
    BY <1>13, <2>1 DEF Session!UpdateUserTokens, Session!TokenRow, Session!AccessToken
  <2>3. user' # Session!NoUser
    BY <2>2, RowIsNotNoUser
  <2> QED
    BY <1>13, <2>2, <2>3 DEF Session!UpdateUserTokens
<1>14. ASSUME NEW g \in Session!Logins, Session!WriteLost(g) \/ Session!JwtExpires(g)
       PROVE  SessionInv'
  <2>1. CASE Session!WriteLost(g)
    BY <2>1 DEF Session!WriteLost
  <2>2. CASE Session!JwtExpires(g)
    <3>1. token' \in Session!Tokens /\ (token' # Session!None => token # Session!None)
      BY <2>2 DEF Session!JwtExpires
    <3>2. call' \in [Tabs -> Session!Tokens \cup {Session!NoCall}]
      BY <2>2 DEF Session!JwtExpires
    <3> QED
      BY <2>2, <3>1, <3>2 DEF Session!JwtExpires
  <2> QED
    BY <1>14, <2>1, <2>2
<1>15. CASE Session!AccessTokenExpires
  <2>1. user \in Session!TokenRow
    BY <1>15 DEF Session!AccessTokenExpires
  <2>2. user' \in Session!TokenRow
    BY <1>15, <2>1 DEF Session!AccessTokenExpires, Session!TokenRow, Session!AccessToken
  <2>3. user' # Session!NoUser
    BY <2>2, RowIsNotNoUser
  <2> QED
    BY <1>15, <2>2, <2>3 DEF Session!AccessTokenExpires
<1>16. CASE Session!Revoke
  BY <1>16 DEF Session!Revoke
<1>17. CASE UNCHANGED Session!vars
  BY <1>17 DEF Session!vars
<1> QED
  BY <1>1, <1>2, <1>3, <1>4, <1>5, <1>6, <1>7, <1>8, <1>9, <1>10, <1>11, <1>12,
     <1>13, <1>14, <1>15, <1>16, <1>17 DEF Session!Next

\* Every variable of Session has its type, and a tab has a token only once a login has
\* stored its row.  An instance does not bring MaxLoginsAssumption along, so the theorem
\* has it as its hypothesis.
THEOREM SessionTyped == MaxLogins \in Nat => (Session!Spec => []Session!TypeOK)
<1> SUFFICES ASSUME MaxLogins \in Nat
             PROVE  Session!Spec => []Session!TypeOK
  OBVIOUS
<1>1. Session!Init => SessionInv
  BY SessionInit
<1>2. SessionInv /\ [Session!Next]_(Session!vars) => SessionInv'
  BY SessionStep
<1>3. SessionInv => Session!TypeOK
  BY DEF SessionInv
<1> QED
  BY <1>1, <1>2, <1>3, PTL DEF Session!Spec
=============================================================================
