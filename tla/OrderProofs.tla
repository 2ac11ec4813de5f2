---------------------------- MODULE OrderProofs ----------------------------
(***************************************************************************)
(* What Order's operators give, for any finite set of rows and any list of *)
(* different ids: an order determines its list, and a list its order.      *)
(***************************************************************************)
EXTENDS Order, FiniteSetTheorems, FunctionTheorems, SequenceTheorems, WellFoundedInduction, TLAPS

\* R puts the members of S in a line.
Linear(S, R) ==
    /\ IsFiniteSet(S)
    /\ \A x \in S : <<x, x>> \notin R
    /\ \A x, y \in S : x = y \/ <<x, y>> \in R \/ <<y, x>> \in R
    /\ \A x, y, z \in S : <<x, y>> \in R /\ <<y, z>> \in R => <<x, z>> \in R

Sorted(s, R) == \A i, j \in DOMAIN s : i < j => <<s[i], s[j]>> \in R

\* A list in which nothing is twice.
Straight(s) ==
    /\ s \in Seq(ToSet(s))
    /\ \A i, j \in DOMAIN s : s[i] = s[j] => i = j

Earlier(S, R, x) == {y \in S : <<y, x>> \in R}

LEMMA EarlierFacts ==
    ASSUME NEW S, NEW R, Linear(S, R)
    PROVE  /\ Cardinality(S) \in Nat
           /\ \A x \in S : Cardinality(Earlier(S, R, x)) \in 0..Cardinality(S) - 1
           /\ \A x, y \in S : <<x, y>> \in R => Cardinality(Earlier(S, R, x)) < Cardinality(Earlier(S, R, y))
<1>1. IsFiniteSet(S) /\ Cardinality(S) \in Nat
  BY FS_CardinalityType DEF Linear
<1>2. ASSUME NEW x \in S
      PROVE  /\ IsFiniteSet(Earlier(S, R, x)) /\ Cardinality(Earlier(S, R, x)) \in Nat
             /\ Cardinality(Earlier(S, R, x)) < Cardinality(S)
  <2>1. Earlier(S, R, x) \in SUBSET S /\ x \notin Earlier(S, R, x)
    BY DEF Earlier, Linear
  <2>2. /\ IsFiniteSet(Earlier(S, R, x)) /\ Cardinality(Earlier(S, R, x)) <= Cardinality(S)
        /\ Cardinality(S) = Cardinality(Earlier(S, R, x)) => S = Earlier(S, R, x)
    BY <1>1, <2>1, FS_Subset
  <2>3. Cardinality(Earlier(S, R, x)) \in Nat
    BY <2>2, FS_CardinalityType
  <2>4. QED
    BY <1>1, <2>1, <2>2, <2>3
<1>3. ASSUME NEW x \in S, NEW y \in S, <<x, y>> \in R
      PROVE  Cardinality(Earlier(S, R, x)) < Cardinality(Earlier(S, R, y))
  <2>1. Earlier(S, R, x) \in SUBSET Earlier(S, R, y)
    BY <1>3 DEF Earlier, Linear
  <2>2. x \in Earlier(S, R, y) /\ x \notin Earlier(S, R, x)
    BY <1>3 DEF Earlier, Linear
  <2>3. /\ Cardinality(Earlier(S, R, x)) <= Cardinality(Earlier(S, R, y))
        /\ Cardinality(Earlier(S, R, x)) # Cardinality(Earlier(S, R, y))
    BY <1>2, <2>1, <2>2, FS_Subset
  <2>4. QED
    BY <1>2, <2>3
<1>4. QED
  BY <1>1, <1>2, <1>3

\* Every place is somebody's, and nobody else's.
LEMMA PlacesFilled ==
    ASSUME NEW S, NEW R, Linear(S, R)
    PROVE  /\ \A x, y \in S : Cardinality(Earlier(S, R, x)) = Cardinality(Earlier(S, R, y)) => x = y
           /\ \A i \in 1..Cardinality(S) : \E x \in S : Cardinality(Earlier(S, R, x)) = i - 1
<1> DEFINE n == Cardinality(S)
           rank == [x \in S |-> Cardinality(Earlier(S, R, x))]
<1>1. n \in Nat /\ rank \in [S -> 0..n - 1] /\ IsFiniteSet(S)
  BY EarlierFacts DEF Linear
<1>2. \A x, y \in S : rank[x] = rank[y] => x = y
  <2>1. \A x, y \in S : <<x, y>> \in R => rank[x] < rank[y]
    BY EarlierFacts
  <2>2. \A x, y \in S : x = y \/ <<x, y>> \in R \/ <<y, x>> \in R
    BY DEF Linear
  <2>3. \A x \in S : rank[x] \in Int
    BY <1>1
  <2> HIDE DEF rank
  <2>4. SUFFICES ASSUME NEW x \in S, NEW y \in S, rank[x] = rank[y] PROVE x = y
    OBVIOUS
  <2>5. ~(rank[x] < rank[y]) /\ ~(rank[y] < rank[x])
    BY <2>3, <2>4
  <2>6. QED
    BY <2>1, <2>2, <2>5
<1>3. IsFiniteSet(0..n - 1) /\ Cardinality(0..n - 1) = n
  BY <1>1, FS_Interval
<1>4. rank \in Injection(S, 0..n - 1)
  BY <1>1, <1>2, Fun_IsInj
<1>5. rank \in Surjection(S, 0..n - 1)
  BY <1>3, <1>4, FS_Injection
<1>6. \A k \in 0..n - 1 : \E x \in S : rank[x] = k
  BY <1>5 DEF Surjection
<1>7. ASSUME NEW i \in 1..n PROVE \E x \in S : rank[x] = i - 1
  <2>1. i - 1 \in 0..n - 1
    BY <1>1
  <2>2. QED
    BY <1>6, <2>1
<1>8. QED
  BY <1>2, <1>7

LEMMA InOrderFacts ==
    ASSUME NEW S, NEW R, Linear(S, R)
    PROVE  LET s == InOrder(S, R) IN
           /\ s \in [1..Cardinality(S) -> S] /\ s \in Seq(S) /\ Cardinality(S) \in Nat /\ Len(s) = Cardinality(S)
           /\ ToSet(s) = S /\ Straight(s) /\ Sorted(s, R)
<1> DEFINE n == Cardinality(S)
           s == InOrder(S, R)
           At(x) == Cardinality(Earlier(S, R, x))
<1>1. n \in Nat /\ \A x \in S : At(x) \in 0..n - 1
  BY EarlierFacts
<1>2. s = [i \in 1..n |-> CHOOSE x \in S : At(x) = i - 1]
  BY DEF InOrder, Earlier
<1>3. ASSUME NEW i \in 1..n PROVE s[i] \in S /\ At(s[i]) = i - 1
  BY <1>2, PlacesFilled
<1> HIDE DEF s, At
<1>4. s \in [1..n -> S] /\ s \in Seq(S) /\ Len(s) = n /\ DOMAIN s = 1..n
  BY <1>1, <1>2, <1>3
<1>5. \A x \in S : \E i \in 1..n : s[i] = x
  <2> SUFFICES ASSUME NEW x \in S PROVE \E i \in 1..n : s[i] = x
    OBVIOUS
  <2>1. At(x) + 1 \in 1..n /\ (At(x) + 1) - 1 = At(x)
    BY <1>1
  <2>2. s[At(x) + 1] \in S /\ At(s[At(x) + 1]) = At(x)
    BY <1>3, <2>1
  <2>3. s[At(x) + 1] = x
    BY <2>2, PlacesFilled DEF At
  <2>4. QED
    BY <2>1, <2>3
<1>6. ToSet(s) = S
  BY <1>4, <1>5 DEF ToSet
<1>7. \A i, j \in 1..n : s[i] = s[j] => i = j
  BY <1>1, <1>3
<1>8. Sorted(s, R)
  <2> SUFFICES ASSUME NEW i \in 1..n, NEW j \in 1..n, i < j PROVE <<s[i], s[j]>> \in R
    BY <1>4 DEF Sorted
  <2>1. s[i] # s[j] /\ s[i] \in S /\ s[j] \in S
    BY <1>4, <1>7
  <2>2. ~(At(s[j]) < At(s[i]))
    BY <1>1, <1>3
  <2>3. <<s[j], s[i]>> \notin R
    BY <2>1, <2>2, EarlierFacts DEF At
  <2>4. QED
    BY <2>1, <2>3 DEF Linear
<1>9. Straight(s)
  BY <1>4, <1>6, <1>7 DEF Straight
<1>10. QED
  BY <1>1, <1>4, <1>6, <1>8, <1>9 DEF s

LEMMA UpToCounts == \A n \in Nat : IsFiniteSet(1..n) /\ Cardinality(1..n) = n
<1> SUFFICES ASSUME NEW n \in Nat PROVE IsFiniteSet(1..n) /\ Cardinality(1..n) = n
  OBVIOUS
<1>1. IsFiniteSet(1..n) /\ Cardinality(1..n) = IF 1 > n THEN 0 ELSE n - 1 + 1
  BY FS_Interval
<1>2. QED
  BY <1>1

\* Only one list has its members in an order.
LEMMA OnlyOneInOrder ==
    ASSUME NEW R, NEW s, Straight(s), Linear(ToSet(s), R), Sorted(s, R)
    PROVE  s = InOrder(ToSet(s), R)
<1> DEFINE S == ToSet(s)
           n == Len(s)
           At(x) == Cardinality(Earlier(S, R, x))
<1>1. n \in Nat /\ DOMAIN s = 1..n /\ s \in [1..n -> S]
  BY DEF Straight
<1>2. ASSUME NEW i \in 1..n PROVE At(s[i]) = i - 1
  <2> DEFINE lower == [k \in 1..i - 1 |-> s[k]]
             E == Earlier(S, R, s[i])
  <2>1. \A k \in 1..n : <<s[k], s[i]>> \in R <=> k < i
    <3> SUFFICES ASSUME NEW k \in 1..n PROVE <<s[k], s[i]>> \in R <=> k < i
      OBVIOUS
    <3>1. CASE k < i
      BY <1>1, <3>1 DEF Sorted
    <3>2. CASE k = i
      <4>1. s[k] \in S /\ s[i] = s[k]
        BY <1>1, <3>2
      <4>2. QED
        BY <3>2, <4>1 DEF Linear
    <3>3. CASE k > i
      <4>1. <<s[i], s[k]>> \in R /\ s[i] \in S /\ s[k] \in S
        BY <1>1, <3>3 DEF Sorted
      <4>2. <<s[k], s[i]>> \notin R
        BY <4>1 DEF Linear
      <4>3. QED
        BY <1>1, <3>3, <4>2
    <3>4. QED
      BY <1>1, <3>1, <3>2, <3>3
  <2>2. \A x \in S : \E k \in 1..n : s[k] = x
    BY <1>1 DEF ToSet
  <2>3. lower \in [1..i - 1 -> E]
    <3> SUFFICES ASSUME NEW k \in 1..i - 1 PROVE s[k] \in E
      OBVIOUS
    <3>1. k \in 1..n /\ k < i /\ s[k] \in S
      BY <1>1
    <3>2. QED
      BY <2>1, <3>1 DEF Earlier
  <2>4. \A x \in E : \E k \in 1..i - 1 : lower[k] = x
    <3> SUFFICES ASSUME NEW x \in E PROVE \E k \in 1..i - 1 : s[k] = x
      OBVIOUS
    <3>1. x \in S /\ <<x, s[i]>> \in R
      BY DEF Earlier
    <3>2. PICK k \in 1..n : s[k] = x
      BY <2>2, <3>1
    <3>3. k < i
      BY <2>1, <3>1, <3>2
    <3>4. k \in 1..i - 1
      BY <1>1, <3>3
    <3>5. QED
      BY <3>2, <3>4
  <2>5. \A k, l \in 1..i - 1 : lower[k] = lower[l] => k = l
    <3> SUFFICES ASSUME NEW k \in 1..i - 1, NEW l \in 1..i - 1, s[k] = s[l] PROVE k = l
      OBVIOUS
    <3>1. k \in 1..n /\ l \in 1..n
      BY <1>1
    <3>2. QED
      BY <1>1, <3>1 DEF Straight
  <2> HIDE DEF lower, E
  <2>6. lower \in Bijection(1..i - 1, E)
    BY <2>3, <2>4, <2>5, Fun_IsBij
  <2>7. IsFiniteSet(1..i - 1) /\ Cardinality(1..i - 1) = i - 1
    BY <1>1, UpToCounts
  <2>8. ExistsBijection(1..i - 1, E)
    BY <2>6 DEF ExistsBijection
  <2>9. Cardinality(E) = i - 1
    BY <2>7, <2>8, FS_Bijection
  <2>10. QED
    BY <2>9 DEF E
<1>3. Cardinality(S) = n
  <2>1. \A x \in S : \E k \in 1..n : s[k] = x
    BY <1>1 DEF ToSet
  <2>2. \A i, j \in 1..n : s[i] = s[j] => i = j
    BY <1>1 DEF Straight
  <2>3. s \in Bijection(1..n, S)
    BY <1>1, <2>1, <2>2, Fun_IsBij
  <2>4. ExistsBijection(1..n, S) /\ IsFiniteSet(1..n) /\ Cardinality(1..n) = n
    BY <1>1, <2>3, UpToCounts DEF ExistsBijection
  <2>5. QED
    BY <2>4, FS_Bijection
<1> HIDE DEF At, n
<1>4. ASSUME NEW i \in 1..n PROVE s[i] = CHOOSE x \in S : At(x) = i - 1
  <2>1. s[i] \in S /\ At(s[i]) = i - 1
    BY <1>1, <1>2
  <2>2. \A x \in S : At(x) = i - 1 => x = s[i]
    BY <2>1, PlacesFilled DEF At
  <2>3. QED
    BY <2>1, <2>2
<1>5. InOrder(S, R) = [i \in 1..n |-> CHOOSE x \in S : At(x) = i - 1]
  BY <1>3 DEF InOrder, At, Earlier
<1>6. QED
  BY <1>1, <1>4, <1>5

-----------------------------------------------------------------------------
(* Lists *)

LEMMA StraightFacts ==
    ASSUME NEW s, Straight(s)
    PROVE  /\ Len(s) \in Nat /\ DOMAIN s = 1..Len(s) /\ s \in [1..Len(s) -> ToSet(s)]
           /\ \A i \in DOMAIN s : s[i] \in ToSet(s)
           /\ \A x \in ToSet(s) : \E i \in DOMAIN s : s[i] = x
           /\ \A i, j \in DOMAIN s : s[i] = s[j] => i = j
BY DEF Straight, ToSet

LEMMA BeforeMeans ==
    ASSUME NEW s, Straight(s)
    PROVE  \A i, j \in DOMAIN s : <<s[i], s[j]>> \in Before(s) <=> i < j
<1> SUFFICES ASSUME NEW i \in DOMAIN s, NEW j \in DOMAIN s
             PROVE  <<s[i], s[j]>> \in Before(s) <=> i < j
  OBVIOUS
<1>1. ASSUME i < j PROVE <<s[i], s[j]>> \in Before(s)
  BY <1>1, StraightFacts DEF Before
<1>2. ASSUME <<s[i], s[j]>> \in Before(s) PROVE i < j
  <2>1. PICK k \in DOMAIN s, l \in DOMAIN s : k < l /\ s[k] = s[i] /\ s[l] = s[j]
    BY <1>2 DEF Before
  <2>2. k = i /\ l = j
    BY <2>1, StraightFacts
  <2>3. QED
    BY <2>1, <2>2
<1>3. QED
  BY <1>1, <1>2

LEMMA BeforeWithin == ASSUME NEW s, NEW x, NEW y, <<x, y>> \in Before(s) PROVE x \in ToSet(s) /\ y \in ToSet(s)
BY DEF Before

\* The order of a list is one, and the list is the one in that order.
LEMMA BeforeLinear == ASSUME NEW s, Straight(s) PROVE Linear(ToSet(s), Before(s)) /\ Sorted(s, Before(s))
<1>1. IsFiniteSet(ToSet(s))
  <2>1. s \in Bijection(1..Len(s), ToSet(s))
    BY StraightFacts, Fun_IsBij
  <2>2. ExistsBijection(1..Len(s), ToSet(s)) /\ IsFiniteSet(1..Len(s))
    BY <2>1, UpToCounts, StraightFacts DEF ExistsBijection
  <2>3. QED
    BY <2>2, FS_Bijection
<1>2. \A x \in ToSet(s) : <<x, x>> \notin Before(s)
  <2> SUFFICES ASSUME NEW x \in ToSet(s) PROVE <<x, x>> \notin Before(s)
    OBVIOUS
  <2>1. PICK i \in DOMAIN s : s[i] = x
    BY StraightFacts
  <2>2. i \in Nat /\ ~(i < i)
    BY StraightFacts
  <2>3. QED
    BY <2>1, <2>2, BeforeMeans
<1>3. \A x, y \in ToSet(s) : x = y \/ <<x, y>> \in Before(s) \/ <<y, x>> \in Before(s)
  <2> SUFFICES ASSUME NEW x \in ToSet(s), NEW y \in ToSet(s)
               PROVE  x = y \/ <<x, y>> \in Before(s) \/ <<y, x>> \in Before(s)
    OBVIOUS
  <2>1. PICK i \in DOMAIN s, j \in DOMAIN s : s[i] = x /\ s[j] = y
    BY StraightFacts
  <2>2. i < j \/ j < i \/ i = j
    BY StraightFacts
  <2>3. QED
    BY <2>1, <2>2, BeforeMeans
<1>4. ASSUME NEW x \in ToSet(s), NEW y \in ToSet(s), NEW z \in ToSet(s),
             <<x, y>> \in Before(s), <<y, z>> \in Before(s)
      PROVE  <<x, z>> \in Before(s)
  <2>1. PICK i \in DOMAIN s, j \in DOMAIN s, k \in DOMAIN s : s[i] = x /\ s[j] = y /\ s[k] = z
    BY StraightFacts
  <2>2. i < j /\ j < k
    BY <1>4, <2>1, BeforeMeans
  <2>3. i < k
    BY <2>2, StraightFacts
  <2>4. QED
    BY <2>1, <2>3, BeforeMeans
<1>5. Sorted(s, Before(s))
  BY BeforeMeans DEF Sorted
<1>6. QED
  BY <1>1, <1>2, <1>3, <1>4, <1>5 DEF Linear

\* A list is determined by what is in it and which comes before which.
LEMMA SameOrder ==
    ASSUME NEW s, NEW t, Straight(s), Straight(t), ToSet(s) = ToSet(t),
           \A x, y \in ToSet(s) : <<x, y>> \in Before(s) => <<x, y>> \in Before(t)
    PROVE  s = t
<1>1. Linear(ToSet(t), Before(t)) /\ Sorted(t, Before(t)) /\ Sorted(s, Before(s))
  BY BeforeLinear
<1>2. Sorted(s, Before(t))
  BY <1>1, StraightFacts DEF Sorted
<1>3. QED
  BY <1>1, <1>2, OnlyOneInOrder

LEMMA LinearWithin == ASSUME NEW S, NEW R, Linear(S, R), NEW T \in SUBSET S PROVE Linear(T, R)
<1>1. IsFiniteSet(T)
  BY FS_Subset DEF Linear
<1>2. QED
  BY <1>1 DEF Linear

\* A filter keeps the order.
LEMMA OnlyFacts ==
    ASSUME NEW s, Straight(s), NEW S
    PROVE  /\ Straight(Only(s, S)) /\ ToSet(Only(s, S)) = ToSet(s) \cap S
           /\ \A x, y \in ToSet(s) \cap S : <<x, y>> \in Before(Only(s, S)) <=> <<x, y>> \in Before(s)
<1> DEFINE T == ToSet(s) \cap S
           o == Only(s, S)
<1>1. Linear(ToSet(s), Before(s)) /\ Linear(T, Before(s))
  BY BeforeLinear, LinearWithin
<1>2. Straight(o) /\ ToSet(o) = T /\ Sorted(o, Before(s))
  BY <1>1, InOrderFacts DEF Only
<1>3. Linear(T, Before(o))
  BY <1>2, BeforeLinear
<1> HIDE DEF o
<1>4. ASSUME NEW x \in T, NEW y \in T, <<x, y>> \in Before(o) PROVE <<x, y>> \in Before(s)
  <2>1. PICK i \in DOMAIN o, j \in DOMAIN o : o[i] = x /\ o[j] = y /\ i < j
    BY <1>4 DEF Before
  <2>2. QED
    BY <1>2, <2>1 DEF Sorted
<1>5. ASSUME NEW x \in T, NEW y \in T, <<x, y>> \in Before(s) PROVE <<x, y>> \in Before(o)
  <2>1. x # y /\ <<y, x>> \notin Before(s)
    BY <1>1, <1>5 DEF Linear
  <2>2. <<y, x>> \notin Before(o)
    BY <1>4, <2>1
  <2>3. QED
    BY <1>3, <2>1, <2>2 DEF Linear
<1>6. QED
  BY <1>2, <1>4, <1>5 DEF o

LEMMA PlaceFacts ==
    ASSUME NEW s, Straight(s)
    PROVE  /\ \A x \in ToSet(s) : PlaceOf(s, x) \in DOMAIN s /\ s[PlaceOf(s, x)] = x
           /\ \A i \in DOMAIN s : PlaceOf(s, s[i]) = i
<1>1. \A x \in ToSet(s) : PlaceOf(s, x) \in DOMAIN s /\ s[PlaceOf(s, x)] = x
  BY StraightFacts DEF PlaceOf
<1>2. QED
  BY <1>1, StraightFacts

Inserted(s, i, e) == [k \in 1..Len(s) + 1 |-> IF k < i THEN s[k] ELSE IF k = i THEN e ELSE s[k - 1]]

LEMMA InsertAtIs ==
    ASSUME NEW T, NEW s \in Seq(T), NEW e, NEW i \in 1..Len(s) + 1
    PROVE  /\ InsertAt(s, i, e) \in Seq(T \cup {e})
           /\ InsertAt(s, i, e) = Inserted(s, i, e)
<1> DEFINE a == SubSeq(s, 1, i - 1)
           b == SubSeq(s, i, Len(s))
           U == T \cup {e}
<1>1. Len(s) \in Nat /\ s \in Seq(U)
  BY LenProperties, SeqMonotonic
<1>2. a \in Seq(U) /\ Len(a) = i - 1 /\ \A k \in 1..i - 1 : a[k] = s[k]
  BY <1>1, SubSeqProperties
<1>3. b \in Seq(U) /\ Len(b) = Len(s) - i + 1 /\ \A k \in 1..Len(s) - i + 1 : b[k] = s[i + k - 1]
  BY <1>1, SubSeqProperties
<1>4. <<e>> \in Seq(U) /\ Len(<<e>>) = 1 /\ <<e>>[1] = e
  OBVIOUS
<1> HIDE DEF a, b, U
<1> DEFINE ae == a \o <<e>>
<1>5. ae \in Seq(U) /\ Len(ae) = i /\ (\A k \in 1..i - 1 : ae[k] = a[k]) /\ ae[i] = e
  <2>1. /\ ae \in Seq(U) /\ Len(ae) = (i - 1) + 1
        /\ \A k \in 1..(i - 1) + 1 : ae[k] = IF k <= i - 1 THEN a[k] ELSE <<e>>[k - (i - 1)]
    BY <1>2, <1>4, ConcatProperties
  <2>2. i \in 1..(i - 1) + 1 /\ ~(i <= i - 1) /\ i - (i - 1) = 1 /\ (i - 1) + 1 = i
    BY <1>1
  <2>3. ae[i] = <<e>>[1]
    BY <2>1, <2>2
  <2>4. \A k \in 1..i - 1 : k \in 1..(i - 1) + 1 /\ k <= i - 1
    BY <1>1
  <2> HIDE DEF ae
  <2>5. QED
    BY <1>4, <2>1, <2>2, <2>3, <2>4
<1> HIDE DEF ae
<1> DEFINE t == ae \o b
<1>6. t \in Seq(U) /\ Len(t) = Len(s) + 1 /\ (\A k \in 1..i : t[k] = ae[k])
      /\ \A k \in i..Len(s) : t[k + 1] = b[k + 1 - i]
  <2>1. /\ t \in Seq(U) /\ Len(t) = i + (Len(s) - i + 1)
        /\ \A k \in 1..i + (Len(s) - i + 1) : t[k] = IF k <= i THEN ae[k] ELSE b[k - i]
    BY <1>3, <1>5, ConcatProperties
  <2>2. i + (Len(s) - i + 1) = Len(s) + 1
    BY <1>1
  <2>3. \A k \in i..Len(s) : k + 1 \in 1..Len(s) + 1 /\ ~(k + 1 <= i)
    BY <1>1
  <2>4. \A k \in 1..i : k \in 1..Len(s) + 1 /\ k <= i
    BY <1>1
  <2> HIDE DEF t
  <2>5. QED
    BY <2>1, <2>2, <2>3, <2>4
<1> HIDE DEF t
<1>7. ASSUME NEW k \in 1..Len(s) + 1 PROVE t[k] = IF k < i THEN s[k] ELSE IF k = i THEN e ELSE s[k - 1]
  <2>1. CASE k < i
    <3>1. k \in 1..i - 1 /\ k \in 1..i
      BY <1>1, <2>1
    <3>2. QED
      BY <1>2, <1>5, <1>6, <2>1, <3>1
  <2>2. CASE k = i
    BY <1>1, <1>5, <1>6, <2>2
  <2>3. CASE k > i
    <3>1. k - 1 \in i..Len(s) /\ (k - 1) + 1 = k /\ ~(k < i) /\ k # i
      BY <1>1, <2>3
    <3>2. (k - 1) + 1 - i \in 1..Len(s) - i + 1 /\ i + ((k - 1) + 1 - i) - 1 = k - 1
      BY <1>1, <3>1
    <3>3. t[k] = b[(k - 1) + 1 - i]
      BY <1>6, <3>1
    <3>4. QED
      BY <1>3, <3>1, <3>2, <3>3
  <2>4. QED
    BY <1>1, <2>1, <2>2, <2>3
<1>8. t = [k \in 1..Len(s) + 1 |-> t[k]]
  BY <1>1, <1>6
<1>9. InsertAt(s, i, e) = t
  BY DEF InsertAt, a, b, ae, t
<1>10. t = Inserted(s, i, e)
  BY <1>7, <1>8 DEF Inserted
<1>11. QED
  BY <1>6, <1>9, <1>10 DEF U

LEMMA InsertFacts ==
    ASSUME NEW s, Straight(s), NEW e, e \notin ToSet(s), NEW i \in 1..Len(s) + 1
    PROVE  LET t == InsertAt(s, i, e) IN
           /\ Straight(t) /\ ToSet(t) = ToSet(s) \cup {e}
           /\ \A x, y \in ToSet(s) : <<x, y>> \in Before(t) <=> <<x, y>> \in Before(s)
           /\ \A k \in DOMAIN s : <<s[k], e>> \in Before(t) <=> k < i
           /\ DOMAIN t = 1..Len(s) + 1 /\ t[i] = e
           /\ i > 1 => t[i - 1] = s[i - 1]
           /\ i <= Len(s) => t[i + 1] = s[i]
<1> DEFINE t == InsertAt(s, i, e)
           n == Len(s)
           To(k) == IF k < i THEN k ELSE k + 1
<1>1. n \in Nat /\ DOMAIN s = 1..n /\ s \in Seq(ToSet(s)) /\ \A k \in 1..n : s[k] \in ToSet(s)
  BY StraightFacts DEF Straight
<1>2. /\ t \in Seq(ToSet(s) \cup {e}) /\ Len(t) = n + 1
      /\ \A k \in 1..i - 1 : t[k] = s[k]
      /\ t[i] = e
      /\ \A k \in i..n : t[k + 1] = s[k]
  <2>1. t \in Seq(ToSet(s) \cup {e})
    BY <1>1, InsertAtIs
  <2>2. t = [k \in 1..n + 1 |-> IF k < i THEN s[k] ELSE IF k = i THEN e ELSE s[k - 1]]
    <3>1. t = Inserted(s, i, e)
      BY <1>1, InsertAtIs
    <3>2. QED
      BY <3>1 DEF Inserted
  <2>3. i \in 1..n + 1
    OBVIOUS
  <2> HIDE DEF t, n
  <2>4. Len(t) = n + 1 /\ t[i] = e
    BY <1>1, <2>1, <2>2, <2>3
  <2>5. \A k \in 1..i - 1 : t[k] = s[k]
    BY <1>1, <2>2, <2>3
  <2>6. \A k \in i..n : t[k + 1] = s[k]
    BY <1>1, <2>2, <2>3
  <2>7. QED
    BY <2>1, <2>4, <2>5, <2>6
<1> HIDE DEF t
<1>3. DOMAIN t = 1..n + 1
  BY <1>1, <1>2
<1>4. ASSUME NEW k \in 1..n PROVE To(k) \in 1..n + 1 /\ To(k) # i /\ t[To(k)] = s[k]
  <2>1. CASE k < i
    BY <1>1, <1>2, <2>1
  <2>2. CASE ~(k < i)
    BY <1>1, <1>2, <2>2
  <2>3. QED
    BY <2>1, <2>2
<1>5. \A l \in 1..n + 1 : l = i \/ \E k \in 1..n : To(k) = l
  <2> SUFFICES ASSUME NEW l \in 1..n + 1, l # i PROVE \E k \in 1..n : To(k) = l
    OBVIOUS
  <2>1. CASE l < i
    <3>1. l \in 1..n /\ To(l) = l
      BY <1>1, <2>1
    <3>2. QED
      BY <3>1
  <2>2. CASE l > i
    <3>1. l - 1 \in 1..n /\ To(l - 1) = l
      BY <1>1, <2>2
    <3>2. QED
      BY <3>1
  <2>3. QED
    BY <1>1, <2>1, <2>2
<1>6. \A k, l \in 1..n : (To(k) < To(l) <=> k < l) /\ (To(k) = To(l) => k = l)
  BY <1>1
<1>7. \A k \in 1..n : To(k) < i <=> k < i
  BY <1>1
<1> HIDE DEF To
<1>8. ToSet(t) = ToSet(s) \cup {e}
  <2>1. ToSet(t) = {t[l] : l \in 1..n + 1} /\ ToSet(s) = {s[k] : k \in 1..n}
    BY <1>1, <1>3 DEF ToSet
  <2>2. i \in 1..n + 1
    BY <1>1
  <2>3. \A l \in 1..n + 1 : t[l] \in ToSet(s) \cup {e}
    BY <1>1, <1>2, <1>4, <1>5
  <2>4. \A x \in ToSet(s) : \E l \in 1..n + 1 : t[l] = x
    BY <1>4, <2>1
  <2>5. ToSet(t) \subseteq ToSet(s) \cup {e}
    BY <2>1, <2>3
  <2>6. e \in ToSet(t)
    BY <1>2, <2>1, <2>2
  <2>7. ToSet(s) \subseteq ToSet(t)
    <3> SUFFICES ASSUME NEW x \in ToSet(s) PROVE x \in ToSet(t)
      OBVIOUS
    <3>1. PICK l \in 1..n + 1 : t[l] = x
      BY <2>4
    <3>2. QED
      BY <2>1, <3>1
  <2>8. QED
    BY <2>5, <2>6, <2>7
<1>9. Straight(t)
  <2> SUFFICES ASSUME NEW l \in 1..n + 1, NEW m \in 1..n + 1, t[l] = t[m] PROVE l = m
    BY <1>2, <1>3, <1>8 DEF Straight
  <2>1. CASE l = i \/ m = i
    <3>1. \A k \in 1..n + 1 : t[k] = e => k = i
      BY <1>1, <1>4, <1>5
    <3>2. QED
      BY <1>2, <2>1, <3>1
  <2>2. CASE l # i /\ m # i
    <3>1. PICK k \in 1..n, j \in 1..n : To(k) = l /\ To(j) = m
      BY <1>5, <2>2
    <3>2. s[k] = s[j]
      BY <1>4, <3>1
    <3>3. QED
      BY <1>1, <3>1, <3>2 DEF Straight
  <2>3. QED
    BY <2>1, <2>2
<1>10. ASSUME NEW x \in ToSet(s), NEW y \in ToSet(s) PROVE <<x, y>> \in Before(t) <=> <<x, y>> \in Before(s)
  <2>1. PICK k \in 1..n, l \in 1..n : s[k] = x /\ s[l] = y
    BY <1>1, StraightFacts
  <2>2. <<x, y>> \in Before(s) <=> k < l
    BY <1>1, <2>1, BeforeMeans
  <2>3. t[To(k)] = x /\ t[To(l)] = y /\ To(k) \in DOMAIN t /\ To(l) \in DOMAIN t
    BY <1>3, <1>4, <2>1
  <2>4. <<x, y>> \in Before(t) <=> To(k) < To(l)
    BY <1>9, <2>3, BeforeMeans
  <2>5. QED
    BY <1>6, <2>2, <2>4
<1>11. ASSUME NEW k \in 1..n PROVE <<s[k], e>> \in Before(t) <=> k < i
  <2>1. t[To(k)] = s[k] /\ To(k) \in DOMAIN t /\ i \in DOMAIN t /\ t[i] = e
    BY <1>1, <1>2, <1>3, <1>4
  <2>2. <<s[k], e>> \in Before(t) <=> To(k) < i
    BY <1>9, <2>1, BeforeMeans
  <2>3. QED
    BY <1>7, <2>2
<1>12. (i > 1 => t[i - 1] = s[i - 1]) /\ (i <= n => t[i + 1] = s[i])
  BY <1>1, <1>2
<1>13. QED
  BY <1>1, <1>2, <1>3, <1>8, <1>9, <1>10, <1>11, <1>12 DEF t

LEMMA StraightLength == ASSUME NEW s, Straight(s) PROVE Len(s) = Cardinality(ToSet(s))
<1>1. s \in Bijection(1..Len(s), ToSet(s))
  BY StraightFacts, Fun_IsBij
<1>2. ExistsBijection(1..Len(s), ToSet(s)) /\ IsFiniteSet(1..Len(s)) /\ Cardinality(1..Len(s)) = Len(s)
  BY <1>1, UpToCounts, StraightFacts DEF ExistsBijection
<1>3. QED
  BY <1>2, FS_Bijection

LEMMA StraightConcat ==
    ASSUME NEW s, NEW t, Straight(s), Straight(t), ToSet(s) \cap ToSet(t) = {}
    PROVE  Straight(s \o t) /\ ToSet(s \o t) = ToSet(s) \cup ToSet(t)
<1> DEFINE m == Len(s)
           n == Len(t)
           U == ToSet(s) \cup ToSet(t)
           c == s \o t
<1>1. /\ m \in Nat /\ n \in Nat /\ s \in Seq(U) /\ t \in Seq(U)
      /\ \A k \in 1..m : s[k] \in ToSet(s)
      /\ \A k \in 1..n : t[k] \in ToSet(t)
      /\ \A k, l \in 1..m : s[k] = s[l] => k = l
      /\ \A k, l \in 1..n : t[k] = t[l] => k = l
  BY SeqMonotonic, StraightFacts DEF Straight
<1>2. /\ c \in Seq(U) /\ Len(c) = m + n
      /\ \A k \in 1..m + n : c[k] = IF k <= m THEN s[k] ELSE t[k - m]
  BY <1>1, ConcatProperties
<1> HIDE DEF c, U
<1>3. DOMAIN c = 1..m + n
  BY <1>1, <1>2
<1>4. \A k \in 1..m : k \in 1..m + n /\ c[k] = s[k]
  BY <1>1, <1>2
<1>5. ASSUME NEW k \in 1..n PROVE k + m \in 1..m + n /\ c[k + m] = t[k]
  <2>1. k + m \in 1..m + n /\ ~(k + m <= m) /\ (k + m) - m = k
    BY <1>1
  <2>2. c[k + m] = t[(k + m) - m]
    BY <1>2, <2>1
  <2>3. QED
    BY <2>1, <2>2
<1>6. \A k \in 1..m + n : k \in 1..m \/ \E l \in 1..n : k = l + m
  <2> SUFFICES ASSUME NEW k \in 1..m + n, k \notin 1..m PROVE \E l \in 1..n : k = l + m
    OBVIOUS
  <2>1. k - m \in 1..n /\ k = (k - m) + m
    BY <1>1
  <2>2. QED
    BY <2>1
<1>7. ToSet(c) = U
  <2>1. ToSet(s) \subseteq ToSet(c)
    BY <1>3, <1>4, StraightFacts DEF ToSet
  <2>2. ToSet(t) \subseteq ToSet(c)
    <3> SUFFICES ASSUME NEW x \in ToSet(t) PROVE x \in ToSet(c)
      OBVIOUS
    <3>1. PICK k \in 1..n : t[k] = x
      BY StraightFacts
    <3>2. QED
      BY <1>3, <1>5, <3>1 DEF ToSet
  <2>3. \A k \in 1..m + n : c[k] \in U
    <3> SUFFICES ASSUME NEW k \in 1..m + n PROVE c[k] \in U
      OBVIOUS
    <3>1. CASE k \in 1..m
      BY <1>1, <1>4, <3>1 DEF U
    <3>2. ASSUME NEW l \in 1..n, k = l + m PROVE c[k] \in U
      <4>1. c[k] = t[l] /\ t[l] \in ToSet(t)
        BY <1>1, <1>5, <3>2
      <4>2. QED
        BY <4>1 DEF U
    <3>3. QED
      BY <1>6, <3>1, <3>2
  <2>4. ToSet(c) \subseteq U
    BY <1>3, <2>3 DEF ToSet
  <2>5. QED
    BY <2>1, <2>2, <2>4 DEF U
<1>8. ASSUME NEW k \in 1..m + n, NEW l \in 1..m + n, c[k] = c[l] PROVE k = l
  <2>1. CASE k \in 1..m /\ l \in 1..m
    BY <1>1, <1>4, <1>8, <2>1
  <2>2. CASE k \notin 1..m /\ l \notin 1..m
    <3>1. PICK i \in 1..n, j \in 1..n : k = i + m /\ l = j + m
      BY <1>6, <2>2
    <3>2. t[i] = t[j]
      BY <1>5, <1>8, <3>1
    <3>3. QED
      BY <1>1, <3>1, <3>2
  <2>3. ASSUME NEW i \in 1..m, NEW j \in 1..n, c[i] = c[j + m] PROVE FALSE
    <3>1. s[i] = t[j] /\ s[i] \in ToSet(s) /\ t[j] \in ToSet(t)
      BY <1>1, <1>4, <1>5, <2>3
    <3>2. QED
      BY <3>1
  <2>4. QED
    BY <1>6, <1>8, <2>1, <2>2, <2>3
<1>9. QED
  BY <1>2, <1>3, <1>7, <1>8 DEF Straight, c, U

-----------------------------------------------------------------------------
(* One step after another *)

\* Induction up to a bound, over a set.
LEMMA UpTo ==
    ASSUME NEW n \in Nat, NEW S, 0 \in S, \A m \in 0..n - 1 : m \in S => m + 1 \in S
    PROVE  0..n \subseteq S
<1> DEFINE T == {m \in 0..n : m \notin S}
           R == OpToRel(<, Nat)
<1>1. \A x, y \in Nat : x < y => <<x, y>> \in R
  BY DEF OpToRel
<1>2. IsWellFoundedOn(R, Nat)
  BY NatLessThanWellFounded
<1> HIDE DEF R
<1>3. SUFFICES ASSUME T # {} PROVE FALSE
  OBVIOUS
<1>4. T \subseteq Nat
  OBVIOUS
<1> HIDE DEF T
<1>5. PICK x \in T : \A y \in T : ~(<<y, x>> \in R)
  BY <1>2, <1>3, <1>4, WFMin
<1>6. x \in 1..n
  BY <1>5 DEF T
<1>7. x - 1 \in 0..n - 1 /\ x - 1 < x /\ (x - 1) + 1 = x
  BY <1>6
<1>8. x - 1 \in T
  BY <1>5, <1>6, <1>7 DEF T
<1>9. QED
  BY <1>1, <1>4, <1>5, <1>6, <1>7, <1>8

Iterate(g, n, base, step) == g[0] = base /\ \A k \in 1..n : g[k] = step[<<k, g[k - 1]>>]

\* A function that is given by its first value and by each next one exists.
LEMMA Iterates ==
    ASSUME NEW n \in Nat, NEW S, NEW base \in S, NEW step \in [(1..n) \X S -> S]
    PROVE  \E g \in [0..n -> S] : Iterate(g, n, base, step)
<1> DEFINE Runs(g, m) == g[0] = base /\ \A k \in 1..m : g[k] = step[<<k, g[k - 1]>>]
           T == {m \in 0..n : \E g \in [0..m -> S] : Runs(g, m)}
<1>1. 0 \in T
  <2> DEFINE g == [k \in 0..0 |-> base]
  <2>1. g \in [0..0 -> S] /\ Runs(g, 0)
    OBVIOUS
  <2> HIDE DEF g, Runs
  <2>2. QED
    BY <2>1
<1>2. ASSUME NEW m \in 0..n - 1, m \in T PROVE m + 1 \in T
  <2>1. PICK g \in [0..m -> S] : Runs(g, m)
    <3> HIDE DEF Runs
    <3>1. QED
      BY <1>2
  <2> DEFINE next == step[<<m + 1, g[m]>>]
             h == [k \in 0..m + 1 |-> IF k = m + 1 THEN next ELSE g[k]]
  <2>2. next \in S
    <3>1. m + 1 \in 1..n /\ g[m] \in S
      OBVIOUS
    <3>2. QED
      BY <3>1
  <2> HIDE DEF next
  <2>3. h \in [0..m + 1 -> S]
    BY <2>2
  <2>4. h[m + 1] = next /\ \A k \in 0..m : h[k] = g[k]
    OBVIOUS
  <2> HIDE DEF h
  <2>5. Runs(h, m + 1)
    <3>1. h[0] = base
      BY <2>1, <2>4
    <3>2. ASSUME NEW k \in 1..m + 1 PROVE h[k] = step[<<k, h[k - 1]>>]
      <4>1. k - 1 \in 0..m /\ h[k - 1] = g[k - 1]
        BY <2>4
      <4>2. CASE k = m + 1
        <5>1. k - 1 = m
          BY <4>2
        <5>2. h[k] = next /\ h[k - 1] = g[m]
          BY <2>4, <4>1, <4>2, <5>1
        <5>3. QED
          BY <4>2, <5>2 DEF next
      <4>3. CASE k # m + 1
        <5>1. k \in 1..m /\ k \in 0..m
          BY <4>3
        <5>2. h[k] = g[k] /\ g[k] = step[<<k, g[k - 1]>>]
          BY <2>1, <2>4, <5>1
        <5>3. QED
          BY <4>1, <5>2
      <4>4. QED
        BY <4>2, <4>3
    <3>3. QED
      BY <3>1, <3>2
  <2>6. m + 1 \in 0..n
    OBVIOUS
  <2> HIDE DEF Runs
  <2>7. QED
    BY <2>3, <2>5, <2>6
<1> HIDE DEF T
<1>3. 0..n \subseteq T
  <2>1. \A m \in 0..n - 1 : m \in T => m + 1 \in T
    BY <1>2
  <2>2. QED
    BY <1>1, <2>1, UpTo
<1>4. n \in T
  BY <1>3
<1>5. QED
  BY <1>4 DEF T, Iterate

\* Lists that have nothing in common, one after another.
LEMMA FlattenFacts ==
    ASSUME NEW n \in Nat, NEW seqs, DOMAIN seqs = 1..n, seqs = [k \in 1..n |-> seqs[k]],
           \A k \in 1..n : Straight(seqs[k]),
           \A k, l \in 1..n : k # l => ToSet(seqs[k]) \cap ToSet(seqs[l]) = {}
    PROVE  Straight(FlattenSeq(seqs)) /\ ToSet(FlattenSeq(seqs)) = UNION {ToSet(seqs[k]) : k \in 1..n}
<1>1. Len(seqs) = n
  <2> DEFINE same == [k \in 1..n |-> seqs[k]]
  <2>1. Len(same) = n
    OBVIOUS
  <2>2. QED
    BY <2>1
<1>2. CASE n = 0
  <2>1. FlattenSeq(seqs) = seqs
    BY <1>1, <1>2 DEF FlattenSeq
  <2>2. DOMAIN seqs = {}
    BY <1>2
  <2>3. seqs = <<>>
    BY <1>2
  <2>4. ToSet(seqs) = {} /\ Straight(seqs)
    BY <2>2, <2>3 DEF ToSet, Straight
  <2>5. UNION {ToSet(seqs[k]) : k \in 1..n} = {}
    BY <1>2
  <2>6. QED
    BY <2>1, <2>4, <2>5
<1>3. CASE n # 0
  <2> DEFINE U == UNION {ToSet(seqs[k]) : k \in 1..n}
             Step(g, i) == IF i = 1 THEN seqs[i] ELSE g[i - 1] \o seqs[i]
             Fills(g) == g = [i \in 1..n |-> Step(g, i)]
             step == [p \in (1..n - 1) \X Seq(U) |-> p[2] \o seqs[p[1] + 1]]
  <2>1. n - 1 \in Nat /\ 1 \in 1..n
    BY <1>3
  <2>2. \A k \in 1..n : seqs[k] \in Seq(U)
    <3> SUFFICES ASSUME NEW k \in 1..n PROVE seqs[k] \in Seq(U)
      OBVIOUS
    <3>1. seqs[k] \in Seq(ToSet(seqs[k])) /\ ToSet(seqs[k]) \subseteq U
      BY DEF Straight
    <3> HIDE DEF U
    <3>2. QED
      BY <3>1, SeqMonotonic
  <2>3. step \in [(1..n - 1) \X Seq(U) -> Seq(U)]
    <3> SUFFICES ASSUME NEW k \in 1..n - 1, NEW x \in Seq(U) PROVE x \o seqs[k + 1] \in Seq(U)
      OBVIOUS
    <3>1. k + 1 \in 1..n
      BY <2>1
    <3> HIDE DEF U
    <3>2. QED
      BY <2>2, <3>1, ConcatProperties
  <2>4. PICK g \in [0..n - 1 -> Seq(U)] :
            g[0] = seqs[1] /\ \A k \in 1..n - 1 : g[k] = step[<<k, g[k - 1]>>]
    <3> DEFINE V == Seq(U)
               m == n - 1
               first == seqs[1]
    <3>1. m \in Nat /\ first \in V /\ step \in [(1..m) \X V -> V]
      BY <2>1, <2>2, <2>3
    <3> HIDE DEF step, V, m, first
    <3>2. \E g \in [0..m -> V] : Iterate(g, m, first, step)
      BY <3>1, Iterates
    <3>3. QED
      BY <3>2 DEF V, m, first, Iterate
  <2>5. \E h : Fills(h)
    <3> DEFINE h == [i \in 1..n |-> g[i - 1]]
    <3>1. ASSUME NEW i \in 1..n PROVE h[i] = Step(h, i)
      <4>1. CASE i = 1
        BY <2>4, <4>1
      <4>2. CASE i # 1
        <5>1. i - 1 \in 1..n - 1 /\ i - 1 \in 1..n /\ (i - 1) - 1 \in 0..n - 1 /\ (i - 1) + 1 = i
          BY <2>1, <4>2
        <5>2. h[i] = g[i - 1] /\ h[i - 1] = g[(i - 1) - 1] /\ g[(i - 1) - 1] \in Seq(U)
          BY <5>1
        <5>3. g[i - 1] = step[<<i - 1, g[(i - 1) - 1]>>]
          BY <2>4, <5>1
        <5> HIDE DEF h, U
        <5>4. g[i - 1] = g[(i - 1) - 1] \o seqs[i]
          BY <5>1, <5>2, <5>3
        <5>5. QED
          BY <4>2, <5>2, <5>4
      <4>3. QED
        BY <4>1, <4>2
    <3>2. h = [i \in 1..n |-> h[i]]
      OBVIOUS
    <3> HIDE DEF h, Step
    <3>3. h = [i \in 1..n |-> Step(h, i)]
      BY <3>1, <3>2
    <3>4. QED
      BY <3>3
  <2> DEFINE f == CHOOSE h : Fills(h)
  <2>6. Fills(f)
    <3> HIDE DEF Fills
    <3>1. QED
      BY <2>5
  <2>7. FlattenSeq(seqs) = f[n]
    BY <1>1, <1>3 DEF FlattenSeq
  <2> HIDE DEF f
  <2>8. \A i \in 1..n : f[i] = Step(f, i)
    <3> HIDE DEF Step
    <3>1. QED
      BY <2>6
  <2> DEFINE Upto(m) == UNION {ToSet(seqs[k]) : k \in 1..m}
             T == {m \in 0..n - 1 : Straight(f[m + 1]) /\ ToSet(f[m + 1]) = Upto(m + 1)}
  <2>9. 0 \in T
    <3>1. f[1] = seqs[1] /\ 0 + 1 = 1 /\ 0 \in 0..n - 1
      BY <2>1, <2>8
    <3>2. Upto(1) = ToSet(seqs[1])
      <4>1. 1..1 = {1}
        OBVIOUS
      <4>2. QED
        BY <4>1
    <3> HIDE DEF Upto
    <3>3. QED
      BY <2>1, <3>1, <3>2
  <2>10. ASSUME NEW m \in 0..(n - 1) - 1, m \in T PROVE m + 1 \in T
    <3> DEFINE i == m + 2
    <3>1. i \in 1..n /\ i # 1 /\ i - 1 = m + 1 /\ m + 1 \in 0..n - 1 /\ (m + 1) + 1 = i
      BY <2>1
    <3>2. f[i] = f[m + 1] \o seqs[i]
      BY <2>8, <3>1
    <3>3. Straight(f[m + 1]) /\ ToSet(f[m + 1]) = Upto(m + 1)
      BY <2>10
    <3>4. Straight(seqs[i]) /\ Upto(m + 1) \cap ToSet(seqs[i]) = {}
      <4>1. \A k \in 1..m + 1 : k \in 1..n /\ k # i
        BY <2>1
      <4> HIDE DEF i
      <4>2. \A k \in 1..m + 1 : ToSet(seqs[k]) \cap ToSet(seqs[i]) = {}
        BY <3>1, <4>1
      <4>3. QED
        BY <3>1, <4>2
    <3>5. Upto(i) = Upto(m + 1) \cup ToSet(seqs[i])
      <4>1. 1..i = (1..m + 1) \cup {i}
        OBVIOUS
      <4> HIDE DEF i
      <4>2. QED
        BY <4>1
    <3> HIDE DEF Upto, i
    <3>6. Straight(f[i]) /\ ToSet(f[i]) = Upto(i)
      BY <3>2, <3>3, <3>4, <3>5, StraightConcat
    <3>7. QED
      BY <3>1, <3>6
  <2>11. n - 1 \in T
    <3> HIDE DEF T
    <3>1. \A m \in 0..(n - 1) - 1 : m \in T => m + 1 \in T
      BY <2>10
    <3>2. 0..n - 1 \subseteq T
      BY <2>1, <2>9, <3>1, UpTo
    <3>3. n - 1 \in 0..n - 1
      BY <2>1
    <3>4. QED
      BY <3>2, <3>3
  <2>12. (n - 1) + 1 = n
    OBVIOUS
  <2>13. QED
    BY <2>7, <2>11, <2>12
<1>4. QED
  BY <1>2, <1>3

\* A list without e is the rest of it, in the order it had.
LEMMA WithoutFacts ==
    ASSUME NEW s, Straight(s), NEW e
    PROVE  /\ Straight(Without(s, e)) /\ ToSet(Without(s, e)) = ToSet(s) \ {e}
           /\ \A x, y \in ToSet(s) \ {e} : <<x, y>> \in Before(Without(s, e)) <=> <<x, y>> \in Before(s)
           /\ e \in ToSet(s) => Len(Without(s, e)) + 1 = Len(s)
           /\ Len(Without(s, e)) \in Nat
<1> DEFINE S == ToSet(s) \ {e}
           o == Without(s, e)
<1>1. ToSet(s) \cap S = S
  OBVIOUS
<1>2. /\ Straight(o) /\ ToSet(o) = S
      /\ \A x, y \in S : <<x, y>> \in Before(o) <=> <<x, y>> \in Before(s)
  BY <1>1, OnlyFacts DEF Without
<1>3. e \in ToSet(s) => Len(o) + 1 = Len(s)
  <2>1. IsFiniteSet(ToSet(s))
    BY BeforeLinear DEF Linear
  <2>2. Len(o) = Cardinality(S) /\ Len(s) = Cardinality(ToSet(s))
    BY <1>2, StraightLength
  <2>3. ASSUME e \in ToSet(s) PROVE Cardinality(ToSet(s)) = Cardinality(S) + 1
    <3>1. ToSet(s) = S \cup {e} /\ e \notin S /\ IsFiniteSet(S)
      BY <2>1, <2>3, FS_Subset
    <3>2. QED
      BY <3>1, FS_AddElement
  <2>4. QED
    BY <2>2, <2>3
<1>4. QED
  BY <1>2, <1>3, StraightFacts

LEMMA ReplacedFacts ==
    ASSUME NEW s, Straight(s), NEW e, NEW i \in 1..Len(Without(s, e)) + 1
    PROVE  LET t == Replaced(s, e, i) IN
           /\ Straight(t) /\ ToSet(t) = ToSet(s) \cup {e}
           /\ \A x, y \in ToSet(s) \ {e} : <<x, y>> \in Before(t) <=> <<x, y>> \in Before(s)
           /\ i \in DOMAIN t /\ t[i] = e /\ PlaceOf(t, e) = i
<1> DEFINE o == Without(s, e)
           t == Replaced(s, e, i)
<1>1. /\ Straight(o) /\ ToSet(o) = ToSet(s) \ {e} /\ Len(o) \in Nat
      /\ \A x, y \in ToSet(s) \ {e} : <<x, y>> \in Before(o) <=> <<x, y>> \in Before(s)
  BY WithoutFacts
<1>2. t = InsertAt(o, i, e) /\ e \notin ToSet(o)
  BY <1>1 DEF Replaced
<1> HIDE DEF t, o
<1>3. i \in 1..Len(o) + 1
  BY DEF o
<1>4. /\ Straight(t) /\ ToSet(t) = ToSet(o) \cup {e}
      /\ \A x, y \in ToSet(o) : <<x, y>> \in Before(t) <=> <<x, y>> \in Before(o)
      /\ DOMAIN t = 1..Len(o) + 1 /\ t[i] = e
  BY <1>1, <1>2, <1>3, InsertFacts
<1>5. PlaceOf(t, e) = i
  BY <1>3, <1>4, PlaceFacts
<1>6. ToSet(o) \cup {e} = ToSet(s) \cup {e}
  BY <1>1
<1>7. QED
  BY <1>1, <1>3, <1>4, <1>5, <1>6 DEF t

=============================================================================
