-------------------------- MODULE ProvenanceProofs --------------------------
(***************************************************************************)
(* Proofs about Provenance, and about the index it reads (TraceIndex), for *)
(* every pool of events, file and set of those who capture diffs.          *)
(***************************************************************************)
EXTENDS Provenance, SequenceTheorems, FiniteSetTheorems, WellFoundedInduction, TLAPS

-----------------------------------------------------------------------------
(* Orders. *)

\* R is a strict total order on S.
IsOrder(R, S) ==
    /\ \A x \in S : <<x, x>> \notin R
    /\ \A x, y \in S : x # y => <<x, y>> \in R \/ <<y, x>> \in R
    /\ \A x, y, z \in S : <<x, y>> \in R /\ <<y, z>> \in R => <<x, z>> \in R

Below(R, S, x) == {y \in S : <<y, x>> \in R}

\* Every place of an order is one element's.
LEMMA PlaceTaken ==
    ASSUME NEW S, IsFiniteSet(S), NEW R, IsOrder(R, S)
    PROVE  /\ Cardinality(S) \in Nat
           /\ \A k \in 1 .. Cardinality(S) : \E x \in S : Cardinality(Below(R, S, x)) = k - 1
           /\ \A x \in S : Cardinality(Below(R, S, x)) \in 0 .. (Cardinality(S) - 1)
           /\ \A x, y \in S :
                 <<x, y>> \in R <=> Cardinality(Below(R, S, x)) < Cardinality(Below(R, S, y))
<1> DEFINE n == Cardinality(S)
           r == [x \in S |-> Cardinality(Below(R, S, x))]
<1>1. n \in Nat
  BY FS_CardinalityType
<1>2. ASSUME NEW x \in S
      PROVE  /\ IsFiniteSet(Below(R, S, x)) /\ Cardinality(Below(R, S, x)) \in Nat
             /\ Cardinality(Below(R, S, x)) < n
  <2>1. Below(R, S, x) \subseteq S /\ x \notin Below(R, S, x)
    BY DEF Below, IsOrder
  <2> QED
    BY <2>1, FS_Subset, FS_CardinalityType
<1>3. ASSUME NEW x \in S, NEW y \in S, <<x, y>> \in R
      PROVE  Cardinality(Below(R, S, x)) < Cardinality(Below(R, S, y))
  <2>1. Below(R, S, x) \subseteq Below(R, S, y) /\ x \in Below(R, S, y) /\ x \notin Below(R, S, x)
    BY <1>3 DEF Below, IsOrder
  <2>2. Below(R, S, x) # Below(R, S, y)
    BY <2>1
  <2> QED
    BY <1>2, <2>1, <2>2, FS_Subset
<1>4. \A x, y \in S : <<x, y>> \in R <=> Cardinality(Below(R, S, x)) < Cardinality(Below(R, S, y))
  <2> SUFFICES ASSUME NEW x \in S, NEW y \in S,
                      Cardinality(Below(R, S, x)) < Cardinality(Below(R, S, y))
               PROVE  <<x, y>> \in R
    BY <1>3
  <2>1. x # y
    BY <1>2
  <2>2. <<y, x>> \notin R
    BY <1>2, <1>3
  <2> QED
    BY <2>1, <2>2 DEF IsOrder
<1>5. r \in [S -> 0 .. (n - 1)]
  BY <1>1, <1>2
<1>6. \A x, y \in S : r[x] = r[y] => x = y
  <2> SUFFICES ASSUME NEW x \in S, NEW y \in S, r[x] = r[y], x # y PROVE FALSE
    OBVIOUS
  <2>1. <<x, y>> \in R \/ <<y, x>> \in R
    BY DEF IsOrder
  <2> QED
    BY <1>2, <1>3, <2>1
<1>7. r \in Injection(S, 0 .. (n - 1))
  <2> HIDE DEF r, n
  <2> QED
    BY <1>5, <1>6, Zenon DEF Injection, IsInjective
<1>8. IsFiniteSet(0 .. (n - 1)) /\ Cardinality(0 .. (n - 1)) = n
  <2> HIDE DEF n
  <2>1. n - 1 \in Int
    BY <1>1
  <2>2. IsFiniteSet(0 .. (n - 1)) /\ Cardinality(0 .. (n - 1)) = IF 0 > n - 1 THEN 0 ELSE (n - 1) - 0 + 1
    BY <2>1, FS_Interval
  <2> QED
    BY <1>1, <2>2
<1>9. r \in Surjection(S, 0 .. (n - 1))
  BY <1>7, <1>8, FS_Injection
<1>10. ASSUME NEW k \in 1 .. n PROVE \E x \in S : Cardinality(Below(R, S, x)) = k - 1
  <2>1. k - 1 \in 0 .. (n - 1)
    BY <1>1
  <2>2. \E x \in S : r[x] = k - 1
    BY <1>9, <2>1 DEF Surjection
  <2> QED
    BY <2>2
<1>11. \A x \in S : Cardinality(Below(R, S, x)) \in 0 .. (n - 1)
  BY <1>5
<1> QED
  BY <1>1, <1>4, <1>10, <1>11

\* f lists S in the order R.
Lists(f, S, R) ==
    /\ Cardinality(S) \in Nat /\ f \in [1 .. Cardinality(S) -> S]
    /\ \A x \in S : \E k \in 1 .. Cardinality(S) : f[k] = x
    /\ \A i, j \in 1 .. Cardinality(S) : i < j <=> <<f[i], f[j]>> \in R

LEMMA PlacedIsListed ==
    ASSUME NEW S, IsFiniteSet(S), NEW R, IsOrder(R, S), NEW f,
           f = [k \in 1 .. Cardinality(S) |-> f[k]],
           \A k \in 1 .. Cardinality(S) : f[k] \in S /\ Cardinality(Below(R, S, f[k])) = k - 1
    PROVE  Lists(f, S, R)
<1> DEFINE n == Cardinality(S)
<1>1. n \in Nat
  BY PlaceTaken
<1>2. f \in [1 .. n -> S]
  OBVIOUS
<1>3. \A i, j \in 1 .. n : i < j <=> <<f[i], f[j]>> \in R
  <2> SUFFICES ASSUME NEW i \in 1 .. n, NEW j \in 1 .. n PROVE i < j <=> <<f[i], f[j]>> \in R
    OBVIOUS
  <2>1. <<f[i], f[j]>> \in R <=> Cardinality(Below(R, S, f[i])) < Cardinality(Below(R, S, f[j]))
    BY PlaceTaken
  <2>2. Cardinality(Below(R, S, f[i])) = i - 1 /\ Cardinality(Below(R, S, f[j])) = j - 1
    OBVIOUS
  <2> QED
    BY <2>1, <2>2
<1>4. ASSUME NEW x \in S PROVE \E k \in 1 .. n : f[k] = x
  <2> DEFINE c == Cardinality(Below(R, S, x))
  <2>1. c \in 0 .. (n - 1) /\ c + 1 \in 1 .. n
    BY <1>1, PlaceTaken
  <2>2. f[c + 1] \in S /\ Cardinality(Below(R, S, f[c + 1])) = c
    BY <1>1, <2>1
  <2>3. <<x, f[c + 1]>> \notin R /\ <<f[c + 1], x>> \notin R
    BY <2>1, <2>2, PlaceTaken
  <2>4. x = f[c + 1]
    BY <2>2, <2>3 DEF IsOrder
  <2> QED
    BY <2>1, <2>4
<1> QED
  BY <1>1, <1>2, <1>3, <1>4 DEF Lists

-----------------------------------------------------------------------------
(* Numbers in order. *)

LessOn(S) == {p \in S \X S : p[1] < p[2]}

LEMMA InOrderLists ==
    ASSUME NEW S, IsFiniteSet(S), S \subseteq Int
    PROVE  Lists(InOrder(S), S, LessOn(S))
<1> DEFINE n == Cardinality(S)
           R == LessOn(S)
           f == InOrder(S)
<1>1. \A x, y \in S : <<x, y>> \in R <=> x < y
  BY DEF LessOn
<1>2. IsOrder(R, S)
  BY <1>1 DEF IsOrder
<1>3. ASSUME NEW x \in S PROVE {y \in S : y < x} = Below(R, S, x)
  BY <1>1 DEF Below
<1>4. ASSUME NEW k \in 1 .. n PROVE f[k] \in S /\ Cardinality(Below(R, S, f[k])) = k - 1
  <2>1. \E x \in S : Cardinality({y \in S : y < x}) = k - 1
    <3>1. PICK x \in S : Cardinality(Below(R, S, x)) = k - 1
      BY <1>2, PlaceTaken
    <3> QED
      BY <1>3, <3>1, Zenon
  <2>2. f[k] = CHOOSE x \in S : Cardinality({y \in S : y < x}) = k - 1
    BY DEF InOrder, Sorted
  <2>3. f[k] \in S /\ Cardinality({y \in S : y < f[k]}) = k - 1
    BY <2>1, <2>2, Zenon
  <2> QED
    BY <1>3, <2>3
<1>5. f = [k \in 1 .. n |-> f[k]]
  <2> DEFINE g(k) == CHOOSE x \in S : Cardinality({y \in S : y < x}) = k - 1
  <2>1. f = [k \in 1 .. n |-> g(k)]
    BY Zenon DEF InOrder, Sorted
  <2> HIDE DEF f, g
  <2> QED
    BY <2>1
<1> QED
  BY <1>2, <1>4, <1>5, PlacedIsListed

\* A set of naturals has a least number, one of places a greatest.
LEMMA LeastElement ==
    ASSUME NEW S \in SUBSET Nat, S # {}
    PROVE  \E x \in S : \A y \in S : x <= y
<1> DEFINE Less == {ss \in Nat \X Nat : ss[1] < ss[2]}
<1>1. Less = OpToRel(<, Nat)
  BY Zenon DEF OpToRel
<1>2. IsWellFoundedOn(Less, Nat)
  BY <1>1, NatLessThanWellFounded, Zenon
<1> HIDE DEF Less
<1>3. PICK x \in S : \A y \in S : ~ (<<y, x>> \in Less)
  BY <1>2, WFMin, Zenon
<1>4. ASSUME NEW y \in S PROVE x <= y
  <2>1. y < x => <<y, x>> \in Less
    BY SMT DEF Less
  <2> QED
    BY <1>3, <2>1
<1> QED
  BY <1>4

LEMMA GreatestPlace ==
    ASSUME NEW n \in Nat, NEW S \in SUBSET (1 .. n), S # {}
    PROVE  Max(S) \in S /\ \A y \in S : y <= Max(S)
<1> DEFINE T == {n - x : x \in S}
<1>1. T \subseteq Nat /\ T # {}
  <2>1. \A x \in S : n - x \in Nat
    OBVIOUS
  <2>2. PICK x \in S : TRUE
    OBVIOUS
  <2>3. n - x \in T
    OBVIOUS
  <2> QED
    BY <2>1, <2>3, Zenon
<1>2. PICK t \in T : \A u \in T : t <= u
  BY <1>1, LeastElement
<1>3. PICK x \in S : t = n - x
  OBVIOUS
<1>4. ASSUME NEW y \in S PROVE x >= y
  <2>1. n - y \in T
    OBVIOUS
  <2> QED
    BY <1>2, <1>3, <2>1
<1>5. \E z \in S : \A y \in S : z >= y
  BY <1>4
<1>6. Max(S) \in S /\ \A y \in S : Max(S) >= y
  BY <1>5, Zenon DEF Max
<1> QED
  BY <1>6

LEMMA LeastPlace ==
    ASSUME NEW S \in SUBSET Nat, S # {}
    PROVE  Min(S) \in S /\ \A y \in S : Min(S) <= y
BY LeastElement, Zenon DEF Min

-----------------------------------------------------------------------------
(* What a sequence has at some of its places, in their order. *)

IsSeq(s) == DOMAIN s = 1 .. Len(s) /\ Len(s) \in Nat

At(s, I) == [k \in DOMAIN InOrder(I) |-> s[InOrder(I)[k]]]

LEMMA AtPlaces ==
    ASSUME NEW s, IsSeq(s), NEW I \in SUBSET (DOMAIN s)
    PROVE  /\ IsFiniteSet(I) /\ Cardinality(I) \in Nat
           /\ IsSeq(At(s, I)) /\ Len(At(s, I)) = Cardinality(I)
           /\ \A k \in 1 .. Cardinality(I) : InOrder(I)[k] \in I /\ At(s, I)[k] = s[InOrder(I)[k]]
           /\ \A i \in I : \E k \in 1 .. Cardinality(I) : InOrder(I)[k] = i
           /\ \A j, k \in 1 .. Cardinality(I) : j < k <=> InOrder(I)[j] < InOrder(I)[k]
<1> DEFINE p == InOrder(I)
           n == Cardinality(I)
<1>1. IsFiniteSet(I) /\ I \subseteq Int
  <2>1. IsFiniteSet(1 .. Len(s)) /\ I \subseteq 1 .. Len(s)
    BY FS_Interval DEF IsSeq
  <2> QED
    BY <2>1, FS_Subset DEF IsSeq
<1>2. Lists(p, I, LessOn(I))
  BY <1>1, InOrderLists
<1> HIDE DEF p
<1>3. DOMAIN p = 1 .. n /\ n \in Nat
  BY <1>2 DEF Lists
<1>4. At(s, I) = [k \in 1 .. n |-> s[p[k]]]
  BY <1>3 DEF At, p
<1>5. IsSeq(At(s, I)) /\ Len(At(s, I)) = n
  BY <1>3, <1>4 DEF IsSeq
<1>6. \A j, k \in 1 .. n : j < k <=> p[j] < p[k]
  BY <1>2 DEF Lists, LessOn
<1> QED
  BY <1>1, <1>2, <1>3, <1>4, <1>5, <1>6 DEF Lists, p

-----------------------------------------------------------------------------
(* The events in the order of time. *)

IsLedger(S) ==
    /\ IsFiniteSet(S)
    /\ \A e \in S : e.id \in Int /\ e.occurred \in Int
    /\ \A d, e \in S : d.id = e.id => d = e

Earlier(S) ==
    {p \in S \X S : \/ p[1].occurred < p[2].occurred
                    \/ p[1].occurred = p[2].occurred /\ p[1].id < p[2].id}

LEMMA EventsListed ==
    ASSUME NEW S, IsLedger(S)
    PROVE  /\ IsOrder(Earlier(S), S) /\ Lists(ReadEvents(S), S, Earlier(S))
           /\ IsSeq(ReadEvents(S)) /\ Len(ReadEvents(S)) = Cardinality(S)
<1> DEFINE n == Cardinality(S)
           R == Earlier(S)
           f == ReadEvents(S)
           Less(a, b) == \/ a.occurred < b.occurred
                         \/ a.occurred = b.occurred /\ a.id < b.id
<1>1. \A x, y \in S : <<x, y>> \in R <=> Less(x, y)
  BY DEF Earlier
<1>2. IsOrder(R, S)
  <2>1. \A x \in S : ~Less(x, x)
    BY DEF IsLedger
  <2>2. \A x, y \in S : x # y => Less(x, y) \/ Less(y, x)
    BY DEF IsLedger
  <2>3. \A x, y, z \in S : Less(x, y) /\ Less(y, z) => Less(x, z)
    BY DEF IsLedger
  <2> HIDE DEF R, Less
  <2> QED
    BY <1>1, <2>1, <2>2, <2>3, Zenon DEF IsOrder
<1>3. ASSUME NEW x \in S PROVE {y \in S : Less(y, x)} = Below(R, S, x)
  BY <1>1, Zenon DEF Below
<1>4. ASSUME NEW k \in 1 .. n PROVE f[k] \in S /\ Cardinality(Below(R, S, f[k])) = k - 1
  <2>1. \E x \in S : Cardinality({y \in S : Less(y, x)}) = k - 1
    <3>1. PICK x \in S : Cardinality(Below(R, S, x)) = k - 1
      BY <1>2, PlaceTaken DEF IsLedger
    <3> QED
      BY <1>3, <3>1, Zenon
  <2>2. f[k] = CHOOSE x \in S : Cardinality({y \in S : Less(y, x)}) = k - 1
    BY DEF ReadEvents, Sorted
  <2>3. f[k] \in S /\ Cardinality({y \in S : Less(y, f[k])}) = k - 1
    BY <2>1, <2>2, Zenon
  <2> QED
    BY <1>3, <2>3
<1>5. f = [k \in 1 .. n |-> f[k]]
  <2> DEFINE g(k) == CHOOSE x \in S : Cardinality({y \in S : Less(y, x)}) = k - 1
  <2>1. f = [k \in 1 .. n |-> g(k)]
    BY Zenon DEF ReadEvents, Sorted
  <2> HIDE DEF f, g
  <2> QED
    BY <2>1
<1>6. Lists(f, S, R)
  <2> HIDE DEF f, R
  <2> QED
    BY <1>2, <1>4, <1>5, PlacedIsListed DEF IsLedger
<1>7. IsSeq(f) /\ Len(f) = n
  <2> HIDE DEF f
  <2>1. n \in Nat
    BY <1>6 DEF Lists
  <2> QED
    BY <1>5, <2>1 DEF IsSeq
<1> QED
  BY <1>2, <1>6, <1>7

\* The events of D in the order of time, and the places of those in T.
InTime(S, D) == At(ReadEvents(S), {i \in DOMAIN ReadEvents(S) : ReadEvents(S)[i] \in D})
Hits(d, T) == {i \in 1 .. Len(d) : d[i] \in T}

\* e is the latest of the events in T, and there is one.
IsLatest(e, T, S) == e \in T /\ \A d \in T : d = e \/ <<d, e>> \in Earlier(S)

LEMMA LastMatch ==
    ASSUME NEW S, IsLedger(S), NEW D \in SUBSET S, NEW T
    PROVE  /\ IsSeq(InTime(S, D)) /\ \A i \in 1 .. Len(InTime(S, D)) : InTime(S, D)[i] \in D
           /\ \A e \in D : \E i \in 1 .. Len(InTime(S, D)) : InTime(S, D)[i] = e
           /\ \A i, j \in 1 .. Len(InTime(S, D)) :
                 i < j <=> <<InTime(S, D)[i], InTime(S, D)[j]>> \in Earlier(S)
           /\ Hits(InTime(S, D), T) = {} <=> D \cap T = {}
           /\ Hits(InTime(S, D), T) # {} =>
                 /\ Max(Hits(InTime(S, D), T)) \in Hits(InTime(S, D), T)
                 /\ Max(Hits(InTime(S, D), T)) # 0
                 /\ IsLatest(InTime(S, D)[Max(Hits(InTime(S, D), T))], D \cap T, S)
<1>0. PICK evs : evs = ReadEvents(S)
  OBVIOUS
<1>i. PICK I : I = {i \in DOMAIN evs : evs[i] \in D}
  OBVIOUS
<1>p. PICK p : p = InOrder(I)
  OBVIOUS
<1>d. PICK d : d = At(evs, I)
  OBVIOUS
<1>j. PICK J : J = Hits(d, T)
  OBVIOUS
<1>a. d = InTime(S, D)
  BY <1>0, <1>i, <1>d, Zenon DEF InTime
<1> DEFINE R == Earlier(S)
           n == Cardinality(S)
<1>1. /\ IsOrder(R, S) /\ IsSeq(evs) /\ Len(evs) = n
      /\ evs \in [1 .. n -> S] /\ \A x \in S : \E k \in 1 .. n : evs[k] = x
      /\ \A i, j \in 1 .. n : i < j <=> <<evs[i], evs[j]>> \in R
  BY <1>0, EventsListed DEF Lists
<1> HIDE DEF R
<1>2. /\ IsSeq(d) /\ Len(d) = Cardinality(I) /\ Len(d) \in Nat
      /\ \A k \in 1 .. Len(d) : p[k] \in I /\ d[k] = evs[p[k]]
      /\ \A i \in I : \E k \in 1 .. Len(d) : p[k] = i
      /\ \A j, k \in 1 .. Len(d) : j < k <=> p[j] < p[k]
  <2>1. I \subseteq DOMAIN evs
    BY <1>i
  <2>2. IsSeq(evs) /\ I \in SUBSET (DOMAIN evs)
    BY <1>1, <2>1
  <2>4. IsSeq(At(evs, I)) /\ Len(At(evs, I)) = Cardinality(I) /\ Cardinality(I) \in Nat
    BY <2>2, AtPlaces, Zenon
  <2>5. \A k \in 1 .. Cardinality(I) : InOrder(I)[k] \in I /\ At(evs, I)[k] = evs[InOrder(I)[k]]
    BY <2>2, AtPlaces, Zenon
  <2>6. \A i \in I : \E k \in 1 .. Cardinality(I) : InOrder(I)[k] = i
    BY <2>2, AtPlaces, Zenon
  <2>7. \A j, k \in 1 .. Cardinality(I) : j < k <=> InOrder(I)[j] < InOrder(I)[k]
    BY <2>2, AtPlaces, Zenon
  <2> QED
    BY <1>p, <1>d, <2>4, <2>5, <2>6, <2>7, Zenon
<1>3. \A k \in 1 .. Len(d) : p[k] \in 1 .. n /\ d[k] = evs[p[k]] /\ d[k] \in D
  BY <1>1, <1>2, <1>i
<1>4. ASSUME NEW e \in D PROVE \E i \in 1 .. Len(d) : d[i] = e
  <2>1. PICK k \in 1 .. n : evs[k] = e
    BY <1>1
  <2>2. k \in I
    BY <1>1, <1>i, <2>1
  <2>3. PICK i \in 1 .. Len(d) : p[i] = k
    BY <1>2, <2>2
  <2> QED
    BY <1>2, <2>1, <2>3
<1>5. \A i, j \in 1 .. Len(d) : i < j <=> <<d[i], d[j]>> \in R
  <2> SUFFICES ASSUME NEW i \in 1 .. Len(d), NEW j \in 1 .. Len(d)
               PROVE  i < j <=> <<d[i], d[j]>> \in R
    OBVIOUS
  <2>1. p[i] < p[j] <=> <<evs[p[i]], evs[p[j]]>> \in R
    BY <1>1, <1>3
  <2> QED
    BY <1>2, <1>3, <2>1
<1>6. J = {} <=> D \cap T = {}
  BY <1>3, <1>4, <1>j DEF Hits
<1>7. ASSUME J # {}
      PROVE  /\ Max(J) \in J /\ Max(J) # 0 /\ d[Max(J)] \in D \cap T
             /\ \A e \in D \cap T : e = d[Max(J)] \/ <<e, d[Max(J)]>> \in R
  <2>1. Max(J) \in J /\ \A i \in J : i <= Max(J)
    <3>1. J \in SUBSET (1 .. Len(d)) /\ Len(d) \in Nat
      BY <1>2, <1>j DEF Hits
    <3> QED
      BY <1>7, <3>1, GreatestPlace
  <2> DEFINE m == Max(J)
  <2> HIDE DEF m
  <2>2. m \in 1 .. Len(d) /\ d[m] \in D \cap T /\ m # 0
    BY <1>2, <1>3, <1>j, <2>1 DEF m, Hits
  <2>3. ASSUME NEW e \in D \cap T PROVE e = d[m] \/ <<e, d[m]>> \in R
    <3>1. PICK i \in 1 .. Len(d) : d[i] = e
      BY <1>4
    <3>2. i <= m
      BY <1>j, <2>1, <3>1 DEF m, Hits
    <3>3. i = m \/ i < m
      BY <1>2, <2>2, <3>2
    <3> QED
      BY <1>5, <2>2, <3>1, <3>3
  <2> QED
    BY <2>1, <2>2, <2>3 DEF m
<1>8. J # {} => IsLatest(d[Max(J)], D \cap T, S)
  BY <1>7, Zenon DEF IsLatest, R
<1>9. \A i, j \in 1 .. Len(d) : i < j <=> <<d[i], d[j]>> \in Earlier(S)
  BY <1>5 DEF R
<1> QED
  BY <1>a, <1>j, <1>2, <1>3, <1>4, <1>6, <1>7, <1>8, <1>9, Zenon

-----------------------------------------------------------------------------
(* Editing, committing and capturing. *)

IsCapture(e) ==
    /\ e.id \in Int /\ e.id > 100 /\ e.occurred \in Int
    /\ DOMAIN e.files = {1} /\ Len(e.files) = 1 /\ e.files[1].path = File

RowsInv ==
    /\ IsLedger(rows) /\ \A e \in rows : e \in Pool \/ IsCapture(e)
    /\ \A e \in Captured : e.id <= 100 + Cardinality(Captured)

Added(c) == ToSet(commits[c][2]) \ ToSet(commits[c][1])

\* A committed line that a later version lacks is in no version after it, so
\* it is added by one commit.
TreeInv ==
    /\ lines \in Nat /\ work \in Seq(Nat) /\ index \in Seq(Nat) /\ head \in Seq(Nat)
    /\ commits \in Seq(Seq(Nat) \X Seq(Nat))
    /\ ToSet(work) \cup ToSet(index) \cup ToSet(head) \subseteq 1 .. lines
    /\ \A c \in 1 .. Len(commits) : ToSet(commits[c][2]) \subseteq 1 .. lines
    /\ \A l \in ToSet(head) : \E c \in 1 .. Len(commits) : l \in Added(c)
    /\ \A c \in 1 .. Len(commits) : \A l \in ToSet(commits[c][2]) :
          /\ l \in ToSet(work) => l \in ToSet(index)
          /\ l \in ToSet(index) => l \in ToSet(head)
    /\ \A c, d \in 1 .. Len(commits) : \A l \in Added(c) \cap Added(d) : c = d

QuietInv == lines = 0 => commits = <<>> /\ pend = None /\ rows \subseteq Pool

HistoryInv == RowsInv /\ TreeInv /\ QuietInv

LEMMA ToSetIn ==
    ASSUME NEW S, NEW s \in Seq(S)
    PROVE  /\ DOMAIN s = 1 .. Len(s) /\ Len(s) \in Nat /\ ToSet(s) \subseteq S
           /\ \A x : x \in ToSet(s) <=> \E i \in 1 .. Len(s) : s[i] = x
           /\ s # <<>> => ToSet(s) # {}
<1>1. DOMAIN s = 1 .. Len(s) /\ Len(s) \in Nat /\ \A i \in 1 .. Len(s) : s[i] \in S
  OBVIOUS
<1>2. \A x : x \in ToSet(s) <=> \E i \in 1 .. Len(s) : s[i] = x
  BY <1>1, Zenon DEF ToSet
<1>3. ASSUME s # <<>> PROVE ToSet(s) # {}
  <2>1. 1 \in 1 .. Len(s)
    BY <1>3, EmptySeq
  <2> QED
    BY <1>2, <2>1
<1> QED
  BY <1>1, <1>2, <1>3

LEMMA ToSetWithin ==
    ASSUME NEW S, NEW s \in Seq(S), NEW T, \A i \in 1 .. Len(s) : s[i] \in T
    PROVE  ToSet(s) \subseteq T
<1>1. \A x : x \in ToSet(s) <=> \E i \in 1 .. Len(s) : s[i] = x
  BY ToSetIn
<1> QED
  BY <1>1

LEMMA EditedLines ==
    ASSUME NEW s \in Seq(Nat), NEW e \in Nat
    PROVE  /\ \A i \in 1 .. (Len(s) + 1) : /\ InsertAt(s, i, e) \in Seq(Nat)
                                           /\ ToSet(InsertAt(s, i, e)) \subseteq ToSet(s) \cup {e}
           /\ \A i \in 1 .. Len(s) : /\ RemoveAt(s, i) \in Seq(Nat)
                                     /\ ToSet(RemoveAt(s, i)) \subseteq ToSet(s)
<1>1. ASSUME NEW t \in Seq(Nat), NEW u \in Seq(Nat)
      PROVE  t \o u \in Seq(Nat) /\ ToSet(t \o u) \subseteq ToSet(t) \cup ToSet(u)
  <2>1. /\ t \o u \in Seq(Nat) /\ Len(t \o u) = Len(t) + Len(u)
        /\ \A i \in 1 .. Len(t) + Len(u) : (t \o u)[i] = IF i <= Len(t) THEN t[i] ELSE u[i - Len(t)]
    BY ConcatProperties, Zenon
  <2>2. ASSUME NEW i \in 1 .. Len(t \o u) PROVE (t \o u)[i] \in ToSet(t) \cup ToSet(u)
    <3>1. CASE i <= Len(t)
      BY <2>1, <3>1, ToSetIn
    <3>2. CASE ~(i <= Len(t))
      <4>1. i - Len(t) \in 1 .. Len(u) /\ (t \o u)[i] = u[i - Len(t)]
        BY <2>1, <3>2
      <4> QED
        BY <4>1, ToSetIn
    <3> QED
      BY <3>1, <3>2
  <2>3. ToSet(t \o u) \subseteq ToSet(t) \cup ToSet(u)
    BY <2>1, <2>2, ToSetWithin, Zenon
  <2> QED
    BY <2>1, <2>3
<1>2. ASSUME NEW a \in 1 .. (Len(s) + 1), NEW b \in 0 .. Len(s)
      PROVE  SubSeq(s, a, b) \in Seq(Nat) /\ ToSet(SubSeq(s, a, b)) \subseteq ToSet(s)
  <2>1. /\ SubSeq(s, a, b) \in Seq(Nat)
        /\ Len(SubSeq(s, a, b)) = IF a <= b THEN b - a + 1 ELSE 0
        /\ \A i \in 1 .. (b - a + 1) : SubSeq(s, a, b)[i] = s[a + i - 1]
    BY SubSeqProperties
  <2>2. ASSUME NEW i \in 1 .. Len(SubSeq(s, a, b)) PROVE SubSeq(s, a, b)[i] \in ToSet(s)
    <3>1. a + i - 1 \in 1 .. Len(s) /\ i \in 1 .. (b - a + 1)
      BY <2>1
    <3>2. SubSeq(s, a, b)[i] = s[a + i - 1]
      BY <2>1, <3>1
    <3>3. s[a + i - 1] \in ToSet(s)
      BY <3>1, ToSetIn
    <3> QED
      BY <3>2, <3>3
  <2>3. ToSet(SubSeq(s, a, b)) \subseteq ToSet(s)
    BY <2>1, <2>2, ToSetWithin, Zenon
  <2> QED
    BY <2>1, <2>3
<1>3. <<e>> \in Seq(Nat) /\ ToSet(<<e>>) = {e}
  BY DEF ToSet
<1>4. ASSUME NEW i \in 1 .. (Len(s) + 1)
      PROVE  InsertAt(s, i, e) \in Seq(Nat) /\ ToSet(InsertAt(s, i, e)) \subseteq ToSet(s) \cup {e}
  <2> DEFINE t == SubSeq(s, 1, i - 1)
             u == SubSeq(s, i, Len(s))
  <2>1. /\ t \in Seq(Nat) /\ ToSet(t) \subseteq ToSet(s)
        /\ u \in Seq(Nat) /\ ToSet(u) \subseteq ToSet(s)
    <3>1. i - 1 \in 0 .. Len(s) /\ 1 \in 1 .. (Len(s) + 1) /\ Len(s) \in 0 .. Len(s)
      OBVIOUS
    <3> QED
      BY <1>2, <3>1
  <2>2. InsertAt(s, i, e) = t \o <<e>> \o u
    BY DEF InsertAt
  <2> HIDE DEF t, u
  <2>3. t \o <<e>> \in Seq(Nat) /\ ToSet(t \o <<e>>) \subseteq ToSet(t) \cup {e}
    BY <1>1, <1>3, <2>1
  <2>4. t \o <<e>> \o u \in Seq(Nat) /\ ToSet(t \o <<e>> \o u) \subseteq ToSet(t \o <<e>>) \cup ToSet(u)
    BY <1>1, <2>1, <2>3
  <2> QED
    BY <2>1, <2>2, <2>3, <2>4, Zenon
<1>5. ASSUME NEW i \in 1 .. Len(s)
      PROVE  RemoveAt(s, i) \in Seq(Nat) /\ ToSet(RemoveAt(s, i)) \subseteq ToSet(s)
  <2> DEFINE t == SubSeq(s, 1, i - 1)
             u == SubSeq(s, i + 1, Len(s))
  <2>1. /\ t \in Seq(Nat) /\ ToSet(t) \subseteq ToSet(s)
        /\ u \in Seq(Nat) /\ ToSet(u) \subseteq ToSet(s)
    <3>1. /\ i - 1 \in 0 .. Len(s) /\ 1 \in 1 .. (Len(s) + 1)
          /\ i + 1 \in 1 .. (Len(s) + 1) /\ Len(s) \in 0 .. Len(s)
      OBVIOUS
    <3> QED
      BY <1>2, <3>1
  <2>2. RemoveAt(s, i) = t \o u
    BY DEF RemoveAt
  <2> HIDE DEF t, u
  <2> QED
    BY <1>1, <2>1, <2>2
<1> QED
  BY <1>4, <1>5

LEMMA HistoryInit == Init => HistoryInv
<1> SUFFICES ASSUME Init PROVE HistoryInv
  OBVIOUS
<1>1. /\ rows = {} /\ pend = None /\ lines = 0
      /\ work = <<>> /\ index = <<>> /\ head = <<>> /\ commits = <<>>
  BY DEF Init
<1>2. RowsInv
  <2>1. IsFiniteSet(rows) /\ Captured = {}
    BY <1>1, FS_EmptySet DEF Captured
  <2> QED
    BY <1>1, <2>1 DEF RowsInv, IsLedger
<1>3. TreeInv
  <2>1. ToSet(<<>>) = {}
    BY DEF ToSet
  <2>2. <<>> \in Seq(Nat) /\ <<>> \in Seq(Seq(Nat) \X Seq(Nat)) /\ Len(<<>>) = 0
    OBVIOUS
  <2>3. \A c \in 1 .. Len(commits) : FALSE
    BY <1>1
  <2> QED
    BY <1>1, <2>1, <2>2, <2>3, Zenon DEF TreeInv
<1>4. QuietInv
  BY <1>1 DEF QuietInv
<1> QED
  BY <1>2, <1>3, <1>4 DEF HistoryInv

\* Events recorded, or none: the tree is not concerned.
LEMMA TreeStays ==
    ASSUME TreeInv, UNCHANGED treeVars PROVE TreeInv'
<1>1. /\ work' = work /\ index' = index /\ head' = head /\ commits' = commits /\ lines' = lines
  BY DEF treeVars
<1> QED
  BY <1>1 DEF TreeInv, Added

LEMMA RowsStay ==
    ASSUME RowsInv, rows' = rows PROVE RowsInv'
BY DEF RowsInv, IsLedger, Captured

\* Versions of the file change without a commit.
LEMMA TreeMoves ==
    ASSUME TreeInv, commits' = commits, head' = head,
           lines' \in Nat, lines <= lines', work' \in Seq(Nat), index' \in Seq(Nat),
           ToSet(work') \subseteq 1 .. lines', ToSet(index') \subseteq 1 .. lines',
           \A l \in ToSet(work') : l \in ToSet(work) \/ l > lines,
           index' = index \/ (index' = work /\ work' = work)
    PROVE  TreeInv'
<1>1. \A c : Added(c)' = Added(c)
  BY DEF Added
<1>2. ToSet(head') \subseteq 1 .. lines'
  <2>1. \A l \in 1 .. lines : l \in 1 .. lines'
    BY DEF TreeInv
  <2> QED
    BY <2>1, Zenon DEF TreeInv
<1>3. \A c \in 1 .. Len(commits') : ToSet(commits'[c][2]) \subseteq 1 .. lines'
  <2>1. \A l \in 1 .. lines : l \in 1 .. lines'
    BY DEF TreeInv
  <2> QED
    BY <2>1, Zenon DEF TreeInv
<1>4. ASSUME NEW c \in 1 .. Len(commits'), NEW l \in ToSet(commits'[c][2])
      PROVE  /\ l \in ToSet(work') => l \in ToSet(index')
             /\ l \in ToSet(index') => l \in ToSet(head')
  <2>1. l \in 1 .. lines /\ (l \in ToSet(work) => l \in ToSet(index))
        /\ (l \in ToSet(index) => l \in ToSet(head))
    BY <1>4, Zenon DEF TreeInv
  <2>2. ~(l > lines)
    BY <2>1 DEF TreeInv
  <2>3. l \in ToSet(work') => l \in ToSet(work)
    BY <2>2
  <2> QED
    BY <2>1, <2>3
<1> QED
  BY <1>1, <1>2, <1>3, <1>4 DEF TreeInv

LEMMA CommitKeeps == HistoryInv /\ Commit => TreeInv'
<1> SUFFICES ASSUME HistoryInv, Commit PROVE TreeInv'
  OBVIOUS
<1>1. TreeInv
  BY DEF HistoryInv
<1>2. /\ head' = index /\ commits' = Append(commits, <<head, index>>)
      /\ work' = work /\ index' = index /\ lines' = lines
  BY DEF Commit
<1>a. PICK N : N = Len(commits) + 1
  OBVIOUS
<1>3. /\ Len(commits) \in Nat /\ N \in Nat /\ Len(commits') = N
      /\ commits'[N] = <<head, index>> /\ commits' \in Seq(Seq(Nat) \X Seq(Nat))
      /\ \A c \in 1 .. Len(commits) : commits'[c] = commits[c]
  BY <1>1, <1>2, <1>a DEF TreeInv
<1>b. \A c \in 1 .. Len(commits) : c \in 1 .. N /\ c # N
  BY <1>3, <1>a
<1>4. \A c \in 1 .. N : c = N \/ c \in 1 .. Len(commits)
  BY <1>3, <1>a
<1>5. /\ Added(N)' = ToSet(index) \ ToSet(head)
      /\ \A c \in 1 .. Len(commits) : Added(c)' = Added(c)
  <2>1. Added(N)' = ToSet(commits'[N][2]) \ ToSet(commits'[N][1])
    BY Zenon DEF Added
  <2> QED
    BY <1>3, <2>1 DEF Added
<1>6. ASSUME NEW l \in ToSet(head') PROVE \E c \in 1 .. N : l \in Added(c)'
  <2>1. CASE l \in ToSet(head)
    <3>1. PICK c \in 1 .. Len(commits) : l \in Added(c)
      BY <1>1, <2>1 DEF TreeInv
    <3>2. c \in 1 .. N
      BY <1>3, <1>a
    <3> QED
      BY <1>5, <3>1, <3>2
  <2>2. CASE l \notin ToSet(head)
    <3>1. N \in 1 .. N
      BY <1>3, <1>a
    <3> QED
      BY <1>2, <1>5, <2>2, <3>1
  <2> QED
    BY <2>1, <2>2
<1>7. ASSUME NEW c \in 1 .. N, NEW l \in ToSet(commits'[c][2])
      PROVE  /\ l \in 1 .. lines
             /\ l \in ToSet(work) => l \in ToSet(index)
             /\ c # N /\ l \in ToSet(index) => l \in ToSet(head)
  <2>1. CASE c = N
    <3>1. l \in ToSet(index)
      BY <1>3, <1>7, <2>1
    <3> QED
      BY <1>1, <2>1, <3>1 DEF TreeInv
  <2>2. CASE c \in 1 .. Len(commits)
    <3>1. l \in ToSet(commits[c][2])
      BY <1>3, <1>7, <2>2
    <3> QED
      BY <1>1, <2>2, <3>1, Zenon DEF TreeInv
  <2> QED
    BY <1>4, <2>1, <2>2
<1>8. ASSUME NEW c \in 1 .. N, NEW d \in 1 .. N, NEW l \in Added(c)' \cap Added(d)' PROVE c = d
  <2>1. ASSUME NEW b \in 1 .. Len(commits), l \in Added(b)' PROVE l \notin Added(N)'
    <3>1. l \in ToSet(commits'[b][2]) /\ b \in 1 .. N /\ b # N
      <4>1. l \in Added(b)
        BY <1>5, <2>1
      <4>2. l \in ToSet(commits[b][2])
        BY <4>1, Zenon DEF Added
      <4> QED
        BY <1>3, <1>a, <4>2
    <3>2. l \in ToSet(index) => l \in ToSet(head)
      BY <1>7, <3>1
    <3> QED
      BY <1>5, <3>2
  <2>2. CASE c \in 1 .. Len(commits) /\ d \in 1 .. Len(commits)
    BY <1>1, <1>5, <1>8, <2>2 DEF TreeInv
  <2> QED
    BY <1>4, <1>8, <2>1, <2>2
<1> QED
  BY <1>1, <1>2, <1>3, <1>6, <1>7, <1>8, Zenon DEF TreeInv

LEMMA CaptureRecorded == HistoryInv /\ CaptureEnd => RowsInv'
<1> SUFFICES ASSUME HistoryInv, CaptureEnd PROVE RowsInv'
  OBVIOUS
<1>1. RowsInv
  BY DEF HistoryInv
<1>a. PICK n : n = Cardinality(Captured) + 1
  OBVIOUS
<1>b. PICK e : /\ rows' = rows \cup {e}
               /\ e = [BlankEvent EXCEPT
                         !.id = 100 + n, !.type = "diff.captured",
                         !.occurred = 50 + n, !.recorded = 50 + n, !.session = pend.by[1],
                         !.artifact = pend.by[2], !.target = pend.target,
                         !.files = <<[path |-> File, old |-> None, hunks |-> pend.hunks,
                                      patch |-> FilePatchId(Versions(pend.target))]>>]
  BY <1>a, Zenon DEF CaptureEnd
<1>2. /\ rows' = rows \cup {e} /\ e.id = 100 + n /\ e.occurred = 50 + n
      /\ e.files = <<[path |-> File, old |-> None, hunks |-> pend.hunks,
                      patch |-> FilePatchId(Versions(pend.target))]>>
  BY <1>b DEF BlankEvent
<1>3. /\ IsFiniteSet(rows) /\ IsFiniteSet(Captured) /\ Cardinality(Captured) \in Nat
      /\ n \in Nat /\ n > 0 /\ n = Cardinality(Captured) + 1
      /\ Captured \subseteq rows
  <2>1. IsFiniteSet(rows) /\ Captured \subseteq rows
    BY <1>1 DEF RowsInv, IsLedger, Captured
  <2> QED
    BY <1>a, <2>1, FS_Subset, FS_CardinalityType
<1>4. IsCapture(e)
  BY <1>2, <1>3 DEF IsCapture
<1>5. \A d \in rows : d.id \in Int /\ d.id # e.id
  <2> SUFFICES ASSUME NEW d \in rows PROVE d.id \in Int /\ d.id # e.id
    OBVIOUS
  <2>1. d.id \in Int
    BY <1>1 DEF RowsInv, IsLedger
  <2>2. d.id > 100 => d.id <= 100 + Cardinality(Captured)
    BY <1>1 DEF RowsInv, Captured
  <2> QED
    BY <1>2, <1>3, <2>1, <2>2
<1>6. Captured' = Captured \cup {e} /\ e \notin Captured
  BY <1>2, <1>3, <1>5 DEF Captured
<1>7. Cardinality(Captured') = n
  BY <1>3, <1>6, FS_AddElement
<1>8. IsLedger(rows')
  <2>1. IsFiniteSet(rows')
    BY <1>2, <1>3, FS_AddElement
  <2>2. \A d \in rows' : d.id \in Int /\ d.occurred \in Int
    BY <1>1, <1>2, <1>4 DEF RowsInv, IsLedger, IsCapture
  <2>3. \A c, d \in rows' : c.id = d.id => c = d
    BY <1>1, <1>2, <1>5 DEF RowsInv, IsLedger
  <2> QED
    BY <2>1, <2>2, <2>3 DEF IsLedger
<1>9. \A d \in Captured' : d.id <= 100 + Cardinality(Captured')
  <2>1. \A d \in Captured : d.id \in Int /\ d.id <= 100 + Cardinality(Captured)
    BY <1>1, <1>3 DEF RowsInv, IsLedger
  <2> QED
    BY <1>2, <1>3, <1>6, <1>7, <2>1
<1>10. \A d \in rows' : d \in Pool \/ IsCapture(d)
  BY <1>1, <1>2, <1>4 DEF RowsInv
<1> QED
  BY <1>8, <1>9, <1>10 DEF RowsInv

LEMMA RecordKeeps == ASSUME HistoryInv, NEW e \in Pool, Record(e) PROVE RowsInv'
<1>1. RowsInv /\ rows' = rows \cup {e} /\ e.id \notin {x.id : x \in rows}
  BY DEF HistoryInv, Record
<1>2. e.id \in 1 .. 100 /\ e.occurred \in Int
  BY ProvenanceAssumption
<1>3. Captured' = Captured
  BY <1>1, <1>2 DEF Captured
<1>4. IsLedger(rows')
  <2>1. IsFiniteSet(rows')
    BY <1>1, FS_AddElement DEF RowsInv, IsLedger
  <2>2. \A d \in rows' : d.id \in Int /\ d.occurred \in Int
    BY <1>1, <1>2 DEF RowsInv, IsLedger
  <2>3. \A c, d \in rows' : c.id = d.id => c = d
    BY <1>1 DEF RowsInv, IsLedger
  <2> QED
    BY <2>1, <2>2, <2>3 DEF IsLedger
<1> QED
  BY <1>1, <1>3, <1>4 DEF RowsInv

LEMMA QuietKeeps == HistoryInv /\ [Next]_vars => QuietInv'
<1> SUFFICES ASSUME HistoryInv, [Next]_vars, lines' = 0 PROVE (commits = <<>> /\ pend = None /\ rows \subseteq Pool)'
  BY DEF QuietInv
<1>1. lines \in Nat /\ (lines' = lines \/ lines' = lines + 1)
  <2>1. lines \in Nat
    BY DEF HistoryInv, TreeInv
  <2> QED
    BY <2>1 DEF Next, Edit, DeleteLine, Stage, Commit, CaptureBegin, CaptureEnd, Record, treeVars, vars
<1>2. lines = 0
  BY <1>1
<1>3. commits = <<>> /\ pend = None /\ rows \subseteq Pool
  BY <1>2 DEF HistoryInv, QuietInv
<1>4. work = <<>> /\ index = <<>> /\ head = <<>>
  <2>1. \A s \in Seq(Nat) : ToSet(s) \subseteq 1 .. 0 => s = <<>>
    BY ToSetIn
  <2>2. ToSet(work) \subseteq 1 .. 0 /\ ToSet(index) \subseteq 1 .. 0 /\ ToSet(head) \subseteq 1 .. 0
    BY <1>2, Zenon DEF HistoryInv, TreeInv
  <2> QED
    BY <2>1, <2>2 DEF HistoryInv, TreeInv
<1>5. ASSUME Edit PROVE FALSE
  BY <1>2, <1>5 DEF Edit
<1>6. ASSUME NEW s, CaptureBegin(s) PROVE FALSE
  <2>1. PICK t \in {"working", "staged", "range"} : Versions(t)[1] # Versions(t)[2]
    BY <1>6 DEF CaptureBegin
  <2> QED
    BY <1>3, <1>4, <2>1 DEF Versions
<1>7. ASSUME NEW e \in Pool, Record(e) PROVE rows' = rows \cup {e} /\ commits' = commits /\ pend' = pend
  BY <1>7 DEF Record, treeVars
<1>8. ~CaptureEnd
  BY <1>3 DEF CaptureEnd
<1>9. ~Stage /\ ~Commit
  BY <1>4 DEF Stage, Commit
<1>10. ~DeleteLine
  <2>1. DOMAIN work = {}
    BY <1>4
  <2> QED
    BY <2>1 DEF DeleteLine
<1>11. UNCHANGED vars \/ \E e \in Pool : Record(e)
  BY <1>5, <1>6, <1>8, <1>9, <1>10 DEF Next
<1> QED
  BY <1>3, <1>7, <1>11 DEF vars

LEMMA HistoryStep == HistoryInv /\ [Next]_vars => HistoryInv'
<1> SUFFICES ASSUME HistoryInv, [Next]_vars PROVE HistoryInv'
  OBVIOUS
<1>1. /\ RowsInv /\ TreeInv /\ lines \in Nat /\ work \in Seq(Nat) /\ index \in Seq(Nat)
      /\ ToSet(work) \subseteq 1 .. lines /\ ToSet(index) \subseteq 1 .. lines
  BY DEF HistoryInv, TreeInv
<1>2. QuietInv'
  BY QuietKeeps
<1>3. CASE Edit
  <2>1. RowsInv'
    BY <1>1, <1>3, RowsStay DEF Edit
  <2>2. PICK i \in 1 .. (Len(work) + 1) : work' = InsertAt(work, i, lines + 1)
    BY <1>3 DEF Edit
  <2>3. lines' = lines + 1 /\ commits' = commits /\ head' = head /\ index' = index
    BY <1>3 DEF Edit
  <2>4. work' \in Seq(Nat) /\ ToSet(work') \subseteq ToSet(work) \cup {lines + 1}
    BY <1>1, <2>2, EditedLines
  <2>5. /\ \A l \in ToSet(work') : l \in ToSet(work) \/ l > lines
        /\ ToSet(work') \subseteq 1 .. lines' /\ ToSet(index') \subseteq 1 .. lines'
    <3>1. \A l \in 1 .. lines : l \in 1 .. lines'
      BY <1>1, <2>3
    <3>2. lines + 1 \in 1 .. lines' /\ lines + 1 > lines
      BY <1>1, <2>3
    <3> QED
      BY <1>1, <2>3, <2>4, <3>1, <3>2
  <2>6. TreeInv'
    BY <1>1, <2>3, <2>4, <2>5, TreeMoves
  <2> QED
    BY <1>2, <2>1, <2>6 DEF HistoryInv
<1>4. CASE DeleteLine
  <2>1. RowsInv'
    BY <1>1, <1>4, RowsStay DEF DeleteLine
  <2>2. PICK i \in 1 .. Len(work) : work' = RemoveAt(work, i)
    BY <1>1, <1>4 DEF DeleteLine
  <2>3. lines' = lines /\ commits' = commits /\ head' = head /\ index' = index
    BY <1>4 DEF DeleteLine
  <2>4. work' \in Seq(Nat) /\ ToSet(work') \subseteq ToSet(work)
    BY <1>1, <2>2, EditedLines
  <2>5. TreeInv'
    BY <1>1, <2>3, <2>4, TreeMoves
  <2> QED
    BY <1>2, <2>1, <2>5 DEF HistoryInv
<1>5. CASE Stage
  <2>1. RowsInv'
    BY <1>1, <1>5, RowsStay DEF Stage
  <2>2. /\ lines' = lines /\ commits' = commits /\ head' = head
        /\ index' = work /\ work' = work
    BY <1>5 DEF Stage
  <2>3. TreeInv'
    BY <1>1, <2>2, TreeMoves
  <2> QED
    BY <1>2, <2>1, <2>3 DEF HistoryInv
<1>6. CASE Commit
  <2>1. RowsInv'
    BY <1>1, <1>6, RowsStay DEF Commit
  <2> QED
    BY <1>2, <1>6, <2>1, CommitKeeps DEF HistoryInv
<1>7. ASSUME NEW s \in Capturers, CaptureBegin(s) PROVE HistoryInv'
  BY <1>1, <1>2, <1>7, RowsStay, TreeStays DEF CaptureBegin, HistoryInv
<1>8. CASE CaptureEnd
  BY <1>1, <1>2, <1>8, CaptureRecorded, TreeStays DEF CaptureEnd, HistoryInv
<1>9. ASSUME NEW e \in Pool, Record(e) PROVE HistoryInv'
  BY <1>1, <1>2, <1>9, RecordKeeps, TreeStays DEF Record, HistoryInv
<1>10. CASE UNCHANGED vars
  BY <1>1, <1>2, <1>10, RowsStay, TreeStays DEF vars, treeVars, HistoryInv
<1> QED
  BY <1>3, <1>4, <1>5, <1>6, <1>7, <1>8, <1>9, <1>10 DEF Next

LEMMA History == Spec => []HistoryInv
BY HistoryInit, HistoryStep, PTL DEF Spec

-----------------------------------------------------------------------------
(* Blame. *)

\* The commit of a line is the one that added it, and 0 is no commit.
LEMMA CommitOfLine ==
    ASSUME TreeInv, NEW l
    PROVE  /\ BlameCommit(l) # 0 <=> l \in ToSet(head)
           /\ BlameCommit(l) # 0 => /\ BlameCommit(l) \in 1 .. Len(commits)
                                    /\ l \in Added(BlameCommit(l))
                                    /\ \A c \in 1 .. Len(commits) : l \in Added(c) => c = BlameCommit(l)
<1>1. CASE l \notin ToSet(head)
  BY <1>1 DEF BlameCommit
<1>2. CASE l \in ToSet(head)
  <2>1. DOMAIN commits = 1 .. Len(commits) /\ Len(commits) \in Nat
    BY DEF TreeInv
  <2>2. \E c \in DOMAIN commits : l \in ToSet(commits[c][2]) \ ToSet(commits[c][1])
    BY <1>2, <2>1, Zenon DEF TreeInv, Added
  <2>3. BlameCommit(l) = CHOOSE c \in DOMAIN commits : l \in ToSet(commits[c][2]) \ ToSet(commits[c][1])
    BY <1>2 DEF BlameCommit
  <2>4. BlameCommit(l) \in 1 .. Len(commits) /\ l \in Added(BlameCommit(l))
    BY <2>1, <2>2, <2>3, Zenon DEF Added
  <2>5. BlameCommit(l) # 0
    BY <2>1, <2>4
  <2> QED
    BY <1>2, <2>4, <2>5, Zenon DEF TreeInv
<1> QED
  BY <1>1, <1>2

DiffsOf(S, path) ==
    {e \in S : /\ e.type = "diff.captured" /\ e.readable
               /\ \E i \in DOMAIN e.files : e.files[i].path = path}
WithPatch(S, path, patch) ==
    {e \in S : \E i \in DOMAIN e.files : e.files[i].path = path /\ e.files[i].patch = patch}

LEMMA DiffsCollected ==
    ASSUME NEW S, IsLedger(S), NEW path
    PROVE  /\ CollectDiffEvents(ReadEvents(S), path) = InTime(S, DiffsOf(S, path))
           /\ DiffsOf(S, path) \in SUBSET S
<1> DEFINE evs == ReadEvents(S)
<1>1. \A i \in DOMAIN evs : evs[i] \in S
  BY EventsListed DEF Lists
<1> HIDE DEF evs
<1>2. {i \in DOMAIN evs : /\ evs[i].type = "diff.captured" /\ evs[i].readable
                          /\ \E j \in DOMAIN evs[i].files : evs[i].files[j].path = path}
        = {i \in DOMAIN evs : evs[i] \in DiffsOf(S, path)}
  BY <1>1, Zenon DEF DiffsOf
<1>3. CollectDiffEvents(ReadEvents(S), path) = InTime(S, DiffsOf(S, path))
  BY <1>2, Zenon DEF CollectDiffEvents, Select, At, evs, InTime
<1> QED
  BY <1>3 DEF DiffsOf

\* The last of the diffs of a path for which Wanted holds, on those of S in T.
LEMMA Attributed ==
    ASSUME NEW S, IsLedger(S), NEW path, NEW patch
    PROVE  LET a == AttributionOf(ReadEvents(S), path, patch)
               T == DiffsOf(S, path) \cap WithPatch(S, path, patch)
           IN IF patch = None \/ T = {} THEN a = None ELSE IsLatest(a, T, S)
<1>a. PICK d : d = InTime(S, DiffsOf(S, path))
  OBVIOUS
<1>b. PICK W : W = WithPatch(S, path, patch)
  OBVIOUS
<1>c. PICK T : T = DiffsOf(S, path) \cap W
  OBVIOUS
<1>d. PICK J : J = Hits(d, W)
  OBVIOUS
<1>1. /\ IsSeq(d) /\ \A i \in 1 .. Len(d) : d[i] \in DiffsOf(S, path)
      /\ J = {} <=> T = {}
      /\ J # {} => Max(J) # 0 /\ IsLatest(d[Max(J)], T, S)
  <2> DEFINE D == DiffsOf(S, path)
  <2>1. D \in SUBSET S
    BY DiffsCollected
  <2> HIDE DEF D
  <2>2. IsSeq(InTime(S, D)) /\ \A i \in 1 .. Len(InTime(S, D)) : InTime(S, D)[i] \in D
    BY <2>1, LastMatch
  <2>3. Hits(InTime(S, D), W) = {} <=> D \cap W = {}
    BY <2>1, LastMatch
  <2>4. Hits(InTime(S, D), W) # {} =>
           /\ Max(Hits(InTime(S, D), W)) # 0
           /\ IsLatest(InTime(S, D)[Max(Hits(InTime(S, D), W))], D \cap W, S)
    BY <2>1, LastMatch
  <2>5. d = InTime(S, D) /\ J = Hits(InTime(S, D), W) /\ T = D \cap W
    BY <1>a, <1>c, <1>d DEF D
  <2> QED
    BY <2>2, <2>3, <2>4, <2>5, Zenon DEF D
<1>2. J = {i \in 1 .. Len(d) : \E j \in DOMAIN d[i].files :
                                  d[i].files[j].path = path /\ d[i].files[j].patch = patch}
  <2>1. \A i \in 1 .. Len(d) : d[i] \in S
    BY <1>1, DiffsCollected
  <2> QED
    BY <1>b, <1>d, <2>1, Zenon DEF WithPatch, Hits
<1>3. AttributionOf(ReadEvents(S), path, patch)
        = IF patch = None \/ (IF J # {} THEN Max(J) ELSE 0) = 0 THEN None
          ELSE d[IF J # {} THEN Max(J) ELSE 0]
  <2>1. CollectDiffEvents(ReadEvents(S), path) = d
    BY <1>a, DiffsCollected
  <2> QED
    BY <1>2, <2>1, Zenon DEF AttributionOf, SelectLastInSeq
<1>4. CASE J # {}
  BY <1>b, <1>c, <1>1, <1>3, <1>4
<1>5. CASE J = {}
  BY <1>b, <1>c, <1>1, <1>3, <1>5
<1> QED
  BY <1>4, <1>5

\* What blame says of a line: nothing of a diff unless one captured the
\* patch of the commit that added it, or the line is not committed.
LEMMA LineBlamed ==
    ASSUME TreeInv, NEW n \in DOMAIN work, NEW c, c = BlameCommit(work[n]),
           NEW a, a = AttributionOf(Events, File, commits[c]),
           NEW b, b = BlameFile(Events, File)[n]
    PROVE  /\ b.confidence \in {"commit", "working", "unattributed"}
           /\ c # 0 => b = IF a = None THEN Unattributed(c)
                           ELSE [commit |-> c, event |-> a.id, confidence |-> "commit"]
           /\ b.confidence = "commit" => c # 0 /\ a # None
<1>1. b = BlameLine(Events, File, n)
  BY DEF BlameFile
<1>2. CASE c # 0
  <2>1. b = IF a = None THEN Unattributed(c)
            ELSE [commit |-> c, event |-> a.id, confidence |-> "commit"]
    BY <1>1, <1>2, Zenon DEF BlameLine, Overlay
  <2> QED
    BY <1>2, <2>1 DEF Unattributed
<1>3. CASE c = 0
  <2>1. b = Unattributed(c)
        \/ b = [Unattributed(c) EXCEPT !.event = LatestWorking(Events, File).id,
                                       !.confidence = "working"]
    BY <1>1, <1>3, Zenon DEF BlameLine, Overlay
  <2>x. PICK x : x = LatestWorking(Events, File).id
    OBVIOUS
  <2>u. PICK u : u = [commit |-> c, event |-> None, confidence |-> "unattributed"]
    OBVIOUS
  <2>2. b = u \/ b = [u EXCEPT !.event = x, !.confidence = "working"]
    BY <2>1, <2>x, <2>u, Zenon DEF Unattributed
  <2>3. u.confidence = "unattributed" /\ [u EXCEPT !.event = x, !.confidence = "working"].confidence = "working"
    BY <2>u
  <2>4. b.confidence \in {"working", "unattributed"}
    BY <2>2, <2>3, Zenon
  <2> QED
    BY <1>3, <2>4
<1> QED
  BY <1>2, <1>3

\* Both readings of an event's patch agree: the first change of the path that
\* has one, and any change of it.
LEMMA PatchesAgree ==
    ASSUME RowsInv, NEW e \in rows, NEW patch, patch # None
    PROVE  FirstPatch(e, File) = patch <=> e \in WithPatch(rows, File, patch)
<1> DEFINE I == {i \in 1 .. Len(e.files) : e.files[i].path = File /\ e.files[i].patch # None}
<1>1. FirstPatch(e, File) = IF (IF I # {} THEN Min(I) ELSE 0) = 0 THEN None
                            ELSE e.files[IF I # {} THEN Min(I) ELSE 0].patch
  BY Zenon DEF FirstPatch, SelectInSeq
<1>2. CASE e \in Pool
  <2>1. DOMAIN e.files = 1 .. Len(e.files) /\ I = {}
    BY <1>2, ProvenanceAssumption
  <2>2. FirstPatch(e, File) = None
    BY <1>1, <2>1
  <2>3. e \notin WithPatch(rows, File, patch)
    BY <1>2, ProvenanceAssumption DEF WithPatch
  <2> QED
    BY <2>2, <2>3
<1>3. CASE IsCapture(e)
  <2>1. DOMAIN e.files = {1} /\ Len(e.files) = 1 /\ e.files[1].path = File
    BY <1>3 DEF IsCapture
  <2>2. I = IF e.files[1].patch # None THEN {1} ELSE {}
    BY <2>1
  <2> HIDE DEF I
  <2>3. Min({1}) = 1
    BY LeastPlace
  <2>4. FirstPatch(e, File) = e.files[1].patch
    <3>1. CASE e.files[1].patch # None
      BY <1>1, <2>2, <2>3, <3>1
    <3>2. CASE e.files[1].patch = None
      BY <1>1, <2>2, <3>2
    <3> QED
      BY <3>1, <3>2
  <2>5. e \in WithPatch(rows, File, patch) <=> e.files[1].patch = patch
    BY <2>1 DEF WithPatch
  <2> QED
    BY <2>4, <2>5
<1> QED
  BY <1>2, <1>3 DEF RowsInv

LEMMA HistoryOfCommit ==
    ASSUME RowsInv, NEW c, commits[c] # None, NEW a, a = AttributionOf(Events, File, commits[c]), a # None
    PROVE  LineRangeHistory(Events, File, <<c>>)[1].event = a.id
<1>a. PICK d : d = CollectDiffEvents(Events, File)
  OBVIOUS
<1>b. PICK W : W = WithPatch(rows, File, commits[c])
  OBVIOUS
<1>c. PICK J : J = {i \in 1 .. Len(d) : \E j \in DOMAIN d[i].files :
                      d[i].files[j].path = File /\ d[i].files[j].patch = commits[c]}
  OBVIOUS
<1>1. \A i \in 1 .. Len(d) : d[i] \in rows
  <2> DEFINE D == DiffsOf(rows, File)
  <2>1. D \in SUBSET rows /\ d = InTime(rows, D) /\ IsLedger(rows)
    BY <1>a, DiffsCollected DEF RowsInv, Events
  <2> HIDE DEF D
  <2>2. \A i \in 1 .. Len(InTime(rows, D)) : InTime(rows, D)[i] \in D
    BY <2>1, LastMatch
  <2> QED
    BY <2>1, <2>2
<1>2. J = {i \in 1 .. Len(d) : FirstPatch(d[i], File) = commits[c]}
  <2>1. ASSUME NEW i \in 1 .. Len(d)
        PROVE  (\E j \in DOMAIN d[i].files : d[i].files[j].path = File /\ d[i].files[j].patch = commits[c])
                 <=> FirstPatch(d[i], File) = commits[c]
    <3>1. FirstPatch(d[i], File) = commits[c] <=> d[i] \in WithPatch(rows, File, commits[c])
      BY <1>1, PatchesAgree
    <3> QED
      BY <1>1, <3>1, Zenon DEF WithPatch
  <2> QED
    BY <1>c, <2>1
<1>3. a = IF (IF J # {} THEN Max(J) ELSE 0) = 0 THEN None ELSE d[IF J # {} THEN Max(J) ELSE 0]
  BY <1>a, <1>c, Zenon DEF AttributionOf, SelectLastInSeq
<1>4. PICK m : m = IF J # {} THEN Max(J) ELSE 0
  OBVIOUS
<1>5. m # 0 /\ a = d[m]
  BY <1>3, <1>4
<1> DEFINE By(x) == SelectLastInSeq(d, LAMBDA e : FirstPatch(e, File) = commits[x])
           G(x) == IF By(x) = 0 THEN None ELSE d[By(x)].id
<1>6. LineRangeHistory(Events, File, <<c>>)
        = [k \in DOMAIN <<c>> |-> [commit |-> <<c>>[k], event |-> G(<<c>>[k])]]
  BY <1>a, Zenon DEF LineRangeHistory
<1>7. By(c) = m
  BY <1>2, <1>4, Zenon DEF SelectLastInSeq
<1>8. G(c) = a.id
  BY <1>5, <1>7
<1> HIDE DEF G
<1>9. 1 \in DOMAIN <<c>> /\ <<c>>[1] = c
  OBVIOUS
<1>10. LineRangeHistory(Events, File, <<c>>)[1] = [commit |-> <<c>>[1], event |-> G(<<c>>[1])]
  BY <1>6, <1>9, Zenon
<1> QED
  BY <1>8, <1>9, <1>10

LEMMA SawLine == HistoryInv => CommitBlameSawLine
<1> SUFFICES ASSUME HistoryInv, NEW n \in DOMAIN work, BlameFile(Events, File)[n].confidence = "commit"
             PROVE  LET b == BlameFile(Events, File)[n] IN
                    /\ \E e \in rows :
                          /\ e.id = b.event
                          /\ \E i \in DOMAIN e.files : LET v == e.files[i].patch IN
                                v # None /\ work[n] \in ToSet(v[2]) \ ToSet(v[1])
                    /\ LineRangeHistory(Events, File, <<b.commit>>)[1].event = b.event
  BY DEF CommitBlameSawLine
<1>0. RowsInv /\ TreeInv /\ IsLedger(rows)
  BY DEF HistoryInv, RowsInv
<1>a. PICK b : b = BlameFile(Events, File)[n]
  OBVIOUS
<1>b. PICK c : c = BlameCommit(work[n])
  OBVIOUS
<1>c. PICK a : a = AttributionOf(Events, File, commits[c])
  OBVIOUS
<1>1. c # 0 /\ a # None /\ b = [commit |-> c, event |-> a.id, confidence |-> "commit"]
  BY <1>0, <1>a, <1>b, <1>c, LineBlamed
<1>2. commits[c] # None /\ IsLatest(a, DiffsOf(rows, File) \cap WithPatch(rows, File, commits[c]), rows)
  <2>1. IF commits[c] = None \/ DiffsOf(rows, File) \cap WithPatch(rows, File, commits[c]) = {}
        THEN a = None
        ELSE IsLatest(a, DiffsOf(rows, File) \cap WithPatch(rows, File, commits[c]), rows)
    BY <1>0, <1>c, Attributed DEF Events
  <2> QED
    BY <1>1, <2>1
<1>3. a \in rows /\ \E i \in DOMAIN a.files : a.files[i].patch = commits[c]
  BY <1>2 DEF IsLatest, WithPatch
<1>4. work[n] \in ToSet(commits[c][2]) \ ToSet(commits[c][1])
  <2>1. work[n] \in Added(c)
    BY <1>0, <1>b, <1>1, CommitOfLine
  <2> QED
    BY <2>1, Zenon DEF Added
<1>5. LineRangeHistory(Events, File, <<b.commit>>)[1].event = b.event
  <2>1. LineRangeHistory(Events, File, <<c>>)[1].event = a.id
    BY <1>0, <1>c, <1>1, <1>2, HistoryOfCommit
  <2>2. b.commit = c /\ b.event = a.id
    BY <1>1
  <2> QED
    BY <2>1, <2>2
<1>6. \E e \in rows : /\ e.id = b.event
                      /\ \E i \in DOMAIN e.files : LET v == e.files[i].patch IN
                            v # None /\ work[n] \in ToSet(v[2]) \ ToSet(v[1])
  <2>1. a.id = b.event
    BY <1>1
  <2> QED
    BY <1>2, <1>3, <1>4, <2>1, Zenon
<1> QED
  BY <1>a, <1>5, <1>6, Zenon

LEMMA AnchorIsUnion == HistoryInv => RangeAnchorIsUnion
<1> SUFFICES ASSUME HistoryInv, NEW a \in DOMAIN work, NEW b \in DOMAIN work
             PROVE  LET r == ResolveFileRangeAnchor(Events, File, a, b)
                        one == {ResolveFileRangeAnchor(Events, File, n, n) :
                                  n \in {n \in DOMAIN work : (a <= n /\ n <= b) \/ (b <= n /\ n <= a)}}
                    IN /\ r.events = UNION {o.events : o \in one}
                       /\ r.confidence \in {o.confidence : o \in one}
  BY DEF RangeAnchorIsUnion
<1>a. PICK B : B = BlameFile(Events, File)
  OBVIOUS
<1>b. PICK M : M = {n \in DOMAIN work : (a <= n /\ n <= b) \/ (b <= n /\ n <= a)}
  OBVIOUS
<1> DEFINE Conf(S) == IF "commit" \in S THEN "commit"
                      ELSE IF "working" \in S THEN "working" ELSE "unattributed"
           One(n) == ResolveFileRangeAnchor(Events, File, n, n)
<1>1. TreeInv /\ DOMAIN work \subseteq Nat
  <2>1. TreeInv
    BY DEF HistoryInv
  <2>2. work \in Seq(Nat)
    BY <2>1 DEF TreeInv
  <2> QED
    BY <2>1, <2>2
<1>2. \A n \in DOMAIN work : B[n].confidence \in {"commit", "working", "unattributed"}
  BY <1>a, <1>1, LineBlamed, Zenon
<1>3. a \in M /\ M \subseteq DOMAIN work
  BY <1>b, <1>1
<1>4. ResolveFileRangeAnchor(Events, File, a, b)
        = [events |-> {B[n].event : n \in M} \ {None},
           confidence |-> IF "commit" \in {B[n].confidence : n \in M} THEN "commit"
                          ELSE IF "working" \in {B[n].confidence : n \in M} THEN "working"
                          ELSE IF M = {} THEN None ELSE "unattributed"]
  BY <1>a, <1>b, Zenon DEF ResolveFileRangeAnchor
<1>5. /\ ResolveFileRangeAnchor(Events, File, a, b).events = {B[n].event : n \in M} \ {None}
      /\ ResolveFileRangeAnchor(Events, File, a, b).confidence = Conf({B[n].confidence : n \in M})
  BY <1>3, <1>4
<1>6. ASSUME NEW n \in DOMAIN work
      PROVE  One(n).events = {B[n].event} \ {None} /\ One(n).confidence = B[n].confidence
  <2>a. PICK N : N = {m \in DOMAIN work : (n <= m /\ m <= n) \/ (n <= m /\ m <= n)}
    OBVIOUS
  <2>1. N = {n}
    BY <1>1, <2>a
  <2>2. One(n) = [events |-> {B[m].event : m \in N} \ {None},
                  confidence |-> IF "commit" \in {B[m].confidence : m \in N} THEN "commit"
                                 ELSE IF "working" \in {B[m].confidence : m \in N} THEN "working"
                                 ELSE IF N = {} THEN None ELSE "unattributed"]
    BY <1>a, <2>a, Zenon DEF ResolveFileRangeAnchor
  <2>3. {B[m].event : m \in N} = {B[n].event} /\ {B[m].confidence : m \in N} = {B[n].confidence}
    BY <2>1
  <2>4. One(n) = [events |-> {B[n].event} \ {None},
                  confidence |-> IF "commit" \in {B[n].confidence} THEN "commit"
                                 ELSE IF "working" \in {B[n].confidence} THEN "working"
                                 ELSE IF N = {} THEN None ELSE "unattributed"]
    BY <2>2, <2>3
  <2> HIDE DEF One
  <2> QED
    BY <1>2, <2>1, <2>4
<1> HIDE DEF One
<1>7. UNION {o.events : o \in {One(n) : n \in M}} = {B[n].event : n \in M} \ {None}
  <2>1. \A x : x \in UNION {o.events : o \in {One(n) : n \in M}} <=> \E n \in M : x \in One(n).events
    BY Zenon
  <2>2. \A n \in M : One(n).events = {B[n].event} \ {None}
    BY <1>3, <1>6
  <2>3. \A x : x \in {B[n].event : n \in M} \ {None} <=> \E n \in M : x \in {B[n].event} \ {None}
    BY Zenon
  <2>4. \A x : (\E n \in M : x \in One(n).events) <=> (\E n \in M : x \in {B[n].event} \ {None})
    BY <2>2, Zenon
  <2>p. PICK P : P = UNION {o.events : o \in {One(n) : n \in M}}
    OBVIOUS
  <2>q. PICK Q : Q = {B[n].event : n \in M} \ {None}
    OBVIOUS
  <2>5. \A x : x \in P <=> x \in Q
    BY <2>1, <2>3, <2>4, <2>p, <2>q, Zenon
  <2>6. P = Q
    BY <2>5
  <2> QED
    BY <2>6, <2>p, <2>q, Zenon
<1>8. Conf({B[n].confidence : n \in M}) \in {o.confidence : o \in {One(n) : n \in M}}
  <2>1. \E n \in M : Conf({B[m].confidence : m \in M}) = B[n].confidence
    BY <1>2, <1>3
  <2>2. PICK n \in M : Conf({B[m].confidence : m \in M}) = One(n).confidence
    BY <1>3, <1>6, <2>1
  <2> QED
    BY <2>2, Zenon
<1> QED
  BY <1>b, <1>5, <1>7, <1>8, Zenon DEF One

\* What blame and a range anchor say of lines is sound in every reachable state.
THEOREM BlameIsSound == Spec => []BlameSound
<1>1. HistoryInv => BlameSound
  BY SawLine, AnchorIsUnion DEF BlameSound
<1> QED
  BY <1>1, History, PTL

-----------------------------------------------------------------------------
(* Blame and drift. *)

\* What CommitOfLine and LineBlamed say, as predicates of a state.
CommitsFound ==
    \A l : l \in ToSet(head) =>
             /\ BlameCommit(l) # 0 /\ BlameCommit(l) \in 1 .. Len(commits)
             /\ \A c \in 1 .. Len(commits) : l \in Added(c) => c = BlameCommit(l)
             /\ l \in Added(BlameCommit(l))
Credit(c) ==
    LET a == AttributionOf(ReadEvents(rows), File, commits[c])
    IN IF a = None THEN Unattributed(c)
       ELSE [commit |-> c, event |-> a.id, confidence |-> "commit"]
CreditsGiven ==
    \A n \in DOMAIN work : work[n] \in ToSet(head) =>
        BlameFile(Events, File)[n] = Credit(BlameCommit(work[n]))

PatchesCaptured ==
    \A patch : patch # None =>
        DiffsOf(rows, File) \cap WithPatch(rows, File, patch)
          = DiffsOf(Captured, File) \cap WithPatch(Captured, File, patch)

LEMMA Credited == TreeInv => CommitsFound /\ CreditsGiven
<1> SUFFICES ASSUME TreeInv PROVE CommitsFound /\ CreditsGiven
  OBVIOUS
<1>1. CommitsFound
  BY CommitOfLine, Zenon DEF CommitsFound
<1>2. ASSUME NEW n \in DOMAIN work, work[n] \in ToSet(head)
      PROVE  BlameFile(Events, File)[n] = Credit(BlameCommit(work[n]))
  <2>a. PICK c : c = BlameCommit(work[n])
    OBVIOUS
  <2>b. PICK a : a = AttributionOf(Events, File, commits[c])
    OBVIOUS
  <2>1. c # 0
    BY <1>2, <2>a, CommitOfLine
  <2>c. PICK b : b = BlameFile(Events, File)[n]
    OBVIOUS
  <2>2. b = IF a = None THEN Unattributed(c)
            ELSE [commit |-> c, event |-> a.id, confidence |-> "commit"]
    BY <2>a, <2>b, <2>c, <2>1, LineBlamed
  <2> QED
    BY <2>a, <2>b, <2>c, <2>2, Zenon DEF Credit, Events
<1> QED
  BY <1>1, <1>2 DEF CreditsGiven

\* Only a captured diff has a patch of the file.
LEMMA PatchIsCaptured == RowsInv => PatchesCaptured
<1> SUFFICES ASSUME RowsInv, NEW patch, patch # None
             PROVE  DiffsOf(rows, File) \cap WithPatch(rows, File, patch)
                      = DiffsOf(Captured, File) \cap WithPatch(Captured, File, patch)
  BY DEF PatchesCaptured
<1>1. ASSUME NEW e \in rows, e \in WithPatch(rows, File, patch) PROVE e \in Captured
  <2>1. PICK i \in DOMAIN e.files : e.files[i].path = File /\ e.files[i].patch = patch
    BY <1>1 DEF WithPatch
  <2>2. e \notin Pool
    BY <2>1, ProvenanceAssumption
  <2> QED
    BY <2>2 DEF RowsInv, IsCapture, Captured
<1>2. Captured \subseteq rows
  BY DEF Captured
<1> QED
  BY <1>1, <1>2, Zenon DEF DiffsOf, WithPatch

\* Who is credited with a patch depends on the captured diffs alone.
LEMMA SameCredit ==
    ASSUME NEW S, NEW U, IsLedger(S), IsLedger(U), NEW patch,
           DiffsOf(S, File) \cap WithPatch(S, File, patch)
             = DiffsOf(U, File) \cap WithPatch(U, File, patch)
    PROVE  AttributionOf(ReadEvents(S), File, patch) = AttributionOf(ReadEvents(U), File, patch)
<1>a. PICK a : a = AttributionOf(ReadEvents(S), File, patch)
  OBVIOUS
<1>b. PICK b : b = AttributionOf(ReadEvents(U), File, patch)
  OBVIOUS
<1>c. PICK T : T = DiffsOf(S, File) \cap WithPatch(S, File, patch)
  OBVIOUS
<1>1. IF patch = None \/ T = {} THEN a = None ELSE IsLatest(a, T, S)
  BY <1>a, <1>c, Attributed
<1>2. IF patch = None \/ T = {} THEN b = None ELSE IsLatest(b, T, U)
  BY <1>b, <1>c, Attributed
<1>3. ASSUME IsLatest(a, T, S), IsLatest(b, T, U) PROVE a = b
  <2>1. a \in S /\ b \in S
    BY <1>3, <1>c DEF IsLatest, DiffsOf
  <2>2. (a = b \/ <<b, a>> \in Earlier(S)) /\ (b = a \/ <<a, b>> \in Earlier(U))
    BY <1>3 DEF IsLatest
  <2>3. a.id \in Int /\ b.id \in Int /\ a.occurred \in Int /\ b.occurred \in Int
    BY <2>1 DEF IsLedger
  <2> QED
    BY <2>2, <2>3 DEF Earlier
<1> QED
  BY <1>a, <1>b, <1>1, <1>2, <1>3

LEMMA CommitsGrow ==
    ASSUME HistoryInv, [Next]_vars
    PROVE  /\ Len(commits) \in Nat /\ Len(commits') \in Nat /\ Len(commits) <= Len(commits')
           /\ \A c \in 1 .. Len(commits) : commits'[c] = commits[c] /\ Added(c)' = Added(c)
<1>1. commits' = commits \/ commits' = Append(commits, <<head, index>>)
  BY DEF Next, Edit, DeleteLine, Stage, Commit, CaptureBegin, CaptureEnd, Record, treeVars, vars
<1>2. commits \in Seq(Seq(Nat) \X Seq(Nat))
  BY DEF HistoryInv, TreeInv
<1>3. /\ Len(commits) \in Nat /\ Len(commits') \in Nat /\ Len(commits) <= Len(commits')
      /\ \A c \in 1 .. Len(commits) : commits'[c] = commits[c]
  <2>1. Len(commits) \in Nat
    BY <1>2
  <2>a. PICK v : v = <<head, index>>
    OBVIOUS
  <2>2. CASE commits' = Append(commits, v)
    <3>1. /\ Len(commits') = Len(commits) + 1
          /\ \A c \in 1 .. Len(commits) : commits'[c] = commits[c]
      BY <1>2, <2>2
    <3> QED
      BY <2>1, <3>1
  <2>3. CASE commits' = commits
    BY <2>1, <2>3
  <2> QED
    BY <1>1, <2>a, <2>2, <2>3
<1>4. ASSUME NEW c \in 1 .. Len(commits) PROVE Added(c)' = Added(c)
  BY <1>3 DEF Added
<1> QED
  BY <1>3, <1>4

LEMMA DriftStep ==
    ASSUME HistoryInv, HistoryInv', [Next]_vars, CommitsFound, CommitsFound', CreditsGiven, CreditsGiven',
           PatchesCaptured, PatchesCaptured',
           NEW n \in DOMAIN work, NEW m \in DOMAIN work', work[n] = work'[m],
           work[n] \in ToSet(head), work[n] \in ToSet(head'), Captured' = Captured
    PROVE  BlameFile(Events, File)'[m] = BlameFile(Events, File)[n]
<1>a. PICK l : l = work[n]
  OBVIOUS
<1>b. PICK c : c = BlameCommit(l)
  OBVIOUS
<1>1. /\ c \in 1 .. Len(commits) /\ l \in Added(c)
  BY <1>a, <1>b DEF CommitsFound
<1>2. /\ c \in 1 .. Len(commits') /\ l \in Added(c)' /\ commits'[c] = commits[c]
  BY <1>1, CommitsGrow
<1>3. \A d \in 1 .. Len(commits') : l \in Added(d)' => d = BlameCommit(l)'
  BY <1>a DEF CommitsFound
<1>4. BlameCommit(l)' = c
  BY <1>2, <1>3
<1>5. BlameFile(Events, File)[n] = Credit(c)
  BY <1>a, <1>b DEF CreditsGiven
<1>6. BlameFile(Events, File)'[m] = Credit(c)'
  <2>1. BlameCommit(work[m])' = BlameCommit(l)'
    BY <1>a DEF BlameCommit
  <2>2. BlameFile(Events, File)'[m] = Credit(BlameCommit(work[m]))'
    BY DEF CreditsGiven
  <2> QED
    BY <1>4, <2>1, <2>2 DEF Credit
<1>7. Credit(c)' = Credit(c)
  <2>a. PICK patch : patch = commits[c]
    OBVIOUS
  <2>1. AttributionOf(ReadEvents(rows'), File, patch) = AttributionOf(ReadEvents(rows), File, patch)
    <3>1. IsLedger(rows) /\ IsLedger(rows') /\ RowsInv /\ RowsInv'
      BY DEF HistoryInv, RowsInv
    <3>2. CASE patch = None
      BY <3>2, Zenon DEF AttributionOf
    <3>3. CASE patch # None
      <4>1. DiffsOf(rows, File) \cap WithPatch(rows, File, patch)
              = DiffsOf(Captured, File) \cap WithPatch(Captured, File, patch)
        BY <3>3 DEF PatchesCaptured
      <4>2. (DiffsOf(rows, File) \cap WithPatch(rows, File, patch)
              = DiffsOf(Captured, File) \cap WithPatch(Captured, File, patch))'
        BY <3>3 DEF PatchesCaptured
      <4> QED
        BY <3>1, <4>1, <4>2, SameCredit
    <3> QED
      BY <3>2, <3>3
  <2> QED
    BY <1>2, <2>a, <2>1 DEF Credit
<1> QED
  BY <1>5, <1>6, <1>7

\* A committed line keeps its credit whatever is edited, staged, committed or
\* recorded, as long as no diff is captured.
THEOREM BlameSurvivesDrift == Spec => CommitBlameSurvivesDrift
<1>1. HistoryInv => CommitsFound /\ CreditsGiven /\ PatchesCaptured
  BY Credited, PatchIsCaptured DEF HistoryInv
<1>2. HistoryInv /\ CommitsFound /\ CreditsGiven /\ PatchesCaptured
      /\ (HistoryInv /\ CommitsFound /\ CreditsGiven /\ PatchesCaptured)' /\ [Next]_vars
      => [\A n \in DOMAIN work, m \in DOMAIN work' :
            LET b == BlameFile(Events, File)[n]
                c == BlameFile(Events, File)'[m]
            IN (/\ work[n] = work'[m] /\ work[n] \in ToSet(head) /\ work[n] \in ToSet(head')
                /\ Captured' = Captured)
               => c = b]_vars
  BY DriftStep
<1> QED
  BY <1>1, <1>2, History, PTL DEF Spec, CommitBlameSurvivesDrift

-----------------------------------------------------------------------------
(* Folding a log into a graph, one event after the other. *)

\* g folds the events of every set of places of D, the last place last.
FoldsOn(g, log, D) ==
    g = [s \in D |-> IF s = {} THEN EmptyIndex ELSE ApplyEvent(g[s \ {Max(s)}], log[Max(s)])]

LEMMA LastPlace ==
    ASSUME NEW k \in Nat
    PROVE  /\ \A s \in SUBSET (1 .. (k + 1)) : s # {} => s \ {Max(s)} \in SUBSET (1 .. k)
           /\ Max(1 .. (k + 1)) = k + 1 /\ (1 .. (k + 1)) \ {k + 1} = 1 .. k
<1>1. ASSUME NEW s \in SUBSET (1 .. (k + 1)), s # {} PROVE s \ {Max(s)} \in SUBSET (1 .. k)
  <2>a. PICK m : m = Max(s)
    OBVIOUS
  <2>1. k + 1 \in Nat
    OBVIOUS
  <2>2. m \in s /\ \A y \in s : y <= m
    BY <1>1, <2>a, <2>1, GreatestPlace
  <2>3. \A y \in s : y \in 1 .. (k + 1)
    OBVIOUS
  <2>4. \A y \in s : y # m => y \in 1 .. k
    BY <2>2, <2>3
  <2> QED
    BY <2>a, <2>4
<1>2. Max(1 .. (k + 1)) = k + 1
  <2>a. PICK s : s = 1 .. (k + 1)
    OBVIOUS
  <2>b. PICK m : m = Max(s)
    OBVIOUS
  <2>1. k + 1 \in Nat /\ s \in SUBSET (1 .. (k + 1)) /\ k + 1 \in s /\ s # {}
    BY <2>a
  <2>2. m \in s /\ \A y \in s : y <= m
    BY <2>b, <2>1, GreatestPlace
  <2>3. m = k + 1
    BY <2>a, <2>1, <2>2
  <2> QED
    BY <2>a, <2>b, <2>3
<1>3. (1 .. (k + 1)) \ {k + 1} = 1 .. k
  OBVIOUS
<1> QED
  BY <1>1, <1>2, <1>3

LEMMA FoldGrows ==
    ASSUME NEW log, NEW k \in Nat, NEW g, FoldsOn(g, log, SUBSET (1 .. k))
    PROVE  \E h : FoldsOn(h, log, SUBSET (1 .. (k + 1)))
<1>a. PICK h : h = [s \in SUBSET (1 .. (k + 1)) |->
                      IF s = {} THEN EmptyIndex ELSE ApplyEvent(g[s \ {Max(s)}], log[Max(s)])]
  OBVIOUS
<1>1. ASSUME NEW t \in SUBSET (1 .. k) PROVE h[t] = g[t]
  <2>1. t \in SUBSET (1 .. (k + 1))
    OBVIOUS
  <2>2. g[t] = IF t = {} THEN EmptyIndex ELSE ApplyEvent(g[t \ {Max(t)}], log[Max(t)])
    BY Zenon DEF FoldsOn
  <2> QED
    BY <1>a, <2>1, <2>2, Zenon
<1>2. ASSUME NEW s \in SUBSET (1 .. (k + 1)), s # {} PROVE h[s \ {Max(s)}] = g[s \ {Max(s)}]
  BY <1>1, <1>2, LastPlace
<1>3. h = [s \in SUBSET (1 .. (k + 1)) |->
             IF s = {} THEN EmptyIndex ELSE ApplyEvent(h[s \ {Max(s)}], log[Max(s)])]
  <2>1. \A s \in SUBSET (1 .. (k + 1)) :
           (IF s = {} THEN EmptyIndex ELSE ApplyEvent(g[s \ {Max(s)}], log[Max(s)]))
             = (IF s = {} THEN EmptyIndex ELSE ApplyEvent(h[s \ {Max(s)}], log[Max(s)]))
    BY <1>2, Zenon
  <2> QED
    BY <1>a, <2>1, Zenon
<1> QED
  BY <1>3, Zenon DEF FoldsOn

LEMMA FoldExists ==
    ASSUME NEW log, NEW n \in Nat
    PROVE  \E g : FoldsOn(g, log, SUBSET (1 .. n))
<1> DEFINE Bad == {k \in Nat : ~\E g : FoldsOn(g, log, SUBSET (1 .. k))}
<1>1. 0 \notin Bad
  <2>1. PICK g : g = [s \in SUBSET (1 .. 0) |-> EmptyIndex]
    OBVIOUS
  <2>2. \A s \in SUBSET (1 .. 0) : s = {}
    OBVIOUS
  <2>3. \A s \in SUBSET (1 .. 0) :
           EmptyIndex = IF s = {} THEN EmptyIndex ELSE ApplyEvent(g[s \ {Max(s)}], log[Max(s)])
    BY <2>2, Zenon
  <2>4. FoldsOn(g, log, SUBSET (1 .. 0))
    BY <2>1, <2>3, Zenon DEF FoldsOn
  <2> QED
    BY <2>4
<1>2. ASSUME Bad # {} PROVE FALSE
  <2>1. PICK k \in Bad : \A j \in Bad : k <= j
    BY <1>2, LeastElement
  <2>2. k \in Nat /\ k # 0
    BY <1>1
  <2>3. k - 1 \in Nat /\ k - 1 \notin Bad
    <3> HIDE DEF Bad
    <3>1. k - 1 \in Nat /\ ~(k <= k - 1)
      BY <2>2
    <3> QED
      BY <2>1, <3>1
  <2>4. PICK g : FoldsOn(g, log, SUBSET (1 .. (k - 1)))
    BY <2>3
  <2>5. \E h : FoldsOn(h, log, SUBSET (1 .. ((k - 1) + 1)))
    BY <2>3, <2>4, FoldGrows
  <2>6. (k - 1) + 1 = k
    BY <2>2
  <2> QED
    BY <2>1, <2>5, <2>6
<1> QED
  BY <1>2

\* st is the graph after each of the first events of log.
Steps(st, log) ==
    /\ st[0] = EmptyIndex
    /\ \A k \in 1 .. Len(log) : st[k] = ApplyEvent(st[k - 1], log[k])

LEMMA Folded ==
    ASSUME NEW log, IsSeq(log)
    PROVE  \E st : Steps(st, log) /\ RebuildServerIndex(log) = st[Len(log)]
<1>a. PICK n : n = Len(log)
  OBVIOUS
<1>0. n \in Nat /\ DOMAIN log = 1 .. n
  BY <1>a DEF IsSeq
<1>b. PICK g : g = CHOOSE h : FoldsOn(h, log, SUBSET (1 .. n))
  OBVIOUS
<1>1. FoldsOn(g, log, SUBSET (1 .. n))
  BY <1>0, <1>b, FoldExists, Zenon
<1>2. RebuildServerIndex(log) = g[1 .. n]
  <2>1. RebuildServerIndex(log)
          = (CHOOSE h : h = [s \in SUBSET (DOMAIN log) |->
                               IF s = {} THEN EmptyIndex
                               ELSE ApplyEvent(h[s \ {Max(s)}], log[Max(s)])])[DOMAIN log]
    BY Zenon DEF RebuildServerIndex, FoldLeft, MapThenFoldSet
  <2> QED
    BY <1>0, <1>b, <2>1, Zenon DEF FoldsOn
<1>c. PICK st : st = [k \in 0 .. n |-> g[1 .. k]]
  OBVIOUS
<1>3. st[0] = EmptyIndex
  <2>1. 1 .. 0 = {} /\ {} \in SUBSET (1 .. n) /\ 0 \in 0 .. n
    BY <1>0
  <2>2. g[{}] = EmptyIndex
    BY <1>1, <2>1, Zenon DEF FoldsOn
  <2> QED
    BY <1>c, <2>1, <2>2
<1>4. ASSUME NEW k \in 1 .. n PROVE st[k] = ApplyEvent(st[k - 1], log[k])
  <2>1. k - 1 \in Nat /\ (k - 1) + 1 = k /\ k - 1 \in 0 .. n /\ k \in 0 .. n
    BY <1>0
  <2>2. Max(1 .. k) = k /\ (1 .. k) \ {k} = 1 .. (k - 1)
    BY <2>1, LastPlace
  <2>3. (1 .. k) \in SUBSET (1 .. n) /\ (1 .. k) # {}
    BY <1>0
  <2>4. g[1 .. k] = ApplyEvent(g[(1 .. k) \ {Max(1 .. k)}], log[Max(1 .. k)])
    BY <1>1, <2>3, Zenon DEF FoldsOn
  <2> QED
    BY <1>c, <2>1, <2>2, <2>4
<1>5. st[n] = RebuildServerIndex(log)
  BY <1>0, <1>2, <1>c
<1> QED
  BY <1>a, <1>3, <1>4, <1>5, Zenon DEF Steps

-----------------------------------------------------------------------------
(* What an event adds to the graph. *)

\* y has the nodes N and the links L more than x, and x's tables; a parent
\* that is new in y is one of N, and lists its child in L.
NewParents(x, y, N, L) ==
    \A n \in DOMAIN y.up :
        \/ n \in DOMAIN x.up /\ y.up[n] = x.up[n]
        \/ y.up[n] \in N /\ <<y.up[n], n>> \in L
Joins(x, y, N, L) ==
    /\ DOMAIN y = DOMAIN EmptyIndex
    /\ y.nodes = x.nodes \cup N /\ y.links = x.links \cup L
    /\ y.paths = x.paths /\ y.refs = x.refs /\ y.items = x.items /\ y.diffs = x.diffs
    /\ NewParents(x, y, N, L)

LEMMA JoinsAgain ==
    ASSUME NEW x, NEW y, NEW z, NEW N, NEW L, NEW M, NEW K, Joins(x, y, N, L), Joins(y, z, M, K)
    PROVE  Joins(x, z, N \cup M, L \cup K)
<1>1. z.nodes = x.nodes \cup (N \cup M) /\ z.links = x.links \cup (L \cup K)
  BY DEF Joins
<1>2. NewParents(x, z, N \cup M, L \cup K)
  BY DEF Joins, NewParents
<1> QED
  BY <1>1, <1>2 DEF Joins

Both(a, b) == {<<a, b>>, <<b, a>>}

LEMMA JoiningSteps ==
    ASSUME NEW x, DOMAIN x = DOMAIN EmptyIndex, NEW n, NEW m, NEW e
    PROVE  /\ Joins(x, Touch(x, n, e), {n}, {})
           /\ Joins(x, InsertOptional(x, n, e), {}, {})
           /\ Joins(x, Create(x, n, e), {n}, {})
           /\ Joins(x, Update(x, n, e), {n}, {})
           /\ Joins(x, Link(x, n, m, e), {n, m}, Both(n, m))
           /\ Joins(x, LinkUp(x, n, m, e), {n, m}, {<<m, n>>})
<1>1. ASSUME NEW y, DOMAIN y = DOMAIN EmptyIndex, NEW k PROVE Joins(y, Touch(y, k, e), {k}, {})
  <2>a. PICK s : s = Put(y.seen, k, e.recorded)
    OBVIOUS
  <2>1. Touch(y, k, e) = [y EXCEPT !.nodes = @ \cup {k}, !.seen = s]
    BY <2>a DEF Touch
  <2> QED
    BY <1>1, <2>1 DEF Joins, NewParents, EmptyIndex
<1>2. ASSUME NEW y, DOMAIN y = DOMAIN EmptyIndex PROVE Joins(y, InsertOptional(y, n, e), {}, {})
  BY <1>2 DEF InsertOptional, Joins, NewParents, EmptyIndex
<1>a. PICK y : y = InsertOptional(Touch(x, n, e), n, e)
  OBVIOUS
<1>3. Joins(x, y, {n}, {}) /\ DOMAIN y = DOMAIN EmptyIndex
  <2>a. PICK t : t = Touch(x, n, e)
    OBVIOUS
  <2>1. Joins(x, t, {n}, {}) /\ DOMAIN t = DOMAIN EmptyIndex
    <3>1. Joins(x, t, {n}, {})
      BY <1>1, <2>a
    <3> QED
      BY <3>1 DEF Joins
  <2>2. Joins(t, y, {}, {})
    BY <1>a, <1>2, <2>a, <2>1
  <2>3. Joins(x, y, {n} \cup {}, {} \cup {})
    BY <2>1, <2>2, JoinsAgain
  <2>4. {n} \cup {} = {n} /\ {} \cup {} = {}
    OBVIOUS
  <2>5. Joins(x, y, {n}, {})
    BY <2>3, <2>4
  <2> QED
    BY <2>5 DEF Joins
<1>4. ASSUME NEW f, NEW g PROVE Joins(x, [y EXCEPT !.name = f, !.body = g], {n}, {})
  BY <1>3 DEF Joins, NewParents, EmptyIndex
<1>5. Joins(x, Create(x, n, e), {n}, {})
  <2>a. PICK f : f = Put(y.name, n, e.name)
    OBVIOUS
  <2>b. PICK g : g = Put(y.body, n, e.body)
    OBVIOUS
  <2>1. Create(x, n, e) = [y EXCEPT !.name = f, !.body = g]
    BY <1>a, <2>a, <2>b, Zenon DEF Create
  <2>2. Joins(x, [y EXCEPT !.name = f, !.body = g], {n}, {})
    BY <1>4, Zenon
  <2> QED
    BY <2>1, <2>2, Zenon
<1>6. Joins(x, Update(x, n, e), {n}, {})
  <2>a. PICK f : f = IF e.name = None THEN y.name ELSE Put(y.name, n, e.name)
    OBVIOUS
  <2>b. PICK g : g = IF e.body = None THEN y.body ELSE Put(y.body, n, e.body)
    OBVIOUS
  <2>1. Update(x, n, e) = [y EXCEPT !.name = f, !.body = g]
    BY <1>a, <2>a, <2>b, Zenon DEF Update
  <2>2. Joins(x, [y EXCEPT !.name = f, !.body = g], {n}, {})
    BY <1>4, Zenon
  <2> QED
    BY <2>1, <2>2, Zenon
<1>7. ASSUME NEW k, NEW l, NEW t, t = Touch(Touch(x, k, e), l, e)
      PROVE  Joins(x, t, {k, l}, {}) /\ DOMAIN t = DOMAIN EmptyIndex
  <2>a. PICK u : u = Touch(x, k, e)
    OBVIOUS
  <2>1. Joins(x, u, {k}, {})
    BY <1>1, <2>a
  <2>2. DOMAIN u = DOMAIN EmptyIndex
    BY <2>1 DEF Joins
  <2>3. Joins(u, t, {l}, {})
    BY <1>1, <1>7, <2>a, <2>2
  <2>4. Joins(x, t, {k} \cup {l}, {} \cup {})
    BY <2>1, <2>3, JoinsAgain
  <2>5. {k} \cup {l} = {k, l} /\ {} \cup {} = {}
    OBVIOUS
  <2>6. Joins(x, t, {k, l}, {})
    BY <2>4, <2>5
  <2> QED
    BY <2>6 DEF Joins
<1>8. Joins(x, Link(x, n, m, e), {n, m}, Both(n, m))
  <2>a. PICK t : t = Touch(Touch(x, n, e), m, e)
    OBVIOUS
  <2>1. Joins(x, t, {n, m}, {}) /\ DOMAIN t = DOMAIN EmptyIndex
    BY <1>7, <2>a
  <2>2. Link(x, n, m, e) = [t EXCEPT !.links = @ \cup Both(n, m)]
    BY <2>a, Zenon DEF Link, Both
  <2>b. PICK K : K = Both(n, m)
    OBVIOUS
  <2>3. Joins(x, [t EXCEPT !.links = @ \cup K], {n, m}, K)
    BY <2>1 DEF Joins, NewParents, EmptyIndex
  <2> QED
    BY <2>2, <2>b, <2>3
<1>9. Joins(x, LinkUp(x, n, m, e), {n, m}, {<<m, n>>})
  <2>a. PICK t : t = Touch(Touch(x, m, e), n, e)
    OBVIOUS
  <2>1. Joins(x, t, {m, n}, {}) /\ DOMAIN t = DOMAIN EmptyIndex
    BY <1>7, <2>a
  <2>2. LinkUp(x, n, m, e) = [t EXCEPT !.links = @ \cup {<<m, n>>}, !.up = Put(t.up, n, m)]
    BY <2>a, Zenon DEF LinkUp
  <2>b. PICK p : p = Put(t.up, n, m)
    OBVIOUS
  <2>3. /\ DOMAIN p = DOMAIN t.up \cup {n} /\ p[n] = m
        /\ \A k \in DOMAIN t.up : k # n => p[k] = t.up[k]
    BY <2>b DEF Put
  <2>c. PICK z : z = [t EXCEPT !.links = @ \cup {<<m, n>>}, !.up = p]
    OBVIOUS
  <2>4. /\ DOMAIN z = DOMAIN EmptyIndex /\ z.links = t.links \cup {<<m, n>>} /\ z.up = p
        /\ z.nodes = t.nodes /\ z.paths = t.paths /\ z.refs = t.refs /\ z.items = t.items
        /\ z.diffs = t.diffs
    BY <2>1, <2>c DEF EmptyIndex
  <2>5. NewParents(x, z, {n, m}, {<<m, n>>})
    BY <2>1, <2>3, <2>4 DEF Joins, NewParents
  <2>6. Joins(x, z, {n, m}, {<<m, n>>})
    BY <2>1, <2>4, <2>5 DEF Joins
  <2> QED
    BY <2>2, <2>b, <2>c, <2>6
<1> QED
  BY <1>1, <1>2, <1>5, <1>6, <1>8, <1>9

-----------------------------------------------------------------------------
(* Every kind of event. *)

Uploads == {"session.log_uploaded", "artifact.attachment_uploaded", "repo_context.captured"}

Opt(b, S) == IF b = None THEN {} ELSE S

\* The entries, links and rows of artifact_files and diffs an event stands for.
NodesOf(e) ==
    IF ~Applies(e) THEN {} ELSE
    CASE e.type \in {"org.created", "org.updated"} -> {e.org}
      [] e.type = "project.created" -> {e.project, e.parent}
      [] e.type = "project.updated" -> {e.project} \cup Opt(e.parent, {e.parent})
      [] e.type = "mission.created" -> {e.mission, e.parent}
      [] e.type = "mission.updated" -> {e.mission} \cup Opt(e.parent, {e.parent})
      [] e.type = "session.started" -> {e.session} \cup Opt(e.mission, {e.mission})
      [] e.type = "session.linked_to_mission" -> {e.session, e.mission}
      [] e.type = "session.log_uploaded" -> {e.session}
      [] e.type \in {"artifact.created", "diff.captured"} ->
            {e.artifact} \cup Opt(e.mission, {e.mission}) \cup Opt(e.session, {e.session})
      [] e.type \in {"artifact.updated", "artifact.attachment_uploaded"} ->
            {e.artifact} \cup Opt(e.session, {e.session})
      [] e.type = "artifact.linked_to_mission" -> {e.artifact, e.mission}
      [] e.type = "artifact.file_ref_recorded" -> Opt(e.session, {e.artifact, e.session})
      [] OTHER -> {}
LinksOf(e) ==
    IF ~Applies(e) THEN {} ELSE
    CASE e.type = "project.created" -> {<<e.parent, e.project>>}
      [] e.type = "project.updated" -> Opt(e.parent, {<<e.parent, e.project>>})
      [] e.type = "mission.created" -> {<<e.parent, e.mission>>}
      [] e.type = "mission.updated" -> Opt(e.parent, {<<e.parent, e.mission>>})
      [] e.type = "session.started" -> Opt(e.mission, Both(e.session, e.mission))
      [] e.type = "session.linked_to_mission" -> Both(e.session, e.mission)
      [] e.type = "session.log_uploaded" -> {<<e.session, e.item>>}
      [] e.type = "artifact.created" ->
            Opt(e.mission, Both(e.artifact, e.mission)) \cup Opt(e.session, Both(e.artifact, e.session))
      [] e.type \in {"artifact.updated", "artifact.file_ref_recorded"} ->
            Opt(e.session, Both(e.artifact, e.session))
      [] e.type = "artifact.attachment_uploaded" ->
            {<<e.artifact, e.item>>} \cup Opt(e.session, Both(e.artifact, e.session))
      [] e.type = "artifact.linked_to_mission" -> Both(e.artifact, e.mission)
      [] e.type = "diff.captured" ->
            {<<e.artifact, e.id>>} \cup Opt(e.session, Both(e.artifact, e.session))
                                   \cup Opt(e.mission, Both(e.artifact, e.mission))
      [] OTHER -> {}
RefsOf(e) ==
    IF ~Applies(e) THEN <<>> ELSE
    CASE e.type = "artifact.file_ref_recorded" -> <<FileRef(e, e.item, e.files[1].path)>>
      [] e.type = "diff.captured" -> [i \in DOMAIN e.files |-> FileRef(e, e.id, e.files[i].path)]
      [] OTHER -> <<>>
PathsOf(refs) == {<<refs[i].artifact, refs[i].path>> : i \in DOMAIN refs}
OwnerOf(e) ==
    CASE e.type = "session.log_uploaded" -> e.session
      [] e.type = "artifact.attachment_uploaded" -> e.artifact
      [] OTHER -> None
DiffOf(e) == [artifact |-> e.artifact, session |-> e.session, files |-> e.files, at |-> e.recorded]

\* The paths an artifact's entry takes from e when N are the entries there are.
StoredOf(N, e) ==
    IF Applies(e) /\ (\/ e.type = "diff.captured"
                      \/ e.type = "artifact.file_ref_recorded" /\ e.artifact \in N)
    THEN PathsOf(RefsOf(e)) ELSE {}

\* y is x and what e stands for.
Follows(x, y, e) ==
    /\ DOMAIN y = DOMAIN EmptyIndex
    /\ y.nodes = x.nodes \cup NodesOf(e) /\ y.links = x.links \cup LinksOf(e)
    /\ NewParents(x, y, NodesOf(e), LinksOf(e))
    /\ y.refs = x.refs \o RefsOf(e)
    /\ y.paths = x.paths \cup StoredOf(x.nodes, e)
    /\ y.items = IF Applies(e) /\ e.type \in Uploads
                 THEN Put(x.items, e.item, [owner |-> OwnerOf(e), at |-> e.recorded]) ELSE x.items
    /\ y.diffs = IF Applies(e) /\ e.type = "diff.captured"
                 THEN Put(x.diffs, e.id, DiffOf(e)) ELSE x.diffs

\* An event that only makes entries and links.
LEMMA JoinFollows ==
    ASSUME NEW R, NEW x, x.refs \in Seq(R), NEW y, NEW e, NEW N, NEW L, Joins(x, y, N, L),
           NodesOf(e) = N, LinksOf(e) = L,
           e.type \notin Uploads \cup {"diff.captured", "artifact.file_ref_recorded"}
    PROVE  Follows(x, y, e)
<1>1. RefsOf(e) = <<>>
  BY DEF RefsOf
<1>2. x.refs \o <<>> = x.refs
  OBVIOUS
<1>3. StoredOf(x.nodes, e) = {}
  BY DEF StoredOf
<1> QED
  BY <1>1, <1>2, <1>3 DEF Joins, Follows

LEMMA JoinOptional ==
    ASSUME NEW x, DOMAIN x = DOMAIN EmptyIndex, NEW a, NEW b, NEW e
    PROVE  Joins(x, LinkOptional(x, a, b, e), Opt(b, {a, b}), Opt(b, Both(a, b)))
<1>1. CASE b = None
  BY <1>1 DEF LinkOptional, Joins, NewParents, Opt
<1>2. CASE b # None
  BY <1>2, JoiningSteps DEF LinkOptional, Opt
<1> QED
  BY <1>1, <1>2

LEMMA StillGraph == ASSUME NEW x, NEW y, NEW N, NEW L, Joins(x, y, N, L) PROVE DOMAIN y = DOMAIN EmptyIndex
BY DEF Joins

LEMMA OrgFollows ==
    ASSUME NEW R, NEW x, DOMAIN x = DOMAIN EmptyIndex, x.refs \in Seq(R), NEW e, Applies(e),
           e.type \in {"org.created", "org.updated"}
    PROVE  Follows(x, ApplyEvent(x, e), e)
<1>1. NodesOf(e) = {e.org} /\ LinksOf(e) = {}
  BY DEF NodesOf, LinksOf
<1>2. Joins(x, ApplyEvent(x, e), {e.org}, {})
  <2>1. CASE e.type = "org.created"
    BY <2>1, JoiningSteps DEF ApplyEvent, ApplyOrgCreated
  <2>2. CASE e.type = "org.updated"
    BY <2>2, JoiningSteps DEF ApplyEvent, ApplyOrgUpdated
  <2> QED
    BY <2>1, <2>2
<1> QED
  BY <1>1, <1>2, JoinFollows DEF Uploads

\* A child is made, or left as it is, and linked to its parent, if it names one.
LEMMA ParentFollows ==
    ASSUME NEW R, NEW x, DOMAIN x = DOMAIN EmptyIndex, x.refs \in Seq(R), NEW e, Applies(e),
           e.type \in {"project.created", "project.updated", "mission.created", "mission.updated"}
    PROVE  Follows(x, ApplyEvent(x, e), e)
<1>c. PICK c : c = IF e.type \in {"project.created", "project.updated"} THEN e.project ELSE e.mission
  OBVIOUS
<1>p. PICK p : p = e.parent
  OBVIOUS
<1>1. CASE e.type = "project.created"
  <2>a. PICK y : y = Create(x, c, e)
    OBVIOUS
  <2>b. PICK z : z = LinkUp(y, c, p, e)
    OBVIOUS
  <2>c. PICK w : w = InsertOptional(z, p, e)
    OBVIOUS
  <2>1. Joins(x, y, {c}, {})
    BY <2>a, JoiningSteps
  <2>2. Joins(y, z, {c, p}, {<<p, c>>})
    BY <2>1, <2>b, StillGraph, JoiningSteps
  <2>3. Joins(z, w, {}, {})
    BY <2>2, <2>c, StillGraph, JoiningSteps
  <2>4. Joins(x, w, ({c} \cup {c, p}) \cup {}, ({} \cup {<<p, c>>}) \cup {})
    BY <2>1, <2>2, <2>3, JoinsAgain
  <2>5. ({c} \cup {c, p}) \cup {} = {c, p} /\ ({} \cup {<<p, c>>}) \cup {} = {<<p, c>>}
    OBVIOUS
  <2>6. w = ApplyEvent(x, e)
    BY <1>1, <1>c, <1>p, <2>a, <2>b, <2>c DEF ApplyEvent, ApplyProjectCreated
  <2>7. NodesOf(e) = {c, p} /\ LinksOf(e) = {<<p, c>>}
    BY <1>1, <1>c, <1>p DEF NodesOf, LinksOf
  <2> QED
    BY <1>1, <2>4, <2>5, <2>6, <2>7, JoinFollows DEF Uploads
<1>2. CASE e.type = "mission.created"
  <2>a. PICK y : y = LinkUp(x, c, p, e)
    OBVIOUS
  <2>b. PICK z : z = Create(y, c, e)
    OBVIOUS
  <2>1. Joins(x, y, {c, p}, {<<p, c>>})
    BY <2>a, JoiningSteps
  <2>2. Joins(y, z, {c}, {})
    BY <2>1, <2>b, StillGraph, JoiningSteps
  <2>3. Joins(x, z, {c, p} \cup {c}, {<<p, c>>} \cup {})
    BY <2>1, <2>2, JoinsAgain
  <2>4. {c, p} \cup {c} = {c, p} /\ {<<p, c>>} \cup {} = {<<p, c>>}
    OBVIOUS
  <2>5. z = ApplyEvent(x, e)
    BY <1>2, <1>c, <1>p, <2>a, <2>b DEF ApplyEvent, ApplyMissionCreated
  <2>6. NodesOf(e) = {c, p} /\ LinksOf(e) = {<<p, c>>}
    BY <1>2, <1>c, <1>p DEF NodesOf, LinksOf
  <2> QED
    BY <1>2, <2>3, <2>4, <2>5, <2>6, JoinFollows DEF Uploads
<1>3. CASE e.type \in {"project.updated", "mission.updated"}
  <2>a. PICK y : y = IF p = None THEN x ELSE LinkUp(x, c, p, e)
    OBVIOUS
  <2>b. PICK z : z = Update(y, c, e)
    OBVIOUS
  <2>1. Joins(x, y, Opt(p, {c, p}), Opt(p, {<<p, c>>}))
    <3>1. CASE p = None
      BY <3>1, <2>a DEF Joins, NewParents, Opt
    <3>2. CASE p # None
      BY <3>2, <2>a, JoiningSteps DEF Opt
    <3> QED
      BY <3>1, <3>2
  <2>2. Joins(y, z, {c}, {})
    BY <2>1, <2>b, StillGraph, JoiningSteps
  <2>3. Joins(x, z, Opt(p, {c, p}) \cup {c}, Opt(p, {<<p, c>>}) \cup {})
    BY <2>1, <2>2, JoinsAgain
  <2>4. /\ Opt(p, {c, p}) \cup {c} = {c} \cup Opt(p, {p})
        /\ Opt(p, {<<p, c>>}) \cup {} = Opt(p, {<<p, c>>})
    BY DEF Opt
  <2>5. z = ApplyEvent(x, e)
    BY <1>3, <1>c, <1>p, <2>a, <2>b DEF ApplyEvent, ApplyProjectUpdated, ApplyMissionUpdated
  <2>6. NodesOf(e) = {c} \cup Opt(p, {p}) /\ LinksOf(e) = Opt(p, {<<p, c>>})
    BY <1>3, <1>c, <1>p DEF NodesOf, LinksOf
  <2> QED
    BY <1>3, <2>3, <2>4, <2>5, <2>6, JoinFollows DEF Uploads
<1> QED
  BY <1>1, <1>2, <1>3

LEMMA SessionFollows ==
    ASSUME NEW R, NEW x, DOMAIN x = DOMAIN EmptyIndex, x.refs \in Seq(R), NEW e, Applies(e),
           e.type \in {"session.started", "session.linked_to_mission", "artifact.linked_to_mission"}
    PROVE  Follows(x, ApplyEvent(x, e), e)
<1>m. PICK m : m = e.mission
  OBVIOUS
<1>1. CASE e.type = "session.started"
  <2>s. PICK s : s = e.session
    OBVIOUS
  <2>a. PICK y : y = Create(x, s, e)
    OBVIOUS
  <2>b. PICK z : z = LinkOptional(y, s, m, e)
    OBVIOUS
  <2>1. Joins(x, y, {s}, {})
    BY <2>a, JoiningSteps
  <2>2. Joins(y, z, Opt(m, {s, m}), Opt(m, Both(s, m)))
    BY <2>1, <2>b, StillGraph, JoinOptional
  <2>3. Joins(x, z, {s} \cup Opt(m, {s, m}), {} \cup Opt(m, Both(s, m)))
    BY <2>1, <2>2, JoinsAgain
  <2>4. {s} \cup Opt(m, {s, m}) = {s} \cup Opt(m, {m}) /\ {} \cup Opt(m, Both(s, m)) = Opt(m, Both(s, m))
    BY DEF Opt
  <2>5. z = ApplyEvent(x, e)
    BY <1>1, <1>m, <2>s, <2>a, <2>b DEF ApplyEvent, ApplySessionStarted
  <2>6. NodesOf(e) = {s} \cup Opt(m, {m}) /\ LinksOf(e) = Opt(m, Both(s, m))
    BY <1>1, <1>m, <2>s DEF NodesOf, LinksOf
  <2> QED
    BY <1>1, <2>3, <2>4, <2>5, <2>6, JoinFollows DEF Uploads
<1>2. CASE e.type \in {"session.linked_to_mission", "artifact.linked_to_mission"}
  <2>s. PICK s : s = IF e.type = "session.linked_to_mission" THEN e.session ELSE e.artifact
    OBVIOUS
  <2>a. PICK y : y = Link(x, s, m, e)
    OBVIOUS
  <2>b. PICK z : z = InsertOptional(y, s, e)
    OBVIOUS
  <2>c. PICK w : w = InsertOptional(z, m, e)
    OBVIOUS
  <2>1. Joins(x, y, {s, m}, Both(s, m))
    BY <2>a, JoiningSteps
  <2>2. Joins(y, z, {}, {})
    BY <2>1, <2>b, StillGraph, JoiningSteps
  <2>3. Joins(z, w, {}, {})
    BY <2>2, <2>c, StillGraph, JoiningSteps
  <2>4. Joins(x, w, ({s, m} \cup {}) \cup {}, (Both(s, m) \cup {}) \cup {})
    BY <2>1, <2>2, <2>3, JoinsAgain
  <2>5. ({s, m} \cup {}) \cup {} = {s, m} /\ (Both(s, m) \cup {}) \cup {} = Both(s, m)
    OBVIOUS
  <2>6. w = ApplyEvent(x, e)
    BY <1>2, <1>m, <2>s, <2>a, <2>b, <2>c DEF ApplyEvent, ApplySessionLinked, ApplyArtifactLinked
  <2>7. NodesOf(e) = {s, m} /\ LinksOf(e) = Both(s, m)
    BY <1>2, <1>m, <2>s DEF NodesOf, LinksOf
  <2> QED
    BY <1>2, <2>4, <2>5, <2>6, <2>7, JoinFollows DEF Uploads
<1> QED
  BY <1>1, <1>2

LEMMA ArtifactFollows ==
    ASSUME NEW R, NEW x, DOMAIN x = DOMAIN EmptyIndex, x.refs \in Seq(R), NEW e, Applies(e),
           e.type \in {"artifact.created", "artifact.updated"}
    PROVE  Follows(x, ApplyEvent(x, e), e)
<1>a. PICK a : a = e.artifact
  OBVIOUS
<1>s. PICK s : s = e.session
  OBVIOUS
<1>m. PICK m : m = e.mission
  OBVIOUS
<1>1. CASE e.type = "artifact.created"
  <2>a. PICK y : y = Create(x, a, e)
    OBVIOUS
  <2>b. PICK z : z = LinkOptional(y, a, m, e)
    OBVIOUS
  <2>c. PICK w : w = LinkOptional(z, a, s, e)
    OBVIOUS
  <2>1. Joins(x, y, {a}, {})
    BY <2>a, JoiningSteps
  <2>2. Joins(y, z, Opt(m, {a, m}), Opt(m, Both(a, m)))
    BY <2>1, <2>b, StillGraph, JoinOptional
  <2>3. Joins(z, w, Opt(s, {a, s}), Opt(s, Both(a, s)))
    BY <2>2, <2>c, StillGraph, JoinOptional
  <2>4. Joins(x, w, ({a} \cup Opt(m, {a, m})) \cup Opt(s, {a, s}),
                    ({} \cup Opt(m, Both(a, m))) \cup Opt(s, Both(a, s)))
    BY <2>1, <2>2, <2>3, JoinsAgain
  <2>5. /\ ({a} \cup Opt(m, {a, m})) \cup Opt(s, {a, s}) = {a} \cup Opt(m, {m}) \cup Opt(s, {s})
        /\ ({} \cup Opt(m, Both(a, m))) \cup Opt(s, Both(a, s)) = Opt(m, Both(a, m)) \cup Opt(s, Both(a, s))
    BY DEF Opt
  <2>6. w = ApplyEvent(x, e)
    BY <1>1, <1>a, <1>s, <1>m, <2>a, <2>b, <2>c DEF ApplyEvent, ApplyArtifactCreated
  <2>7. /\ NodesOf(e) = {a} \cup Opt(m, {m}) \cup Opt(s, {s})
        /\ LinksOf(e) = Opt(m, Both(a, m)) \cup Opt(s, Both(a, s))
    BY <1>1, <1>a, <1>s, <1>m DEF NodesOf, LinksOf
  <2> QED
    BY <1>1, <2>4, <2>5, <2>6, <2>7, JoinFollows DEF Uploads
<1>2. CASE e.type = "artifact.updated"
  <2>a. PICK y : y = Update(x, a, e)
    OBVIOUS
  <2>b. PICK z : z = LinkOptional(y, a, s, e)
    OBVIOUS
  <2>1. Joins(x, y, {a}, {})
    BY <2>a, JoiningSteps
  <2>2. Joins(y, z, Opt(s, {a, s}), Opt(s, Both(a, s)))
    BY <2>1, <2>b, StillGraph, JoinOptional
  <2>3. Joins(x, z, {a} \cup Opt(s, {a, s}), {} \cup Opt(s, Both(a, s)))
    BY <2>1, <2>2, JoinsAgain
  <2>4. {a} \cup Opt(s, {a, s}) = {a} \cup Opt(s, {s}) /\ {} \cup Opt(s, Both(a, s)) = Opt(s, Both(a, s))
    BY DEF Opt
  <2>5. z = ApplyEvent(x, e)
    BY <1>2, <1>a, <1>s, <2>a, <2>b DEF ApplyEvent, ApplyArtifactUpdated
  <2>6. NodesOf(e) = {a} \cup Opt(s, {s}) /\ LinksOf(e) = Opt(s, Both(a, s))
    BY <1>2, <1>a, <1>s DEF NodesOf, LinksOf
  <2> QED
    BY <1>2, <2>3, <2>4, <2>5, <2>6, JoinFollows DEF Uploads
<1> QED
  BY <1>1, <1>2

\* What else an event writes, on the way from the entries to its links.
LEMMA UploadFollows ==
    ASSUME NEW R, NEW x, DOMAIN x = DOMAIN EmptyIndex, x.refs \in Seq(R), NEW e, Applies(e),
           e.type \in Uploads
    PROVE  Follows(x, ApplyEvent(x, e), e)
<1>0. RefsOf(e) = <<>> /\ x.refs \o <<>> = x.refs /\ StoredOf(x.nodes, e) = {}
  BY DEF RefsOf, StoredOf, Uploads
<1>o. PICK o : o = OwnerOf(e)
  OBVIOUS
<1>i. PICK items : items = Put(x.items, e.item, [owner |-> o, at |-> e.recorded])
  OBVIOUS
<1>1. CASE e.type = "repo_context.captured"
  <2>1. ApplyEvent(x, e) = [x EXCEPT !.items = items]
    BY <1>1, <1>i, <1>o DEF ApplyEvent, ApplyRepoContextCaptured, OwnerOf
  <2>2. NodesOf(e) = {} /\ LinksOf(e) = {}
    BY <1>1 DEF NodesOf, LinksOf
  <2>a. PICK y : y = [x EXCEPT !.items = items]
    OBVIOUS
  <2>3. /\ DOMAIN y = DOMAIN EmptyIndex /\ y.nodes = x.nodes /\ y.links = x.links /\ y.up = x.up
        /\ y.refs = x.refs /\ y.paths = x.paths /\ y.diffs = x.diffs /\ y.items = items
    BY <2>a DEF EmptyIndex
  <2> QED
    BY <1>0, <1>1, <1>i, <1>o, <2>1, <2>2, <2>3, <2>a DEF Follows, NewParents, Uploads
<1>2. CASE e.type \in {"session.log_uploaded", "artifact.attachment_uploaded"}
  <2>t. PICK t : t = Touch(x, o, e)
    OBVIOUS
  <2>a. PICK y : y = InsertOptional(t, o, e)
    OBVIOUS
  <2>b. PICK z : z = [y EXCEPT !.items = items, !.links = @ \cup {<<o, e.item>>}]
    OBVIOUS
  <2>s. PICK s : s = e.session
    OBVIOUS
  <2>1. Joins(x, t, {o}, {})
    BY <2>t, JoiningSteps
  <2>2. Joins(t, y, {}, {})
    BY <2>1, <2>a, StillGraph, JoiningSteps
  <2>3. Joins(x, y, {o} \cup {}, {} \cup {})
    BY <2>1, <2>2, JoinsAgain
  <2>4. /\ DOMAIN z = DOMAIN EmptyIndex /\ z.nodes = y.nodes /\ z.up = y.up /\ z.refs = y.refs
        /\ z.paths = y.paths /\ z.diffs = y.diffs /\ z.items = items
        /\ z.links = y.links \cup {<<o, e.item>>}
    BY <2>3, <2>b DEF Joins, EmptyIndex
  <2>5. NewParents(x, z, {o}, {<<o, e.item>>})
    BY <2>3, <2>4 DEF Joins, NewParents
  <2>6. /\ DOMAIN z = DOMAIN EmptyIndex /\ z.nodes = x.nodes \cup {o}
        /\ z.links = x.links \cup {<<o, e.item>>} /\ z.refs = x.refs
        /\ z.paths = x.paths /\ z.diffs = x.diffs /\ z.items = items
    BY <2>3, <2>4 DEF Joins
  <2>7. y.items = x.items
    BY <2>3 DEF Joins
  <2>8. CASE e.type = "session.log_uploaded"
    <3>1. o = e.session
      BY <1>o, <2>8 DEF OwnerOf
    <3>2. z = ApplyEvent(x, e)
      BY <2>8, <1>i, <2>t, <2>a, <2>b, <2>7, <3>1 DEF ApplyEvent, ApplySessionLogUploaded
    <3>3. NodesOf(e) = {o} /\ LinksOf(e) = {<<o, e.item>>}
      BY <2>8, <3>1 DEF NodesOf, LinksOf
    <3> QED
      BY <1>0, <1>i, <1>o, <2>5, <2>6, <3>2, <3>3, <2>8 DEF Follows, Uploads
  <2>9. CASE e.type = "artifact.attachment_uploaded"
    <3>a. PICK w : w = LinkOptional(z, o, s, e)
      OBVIOUS
    <3>1. o = e.artifact
      BY <1>o, <2>9 DEF OwnerOf
    <3>2. w = ApplyEvent(x, e)
      BY <2>9, <1>i, <2>s, <2>t, <2>a, <2>b, <2>7, <3>a, <3>1
      DEF ApplyEvent, ApplyArtifactAttachmentUploaded
    <3>3. /\ NodesOf(e) = {o} \cup Opt(s, {s})
          /\ LinksOf(e) = {<<o, e.item>>} \cup Opt(s, Both(o, s))
      BY <2>9, <2>s, <3>1 DEF NodesOf, LinksOf
    <3>4. Joins(z, w, Opt(s, {o, s}), Opt(s, Both(o, s)))
      BY <2>4, <3>a, JoinOptional
    <3>5. /\ w.nodes = x.nodes \cup ({o} \cup Opt(s, {s}))
          /\ w.links = x.links \cup ({<<o, e.item>>} \cup Opt(s, Both(o, s)))
      BY <2>6, <3>4 DEF Joins, Opt
    <3>6. NewParents(x, w, {o} \cup Opt(s, {s}), {<<o, e.item>>} \cup Opt(s, Both(o, s)))
      BY <2>5, <3>4 DEF Joins, NewParents, Opt
    <3> QED
      BY <1>0, <1>i, <1>o, <2>6, <3>2, <3>3, <3>4, <3>5, <3>6, <2>9 DEF Follows, Uploads, Joins
  <2> QED
    BY <1>2, <2>8, <2>9
<1> QED
  BY <1>1, <1>2 DEF Uploads

LEMMA FileRefFollows ==
    ASSUME NEW R, NEW x, DOMAIN x = DOMAIN EmptyIndex, x.refs \in Seq(R), NEW e, Applies(e),
           e.type = "artifact.file_ref_recorded"
    PROVE  Follows(x, ApplyEvent(x, e), e)
<1>a. PICK a : a = e.artifact
  OBVIOUS
<1>s. PICK s : s = e.session
  OBVIOUS
<1>p. PICK p : p = e.files[1].path
  OBVIOUS
<1>r. PICK r : r = FileRef(e, e.item, p)
  OBVIOUS
<1>y. PICK y : y = [x EXCEPT !.refs = Append(@, r)]
  OBVIOUS
<1>t. PICK t : t = Touch(y, a, e)
  OBVIOUS
<1>u. PICK u : u = InsertOptional(t, a, e)
  OBVIOUS
<1>z. PICK z : z = IF a \in x.nodes THEN [u EXCEPT !.paths = @ \cup {<<a, p>>}] ELSE y
  OBVIOUS
<1>w. PICK w : w = LinkOptional(z, a, s, e)
  OBVIOUS
<1>1. RefsOf(e) = <<r>> /\ PathsOf(<<r>>) = {<<a, p>>}
  <2>1. RefsOf(e) = <<r>>
    BY <1>p, <1>r DEF RefsOf
  <2>2. r.artifact = a /\ r.path = p /\ DOMAIN <<r>> = {1} /\ <<r>>[1] = r
    BY <1>a, <1>r DEF FileRef
  <2> QED
    BY <2>1, <2>2 DEF PathsOf
<1>2. x.refs \o <<r>> = Append(x.refs, r)
  <2>1. x.refs \in Seq(R \cup {r}) /\ r \in R \cup {r}
    OBVIOUS
  <2> QED
    BY <2>1
<1>3. /\ DOMAIN y = DOMAIN EmptyIndex /\ y.nodes = x.nodes /\ y.links = x.links /\ y.up = x.up
      /\ y.paths = x.paths /\ y.diffs = x.diffs /\ y.items = x.items /\ y.refs = x.refs \o <<r>>
  BY <1>y, <1>2 DEF EmptyIndex
<1>4. Joins(y, t, {a}, {})
  BY <1>3, <1>t, JoiningSteps
<1>5. Joins(t, u, {}, {})
  BY <1>4, <1>u, StillGraph, JoiningSteps
<1>6. Joins(y, u, {a} \cup {}, {} \cup {})
  BY <1>4, <1>5, JoinsAgain
<1>q. StoredOf(x.nodes, e) = IF a \in x.nodes THEN {<<a, p>>} ELSE {}
  BY <1>a, <1>1 DEF StoredOf
<1>7. /\ DOMAIN z = DOMAIN EmptyIndex /\ z.nodes = x.nodes /\ z.links = x.links
      /\ z.diffs = x.diffs /\ z.items = x.items /\ z.refs = x.refs \o <<r>>
      /\ z.paths = x.paths \cup StoredOf(x.nodes, e)
      /\ NewParents(x, z, {}, {})
  <2>1. CASE a \in x.nodes
    <3>1. /\ DOMAIN z = DOMAIN EmptyIndex /\ z.nodes = u.nodes /\ z.links = u.links
          /\ z.diffs = u.diffs /\ z.items = u.items /\ z.refs = u.refs /\ z.up = u.up
          /\ z.paths = u.paths \cup {<<a, p>>}
      BY <1>6, <1>z, <2>1 DEF Joins, EmptyIndex
    <3>2. NewParents(x, z, {}, {})
      BY <1>3, <1>6, <3>1 DEF Joins, NewParents
    <3>3. x.nodes \cup ({a} \cup {}) = x.nodes
      BY <2>1
    <3> QED
      BY <1>3, <1>6, <1>q, <2>1, <3>1, <3>2, <3>3 DEF Joins
  <2>2. CASE a \notin x.nodes
    BY <1>3, <1>q, <1>z, <2>2 DEF NewParents
  <2> QED
    BY <2>1, <2>2
<1>8. w = ApplyEvent(x, e)
  BY <1>a, <1>s, <1>p, <1>r, <1>y, <1>t, <1>u, <1>z, <1>w DEF ApplyEvent, ApplyArtifactFileRef
<1>9. NodesOf(e) = Opt(s, {a, s}) /\ LinksOf(e) = Opt(s, Both(a, s))
  BY <1>a, <1>s DEF NodesOf, LinksOf
<1>10. Joins(z, w, Opt(s, {a, s}), Opt(s, Both(a, s)))
  BY <1>7, <1>w, JoinOptional
<1>11. NewParents(x, w, Opt(s, {a, s}), Opt(s, Both(a, s)))
  BY <1>7, <1>10 DEF Joins, NewParents
<1> QED
  BY <1>1, <1>7, <1>8, <1>9, <1>10, <1>11 DEF Follows, Joins, Uploads

LEMMA DiffFollows ==
    ASSUME NEW R, NEW x, DOMAIN x = DOMAIN EmptyIndex, x.refs \in Seq(R), NEW e, Applies(e),
           e.type = "diff.captured"
    PROVE  Follows(x, ApplyEvent(x, e), e)
<1>a. PICK a : a = e.artifact
  OBVIOUS
<1>s. PICK s : s = e.session
  OBVIOUS
<1>m. PICK m : m = e.mission
  OBVIOUS
<1>r. PICK r : r = [i \in DOMAIN e.files |-> FileRef(e, e.id, e.files[i].path)]
  OBVIOUS
<1>p. PICK P : P = {<<a, q>> : q \in {e.files[i].path : i \in DOMAIN e.files}}
  OBVIOUS
<1>d. PICK d : d = Put(x.diffs, e.id, DiffOf(e))
  OBVIOUS
<1>t. PICK t : t = Touch(x, a, e)
  OBVIOUS
<1>u. PICK u : u = InsertOptional(t, a, e)
  OBVIOUS
<1>y. PICK y : y = [u EXCEPT !.diffs = d, !.links = @ \cup {<<a, e.id>>}, !.paths = @ \cup P,
                            !.refs = @ \o r]
  OBVIOUS
<1>z. PICK z : z = LinkOptional(y, a, s, e)
  OBVIOUS
<1>w. PICK w : w = LinkOptional(z, a, m, e)
  OBVIOUS
<1>1. RefsOf(e) = r /\ P = PathsOf(r)
  <2>1. RefsOf(e) = r
    BY <1>r DEF RefsOf
  <2>2. \A i \in DOMAIN e.files : r[i].artifact = a /\ r[i].path = e.files[i].path
    BY <1>a, <1>r DEF FileRef
  <2>3. DOMAIN r = DOMAIN e.files
    BY <1>r
  <2>4. \A q : q \in P <=> \E i \in DOMAIN e.files : q = <<a, e.files[i].path>>
    BY <1>p, Zenon
  <2>5. \A q : q \in PathsOf(r) <=> \E i \in DOMAIN r : q = <<r[i].artifact, r[i].path>>
    BY Zenon DEF PathsOf
  <2>6. \A q : q \in P <=> q \in PathsOf(r)
    BY <2>2, <2>3, <2>4, <2>5, Zenon
  <2> QED
    BY <2>1, <2>6
<1>2. Joins(x, t, {a}, {})
  BY <1>t, JoiningSteps
<1>3. Joins(t, u, {}, {})
  BY <1>2, <1>u, StillGraph, JoiningSteps
<1>4. Joins(x, u, {a} \cup {}, {} \cup {})
  BY <1>2, <1>3, JoinsAgain
<1>5. /\ DOMAIN y = DOMAIN EmptyIndex /\ y.nodes = u.nodes /\ y.up = u.up /\ y.items = u.items
      /\ y.links = u.links \cup {<<a, e.id>>} /\ y.paths = u.paths \cup P
      /\ y.refs = u.refs \o r /\ y.diffs = d
  BY <1>4, <1>y DEF Joins, EmptyIndex
<1>6. /\ y.nodes = x.nodes \cup {a} /\ y.links = x.links \cup {<<a, e.id>>}
      /\ y.paths = x.paths \cup P /\ y.refs = x.refs \o r /\ y.items = x.items
      /\ NewParents(x, y, {a}, {<<a, e.id>>})
  BY <1>4, <1>5 DEF Joins, NewParents
<1>7. Joins(y, z, Opt(s, {a, s}), Opt(s, Both(a, s)))
  BY <1>5, <1>z, JoinOptional
<1>8. Joins(z, w, Opt(m, {a, m}), Opt(m, Both(a, m)))
  BY <1>7, <1>w, StillGraph, JoinOptional
<1>b. PICK N : N = Opt(s, {a, s}) \cup Opt(m, {a, m})
  OBVIOUS
<1>c. PICK K : K = Opt(s, Both(a, s)) \cup Opt(m, Both(a, m))
  OBVIOUS
<1>9. Joins(y, w, N, K)
  BY <1>7, <1>8, <1>b, <1>c, JoinsAgain
<1>10. /\ w.nodes = x.nodes \cup ({a} \cup N) /\ w.links = x.links \cup ({<<a, e.id>>} \cup K)
       /\ NewParents(x, w, {a} \cup N, {<<a, e.id>>} \cup K)
  BY <1>6, <1>9 DEF Joins, NewParents
<1>11. NodesOf(e) = {a} \cup N
  <2>1. NodesOf(e) = {a} \cup Opt(m, {m}) \cup Opt(s, {s})
    BY <1>a, <1>s, <1>m DEF NodesOf
  <2> QED
    BY <2>1, <1>b DEF Opt
<1>12. LinksOf(e) = {<<a, e.id>>} \cup K
  <2>1. LinksOf(e) = {<<a, e.id>>} \cup Opt(s, Both(a, s)) \cup Opt(m, Both(a, m))
    BY <1>a, <1>s, <1>m DEF LinksOf
  <2> QED
    BY <2>1, <1>c
<1>13. w = ApplyEvent(x, e)
  <2>1. u.diffs = x.diffs
    BY <1>4 DEF Joins
  <2>2. ApplyEvent(x, e) = ApplyDiffCaptured(x, e)
    BY DEF ApplyEvent
  <2>3. y = [InsertOptional(Touch(x, e.artifact, e), e.artifact, e) EXCEPT
                !.diffs = Put(@, e.id, [artifact |-> e.artifact, session |-> e.session,
                                        files |-> e.files, at |-> e.recorded]),
                !.links = @ \cup {<<e.artifact, e.id>>},
                !.paths = @ \cup {<<e.artifact, q>> : q \in {e.files[i].path : i \in DOMAIN e.files}},
                !.refs = @ \o [i \in DOMAIN e.files |-> FileRef(e, e.id, e.files[i].path)]]
    <3>1. d = Put(u.diffs, e.id, [artifact |-> e.artifact, session |-> e.session,
                                  files |-> e.files, at |-> e.recorded])
      BY <1>d, <2>1, Zenon DEF DiffOf
    <3>2. y = [u EXCEPT !.diffs = Put(@, e.id, [artifact |-> e.artifact, session |-> e.session,
                                                files |-> e.files, at |-> e.recorded]),
                        !.links = @ \cup {<<a, e.id>>}, !.paths = @ \cup P, !.refs = @ \o r]
      BY <1>y, <3>1, Zenon
    <3>3. u = InsertOptional(Touch(x, e.artifact, e), e.artifact, e)
      BY <1>a, <1>t, <1>u
    <3> QED
      BY <1>a, <1>r, <1>p, <3>2, <3>3, Zenon
  <2> QED
    BY <1>a, <1>s, <1>m, <1>z, <1>w, <2>2, <2>3, Zenon DEF ApplyDiffCaptured
<1> QED
  <2>1. DOMAIN w = DOMAIN EmptyIndex /\ w.items = x.items /\ w.diffs = d
        /\ w.paths = x.paths \cup P /\ w.refs = x.refs \o r
    BY <1>5, <1>6, <1>9 DEF Joins
  <2>2. StoredOf(x.nodes, e) = P
    BY <1>1 DEF StoredOf
  <2> QED
    BY <1>1, <1>d, <1>10, <1>11, <1>12, <1>13, <2>1, <2>2 DEF Follows, Uploads

\* Every event of a known kind adds to the graph what it stands for.
LEMMA Applied ==
    ASSUME NEW R, NEW x, DOMAIN x = DOMAIN EmptyIndex, x.refs \in Seq(R), NEW e, e.type \in EventTypes
    PROVE  Follows(x, ApplyEvent(x, e), e)
<1>1. CASE ~Applies(e)
  <2>1. /\ ApplyEvent(x, e) = x /\ NodesOf(e) = {} /\ LinksOf(e) = {} /\ RefsOf(e) = <<>>
        /\ StoredOf(x.nodes, e) = {}
    BY <1>1 DEF ApplyEvent, NodesOf, LinksOf, RefsOf, StoredOf
  <2>2. x.refs \o <<>> = x.refs
    OBVIOUS
  <2> QED
    BY <1>1, <2>1, <2>2 DEF Follows, NewParents
<1>2. CASE e.type \in {"artifact.reviewed", "artifact.accepted", "external_ref.linked",
                       "source.session_observed"}
  BY <1>1, <1>2 DEF Applies, Needed
<1> QED
  BY <1>1, <1>2, OrgFollows, ParentFollows, SessionFollows, ArtifactFollows, UploadFollows,
     FileRefFollows, DiffFollows DEF EventTypes, Uploads

-----------------------------------------------------------------------------
(* The graph of a log. *)

EventOk(e) == e.type \in EventTypes /\ IsSeq(e.files)
LogOk(log) == IsSeq(log) /\ \A i \in 1 .. Len(log) : EventOk(log[i])

\* What the first k members of a sequence of sets hold.
Upto(F, k) == UNION {F[i] : i \in 1 .. k}

Nodes(log) == [i \in DOMAIN log |-> NodesOf(log[i])]
Links(log) == [i \in DOMAIN log |-> LinksOf(log[i])]
Rows(log) == [i \in DOMAIN log |-> ToSet(RefsOf(log[i]))]
FileRows(log) == [i \in DOMAIN log |-> PathsOf(RefsOf(log[i]))]

\* The paths that entries take from the first k events, each after those before it.
StoredAt(log, i) == StoredOf(Upto(Nodes(log), i - 1), log[i])
Stored(paths, log, k) == \A p : p \in paths <=> \E i \in 1 .. k : p \in StoredAt(log, i)

\* x is what the first k events of log stand for.
Graph(x, log, k) ==
    /\ DOMAIN x = DOMAIN EmptyIndex
    /\ x.refs \in Seq(Upto(Rows(log), k))
    /\ x.nodes = Upto(Nodes(log), k)
    /\ x.links = Upto(Links(log), k)
    /\ \A n \in DOMAIN x.up : x.up[n] \in x.nodes /\ <<x.up[n], n>> \in x.links
    /\ x.paths \subseteq PathsOf(x.refs) /\ Stored(x.paths, log, k)
    /\ PathsOf(x.refs) = Upto(FileRows(log), k)

LEMMA RefsListed ==
    ASSUME NEW e, EventOk(e)
    PROVE  RefsOf(e) \in Seq(ToSet(RefsOf(e)))
<1>1. CASE Applies(e) /\ e.type = "artifact.file_ref_recorded"
  <2>a. PICK r : r = FileRef(e, e.item, e.files[1].path)
    OBVIOUS
  <2>1. RefsOf(e) = <<r>>
    BY <1>1, <2>a DEF RefsOf
  <2>2. ToSet(<<r>>) = {r} /\ <<r>> \in Seq({r})
    BY DEF ToSet
  <2> QED
    BY <2>1, <2>2
<1>2. CASE Applies(e) /\ e.type = "diff.captured"
  <2>a. PICK s : s = [i \in 1 .. Len(e.files) |-> FileRef(e, e.id, e.files[i].path)]
    OBVIOUS
  <2>1. RefsOf(e) = s /\ Len(e.files) \in Nat
    BY <1>2, <2>a DEF RefsOf, EventOk, IsSeq
  <2>2. DOMAIN s = 1 .. Len(e.files)
    BY <2>a
  <2>3. \A i \in 1 .. Len(e.files) : s[i] \in ToSet(s)
    BY <2>2, Zenon DEF ToSet
  <2>4. s \in Seq(ToSet(s))
    BY <2>1, <2>a, <2>3
  <2> QED
    BY <2>1, <2>4
<1>3. CASE ~(Applies(e) /\ e.type \in {"artifact.file_ref_recorded", "diff.captured"})
  <2>1. RefsOf(e) = <<>>
    BY <1>3 DEF RefsOf
  <2> QED
    BY <2>1
<1> QED
  BY <1>1, <1>2, <1>3

LEMMA OneMore ==
    ASSUME NEW F, NEW k \in Nat
    PROVE  Upto(F, k + 1) = Upto(F, k) \cup F[k + 1] /\ Upto(F, 0) = {}
<1>1. \A i : i \in 1 .. (k + 1) <=> i \in 1 .. k \/ i = k + 1
  OBVIOUS
<1>2. \A x : x \in Upto(F, k + 1) <=> \E i \in 1 .. (k + 1) : x \in F[i]
  BY Zenon DEF Upto
<1>3. \A x : x \in Upto(F, k) <=> \E i \in 1 .. k : x \in F[i]
  BY Zenon DEF Upto
<1>4. \A x : x \in Upto(F, k + 1) <=> x \in Upto(F, k) \/ x \in F[k + 1]
  BY <1>1, <1>2, <1>3, Zenon
<1>5. Upto(F, 0) = {}
  <2>1. 1 .. 0 = {}
    OBVIOUS
  <2> QED
    BY <2>1, Zenon DEF Upto
<1> QED
  BY <1>4, <1>5

LEMMA SeqWithin ==
    ASSUME NEW A, NEW B, A \subseteq B, NEW s \in Seq(A)
    PROVE  s \in Seq(B)
OBVIOUS

LEMMA PathsJoined ==
    ASSUME NEW A, NEW s \in Seq(A), NEW t \in Seq(A)
    PROVE  PathsOf(s \o t) = PathsOf(s) \cup PathsOf(t) /\ s \o t \in Seq(A)
<1>1. /\ s \o t \in Seq(A) /\ Len(s \o t) = Len(s) + Len(t)
      /\ \A i \in 1 .. Len(s) + Len(t) : (s \o t)[i] = IF i <= Len(s) THEN s[i] ELSE t[i - Len(s)]
  BY ConcatProperties, Zenon
<1>2. /\ DOMAIN s = 1 .. Len(s) /\ DOMAIN t = 1 .. Len(t) /\ Len(s) \in Nat /\ Len(t) \in Nat
      /\ DOMAIN (s \o t) = 1 .. (Len(s) + Len(t))
  BY <1>1
<1>a. PICK u : u = s \o t
  OBVIOUS
<1> DEFINE P(r) == <<r.artifact, r.path>>
<1>3. \A q : \A v : q \in PathsOf(v) <=> \E i \in DOMAIN v : q = P(v[i])
  BY Zenon DEF PathsOf
<1> HIDE DEF P
<1>4. ASSUME NEW q \in PathsOf(u) PROVE q \in PathsOf(s) \cup PathsOf(t)
  <2>1. PICK i \in 1 .. (Len(s) + Len(t)) : q = P(u[i])
    <3>1. DOMAIN u = 1 .. (Len(s) + Len(t))
      BY <1>a, <1>2
    <3>2. \E i \in DOMAIN u : q = P(u[i])
      BY <1>3, Zenon
    <3> QED
      BY <3>1, <3>2, Zenon
  <2>2. CASE i <= Len(s)
    <3>1. i \in 1 .. Len(s) /\ u[i] = s[i]
      BY <1>a, <1>1, <1>2, <2>2
    <3> QED
      BY <1>2, <1>3, <2>1, <3>1
  <2>3. CASE ~(i <= Len(s))
    <3>1. i - Len(s) \in 1 .. Len(t) /\ u[i] = t[i - Len(s)]
      BY <1>a, <1>1, <1>2, <2>3
    <3> QED
      BY <1>2, <1>3, <2>1, <3>1
  <2> QED
    BY <2>2, <2>3
<1>5. ASSUME NEW q \in PathsOf(s) PROVE q \in PathsOf(u)
  <2>1. PICK i \in 1 .. Len(s) : q = P(s[i])
    BY <1>2, <1>3
  <2>2. i \in 1 .. (Len(s) + Len(t)) /\ u[i] = s[i]
    BY <1>a, <1>1, <1>2
  <2> QED
    BY <1>a, <1>2, <1>3, <2>1, <2>2
<1>6. ASSUME NEW q \in PathsOf(t) PROVE q \in PathsOf(u)
  <2>1. PICK i \in 1 .. Len(t) : q = P(t[i])
    BY <1>2, <1>3
  <2>2. i + Len(s) \in 1 .. (Len(s) + Len(t)) /\ ~(i + Len(s) <= Len(s)) /\ (i + Len(s)) - Len(s) = i
    BY <1>2
  <2>3. u[i + Len(s)] = t[i]
    BY <1>a, <1>1, <2>2
  <2> QED
    BY <1>a, <1>2, <1>3, <2>1, <2>2, <2>3
<1> QED
  BY <1>a, <1>1, <1>4, <1>5, <1>6

LEMMA GraphGrows ==
    ASSUME NEW log, LogOk(log), NEW k \in Nat, k + 1 \in 1 .. Len(log), NEW x, Graph(x, log, k)
    PROVE  Graph(ApplyEvent(x, log[k + 1]), log, k + 1)
<1>e. PICK e : e = log[k + 1]
  OBVIOUS
<1>y. PICK y : y = ApplyEvent(x, e)
  OBVIOUS
<1>0. EventOk(e) /\ k + 1 \in DOMAIN log
  BY <1>e DEF LogOk, IsSeq
<1>1. Follows(x, y, e)
  <2>1. x.refs \in Seq(Upto(Rows(log), k)) /\ DOMAIN x = DOMAIN EmptyIndex
    BY DEF Graph
  <2> QED
    BY <1>0, <1>y, <2>1, Applied DEF EventOk
<1>2. /\ Upto(Nodes(log), k + 1) = Upto(Nodes(log), k) \cup NodesOf(e)
      /\ Upto(Links(log), k + 1) = Upto(Links(log), k) \cup LinksOf(e)
      /\ Upto(Rows(log), k + 1) = Upto(Rows(log), k) \cup ToSet(RefsOf(e))
      /\ Upto(FileRows(log), k + 1) = Upto(FileRows(log), k) \cup PathsOf(RefsOf(e))
  <2>1. /\ Nodes(log)[k + 1] = NodesOf(e) /\ Links(log)[k + 1] = LinksOf(e)
        /\ Rows(log)[k + 1] = ToSet(RefsOf(e)) /\ FileRows(log)[k + 1] = PathsOf(RefsOf(e))
    BY <1>0, <1>e, Zenon DEF Nodes, Links, Rows, FileRows
  <2> QED
    BY <2>1, OneMore
<1>3. y.nodes = Upto(Nodes(log), k + 1) /\ y.links = Upto(Links(log), k + 1)
  BY <1>1, <1>2 DEF Graph, Follows
<1>4. \A n \in DOMAIN y.up : y.up[n] \in y.nodes /\ <<y.up[n], n>> \in y.links
  BY <1>1 DEF Graph, Follows, NewParents
<1>5. /\ y.refs \in Seq(Upto(Rows(log), k + 1))
      /\ PathsOf(y.refs) = PathsOf(x.refs) \cup PathsOf(RefsOf(e))
  <2>a. PICK A : A = Upto(Rows(log), k + 1)
    OBVIOUS
  <2>1. x.refs \in Seq(A)
    BY <1>2, <2>a, SeqWithin DEF Graph
  <2>2. RefsOf(e) \in Seq(A)
    BY <1>0, <1>2, <2>a, RefsListed, SeqWithin
  <2>3. y.refs = x.refs \o RefsOf(e)
    BY <1>1 DEF Follows
  <2> QED
    BY <2>a, <2>1, <2>2, <2>3, PathsJoined
<1>6. y.paths \subseteq PathsOf(y.refs)
  BY <1>1, <1>5 DEF Graph, Follows, StoredOf
<1>9. Stored(y.paths, log, k + 1)
  <2>1. y.paths = x.paths \cup StoredOf(x.nodes, e) /\ x.nodes = Upto(Nodes(log), k)
    BY <1>1 DEF Graph, Follows
  <2>2. StoredAt(log, k + 1) = StoredOf(x.nodes, e)
    <3>1. (k + 1) - 1 = k
      OBVIOUS
    <3> QED
      BY <1>e, <2>1, <3>1 DEF StoredAt
  <2>3. \A i : i \in 1 .. (k + 1) <=> i \in 1 .. k \/ i = k + 1
    OBVIOUS
  <2>4. \A p : p \in x.paths <=> \E i \in 1 .. k : p \in StoredAt(log, i)
    BY Zenon DEF Graph, Stored
  <2>5. \A p : p \in y.paths <=> p \in x.paths \/ p \in StoredAt(log, k + 1)
    BY <2>1, <2>2
  <2> QED
    BY <2>3, <2>4, <2>5, Zenon DEF Stored
<1>7. PathsOf(y.refs) = Upto(FileRows(log), k + 1)
  BY <1>2, <1>5 DEF Graph
<1>8. DOMAIN y = DOMAIN EmptyIndex
  BY <1>1 DEF Follows
<1> QED
  BY <1>e, <1>y, <1>3, <1>4, <1>5, <1>6, <1>7, <1>8, <1>9, Zenon DEF Graph

\* Folding a log makes the entries, links and rows its events stand for.
LEMMA GraphOfLog ==
    ASSUME NEW log, LogOk(log)
    PROVE  Graph(RebuildServerIndex(log), log, Len(log))
<1>0. IsSeq(log) /\ Len(log) \in Nat
  BY DEF LogOk, IsSeq
<1>1. PICK st : Steps(st, log) /\ RebuildServerIndex(log) = st[Len(log)]
  BY <1>0, Folded
<1> DEFINE Bad == {k \in Nat : k <= Len(log) /\ ~Graph(st[k], log, k)}
<1>2. Graph(st[0], log, 0)
  <2>1. st[0] = EmptyIndex
    BY <1>1 DEF Steps
  <2>2. /\ Upto(Nodes(log), 0) = {} /\ Upto(Links(log), 0) = {}
        /\ Upto(Rows(log), 0) = {} /\ Upto(FileRows(log), 0) = {}
    BY OneMore
  <2>3. PathsOf(<<>>) = {} /\ <<>> \in Seq({})
    BY DEF PathsOf
  <2>4. /\ EmptyIndex.nodes = {} /\ EmptyIndex.links = {} /\ EmptyIndex.refs = <<>>
        /\ EmptyIndex.paths = {} /\ DOMAIN EmptyIndex.up = {}
    BY DEF EmptyIndex
  <2>5. Stored({}, log, 0)
    BY DEF Stored
  <2> QED
    BY <2>1, <2>2, <2>3, <2>4, <2>5 DEF Graph
<1>3. ASSUME Bad # {} PROVE FALSE
  <2>1. PICK k \in Bad : \A j \in Bad : k <= j
    BY <1>3, LeastElement
  <2>2. k \in Nat /\ k # 0 /\ k <= Len(log) /\ ~Graph(st[k], log, k)
    BY <1>2
  <2>3. k - 1 \in Nat /\ k - 1 \notin Bad /\ k - 1 <= Len(log)
    <3> HIDE DEF Bad
    <3>1. k - 1 \in Nat /\ ~(k <= k - 1) /\ k - 1 <= Len(log)
      BY <1>0, <2>2
    <3> QED
      BY <2>1, <3>1
  <2>j. PICK j : j = k - 1
    OBVIOUS
  <2>4. j \in Nat /\ j + 1 = k /\ j + 1 \in 1 .. Len(log) /\ Graph(st[j], log, j)
    BY <1>0, <2>2, <2>3, <2>j
  <2>5. st[k] = ApplyEvent(st[j], log[j + 1])
    BY <1>1, <2>j, <2>4 DEF Steps
  <2> HIDE DEF Bad
  <2>6. Graph(ApplyEvent(st[j], log[j + 1]), log, j + 1)
    BY <2>4, GraphGrows
  <2> QED
    BY <2>2, <2>4, <2>5, <2>6
<1>4. Graph(st[Len(log)], log, Len(log))
  BY <1>0, <1>3
<1> QED
  BY <1>1, <1>4

-----------------------------------------------------------------------------
(* The graph of the rows. *)

\* A link is listed at its other end too, or leads from a parent, to what was
\* uploaded or to a diff.
LEMMA LinkKinds ==
    ASSUME NEW e, e.type \in EventTypes, NEW p \in LinksOf(e)
    PROVE  p[1] = e.parent \/ p[2] \in {e.item, e.id} \/ <<p[2], p[1]>> \in LinksOf(e)
<1> DEFINE Mutual(L) == \A q \in L : <<q[2], q[1]>> \in L
<1>0. Applies(e)
  BY DEF LinksOf
<1>1. CASE e.type \in {"org.created", "org.updated", "repo_context.captured", "artifact.reviewed",
                       "artifact.accepted", "external_ref.linked", "source.session_observed"}
  <2>1. LinksOf(e) = {}
    BY <1>1 DEF LinksOf
  <2> QED
    BY <2>1
<1>2. CASE e.type \in {"project.created", "project.updated", "mission.created", "mission.updated"}
  <2>1. \E c : LinksOf(e) \subseteq {<<e.parent, c>>}
    BY <1>0, <1>2 DEF LinksOf, Opt
  <2> QED
    BY <2>1
<1>b. \A a, b : Mutual(Both(a, b)) /\ Mutual({}) /\ Mutual(Opt(b, Both(a, b)))
  BY DEF Both, Opt
<1>c. \A L, K : Mutual(L) /\ Mutual(K) => Mutual(L \cup K)
  OBVIOUS
<1>3. CASE e.type \in {"session.started", "session.linked_to_mission", "artifact.created",
                       "artifact.updated", "artifact.file_ref_recorded", "artifact.linked_to_mission"}
  <2>1. \/ LinksOf(e) = Opt(e.mission, Both(e.session, e.mission))
        \/ LinksOf(e) = Both(e.session, e.mission)
        \/ LinksOf(e) = Opt(e.mission, Both(e.artifact, e.mission))
                           \cup Opt(e.session, Both(e.artifact, e.session))
        \/ LinksOf(e) = Opt(e.session, Both(e.artifact, e.session))
        \/ LinksOf(e) = Both(e.artifact, e.mission)
    BY <1>0, <1>3 DEF LinksOf
  <2> HIDE DEF Mutual
  <2>2. Mutual(LinksOf(e))
    BY <1>b, <1>c, <2>1
  <2> QED
    BY <2>2 DEF Mutual
<1>4. CASE e.type \in {"session.log_uploaded", "artifact.attachment_uploaded", "diff.captured"}
  <2>s. PICK s : s = Opt(e.session, Both(e.artifact, e.session))
    OBVIOUS
  <2>m. PICK m : m = Opt(e.mission, Both(e.artifact, e.mission))
    OBVIOUS
  <2>1. \/ LinksOf(e) = {<<e.session, e.item>>}
        \/ LinksOf(e) = {<<e.artifact, e.item>>} \cup s
        \/ LinksOf(e) = {<<e.artifact, e.id>>} \cup s \cup m
    BY <1>0, <1>4, <2>s, <2>m DEF LinksOf
  <2>2. Mutual(s) /\ Mutual(m)
    BY <1>b, <2>s, <2>m
  <2> QED
    BY <2>1, <2>2
<1> QED
  BY <1>1, <1>2, <1>3, <1>4 DEF EventTypes

\* The events of a ledger in any order.
Ordering(log, S) == LogOk(log) /\ \A e : e \in S <=> \E i \in 1 .. Len(log) : log[i] = e

LEMMA GraphOfOrdering ==
    ASSUME NEW S, NEW log, Ordering(log, S)
    PROVE  /\ RebuildServerIndex(log).nodes = UNION {NodesOf(e) : e \in S}
           /\ RebuildServerIndex(log).links = UNION {LinksOf(e) : e \in S}
           /\ InsertFiles(RebuildServerIndex(log)) = UNION {PathsOf(RefsOf(e)) : e \in S}
           /\ Stored(RebuildServerIndex(log).paths, log, Len(log))
           /\ \A n \in DOMAIN RebuildServerIndex(log).up :
                 LET p == RebuildServerIndex(log).up[n]
                 IN p \in RebuildServerIndex(log).nodes /\ <<p, n>> \in RebuildServerIndex(log).links
<1>x. PICK x : x = RebuildServerIndex(log)
  OBVIOUS
<1>1. Graph(x, log, Len(log)) /\ DOMAIN log = 1 .. Len(log)
  BY <1>x, GraphOfLog DEF Ordering, LogOk, IsSeq
<1>2. \A e : e \in S <=> \E i \in 1 .. Len(log) : log[i] = e
  BY DEF Ordering
<1>3. UNION {NodesOf(e) : e \in S} = Upto(Nodes(log), Len(log))
  <2>1. \A n : n \in Upto(Nodes(log), Len(log)) <=> \E i \in 1 .. Len(log) : n \in NodesOf(log[i])
    BY <1>1, Zenon DEF Upto, Nodes
  <2>2. \A n : n \in UNION {NodesOf(e) : e \in S} <=> \E e \in S : n \in NodesOf(e)
    BY Zenon
  <2>3. \A n : (\E e \in S : n \in NodesOf(e)) <=> \E i \in 1 .. Len(log) : n \in NodesOf(log[i])
    BY <1>2, Zenon
  <2>a. PICK A : A = Upto(Nodes(log), Len(log))
    OBVIOUS
  <2>b. PICK B : B = UNION {NodesOf(e) : e \in S}
    OBVIOUS
  <2>4. \A n : n \in A <=> n \in B
    BY <2>1, <2>2, <2>3, <2>a, <2>b, Zenon
  <2>5. A = B
    BY <2>4
  <2> QED
    BY <2>5, <2>a, <2>b
<1>4. UNION {LinksOf(e) : e \in S} = Upto(Links(log), Len(log))
  <2>1. \A n : n \in Upto(Links(log), Len(log)) <=> \E i \in 1 .. Len(log) : n \in LinksOf(log[i])
    BY <1>1, Zenon DEF Upto, Links
  <2>2. \A n : n \in UNION {LinksOf(e) : e \in S} <=> \E e \in S : n \in LinksOf(e)
    BY Zenon
  <2>3. \A n : (\E e \in S : n \in LinksOf(e)) <=> \E i \in 1 .. Len(log) : n \in LinksOf(log[i])
    BY <1>2, Zenon
  <2>a. PICK A : A = Upto(Links(log), Len(log))
    OBVIOUS
  <2>b. PICK B : B = UNION {LinksOf(e) : e \in S}
    OBVIOUS
  <2>4. \A n : n \in A <=> n \in B
    BY <2>1, <2>2, <2>3, <2>a, <2>b, Zenon
  <2>5. A = B
    BY <2>4
  <2> QED
    BY <2>5, <2>a, <2>b
<1>5. UNION {PathsOf(RefsOf(e)) : e \in S} = Upto(FileRows(log), Len(log))
  <2>1. \A n : n \in Upto(FileRows(log), Len(log)) <=> \E i \in 1 .. Len(log) : n \in PathsOf(RefsOf(log[i]))
    BY <1>1, Zenon DEF Upto, FileRows
  <2>2. \A n : n \in UNION {PathsOf(RefsOf(e)) : e \in S} <=> \E e \in S : n \in PathsOf(RefsOf(e))
    BY Zenon
  <2>3. \A n : (\E e \in S : n \in PathsOf(RefsOf(e))) <=> \E i \in 1 .. Len(log) : n \in PathsOf(RefsOf(log[i]))
    BY <1>2, Zenon
  <2>a. PICK A : A = Upto(FileRows(log), Len(log))
    OBVIOUS
  <2>b. PICK B : B = UNION {PathsOf(RefsOf(e)) : e \in S}
    OBVIOUS
  <2>4. \A n : n \in A <=> n \in B
    BY <2>1, <2>2, <2>3, <2>a, <2>b, Zenon
  <2>5. A = B
    BY <2>4
  <2> QED
    BY <2>5, <2>a, <2>b
<1>6. InsertFiles(x) = PathsOf(x.refs)
  <2>1. InsertFiles(x) = x.paths \cup PathsOf(x.refs)
    BY Zenon DEF InsertFiles, PathsOf
  <2> QED
    BY <1>1, <2>1 DEF Graph
<1> QED
  BY <1>x, <1>1, <1>3, <1>4, <1>5, <1>6 DEF Graph

LEMMA QuietRows ==
    ASSUME HistoryInv, lines = 0
    PROVE  rows \subseteq Pool /\ IsLedger(rows) /\ Ordering(Events, rows)
<1>1. rows \subseteq Pool /\ IsLedger(rows)
  BY DEF HistoryInv, QuietInv, RowsInv
<1>2. /\ IsSeq(Events) /\ \A i \in 1 .. Len(Events) : Events[i] \in rows
      /\ \A e \in rows : \E i \in 1 .. Len(Events) : Events[i] = e
  BY <1>1, EventsListed DEF Events, Lists
<1>3. \A e \in Pool : EventOk(e)
  BY ProvenanceAssumption DEF EventOk, IsSeq
<1> QED
  BY <1>1, <1>2, <1>3 DEF Ordering, LogOk

LEMMA GraphHolds == HistoryInv => GraphSound
<1> SUFFICES ASSUME HistoryInv, lines = 0
             PROVE  LET x == Build(rows) IN
                    /\ \A p \in x.links : p[1] \in Linked /\ p[2] \in Linked => <<p[2], p[1]>> \in x.links
                    /\ \A n \in DOMAIN x.up : x.up[n] \in x.nodes /\ <<x.up[n], n>> \in x.links
  BY DEF GraphSound, LinksMutual, ParentListsChild, Quiet
<1>x. PICK x : x = Build(rows)
  OBVIOUS
<1>1. rows \subseteq Pool /\ Ordering(Events, rows)
  BY QuietRows
<1>2. x = RebuildServerIndex(Events)
  BY <1>x DEF Build, RebuildServerIndex, Events
<1>3. /\ x.links = UNION {LinksOf(e) : e \in rows}
      /\ \A n \in DOMAIN x.up : x.up[n] \in x.nodes /\ <<x.up[n], n>> \in x.links
  BY <1>1, <1>2, GraphOfOrdering
<1>4. ASSUME NEW p \in x.links, p[1] \in Linked, p[2] \in Linked PROVE <<p[2], p[1]>> \in x.links
  <2>1. \A q : q \in x.links <=> \E e \in rows : q \in LinksOf(e)
    BY <1>3, Zenon
  <2>2. PICK e \in rows : p \in LinksOf(e)
    BY <2>1
  <2>3. e.type \in EventTypes /\ {e.id, e.parent, e.item} \cap Linked = {}
    BY <1>1, ProvenanceAssumption, IdsAssumption
  <2>4. <<p[2], p[1]>> \in LinksOf(e)
    BY <1>4, <2>2, <2>3, LinkKinds
  <2> QED
    BY <2>1, <2>4
<1> QED
  BY <1>x, <1>3, <1>4

\* The graph of the rows holds together from either end, for every pool.
THEOREM GraphIsSound == Spec => []GraphSound
BY GraphHolds, History, PTL


-----------------------------------------------------------------------------
(* Any order of the same events. *)

LEMMA OrderingOf ==
    ASSUME NEW S, NEW log, NEW t, Ordering(log, S), IsSeq(t),
           \A i \in 1 .. Len(t) : \E j \in 1 .. Len(log) : t[i] = log[j],
           \A j \in 1 .. Len(log) : \E i \in 1 .. Len(t) : t[i] = log[j]
    PROVE  Ordering(t, S)
BY DEF Ordering, LogOk

LEMMA Reversed ==
    ASSUME NEW S, NEW log, Ordering(log, S)
    PROVE  Ordering(Reverse(log), S)
<1>t. PICK t : t = Reverse(log)
  OBVIOUS
<1>n. PICK n : n = Len(log)
  OBVIOUS
<1>1. n \in Nat /\ DOMAIN log = 1 .. n
  BY <1>n DEF Ordering, LogOk, IsSeq
<1>2. t = [i \in 1 .. n |-> log[(n - i) + 1]]
  BY <1>t, <1>n, Zenon DEF Reverse
<1>3. IsSeq(t) /\ Len(t) = n
  BY <1>1, <1>2 DEF IsSeq
<1>4. \A i \in 1 .. n : n - i + 1 \in 1 .. n /\ n - (n - i + 1) + 1 = i
  BY <1>1
<1>5. \A i \in 1 .. n : t[i] = log[n - i + 1] /\ t[n - i + 1] = log[i]
  BY <1>1, <1>2, <1>4
<1>6. Ordering(t, S)
  BY <1>n, <1>3, <1>4, <1>5, OrderingOf
<1> QED
  BY <1>t, <1>6

LEMMA Turned ==
    ASSUME NEW S, NEW log, Ordering(log, S), log \in Seq(S), NEW k \in 0 .. Len(log)
    PROVE  Ordering(SubSeq(log, k + 1, Len(log)) \o SubSeq(log, 1, k), S)
<1>n. PICK n : n = Len(log)
  OBVIOUS
<1>t. PICK t : t = SubSeq(log, k + 1, n) \o SubSeq(log, 1, k)
  OBVIOUS
<1>1. n \in Nat /\ k \in 0 .. n
  BY <1>n
<1>2. /\ SubSeq(log, k + 1, n) \in Seq(S) /\ Len(SubSeq(log, k + 1, n)) = n - k
      /\ \A i \in 1 .. n - k : SubSeq(log, k + 1, n)[i] = log[k + i]
  BY <1>n, <1>1
<1>3. /\ SubSeq(log, 1, k) \in Seq(S) /\ Len(SubSeq(log, 1, k)) = k
      /\ \A i \in 1 .. k : SubSeq(log, 1, k)[i] = log[i]
  BY <1>n, <1>1
<1>4. /\ t \in Seq(S) /\ Len(t) = n
      /\ \A i \in 1 .. n : t[i] = IF i <= n - k THEN log[k + i] ELSE log[i - (n - k)]
  BY <1>t, <1>1, <1>2, <1>3
<1>5. IsSeq(t)
  BY <1>1, <1>4 DEF IsSeq
<1>6. \A i \in 1 .. n : \E j \in 1 .. n : t[i] = log[j]
  <2> TAKE i \in 1 .. n
  <2>1. CASE i <= n - k
    BY <1>1, <1>4, <2>1
  <2>2. CASE ~(i <= n - k)
    <3>1. i - (n - k) \in 1 .. n
      BY <1>1, <2>2
    <3> QED
      BY <1>1, <1>4, <2>2, <3>1
  <2> QED
    BY <2>1, <2>2
<1>7. \A j \in 1 .. n : \E i \in 1 .. n : t[i] = log[j]
  <2> TAKE j \in 1 .. n
  <2>1. CASE j <= k
    <3>1. j + (n - k) \in 1 .. n /\ ~(j + (n - k) <= n - k) /\ j + (n - k) - (n - k) = j
      BY <1>1, <2>1
    <3>2. t[j + (n - k)] = log[j]
      BY <1>4, <3>1
    <3> QED
      BY <3>1, <3>2
  <2>2. CASE ~(j <= k)
    <3>1. j - k \in 1 .. n /\ j - k <= n - k /\ k + (j - k) = j
      BY <1>1, <2>2
    <3> QED
      BY <1>4, <3>1
  <2> QED
    BY <2>1, <2>2
<1>8. Ordering(t, S)
  BY <1>n, <1>4, <1>5, <1>6, <1>7, OrderingOf
<1> QED
  BY <1>n, <1>t, <1>8

IsUpload(e) == Applies(e) /\ e.type \in Uploads
IsDiff(e) == Applies(e) /\ e.type = "diff.captured"
IsReference(e) == Applies(e) /\ e.type = "artifact.file_ref_recorded"
Row(e) == FileRef(e, e.item, e.files[1].path)

LEMMA RowsMade ==
    ASSUME NEW e
    PROVE  /\ IsReference(e) => Len(RefsOf(e)) = 1 /\ RefsOf(e)[1] = Row(e)
           /\ IsDiff(e) => \A j \in DOMAIN e.files : RefsOf(e)[j].ref = e.id
           /\ IsDiff(e) => DOMAIN RefsOf(e) = DOMAIN e.files
           /\ ~IsReference(e) /\ ~IsDiff(e) => RefsOf(e) = <<>>
           /\ Row(e).ref = e.item
<1>1. ASSUME IsReference(e) PROVE RefsOf(e) = <<Row(e)>>
  BY <1>1 DEF IsReference, RefsOf, Row
<1>2. ASSUME IsDiff(e) PROVE RefsOf(e) = [i \in DOMAIN e.files |-> FileRef(e, e.id, e.files[i].path)]
  BY <1>2 DEF IsDiff, RefsOf
<1>3. ASSUME ~IsReference(e), ~IsDiff(e) PROVE RefsOf(e) = <<>>
  BY <1>3 DEF IsReference, IsDiff, RefsOf
<1>4. \A path, ref : FileRef(e, ref, path).ref = ref
  BY DEF FileRef
<1>5. Row(e).ref = e.item
  BY <1>4 DEF Row
<1> QED
  BY <1>1, <1>2, <1>3, <1>4, <1>5

Changer(e) == IsReference(e) \/ IsDiff(e)

LEMMA ChangesOf ==
    \A q : q \in Changes <=> \E e \in rows : Changer(e) /\ \E i \in DOMAIN e.files : q = <<e, i>>
<1>1. \A e : Changer(e) <=> e.type \in {"artifact.file_ref_recorded", "diff.captured"} /\ Applies(e)
  BY DEF Changer, IsReference, IsDiff
<1>D. PICK D : D = {d \in rows : d.type \in {"artifact.file_ref_recorded", "diff.captured"} /\ Applies(d)}
  OBVIOUS
<1>F. PICK F : F = [e \in D |-> {<<e, i>> : i \in DOMAIN e.files}]
  OBVIOUS
<1>2. Changes = UNION {F[e] : e \in D}
  <2>1. \A e \in D : F[e] = {<<e, i>> : i \in DOMAIN e.files}
    BY <1>F
  <2>2. Changes = UNION {{<<e, i>> : i \in DOMAIN e.files} : e \in D}
    BY <1>D, Zenon DEF Changes
  <2>3. {{<<e, i>> : i \in DOMAIN e.files} : e \in D} = {F[e] : e \in D}
    BY <2>1, Zenon
  <2> QED
    BY <2>2, <2>3, Zenon
<1>3. \A q : q \in Changes <=> \E e \in D : q \in F[e]
  BY <1>2, Zenon
<1>4. \A e \in D : \A q : q \in F[e] <=> \E i \in DOMAIN e.files : q = <<e, i>>
  BY <1>F, Zenon
<1>5. \A e : e \in D <=> e \in rows /\ Changer(e)
  BY <1>1, <1>D, Zenon
<1>6. ASSUME NEW q \in Changes
      PROVE  \E e \in rows : Changer(e) /\ \E i \in DOMAIN e.files : q = <<e, i>>
  <2>1. PICK e \in D : q \in F[e]
    BY <1>3
  <2> QED
    BY <1>4, <1>5, <2>1
<1>7. ASSUME NEW e \in rows, Changer(e), NEW i \in DOMAIN e.files
      PROVE  <<e, i>> \in Changes
  <2>1. e \in D /\ <<e, i>> \in F[e]
    BY <1>4, <1>5, <1>7
  <2> QED
    BY <1>3, <2>1
<1> QED
  BY <1>6, <1>7, Zenon

LEMMA ChangePaths ==
    ASSUME NEW e, EventOk(e), IsReference(e) => Len(e.files) = 1, NEW p
    PROVE  p \in PathsOf(RefsOf(e))
             <=> Changer(e) /\ \E i \in DOMAIN e.files : p = <<e.artifact, e.files[i].path>>
<1>1. \A ref, path : FileRef(e, ref, path).artifact = e.artifact /\ FileRef(e, ref, path).path = path
  BY DEF FileRef
<1>2. \A refs : p \in PathsOf(refs) <=> \E i \in DOMAIN refs : p = <<refs[i].artifact, refs[i].path>>
  BY Zenon DEF PathsOf
<1>3. CASE IsReference(e)
  <2>0. Len(e.files) = 1
    BY <1>3, Zenon
  <2>1. DOMAIN e.files = {1}
    BY <2>0 DEF EventOk, IsSeq
  <2>2. RefsOf(e) = <<FileRef(e, e.item, e.files[1].path)>>
    BY <1>3 DEF IsReference, RefsOf
  <2>3. DOMAIN RefsOf(e) = {1} /\ RefsOf(e)[1] = FileRef(e, e.item, e.files[1].path)
    BY <2>2
  <2> QED
    BY <1>1, <1>2, <1>3, <2>1, <2>3 DEF Changer
<1>4. CASE IsDiff(e)
  <2>1. RefsOf(e) = [i \in DOMAIN e.files |-> FileRef(e, e.id, e.files[i].path)]
    BY <1>4 DEF IsDiff, RefsOf
  <2>2. DOMAIN RefsOf(e) = DOMAIN e.files
    BY <2>1
  <2>3. \A i \in DOMAIN e.files : RefsOf(e)[i].artifact = e.artifact /\ RefsOf(e)[i].path = e.files[i].path
    BY <1>1, <2>1
  <2> QED
    BY <1>2, <1>4, <2>2, <2>3 DEF Changer
<1>5. CASE ~Changer(e)
  <2>1. RefsOf(e) = <<>>
    BY <1>5, RowsMade DEF Changer
  <2>2. DOMAIN RefsOf(e) = {}
    BY <2>1
  <2> QED
    BY <1>2, <1>5, <2>2
<1> QED
  BY <1>3, <1>4, <1>5 DEF Changer

\* Only what Makes names gives an artifact its entry.
LEMMA MakesEntry ==
    ASSUME NEW e \in Pool, NEW d \in Pool, NEW a, a = d.artifact, a # None
    PROVE  a \in NodesOf(e) <=> Makes(e, a)
<1>1. /\ a \in Artifacts /\ a \in Linked
      /\ a \notin {e.parent, e.org, e.project, e.mission, e.session}
  BY IdsAssumption
<1>2. e.type \in EventTypes
  BY ProvenanceAssumption
<1>3. CASE ~Applies(e)
  BY <1>3 DEF NodesOf, Makes
<1>4. CASE Applies(e) /\ e.type \in {"artifact.created", "artifact.updated", "diff.captured",
                   "artifact.linked_to_mission", "artifact.attachment_uploaded"}
  BY <1>1, <1>4 DEF NodesOf, Makes, Opt
<1>5. CASE Applies(e) /\ e.type = "artifact.file_ref_recorded"
  BY <1>1, <1>5 DEF NodesOf, Makes, Opt
<1>6. CASE Applies(e) /\ e.type \notin {"artifact.created", "artifact.updated", "diff.captured",
         "artifact.linked_to_mission", "artifact.attachment_uploaded", "artifact.file_ref_recorded"}
  <2>1. ~Makes(e, a)
    BY <1>6 DEF Makes
  <2>2. a \notin NodesOf(e)
    BY <1>1, <1>2, <1>6 DEF NodesOf, Opt, EventTypes
  <2> QED
    BY <2>1, <2>2
<1> QED
  BY <1>3, <1>4, <1>5, <1>6

\* The paths that entries take from a log are those of the changes not early in it.
LEMMA PathsStored ==
    ASSUME rows \subseteq Pool, NEW log, Ordering(log, rows), NEW paths,
           Stored(paths, log, Len(log))
    PROVE  paths = {<<c[1].artifact, c[1].files[c[2]].path>> :
                      c \in {d \in Changes : \E i \in DOMAIN log : log[i] = d[1] /\ ~Early(log, i)}}
<1>n. PICK n : n = Len(log)
  OBVIOUS
<1>0. n \in Nat /\ DOMAIN log = 1 .. n
  BY <1>n DEF Ordering, LogOk, IsSeq
<1>1. /\ \A i \in 1 .. n : log[i] \in rows /\ log[i] \in Pool
      /\ \A e \in rows : \E i \in 1 .. n : log[i] = e
  BY <1>n DEF Ordering
<1>2. \A e \in Pool : EventOk(e) /\ (IsReference(e) => Len(e.files) = 1)
  BY ProvenanceAssumption DEF EventOk, IsSeq, IsReference
<1>3. ASSUME NEW i \in 1 .. n, Changer(log[i])
      PROVE  /\ Early(log, i) => StoredAt(log, i) = {}
             /\ ~Early(log, i) => StoredAt(log, i) = PathsOf(RefsOf(log[i]))
  <2>e. PICK e : e = log[i]
    OBVIOUS
  <2>a. PICK a : a = e.artifact
    OBVIOUS
  <2>N. PICK N : N = Upto(Nodes(log), i - 1)
    OBVIOUS
  <2>1. StoredAt(log, i) = StoredOf(N, e)
    BY <2>e, <2>N DEF StoredAt
  <2>2. CASE IsDiff(e)
    BY <2>1, <2>2, <2>e DEF IsDiff, Early, StoredOf
  <2>3. CASE IsReference(e)
    <3>1. a # None /\ e \in Pool
      BY <1>1, <2>3, <2>a, <2>e DEF IsReference, Applies, Needed
    <3>2. \A j \in 1 .. (i - 1) : j \in 1 .. n /\ log[j] \in Pool
      BY <1>0, <1>1
    <3>3. \A j \in 1 .. (i - 1) : a \in NodesOf(log[j]) <=> Makes(log[j], a)
      BY <2>a, <3>1, <3>2, MakesEntry, Zenon
    <3>4. a \in N <=> \E j \in 1 .. (i - 1) : a \in NodesOf(log[j])
      <4>1. \A j \in 1 .. (i - 1) : Nodes(log)[j] = NodesOf(log[j])
        BY <1>0, <3>2, Zenon DEF Nodes
      <4>2. a \in N <=> \E j \in 1 .. (i - 1) : a \in Nodes(log)[j]
        BY <2>N, Zenon DEF Upto
      <4> QED
        BY <4>1, <4>2, Zenon
    <3>5. Early(log, i) <=> a \notin N
      BY <2>3, <2>a, <2>e, <3>3, <3>4, Zenon DEF Early, IsReference
    <3>6. StoredOf(N, e) = IF a \in N THEN PathsOf(RefsOf(e)) ELSE {}
      BY <2>3, <2>a DEF StoredOf, IsReference
    <3> QED
      BY <2>1, <2>e, <3>5, <3>6
  <2> QED
    BY <1>3, <2>2, <2>3, <2>e DEF Changer
<1>4. ASSUME NEW i \in 1 .. n, ~Changer(log[i]) PROVE StoredAt(log, i) = {}
  BY <1>4 DEF StoredAt, StoredOf, Changer, IsReference, IsDiff
<1>5. \A i \in 1 .. n : \A p : p \in PathsOf(RefsOf(log[i]))
         <=> Changer(log[i]) /\ \E k \in DOMAIN log[i].files : p = <<log[i].artifact, log[i].files[k].path>>
  BY <1>1, <1>2, ChangePaths, Zenon
<1>W. PICK W : W = {d \in Changes : \E i \in DOMAIN log : log[i] = d[1] /\ ~Early(log, i)}
  OBVIOUS
<1>Q. PICK Q : Q = {<<c[1].artifact, c[1].files[c[2]].path>> : c \in W}
  OBVIOUS
<1>6. \A c : c \in W <=> c \in Changes /\ \E i \in 1 .. n : log[i] = c[1] /\ ~Early(log, i)
  BY <1>0, <1>W, Zenon
<1>7. ASSUME NEW p \in paths PROVE p \in Q
  <2>1. PICK i \in 1 .. n : p \in StoredAt(log, i)
    BY <1>n DEF Stored
  <2>2. Changer(log[i]) /\ ~Early(log, i) /\ p \in PathsOf(RefsOf(log[i]))
    BY <1>3, <1>4, <2>1
  <2>3. PICK k \in DOMAIN log[i].files : p = <<log[i].artifact, log[i].files[k].path>>
    BY <1>5, <2>2
  <2>c. PICK c : c = <<log[i], k>>
    OBVIOUS
  <2>4. c \in Changes /\ c[1] = log[i] /\ c[2] = k
    BY <1>1, <2>2, <2>c, ChangesOf
  <2>5. c \in W
    BY <1>6, <2>2, <2>4
  <2>6. p = <<c[1].artifact, c[1].files[c[2]].path>>
    BY <2>3, <2>4
  <2> QED
    BY <1>Q, <2>5, <2>6
<1>8. ASSUME NEW p \in Q PROVE p \in paths
  <2>1. PICK c \in W : p = <<c[1].artifact, c[1].files[c[2]].path>>
    BY <1>Q
  <2>2. PICK i \in 1 .. n : log[i] = c[1] /\ ~Early(log, i)
    BY <1>6
  <2>3. PICK e \in rows : Changer(e) /\ \E k \in DOMAIN e.files : c = <<e, k>>
    BY <1>6, ChangesOf
  <2>4. PICK k \in DOMAIN e.files : c = <<e, k>>
    BY <2>3
  <2>5. e = log[i] /\ c[2] = k
    BY <2>2, <2>4
  <2>6. p \in PathsOf(RefsOf(log[i]))
    BY <1>5, <2>1, <2>2, <2>3, <2>4, <2>5
  <2>7. p \in StoredAt(log, i)
    BY <1>3, <2>2, <2>3, <2>5, <2>6
  <2> QED
    BY <1>n, <2>7 DEF Stored
<1>9. paths = Q
  BY <1>7, <1>8
<1> QED
  BY <1>9, <1>Q, <1>W

LEMMA OrderHolds == HistoryInv => OrderMovesOnlyPaths
<1> SUFFICES ASSUME HistoryInv, lines = 0
             PROVE  OrderMovesOnlyPaths
  BY DEF OrderMovesOnlyPaths, Quiet
<1>1. rows \subseteq Pool /\ IsLedger(rows) /\ Ordering(Events, rows)
  BY QuietRows
<1>2. Events \in Seq(rows)
  BY <1>1, EventsListed DEF Events, Lists, IsLedger
<1>3. Build(rows) = RebuildServerIndex(Events)
  BY DEF Build, RebuildServerIndex, Events
<1>4. ASSUME NEW log, Ordering(log, rows)
      PROVE  /\ RebuildServerIndex(log).nodes = Build(rows).nodes
             /\ RebuildServerIndex(log).links = Build(rows).links
             /\ InsertFiles(RebuildServerIndex(log)) = InsertFiles(Build(rows))
             /\ RebuildServerIndex(log).paths = {<<c[1].artifact, c[1].files[c[2]].path>> :
                      c \in {d \in Changes : \E i \in DOMAIN log : log[i] = d[1] /\ ~Early(log, i)}}
  <2>1. /\ RebuildServerIndex(log).nodes = UNION {NodesOf(e) : e \in rows}
        /\ RebuildServerIndex(log).links = UNION {LinksOf(e) : e \in rows}
        /\ InsertFiles(RebuildServerIndex(log)) = UNION {PathsOf(RefsOf(e)) : e \in rows}
        /\ Stored(RebuildServerIndex(log).paths, log, Len(log))
    BY <1>4, GraphOfOrdering, Zenon
  <2>2. /\ RebuildServerIndex(Events).nodes = UNION {NodesOf(e) : e \in rows}
        /\ RebuildServerIndex(Events).links = UNION {LinksOf(e) : e \in rows}
        /\ InsertFiles(RebuildServerIndex(Events)) = UNION {PathsOf(RefsOf(e)) : e \in rows}
    BY <1>1, GraphOfOrdering, Zenon
  <2>3. RebuildServerIndex(log).paths = {<<c[1].artifact, c[1].files[c[2]].path>> :
                      c \in {d \in Changes : \E i \in DOMAIN log : log[i] = d[1] /\ ~Early(log, i)}}
    <3>a. PICK paths : paths = RebuildServerIndex(log).paths
      OBVIOUS
    <3>1. Stored(paths, log, Len(log))
      BY <2>1, <3>a
    <3> QED
      BY <1>1, <1>4, <3>a, <3>1, PathsStored, Zenon
  <2> QED
    BY <1>3, <2>1, <2>2, <2>3, Zenon
<1>5. Ordering(Reverse(Events), rows)
  BY <1>1, Reversed
<1>6. \A k \in 0 .. Len(Events) :
         Ordering(SubSeq(Events, k + 1, Len(Events)) \o SubSeq(Events, 1, k), rows)
  BY <1>1, <1>2, Turned, Zenon
<1>7. \A log \in {Reverse(Events)} \cup
                 {SubSeq(Events, k + 1, Len(Events)) \o SubSeq(Events, 1, k) : k \in 0 .. Len(Events)} :
         Ordering(log, rows)
  BY <1>5, <1>6, Zenon
<1> QED
  BY <1>4, <1>7, Zenon DEF OrderMovesOnlyPaths, Quiet

\* Whatever order the events are folded in, the entries, links and rows of
\* artifact_files are the same, and an artifact's stored file_paths lack just
\* the paths of references folded before anything made its entry
\* (index.rs apply_artifact_file_ref).
THEOREM OrderIsKnown == Spec => []OrderMovesOnlyPaths
BY OrderHolds, History, PTL

-----------------------------------------------------------------------------
(* Newest first. *)

\* The places of s in that order.
ByTime(s) ==
    Sorted(DOMAIN s, LAMBDA i, j : \/ s[i].at > s[j].at
                                   \/ s[i].at = s[j].at /\ i < j)
NewerOn(s) ==
    {p \in (DOMAIN s) \X (DOMAIN s) : \/ s[p[1]].at > s[p[2]].at
                                      \/ s[p[1]].at = s[p[2]].at /\ p[1] < p[2]}

\* t has the members of s in the order of the places p, the newest first.
IsNewestFirst(t, s, p) ==
    /\ IsSeq(t) /\ Len(t) = Len(s)
    /\ p \in [1 .. Len(s) -> 1 .. Len(s)]
    /\ \A k \in 1 .. Len(s) : t[k] = s[p[k]]
    /\ \A i \in 1 .. Len(s) : \E k \in 1 .. Len(s) : p[k] = i
    /\ \A j, k \in 1 .. Len(s) : j # k => p[j] # p[k]
    /\ \A j, k \in 1 .. Len(s) : j < k => t[j].at >= t[k].at

LEMMA NewestFirst ==
    ASSUME NEW s, IsSeq(s), \A i \in 1 .. Len(s) : s[i].at \in Int
    PROVE  \E p : IsNewestFirst(NewerFirst(s), s, p)
<1>t. PICK t : t = NewerFirst(s)
  OBVIOUS
<1>d. PICK D : D = DOMAIN s
  OBVIOUS
<1> DEFINE n == Len(s)
           R == NewerOn(s)
           Less(i, j) == \/ s[i].at > s[j].at
                         \/ s[i].at = s[j].at /\ i < j
<1>p. PICK p : p = [k \in 1 .. n |-> CHOOSE x \in D : Cardinality({y \in D : Less(y, x)}) = k - 1]
  OBVIOUS
<1>1. D = 1 .. n /\ n \in Nat /\ IsFiniteSet(D) /\ Cardinality(D) = n
  BY <1>d, FS_Interval DEF IsSeq
<1>2. \A x, y \in D : <<x, y>> \in R <=> Less(x, y)
  BY <1>d DEF NewerOn
<1>3. IsOrder(R, D)
  <2>1. \A x \in D : ~Less(x, x)
    BY <1>1
  <2>2. \A x, y \in D : x # y => Less(x, y) \/ Less(y, x)
    BY <1>1
  <2>3. \A x, y, z \in D : Less(x, y) /\ Less(y, z) => Less(x, z)
    BY <1>1
  <2> HIDE DEF R, Less
  <2> QED
    BY <1>2, <2>1, <2>2, <2>3, Zenon DEF IsOrder
<1>4. ASSUME NEW x \in D PROVE {y \in D : Less(y, x)} = Below(R, D, x)
  BY <1>2, Zenon DEF Below
<1>5. ASSUME NEW k \in 1 .. n PROVE p[k] \in D /\ Cardinality(Below(R, D, p[k])) = k - 1
  <2>1. \E x \in D : Cardinality({y \in D : Less(y, x)}) = k - 1
    <3>1. PICK x \in D : Cardinality(Below(R, D, x)) = k - 1
      BY <1>1, <1>3, PlaceTaken
    <3> QED
      BY <1>4, <3>1, Zenon
  <2>2. p[k] = CHOOSE x \in D : Cardinality({y \in D : Less(y, x)}) = k - 1
    BY <1>p
  <2>3. p[k] \in D /\ Cardinality({y \in D : Less(y, p[k])}) = k - 1
    BY <2>1, <2>2, Zenon
  <2> QED
    BY <1>4, <2>3
<1>6. p = [k \in 1 .. Cardinality(D) |-> p[k]]
  <2>1. p = [k \in 1 .. n |-> p[k]]
    <3> DEFINE g(k) == CHOOSE x \in D : Cardinality({y \in D : Less(y, x)}) = k - 1
    <3>1. p = [k \in 1 .. n |-> g(k)]
      BY <1>p, Zenon
    <3> HIDE DEF g
    <3> QED
      BY <3>1
  <2> QED
    BY <1>1, <2>1
<1>7. Lists(p, D, R)
  <2> HIDE DEF R
  <2> QED
    BY <1>1, <1>3, <1>5, <1>6, PlacedIsListed
<1>8. t = [k \in D |-> s[p[k]]]
  <2>1. t = [k \in DOMAIN s |-> s[ByTime(s)[k]]]
    BY <1>t DEF NewerFirst, ByTime
  <2>2. ByTime(s) = [k \in 1 .. Cardinality(DOMAIN s) |->
                       CHOOSE x \in DOMAIN s : Cardinality({y \in DOMAIN s : Less(y, x)}) = k - 1]
    BY DEF ByTime, Sorted
  <2>3. ByTime(s) = p
    BY <1>p, <1>d, <1>1, <2>2, Zenon
  <2> QED
    BY <1>d, <2>1, <2>3
<1>9. IsSeq(t) /\ Len(t) = n /\ \A k \in 1 .. n : t[k] = s[p[k]]
  BY <1>1, <1>8 DEF IsSeq
<1>10. /\ p \in [1 .. n -> 1 .. n]
       /\ \A i \in 1 .. n : \E k \in 1 .. n : p[k] = i
       /\ \A i, j \in 1 .. n : i < j <=> Less(p[i], p[j])
  BY <1>1, <1>2, <1>7 DEF Lists
<1>11. \A j, k \in 1 .. n : j # k => p[j] # p[k]
  <2> SUFFICES ASSUME NEW j \in 1 .. n, NEW k \in 1 .. n, j # k, p[j] = p[k] PROVE FALSE
    OBVIOUS
  <2>1. j < k \/ k < j
    BY <1>1
  <2>2. Less(p[j], p[j])
    BY <1>10, <2>1
  <2>3. p[j] \in 1 .. n
    BY <1>10
  <2>4. p[j] \in Int /\ s[p[j]].at \in Int
    BY <1>1, <2>3
  <2> QED
    BY <2>2, <2>4
<1>12. \A j, k \in 1 .. n : j < k => t[j].at >= t[k].at
  <2> SUFFICES ASSUME NEW j \in 1 .. n, NEW k \in 1 .. n, j < k PROVE t[j].at >= t[k].at
    OBVIOUS
  <2>1. Less(p[j], p[k])
    BY <1>10
  <2>2. s[p[j]].at \in Int /\ s[p[k]].at \in Int
    BY <1>10
  <2> QED
    BY <1>9, <2>1, <2>2
<1>13. IsNewestFirst(t, s, p)
  BY <1>9, <1>10, <1>11, <1>12, Zenon DEF IsNewestFirst
<1> QED
  BY <1>t, <1>13, Zenon

-----------------------------------------------------------------------------
(* The first of each kind. *)

Firsts(K) == {i \in DOMAIN K : \A j \in 1 .. (i - 1) : K[j] # K[i]}

LEMMA FirstOfKind ==
    ASSUME NEW K, IsSeq(K)
    PROVE  /\ Firsts(K) \in SUBSET (DOMAIN K)
           /\ \A i \in 1 .. Len(K) : \E j \in Firsts(K) : j <= i /\ K[j] = K[i]
           /\ \A i, j \in Firsts(K) : K[i] = K[j] => i = j
<1>n. PICK n : n = Len(K)
  OBVIOUS
<1>1. n \in Nat /\ DOMAIN K = 1 .. n
  BY <1>n DEF IsSeq
<1>2. ASSUME NEW i \in 1 .. n PROVE \E j \in Firsts(K) : j <= i /\ K[j] = K[i]
  <2> DEFINE S == {j \in 1 .. n : K[j] = K[i]}
  <2>1. S \in SUBSET Nat /\ S # {}
    BY <1>1
  <2>2. PICK j \in S : \A m \in S : j <= m
    BY <2>1, LeastElement
  <2>3. j \in 1 .. n /\ K[j] = K[i] /\ j <= i
    BY <2>2
  <2>4. \A m \in 1 .. (j - 1) : K[m] # K[j]
    BY <1>1, <2>2, <2>3
  <2>5. j \in Firsts(K)
    BY <1>1, <2>3, <2>4 DEF Firsts
  <2> QED
    BY <2>3, <2>5
<1>3. \A i, j \in Firsts(K) : K[i] = K[j] => i = j
  <2> SUFFICES ASSUME NEW i \in Firsts(K), NEW j \in Firsts(K), K[i] = K[j], i # j PROVE FALSE
    OBVIOUS
  <2>1. i \in 1 .. n /\ j \in 1 .. n
    BY <1>1 DEF Firsts
  <2>2. i \in 1 .. (j - 1) \/ j \in 1 .. (i - 1)
    BY <1>1, <2>1
  <2> QED
    BY <2>2 DEF Firsts
<1> QED
  BY <1>n, <1>1, <1>2, <1>3 DEF Firsts

\* t has the members of s at the places of I, in their order.
IsSelected(t, s, I, q) ==
    /\ IsSeq(t) /\ Len(t) = Cardinality(I)
    /\ q \in [1 .. Len(t) -> I]
    /\ \A k \in 1 .. Len(t) : t[k] = s[q[k]]
    /\ \A i \in I : \E k \in 1 .. Len(t) : q[k] = i
    /\ \A j, k \in 1 .. Len(t) : j < k <=> q[j] < q[k]

LEMMA Selected ==
    ASSUME NEW s, IsSeq(s), NEW I \in SUBSET (DOMAIN s)
    PROVE  IsSelected(At(s, I), s, I, InOrder(I))
<1>q. PICK q : q = InOrder(I)
  OBVIOUS
<1>n. PICK n : n = Cardinality(I)
  OBVIOUS
<1>t. PICK t : t = At(s, I)
  OBVIOUS
<1>1. IsFiniteSet(I) /\ I \subseteq Int
  <2>1. IsFiniteSet(I) /\ DOMAIN s = 1 .. Len(s)
    BY AtPlaces DEF IsSeq
  <2> QED
    BY <2>1
<1>2. Lists(q, I, LessOn(I))
  BY <1>1, <1>q, InOrderLists
<1>3. IsSeq(t) /\ Len(t) = n
  BY <1>t, <1>n, AtPlaces, Zenon
<1>4. /\ q \in [1 .. n -> I] /\ \A i \in I : \E k \in 1 .. n : q[k] = i
      /\ \A j, k \in 1 .. n : j < k <=> q[j] < q[k]
  BY <1>2, <1>n DEF Lists, LessOn
<1>5. \A k \in 1 .. n : t[k] = s[q[k]]
  BY <1>t, <1>q, <1>4 DEF At
<1>6. IsSelected(t, s, I, q)
  BY <1>n, <1>3, <1>4, <1>5, Zenon DEF IsSelected
<1> QED
  BY <1>q, <1>t, <1>6

Touching(e, rel) ==
    \/ e.type = "diff.captured" /\ DiffEventTouches(e, rel)
    \/ e.type = "source.session_observed" /\ SourceSessionEventTouches(e, rel)
TouchedIn(evs, rel) == {i \in DOMAIN evs : Touching(evs[i], rel)}
Stamped(hits) == [i \in DOMAIN hits |-> [at |-> hits[i].occurred, of |-> hits[i]]]

\* What touches a file: events, the newest first.
LEMMA HitsListed ==
    ASSUME NEW S, IsLedger(S), NEW rel
    PROVE  LET h == ResolveFileAnchor(ReadEvents(S), rel)
           IN /\ IsSeq(h) /\ \A i \in 1 .. Len(h) : h[i] \in S
              /\ \A i, j \in 1 .. Len(h) : i <= j => h[i].occurred >= h[j].occurred
<1>e. PICK evs : evs = ReadEvents(S)
  OBVIOUS
<1>h. PICK h : h = ResolveFileAnchor(ReadEvents(S), rel)
  OBVIOUS
<1>a. PICK hits : hits = At(evs, TouchedIn(evs, rel))
  OBVIOUS
<1>s. PICK s : s = Stamped(hits)
  OBVIOUS
<1>o. PICK o : o = NewerFirst(s)
  OBVIOUS
<1>1. IsSeq(evs) /\ \A i \in 1 .. Len(evs) : evs[i] \in S
  BY <1>e, EventsListed DEF Lists
<1>2. h = [i \in DOMAIN o |-> o[i].of]
  <2>1. hits = Select(evs, LAMBDA e : \/ e.type = "diff.captured" /\ DiffEventTouches(e, rel)
                                      \/ /\ e.type = "source.session_observed"
                                         /\ SourceSessionEventTouches(e, rel))
    BY <1>a DEF Select, At, TouchedIn, Touching
  <2> QED
    BY <1>h, <1>e, <1>s, <1>o, <2>1 DEF ResolveFileAnchor, Stamped
<1>3. /\ IsSeq(hits) /\ \A k \in 1 .. Len(hits) : hits[k] \in S
  <2>1. TouchedIn(evs, rel) \in SUBSET (DOMAIN evs)
    BY DEF TouchedIn
  <2>2. PICK q : IsSelected(hits, evs, TouchedIn(evs, rel), q)
    BY <1>1, <1>a, <2>1, Selected, Zenon
  <2> QED
    BY <1>1, <2>1, <2>2 DEF IsSeq, IsSelected
<1>4. /\ IsSeq(s) /\ Len(s) = Len(hits)
      /\ \A i \in 1 .. Len(hits) : s[i].at = hits[i].occurred /\ s[i].of = hits[i]
  BY <1>3, <1>s DEF IsSeq, Stamped
<1>5. \A i \in 1 .. Len(s) : s[i].at \in Int
  BY <1>3, <1>4 DEF IsLedger
<1>6. PICK p : IsNewestFirst(o, s, p)
  BY <1>4, <1>5, <1>o, NewestFirst
<1>7. /\ IsSeq(h) /\ Len(h) = Len(s)
      /\ \A i \in 1 .. Len(h) : h[i] = hits[p[i]] /\ h[i].occurred = o[i].at /\ p[i] \in 1 .. Len(hits)
  <2>1. IsSeq(o) /\ Len(o) = Len(s) /\ \A i \in 1 .. Len(s) : p[i] \in 1 .. Len(s) /\ o[i] = s[p[i]]
    BY <1>6 DEF IsNewestFirst
  <2>2. IsSeq(h) /\ Len(h) = Len(s) /\ \A i \in 1 .. Len(s) : h[i] = o[i].of
    BY <1>2, <2>1 DEF IsSeq
  <2> QED
    BY <1>4, <2>1, <2>2
<1>8. \A i \in 1 .. Len(h) : h[i] \in S /\ h[i].occurred \in Int
  BY <1>3, <1>7 DEF IsLedger
<1>9. \A i, j \in 1 .. Len(h) : i <= j => h[i].occurred >= h[j].occurred
  <2> SUFFICES ASSUME NEW i \in 1 .. Len(h), NEW j \in 1 .. Len(h), i <= j
               PROVE  h[i].occurred >= h[j].occurred
    OBVIOUS
  <2>1. CASE i = j
    BY <1>8, <2>1
  <2>2. CASE i < j
    <3>1. \A k, m \in 1 .. Len(s) : k < m => o[k].at >= o[m].at
      BY <1>6, Zenon DEF IsNewestFirst
    <3> QED
      BY <1>7, <2>2, <3>1
  <2>3. Len(h) \in Nat
    BY <1>7 DEF IsSeq
  <2> QED
    BY <2>1, <2>2, <2>3
<1> QED
  BY <1>h, <1>7, <1>8, <1>9

Identities(h) == [i \in DOMAIN h |-> ExplainStepIdentity(h[i])]
StepLimit(depth) == (IF depth < MaxExplainDepth THEN depth ELSE MaxExplainDepth) + 1

\* The steps are of the first events of each identity, in their order, up to
\* the limit.
IsExplained(out, h, titles, depth, q) ==
    LET n == Cardinality(Firsts(Identities(h)))
        m == IF n < StepLimit(depth) THEN n ELSE StepLimit(depth)
    IN /\ n \in Nat /\ m \in Nat /\ m <= n
       /\ q \in [1 .. n -> Firsts(Identities(h))]
       /\ \A i \in Firsts(Identities(h)) : \E k \in 1 .. n : q[k] = i
       /\ \A j, k \in 1 .. n : j < k <=> q[j] < q[k]
       /\ IsSeq(out.steps) /\ Len(out.steps) = m
       /\ out.steps = [k \in 1 .. m |-> out.steps[k]]
       /\ \A k \in 1 .. m : out.steps[k] = BuildStep(h[q[k]], titles)
       /\ out.truncated = (n > StepLimit(depth))

LEMMA Explained ==
    ASSUME NEW h, IsSeq(h), NEW evs, NEW depth \in Nat
    PROVE  \E q : IsExplained(ExplainFromEvents(evs, h, depth), h, MissionTitles(evs), depth, q)
<1>K. PICK K : K = Identities(h)
  OBVIOUS
<1>F. PICK F : F = Firsts(K)
  OBVIOUS
<1>q. PICK q : q = InOrder(F)
  OBVIOUS
<1>n. PICK n : n = Cardinality(F)
  OBVIOUS
<1>L. PICK L : L = StepLimit(depth)
  OBVIOUS
<1>o. PICK out : out = ExplainFromEvents(evs, h, depth)
  OBVIOUS
<1>t. PICK titles : titles = MissionTitles(evs)
  OBVIOUS
<1>1. IsSeq(K) /\ Len(K) = Len(h) /\ DOMAIN K = DOMAIN h
  BY <1>K DEF Identities, IsSeq
<1>2. F \in SUBSET (DOMAIN K)
  BY <1>1, <1>F, FirstOfKind
<1>3. IsSeq(At(K, F)) /\ Len(At(K, F)) = n
  BY <1>1, <1>2, <1>n, AtPlaces, Zenon
<1>4. /\ q \in [1 .. n -> F] /\ \A i \in F : \E k \in 1 .. n : q[k] = i
      /\ \A j, k \in 1 .. n : j < k <=> q[j] < q[k]
  <2>1. IsSelected(At(K, F), K, F, q)
    BY <1>1, <1>2, <1>q, Selected
  <2> QED
    BY <1>3, <2>1, Zenon DEF IsSelected
<1>5. n \in Nat /\ L \in Nat
  BY <1>3, <1>L DEF IsSeq, StepLimit, MaxExplainDepth
<1>6. Len(q) = n
  BY <1>4, <1>5
<1>7. F = {i \in DOMAIN h : \A j \in 1 .. (i - 1) : ExplainStepIdentity(h[j]) # ExplainStepIdentity(h[i])}
  <2>1. \A i \in DOMAIN h : \A j \in 1 .. (i - 1) :
           K[j] = ExplainStepIdentity(h[j]) /\ K[i] = ExplainStepIdentity(h[i])
    BY <1>K DEF Identities, IsSeq
  <2> QED
    BY <1>1, <1>F, <2>1 DEF Firsts
<1>m. PICK m : m = IF n < L THEN n ELSE L
  OBVIOUS
<1>8. /\ out.steps = [k \in 1 .. m |-> BuildStep(h[q[k]], titles)]
      /\ out.truncated = (n > L)
  <2>1. out = [steps |-> [k \in 1 .. (IF Len(q) < L THEN Len(q) ELSE L) |-> BuildStep(h[q[k]], titles)],
               truncated |-> Len(q) > L]
    BY <1>o, <1>q, <1>7, <1>L, <1>t DEF ExplainFromEvents, StepLimit
  <2> QED
    BY <1>6, <1>m, <2>1
<1>9. m \in Nat /\ m <= n
  BY <1>5, <1>m
<1>10. IsSeq(out.steps) /\ Len(out.steps) = m /\ out.steps = [k \in 1 .. m |-> out.steps[k]]
  BY <1>8, <1>9 DEF IsSeq
<1>11. IsExplained(out, h, titles, depth, q)
  BY <1>K, <1>F, <1>n, <1>L, <1>m, <1>4, <1>5, <1>8, <1>9, <1>10 DEF IsExplained
<1> QED
  BY <1>o, <1>t, <1>11

LEMMA StepBuilt ==
    ASSUME NEW e, NEW titles
    PROVE  /\ BuildStep(e, titles).event = e.id
           /\ BuildStep(e, titles).at = IF e.type = "source.session_observed" /\ e.updated # None
                                        THEN e.updated ELSE e.occurred
BY DEF BuildStep

\* Every place of h is one of a kept identity, no later than it.
LEMMA KeptBefore ==
    ASSUME NEW h, IsSeq(h), NEW out, NEW titles, NEW depth \in Nat, NEW q,
           IsExplained(out, h, titles, depth, q), NEW i \in 1 .. Len(h)
    PROVE  \E k \in 1 .. Cardinality(Firsts(Identities(h))) :
              /\ q[k] \in 1 .. Len(h) /\ q[k] <= i
              /\ ExplainStepIdentity(h[q[k]]) = ExplainStepIdentity(h[i])
<1>K. PICK K : K = Identities(h)
  OBVIOUS
<1>1. IsSeq(K) /\ Len(K) = Len(h) /\ \A j \in 1 .. Len(h) : K[j] = ExplainStepIdentity(h[j])
  BY <1>K DEF Identities, IsSeq
<1>2. /\ Firsts(K) \in SUBSET (DOMAIN K)
      /\ \A m \in 1 .. Len(K) : \E j \in Firsts(K) : j <= m /\ K[j] = K[m]
  BY <1>1, FirstOfKind
<1>3. PICK j \in Firsts(K) : j <= i /\ K[j] = K[i]
  BY <1>1, <1>2
<1>4. \A m \in Firsts(K) : \E k \in 1 .. Cardinality(Firsts(K)) : q[k] = m
  BY <1>K DEF IsExplained
<1>5. PICK k \in 1 .. Cardinality(Firsts(K)) : q[k] = j
  BY <1>4
<1>6. j \in 1 .. Len(h)
  BY <1>1, <1>2 DEF IsSeq
<1> QED
  BY <1>K, <1>1, <1>3, <1>5, <1>6

LEMMA TimelineHolds == HistoryInv => FileTimelineComplete
<1> SUFFICES ASSUME HistoryInv, lines = 0, NEW rel \in Paths, NEW depth \in 0 .. 2
             PROVE  LET hits == ResolveFileAnchor(Events, rel)
                        out == ExplainFromEvents(Events, hits, depth)
                        shown == {e \in rows : \E i \in DOMAIN out.steps : out.steps[i].event = e.id}
                    IN /\ \A i, j \in DOMAIN hits : i < j => hits[i].occurred >= hits[j].occurred
                       /\ \A i \in DOMAIN hits :
                             \/ \E e \in shown : /\ ExplainStepIdentity(e) = ExplainStepIdentity(hits[i])
                                                 /\ e.occurred >= hits[i].occurred
                             \/ out.truncated /\ \A e \in shown : e.occurred >= hits[i].occurred
                       /\ out.truncated => Len(out.steps) = depth + 1
  BY DEF FileTimelineComplete, Quiet
<1>h. PICK h : h = ResolveFileAnchor(Events, rel)
  OBVIOUS
<1>o. PICK out : out = ExplainFromEvents(Events, h, depth)
  OBVIOUS
<1>t. PICK titles : titles = MissionTitles(Events)
  OBVIOUS
<1>s. PICK shown : shown = {e \in rows : \E i \in DOMAIN out.steps : out.steps[i].event = e.id}
  OBVIOUS
<1>1. IsLedger(rows)
  BY QuietRows
<1>2. /\ IsSeq(h) /\ \A i \in 1 .. Len(h) : h[i] \in rows
      /\ \A i, j \in 1 .. Len(h) : i <= j => h[i].occurred >= h[j].occurred
  BY <1>1, <1>h, HitsListed DEF Events
<1>3. PICK q : IsExplained(out, h, titles, depth, q)
  BY <1>2, <1>o, <1>t, Explained
<1>n. PICK n : n = Cardinality(Firsts(Identities(h)))
  OBVIOUS
<1>m. PICK m : m = Len(out.steps)
  OBVIOUS
<1>4. StepLimit(depth) = depth + 1
  BY DEF StepLimit, MaxExplainDepth
<1>5. /\ n \in Nat /\ m \in Nat /\ m = (IF n < depth + 1 THEN n ELSE depth + 1)
      /\ \A j, k \in 1 .. n : j < k <=> q[j] < q[k]
      /\ DOMAIN out.steps = 1 .. m
      /\ \A k \in 1 .. m : out.steps[k] = BuildStep(h[q[k]], titles)
      /\ out.truncated = (n > depth + 1)
  BY <1>3, <1>4, <1>n, <1>m DEF IsExplained, IsSeq
<1>6. \A k \in 1 .. n : q[k] \in 1 .. Len(h)
  <2>1. IsSeq(Identities(h)) /\ Len(Identities(h)) = Len(h)
    BY <1>2 DEF Identities, IsSeq
  <2>2. Firsts(Identities(h)) \in SUBSET (1 .. Len(h))
    BY <2>1, FirstOfKind DEF IsSeq
  <2> QED
    BY <1>3, <1>n, <2>2 DEF IsExplained
<1>7. \A k \in 1 .. m : out.steps[k].event = h[q[k]].id
  BY <1>5, StepBuilt
<1>8. ASSUME NEW i \in 1 .. Len(h)
      PROVE  \/ \E e \in shown : /\ ExplainStepIdentity(e) = ExplainStepIdentity(h[i])
                                 /\ e.occurred >= h[i].occurred
             \/ out.truncated /\ \A e \in shown : e.occurred >= h[i].occurred
  <2>1. PICK k \in 1 .. n : /\ q[k] \in 1 .. Len(h) /\ q[k] <= i
                            /\ ExplainStepIdentity(h[q[k]]) = ExplainStepIdentity(h[i])
    BY <1>2, <1>3, <1>n, KeptBefore
  <2>2. CASE k <= m
    <3>1. k \in 1 .. m
      BY <1>5, <2>2
    <3>2. h[q[k]] \in shown
      BY <1>2, <1>5, <1>7, <1>s, <2>1, <3>1
    <3>3. h[q[k]].occurred >= h[i].occurred
      BY <1>2, <2>1
    <3> QED
      BY <2>1, <3>2, <3>3
  <2>3. CASE ~(k <= m)
    <3>1. n > depth + 1
      BY <1>5, <2>3
    <3>2. ASSUME NEW e \in shown PROVE e.occurred >= h[i].occurred
      <4>1. PICK j \in 1 .. m : out.steps[j].event = e.id
        BY <1>5, <1>s
      <4>2. j \in 1 .. n /\ j < k
        BY <1>5, <2>3
      <4>3. q[j] \in 1 .. Len(h) /\ q[j] < q[k]
        BY <1>5, <1>6, <4>2
      <4>4. h[q[j]] = e
        BY <1>1, <1>2, <1>7, <1>s, <4>1, <4>3 DEF IsLedger
      <4>5. q[j] <= i
        BY <1>2, <2>1, <4>3 DEF IsSeq
      <4> QED
        BY <1>2, <4>3, <4>4, <4>5
    <3> QED
      BY <1>5, <3>1, <3>2
  <2> QED
    BY <2>2, <2>3
<1>9. DOMAIN h = 1 .. Len(h) /\ Len(h) \in Nat
  BY <1>2 DEF IsSeq
<1>10. \A i, j \in DOMAIN h : i < j => h[i].occurred >= h[j].occurred
  BY <1>2, <1>9
<1>11. out.truncated => Len(out.steps) = depth + 1
  <2>1. out.truncated => n > depth + 1
    BY <1>5, Zenon
  <2>2. n > depth + 1 => Len(out.steps) = depth + 1
    BY <1>5, <1>m
  <2> QED
    BY <2>1, <2>2, Zenon
<1> QED
  BY <1>h, <1>o, <1>s, <1>8, <1>9, <1>10, <1>11


-----------------------------------------------------------------------------
(* Sessions of the metadata database in a timeline. *)

SessionsIn(found) == [i \in DOMAIN found |-> found[i].session]
SourceStep(f) == [event |-> 0, session |-> f.session, title |-> None, at |-> f.at]

\* Each session once.
AreSourceSteps(more, found) ==
    /\ IsSeq(more)
    /\ \A k \in 1 .. Len(more) : \E i \in 1 .. Len(found) : more[k] = SourceStep(found[i])
    /\ \A i \in 1 .. Len(found) : \E k \in 1 .. Len(more) : more[k].session = found[i].session
    /\ \A j, k \in 1 .. Len(more) : more[j].session = more[k].session => j = k

LEMMA SourceSteps ==
    ASSUME NEW found, IsSeq(found)
    PROVE  AreSourceSteps(SourceSessionsToSteps(found), found)
<1>K. PICK K : K = SessionsIn(found)
  OBVIOUS
<1>F. PICK F : F = Firsts(K)
  OBVIOUS
<1>q. PICK q : q = InOrder(F)
  OBVIOUS
<1>m. PICK more : more = SourceSessionsToSteps(found)
  OBVIOUS
<1>1. /\ IsSeq(K) /\ Len(K) = Len(found) /\ DOMAIN K = DOMAIN found
      /\ \A i \in 1 .. Len(found) : K[i] = found[i].session
  BY <1>K DEF SessionsIn, IsSeq
<1>2. /\ F \in SUBSET (DOMAIN K)
      /\ \A i \in 1 .. Len(K) : \E j \in F : j <= i /\ K[j] = K[i]
      /\ \A i, j \in F : K[i] = K[j] => i = j
  BY <1>1, <1>F, FirstOfKind
<1>3. IsSelected(At(K, F), K, F, q)
  BY <1>1, <1>2, <1>q, Selected
<1>n. PICK n : n = Len(At(K, F))
  OBVIOUS
<1>4. /\ n \in Nat /\ q \in [1 .. n -> F] /\ \A i \in F : \E k \in 1 .. n : q[k] = i
      /\ \A j, k \in 1 .. n : j < k <=> q[j] < q[k]
  BY <1>3, <1>n DEF IsSelected, IsSeq
<1>5. F = {i \in DOMAIN found : \A j \in 1 .. (i - 1) : found[j].session # found[i].session}
  <2>1. \A i \in DOMAIN found : \A j \in 1 .. (i - 1) : K[j] = found[j].session /\ K[i] = found[i].session
    BY <1>1 DEF IsSeq
  <2> QED
    BY <1>1, <1>F, <2>1 DEF Firsts
<1>6. more = [k \in 1 .. n |-> SourceStep(found[q[k]])]
  <2>1. more = [k \in DOMAIN q |-> SourceStep(found[q[k]])]
    BY <1>m, <1>q, <1>5, Zenon DEF SourceSessionsToSteps, SourceStep
  <2> QED
    BY <1>4, <2>1
<1>7. /\ IsSeq(more) /\ Len(more) = n
      /\ \A k \in 1 .. n : /\ more[k] = SourceStep(found[q[k]]) /\ more[k].session = K[q[k]]
                           /\ q[k] \in 1 .. Len(found)
  <2>1. IsSeq(more) /\ Len(more) = n /\ \A k \in 1 .. n : more[k] = SourceStep(found[q[k]])
    BY <1>4, <1>6 DEF IsSeq
  <2>2. \A k \in 1 .. n : q[k] \in 1 .. Len(found)
    BY <1>1, <1>2, <1>4 DEF IsSeq
  <2> QED
    BY <1>1, <2>1, <2>2 DEF SourceStep
<1>8. ASSUME NEW i \in 1 .. Len(found) PROVE \E k \in 1 .. n : more[k].session = found[i].session
  <2>1. PICK j \in F : K[j] = K[i]
    BY <1>1, <1>2
  <2>2. PICK k \in 1 .. n : q[k] = j
    BY <1>4
  <2> QED
    BY <1>1, <1>7, <2>1, <2>2
<1>9. ASSUME NEW j \in 1 .. n, NEW k \in 1 .. n, more[j].session = more[k].session PROVE j = k
  <2>1. q[j] = q[k]
    BY <1>2, <1>4, <1>7, <1>9
  <2>2. q[j] \in Int
    BY <1>7
  <2>3. ~(j < k) /\ ~(k < j)
    BY <1>4, <2>1, <2>2
  <2> QED
    BY <1>4, <2>3
<1>10. AreSourceSteps(more, found)
  BY <1>7, <1>8, <1>9, Zenon DEF AreSourceSteps
<1> QED
  BY <1>m, <1>10

SessionsLinked(steps) == {steps[i].session : i \in DOMAIN steps} \ {None}
New(steps, more) == {k \in DOMAIN more : more[k].session \notin SessionsLinked(steps)}

\* u is t after s.
IsJoined(u, s, t) ==
    /\ IsSeq(u) /\ Len(u) = Len(s) + Len(t)
    /\ \A i \in 1 .. Len(s) : u[i] = s[i]
    /\ \A i \in 1 .. Len(t) : u[Len(s) + i] = t[i]
    /\ \A i \in 1 .. Len(u) : i \in 1 .. Len(s) \/ \E j \in 1 .. Len(t) : i = Len(s) + j

LEMMA Joined ==
    ASSUME NEW S, NEW s \in Seq(S), NEW t \in Seq(S)
    PROVE  IsJoined(s \o t, s, t)
<1>1. IsSeq(s \o t) /\ Len(s \o t) = Len(s) + Len(t)
  BY DEF IsSeq
<1>2. \A i \in 1 .. Len(s) : (s \o t)[i] = s[i]
  OBVIOUS
<1>3. \A i \in 1 .. Len(t) : (s \o t)[Len(s) + i] = t[i]
  OBVIOUS
<1>4. ASSUME NEW i \in 1 .. Len(s \o t), i \notin 1 .. Len(s)
      PROVE  \E j \in 1 .. Len(t) : i = Len(s) + j
  <2>1. i - Len(s) \in 1 .. Len(t) /\ i = Len(s) + (i - Len(s))
    BY <1>1, <1>4
  <2> QED
    BY <2>1
<1> QED
  BY <1>1, <1>2, <1>3, <1>4, Zenon DEF IsJoined

FromSource(out, s) == {k \in DOMAIN out : out[k].session = s /\ out[k].event = 0}

\* out has every step, the newest first, and one source step of each known
\* session that no step is of.
IsMerged(out, steps, known) ==
    /\ \A i \in 1 .. Len(steps) : \E k \in DOMAIN out : out[k] = steps[i]
    /\ \A i, j \in DOMAIN out : i < j => out[i].at >= out[j].at
    /\ \A i \in 1 .. Len(known) :
          IF \E j \in 1 .. Len(steps) : steps[j].session = known[i].session
          THEN FromSource(out, known[i].session) = {}
          ELSE \E k : FromSource(out, known[i].session) = {k}

LEMMA Merged ==
    ASSUME NEW S, NEW steps \in Seq(S), \A i \in 1 .. Len(steps) : steps[i].at \in Int /\ steps[i].event # 0,
           NEW known, IsSeq(known),
           \A i \in 1 .. Len(known) : known[i].at \in Int /\ known[i].session # None,
           NEW out, out = MergeSourceStepsInto(steps, SourceSessionsToSteps(known))
    PROVE  IsMerged(out, steps, known)
<1>m. PICK more : more = SourceSessionsToSteps(known)
  OBVIOUS
<1>I. PICK I : I = New(steps, more)
  OBVIOUS
<1>e. PICK extra : extra = At(more, I)
  OBVIOUS
<1>c. PICK c : c = steps \o extra
  OBVIOUS
<1>1. AreSourceSteps(more, known)
  BY <1>m, SourceSteps
<1>2. /\ IsSeq(more)
      /\ \A k \in 1 .. Len(more) : more[k].event = 0 /\ more[k].at \in Int
  <2>1. IsSeq(more) /\ \A k \in 1 .. Len(more) : \E i \in 1 .. Len(known) : more[k] = SourceStep(known[i])
    BY <1>1 DEF AreSourceSteps
  <2>2. \A f : SourceStep(f).event = 0 /\ SourceStep(f).at = f.at
    BY DEF SourceStep
  <2> QED
    BY <2>1, <2>2
<1>3. I \in SUBSET (DOMAIN more)
  BY <1>I DEF New
<1>q. PICK q : q = InOrder(I)
  OBVIOUS
<1>4. IsSelected(extra, more, I, q)
  BY <1>2, <1>3, <1>e, <1>q, Selected
<1>n. PICK n : n = Len(extra)
  OBVIOUS
<1>5. /\ n \in Nat /\ DOMAIN extra = 1 .. n
      /\ \A k \in 1 .. n : q[k] \in 1 .. Len(more) /\ q[k] \in I /\ extra[k] = more[q[k]]
      /\ \A i \in I : \E k \in 1 .. n : q[k] = i
      /\ \A j, k \in 1 .. n : j < k <=> q[j] < q[k]
  BY <1>2, <1>3, <1>4, <1>n DEF IsSelected, IsSeq
<1>6. ASSUME NEW j \in 1 .. n, NEW k \in 1 .. n, extra[j].session = extra[k].session PROVE j = k
  <2>a. \A a, b \in 1 .. Len(more) : more[a].session = more[b].session => a = b
    BY <1>1 DEF AreSourceSteps
  <2>b. q[j] \in 1 .. Len(more) /\ q[k] \in 1 .. Len(more) /\ extra[j] = more[q[j]] /\ extra[k] = more[q[k]]
    BY <1>5
  <2>1. q[j] = q[k]
    BY <1>6, <2>a, <2>b
  <2>2. q[j] \in Int
    BY <1>5
  <2>3. ~(j < k) /\ ~(k < j)
    BY <1>5, <2>1, <2>2
  <2> QED
    BY <1>5, <2>3
<1>7. \A k \in 1 .. n : extra[k].event = 0 /\ extra[k].at \in Int /\ extra[k].session \notin SessionsLinked(steps)
  <2> TAKE k \in 1 .. n
  <2>1. q[k] \in I /\ extra[k] = more[q[k]]
    BY <1>5
  <2>2. q[k] \in DOMAIN more /\ more[q[k]].session \notin SessionsLinked(steps)
    BY <1>I, <2>1 DEF New
  <2> QED
    BY <1>2, <1>5, <2>1, <2>2
<1>8. \E T : steps \in Seq(T) /\ extra \in Seq(T)
  <2> DEFINE T == S \cup {more[k] : k \in 1 .. Len(more)}
  <2>1. extra = [k \in 1 .. n |-> more[q[k]]]
    <3>1. extra = [k \in DOMAIN q |-> more[q[k]]]
      BY <1>e, <1>q DEF At
    <3>2. DOMAIN q = 1 .. n
      BY <1>4, <1>n DEF IsSelected
    <3> QED
      BY <3>1, <3>2
  <2>2. extra \in Seq({more[k] : k \in 1 .. Len(more)})
    BY <1>5, <2>1
  <2>3. extra \in Seq(T) /\ steps \in Seq(T)
    BY <2>2, SeqWithin
  <2> QED
    BY <2>3
<1>9. /\ IsSeq(c) /\ Len(c) = Len(steps) + n
      /\ \A i \in 1 .. Len(steps) : c[i] = steps[i]
      /\ \A i \in 1 .. n : c[Len(steps) + i] = extra[i]
      /\ \A i \in 1 .. Len(c) : i \in 1 .. Len(steps) \/ \E j \in 1 .. n : i = Len(steps) + j
  <2>1. PICK T : steps \in Seq(T) /\ extra \in Seq(T)
    BY <1>8
  <2>2. IsJoined(c, steps, extra)
    BY <1>c, <2>1, Joined
  <2> QED
    BY <1>n, <2>2, Zenon DEF IsJoined
<1>l. Len(steps) \in Nat /\ Len(c) \in Nat
  BY <1>9 DEF IsSeq
<1>f. \A i \in 1 .. Len(c) : c[i].event = 0 => \E j \in 1 .. n : i = Len(steps) + j /\ c[i] = extra[j]
  BY <1>9
<1>10. \A i \in 1 .. Len(c) : c[i].at \in Int
  BY <1>7, <1>9
<1>11. out = NewerFirst(c)
  <2>1. extra = Select(more, LAMBDA s : s.session \notin SessionsLinked(steps))
    BY <1>e, <1>I, Zenon DEF Select, At, New
  <2> QED
    BY <1>m, <1>c, <2>1, Zenon DEF MergeSourceStepsInto, SessionsLinked
<1>12. PICK p : IsNewestFirst(out, c, p)
  BY <1>9, <1>10, <1>11, NewestFirst
<1>o. DOMAIN out = 1 .. Len(c)
  BY <1>12, <1>9 DEF IsNewestFirst, IsSeq
<1>p. \A k \in 1 .. Len(c) : p[k] \in 1 .. Len(c) /\ out[k] = c[p[k]]
  BY <1>12 DEF IsNewestFirst
<1>s. /\ \A i \in 1 .. Len(c) : \E k \in 1 .. Len(c) : p[k] = i
      /\ \A j, k \in 1 .. Len(c) : p[j] = p[k] => j = k
  BY <1>12, Zenon DEF IsNewestFirst
<1>13. ASSUME NEW i \in 1 .. Len(steps) PROVE \E k \in DOMAIN out : out[k] = steps[i]
  <2>1. i \in 1 .. Len(c)
    BY <1>5, <1>9, <1>l
  <2>2. PICK k \in 1 .. Len(c) : p[k] = i
    BY <1>s, <2>1
  <2>3. out[k] = c[i] /\ c[i] = steps[i] /\ k \in DOMAIN out
    BY <1>9, <1>o, <1>p, <2>2
  <2> QED
    BY <2>3
<1>14. ASSUME NEW i \in 1 .. Len(known), NEW j \in 1 .. Len(steps), steps[j].session = known[i].session
       PROVE  FromSource(out, known[i].session) = {}
  <2> SUFFICES ASSUME NEW k \in FromSource(out, known[i].session) PROVE FALSE
    OBVIOUS
  <2>1. k \in 1 .. Len(c) /\ c[p[k]].session = known[i].session /\ c[p[k]].event = 0
    BY <1>o, <1>p DEF FromSource
  <2>2. PICK m \in 1 .. n : c[p[k]] = extra[m]
    BY <1>f, <1>p, <2>1
  <2>3. known[i].session \in SessionsLinked(steps)
    BY <1>14 DEF SessionsLinked
  <2> QED
    BY <1>7, <2>1, <2>2, <2>3
<1>15. ASSUME NEW i \in 1 .. Len(known), ~\E j \in 1 .. Len(steps) : steps[j].session = known[i].session
       PROVE  \E k : FromSource(out, known[i].session) = {k}
  <2>s. PICK s : s = known[i].session
    OBVIOUS
  <2>1. PICK a \in 1 .. Len(more) : more[a].session = s
    BY <1>1, <2>s DEF AreSourceSteps
  <2>2. s \notin SessionsLinked(steps)
    <3>1. DOMAIN steps = 1 .. Len(steps)
      OBVIOUS
    <3> QED
      BY <1>15, <2>s, <3>1, Zenon DEF SessionsLinked
  <2>3. a \in I
    BY <1>2, <1>I, <2>1, <2>2 DEF New, IsSeq
  <2>4. PICK b \in 1 .. n : q[b] = a
    BY <1>5, <2>3
  <2>5. extra[b].session = s /\ extra[b].event = 0 /\ Len(steps) + b \in 1 .. Len(c)
    <3>1. Len(steps) + b \in 1 .. Len(c)
      BY <1>5, <1>9, <1>l
    <3> QED
      BY <1>5, <1>7, <2>1, <2>4, <3>1
  <2>6. PICK k \in 1 .. Len(c) : p[k] = Len(steps) + b
    BY <1>s, <2>5
  <2>7. k \in FromSource(out, s)
    <3>1. k \in DOMAIN out /\ out[k] = c[Len(steps) + b]
      BY <1>o, <1>p, <2>6
    <3>2. c[Len(steps) + b] = extra[b]
      BY <1>9
    <3> QED
      BY <2>5, <3>1, <3>2 DEF FromSource
  <2>8. ASSUME NEW l \in FromSource(out, s) PROVE l = k
    <3>1. l \in 1 .. Len(c) /\ c[p[l]].session = s /\ c[p[l]].event = 0
      BY <1>o, <1>p DEF FromSource
    <3>2. PICK d \in 1 .. n : p[l] = Len(steps) + d /\ c[p[l]] = extra[d]
      BY <1>f, <1>p, <3>1
    <3>3. d = b
      BY <1>6, <2>5, <3>1, <3>2
    <3>4. p[l] = p[k]
      BY <2>6, <3>2, <3>3
    <3> QED
      BY <1>s, <3>1, <3>4
  <2>9. FromSource(out, s) = {k}
    BY <2>7, <2>8
  <2> QED
    BY <2>s, <2>9
<1>16. \A i, j \in DOMAIN out : i < j => out[i].at >= out[j].at
  BY <1>12, <1>o, Zenon DEF IsNewestFirst
<1> QED
  BY <1>13, <1>14, <1>15, <1>16, Zenon DEF IsMerged


Found(evs) == [i \in DOMAIN evs |-> [session |-> evs[i].session, at |-> evs[i].recorded]]
Known(evs) == Select(Found(evs), LAMBDA f : f.session # None)

LEMMA KnownSessions ==
    ASSUME NEW evs, IsSeq(evs), \A i \in 1 .. Len(evs) : evs[i].recorded \in Int
    PROVE  /\ IsSeq(Known(evs))
           /\ \A i \in 1 .. Len(Known(evs)) : Known(evs)[i].at \in Int /\ Known(evs)[i].session # None
<1>f. PICK f : f = Found(evs)
  OBVIOUS
<1>I. PICK I : I = {i \in DOMAIN f : f[i].session # None}
  OBVIOUS
<1>k. PICK k : k = At(f, I)
  OBVIOUS
<1>0. k = Known(evs)
  BY <1>f, <1>I, <1>k, Zenon DEF Known, Select, At
<1>1. IsSeq(f) /\ \A i \in 1 .. Len(f) : f[i].at \in Int
  BY <1>f DEF Found, IsSeq
<1>2. I \in SUBSET (DOMAIN f)
  BY <1>I
<1>3. PICK q : IsSelected(k, f, I, q)
  BY <1>1, <1>2, <1>k, Selected
<1>4. \A i \in 1 .. Len(k) : q[i] \in I /\ k[i] = f[q[i]]
  BY <1>3 DEF IsSelected
<1>5. \A i \in 1 .. Len(k) : q[i] \in 1 .. Len(f) /\ k[i].session # None
  BY <1>1, <1>4, <1>I DEF IsSeq
<1>6. IsSeq(k) /\ \A i \in 1 .. Len(k) : k[i].at \in Int /\ k[i].session # None
  BY <1>1, <1>3, <1>4, <1>5 DEF IsSelected
<1> QED
  BY <1>0, <1>6

MergedWell(out, steps, known) ==
    /\ ToSet(steps) \subseteq ToSet(out)
    /\ \A i \in DOMAIN known :
          Cardinality({k \in DOMAIN out : out[k].session = known[i].session /\ out[k].event = 0}) =
             IF \E j \in DOMAIN steps : steps[j].session = known[i].session THEN 0 ELSE 1
    /\ \A i, j \in DOMAIN out : i < j => out[i].at >= out[j].at
FileSteps(rel) == ExplainFromEvents(Events, ResolveFileAnchor(Events, rel), 2).steps

LEMMA MergedHolds == HistoryInv => MergedTimeline
<1> SUFFICES ASSUME HistoryInv, lines = 0, NEW rel \in Paths
             PROVE  MergedWell(MergeSourceStepsInto(FileSteps(rel), SourceSessionsToSteps(Known(Events))),
                               FileSteps(rel), Known(Events))
  BY Zenon DEF MergedTimeline, Quiet, MergedWell, FileSteps, Known, Found
<1>h. PICK h : h = ResolveFileAnchor(Events, rel)
  OBVIOUS
<1>e. PICK e : e = ExplainFromEvents(Events, h, 2)
  OBVIOUS
<1>t. PICK titles : titles = MissionTitles(Events)
  OBVIOUS
<1>k. PICK known : known = Known(Events)
  OBVIOUS
<1>s. PICK steps : steps = e.steps
  OBVIOUS
<1>o. PICK out : out = MergeSourceStepsInto(steps, SourceSessionsToSteps(known))
  OBVIOUS
<1>1. rows \subseteq Pool /\ IsLedger(rows)
  BY QuietRows
<1>2. \A x \in rows : x.id \in Int /\ x.id # 0 /\ x.occurred \in Int /\ x.recorded \in Int
                      /\ x.updated \in Int \cup {None}
  <2> TAKE x \in rows
  <2>1. x \in Pool
    BY <1>1
  <2>2. x.id \in 1 .. 100 /\ x.occurred \in Int /\ x.recorded \in Int /\ x.updated \in Int \cup {None}
    BY <2>1, ProvenanceAssumption
  <2> QED
    BY <2>2
<1>3. IsSeq(Events) /\ \A i \in 1 .. Len(Events) : Events[i] \in rows
  BY <1>1, EventsListed DEF Events, Lists
<1>4. /\ IsSeq(known)
      /\ \A i \in 1 .. Len(known) : known[i].at \in Int /\ known[i].session # None
  BY <1>2, <1>3, <1>k, KnownSessions
<1>5. IsSeq(h) /\ \A i \in 1 .. Len(h) : h[i] \in rows
  BY <1>1, <1>h, HitsListed DEF Events
<1>6. PICK q : IsExplained(e, h, titles, 2, q)
  BY <1>5, <1>e, <1>t, Explained
<1>n. PICK n : n = Cardinality(Firsts(Identities(h)))
  OBVIOUS
<1>m. PICK m : m = Len(steps)
  OBVIOUS
<1>7. /\ m \in Nat /\ m <= n /\ n \in Nat
      /\ steps = [k \in 1 .. m |-> steps[k]]
      /\ \A k \in 1 .. m : steps[k] = BuildStep(h[q[k]], titles)
      /\ q \in [1 .. n -> Firsts(Identities(h))]
  BY <1>6, <1>s, <1>n, <1>m DEF IsExplained
<1>8. \A k \in 1 .. m : q[k] \in 1 .. Len(h)
  <2>1. IsSeq(Identities(h)) /\ Len(Identities(h)) = Len(h)
    BY <1>5 DEF Identities, IsSeq
  <2>2. Firsts(Identities(h)) \in SUBSET (1 .. Len(h))
    BY <2>1, FirstOfKind DEF IsSeq
  <2> QED
    BY <1>7, <2>2
<1>9. ASSUME NEW k \in 1 .. m PROVE steps[k].at \in Int /\ steps[k].event # 0
  <2>1. h[q[k]] \in rows /\ steps[k] = BuildStep(h[q[k]], titles)
    BY <1>5, <1>7, <1>8
  <2> QED
    BY <1>2, <2>1, StepBuilt
<1>10. steps \in Seq({steps[k] : k \in 1 .. m})
  BY <1>7
<1>11. /\ \A i \in 1 .. m : \E k \in DOMAIN out : out[k] = steps[i]
       /\ \A i, j \in DOMAIN out : i < j => out[i].at >= out[j].at
       /\ \A i \in 1 .. Len(known) :
             IF \E j \in 1 .. m : steps[j].session = known[i].session
             THEN FromSource(out, known[i].session) = {}
             ELSE \E k : FromSource(out, known[i].session) = {k}
  <2>1. IsMerged(out, steps, known)
    BY <1>4, <1>9, <1>10, <1>m, <1>o, Merged
  <2> QED
    BY <2>1, <1>m, Zenon DEF IsMerged
<1>12. DOMAIN steps = 1 .. m /\ DOMAIN known = 1 .. Len(known)
  BY <1>4, <1>7 DEF IsSeq
<1>13. ToSet(steps) \subseteq ToSet(out)
  BY <1>11, <1>12 DEF ToSet
<1>14. ASSUME NEW i \in DOMAIN known
       PROVE  Cardinality({k \in DOMAIN out : out[k].session = known[i].session /\ out[k].event = 0}) =
                 IF \E j \in DOMAIN steps : steps[j].session = known[i].session THEN 0 ELSE 1
  <2>1. FromSource(out, known[i].session) =
           {k \in DOMAIN out : out[k].session = known[i].session /\ out[k].event = 0}
    BY DEF FromSource
  <2>2. CASE \E j \in 1 .. m : steps[j].session = known[i].session
    <3>1. FromSource(out, known[i].session) = {}
      BY <1>11, <1>12, <2>2
    <3> QED
      BY <1>12, <2>1, <2>2, <3>1, FS_EmptySet
  <2>3. CASE ~\E j \in 1 .. m : steps[j].session = known[i].session
    <3>1. PICK k : FromSource(out, known[i].session) = {k}
      BY <1>11, <1>12, <2>3
    <3>2. Cardinality({k}) = 1
      BY FS_Singleton
    <3> QED
      BY <1>12, <2>1, <2>3, <3>1, <3>2
  <2> QED
    BY <2>2, <2>3
<1>15. MergedWell(out, steps, known)
  BY <1>11, <1>13, <1>14, Zenon DEF MergedWell
<1> QED
  BY <1>s, <1>e, <1>h, <1>k, <1>o, <1>15, Zenon DEF FileSteps

\* A file's timeline loses no event silently and comes newest first, whatever
\* events were recorded and in what order; and so it does when the metadata
\* database's sessions are merged in.
THEOREM TimelineIsSound == Spec => []TimelineSound
<1>1. HistoryInv => TimelineSound
  BY TimelineHolds, MergedHolds DEF TimelineSound
<1> QED
  BY <1>1, History, PTL

-----------------------------------------------------------------------------
(* Uploads, diffs and file references: a table of the graph has one row for  *)
(* each event that makes one.                                                *)

\* Events and what they upload or refer to have ids of their own.
Minted(log) ==
    /\ LogOk(log)
    /\ \A i, j \in 1 .. Len(log) : log[i].id = log[j].id => i = j
    /\ \A i, j \in 1 .. Len(log) : log[i].item # None /\ log[i].item = log[j].item => i = j
    /\ \A i, j \in 1 .. Len(log) : log[i].item # log[j].id
    /\ \A i \in 1 .. Len(log) : log[i].type \in Uploads \cup {"artifact.file_ref_recorded"} =>
                                   log[i].item # None \/ ~Applies(log[i])

ItemsTable(items, log, k) ==
    /\ \A y : y \in DOMAIN items <=> \E i \in 1 .. k : IsUpload(log[i]) /\ y = log[i].item
    /\ \A i \in 1 .. k : IsUpload(log[i]) => items[log[i].item].owner = OwnerOf(log[i])
DiffsTable(diffs, log, k) ==
    /\ \A y : y \in DOMAIN diffs <=> \E i \in 1 .. k : IsDiff(log[i]) /\ y = log[i].id
    /\ \A i \in 1 .. k : IsDiff(log[i]) => diffs[log[i].id] = DiffOf(log[i])
\* The rows of a diff stand together, one for each of its files.
DiffBlock(refs, e, o) ==
    \A r \in 1 .. Len(refs) : refs[r].ref = e.id <=> r \in (o + 1) .. (o + Len(e.files))
DiffBlocks(refs, log, k) ==
    \A i \in 1 .. k : IsDiff(log[i]) =>
        \E o \in Nat : o + Len(log[i].files) <= Len(refs) /\ DiffBlock(refs, log[i], o)
RefsTable(refs, log, k) ==
    /\ IsSeq(refs)
    /\ \A r \in 1 .. Len(refs) : \E i \in 1 .. k :
          \/ IsReference(log[i]) /\ refs[r] = Row(log[i])
          \/ IsDiff(log[i]) /\ refs[r].ref = log[i].id
    /\ \A i \in 1 .. k : IsReference(log[i]) => \E r \in 1 .. Len(refs) : refs[r] = Row(log[i])
    /\ \A r, s \in 1 .. Len(refs) : \A i \in 1 .. k :
          IsReference(log[i]) /\ refs[r].ref = log[i].item /\ refs[s].ref = log[i].item => r = s
    /\ DiffBlocks(refs, log, k)

LEMMA PutThere ==
    ASSUME NEW f, NEW k, NEW v
    PROVE  /\ \A y : y \in DOMAIN Put(f, k, v) <=> y \in DOMAIN f \/ y = k
           /\ Put(f, k, v)[k] = v
           /\ \A y \in DOMAIN f : y # k => Put(f, k, v)[y] = f[y]
BY DEF Put

LEMMA ItemsGrow ==
    ASSUME NEW log, Minted(log), NEW k \in Nat, k + 1 \in 1 .. Len(log), NEW f, ItemsTable(f, log, k),
           NEW g, g = IF IsUpload(log[k + 1])
                      THEN Put(f, log[k + 1].item, [owner |-> OwnerOf(log[k + 1]), at |-> log[k + 1].recorded])
                      ELSE f
    PROVE  ItemsTable(g, log, k + 1)
<1>e. PICK e : e = log[k + 1]
  OBVIOUS
<1>0. /\ \A i : i \in 1 .. (k + 1) <=> i \in 1 .. k \/ i = k + 1
      /\ Len(log) \in Nat /\ \A i \in 1 .. k : i \in 1 .. Len(log) /\ i # k + 1
  BY DEF Minted, LogOk, IsSeq
<1>1. CASE ~IsUpload(e)
  <2>1. g = f
    BY <1>1, <1>e
  <2>2. \A y : (\E i \in 1 .. (k + 1) : IsUpload(log[i]) /\ y = log[i].item)
                  <=> (\E i \in 1 .. k : IsUpload(log[i]) /\ y = log[i].item)
    BY <1>0, <1>1, <1>e, Zenon
  <2>3. \A i \in 1 .. (k + 1) : IsUpload(log[i]) => i \in 1 .. k
    BY <1>0, <1>1, <1>e, Zenon
  <2> QED
    BY <2>1, <2>2, <2>3, Zenon DEF ItemsTable
<1>2. CASE IsUpload(e)
  <2>v. PICK v : v = [owner |-> OwnerOf(e), at |-> e.recorded]
    OBVIOUS
  <2>1. g = Put(f, e.item, v) /\ v.owner = OwnerOf(e)
    BY <1>2, <1>e, <2>v
  <2>2. /\ \A y : y \in DOMAIN g <=> y \in DOMAIN f \/ y = e.item
        /\ g[e.item] = v
        /\ \A y \in DOMAIN f : y # e.item => g[y] = f[y]
    BY <2>1, PutThere
  <2>3. e.item # None
    BY <1>2, <1>e DEF Minted, IsUpload
  <2>4. \A i \in 1 .. k : log[i].item # e.item
    BY <1>0, <1>e, <2>3 DEF Minted
  <2>5. \A y : y \in DOMAIN g <=> \E i \in 1 .. (k + 1) : IsUpload(log[i]) /\ y = log[i].item
    BY <1>0, <1>2, <1>e, <2>2, Zenon DEF ItemsTable
  <2>6. ASSUME NEW i \in 1 .. (k + 1), IsUpload(log[i]) PROVE g[log[i].item].owner = OwnerOf(log[i])
    <3>1. CASE i = k + 1
      BY <1>e, <2>1, <2>2, <3>1
    <3>2. CASE i \in 1 .. k
      <4>1. log[i].item \in DOMAIN f /\ f[log[i].item].owner = OwnerOf(log[i])
        BY <2>6, <3>2 DEF ItemsTable
      <4> QED
        BY <2>2, <2>4, <3>2, <4>1
    <3> QED
      BY <1>0, <3>1, <3>2
  <2> QED
    BY <2>5, <2>6 DEF ItemsTable
<1> QED
  BY <1>1, <1>2

LEMMA DiffsGrow ==
    ASSUME NEW log, Minted(log), NEW k \in Nat, k + 1 \in 1 .. Len(log), NEW f, DiffsTable(f, log, k),
           NEW g, g = IF IsDiff(log[k + 1]) THEN Put(f, log[k + 1].id, DiffOf(log[k + 1])) ELSE f
    PROVE  DiffsTable(g, log, k + 1)
<1>e. PICK e : e = log[k + 1]
  OBVIOUS
<1>0. /\ \A i : i \in 1 .. (k + 1) <=> i \in 1 .. k \/ i = k + 1
      /\ Len(log) \in Nat /\ \A i \in 1 .. k : i \in 1 .. Len(log) /\ i # k + 1
  BY DEF Minted, LogOk, IsSeq
<1>1. CASE ~IsDiff(e)
  <2>1. g = f
    BY <1>1, <1>e
  <2>2. \A y : (\E i \in 1 .. (k + 1) : IsDiff(log[i]) /\ y = log[i].id)
                  <=> (\E i \in 1 .. k : IsDiff(log[i]) /\ y = log[i].id)
    BY <1>0, <1>1, <1>e, Zenon
  <2>3. \A i \in 1 .. (k + 1) : IsDiff(log[i]) => i \in 1 .. k
    BY <1>0, <1>1, <1>e, Zenon
  <2> QED
    BY <2>1, <2>2, <2>3, Zenon DEF DiffsTable
<1>2. CASE IsDiff(e)
  <2>1. g = Put(f, e.id, DiffOf(e))
    BY <1>2, <1>e
  <2>2. /\ \A y : y \in DOMAIN g <=> y \in DOMAIN f \/ y = e.id
        /\ g[e.id] = DiffOf(e)
        /\ \A y \in DOMAIN f : y # e.id => g[y] = f[y]
    BY <2>1, PutThere
  <2>4. \A i \in 1 .. k : log[i].id # e.id
    BY <1>0, <1>e DEF Minted
  <2>5. \A y : y \in DOMAIN g <=> \E i \in 1 .. (k + 1) : IsDiff(log[i]) /\ y = log[i].id
    BY <1>0, <1>2, <1>e, <2>2, Zenon DEF DiffsTable
  <2>6. ASSUME NEW i \in 1 .. (k + 1), IsDiff(log[i]) PROVE g[log[i].id] = DiffOf(log[i])
    <3>1. CASE i = k + 1
      BY <1>e, <2>1, <2>2, <3>1
    <3>2. CASE i \in 1 .. k
      <4>1. log[i].id \in DOMAIN f /\ f[log[i].id] = DiffOf(log[i])
        BY <2>6, <3>2 DEF DiffsTable
      <4> QED
        BY <2>2, <2>4, <3>2, <4>1
    <3> QED
      BY <1>0, <3>1, <3>2
  <2> QED
    BY <2>5, <2>6 DEF DiffsTable
<1> QED
  BY <1>1, <1>2

\* The rows of refs that r is of: those of the event at place i.
OfPlace(r, e) ==
    \/ IsReference(e) /\ r = Row(e)
    \/ IsDiff(e) /\ r.ref = e.id

LEMMA PlaceOfRow ==
    ASSUME NEW log, Minted(log), NEW i \in 1 .. Len(log), NEW j \in 1 .. Len(log), NEW r,
           OfPlace(r, log[i]), IsReference(log[j]), r.ref = log[j].item
    PROVE  i = j
<1>1. log[j].item # None
  BY DEF Minted, IsReference
<1>2. CASE IsReference(log[i]) /\ r = Row(log[i])
  <2>1. log[i].item = log[j].item
    BY <1>2, RowsMade
  <2> QED
    BY <1>1, <2>1 DEF Minted
<1>3. CASE IsDiff(log[i]) /\ r.ref = log[i].id
  BY <1>3 DEF Minted
<1> QED
  BY <1>2, <1>3 DEF OfPlace

LEMMA RefsGrow ==
    ASSUME NEW log, Minted(log), NEW k \in Nat, k + 1 \in 1 .. Len(log), NEW A, NEW s \in Seq(A),
           RefsTable(s, log, k), RefsOf(log[k + 1]) \in Seq(A),
           NEW u, u = s \o RefsOf(log[k + 1])
    PROVE  RefsTable(u, log, k + 1)
<1>e. PICK e : e = log[k + 1]
  OBVIOUS
<1>t. PICK t : t = RefsOf(e)
  OBVIOUS
<1>0. /\ \A i : i \in 1 .. (k + 1) <=> i \in 1 .. k \/ i = k + 1
      /\ Len(log) \in Nat /\ \A i \in 1 .. k : i \in 1 .. Len(log) /\ i # k + 1
      /\ k + 1 \in 1 .. Len(log)
  BY DEF Minted, LogOk, IsSeq
<1>1. IsJoined(u, s, t) /\ t \in Seq(A)
  BY <1>e, <1>t, Joined
<1>2. /\ IsReference(e) => Len(t) = 1 /\ t[1] = Row(e)
      /\ \A j \in 1 .. Len(t) : OfPlace(t[j], e)
  <2>1. DOMAIN t = 1 .. Len(t)
    BY <1>1
  <2>2. IsReference(e) => Len(t) = 1 /\ t[1] = Row(e)
    BY <1>t, RowsMade
  <2>3. IsDiff(e) => \A j \in 1 .. Len(t) : t[j].ref = e.id
    BY <1>t, <2>1, RowsMade
  <2>4. ~IsReference(e) /\ ~IsDiff(e) => t = <<>>
    BY <1>t, RowsMade
  <2>5. ASSUME NEW j \in 1 .. Len(t) PROVE OfPlace(t[j], e)
    <3>1. CASE IsReference(e)
      <4>1. Len(t) = 1 /\ t[1] = Row(e)
        BY <2>2, <3>1, Zenon
      <4>2. j = 1
        BY <2>5, <4>1
      <4> QED
        BY <3>1, <4>1, <4>2 DEF OfPlace
    <3>2. CASE IsDiff(e)
      BY <2>3, <2>5, <3>2 DEF OfPlace
    <3>3. ~IsReference(e) /\ ~IsDiff(e) => 1 .. Len(t) = {}
      BY <2>4
    <3> QED
      BY <2>5, <3>1, <3>2, <3>3
  <2> QED
    BY <2>2, <2>5
<1>3. /\ IsSeq(s) /\ \A r \in 1 .. Len(s) : \E i \in 1 .. k : OfPlace(s[r], log[i])
      /\ \A i \in 1 .. k : IsReference(log[i]) => \E r \in 1 .. Len(s) : s[r] = Row(log[i])
      /\ \A r, q \in 1 .. Len(s) : \A i \in 1 .. k :
            IsReference(log[i]) /\ s[r].ref = log[i].item /\ s[q].ref = log[i].item => r = q
  <2>1. \A r \in 1 .. Len(s) : \E i \in 1 .. k : OfPlace(s[r], log[i])
    BY Zenon DEF RefsTable, OfPlace
  <2> QED
    BY <2>1, Zenon DEF RefsTable
<1>4. /\ IsSeq(u) /\ Len(u) = Len(s) + Len(t) /\ Len(s) \in Nat /\ Len(t) \in Nat
      /\ \A i \in 1 .. Len(s) : u[i] = s[i] /\ i \in 1 .. Len(u)
      /\ \A i \in 1 .. Len(t) : u[Len(s) + i] = t[i] /\ Len(s) + i \in 1 .. Len(u)
      /\ \A i \in 1 .. Len(u) : i \in 1 .. Len(s) \/ \E j \in 1 .. Len(t) : i = Len(s) + j
  BY <1>1 DEF IsJoined, IsSeq
<1>5. ASSUME NEW r \in 1 .. Len(u)
      PROVE  \/ r \in 1 .. Len(s) /\ \E i \in 1 .. k : OfPlace(u[r], log[i])
             \/ r \notin 1 .. Len(s) /\ OfPlace(u[r], e)
  <2>1. CASE r \in 1 .. Len(s)
    BY <1>3, <1>4, <2>1
  <2>2. CASE r \notin 1 .. Len(s)
    BY <1>2, <1>4, <2>2
  <2> QED
    BY <2>1, <2>2
<1>6. ASSUME NEW i \in 1 .. (k + 1), IsReference(log[i]) PROVE \E r \in 1 .. Len(u) : u[r] = Row(log[i])
  <2>1. CASE i \in 1 .. k
    BY <1>3, <1>4, <1>6, <2>1
  <2>2. CASE i = k + 1
    <3>1. Len(t) = 1 /\ t[1] = Row(e)
      BY <1>2, <1>6, <1>e, <2>2
    <3>2. 1 \in 1 .. Len(t)
      BY <3>1
    <3>3. u[Len(s) + 1] = t[1] /\ Len(s) + 1 \in 1 .. Len(u)
      BY <1>4, <3>2
    <3> QED
      BY <1>e, <2>2, <3>1, <3>3
  <2> QED
    BY <1>0, <2>1, <2>2
<1>7. ASSUME NEW r \in 1 .. Len(u), NEW i \in 1 .. (k + 1), IsReference(log[i]), u[r].ref = log[i].item
      PROVE  r \in 1 .. Len(s) <=> i \in 1 .. k
  <2>1. i \in 1 .. Len(log)
    BY <1>0
  <2>2. CASE r \in 1 .. Len(s)
    <3>1. PICK j \in 1 .. k : OfPlace(u[r], log[j])
      BY <1>5, <2>2
    <3>2. j = i
      BY <1>0, <1>7, <2>1, <3>1, PlaceOfRow
    <3> QED
      BY <2>2, <3>2
  <2>3. CASE r \notin 1 .. Len(s)
    <3>1. OfPlace(u[r], log[k + 1])
      BY <1>5, <1>e, <2>3
    <3>2. k + 1 = i
      BY <1>0, <1>7, <2>1, <3>1, PlaceOfRow
    <3> QED
      BY <1>0, <2>3, <3>2
  <2> QED
    BY <2>2, <2>3
<1>8. ASSUME NEW r \in 1 .. Len(u), NEW q \in 1 .. Len(u), NEW i \in 1 .. (k + 1), IsReference(log[i]),
             u[r].ref = log[i].item, u[q].ref = log[i].item
      PROVE  r = q
  <2>1. CASE i \in 1 .. k
    <3>1. r \in 1 .. Len(s) /\ q \in 1 .. Len(s)
      BY <1>7, <1>8, <2>1
    <3>2. s[r].ref = log[i].item /\ s[q].ref = log[i].item
      BY <1>4, <1>8, <3>1
    <3> QED
      BY <1>3, <1>8, <2>1, <3>1, <3>2, Zenon
  <2>2. CASE i = k + 1
    <3>1. r \notin 1 .. Len(s) /\ q \notin 1 .. Len(s)
      BY <1>0, <1>7, <1>8, <2>2
    <3>2. PICK a \in 1 .. Len(t) : r = Len(s) + a
      BY <1>4, <3>1
    <3>3. PICK b \in 1 .. Len(t) : q = Len(s) + b
      BY <1>4, <3>1
    <3>4. Len(t) = 1
      BY <1>2, <1>8, <1>e, <2>2
    <3> QED
      BY <3>2, <3>3, <3>4
  <2> QED
    BY <1>0, <2>1, <2>2
<1>9. \A r \in 1 .. Len(u) : \E i \in 1 .. (k + 1) : OfPlace(u[r], log[i])
  BY <1>0, <1>5, <1>e, Zenon
<1>10. ASSUME NEW r, NEW i \in 1 .. Len(log), NEW j \in 1 .. Len(log), i # j, OfPlace(r, log[i])
       PROVE  r.ref # log[j].id
  <2>1. log[i].id # log[j].id /\ log[i].item # log[j].id
    BY <1>10 DEF Minted
  <2> QED
    BY <1>10, <2>1, RowsMade DEF OfPlace
<1>11. \A i \in 1 .. Len(log) : Len(log[i].files) \in Nat /\ DOMAIN log[i].files = 1 .. Len(log[i].files)
  BY DEF Minted, LogOk, EventOk, IsSeq
<1>12. ASSUME NEW i \in 1 .. (k + 1), IsDiff(log[i])
       PROVE  \E o \in Nat : o + Len(log[i].files) <= Len(u) /\ DiffBlock(u, log[i], o)
  <2>m. PICK m : m = Len(log[i].files)
    OBVIOUS
  <2>0. m \in Nat /\ i \in 1 .. Len(log)
    BY <1>0, <1>11, <2>m
  <2>1. CASE i \in 1 .. k
    <3>1. PICK o \in Nat : o + m <= Len(s) /\ DiffBlock(s, log[i], o)
      BY <1>12, <2>1, <2>m DEF RefsTable, DiffBlocks
    <3>2. ASSUME NEW r \in 1 .. Len(u) PROVE u[r].ref = log[i].id <=> r \in (o + 1) .. (o + m)
      <4>1. CASE r \in 1 .. Len(s)
        BY <1>4, <2>m, <3>1, <4>1 DEF DiffBlock
      <4>2. CASE r \notin 1 .. Len(s)
        <5>1. OfPlace(u[r], log[k + 1])
          BY <1>5, <1>e, <4>2
        <5>2. u[r].ref # log[i].id
          BY <1>0, <1>10, <2>0, <2>1, <5>1
        <5>3. r \notin (o + 1) .. (o + m)
          BY <1>4, <2>0, <3>1, <4>2
        <5> QED
          BY <5>2, <5>3
      <4> QED
        BY <4>1, <4>2
    <3>3. o + m <= Len(u)
      BY <1>4, <2>0, <3>1
    <3> QED
      BY <2>m, <3>1, <3>2, <3>3 DEF DiffBlock
  <2>2. CASE i = k + 1
    <3>1. DOMAIN t = 1 .. m /\ \A j \in 1 .. m : t[j].ref = log[i].id
      BY <1>11, <1>12, <1>e, <1>t, <2>0, <2>2, <2>m, RowsMade
    <3>2. Len(t) = m
      <4>1. DOMAIN t = 1 .. Len(t)
        BY <1>1
      <4> QED
        BY <1>4, <2>0, <3>1, <4>1
    <3>3. ASSUME NEW r \in 1 .. Len(u)
          PROVE  u[r].ref = log[i].id <=> r \in (Len(s) + 1) .. (Len(s) + m)
      <4>1. CASE r \in 1 .. Len(s)
        <5>1. PICK j \in 1 .. k : OfPlace(u[r], log[j])
          BY <1>5, <4>1
        <5>2. j \in 1 .. Len(log) /\ j # i
          BY <1>0, <2>2
        <5>3. u[r].ref # log[i].id
          BY <1>10, <2>0, <5>1, <5>2
        <5>4. r \notin (Len(s) + 1) .. (Len(s) + m)
          BY <1>4, <4>1
        <5> QED
          BY <5>3, <5>4
      <4>2. CASE r \notin 1 .. Len(s)
        <5>1. PICK j \in 1 .. m : r = Len(s) + j
          BY <1>4, <3>2, <4>2
        <5>2. u[r].ref = log[i].id
          BY <1>4, <3>1, <3>2, <5>1
        <5>3. r \in (Len(s) + 1) .. (Len(s) + m)
          BY <1>4, <2>0, <5>1
        <5> QED
          BY <5>2, <5>3
      <4> QED
        BY <4>1, <4>2
    <3>4. Len(s) \in Nat /\ Len(s) + m <= Len(u)
      BY <1>4, <3>2
    <3> QED
      BY <2>m, <3>3, <3>4 DEF DiffBlock
  <2> QED
    BY <1>0, <2>1, <2>2
<1>13. DiffBlocks(u, log, k + 1)
  BY <1>12 DEF DiffBlocks
<1> QED
  BY <1>4, <1>6, <1>8, <1>9, <1>13, Zenon DEF RefsTable, OfPlace

\* x has the rows of the first k events of log.
Tables(x, log, k) ==
    ItemsTable(x.items, log, k) /\ DiffsTable(x.diffs, log, k) /\ RefsTable(x.refs, log, k)

LEMMA TablesGrow ==
    ASSUME NEW log, Minted(log), NEW k \in Nat, k + 1 \in 1 .. Len(log), NEW x, Graph(x, log, k),
           Tables(x, log, k)
    PROVE  Tables(ApplyEvent(x, log[k + 1]), log, k + 1)
<1>e. PICK e : e = log[k + 1]
  OBVIOUS
<1>y. PICK y : y = ApplyEvent(x, e)
  OBVIOUS
<1>0. EventOk(e) /\ k + 1 \in DOMAIN log
  BY <1>e DEF Minted, LogOk, IsSeq
<1>1. Follows(x, y, e)
  <2>1. x.refs \in Seq(Upto(Rows(log), k)) /\ DOMAIN x = DOMAIN EmptyIndex
    BY DEF Graph
  <2> QED
    BY <1>0, <1>y, <2>1, Applied DEF EventOk
<1>2. ItemsTable(y.items, log, k + 1)
  <2>1. y.items = IF IsUpload(e) THEN Put(x.items, e.item, [owner |-> OwnerOf(e), at |-> e.recorded])
                  ELSE x.items
    BY <1>1, Zenon DEF Follows, IsUpload
  <2>2. ItemsTable(x.items, log, k)
    BY DEF Tables
  <2> QED
    BY <1>e, <2>1, <2>2, ItemsGrow
<1>3. DiffsTable(y.diffs, log, k + 1)
  <2>1. y.diffs = IF IsDiff(e) THEN Put(x.diffs, e.id, DiffOf(e)) ELSE x.diffs
    BY <1>1, Zenon DEF Follows, IsDiff
  <2>2. DiffsTable(x.diffs, log, k)
    BY DEF Tables
  <2> QED
    BY <1>e, <2>1, <2>2, DiffsGrow
<1>4. RefsTable(y.refs, log, k + 1)
  <2>a. PICK A : A = Upto(Rows(log), k + 1)
    OBVIOUS
  <2>0. Upto(Rows(log), k + 1) = Upto(Rows(log), k) \cup ToSet(RefsOf(e))
    <3>1. Rows(log)[k + 1] = ToSet(RefsOf(e))
      BY <1>0, <1>e, Zenon DEF Rows
    <3> QED
      BY <3>1, OneMore
  <2>1. x.refs \in Seq(A)
    BY <2>0, <2>a, SeqWithin DEF Graph
  <2>2. RefsOf(log[k + 1]) \in Seq(A)
    BY <1>0, <1>e, <2>0, <2>a, RefsListed, SeqWithin
  <2>3. y.refs = x.refs \o RefsOf(log[k + 1])
    BY <1>1, <1>e DEF Follows
  <2>4. RefsTable(x.refs, log, k)
    BY DEF Tables
  <2> QED
    BY <2>1, <2>2, <2>3, <2>4, RefsGrow
<1> QED
  BY <1>e, <1>y, <1>2, <1>3, <1>4 DEF Tables

\* Folding a log fills the tables with one row for each event that makes one.
LEMMA TablesOfLog ==
    ASSUME NEW log, Minted(log)
    PROVE  Tables(RebuildServerIndex(log), log, Len(log))
<1>0. IsSeq(log) /\ Len(log) \in Nat /\ LogOk(log)
  BY DEF Minted, LogOk, IsSeq
<1>1. PICK st : Steps(st, log) /\ RebuildServerIndex(log) = st[Len(log)]
  BY <1>0, Folded
<1> DEFINE Good(k) == Graph(st[k], log, k) /\ Tables(st[k], log, k)
           Bad == {k \in Nat : k <= Len(log) /\ ~Good(k)}
<1>2. Good(0)
  <2>1. st[0] = EmptyIndex
    BY <1>1 DEF Steps
  <2>2. /\ Upto(Nodes(log), 0) = {} /\ Upto(Links(log), 0) = {}
        /\ Upto(Rows(log), 0) = {} /\ Upto(FileRows(log), 0) = {}
    BY OneMore
  <2>3. PathsOf(<<>>) = {} /\ <<>> \in Seq({})
    BY DEF PathsOf
  <2>4. /\ EmptyIndex.nodes = {} /\ EmptyIndex.links = {} /\ EmptyIndex.refs = <<>>
        /\ EmptyIndex.paths = {} /\ DOMAIN EmptyIndex.up = {}
        /\ EmptyIndex.items = <<>> /\ EmptyIndex.diffs = <<>>
    BY DEF EmptyIndex
  <2>9. Stored({}, log, 0)
    BY DEF Stored
  <2>5. Graph(st[0], log, 0)
    BY <2>1, <2>2, <2>3, <2>4, <2>9 DEF Graph
  <2>6. 1 .. 0 = {} /\ DOMAIN <<>> = {} /\ Len(<<>>) = 0 /\ 1 .. Len(<<>>) = {} /\ IsSeq(<<>>)
    BY DEF IsSeq
  <2>7. ItemsTable(<<>>, log, 0) /\ DiffsTable(<<>>, log, 0)
    BY <2>6 DEF ItemsTable, DiffsTable
  <2>8. RefsTable(<<>>, log, 0)
    BY <2>6, Zenon DEF RefsTable, DiffBlocks
  <2> QED
    BY <2>1, <2>4, <2>5, <2>7, <2>8 DEF Tables
<1>3. ASSUME Bad # {} PROVE FALSE
  <2>1. PICK k \in Bad : \A j \in Bad : k <= j
    BY <1>3, LeastElement
  <2>2. k \in Nat /\ k # 0 /\ k <= Len(log) /\ ~Good(k)
    BY <1>2
  <2>3. k - 1 \in Nat /\ k - 1 \notin Bad /\ k - 1 <= Len(log)
    <3> HIDE DEF Bad
    <3>1. k - 1 \in Nat /\ ~(k <= k - 1) /\ k - 1 <= Len(log)
      BY <1>0, <2>2
    <3> QED
      BY <2>1, <3>1
  <2>j. PICK j : j = k - 1
    OBVIOUS
  <2>4. j \in Nat /\ j + 1 = k /\ j + 1 \in 1 .. Len(log) /\ Good(j)
    <3> HIDE DEF Good
    <3> QED
      BY <1>0, <2>2, <2>3, <2>j
  <2>5. st[k] = ApplyEvent(st[j], log[j + 1])
    BY <1>1, <2>j, <2>4 DEF Steps
  <2> HIDE DEF Bad
  <2>6. Graph(st[k], log, k)
    BY <1>0, <2>4, <2>5, GraphGrows
  <2>7. Tables(st[k], log, k)
    BY <2>4, <2>5, TablesGrow
  <2> QED
    BY <2>2, <2>6, <2>7
<1>4. Good(Len(log))
  <2> HIDE DEF Good
  <2> QED
    BY <1>0, <1>3
<1> QED
  BY <1>1, <1>4

LEMMA MintedRows ==
    ASSUME HistoryInv, lines = 0
    PROVE  Minted(Events) /\ Tables(Build(rows), Events, Len(Events))
<1>1. rows \subseteq Pool /\ IsLedger(rows) /\ Ordering(Events, rows)
  BY QuietRows
<1>2. Build(rows) = RebuildServerIndex(Events)
  BY DEF Build, RebuildServerIndex, Events
<1>3. \A i \in 1 .. Len(Events) : Events[i] \in Pool /\ Events[i] \in rows
  BY <1>1 DEF Ordering
<1>4. \A i, j \in 1 .. Len(Events) : Events[i] = Events[j] => i = j
  <2>1. Lists(Events, rows, Earlier(rows)) /\ Len(Events) = Cardinality(rows)
    BY <1>1, EventsListed DEF Events
  <2>2. IsOrder(Earlier(rows), rows) /\ Len(Events) \in Nat
    BY <1>1, EventsListed DEF Ordering, LogOk, IsSeq
  <2>3. \A i, j \in 1 .. Len(Events) : i < j => <<Events[i], Events[j]>> \in Earlier(rows)
    BY <2>1 DEF Lists
  <2>4. \A e \in rows : <<e, e>> \notin Earlier(rows)
    BY <2>2 DEF IsOrder
  <2>5. ASSUME NEW i \in 1 .. Len(Events), NEW j \in 1 .. Len(Events), Events[i] = Events[j]
        PROVE  ~(i < j)
    <3>1. ASSUME i < j PROVE FALSE
      <4>1. <<Events[i], Events[i]>> \in Earlier(rows)
        BY <2>3, <2>5, <3>1
      <4> QED
        BY <1>3, <2>4, <4>1
    <3> QED
      BY <3>1
  <2>6. ASSUME NEW i \in 1 .. Len(Events), NEW j \in 1 .. Len(Events), Events[i] = Events[j]
        PROVE  i = j
    <3>1. ~(i < j) /\ ~(j < i)
      BY <2>5, <2>6
    <3>2. i \in Int /\ j \in Int
      BY <2>2
    <3> QED
      BY <3>1, <3>2
  <2> QED
    BY <2>6
<1>5. \A e \in Pool : \A d \in Pool : /\ e.item # None /\ e.item = d.item => e = d
                                      /\ e.item # d.id
  BY IdsAssumption
<1>6. \A i, j \in 1 .. Len(Events) : Events[i].id = Events[j].id => i = j
  BY <1>1, <1>3, <1>4 DEF IsLedger
<1>7. \A i, j \in 1 .. Len(Events) : /\ Events[i].item # None /\ Events[i].item = Events[j].item => i = j
                                     /\ Events[i].item # Events[j].id
  BY <1>3, <1>4, <1>5
<1>8. \A e \in Pool : e.type \in Uploads \cup {"artifact.file_ref_recorded"} => e.item # None \/ ~Applies(e)
  <2>1. \A e : e.type = "repo_context.captured" => e.item # None \/ ~Applies(e)
    BY DEF Applies, Needed
  <2>2. \A e \in Pool : e.type \in {"session.log_uploaded", "artifact.attachment_uploaded",
                        "artifact.file_ref_recorded"} => e.item # None
    BY ProvenanceAssumption
  <2> QED
    BY <2>1, <2>2 DEF Uploads
<1>9. Minted(Events)
  BY <1>1, <1>3, <1>6, <1>7, <1>8 DEF Minted, Ordering
<1> QED
  BY <1>2, <1>9, TablesOfLog

-----------------------------------------------------------------------------
(* What the cache answers about artifacts and sessions. *)

LEMMA PathsComplete == HistoryInv => ArtifactPathsComplete
<1> SUFFICES ASSUME HistoryInv, lines = 0
             PROVE  InsertFiles(Build(rows)) = {<<q[1].artifact, q[1].files[q[2]].path>> : q \in Changes}
  BY DEF ArtifactPathsComplete, Quiet
<1>1. rows \subseteq Pool /\ Ordering(Events, rows)
  BY QuietRows
<1>2. InsertFiles(Build(rows)) = UNION {PathsOf(RefsOf(e)) : e \in rows}
  BY <1>1, GraphOfOrdering DEF Build, RebuildServerIndex, Events
<1>3. \A e \in rows : EventOk(e) /\ (IsReference(e) => Len(e.files) = 1)
  BY <1>1, ProvenanceAssumption DEF EventOk, IsSeq, IsReference
<1>P. PICK P : P = UNION {PathsOf(RefsOf(e)) : e \in rows}
  OBVIOUS
<1>Q. PICK Q : Q = {<<q[1].artifact, q[1].files[q[2]].path>> : q \in Changes}
  OBVIOUS
<1>4. \A p : p \in P <=> \E e \in rows : p \in PathsOf(RefsOf(e))
  BY <1>P, Zenon
<1>5. \A p : p \in Q <=> \E q \in Changes : p = <<q[1].artifact, q[1].files[q[2]].path>>
  BY <1>Q, Zenon
<1>6. \A e \in rows : \A p : p \in PathsOf(RefsOf(e))
             <=> Changer(e) /\ \E i \in DOMAIN e.files : p = <<e.artifact, e.files[i].path>>
  BY <1>3, ChangePaths, Zenon
<1>7. ASSUME NEW p \in P PROVE p \in Q
  <2>0. PICK e \in rows : p \in PathsOf(RefsOf(e))
    BY <1>4
  <2>1. Changer(e) /\ \E i \in DOMAIN e.files : p = <<e.artifact, e.files[i].path>>
    BY <1>6, <2>0, Zenon
  <2>2. PICK i \in DOMAIN e.files : p = <<e.artifact, e.files[i].path>>
    BY <2>1
  <2>3. <<e, i>> \in Changes
    BY <2>1, ChangesOf
  <2>4. <<e, i>>[1] = e /\ <<e, i>>[2] = i
    OBVIOUS
  <2> QED
    BY <1>5, <2>2, <2>3, <2>4
<1>8. ASSUME NEW p \in Q PROVE p \in P
  <2>1. PICK q \in Changes : p = <<q[1].artifact, q[1].files[q[2]].path>>
    BY <1>5
  <2>2. PICK e \in rows : Changer(e) /\ \E i \in DOMAIN e.files : q = <<e, i>>
    BY ChangesOf
  <2>3. PICK i \in DOMAIN e.files : q = <<e, i>>
    BY <2>2
  <2>4. p = <<e.artifact, e.files[i].path>>
    BY <2>1, <2>3
  <2> QED
    BY <1>4, <1>6, <2>2, <2>4
<1>9. P = Q
  BY <1>7, <1>8
<1> QED
  BY <1>2, <1>P, <1>Q, <1>9

\* What records an artifact with a session, and with a mission.
WithSession == {"artifact.created", "artifact.updated", "artifact.file_ref_recorded",
                "artifact.attachment_uploaded", "diff.captured"}
WithMission == {"artifact.created", "artifact.linked_to_mission", "diff.captured"}

\* The links of an event, in one disjunction.
LinkForms(e, a, b) ==
    \/ /\ e.type \in {"project.created", "project.updated", "mission.created", "mission.updated"}
       /\ a = e.parent
    \/ /\ e.type \in {"session.started", "session.linked_to_mission"}
       /\ e.mission # None /\ <<a, b>> \in Both(e.session, e.mission)
    \/ e.type = "session.log_uploaded" /\ a = e.session /\ b = e.item
    \/ e.type = "artifact.attachment_uploaded" /\ a = e.artifact /\ b = e.item
    \/ e.type = "diff.captured" /\ a = e.artifact /\ b = e.id
    \/ e.type \in WithSession /\ e.session # None /\ <<a, b>> \in Both(e.artifact, e.session)
    \/ e.type \in WithMission /\ e.mission # None /\ <<a, b>> \in Both(e.artifact, e.mission)

LEMMA LinkForm ==
    ASSUME NEW e \in Pool, NEW a, NEW b
    PROVE  /\ <<a, b>> \in LinksOf(e) => Applies(e) /\ LinkForms(e, a, b) /\ a # None
           /\ Applies(e) /\ e.type \in WithSession /\ e.session # None /\ <<a, b>> \in Both(e.artifact, e.session)
                => <<a, b>> \in LinksOf(e) /\ e.artifact \in NodesOf(e)
           /\ Applies(e) /\ e.type \in WithMission /\ e.mission # None /\ <<a, b>> \in Both(e.artifact, e.mission)
                => <<a, b>> \in LinksOf(e) /\ e.artifact \in NodesOf(e)
           /\ Applies(e) /\ e.type = "session.log_uploaded" => <<e.session, e.item>> \in LinksOf(e)
<1>1. e.type \in EventTypes /\ (e.type \in {"project.created", "mission.created"} => e.parent # None)
  BY ProvenanceAssumption
<1>2. ASSUME <<a, b>> \in LinksOf(e) PROVE Applies(e) /\ LinkForms(e, a, b)
  <2>0. Applies(e)
    BY <1>2 DEF LinksOf
  <2> SUFFICES LinkForms(e, a, b)
    BY <2>0
  <2>O. \A c, S : Opt(c, S) = IF c = None THEN {} ELSE S
    BY DEF Opt
  <2>s. PICK s : s = Both(e.artifact, e.session)
    OBVIOUS
  <2>m. PICK m : m = Both(e.artifact, e.mission)
    OBVIOUS
  <2>l. PICK l : l = Both(e.session, e.mission)
    OBVIOUS
  <2>1. CASE e.type \in {"project.created", "project.updated", "mission.created", "mission.updated"}
    <3>1. \E c : LinksOf(e) \subseteq {<<e.parent, c>>}
      BY <2>0, <2>1 DEF LinksOf, Opt
    <3> QED
      BY <1>2, <2>1, <3>1 DEF LinkForms
  <2>2. CASE e.type \in {"session.started", "session.linked_to_mission"}
    <3>1. LinksOf(e) = Opt(e.mission, l)
      BY <2>0, <2>2, <2>l, <2>O DEF LinksOf, Applies, Needed
    <3> QED
      BY <1>2, <2>2, <2>l, <2>O, <3>1 DEF LinkForms
  <2>3. CASE e.type = "session.log_uploaded"
    BY <1>2, <2>3, <2>0 DEF LinksOf, LinkForms
  <2>4. CASE e.type = "artifact.attachment_uploaded"
    <3>1. LinksOf(e) = {<<e.artifact, e.item>>} \cup Opt(e.session, s)
      BY <2>0, <2>4, <2>s DEF LinksOf
    <3> QED
      BY <1>2, <2>4, <2>s, <2>O, <3>1 DEF LinkForms, WithSession
  <2>5. CASE e.type = "diff.captured"
    <3>1. LinksOf(e) = {<<e.artifact, e.id>>} \cup Opt(e.session, s) \cup Opt(e.mission, m)
      BY <2>0, <2>5, <2>s, <2>m DEF LinksOf
    <3> QED
      BY <1>2, <2>5, <2>s, <2>m, <2>O, <3>1 DEF LinkForms, WithSession, WithMission
  <2>6. CASE e.type = "artifact.created"
    <3>1. LinksOf(e) = Opt(e.mission, m) \cup Opt(e.session, s)
      BY <2>0, <2>6, <2>s, <2>m DEF LinksOf
    <3> QED
      BY <1>2, <2>6, <2>s, <2>m, <2>O, <3>1 DEF LinkForms, WithSession, WithMission
  <2>7. CASE e.type \in {"artifact.updated", "artifact.file_ref_recorded"}
    <3>1. LinksOf(e) = Opt(e.session, s)
      BY <2>0, <2>7, <2>s DEF LinksOf
    <3> QED
      BY <1>2, <2>7, <2>s, <2>O, <3>1 DEF LinkForms, WithSession
  <2>8. CASE e.type = "artifact.linked_to_mission"
    <3>1. LinksOf(e) = m /\ e.mission # None
      BY <2>0, <2>8, <2>m DEF LinksOf, Applies, Needed
    <3> QED
      BY <1>2, <2>8, <2>m, <3>1 DEF LinkForms, WithMission
  <2>9. CASE e.type \in {"org.created", "org.updated", "repo_context.captured", "artifact.reviewed",
                       "artifact.accepted", "external_ref.linked", "source.session_observed"}
    <3>1. LinksOf(e) = {}
      BY <2>9 DEF LinksOf
    <3> QED
      BY <1>2, <3>1
  <2> QED
    BY <1>1, <2>1, <2>2, <2>3, <2>4, <2>5, <2>6, <2>7, <2>8, <2>9 DEF EventTypes
<1>3. ASSUME <<a, b>> \in LinksOf(e) PROVE a # None
  BY <1>1, <1>3 DEF LinksOf, Opt, Both, Applies, Needed, EventTypes
<1>4. ASSUME Applies(e), e.type \in WithSession, e.session # None, <<a, b>> \in Both(e.artifact, e.session)
      PROVE <<a, b>> \in LinksOf(e) /\ e.artifact \in NodesOf(e)
  BY <1>4 DEF LinksOf, NodesOf, Opt, WithSession
<1>5. ASSUME Applies(e), e.type \in WithMission, e.mission # None, <<a, b>> \in Both(e.artifact, e.mission)
      PROVE <<a, b>> \in LinksOf(e) /\ e.artifact \in NodesOf(e)
  BY <1>5 DEF LinksOf, NodesOf, Opt, WithMission
<1>6. ASSUME Applies(e), e.type = "session.log_uploaded" PROVE <<e.session, e.item>> \in LinksOf(e)
  BY <1>6 DEF LinksOf
<1> QED
  BY <1>2, <1>3, <1>4, <1>5, <1>6

\* What ids tell apart, of two events of the pool.
LEMMA IdsApart ==
    ASSUME NEW e \in Pool
    PROVE  /\ e.mission \in Linked \cup {None} /\ e.session \in Linked \cup {None}
           /\ e.artifact \in Artifacts \cup {None} /\ e.mission \notin Artifacts /\ e.session \notin Artifacts
           /\ e.id \notin Linked /\ e.parent \notin Linked /\ e.item \notin Linked
           /\ None \notin Linked /\ Artifacts \subseteq Linked
           /\ \A d \in Pool : d.session # None => d.session # e.mission
BY IdsAssumption

RecordedWith(e, a, n) ==
    /\ Applies(e) /\ a = e.artifact
    /\ \/ e.type \in WithSession /\ e.session = n
       \/ e.type \in WithMission /\ e.mission = n

LEMMA ArtifactLinks ==
    ASSUME NEW e \in Pool, NEW a \in Artifacts \cup {None}, NEW n \in Linked
    PROVE  /\ <<a, n>> \in LinksOf(e) => RecordedWith(e, a, n)
           /\ RecordedWith(e, a, n) => <<a, n>> \in LinksOf(e) /\ a \in NodesOf(e)
<1>1. /\ e.mission \in Linked \cup {None} /\ e.session \in Linked \cup {None}
      /\ e.artifact \in Artifacts \cup {None} /\ e.mission \notin Artifacts /\ e.session \notin Artifacts
      /\ e.id \notin Linked /\ e.parent \notin Linked /\ e.item \notin Linked
      /\ None \notin Linked /\ Artifacts \subseteq Linked
  BY IdsApart
<1>2. ASSUME <<a, n>> \in LinksOf(e) PROVE RecordedWith(e, a, n)
  <2>1. Applies(e) /\ LinkForms(e, a, n) /\ a # None
    BY <1>2, LinkForm
  <2>2. \A x, y : <<a, n>> \in Both(x, y) => (a = x /\ n = y) \/ (a = y /\ n = x)
    BY DEF Both
  <2>3. \/ a = e.artifact /\ e.type \in WithSession /\ e.session = n
        \/ a = e.artifact /\ e.type \in WithMission /\ e.mission = n
    BY <1>1, <2>1, <2>2 DEF LinkForms
  <2> QED
    BY <2>1, <2>3, Zenon DEF RecordedWith
<1>3. ASSUME RecordedWith(e, a, n) PROVE <<a, n>> \in LinksOf(e) /\ a \in NodesOf(e)
  <2>1. n # None
    BY <1>1
  <2>2. Applies(e) /\ a = e.artifact
    BY <1>3 DEF RecordedWith
  <2>3. CASE e.type \in WithSession /\ e.session = n
    <3>1. <<a, n>> \in Both(e.artifact, e.session)
      BY <2>2, <2>3 DEF Both
    <3> QED
      BY <2>1, <2>2, <2>3, <3>1, LinkForm
  <2>4. CASE e.type \in WithMission /\ e.mission = n
    <3>1. <<a, n>> \in Both(e.artifact, e.mission)
      BY <2>2, <2>4 DEF Both
    <3> QED
      BY <2>1, <2>2, <2>4, <3>1, LinkForm
  <2> QED
    BY <1>3, <2>3, <2>4 DEF RecordedWith
<1> QED
  BY <1>2, <1>3

\* The graph of the rows, membership by membership.
LEMMA GraphOfRows ==
    ASSUME HistoryInv, lines = 0
    PROVE  /\ \A p : p \in Build(rows).links <=> \E e \in rows : p \in LinksOf(e)
           /\ \A n : n \in Build(rows).nodes <=> \E e \in rows : n \in NodesOf(e)
           /\ rows \subseteq Pool
<1>1. rows \subseteq Pool /\ Ordering(Events, rows)
  BY QuietRows
<1>2. /\ Build(rows).links = UNION {LinksOf(e) : e \in rows}
      /\ Build(rows).nodes = UNION {NodesOf(e) : e \in rows}
  BY <1>1, GraphOfOrdering DEF Build, RebuildServerIndex, Events
<1> QED
  BY <1>1, <1>2, Zenon

LEMMA QueryOf ==
    ASSUME NEW x, NEW S, NEW n, n # None
    PROVE  /\ \A a : a \in QuerySqliteArtifacts(x, S, n, None) <=> a \in S /\ a \in x.nodes /\ <<a, n>> \in x.links
           /\ QuerySqliteArtifacts(x, S, n, n) = QuerySqliteArtifacts(x, S, None, n)
<1>1. \A a \in S : <<a, n>> \in InsertArtifact(x, S) <=> <<a, n>> \in x.links
  BY DEF InsertArtifact
<1>2. \A s, m : \A a : a \in QuerySqliteArtifacts(x, S, s, m) <=>
         /\ a \in S /\ a \in x.nodes
         /\ s # None => <<a, s>> \in InsertArtifact(x, S)
         /\ m # None => <<a, m>> \in InsertArtifact(x, S)
  BY Zenon DEF QuerySqliteArtifacts
<1>3. \A a : a \in QuerySqliteArtifacts(x, S, n, n) <=> a \in QuerySqliteArtifacts(x, S, None, n)
  BY <1>2, Zenon
<1>P. PICK P : P = QuerySqliteArtifacts(x, S, n, n)
  OBVIOUS
<1>Q. PICK Q : Q = QuerySqliteArtifacts(x, S, None, n)
  OBVIOUS
<1>4. \A a : a \in P <=> a \in Q
  BY <1>3, <1>P, <1>Q, Zenon
<1>6. P = Q
  BY <1>4
<1> QED
  BY <1>1, <1>2, <1>6, <1>P, <1>Q, Zenon

\* The events of some types that apply.
AppliedOf(types) == {e \in rows : e.type \in types /\ Applies(e)}
ArtifactsWith(n) ==
    {e.artifact : e \in {d \in AppliedOf(WithSession) : d.session = n}
                        \cup {d \in AppliedOf(WithMission) : d.mission = n}}

LEMMA WithForm ==
    \A n : \A a : a \in ArtifactsWith(n) <=> \E e \in rows : RecordedWith(e, a, n)
<1> SUFFICES ASSUME NEW n, NEW a
             PROVE  a \in ArtifactsWith(n) <=> \E e \in rows : RecordedWith(e, a, n)
  OBVIOUS
<1>D. PICK D : D = {d \in AppliedOf(WithSession) : d.session = n}
  OBVIOUS
<1>M. PICK M : M = {d \in AppliedOf(WithMission) : d.mission = n}
  OBVIOUS
<1>1. \A e : e \in D <=> e \in rows /\ e.type \in WithSession /\ Applies(e) /\ e.session = n
  BY <1>D, Zenon DEF AppliedOf
<1>2. \A e : e \in M <=> e \in rows /\ e.type \in WithMission /\ Applies(e) /\ e.mission = n
  BY <1>M, Zenon DEF AppliedOf
<1>3. a \in ArtifactsWith(n) <=> \E e \in D \cup M : a = e.artifact
  BY <1>D, <1>M, Zenon DEF ArtifactsWith
<1>4. \A e : (e \in D \cup M /\ a = e.artifact) <=> e \in rows /\ RecordedWith(e, a, n)
  BY <1>1, <1>2, Zenon DEF RecordedWith
<1> QED
  BY <1>3, <1>4, Zenon

LEMMA QueryComplete == HistoryInv => ArtifactQueryComplete
<1> SUFFICES ASSUME HistoryInv, lines = 0, NEW n \in Linked
             PROVE  LET S == {e.artifact : e \in rows}
                    IN /\ QuerySqliteArtifacts(Build(rows), S, n, None) = ArtifactsWith(n)
                       /\ QuerySqliteArtifacts(Build(rows), S, n, n)
                            = QuerySqliteArtifacts(Build(rows), S, None, n)
  BY Zenon DEF ArtifactQueryComplete, Quiet, ArtifactsWith, AppliedOf, WithSession, WithMission
<1>x. PICK x : x = Build(rows)
  OBVIOUS
<1>S. PICK S : S = {e.artifact : e \in rows}
  OBVIOUS
<1>1. /\ \A p : p \in x.links <=> \E e \in rows : p \in LinksOf(e)
      /\ \A m : m \in x.nodes <=> \E e \in rows : m \in NodesOf(e)
      /\ rows \subseteq Pool
  BY <1>x, GraphOfRows
<1>2. n # None
  BY IdsAssumption
<1>3. \A a : a \in S <=> \E e \in rows : a = e.artifact
  BY <1>S, Zenon
<1>4. \A e \in rows : e.artifact \in Artifacts \cup {None}
  BY <1>1, IdsApart
<1>5. \A a \in S : a \in Artifacts \cup {None}
  BY <1>3, <1>4
<1>P. PICK P : P = QuerySqliteArtifacts(x, S, n, None)
  OBVIOUS
<1>Q. PICK Q : Q = ArtifactsWith(n)
  OBVIOUS
<1>6. \A a : a \in P <=> a \in S /\ a \in x.nodes /\ <<a, n>> \in x.links
  BY <1>2, <1>P, QueryOf
<1>7. \A a : a \in Q <=> \E e \in rows : RecordedWith(e, a, n)
  BY <1>Q, WithForm, Zenon
<1>8. ASSUME NEW a \in P PROVE a \in Q
  <2>1. a \in Artifacts \cup {None} /\ <<a, n>> \in x.links
    BY <1>5, <1>6
  <2>2. PICK e \in rows : <<a, n>> \in LinksOf(e)
    BY <1>1, <2>1
  <2>3. e \in Pool
    BY <1>1
  <2>4. RecordedWith(e, a, n)
    BY <2>1, <2>2, <2>3, ArtifactLinks
  <2> QED
    BY <1>7, <2>4, Zenon
<1>9. ASSUME NEW a \in Q PROVE a \in P
  <2>1. PICK e \in rows : RecordedWith(e, a, n)
    BY <1>7, Zenon
  <2>2. a = e.artifact /\ e \in Pool
    BY <1>1, <2>1 DEF RecordedWith
  <2>3. a \in S /\ a \in Artifacts \cup {None}
    BY <1>3, <1>5, <2>2
  <2>4. <<a, n>> \in LinksOf(e) /\ a \in NodesOf(e)
    BY <2>1, <2>2, <2>3, ArtifactLinks
  <2> QED
    BY <1>1, <1>6, <2>3, <2>4
<1>10. P = Q
  BY <1>8, <1>9
<1> QED
  BY <1>2, <1>x, <1>S, <1>P, <1>Q, <1>10, QueryOf, Zenon

LEMMA SessionLinks ==
    ASSUME NEW e \in Pool, NEW d \in Pool, d.session # None, NEW y, <<d.session, y>> \in LinksOf(e)
    PROVE  \/ y \in Linked /\ y \notin Artifacts
           \/ IsUpload(e) /\ y = e.item /\ OwnerOf(e) = d.session
           \/ y \in Artifacts /\ <<y, d.session>> \in LinksOf(e)
<1>s. PICK s : s = d.session
  OBVIOUS
<1>1. /\ e.mission \in Linked \cup {None} /\ e.session \in Linked \cup {None}
      /\ e.artifact \in Artifacts \cup {None} /\ e.mission \notin Artifacts /\ e.session \notin Artifacts
      /\ e.id \notin Linked /\ e.parent \notin Linked /\ e.item \notin Linked
      /\ None \notin Linked /\ Artifacts \subseteq Linked
  BY IdsApart
<1>2. s \in Linked /\ s \notin Artifacts /\ s # None /\ s # e.mission
  BY <1>s, IdsApart
<1>3. Applies(e) /\ LinkForms(e, s, y)
  BY <1>s, LinkForm
<1>4. \A a, b : <<s, y>> \in Both(a, b) <=> (s = a /\ y = b) \/ (s = b /\ y = a)
  BY DEF Both
<1>5. \/ e.mission # None /\ s = e.session /\ y = e.mission
      \/ e.type = "session.log_uploaded" /\ s = e.session /\ y = e.item
      \/ s = e.artifact
      \/ e.type \in WithSession /\ e.session # None /\ s = e.session /\ y = e.artifact
  BY <1>1, <1>2, <1>3, <1>4 DEF LinkForms
<1>6. CASE e.mission # None /\ y = e.mission
  BY <1>1, <1>6
<1>7. CASE e.type = "session.log_uploaded" /\ s = e.session /\ y = e.item
  <2>1. IsUpload(e) /\ OwnerOf(e) = s
    BY <1>3, <1>7 DEF IsUpload, OwnerOf, Uploads
  <2> QED
    BY <1>7, <1>s, <2>1
<1>8. CASE s = e.artifact
  BY <1>1, <1>2, <1>8
<1>9. CASE e.type \in WithSession /\ e.session # None /\ s = e.session /\ y = e.artifact
  <2>1. e.artifact # None
    BY <1>3, <1>9 DEF Applies, Needed, WithSession
  <2>2. <<y, s>> \in Both(e.artifact, e.session)
    BY <1>9 DEF Both
  <2>3. <<y, s>> \in LinksOf(e)
    BY <1>3, <1>9, <2>2, LinkForm
  <2> QED
    BY <1>1, <1>9, <1>s, <2>1, <2>3
<1> QED
  BY <1>5, <1>6, <1>7, <1>8, <1>9

LEMMA EntriesNamed ==
    ASSUME NEW e \in Pool
    PROVE  None \notin NodesOf(e)
<1>1. e.type \in EventTypes /\ (e.type \in {"project.created", "mission.created"} => e.parent # None)
  BY ProvenanceAssumption
<1>2. \A b : None \notin Opt(b, {b})
  BY DEF Opt
<1>3. CASE Applies(e)
  BY <1>1, <1>2, <1>3 DEF NodesOf, Applies, Needed, Opt, EventTypes
<1>4. CASE ~Applies(e)
  BY <1>4 DEF NodesOf
<1> QED
  BY <1>3, <1>4

LEMMA LinksArePairs ==
    ASSUME NEW e, NEW p \in LinksOf(e)
    PROVE  p = <<p[1], p[2]>>
<1>N. PICK N : N = {e.parent, e.project, e.mission, e.session, e.artifact, e.item, e.id}
  OBVIOUS
<1>P. PICK P : P = N \X N
  OBVIOUS
<1>1. \A a, b \in N : <<a, b>> \in P
  BY <1>P
<1>2. /\ e.parent \in N /\ e.project \in N /\ e.mission \in N /\ e.session \in N /\ e.artifact \in N
      /\ e.item \in N /\ e.id \in N
  BY <1>N
<1>3. \A a, b \in N : Both(a, b) \subseteq P
  BY <1>1 DEF Both
<1>4. \A b, L : L \subseteq P => Opt(b, L) \subseteq P
  BY DEF Opt
<1>5. /\ <<e.parent, e.project>> \in P /\ <<e.parent, e.mission>> \in P /\ <<e.session, e.item>> \in P
      /\ <<e.artifact, e.item>> \in P /\ <<e.artifact, e.id>> \in P
  BY <1>1, <1>2
<1>6. /\ Both(e.session, e.mission) \subseteq P /\ Both(e.artifact, e.mission) \subseteq P
      /\ Both(e.artifact, e.session) \subseteq P
  BY <1>2, <1>3
<1>7. /\ Opt(e.mission, Both(e.session, e.mission)) \subseteq P
      /\ Opt(e.mission, Both(e.artifact, e.mission)) \subseteq P
      /\ Opt(e.session, Both(e.artifact, e.session)) \subseteq P
      /\ Opt(e.parent, {<<e.parent, e.project>>}) \subseteq P
      /\ Opt(e.parent, {<<e.parent, e.mission>>}) \subseteq P
  BY <1>4, <1>5, <1>6
<1>8. LinksOf(e) \subseteq P
  BY <1>5, <1>6, <1>7 DEF LinksOf
<1> QED
  BY <1>8, <1>P

LEMMA SessionQuery ==
    ASSUME NEW x, NEW S, NEW s, \A p \in x.links : p = <<p[1], p[2]>>
    PROVE  \A y : y \in QuerySqliteSessions(x, S, s) <=>
              \/ <<s, y>> \in x.links /\ s \notin S /\ y \notin S /\ y \notin DOMAIN x.items
              \/ <<y, s>> \in x.links /\ y \in S
              \/ y \in DOMAIN x.items /\ x.items[y].owner = s
<1>A. PICK A : A = {q \in InsertSession(x, S) : q[1] = s /\ q[2] \notin DOMAIN x.items}
  OBVIOUS
<1>B. PICK B : B = {q \in InsertArtifact(x, S) : q[2] = s}
  OBVIOUS
<1>1. \A q : q \in A <=> q \in x.links /\ q[1] \notin S /\ q[2] \notin S /\ q[1] = s /\ q[2] \notin DOMAIN x.items
  BY <1>A, Zenon DEF InsertSession
<1>2. \A q : q \in B <=> q \in x.links /\ q[1] \in S /\ q[2] = s
  BY <1>B, Zenon DEF InsertArtifact
<1>3. \A y : y \in QuerySqliteSessions(x, S, s) <=>
              \/ \E p \in A : y = p[2]
              \/ \E p \in B : y = p[1]
              \/ y \in DOMAIN x.items /\ x.items[y].owner = s
  BY <1>A, <1>B, Zenon DEF QuerySqliteSessions
<1>4. \A a, b : <<a, b>>[1] = a /\ <<a, b>>[2] = b
  OBVIOUS
<1>5. \A y : (\E p \in A : y = p[2])
                <=> <<s, y>> \in x.links /\ s \notin S /\ y \notin S /\ y \notin DOMAIN x.items
  <2> TAKE y
  <2>1. \A p \in A : p[2] = y => p = <<s, y>>
    BY <1>1
  <2>2. <<s, y>> \in A <=> <<s, y>> \in x.links /\ s \notin S /\ y \notin S /\ y \notin DOMAIN x.items
    BY <1>1, <1>4
  <2> QED
    BY <1>4, <2>1, <2>2, Zenon
<1>6. \A y : (\E p \in B : y = p[1]) <=> <<y, s>> \in x.links /\ y \in S
  <2> TAKE y
  <2>1. \A p \in B : p[1] = y => p = <<y, s>>
    BY <1>2
  <2>2. <<y, s>> \in B <=> <<y, s>> \in x.links /\ y \in S
    BY <1>2, <1>4
  <2> QED
    BY <1>4, <2>1, <2>2, Zenon
<1> QED
  BY <1>3, <1>5, <1>6, Zenon

LEMMA SessionAgrees == HistoryInv => SqliteSessionAgrees
<1> SUFFICES ASSUME HistoryInv, lines = 0, NEW s \in {e.session : e \in rows} \cap Build(rows).nodes
             PROVE  QuerySqliteSessions(Build(rows), Artifacts, s)
                      = {p[2] : p \in {q \in Build(rows).links : q[1] = s}}
  BY Zenon DEF SqliteSessionAgrees, Quiet
<1>x. PICK x : x = Build(rows)
  OBVIOUS
<1>1. /\ \A p : p \in x.links <=> \E e \in rows : p \in LinksOf(e)
      /\ \A m : m \in x.nodes <=> \E e \in rows : m \in NodesOf(e)
      /\ rows \subseteq Pool
  BY <1>x, GraphOfRows
<1>2. \A p \in x.links : p = <<p[1], p[2]>>
  BY <1>1, LinksArePairs
<1>3. PICK d \in Pool : s = d.session
  BY <1>1
<1>4. s # None
  BY <1>1, <1>x, EntriesNamed
<1>5. /\ s \in Linked /\ s \notin Artifacts
      /\ None \notin Linked /\ Artifacts \subseteq Linked
      /\ \A e \in Pool : e.id # s /\ e.parent # s /\ e.item # s /\ e.item \notin Linked
  BY <1>3, <1>4, IdsApart
<1>6. /\ \A y : y \in DOMAIN x.items <=> \E e \in rows : IsUpload(e) /\ y = e.item
      /\ \A e \in rows : IsUpload(e) => x.items[e.item].owner = OwnerOf(e)
  <2>1. ItemsTable(x.items, Events, Len(Events))
    BY <1>x, MintedRows DEF Tables
  <2>2. \A e : e \in rows <=> \E i \in 1 .. Len(Events) : Events[i] = e
    BY QuietRows DEF Ordering
  <2> QED
    BY <2>1, <2>2, Zenon DEF ItemsTable
<1>P. PICK P : P = QuerySqliteSessions(x, Artifacts, s)
  OBVIOUS
<1>Q. PICK Q : Q = {p[2] : p \in {q \in x.links : q[1] = s}}
  OBVIOUS
<1>7. \A y : y \in P <=>
              \/ <<s, y>> \in x.links /\ s \notin Artifacts /\ y \notin Artifacts /\ y \notin DOMAIN x.items
              \/ <<y, s>> \in x.links /\ y \in Artifacts
              \/ y \in DOMAIN x.items /\ x.items[y].owner = s
  BY <1>2, <1>P, SessionQuery
<1>8. \A y : y \in Q <=> <<s, y>> \in x.links
  <2>1. \A y : y \in Q <=> \E q \in x.links : q[1] = s /\ y = q[2]
    BY <1>Q, Zenon
  <2>2. \A a, b : <<a, b>>[1] = a /\ <<a, b>>[2] = b
    OBVIOUS
  <2>3. ASSUME NEW y, y \in Q PROVE <<s, y>> \in x.links
    <3>1. PICK q \in x.links : q[1] = s /\ y = q[2]
      BY <2>1, <2>3
    <3>2. q = <<s, y>>
      BY <1>2, <3>1
    <3> QED
      BY <3>2
  <2>4. ASSUME NEW y, <<s, y>> \in x.links PROVE y \in Q
    BY <2>1, <2>2, <2>4
  <2> QED
    BY <2>3, <2>4
<1>9. ASSUME NEW y \in Q PROVE y \in P
  <2>1. <<s, y>> \in x.links
    BY <1>8
  <2>2. PICK e \in rows : <<s, y>> \in LinksOf(e)
    BY <1>1, <2>1
  <2>3. e \in Pool
    BY <1>1
  <2>4. \/ y \in Linked /\ y \notin Artifacts
        \/ IsUpload(e) /\ y = e.item /\ OwnerOf(e) = s
        \/ y \in Artifacts /\ <<y, s>> \in LinksOf(e)
    BY <1>3, <1>4, <2>2, <2>3, SessionLinks
  <2>5. CASE y \in Linked /\ y \notin Artifacts
    <3>1. y \notin DOMAIN x.items
      BY <1>1, <1>5, <1>6, <2>5
    <3> QED
      BY <1>5, <1>7, <2>1, <2>5, <3>1
  <2>6. CASE IsUpload(e) /\ y = e.item /\ OwnerOf(e) = s
    <3>1. y \in DOMAIN x.items /\ x.items[y].owner = s
      BY <1>6, <2>6, Zenon
    <3> QED
      BY <1>7, <3>1
  <2>7. CASE y \in Artifacts /\ <<y, s>> \in LinksOf(e)
    BY <1>1, <1>7, <2>7
  <2> QED
    BY <2>4, <2>5, <2>6, <2>7
<1>10. ASSUME NEW y \in P PROVE y \in Q
  <2>1. CASE <<s, y>> \in x.links
    BY <1>8, <2>1
  <2>2. CASE <<y, s>> \in x.links /\ y \in Artifacts
    <3>1. PICK e \in rows : <<y, s>> \in LinksOf(e)
      BY <1>1, <2>2
    <3>2. e \in Pool /\ e.type \in EventTypes /\ e.parent # y
      BY <1>1, <1>5, <2>2, ProvenanceAssumption, IdsApart
    <3>3. <<s, y>> \in LinksOf(e)
      BY <1>5, <3>1, <3>2, LinkKinds
    <3> QED
      BY <1>1, <1>8, <3>3
  <2>3. CASE y \in DOMAIN x.items /\ x.items[y].owner = s
    <3>1. PICK e \in rows : IsUpload(e) /\ y = e.item
      BY <1>6, <2>3, Zenon
    <3>2. OwnerOf(e) = s /\ e \in Pool
      BY <1>1, <1>6, <2>3, <3>1, Zenon
    <3>3. e.artifact \in Artifacts \cup {None}
      BY <3>2, IdsApart
    <3>4. e.type = "session.log_uploaded" /\ s = e.session
      BY <1>4, <1>5, <3>2, <3>3 DEF OwnerOf
    <3>5. Applies(e)
      BY <3>1 DEF IsUpload
    <3>6. <<s, y>> \in LinksOf(e)
      BY <3>1, <3>2, <3>4, <3>5, LinkForm
    <3> QED
      BY <1>1, <1>8, <3>6
  <2> QED
    BY <1>7, <2>1, <2>2, <2>3
<1>11. P = Q
  BY <1>9, <1>10
<1> QED
  BY <1>x, <1>P, <1>Q, <1>11

-----------------------------------------------------------------------------
(* The newest rows.  A row stands for a change, <<event, place>>.            *)

\* What w has at the first n places.
Image(w, n) == {w[i] : i \in 1 .. n}

LEMMA Counted ==
    ASSUME NEW n \in Nat, NEW T, NEW w \in [1 .. n -> T], \A i, j \in 1 .. n : w[i] = w[j] => i = j
    PROVE  /\ IsFiniteSet(Image(w, n)) /\ Cardinality(Image(w, n)) = n /\ Image(w, n) \subseteq T
           /\ \A t : t \in Image(w, n) <=> \E i \in 1 .. n : w[i] = t
<1>R. PICK R : R = Image(w, n)
  OBVIOUS
<1>1. \A t : t \in R <=> \E i \in 1 .. n : w[i] = t
  BY <1>R, Zenon DEF Image
<1>2. w \in [1 .. n -> R] /\ R \subseteq T
  BY <1>1
<1>3. w \in Injection(1 .. n, R) /\ w \in Surjection(1 .. n, R)
  BY <1>1, <1>2 DEF Injection, IsInjective, Surjection
<1>4. ExistsBijection(1 .. n, R)
  BY <1>3, Zenon DEF ExistsBijection, Bijection
<1>5. IsFiniteSet(1 .. n) /\ Cardinality(1 .. n) = n
  BY FS_Interval
<1> QED
  BY <1>R, <1>1, <1>2, <1>4, <1>5, FS_Bijection

\* u has a row for each change of T, in the order of v.
IsListing(u, T, v) ==
    /\ IsSeq(u) /\ v \in [1 .. Len(u) -> T]
    /\ \A i, j \in 1 .. Len(u) : v[i] = v[j] => i = j
    /\ \A t \in T : \E i \in 1 .. Len(u) : v[i] = t
    /\ \A i \in 1 .. Len(u) : u[i].at = v[i][1].recorded /\ u[i].at \in Int

\* out has rows for some changes of T, w says which: as many as there are up to
\* limit, and none that is left out is newer than one of them.
IsTop(out, T, limit, w) ==
    /\ IsSeq(out) /\ w \in [1 .. Len(out) -> T] /\ IsFiniteSet(T)
    /\ \A i, j \in 1 .. Len(out) : w[i] = w[j] => i = j
    /\ \A i \in 1 .. Len(out) : out[i].at = w[i][1].recorded /\ out[i].at \in Int
    /\ Len(out) = IF limit < Cardinality(T) THEN limit ELSE Cardinality(T)
    /\ \A t \in T : \/ \E i \in 1 .. Len(out) : w[i] = t
                    \/ \A i \in 1 .. Len(out) : t[1].recorded <= out[i].at

LEMMA Cut ==
    ASSUME NEW u, NEW T, NEW v, IsListing(u, T, v), NEW k \in Nat
    PROVE  \E w : IsTop(TakeRows(NewerFirst(u), k), T, NormalizedLimit(k), w)
<1>n. PICK n : n = Len(u)
  OBVIOUS
<1>L. PICK L : L = NormalizedLimit(k)
  OBVIOUS
<1>f. PICK f : f = NewerFirst(u)
  OBVIOUS
<1>m. PICK m : m = IF L < n THEN L ELSE n
  OBVIOUS
<1>0. L \in Nat /\ n \in Nat /\ m \in Nat /\ m <= n
  <2>1. n \in Nat
    BY <1>n DEF IsListing, IsSeq
  <2>2. L \in Nat
    BY <1>L DEF NormalizedLimit
  <2> QED
    BY <1>m, <2>1, <2>2
<1>i. \A i \in 1 .. m : i \in 1 .. n
  BY <1>0
<1>1. PICK p : IsNewestFirst(f, u, p)
  BY <1>f, NewestFirst DEF IsListing
<1>2. DOMAIN f = 1 .. n /\ Len(f) = n /\ f = [i \in 1 .. n |-> f[i]]
  <2>1. f = [i \in DOMAIN f |-> f[i]]
    BY <1>f, Zenon DEF NewerFirst
  <2> QED
    BY <1>1, <1>n, <2>1 DEF IsNewestFirst, IsSeq
<1>a. p \in [1 .. n -> 1 .. n] /\ \A i \in 1 .. n : f[i] = u[p[i]]
  BY <1>1, <1>n DEF IsNewestFirst
<1>b. \A i \in 1 .. n : \E j \in 1 .. n : p[j] = i
  BY <1>1, <1>n DEF IsNewestFirst
<1>c. \A i, j \in 1 .. n : i # j => p[i] # p[j]
  BY <1>1, <1>n DEF IsNewestFirst
<1>d. \A i, j \in 1 .. n : i < j => f[i].at >= f[j].at
  BY <1>1, <1>n DEF IsNewestFirst
<1>3. v \in [1 .. n -> T] /\ \A i, j \in 1 .. n : v[i] = v[j] => i = j
  BY <1>n DEF IsListing
<1>e. \A t \in T : \E i \in 1 .. n : v[i] = t
  BY <1>n DEF IsListing
<1>g. \A i \in 1 .. n : u[i].at = v[i][1].recorded /\ u[i].at \in Int
  BY <1>n DEF IsListing
<1>4. IsFiniteSet(T) /\ Cardinality(T) = n
  <2>R. PICK R : R = Image(v, n)
    OBVIOUS
  <2>1. /\ IsFiniteSet(R) /\ Cardinality(R) = n /\ R \subseteq T
        /\ \A t : t \in R <=> \E i \in 1 .. n : v[i] = t
    BY <1>0, <1>3, <2>R, Counted
  <2>2. T \subseteq R
    BY <1>e, <2>1
  <2>3. R = T
    BY <2>1, <2>2
  <2> QED
    BY <2>1, <2>3
<1>o. PICK o : o = TakeRows(f, k)
  OBVIOUS
<1>5. IsSeq(o) /\ Len(o) = m /\ \A i \in 1 .. m : o[i] = f[i]
  <2>1. o = SubSeq(f, 1, m)
    BY <1>o, <1>m, <1>L, <1>2 DEF TakeRows
  <2>S. PICK S : S = {f[i] : i \in 1 .. n}
    OBVIOUS
  <2>2. \A i \in 1 .. n : f[i] \in S
    BY <2>S
  <2>3. f \in Seq(S)
    BY <1>0, <1>2, <2>2
  <2>4. o \in Seq(S) /\ Len(o) = m /\ \A i \in 1 .. m : o[i] = f[i]
    <3>1. 1 \in 1 .. (Len(f) + 1) /\ m \in 0 .. Len(f)
      BY <1>0, <1>2
    <3>2. /\ SubSeq(f, 1, m) \in Seq(S)
          /\ Len(SubSeq(f, 1, m)) = IF 1 <= m THEN m - 1 + 1 ELSE 0
          /\ \A i \in 1 .. (m - 1 + 1) : SubSeq(f, 1, m)[i] = f[1 + i - 1]
      BY <2>3, <3>1, SubSeqProperties
    <3> QED
      BY <1>0, <2>1, <3>2
  <2> QED
    BY <2>4 DEF IsSeq
<1>w. PICK w : w = [i \in 1 .. m |-> v[p[i]]]
  OBVIOUS
<1>6. /\ \A i \in 1 .. m : p[i] \in 1 .. n /\ w[i] = v[p[i]]
      /\ w \in [1 .. m -> T]
  BY <1>a, <1>i, <1>3, <1>w
<1>7. \A i, j \in 1 .. m : w[i] = w[j] => i = j
  BY <1>c, <1>i, <1>3, <1>6
<1>8. ASSUME NEW i \in 1 .. m PROVE o[i].at = w[i][1].recorded /\ o[i].at \in Int
  <2>1. o[i] = f[i] /\ f[i] = u[p[i]] /\ p[i] \in 1 .. n /\ w[i] = v[p[i]]
    BY <1>5, <1>6, <1>a, <1>i
  <2> QED
    BY <1>g, <2>1
<1>9. ASSUME NEW t \in T
      PROVE  \/ \E i \in 1 .. m : w[i] = t
             \/ \A i \in 1 .. m : t[1].recorded <= o[i].at
  <2>1. PICK i \in 1 .. n : v[i] = t
    BY <1>e
  <2>2. PICK j \in 1 .. n : p[j] = i
    BY <1>b
  <2>3. CASE j <= m
    <3>1. j \in 1 .. m
      BY <1>0, <2>3
    <3> QED
      BY <1>6, <2>1, <2>2, <3>1
  <2>4. CASE ~(j <= m)
    <3>1. f[j].at = t[1].recorded /\ f[j].at \in Int
      BY <1>a, <1>g, <2>1, <2>2
    <3>2. ASSUME NEW x \in 1 .. m PROVE f[x].at >= f[j].at
      <4>1. x < j /\ x \in 1 .. n
        BY <1>0, <2>4
      <4> QED
        BY <1>d, <4>1
    <3>3. \A x \in 1 .. m : o[x].at >= t[1].recorded /\ o[x].at \in Int
      BY <1>5, <1>8, <3>1, <3>2
    <3> QED
      BY <3>1, <3>3
  <2> QED
    BY <2>3, <2>4
<1>10. IsTop(o, T, L, w)
  <2>1. m = IF L < Cardinality(T) THEN L ELSE Cardinality(T)
    BY <1>4, <1>m
  <2> QED
    BY <1>4, <1>5, <1>6, <1>7, <1>8, <1>9, <2>1, Zenon DEF IsTop
<1> QED
  BY <1>10, <1>f, <1>L, <1>o

\* Rows are left out only when there are as many as the limit allows.
LEMMA CutOrAll ==
    ASSUME NEW o, NEW T, NEW limit, NEW w, IsTop(o, T, limit, w)
    PROVE  /\ Len(o) = limit \/ Image(w, Len(o)) = T
           /\ Len(o) \in Nat /\ Cardinality(T) \in Nat /\ Len(o) <= Cardinality(T)
           /\ IsFiniteSet(Image(w, Len(o))) /\ Cardinality(Image(w, Len(o))) = Len(o)
           /\ Image(w, Len(o)) \subseteq T
           /\ \A t : t \in Image(w, Len(o)) <=> \E i \in 1 .. Len(o) : w[i] = t
<1>n. PICK n : n = Len(o)
  OBVIOUS
<1>R. PICK R : R = Image(w, n)
  OBVIOUS
<1>1. n \in Nat /\ w \in [1 .. n -> T] /\ IsFiniteSet(T) /\ \A i, j \in 1 .. n : w[i] = w[j] => i = j
  BY <1>n DEF IsTop, IsSeq
<1>2. n = IF limit < Cardinality(T) THEN limit ELSE Cardinality(T)
  BY <1>n DEF IsTop
<1>3. /\ IsFiniteSet(R) /\ Cardinality(R) = n /\ R \subseteq T
      /\ \A t : t \in R <=> \E i \in 1 .. n : w[i] = t
  BY <1>1, <1>R, Counted
<1>4. Cardinality(T) \in Nat /\ n <= Cardinality(T) /\ (n = Cardinality(T) => R = T)
  BY <1>1, <1>3, FS_Subset, FS_CardinalityType
<1>5. n = limit \/ R = T
  BY <1>2, <1>4
<1> QED
  BY <1>1, <1>3, <1>4, <1>5, <1>n, <1>R

\* What is cut from a part is no newer than what is kept of the whole.
LEMMA LeftOut ==
    ASSUME NEW a, NEW S, NEW wa, NEW o, NEW R, NEW w, NEW limit \in Nat,
           IsTop(a, S, limit, wa), IsTop(o, R, limit, w), Image(wa, Len(a)) \subseteq R,
           NEW t \in S, t \notin Image(wa, Len(a)), t[1].recorded \in Int, NEW i \in 1 .. Len(o)
    PROVE  t[1].recorded <= o[i].at
<1>n. PICK n : n = Len(a)
  OBVIOUS
<1>m. PICK m : m = Len(o)
  OBVIOUS
<1>A. PICK A : A = Image(wa, n)
  OBVIOUS
<1>O. PICK O : O = Image(w, m)
  OBVIOUS
<1>1. /\ n = limit \/ A = S
      /\ n \in Nat /\ IsFiniteSet(A) /\ Cardinality(A) = n
      /\ \A x : x \in A <=> \E j \in 1 .. n : wa[j] = x
  BY <1>n, <1>A, CutOrAll
<1>2. /\ m \in Nat /\ IsFiniteSet(O) /\ Cardinality(O) = m /\ Cardinality(R) \in Nat
      /\ \A x : x \in O <=> \E j \in 1 .. m : w[j] = x
  BY <1>m, <1>O, CutOrAll
<1>3. n = limit
  BY <1>1, <1>n, <1>A
<1>4. m = limit
  <2>1. IsFiniteSet(R) /\ m = IF limit < Cardinality(R) THEN limit ELSE Cardinality(R)
    BY <1>m DEF IsTop
  <2>2. A \subseteq R
    BY <1>n, <1>A
  <2>3. n <= Cardinality(R)
    BY <1>1, <2>1, <2>2, FS_Subset
  <2> QED
    BY <1>2, <1>3, <2>1, <2>3
<1>5. /\ \A j \in 1 .. n : a[j].at = wa[j][1].recorded /\ a[j].at \in Int
      /\ \A j \in 1 .. n : t[1].recorded <= a[j].at
  <2>1. \A j \in 1 .. n : a[j].at = wa[j][1].recorded /\ a[j].at \in Int
    BY <1>n DEF IsTop
  <2>2. \/ \E j \in 1 .. n : wa[j] = t
        \/ \A j \in 1 .. n : t[1].recorded <= a[j].at
    BY <1>n DEF IsTop
  <2>3. ~\E j \in 1 .. n : wa[j] = t
    BY <1>1, <1>n, <1>A
  <2> QED
    BY <2>1, <2>2, <2>3
<1>6. o[i].at = w[i][1].recorded /\ o[i].at \in Int
  BY DEF IsTop
<1>7. ASSUME o[i].at < t[1].recorded PROVE FALSE
  <2>1. ASSUME NEW x \in A PROVE x \in O
    <3>1. PICK j \in 1 .. n : wa[j] = x
      BY <1>1
    <3>2. x \in R
      BY <1>n, <1>A
    <3>3. \/ \E y \in 1 .. m : w[y] = x
          \/ x[1].recorded <= o[i].at
      BY <1>m, <3>2 DEF IsTop
    <3>4. x[1].recorded \in Int /\ t[1].recorded <= x[1].recorded
      BY <1>5, <3>1
    <3> QED
      BY <1>2, <1>6, <1>7, <3>3, <3>4
  <2>2. A = O
    BY <1>1, <1>2, <1>3, <1>4, <2>1, FS_Subset
  <2>3. w[i] \in A
    BY <1>2, <1>m, <2>2
  <2>4. PICK j \in 1 .. n : wa[j] = w[i]
    BY <1>1, <2>3
  <2> QED
    BY <1>5, <1>6, <1>7, <2>4
<1> QED
  BY <1>6, <1>7

\* Rows as a query returns them.
OnlyRows(s) ==
    [i \in DOMAIN s |-> [at |-> s[i].at, path |-> s[i].path, session |-> s[i].session]]

LEMMA RowsKept ==
    ASSUME NEW s, IsSeq(s)
    PROVE  /\ IsSeq(OnlyRows(s)) /\ Len(OnlyRows(s)) = Len(s)
           /\ \A i \in 1 .. Len(s) : OnlyRows(s)[i].at = s[i].at
           /\ OnlyRows(s) = [i \in 1 .. Len(s) |-> OnlyRows(s)[i]]
<1>n. PICK n : n = Len(s)
  OBVIOUS
<1>r. PICK r : r = OnlyRows(s)
  OBVIOUS
<1>0. DOMAIN s = 1 .. n /\ n \in Nat
  BY <1>n DEF IsSeq
<1>1. r = [i \in 1 .. n |-> [at |-> s[i].at, path |-> s[i].path, session |-> s[i].session]]
  BY <1>0, <1>r DEF OnlyRows
<1>2. DOMAIN r = 1 .. n /\ Len(r) = n
  BY <1>0, <1>1
<1>3. \A i \in 1 .. n : r[i].at = s[i].at
  BY <1>1
<1> QED
  BY <1>0, <1>1, <1>2, <1>3, <1>n, <1>r DEF IsSeq

\* Putting the rows kept of two parts one after the other lists what they keep.
LEMMA BothListed ==
    ASSUME NEW a, NEW S, NEW wa, NEW b, NEW T, NEW wb, NEW limit \in Nat,
           IsTop(a, S, limit, wa), IsTop(b, T, limit, wb), S \cap T = {}
    PROVE  \E v : IsListing(OnlyRows(a) \o OnlyRows(b), Image(wa, Len(a)) \cup Image(wb, Len(b)), v)
<1>n. PICK n : n = Len(a)
  OBVIOUS
<1>m. PICK m : m = Len(b)
  OBVIOUS
<1>A. PICK A : A = Image(wa, n)
  OBVIOUS
<1>B. PICK B : B = Image(wb, m)
  OBVIOUS
<1>1. /\ n \in Nat /\ A \subseteq S /\ \A t : t \in A <=> \E i \in 1 .. n : wa[i] = t
      /\ m \in Nat /\ B \subseteq T /\ \A t : t \in B <=> \E i \in 1 .. m : wb[i] = t
  BY <1>n, <1>m, <1>A, <1>B, CutOrAll
<1>2. /\ \A i, j \in 1 .. n : wa[i] = wa[j] => i = j
      /\ \A i, j \in 1 .. m : wb[i] = wb[j] => i = j
  BY <1>n, <1>m DEF IsTop
<1>3. \A i \in 1 .. n : a[i].at = wa[i][1].recorded /\ a[i].at \in Int
  BY <1>n DEF IsTop
<1>4. \A i \in 1 .. m : b[i].at = wb[i][1].recorded /\ b[i].at \in Int
  BY <1>m DEF IsTop
<1>r. PICK r : r = OnlyRows(a)
  OBVIOUS
<1>s. PICK s : s = OnlyRows(b)
  OBVIOUS
<1>5. /\ Len(r) = n /\ r = [i \in 1 .. n |-> r[i]] /\ \A i \in 1 .. n : r[i].at = a[i].at
      /\ Len(s) = m /\ s = [i \in 1 .. m |-> s[i]] /\ \A i \in 1 .. m : s[i].at = b[i].at
  BY <1>n, <1>m, <1>r, <1>s, RowsKept DEF IsTop
<1>u. PICK u : u = r \o s
  OBVIOUS
<1>6. IsJoined(u, r, s)
  <2>X. PICK X : X = {r[i] : i \in 1 .. n} \cup {s[i] : i \in 1 .. m}
    OBVIOUS
  <2>1. (\A i \in 1 .. n : r[i] \in X) /\ (\A i \in 1 .. m : s[i] \in X)
    BY <2>X
  <2>2. r \in Seq(X) /\ s \in Seq(X)
    BY <1>1, <1>5, <2>1
  <2> QED
    BY <1>u, <2>2, Joined
<1>7. /\ IsSeq(u) /\ Len(u) = n + m
      /\ \A i \in 1 .. n : u[i] = r[i]
      /\ \A i \in 1 .. m : u[n + i] = s[i]
  BY <1>5, <1>6 DEF IsJoined
<1>v. PICK v : v = [i \in 1 .. (n + m) |-> IF i \in 1 .. n THEN wa[i] ELSE wb[i - n]]
  OBVIOUS
<1>8. \A i \in 1 .. n : i \in 1 .. (n + m) /\ v[i] = wa[i] /\ v[i] \in A
  BY <1>1, <1>v
<1>9. \A i \in 1 .. m : n + i \in 1 .. (n + m) /\ v[n + i] = wb[i] /\ v[n + i] \in B
  <2> TAKE i \in 1 .. m
  <2>1. n + i \in 1 .. (n + m) /\ n + i \notin 1 .. n /\ (n + i) - n = i
    BY <1>1
  <2>2. v[n + i] = wb[i]
    BY <1>v, <2>1
  <2> QED
    BY <1>1, <2>1, <2>2
<1>10. \A i \in 1 .. (n + m) : i \in 1 .. n \/ \E j \in 1 .. m : i = n + j
  <2> TAKE i \in 1 .. (n + m)
  <2>1. i \notin 1 .. n => i - n \in 1 .. m /\ i = n + (i - n)
    BY <1>1
  <2> QED
    BY <2>1
<1>11. A \cap B = {}
  BY <1>1
<1>12. v \in [1 .. (n + m) -> A \cup B]
  <2>1. \A i \in 1 .. (n + m) : v[i] \in A \cup B
    BY <1>8, <1>9, <1>10
  <2> QED
    BY <1>v, <2>1
<1>13. ASSUME NEW i \in 1 .. (n + m), NEW j \in 1 .. (n + m), v[i] = v[j] PROVE i = j
  <2>1. CASE i \in 1 .. n /\ j \in 1 .. n
    BY <1>2, <1>8, <1>13, <2>1
  <2>2. CASE i \in 1 .. n /\ j \notin 1 .. n
    <3>1. PICK x \in 1 .. m : j = n + x
      BY <1>10, <2>2
    <3> QED
      BY <1>8, <1>9, <1>11, <1>13, <2>2, <3>1
  <2>3. CASE i \notin 1 .. n /\ j \in 1 .. n
    <3>1. PICK x \in 1 .. m : i = n + x
      BY <1>10, <2>3
    <3> QED
      BY <1>8, <1>9, <1>11, <1>13, <2>3, <3>1
  <2>4. CASE i \notin 1 .. n /\ j \notin 1 .. n
    <3>1. PICK x \in 1 .. m : i = n + x
      BY <1>10, <2>4
    <3>2. PICK y \in 1 .. m : j = n + y
      BY <1>10, <2>4
    <3>3. wb[x] = wb[y]
      BY <1>9, <1>13, <3>1, <3>2
    <3> QED
      BY <1>2, <3>1, <3>2, <3>3
  <2> QED
    BY <2>1, <2>2, <2>3, <2>4
<1>14. \A t \in A \cup B : \E i \in 1 .. (n + m) : v[i] = t
  BY <1>1, <1>8, <1>9
<1>15. ASSUME NEW i \in 1 .. (n + m) PROVE u[i].at = v[i][1].recorded /\ u[i].at \in Int
  <2>1. CASE i \in 1 .. n
    BY <1>3, <1>5, <1>7, <1>8, <2>1
  <2>2. CASE i \notin 1 .. n
    <3>1. PICK x \in 1 .. m : i = n + x
      BY <1>10, <2>2
    <3>2. u[i] = s[x] /\ v[i] = wb[x] /\ s[x].at = b[x].at
      BY <1>5, <1>7, <1>9, <3>1
    <3> QED
      BY <1>4, <3>2
  <2> QED
    BY <2>1, <2>2
<1>16. IsListing(u, A \cup B, v)
  BY <1>7, <1>12, <1>13, <1>14, <1>15, Zenon DEF IsListing
<1> QED
  BY <1>16, <1>A, <1>B, <1>n, <1>m, <1>r, <1>s, <1>u

\* Cutting two parts, putting them together and cutting again is cutting the whole.
LEMMA MergedTop ==
    ASSUME NEW a, NEW S, NEW wa, NEW b, NEW T, NEW wb, NEW k \in Nat,
           IsTop(a, S, NormalizedLimit(k), wa), IsTop(b, T, NormalizedLimit(k), wb), S \cap T = {},
           \A t \in S \cup T : t[1].recorded \in Int
    PROVE  \E w : IsTop(TakeRows(NewerFirst(OnlyRows(a) \o OnlyRows(b)), k), S \cup T,
                        NormalizedLimit(k), w)
<1>L. PICK L : L = NormalizedLimit(k)
  OBVIOUS
<1>A. PICK A : A = Image(wa, Len(a))
  OBVIOUS
<1>B. PICK B : B = Image(wb, Len(b))
  OBVIOUS
<1>u. PICK u : u = OnlyRows(a) \o OnlyRows(b)
  OBVIOUS
<1>o. PICK o : o = TakeRows(NewerFirst(u), k)
  OBVIOUS
<1>0. L \in Nat /\ IsTop(a, S, L, wa) /\ IsTop(b, T, L, wb)
  BY <1>L DEF NormalizedLimit
<1>1. PICK v : IsListing(u, A \cup B, v)
  BY <1>0, <1>A, <1>B, <1>u, BothListed
<1>2. PICK w : IsTop(o, A \cup B, L, w)
  BY <1>1, <1>L, <1>o, Cut
<1>n. PICK n : n = Len(o)
  OBVIOUS
<1>3. /\ Len(a) = L \/ A = S
      /\ Len(a) \in Nat /\ IsFiniteSet(A) /\ Cardinality(A) = Len(a) /\ A \subseteq S
  BY <1>0, <1>A, CutOrAll
<1>4. /\ Len(b) = L \/ B = T
      /\ Len(b) \in Nat /\ IsFiniteSet(B) /\ Cardinality(B) = Len(b) /\ B \subseteq T
  BY <1>0, <1>B, CutOrAll
<1>5. IsFiniteSet(S \cup T)
  BY <1>0, FS_Union DEF IsTop
<1>6. /\ IsFiniteSet(A \cup B) /\ Cardinality(A \cup B) \in Nat /\ Cardinality(S \cup T) \in Nat
      /\ Len(a) <= Cardinality(A \cup B) /\ Len(b) <= Cardinality(A \cup B)
      /\ Cardinality(A \cup B) <= Cardinality(S \cup T)
  <2>1. IsFiniteSet(A \cup B) /\ Cardinality(A \cup B) <= Cardinality(S \cup T)
    BY <1>3, <1>4, <1>5, FS_Subset
  <2>2. Cardinality(A) <= Cardinality(A \cup B) /\ Cardinality(B) <= Cardinality(A \cup B)
    BY <2>1, FS_Subset
  <2> QED
    BY <1>3, <1>4, <1>5, <2>1, <2>2, FS_CardinalityType
<1>7. n = IF L < Cardinality(S \cup T) THEN L ELSE Cardinality(S \cup T)
  <2>1. n = IF L < Cardinality(A \cup B) THEN L ELSE Cardinality(A \cup B)
    BY <1>2, <1>n DEF IsTop
  <2>2. CASE A = S /\ B = T
    BY <2>1, <2>2
  <2>3. CASE Len(a) = L \/ Len(b) = L
    BY <1>0, <1>6, <2>1, <2>3
  <2> QED
    BY <1>3, <1>4, <2>2, <2>3
<1>8. ASSUME NEW t \in S \cup T
      PROVE  \/ \E i \in 1 .. n : w[i] = t
             \/ \A i \in 1 .. n : t[1].recorded <= o[i].at
  <2>1. CASE t \in A \cup B
    BY <1>2, <1>n, <2>1 DEF IsTop
  <2>2. CASE t \in S /\ t \notin A
    BY <1>0, <1>2, <1>A, <1>n, <2>2, LeftOut
  <2>3. CASE t \in T /\ t \notin B
    BY <1>0, <1>2, <1>B, <1>n, <2>3, LeftOut
  <2> QED
    BY <2>1, <2>2, <2>3
<1>9. w \in [1 .. n -> S \cup T]
  <2>1. w \in [1 .. n -> A \cup B] /\ A \cup B \subseteq S \cup T
    BY <1>2, <1>3, <1>4, <1>n DEF IsTop
  <2> QED
    BY <2>1
<1>10. /\ IsSeq(o) /\ \A i, j \in 1 .. n : w[i] = w[j] => i = j
       /\ \A i \in 1 .. n : o[i].at = w[i][1].recorded /\ o[i].at \in Int
  BY <1>2, <1>n DEF IsTop
<1>11. IsTop(o, S \cup T, L, w)
  BY <1>5, <1>7, <1>8, <1>9, <1>10, <1>n, Zenon DEF IsTop
<1> QED
  BY <1>11, <1>L, <1>o, <1>u

-----------------------------------------------------------------------------
(* Sequences put one after the other.                                        *)

\* g has what the first sequences of F are, put together.
FlatsOn(g, F, n) == g = [i \in 1 .. n |-> IF i = 1 THEN F[i] ELSE g[i - 1] \o F[i]]

LEMMA FlatGrows ==
    ASSUME NEW F, NEW k \in Nat, NEW g, FlatsOn(g, F, k)
    PROVE  \E h : FlatsOn(h, F, k + 1)
<1>h. PICK h : h = [i \in 1 .. (k + 1) |-> IF i = 1 THEN F[i] ELSE g[i - 1] \o F[i]]
  OBVIOUS
<1>1. \A i \in 1 .. k : i \in 1 .. (k + 1) /\ h[i] = g[i]
  <2> TAKE i \in 1 .. k
  <2>1. i \in 1 .. (k + 1)
    OBVIOUS
  <2>2. g[i] = IF i = 1 THEN F[i] ELSE g[i - 1] \o F[i]
    BY Zenon DEF FlatsOn
  <2>3. h[i] = IF i = 1 THEN F[i] ELSE g[i - 1] \o F[i]
    BY <1>h, <2>1
  <2> QED
    BY <2>1, <2>2, <2>3
<1>2. \A i \in 1 .. (k + 1) : i # 1 => h[i - 1] = g[i - 1]
  <2> TAKE i \in 1 .. (k + 1)
  <2>1. i # 1 => i - 1 \in 1 .. k
    OBVIOUS
  <2> QED
    BY <1>1, <2>1
<1>3. \A i \in 1 .. (k + 1) : (IF i = 1 THEN F[i] ELSE g[i - 1] \o F[i])
                                = (IF i = 1 THEN F[i] ELSE h[i - 1] \o F[i])
  BY <1>2
<1>4. h = [i \in 1 .. (k + 1) |-> IF i = 1 THEN F[i] ELSE h[i - 1] \o F[i]]
  BY <1>h, <1>3, Zenon
<1> QED
  BY <1>4, Zenon DEF FlatsOn

LEMMA FlatExists ==
    ASSUME NEW F, NEW n \in Nat
    PROVE  \E g : FlatsOn(g, F, n)
<1> DEFINE Bad == {k \in Nat : ~\E g : FlatsOn(g, F, k)}
<1>1. 0 \notin Bad
  <2>1. PICK g : g = [i \in 1 .. 0 |-> F[i]]
    OBVIOUS
  <2>2. \A i \in 1 .. 0 : F[i] = IF i = 1 THEN F[i] ELSE g[i - 1] \o F[i]
    OBVIOUS
  <2>3. FlatsOn(g, F, 0)
    BY <2>1, <2>2, Zenon DEF FlatsOn
  <2> QED
    BY <2>3
<1>2. ASSUME Bad # {} PROVE FALSE
  <2>1. PICK k \in Bad : \A j \in Bad : k <= j
    BY <1>2, LeastElement
  <2>2. k \in Nat /\ k # 0
    BY <1>1
  <2>3. k - 1 \in Nat /\ k - 1 \notin Bad
    <3> HIDE DEF Bad
    <3>1. k - 1 \in Nat /\ ~(k <= k - 1)
      BY <2>2
    <3> QED
      BY <2>1, <3>1
  <2>4. PICK g : FlatsOn(g, F, k - 1)
    BY <2>3
  <2>5. \E h : FlatsOn(h, F, (k - 1) + 1)
    BY <2>3, <2>4, FlatGrows
  <2>6. (k - 1) + 1 = k
    BY <2>2
  <2> QED
    BY <2>1, <2>5, <2>6
<1> QED
  BY <1>2

\* The places of the first k sequences of F, and u is these sequences put
\* together, in the order of pl.
Places(F, k) == {p \in (1 .. k) \X Nat : p[2] \in DOMAIN F[p[1]]}
IsFlat(u, F, k, pl) ==
    /\ IsSeq(u) /\ pl \in [1 .. Len(u) -> Places(F, k)]
    /\ \A i, j \in 1 .. Len(u) : pl[i] = pl[j] => i = j
    /\ \A p \in Places(F, k) : \E i \in 1 .. Len(u) : pl[i] = p
    /\ \A i \in 1 .. Len(u) : u[i] = F[pl[i][1]][pl[i][2]]

LEMMA PlacesMore ==
    ASSUME NEW F, NEW k \in Nat, IsSeq(F[k + 1])
    PROVE  \A p : p \in Places(F, k + 1) <=> \/ p \in Places(F, k)
                                             \/ \E i \in 1 .. Len(F[k + 1]) : p = <<k + 1, i>>
<1>n. PICK n : n = Len(F[k + 1])
  OBVIOUS
<1>0. DOMAIN F[k + 1] = 1 .. n /\ n \in Nat
  BY <1>n DEF IsSeq
<1>1. \A j : \A p : p \in Places(F, j) <=> \E a \in 1 .. j : \E i \in Nat : p = <<a, i>> /\ i \in DOMAIN F[a]
  <2> TAKE j
  <2> TAKE p
  <2>1. ASSUME p \in Places(F, j) PROVE \E a \in 1 .. j : \E i \in Nat : p = <<a, i>> /\ i \in DOMAIN F[a]
    BY <2>1 DEF Places
  <2>2. ASSUME NEW a \in 1 .. j, NEW i \in Nat, p = <<a, i>>, i \in DOMAIN F[a] PROVE p \in Places(F, j)
    BY <2>2 DEF Places
  <2> QED
    BY <2>1, <2>2
<1>2. \A a : a \in 1 .. (k + 1) <=> a \in 1 .. k \/ a = k + 1
  OBVIOUS
<1>3. \A i : i \in 1 .. n => i \in Nat
  BY <1>0
<1> QED
  BY <1>0, <1>1, <1>2, <1>3, <1>n, Zenon

LEMMA FlatStep ==
    ASSUME NEW A, NEW F, NEW k \in Nat, NEW u \in Seq(A), NEW pl, IsFlat(u, F, k, pl), F[k + 1] \in Seq(A)
    PROVE  \E pm : IsFlat(u \o F[k + 1], F, k + 1, pm)
<1>n. PICK n : n = Len(u)
  OBVIOUS
<1>s. PICK s : s = F[k + 1]
  OBVIOUS
<1>m. PICK m : m = Len(s)
  OBVIOUS
<1>w. PICK w : w = u \o s
  OBVIOUS
<1>P. PICK P : P = Places(F, k)
  OBVIOUS
<1>Q. PICK Q : Q = Places(F, k + 1)
  OBVIOUS
<1>0. n \in Nat /\ m \in Nat /\ IsSeq(s) /\ IsJoined(w, u, s)
  BY <1>n, <1>s, <1>m, <1>w, Joined DEF IsSeq
<1>1. /\ IsSeq(w) /\ Len(w) = n + m
      /\ \A i \in 1 .. n : w[i] = u[i]
      /\ \A i \in 1 .. m : w[n + i] = s[i]
  BY <1>0, <1>n, <1>m DEF IsJoined
<1>2. pl \in [1 .. n -> P] /\ \A i, j \in 1 .. n : pl[i] = pl[j] => i = j
  BY <1>n, <1>P DEF IsFlat
<1>3. \A p \in P : \E i \in 1 .. n : pl[i] = p
  BY <1>n, <1>P DEF IsFlat
<1>4. \A i \in 1 .. n : u[i] = F[pl[i][1]][pl[i][2]]
  BY <1>n DEF IsFlat
<1>5. \A p : p \in Q <=> p \in P \/ \E i \in 1 .. m : p = <<k + 1, i>>
  BY <1>0, <1>P, <1>Q, <1>s, <1>m, PlacesMore
<1>6. \A p \in P : p[1] # k + 1
  BY <1>P DEF Places
<1>v. PICK v : v = [i \in 1 .. (n + m) |-> IF i \in 1 .. n THEN pl[i] ELSE <<k + 1, i - n>>]
  OBVIOUS
<1>7. \A i \in 1 .. n : i \in 1 .. (n + m) /\ v[i] = pl[i] /\ v[i] \in P
  BY <1>0, <1>2, <1>v
<1>8. \A i \in 1 .. m : n + i \in 1 .. (n + m) /\ v[n + i] = <<k + 1, i>>
  <2> TAKE i \in 1 .. m
  <2>1. n + i \in 1 .. (n + m) /\ n + i \notin 1 .. n /\ (n + i) - n = i
    BY <1>0
  <2> QED
    BY <1>v, <2>1
<1>9. \A i \in 1 .. (n + m) : i \in 1 .. n \/ \E j \in 1 .. m : i = n + j
  <2> TAKE i \in 1 .. (n + m)
  <2>1. i \notin 1 .. n => i - n \in 1 .. m /\ i = n + (i - n)
    BY <1>0
  <2> QED
    BY <2>1
<1>10. v \in [1 .. (n + m) -> Q]
  <2>1. \A i \in 1 .. (n + m) : v[i] \in Q
    BY <1>5, <1>7, <1>8, <1>9
  <2> QED
    BY <1>v, <2>1
<1>11. ASSUME NEW i \in 1 .. (n + m), NEW j \in 1 .. (n + m), v[i] = v[j] PROVE i = j
  <2>1. CASE i \in 1 .. n /\ j \in 1 .. n
    BY <1>2, <1>7, <1>11, <2>1
  <2>2. CASE i \in 1 .. n /\ j \notin 1 .. n
    <3>1. PICK x \in 1 .. m : j = n + x
      BY <1>9, <2>2
    <3>2. v[j][1] = k + 1
      BY <1>8, <3>1
    <3> QED
      BY <1>6, <1>7, <1>11, <2>2, <3>2
  <2>3. CASE i \notin 1 .. n /\ j \in 1 .. n
    <3>1. PICK x \in 1 .. m : i = n + x
      BY <1>9, <2>3
    <3>2. v[i][1] = k + 1
      BY <1>8, <3>1
    <3> QED
      BY <1>6, <1>7, <1>11, <2>3, <3>2
  <2>4. CASE i \notin 1 .. n /\ j \notin 1 .. n
    <3>1. PICK x \in 1 .. m : i = n + x
      BY <1>9, <2>4
    <3>2. PICK y \in 1 .. m : j = n + y
      BY <1>9, <2>4
    <3>3. <<k + 1, x>> = <<k + 1, y>>
      BY <1>8, <1>11, <3>1, <3>2
    <3> QED
      BY <3>1, <3>2, <3>3
  <2> QED
    BY <2>1, <2>2, <2>3, <2>4
<1>12. ASSUME NEW p \in Q PROVE \E i \in 1 .. (n + m) : v[i] = p
  <2>1. CASE p \in P
    <3>1. PICK i \in 1 .. n : pl[i] = p
      BY <1>3, <2>1
    <3> QED
      BY <1>7, <3>1
  <2>2. CASE \E i \in 1 .. m : p = <<k + 1, i>>
    <3>1. PICK i \in 1 .. m : p = <<k + 1, i>>
      BY <2>2
    <3> QED
      BY <1>8, <3>1
  <2> QED
    BY <1>5, <2>1, <2>2
<1>13. ASSUME NEW i \in 1 .. (n + m) PROVE w[i] = F[v[i][1]][v[i][2]]
  <2>1. CASE i \in 1 .. n
    BY <1>1, <1>4, <1>7, <2>1
  <2>2. CASE i \notin 1 .. n
    <3>1. PICK x \in 1 .. m : i = n + x
      BY <1>9, <2>2
    <3>2. v[i][1] = k + 1 /\ v[i][2] = x
      BY <1>8, <3>1
    <3> QED
      BY <1>1, <1>s, <3>1, <3>2
  <2> QED
    BY <2>1, <2>2
<1>14. IsFlat(w, F, k + 1, v)
  BY <1>1, <1>10, <1>11, <1>12, <1>13, <1>Q, Zenon DEF IsFlat
<1> QED
  BY <1>14, <1>s, <1>w

LEMMA FirstFlat ==
    ASSUME NEW F, IsSeq(F[1])
    PROVE  \E pl : IsFlat(F[1], F, 1, pl)
<1>n. PICK n : n = Len(F[1])
  OBVIOUS
<1>0. DOMAIN F[1] = 1 .. n /\ n \in Nat
  BY <1>n DEF IsSeq
<1>p. PICK pl : pl = [i \in 1 .. n |-> <<1, i>>]
  OBVIOUS
<1>P. PICK P : P = Places(F, 1)
  OBVIOUS
<1>1. \A p : p \in P <=> \E i \in 1 .. n : p = <<1, i>>
  <2>1. 1 .. 1 = {1}
    OBVIOUS
  <2>2. ASSUME NEW p \in P PROVE \E i \in 1 .. n : p = <<1, i>>
    BY <1>0, <1>P, <2>1 DEF Places
  <2>3. ASSUME NEW i \in 1 .. n PROVE <<1, i>> \in P
    BY <1>0, <1>P, <2>1 DEF Places
  <2> QED
    BY <2>2, <2>3
<1>2. \A i \in 1 .. n : pl[i] = <<1, i>> /\ pl[i] \in P /\ pl[i][1] = 1 /\ pl[i][2] = i
  BY <1>1, <1>p
<1>3. pl \in [1 .. n -> P]
  BY <1>2, <1>p
<1>4. \A i, j \in 1 .. n : pl[i] = pl[j] => i = j
  BY <1>2
<1>5. \A p \in P : \E i \in 1 .. n : pl[i] = p
  BY <1>1, <1>2
<1>6. \A i \in 1 .. n : F[1][i] = F[pl[i][1]][pl[i][2]]
  BY <1>2
<1>7. IsFlat(F[1], F, 1, pl)
  BY <1>3, <1>4, <1>5, <1>6, <1>n, <1>P, Zenon DEF IsFlat
<1> QED
  BY <1>7

LEMMA Flattened ==
    ASSUME NEW A, NEW F, IsSeq(F), \A k \in 1 .. Len(F) : F[k] \in Seq(A)
    PROVE  \E pl : IsFlat(FlattenSeq(F), F, Len(F), pl)
<1>n. PICK n : n = Len(F)
  OBVIOUS
<1>0. n \in Nat /\ DOMAIN F = 1 .. n
  BY <1>n DEF IsSeq
<1>1. CASE n = 0
  <2>1. FlattenSeq(F) = F
    BY <1>1, <1>n DEF FlattenSeq
  <2>2. 1 .. 0 = {} /\ Places(F, 0) = {}
    BY DEF Places
  <2>3. PICK pl : pl = [i \in 1 .. 0 |-> <<>>]
    OBVIOUS
  <2>4. pl \in [1 .. 0 -> Places(F, 0)]
    BY <2>2, <2>3
  <2>5. IsFlat(F, F, 0, pl)
    BY <1>1, <1>n, <2>2, <2>4, Zenon DEF IsFlat
  <2> QED
    BY <1>1, <1>n, <2>1, <2>5
<1>2. CASE n # 0
  <2>g. PICK g : g = CHOOSE h : FlatsOn(h, F, n)
    OBVIOUS
  <2>1. FlatsOn(g, F, n)
    BY <1>0, <2>g, FlatExists, Zenon
  <2>2. FlattenSeq(F) = g[n]
    <3>1. FlattenSeq(F) = (CHOOSE h : h = [i \in 1 .. Len(F) |-> IF i = 1 THEN F[i] ELSE h[i - 1] \o F[i]])[Len(F)]
      BY <1>2, <1>n, Zenon DEF FlattenSeq
    <3> QED
      BY <1>n, <2>g, <3>1, Zenon DEF FlatsOn
  <2>3. \A i \in 1 .. n : g[i] = IF i = 1 THEN F[i] ELSE g[i - 1] \o F[i]
    BY <2>1, Zenon DEF FlatsOn
  <2> DEFINE Good(k) == g[k] \in Seq(A) /\ \E pl : IsFlat(g[k], F, k, pl)
             Bad == {k \in Nat : k <= n /\ k # 0 /\ ~Good(k)}
  <2>4. Good(1)
    <3>1. 1 \in 1 .. n
      BY <1>0, <1>2
    <3>2. g[1] = F[1] /\ F[1] \in Seq(A)
      BY <1>n, <2>3, <3>1
    <3>3. IsSeq(F[1])
      BY <3>2 DEF IsSeq
    <3> QED
      BY <3>2, <3>3, FirstFlat
  <2>5. ASSUME Bad # {} PROVE FALSE
    <3>1. PICK k \in Bad : \A j \in Bad : k <= j
      BY <2>5, LeastElement
    <3>2. k \in Nat /\ k # 0 /\ k <= n /\ ~Good(k) /\ k # 1
      BY <2>4
    <3>j. PICK j : j = k - 1
      OBVIOUS
    <3>3. j \in Nat /\ j + 1 = k /\ j # 0 /\ j <= n /\ ~(k <= j)
      BY <1>0, <3>2, <3>j
    <3>4. Good(j)
      <4>1. j \notin Bad
        <5> HIDE DEF Bad
        <5> QED
          BY <3>1, <3>3
      <4> HIDE DEF Good
      <4> QED
        BY <3>3, <4>1
    <3>5. PICK pl : IsFlat(g[j], F, j, pl)
      BY <3>4
    <3>6. k \in 1 .. n /\ F[j + 1] \in Seq(A)
      BY <1>0, <1>n, <3>2, <3>3
    <3>7. g[k] = g[j] \o F[j + 1]
      BY <2>3, <3>2, <3>3, <3>6, <3>j
    <3>8. \E pm : IsFlat(g[k], F, k, pm)
      BY <3>3, <3>4, <3>5, <3>6, <3>7, FlatStep
    <3>9. g[k] \in Seq(A)
      BY <3>4, <3>6, <3>7
    <3> QED
      BY <3>2, <3>8, <3>9
  <2>6. Good(n)
    <3> HIDE DEF Good
    <3> QED
      BY <1>0, <1>2, <2>5
  <2> QED
    BY <1>n, <2>2, <2>6
<1> QED
  BY <1>1, <1>2

-----------------------------------------------------------------------------
(* The rows a blame query reads: one for each change that touches the path. *)

LEMMA PartListed ==
    ASSUME NEW s, IsSeq(s), NEW I \in SUBSET (DOMAIN s), NEW T, NEW v \in [I -> T],
           \A i, j \in I : v[i] = v[j] => i = j,
           \A t \in T : \E i \in I : v[i] = t,
           \A i \in I : s[i].at = v[i][1].recorded /\ s[i].at \in Int
    PROVE  \E w : IsListing(At(s, I), T, w)
<1>u. PICK u : u = At(s, I)
  OBVIOUS
<1>q. PICK q : q = InOrder(I)
  OBVIOUS
<1>n. PICK n : n = Len(u)
  OBVIOUS
<1>0. IsSelected(u, s, I, q)
  BY <1>u, <1>q, Selected
<1>1. IsSeq(u) /\ n \in Nat /\ q \in [1 .. n -> I] /\ I \subseteq Int
  BY <1>0, <1>n DEF IsSelected, IsSeq
<1>2. \A k \in 1 .. n : u[k] = s[q[k]]
  BY <1>0, <1>n DEF IsSelected
<1>3. \A i \in I : \E k \in 1 .. n : q[k] = i
  BY <1>0, <1>n DEF IsSelected
<1>4. \A j, k \in 1 .. n : j < k <=> q[j] < q[k]
  BY <1>0, <1>n DEF IsSelected
<1>5. \A j, k \in 1 .. n : q[j] = q[k] => j = k
  <2> TAKE j \in 1 .. n, k \in 1 .. n
  <2>1. q[j] \in Int /\ q[k] \in Int /\ j \in Int /\ k \in Int
    BY <1>1
  <2>2. (j < k <=> q[j] < q[k]) /\ (k < j <=> q[k] < q[j])
    BY <1>4
  <2> QED
    BY <2>1, <2>2
<1>w. PICK w : w = [k \in 1 .. n |-> v[q[k]]]
  OBVIOUS
<1>6. \A k \in 1 .. n : q[k] \in I /\ w[k] = v[q[k]] /\ w[k] \in T
  BY <1>1, <1>w
<1>7. w \in [1 .. n -> T]
  BY <1>6, <1>w
<1>8. \A j, k \in 1 .. n : w[j] = w[k] => j = k
  BY <1>5, <1>6
<1>9. \A t \in T : \E k \in 1 .. n : w[k] = t
  BY <1>3, <1>6
<1>10. \A k \in 1 .. n : u[k].at = w[k][1].recorded /\ u[k].at \in Int
  BY <1>2, <1>6
<1>11. IsListing(u, T, w)
  BY <1>1, <1>7, <1>8, <1>9, <1>10, <1>n, Zenon DEF IsListing
<1> QED
  BY <1>11, <1>u

\* The tables of references and diffs, said of the rows.
RefRows(refs) ==
    /\ IsSeq(refs)
    /\ \A r \in 1 .. Len(refs) : \E e \in rows : OfPlace(refs[r], e)
    /\ \A e \in rows : IsReference(e) => \E r \in 1 .. Len(refs) : refs[r] = Row(e)
    /\ \A e \in rows : IsReference(e) => \A r, s \in 1 .. Len(refs) :
          refs[r].ref = e.item /\ refs[s].ref = e.item => r = s
DiffRows(diffs) ==
    /\ \A y : y \in DOMAIN diffs <=> \E e \in rows : IsDiff(e) /\ y = e.id
    /\ \A e \in rows : IsDiff(e) => diffs[e.id] = DiffOf(e)
WellNamed ==
    /\ IsFiniteSet(rows)
    /\ \A e \in rows : e.id \in Int /\ e.recorded \in Int /\ IsSeq(e.files)
    /\ \A e \in rows : IsReference(e) => DOMAIN e.files = {1} /\ e.files[1].old = None
    /\ \A d, e \in rows : d.id = e.id => d = e
    /\ \A d, e \in rows : d.item # e.id
    /\ \A d, e \in rows : IsReference(d) /\ d.item = e.item => d = e

LEMMA RowsRead ==
    ASSUME HistoryInv, lines = 0
    PROVE  RefRows(Build(rows).refs) /\ DiffRows(Build(rows).diffs) /\ WellNamed
<1>x. PICK x : x = Build(rows)
  OBVIOUS
<1>n. PICK n : n = Len(Events)
  OBVIOUS
<1>0. rows \subseteq Pool /\ IsLedger(rows)
  BY QuietRows
<1>1. \A e : e \in rows <=> \E i \in 1 .. n : Events[i] = e
  BY <1>n, QuietRows, Zenon DEF Ordering
<1>2. RefsTable(x.refs, Events, n) /\ DiffsTable(x.diffs, Events, n)
  BY <1>x, <1>n, MintedRows, Zenon DEF Tables
<1>3. RefRows(x.refs)
  <2>1. IsSeq(x.refs)
    BY <1>2 DEF RefsTable
  <2>2. \A r \in 1 .. Len(x.refs) : \E i \in 1 .. n : OfPlace(x.refs[r], Events[i])
    BY <1>2, Zenon DEF RefsTable, OfPlace
  <2>3. \A i \in 1 .. n : IsReference(Events[i]) => \E r \in 1 .. Len(x.refs) : x.refs[r] = Row(Events[i])
    BY <1>2, Zenon DEF RefsTable
  <2>4. \A r, s \in 1 .. Len(x.refs) : \A i \in 1 .. n :
          IsReference(Events[i]) /\ x.refs[r].ref = Events[i].item /\ x.refs[s].ref = Events[i].item => r = s
    BY <1>2, Zenon DEF RefsTable
  <2>5. \A r \in 1 .. Len(x.refs) : \E e \in rows : OfPlace(x.refs[r], e)
    BY <1>1, <2>2, Zenon
  <2>6. \A e \in rows : IsReference(e) => \E r \in 1 .. Len(x.refs) : x.refs[r] = Row(e)
    BY <1>1, <2>3, Zenon
  <2>7. \A e \in rows : IsReference(e) => \A r, s \in 1 .. Len(x.refs) :
          x.refs[r].ref = e.item /\ x.refs[s].ref = e.item => r = s
    <3> TAKE e \in rows
    <3>1. PICK i \in 1 .. n : Events[i] = e
      BY <1>1
    <3> QED
      BY <2>4, <3>1
  <2> QED
    BY <2>1, <2>5, <2>6, <2>7, Zenon DEF RefRows
<1>4. DiffRows(x.diffs)
  <2>1. \A y : y \in DOMAIN x.diffs <=> \E i \in 1 .. n : IsDiff(Events[i]) /\ y = Events[i].id
    BY <1>2, Zenon DEF DiffsTable
  <2>2. \A i \in 1 .. n : IsDiff(Events[i]) => x.diffs[Events[i].id] = DiffOf(Events[i])
    BY <1>2, Zenon DEF DiffsTable
  <2> QED
    BY <1>1, <2>1, <2>2, Zenon DEF DiffRows
<1>5. \A e \in rows : e.id \in Int /\ e.recorded \in Int /\ IsSeq(e.files)
  BY <1>0, ProvenanceAssumption DEF IsLedger, IsSeq
<1>6. ASSUME NEW e \in rows, IsReference(e)
      PROVE  DOMAIN e.files = {1} /\ e.files[1].old = None /\ e.item # None
  <2>1. e \in Pool /\ e.type = "artifact.file_ref_recorded"
    BY <1>0, <1>6 DEF IsReference
  <2>2. Len(e.files) = 1 /\ e.files[1].old = None /\ DOMAIN e.files = 1 .. Len(e.files) /\ e.item # None
    BY <2>1, ProvenanceAssumption
  <2> QED
    BY <2>2
<1>7. \A d, e \in rows : d.id = e.id => d = e
  BY <1>0 DEF IsLedger
<1>8. \A d, e \in rows : d.item # e.id /\ (d.item # None /\ d.item = e.item => d = e)
  BY <1>0, IdsAssumption
<1>9. WellNamed
  <2>1. IsFiniteSet(rows)
    BY <1>0 DEF IsLedger
  <2>2. \A e \in rows : IsReference(e) => DOMAIN e.files = {1} /\ e.files[1].old = None
    BY <1>6
  <2>3. \A d, e \in rows : IsReference(d) /\ d.item = e.item => d = e
    BY <1>6, <1>8, Zenon
  <2> QED
    BY <1>5, <1>7, <1>8, <2>1, <2>2, <2>3, Zenon DEF WellNamed
<1> QED
  BY <1>3, <1>4, <1>9, <1>x

\* The changes that touch a path, and those of diffs and of references.
Meets(f, path) == Under(f.path, path) \/ (f.old # None /\ Under(f.old, path))
TouchingChanges(path) == {c \in Changes : Meets(c[1].files[c[2]], path)}
DiffChanges(path) == {c \in TouchingChanges(path) : IsDiff(c[1])}
ReferenceChanges(path) == {c \in TouchingChanges(path) : IsReference(c[1])}

LEMMA TouchingOf ==
    ASSUME NEW path
    PROVE  \A c : c \in TouchingChanges(path)
                    <=> \E e \in rows : /\ Changer(e)
                                        /\ \E i \in DOMAIN e.files : c = <<e, i>> /\ Meets(e.files[i], path)
<1>1. \A c : c \in TouchingChanges(path) <=> c \in Changes /\ Meets(c[1].files[c[2]], path)
  BY Zenon DEF TouchingChanges
<1>2. \A e, i : <<e, i>>[1] = e /\ <<e, i>>[2] = i
  OBVIOUS
<1>3. ASSUME NEW c, c \in TouchingChanges(path)
      PROVE  \E e \in rows : /\ Changer(e)
                             /\ \E i \in DOMAIN e.files : c = <<e, i>> /\ Meets(e.files[i], path)
  <2>1. PICK e \in rows : Changer(e) /\ \E i \in DOMAIN e.files : c = <<e, i>>
    BY <1>1, <1>3, ChangesOf, Zenon
  <2>2. PICK i \in DOMAIN e.files : c = <<e, i>>
    BY <2>1
  <2>3. c[1] = e /\ c[2] = i
    BY <2>2
  <2>4. Meets(e.files[i], path)
    BY <1>1, <1>3, <2>3
  <2> QED
    BY <2>1, <2>2, <2>4, Zenon
<1>4. ASSUME NEW e \in rows, Changer(e), NEW i \in DOMAIN e.files, Meets(e.files[i], path)
      PROVE  <<e, i>> \in TouchingChanges(path)
  <2>1. <<e, i>> \in Changes
    BY <1>4, ChangesOf, Zenon
  <2> QED
    BY <1>1, <1>2, <1>4, <2>1, Zenon
<1> QED
  BY <1>3, <1>4, Zenon

LEMMA KindsOf ==
    ASSUME NEW path
    PROVE  /\ \A c : c \in DiffChanges(path)
                       <=> \E e \in rows : /\ IsDiff(e)
                                           /\ \E i \in DOMAIN e.files : c = <<e, i>> /\ Meets(e.files[i], path)
           /\ \A c : c \in ReferenceChanges(path)
                       <=> \E e \in rows : /\ IsReference(e)
                                           /\ \E i \in DOMAIN e.files : c = <<e, i>> /\ Meets(e.files[i], path)
           /\ DiffChanges(path) \cap ReferenceChanges(path) = {}
           /\ DiffChanges(path) \cup ReferenceChanges(path) = TouchingChanges(path)
<1>1. \A e, i : <<e, i>>[1] = e
  OBVIOUS
<1>2. \A e : Changer(e) <=> IsReference(e) \/ IsDiff(e)
  BY Zenon DEF Changer
<1>3. \A e : ~(IsReference(e) /\ IsDiff(e))
  BY DEF IsReference, IsDiff
<1>4. \A c : c \in DiffChanges(path) <=> c \in TouchingChanges(path) /\ IsDiff(c[1])
  BY Zenon DEF DiffChanges
<1>5. \A c : c \in ReferenceChanges(path) <=> c \in TouchingChanges(path) /\ IsReference(c[1])
  BY Zenon DEF ReferenceChanges
<1>6. ASSUME NEW c
      PROVE  c \in TouchingChanges(path)
                    <=> \E e \in rows : /\ Changer(e)
                                        /\ \E i \in DOMAIN e.files : c = <<e, i>> /\ Meets(e.files[i], path)
  BY TouchingOf, Zenon
<1>7. \A c : c \in DiffChanges(path)
                <=> \E e \in rows : /\ IsDiff(e)
                                    /\ \E i \in DOMAIN e.files : c = <<e, i>> /\ Meets(e.files[i], path)
  <2>1. ASSUME NEW c, c \in DiffChanges(path)
        PROVE  \E e \in rows : /\ IsDiff(e)
                               /\ \E i \in DOMAIN e.files : c = <<e, i>> /\ Meets(e.files[i], path)
    <3>1. c \in TouchingChanges(path) /\ IsDiff(c[1])
      BY <1>4, <2>1
    <3>2. PICK e \in rows : \E i \in DOMAIN e.files : c = <<e, i>> /\ Meets(e.files[i], path)
      BY <1>6, <3>1, Zenon
    <3>3. c[1] = e
      BY <3>2
    <3> QED
      BY <3>1, <3>2, <3>3, Zenon
  <2>2. ASSUME NEW c, NEW e \in rows, IsDiff(e), NEW i \in DOMAIN e.files, c = <<e, i>>, Meets(e.files[i], path)
        PROVE  c \in DiffChanges(path)
    <3>1. c[1] = e
      BY <2>2
    <3>2. c \in TouchingChanges(path)
      BY <1>2, <1>6, <2>2, Zenon
    <3> QED
      BY <1>4, <2>2, <3>1, <3>2
  <2> QED
    BY <2>1, <2>2, Zenon
<1>8. \A c : c \in ReferenceChanges(path)
                <=> \E e \in rows : /\ IsReference(e)
                                    /\ \E i \in DOMAIN e.files : c = <<e, i>> /\ Meets(e.files[i], path)
  <2>1. ASSUME NEW c, c \in ReferenceChanges(path)
        PROVE  \E e \in rows : /\ IsReference(e)
                               /\ \E i \in DOMAIN e.files : c = <<e, i>> /\ Meets(e.files[i], path)
    <3>1. c \in TouchingChanges(path) /\ IsReference(c[1])
      BY <1>5, <2>1
    <3>2. PICK e \in rows : \E i \in DOMAIN e.files : c = <<e, i>> /\ Meets(e.files[i], path)
      BY <1>6, <3>1, Zenon
    <3>3. c[1] = e
      BY <3>2
    <3> QED
      BY <3>1, <3>2, <3>3, Zenon
  <2>2. ASSUME NEW c, NEW e \in rows, IsReference(e), NEW i \in DOMAIN e.files, c = <<e, i>>, Meets(e.files[i], path)
        PROVE  c \in ReferenceChanges(path)
    <3>1. c[1] = e
      BY <2>2
    <3>2. c \in TouchingChanges(path)
      BY <1>2, <1>6, <2>2, Zenon
    <3> QED
      BY <1>5, <2>2, <3>1, <3>2
  <2> QED
    BY <2>1, <2>2, Zenon
<1>9. \A c \in TouchingChanges(path) : IsDiff(c[1]) \/ IsReference(c[1])
  <2> TAKE c \in TouchingChanges(path)
  <2>1. PICK e \in rows : Changer(e) /\ \E i \in DOMAIN e.files : c = <<e, i>>
    BY <1>6, Zenon
  <2>2. c[1] = e
    BY <2>1
  <2> QED
    BY <1>2, <2>1, <2>2, Zenon
<1>10. DiffChanges(path) \cap ReferenceChanges(path) = {}
  BY <1>3, <1>4, <1>5, Zenon
<1>11. DiffChanges(path) \cup ReferenceChanges(path) = TouchingChanges(path)
  BY <1>4, <1>5, <1>9, Zenon
<1> QED
  BY <1>7, <1>8, <1>10, <1>11

\* The rows a query reads before it limits them.
ReferencesMet(refs, diffs, path) ==
    Select(refs, LAMBDA r : Under(r.path, path) /\ r.ref \notin DOMAIN diffs)
DiffsMet(x, path) ==
    Select(DiffFiles(x), LAMBDA r : Under(r.path, path) \/ (r.old # None /\ Under(r.old, path)))

LEMMA ReferencesListed ==
    ASSUME NEW refs, NEW diffs, RefRows(refs), DiffRows(diffs), WellNamed, NEW path
    PROVE  \E w : IsListing(ReferencesMet(refs, diffs, path), ReferenceChanges(path), w)
<1>I. PICK I : I = {i \in DOMAIN refs : Under(refs[i].path, path) /\ refs[i].ref \notin DOMAIN diffs}
  OBVIOUS
<1>T. PICK T : T = ReferenceChanges(path)
  OBVIOUS
<1>0. IsSeq(refs) /\ DOMAIN refs = 1 .. Len(refs) /\ I \in SUBSET (DOMAIN refs)
  BY <1>I DEF RefRows, IsSeq
<1>1. \A i : i \in I <=> i \in DOMAIN refs /\ Under(refs[i].path, path) /\ refs[i].ref \notin DOMAIN diffs
  BY <1>I
<1>2. \A c : c \in T <=> \E e \in rows : /\ IsReference(e)
                                         /\ \E i \in DOMAIN e.files : c = <<e, i>> /\ Meets(e.files[i], path)
  BY <1>T, KindsOf, Zenon
<1>3. \A e : Row(e).ref = e.item /\ Row(e).path = e.files[1].path /\ Row(e).at = e.recorded
  BY DEF Row, FileRef
<1>4. \A e \in rows : IsReference(e) => DOMAIN e.files = {1} /\ e.files[1].old = None /\ e.recorded \in Int
  BY Zenon DEF WellNamed
<1>5. \A e \in rows : IsReference(e) => e.item \notin DOMAIN diffs
  BY Zenon DEF WellNamed, DiffRows
<1>6. \A i \in I : \E e \in rows : IsReference(e) /\ refs[i] = Row(e)
  <2> TAKE i \in I
  <2>1. PICK e \in rows : OfPlace(refs[i], e)
    BY <1>0, <1>1 DEF RefRows
  <2>2. CASE IsDiff(e) /\ refs[i].ref = e.id
    <3>1. refs[i].ref \in DOMAIN diffs
      BY <2>2, Zenon DEF DiffRows
    <3> QED
      BY <1>1, <3>1
  <2>3. CASE IsReference(e) /\ refs[i] = Row(e)
    BY <2>3
  <2> QED
    BY <2>1, <2>2, <2>3 DEF OfPlace
<1>E. PICK E : E = [i \in I |-> CHOOSE e : e \in rows /\ IsReference(e) /\ refs[i] = Row(e)]
  OBVIOUS
<1>7. \A i \in I : E[i] \in rows /\ IsReference(E[i]) /\ refs[i] = Row(E[i])
  <2> TAKE i \in I
  <2>1. E[i] = CHOOSE e : e \in rows /\ IsReference(e) /\ refs[i] = Row(e)
    BY <1>E
  <2> QED
    BY <1>6, <2>1, Zenon
<1>v. PICK v : v = [i \in I |-> <<E[i], 1>>]
  OBVIOUS
<1>8. \A i \in I : v[i] = <<E[i], 1>> /\ v[i][1] = E[i]
  BY <1>v
<1>a. \A i \in I : v[i] \in T
  <2> TAKE i \in I
  <2>1. E[i] \in rows /\ IsReference(E[i]) /\ refs[i] = Row(E[i])
    BY <1>7
  <2>2. DOMAIN E[i].files = {1} /\ 1 \in DOMAIN E[i].files
    BY <1>4, <2>1
  <2>3. Meets(E[i].files[1], path)
    <3>1. Under(E[i].files[1].path, path)
      BY <1>1, <1>3, <2>1
    <3> QED
      BY <3>1, Zenon DEF Meets
  <2>4. <<E[i], 1>> \in T
    BY <1>2, <2>1, <2>2, <2>3, Zenon
  <2> QED
    BY <1>8, <2>4
<1>9. v \in [I -> T]
  BY <1>a, <1>v
<1>10. ASSUME NEW i \in I, NEW j \in I, v[i] = v[j] PROVE i = j
  <2>1. E[i] = E[j]
    BY <1>8, <1>10
  <2>2. refs[i].ref = E[i].item /\ refs[j].ref = E[i].item /\ E[i] \in rows /\ IsReference(E[i])
    BY <1>3, <1>7, <2>1
  <2>3. i \in 1 .. Len(refs) /\ j \in 1 .. Len(refs)
    BY <1>0
  <2> QED
    BY <2>2, <2>3, Zenon DEF RefRows
<1>11. ASSUME NEW t \in T PROVE \E i \in I : v[i] = t
  <2>1. PICK e \in rows : IsReference(e) /\ \E i \in DOMAIN e.files : t = <<e, i>> /\ Meets(e.files[i], path)
    BY <1>2, Zenon
  <2>2. t = <<e, 1>> /\ Meets(e.files[1], path) /\ e.files[1].old = None
    BY <1>4, <2>1
  <2>3. PICK r \in 1 .. Len(refs) : refs[r] = Row(e)
    BY <2>1 DEF RefRows
  <2>4. refs[r].ref = e.item /\ refs[r].path = e.files[1].path
    BY <1>3, <2>3
  <2>5. r \in I
    <3>1. Under(e.files[1].path, path)
      BY <2>2 DEF Meets
    <3>2. e.item \notin DOMAIN diffs
      BY <1>5, <2>1
    <3> QED
      BY <1>0, <1>1, <2>4, <3>1, <3>2
  <2>6. E[r] \in rows /\ E[r].item = e.item
    BY <1>3, <1>7, <2>4, <2>5
  <2>7. E[r] = e
    BY <2>1, <2>6, Zenon DEF WellNamed
  <2> QED
    BY <1>8, <2>2, <2>5, <2>7
<1>12. \A i \in I : refs[i].at = v[i][1].recorded /\ refs[i].at \in Int
  BY <1>3, <1>4, <1>7, <1>8
<1>13. \E w : IsListing(At(refs, I), T, w)
  BY <1>0, <1>9, <1>10, <1>11, <1>12, PartListed
<1>14. ReferencesMet(refs, diffs, path) = At(refs, I)
  BY <1>I, Zenon DEF ReferencesMet, Select, At
<1> QED
  BY <1>13, <1>14, <1>T

\* The rows of diff_files for one diff.
FilesOf(d, y) ==
    [i \in DOMAIN y.files |->
        [diff |-> d, path |-> y.files[i].path, old |-> y.files[i].old, at |-> y.at, session |-> y.session]]

LEMMA DiffEvents ==
    ASSUME NEW diffs, DiffRows(diffs), WellNamed
    PROVE  /\ DOMAIN diffs \subseteq Int /\ IsFiniteSet(DOMAIN diffs)
           /\ \A e \in rows : IsDiff(e) => e.id \in DOMAIN diffs
           /\ \A y \in DOMAIN diffs : \E e \in rows : IsDiff(e) /\ y = e.id /\ diffs[y] = DiffOf(e)
<1>S. PICK S : S = {e \in rows : IsDiff(e)}
  OBVIOUS
<1>1. \A y : y \in DOMAIN diffs <=> \E e \in rows : IsDiff(e) /\ y = e.id
  BY Zenon DEF DiffRows
<1>2. \A e \in rows : IsDiff(e) => diffs[e.id] = DiffOf(e)
  BY Zenon DEF DiffRows
<1>3. DOMAIN diffs \subseteq Int
  BY <1>1 DEF WellNamed
<1>4. IsFiniteSet(S)
  BY <1>S, FS_Subset DEF WellNamed
<1>D. PICK D : D = {e.id : e \in S}
  OBVIOUS
<1>5. IsFiniteSet(D)
  <2>f. PICK f : f = [e \in S |-> e.id]
    OBVIOUS
  <2>1. f \in Surjection(S, D)
    BY <1>D, <2>f DEF Surjection
  <2> QED
    BY <1>4, <2>1, FS_Surjection
<1>6. D = DOMAIN diffs
  <2>1. \A y : y \in D <=> \E e \in S : y = e.id
    BY <1>D
  <2>2. \A e : e \in S <=> e \in rows /\ IsDiff(e)
    BY <1>S
  <2>3. \A y \in D : y \in DOMAIN diffs
    BY <1>1, <2>1, <2>2, Zenon
  <2>4. \A y \in DOMAIN diffs : y \in D
    BY <1>1, <2>1, <2>2, Zenon
  <2> QED
    BY <2>3, <2>4
<1>7. \A e \in rows : IsDiff(e) => e.id \in DOMAIN diffs
  BY <1>1, Zenon
<1>8. \A y \in DOMAIN diffs : \E e \in rows : IsDiff(e) /\ y = e.id /\ diffs[y] = DiffOf(e)
  <2> TAKE y \in DOMAIN diffs
  <2>1. PICK e \in rows : IsDiff(e) /\ y = e.id
    BY <1>1
  <2>2. diffs[y] = DiffOf(e)
    BY <1>2, <2>1
  <2> QED
    BY <2>1, <2>2
<1> QED
  BY <1>3, <1>5, <1>6, <1>7, <1>8

\* u has a row for each change of the diffs g lists, pl says which.
AreDiffFiles(u, g, pl, diffs) ==
    /\ IsSeq(u)
    /\ \A j \in 1 .. Len(u) : /\ pl[j][1] \in 1 .. Cardinality(DOMAIN diffs)
                              /\ pl[j][2] \in DOMAIN diffs[g[pl[j][1]]].files
                              /\ u[j] = FilesOf(g[pl[j][1]], diffs[g[pl[j][1]]])[pl[j][2]]
    /\ \A i, j \in 1 .. Len(u) : pl[i][1] = pl[j][1] /\ pl[i][2] = pl[j][2] => i = j
    /\ \A k \in 1 .. Cardinality(DOMAIN diffs), i \in Nat :
          i \in DOMAIN diffs[g[k]].files => \E j \in 1 .. Len(u) : pl[j] = <<k, i>>

LEMMA DiffFilesListed ==
    ASSUME NEW x, \A y \in DOMAIN x.diffs : IsSeq(x.diffs[y].files),
           IsFiniteSet(DOMAIN x.diffs), DOMAIN x.diffs \subseteq Int
    PROVE  \E pl : AreDiffFiles(DiffFiles(x), InOrder(DOMAIN x.diffs), pl, x.diffs)
<1>f. PICK diffs : diffs = x.diffs
  OBVIOUS
<1>g. PICK g : g = InOrder(DOMAIN diffs)
  OBVIOUS
<1>n. PICK n : n = Cardinality(DOMAIN diffs)
  OBVIOUS
<1>F. PICK F : F = [k \in 1 .. n |-> FilesOf(g[k], diffs[g[k]])]
  OBVIOUS
<1>u. PICK u : u = DiffFiles(x)
  OBVIOUS
<1>0. n \in Nat /\ g \in [1 .. n -> DOMAIN diffs]
  BY <1>f, <1>g, <1>n, InOrderLists DEF Lists
<1>1. u = FlattenSeq(F)
  <2>1. \A d : FilesOf(d, diffs[d]) = [i \in DOMAIN diffs[d].files |->
              [diff |-> d, path |-> diffs[d].files[i].path,
               old |-> diffs[d].files[i].old, at |-> diffs[d].at,
               session |-> diffs[d].session]]
    BY Zenon DEF FilesOf
  <2>2. F = [k \in 1 .. n |-> LET d == g[k] IN [i \in DOMAIN diffs[d].files |->
              [diff |-> d, path |-> diffs[d].files[i].path,
               old |-> diffs[d].files[i].old, at |-> diffs[d].at,
               session |-> diffs[d].session]]]
    BY <1>F, <2>1, Zenon
  <2> QED
    BY <1>u, <1>f, <1>g, <1>n, <2>2, Zenon DEF DiffFiles
<1>2. \A k \in 1 .. n : /\ g[k] \in DOMAIN diffs /\ F[k] = FilesOf(g[k], diffs[g[k]])
                        /\ DOMAIN F[k] = DOMAIN diffs[g[k]].files /\ IsSeq(diffs[g[k]].files)
  <2> TAKE k \in 1 .. n
  <2>1. g[k] \in DOMAIN diffs /\ F[k] = FilesOf(g[k], diffs[g[k]])
    BY <1>0, <1>F
  <2>2. DOMAIN FilesOf(g[k], diffs[g[k]]) = DOMAIN diffs[g[k]].files
    BY DEF FilesOf
  <2> QED
    BY <1>f, <2>1, <2>2
<1>A. PICK A : A = UNION {{F[k][i] : i \in DOMAIN F[k]} : k \in 1 .. n}
  OBVIOUS
<1>3. IsSeq(F) /\ Len(F) = n
  BY <1>0, <1>F DEF IsSeq
<1>4. \A k \in 1 .. n : F[k] \in Seq(A)
  <2> TAKE k \in 1 .. n
  <2>s. PICK s : s = F[k]
    OBVIOUS
  <2>1. \A i \in DOMAIN s : s[i] \in A
    BY <1>A, <2>s
  <2>2. s = [i \in DOMAIN s |-> s[i]]
    <3>1. s = FilesOf(g[k], diffs[g[k]])
      BY <1>2, <2>s
    <3> QED
      BY <3>1 DEF FilesOf
  <2>3. PICK m \in Nat : DOMAIN s = 1 .. m
    BY <1>2, <2>s DEF IsSeq
  <2>4. s \in Seq(A)
    BY <2>1, <2>2, <2>3
  <2> QED
    BY <2>4, <2>s
<1>5. PICK pl : IsFlat(u, F, n, pl)
  BY <1>1, <1>3, <1>4, Flattened
<1>P. PICK P : P = Places(F, n)
  OBVIOUS
<1>6. \A p : p \in P <=> \E k \in 1 .. n, i \in Nat : p = <<k, i>> /\ i \in DOMAIN F[k]
  <2>1. ASSUME NEW p \in P PROVE \E k \in 1 .. n, i \in Nat : p = <<k, i>> /\ i \in DOMAIN F[k]
    BY <1>P, <2>1 DEF Places
  <2>2. ASSUME NEW k \in 1 .. n, NEW i \in Nat, i \in DOMAIN F[k] PROVE <<k, i>> \in P
    BY <1>P, <2>2 DEF Places
  <2> QED
    BY <2>1, <2>2, Zenon
<1>7. IsSeq(u) /\ pl \in [1 .. Len(u) -> P]
  BY <1>5, <1>P DEF IsFlat
<1>8. ASSUME NEW j \in 1 .. Len(u)
      PROVE  /\ pl[j][1] \in 1 .. n
             /\ pl[j][2] \in DOMAIN diffs[g[pl[j][1]]].files
             /\ u[j] = FilesOf(g[pl[j][1]], diffs[g[pl[j][1]]])[pl[j][2]]
             /\ pl[j] = <<pl[j][1], pl[j][2]>>
  <2>1. PICK k \in 1 .. n, i \in Nat : pl[j] = <<k, i>> /\ i \in DOMAIN F[k]
    BY <1>6, <1>7
  <2>2. pl[j][1] = k /\ pl[j][2] = i
    BY <2>1
  <2>3. u[j] = F[pl[j][1]][pl[j][2]]
    BY <1>5 DEF IsFlat
  <2> QED
    BY <1>2, <2>1, <2>2, <2>3
<1>9. \A i, j \in 1 .. Len(u) : pl[i][1] = pl[j][1] /\ pl[i][2] = pl[j][2] => i = j
  <2>1. \A i, j \in 1 .. Len(u) : pl[i] = pl[j] => i = j
    BY <1>5 DEF IsFlat
  <2> TAKE i \in 1 .. Len(u), j \in 1 .. Len(u)
  <2> HAVE pl[i][1] = pl[j][1] /\ pl[i][2] = pl[j][2]
  <2>2. pl[i] = <<pl[i][1], pl[i][2]>> /\ pl[j] = <<pl[j][1], pl[j][2]>>
    BY <1>8
  <2>3. pl[i] = pl[j]
    BY <2>2
  <2> QED
    BY <2>1, <2>3
<1>10. ASSUME NEW k \in 1 .. n, NEW i \in Nat, i \in DOMAIN diffs[g[k]].files
       PROVE  \E j \in 1 .. Len(u) : pl[j] = <<k, i>>
  <2>1. i \in DOMAIN F[k]
    BY <1>2, <1>10
  <2>2. <<k, i>> \in P
    BY <1>6, <2>1
  <2> QED
    BY <1>5, <1>P, <2>2 DEF IsFlat
<1>11. AreDiffFiles(u, g, pl, diffs)
  BY <1>7, <1>8, <1>9, <1>10, <1>n, Zenon DEF AreDiffFiles
<1> QED
  BY <1>11, <1>f, <1>g, <1>u

LEMMA DiffsListed ==
    ASSUME NEW x, DiffRows(x.diffs), WellNamed, NEW path
    PROVE  \E w : IsListing(DiffsMet(x, path), DiffChanges(path), w)
<1>f. PICK diffs : diffs = x.diffs
  OBVIOUS
<1>D. PICK D : D = DOMAIN diffs
  OBVIOUS
<1>g. PICK g : g = InOrder(D)
  OBVIOUS
<1>n. PICK n : n = Cardinality(D)
  OBVIOUS
<1>u. PICK u : u = DiffFiles(x)
  OBVIOUS
<1>T. PICK T : T = DiffChanges(path)
  OBVIOUS
<1>I. PICK I : I = {j \in DOMAIN u : Meets(u[j], path)}
  OBVIOUS
<1>1. D \subseteq Int /\ IsFiniteSet(D) /\ \A e \in rows : IsDiff(e) => e.id \in D
  BY <1>f, <1>D, DiffEvents
<1>2. \A y \in D : \E e \in rows : IsDiff(e) /\ y = e.id /\ diffs[y] = DiffOf(e)
  BY <1>f, <1>D, DiffEvents
<1>3. \A e : DiffOf(e).files = e.files /\ DiffOf(e).at = e.recorded
  BY DEF DiffOf
<1>4. \A e \in rows : e.recorded \in Int /\ IsSeq(e.files)
  BY Zenon DEF WellNamed
<1>5. \A y \in D : IsSeq(diffs[y].files)
  <2> TAKE y \in D
  <2>1. PICK e \in rows : diffs[y] = DiffOf(e)
    BY <1>2
  <2> QED
    BY <1>3, <1>4, <2>1
<1>6. PICK pl : AreDiffFiles(u, g, pl, diffs)
  BY <1>1, <1>5, <1>f, <1>D, <1>g, <1>u, DiffFilesListed
<1>7. n \in Nat /\ g \in [1 .. n -> D] /\ \A y \in D : \E k \in 1 .. n : g[k] = y
  BY <1>1, <1>g, <1>n, InOrderLists DEF Lists
<1>8. \A i, k \in 1 .. n : g[i] = g[k] => i = k
  <2> TAKE i \in 1 .. n, k \in 1 .. n
  <2>1. Lists(g, D, LessOn(D))
    BY <1>1, <1>g, InOrderLists
  <2>2. (i < k <=> <<g[i], g[k]>> \in LessOn(D)) /\ (k < i <=> <<g[k], g[i]>> \in LessOn(D))
    BY <1>n, <2>1 DEF Lists
  <2>3. g[i] \in Int /\ g[k] \in Int /\ i \in Int /\ k \in Int
    <3>1. g[i] \in D /\ g[k] \in D
      BY <1>7
    <3>2. \A y \in D : y \in Int
      BY <1>1
    <3>3. i \in Int /\ k \in Int
      BY <1>7
    <3> QED
      BY <3>1, <3>2, <3>3, Zenon
  <2>4. g[i] = g[k] => <<g[i], g[k]>> \notin LessOn(D) /\ <<g[k], g[i]>> \notin LessOn(D)
    BY <2>3 DEF LessOn
  <2> QED
    BY <2>2, <2>3, <2>4
<1>E. PICK E : E = [y \in D |-> CHOOSE e : e \in rows /\ IsDiff(e) /\ y = e.id /\ diffs[y] = DiffOf(e)]
  OBVIOUS
<1>9. \A y \in D : E[y] \in rows /\ IsDiff(E[y]) /\ y = E[y].id /\ diffs[y] = DiffOf(E[y])
  <2> TAKE y \in D
  <2>1. E[y] = CHOOSE e : e \in rows /\ IsDiff(e) /\ y = e.id /\ diffs[y] = DiffOf(e)
    BY <1>E
  <2> QED
    BY <1>2, <2>1, Zenon
<1>v. PICK v : v = [j \in I |-> <<E[g[pl[j][1]]], pl[j][2]>>]
  OBVIOUS
<1>10. IsSeq(u) /\ DOMAIN u = 1 .. Len(u) /\ I \in SUBSET (DOMAIN u)
  BY <1>6, <1>I DEF AreDiffFiles, IsSeq
<1>11. \A j : j \in I <=> j \in DOMAIN u /\ Meets(u[j], path)
  BY <1>I, Zenon
<1>12. \A f, h : f.path = h.path /\ f.old = h.old => (Meets(f, path) <=> Meets(h, path))
  BY DEF Meets
<1>13. ASSUME NEW j \in 1 .. Len(u), NEW e, e = E[g[pl[j][1]]]
       PROVE  /\ pl[j][1] \in 1 .. n /\ e \in rows /\ IsDiff(e) /\ e.id = g[pl[j][1]]
              /\ pl[j][2] \in DOMAIN e.files
              /\ u[j].at = e.recorded
              /\ Meets(u[j], path) <=> Meets(e.files[pl[j][2]], path)
  <2>k. PICK k : k = pl[j][1]
    OBVIOUS
  <2>i. PICK i : i = pl[j][2]
    OBVIOUS
  <2>1. k \in 1 .. n /\ i \in DOMAIN diffs[g[k]].files /\ u[j] = FilesOf(g[k], diffs[g[k]])[i]
    BY <1>6, <1>D, <1>n, <2>k, <2>i DEF AreDiffFiles
  <2>2. g[k] \in D /\ e \in rows /\ IsDiff(e) /\ g[k] = e.id /\ diffs[g[k]] = DiffOf(e)
    BY <1>7, <1>9, <1>13, <2>1, <2>k
  <2>3. i \in DOMAIN e.files
    BY <1>3, <2>1, <2>2
  <2>4. u[j].path = e.files[i].path /\ u[j].old = e.files[i].old /\ u[j].at = e.recorded
    <3>1. FilesOf(g[k], DiffOf(e))[i] =
             [diff |-> g[k], path |-> e.files[i].path, old |-> e.files[i].old,
              at |-> e.recorded, session |-> DiffOf(e).session]
      BY <1>3, <2>3 DEF FilesOf
    <3> QED
      BY <2>1, <2>2, <3>1
  <2>5. Meets(u[j], path) <=> Meets(e.files[i], path)
    BY <1>12, <2>4
  <2> QED
    BY <2>1, <2>2, <2>3, <2>4, <2>5, <2>k, <2>i
<1>14. \A c : c \in T <=> \E e \in rows : /\ IsDiff(e)
                                          /\ \E i \in DOMAIN e.files : c = <<e, i>> /\ Meets(e.files[i], path)
  BY <1>T, KindsOf, Zenon
<1>15. \A j \in I : v[j] = <<E[g[pl[j][1]]], pl[j][2]>> /\ v[j][1] = E[g[pl[j][1]]] /\ v[j][2] = pl[j][2]
  BY <1>v
<1>16. \A j \in I : v[j] \in T
  <2> TAKE j \in I
  <2>e. PICK e : e = E[g[pl[j][1]]]
    OBVIOUS
  <2>i. PICK i : i = pl[j][2]
    OBVIOUS
  <2>1. e \in rows /\ IsDiff(e) /\ i \in DOMAIN e.files /\ Meets(e.files[i], path)
    BY <1>10, <1>11, <1>13, <2>e, <2>i
  <2>2. <<e, i>> \in T
    BY <1>14, <2>1, Zenon
  <2> QED
    BY <1>15, <2>2, <2>e, <2>i
<1>17. v \in [I -> T]
  BY <1>16, <1>v
<1>18. ASSUME NEW i \in I, NEW j \in I, v[i] = v[j] PROVE i = j
  <2>1. E[g[pl[i][1]]] = E[g[pl[j][1]]] /\ pl[i][2] = pl[j][2]
    BY <1>15, <1>18
  <2>2. pl[i][1] \in 1 .. n /\ E[g[pl[i][1]]].id = g[pl[i][1]]
    BY <1>10, <1>13
  <2>3. pl[j][1] \in 1 .. n /\ E[g[pl[j][1]]].id = g[pl[j][1]]
    BY <1>10, <1>13
  <2>4. pl[i][1] = pl[j][1]
    BY <1>8, <2>1, <2>2, <2>3
  <2> QED
    BY <1>6, <1>10, <2>1, <2>4 DEF AreDiffFiles
<1>19. ASSUME NEW t \in T PROVE \E j \in I : v[j] = t
  <2>1. PICK e \in rows : IsDiff(e) /\ \E i \in DOMAIN e.files : t = <<e, i>> /\ Meets(e.files[i], path)
    BY <1>14, Zenon
  <2>2. PICK i \in DOMAIN e.files : t = <<e, i>> /\ Meets(e.files[i], path)
    BY <2>1
  <2>3. e.id \in D /\ i \in Nat
    <3>1. e.id \in D
      BY <1>1, <2>1
    <3>2. IsSeq(e.files)
      BY <1>4
    <3> QED
      BY <2>2, <3>1, <3>2 DEF IsSeq
  <2>4. PICK k \in 1 .. n : g[k] = e.id
    BY <1>7, <2>3
  <2>5. E[g[k]] \in rows /\ E[g[k]].id = e.id /\ diffs[g[k]] = DiffOf(E[g[k]])
    BY <1>9, <2>3, <2>4
  <2>6. E[g[k]] = e
    BY <2>5, Zenon DEF WellNamed
  <2>7. i \in DOMAIN diffs[g[k]].files
    BY <1>3, <2>2, <2>5, <2>6
  <2>8. PICK j \in 1 .. Len(u) : pl[j] = <<k, i>>
    BY <1>6, <1>D, <1>n, <2>3, <2>4, <2>7 DEF AreDiffFiles
  <2>9. pl[j][1] = k /\ pl[j][2] = i
    BY <2>8
  <2>10. Meets(u[j], path)
    BY <1>13, <2>2, <2>6, <2>9
  <2>11. j \in I
    BY <1>10, <1>11, <2>10
  <2> QED
    BY <1>15, <2>2, <2>6, <2>9, <2>11
<1>20. \A j \in I : u[j].at = v[j][1].recorded /\ u[j].at \in Int
  <2> TAKE j \in I
  <2>e. PICK e : e = E[g[pl[j][1]]]
    OBVIOUS
  <2>1. u[j].at = e.recorded /\ e \in rows
    BY <1>10, <1>13, <2>e
  <2> QED
    BY <1>4, <1>15, <2>1, <2>e
<1>21. \E w : IsListing(At(u, I), T, w)
  BY <1>10, <1>17, <1>18, <1>19, <1>20, PartListed
<1>22. DiffsMet(x, path) = At(u, I)
  BY <1>I, <1>u, Zenon DEF DiffsMet, Select, At, Meets
<1> QED
  BY <1>21, <1>22, <1>T

\* What is left of T is newer than no more than what out has.
LEMMA FewNewer ==
    ASSUME NEW o, NEW T, NEW limit, NEW w, IsTop(o, T, limit, w), \A t \in T : t[1].recorded \in Int
    PROVE  /\ Len(o) = IF limit < Cardinality(T) THEN limit ELSE Cardinality(T)
           /\ Cardinality({t \in T : \E i \in DOMAIN o : t[1].recorded > o[i].at}) <= Len(o)
<1>n. PICK n : n = Len(o)
  OBVIOUS
<1>R. PICK R : R = Image(w, n)
  OBVIOUS
<1>X. PICK X : X = {t \in T : \E i \in DOMAIN o : t[1].recorded > o[i].at}
  OBVIOUS
<1>0. DOMAIN o = 1 .. n /\ n \in Nat /\ n = IF limit < Cardinality(T) THEN limit ELSE Cardinality(T)
  BY <1>n DEF IsTop, IsSeq
<1>1. /\ IsFiniteSet(R) /\ Cardinality(R) = n
      /\ \A t : t \in R <=> \E i \in 1 .. n : w[i] = t
  BY <1>n, <1>R, CutOrAll
<1>2. \A i \in 1 .. n : o[i].at \in Int
  BY <1>n DEF IsTop
<1>3. \A t \in T : \/ \E i \in 1 .. n : w[i] = t
                   \/ \A i \in 1 .. n : t[1].recorded <= o[i].at
  BY <1>n DEF IsTop
<1>4. ASSUME NEW t \in X PROVE t \in R
  <2>1. t \in T /\ \E i \in 1 .. n : t[1].recorded > o[i].at
    BY <1>0, <1>X
  <2>2. PICK i \in 1 .. n : t[1].recorded > o[i].at
    BY <2>1
  <2>3. o[i].at \in Int /\ t[1].recorded \in Int
    BY <1>2, <2>1
  <2>4. ~(t[1].recorded <= o[i].at)
    BY <2>2, <2>3
  <2> QED
    BY <1>1, <1>3, <2>1, <2>4
<1>5. Cardinality(X) <= n
  <2>1. X \subseteq R
    BY <1>4
  <2> QED
    BY <1>1, <2>1, FS_Subset
<1> QED
  BY <1>0, <1>5, <1>n, <1>X

LEMMA RowsNewest == HistoryInv => BlameRowsNewest
<1>1. ASSUME HistoryInv, lines = 0, NEW q, NEW k \in Nat, NEW x, x = Build(rows),
             NEW out, out = FileSessionBlame(x, q, k), NEW touching, touching = TouchingChanges(q)
      PROVE  /\ Len(out) = IF NormalizedLimit(k) < Cardinality(touching) THEN NormalizedLimit(k)
                           ELSE Cardinality(touching)
             /\ Cardinality({t \in touching : \E i \in DOMAIN out :
                                t[1].recorded > out[i].at}) <= Len(out)
  <2>1. RefRows(x.refs) /\ DiffRows(x.diffs) /\ WellNamed
    BY <1>1, RowsRead
  <2>d. PICK d : d = DiffsMet(x, q)
    OBVIOUS
  <2>r. PICK r : r = ReferencesMet(x.refs, x.diffs, q)
    OBVIOUS
  <2>S. PICK S : S = DiffChanges(q)
    OBVIOUS
  <2>T. PICK T : T = ReferenceChanges(q)
    OBVIOUS
  <2>2. PICK wd : IsListing(d, S, wd)
    BY <2>1, <2>d, <2>S, DiffsListed
  <2>3. PICK wr : IsListing(r, T, wr)
    BY <2>1, <2>r, <2>T, ReferencesListed
  <2>a. PICK a : a = RuntimeDiffBlame(x, q, k)
    OBVIOUS
  <2>b. PICK b : b = RuntimeFileRefBlame(x, q, k)
    OBVIOUS
  <2>4. a = TakeRows(NewerFirst(d), k)
    BY <2>a, <2>d, Zenon DEF RuntimeDiffBlame, DiffsMet
  <2>5. b = TakeRows(NewerFirst(r), k)
    BY <2>b, <2>r, Zenon DEF RuntimeFileRefBlame, ReferencesMet
  <2>L. PICK L : L = NormalizedLimit(k)
    OBVIOUS
  <2>6. PICK wa : IsTop(a, S, L, wa)
    BY <2>2, <2>4, <2>L, Cut
  <2>7. PICK wb : IsTop(b, T, L, wb)
    BY <2>3, <2>5, <2>L, Cut
  <2>8. S \cap T = {} /\ S \cup T = touching
    BY <1>1, <2>S, <2>T, KindsOf
  <2>9. \A t \in touching : t[1].recorded \in Int
    <3> TAKE t \in touching
    <3>1. PICK e \in rows : \E i \in DOMAIN e.files : t = <<e, i>>
      BY <1>1, TouchingOf, Zenon
    <3>2. t[1] = e
      BY <3>1
    <3> QED
      BY <2>1, <3>2 DEF WellNamed
  <2>10. out = TakeRows(NewerFirst(OnlyRows(a) \o OnlyRows(b)), k)
    BY <1>1, <2>a, <2>b, Zenon DEF FileSessionBlame, OnlyRows
  <2>11. \E w : IsTop(out, touching, L, w)
    <3>1. IsTop(a, S, NormalizedLimit(k), wa) /\ IsTop(b, T, NormalizedLimit(k), wb)
      BY <2>6, <2>7, <2>L
    <3>2. \A t \in S \cup T : t[1].recorded \in Int
      BY <2>8, <2>9
    <3>3. \E w : IsTop(TakeRows(NewerFirst(OnlyRows(a) \o OnlyRows(b)), k), S \cup T,
                       NormalizedLimit(k), w)
      BY <2>8, <3>1, <3>2, MergedTop
    <3> QED
      BY <2>8, <2>10, <2>L, <3>3
  <2> QED
    BY <2>9, <2>11, <2>L, FewNewer
<1> SUFFICES ASSUME HistoryInv PROVE BlameRowsNewest
  OBVIOUS
<1>2. \A q : TouchingChanges(q) =
                {c \in Changes : LET f == c[1].files[c[2]]
                                 IN Under(f.path, q) \/ (f.old # None /\ Under(f.old, q))}
  BY Zenon DEF TouchingChanges, Meets
<1>3. \A k \in 0 .. 2 \cup {100} : k \in Nat
  OBVIOUS
<1>4. lines = 0 => \A q \in Paths, k \in 0 .. 2 \cup {100} :
         /\ Len(FileSessionBlame(Build(rows), q, k)) =
               IF NormalizedLimit(k) < Cardinality(TouchingChanges(q)) THEN NormalizedLimit(k)
               ELSE Cardinality(TouchingChanges(q))
         /\ Cardinality({t \in TouchingChanges(q) : \E i \in DOMAIN FileSessionBlame(Build(rows), q, k) :
                            t[1].recorded > FileSessionBlame(Build(rows), q, k)[i].at})
               <= Len(FileSessionBlame(Build(rows), q, k))
  BY <1>1, <1>3
<1> QED
  BY <1>2, <1>4, Zenon DEF BlameRowsNewest, Quiet

-----------------------------------------------------------------------------
(* When filling the cache fails.                                             *)

IsWide(e) == IsDiff(e) /\ Len(e.files) > 1
RefsKeyed(refs) == \A i, j \in DOMAIN refs : refs[i].ref = refs[j].ref => i = j

\* References are keyed until a diff changes several files.
LEMMA KeyedReferences ==
    ASSUME NEW log, Minted(log), NEW refs, RefsTable(refs, log, Len(log))
    PROVE  RefsKeyed(refs) <=> ~\E i \in 1 .. Len(log) : IsWide(log[i])
<1>n. PICK n : n = Len(log)
  OBVIOUS
<1>1. /\ Len(refs) \in Nat /\ DOMAIN refs = 1 .. Len(refs)
      /\ \A r \in 1 .. Len(refs) : \E i \in 1 .. n : OfPlace(refs[r], log[i])
      /\ \A r, s \in 1 .. Len(refs) : \A i \in 1 .. n :
            IsReference(log[i]) /\ refs[r].ref = log[i].item /\ refs[s].ref = log[i].item => r = s
      /\ DiffBlocks(refs, log, n)
  <2>1. \A r \in 1 .. Len(refs) : \E i \in 1 .. n : OfPlace(refs[r], log[i])
    BY <1>n, Zenon DEF RefsTable, OfPlace
  <2>2. \A r, s \in 1 .. Len(refs) : \A i \in 1 .. n :
            IsReference(log[i]) /\ refs[r].ref = log[i].item /\ refs[s].ref = log[i].item => r = s
    BY <1>n, Zenon DEF RefsTable
  <2>3. IsSeq(refs) /\ DiffBlocks(refs, log, n)
    BY <1>n, Zenon DEF RefsTable
  <2> QED
    BY <2>1, <2>2, <2>3 DEF IsSeq
<1>2. \A i \in 1 .. n : Len(log[i].files) \in Nat
  BY <1>n DEF Minted, LogOk, EventOk, IsSeq
<1>3. ASSUME NEW i \in 1 .. n, IsWide(log[i]) PROVE ~RefsKeyed(refs)
  <2>m. PICK m : m = Len(log[i].files)
    OBVIOUS
  <2>1. IsDiff(log[i]) /\ m > 1 /\ m \in Nat
    BY <1>2, <1>3, <2>m DEF IsWide
  <2>2. PICK o \in Nat : o + m <= Len(refs) /\ DiffBlock(refs, log[i], o)
    BY <1>1, <2>1, <2>m DEF DiffBlocks
  <2>3. /\ o + 1 \in 1 .. Len(refs) /\ o + 2 \in 1 .. Len(refs) /\ o + 1 # o + 2
        /\ o + 1 \in (o + 1) .. (o + m) /\ o + 2 \in (o + 1) .. (o + m)
    BY <1>1, <2>1, <2>2
  <2>4. refs[o + 1].ref = log[i].id /\ refs[o + 2].ref = log[i].id
    BY <2>m, <2>2, <2>3 DEF DiffBlock
  <2> QED
    BY <1>1, <2>3, <2>4 DEF RefsKeyed
<1>4. ASSUME ~\E i \in 1 .. n : IsWide(log[i]), NEW r \in 1 .. Len(refs), NEW s \in 1 .. Len(refs),
             refs[r].ref = refs[s].ref
      PROVE  r = s
  <2>1. PICK i \in 1 .. n : OfPlace(refs[r], log[i])
    BY <1>1
  <2>2. CASE IsReference(log[i]) /\ refs[r] = Row(log[i])
    <3>1. refs[r].ref = log[i].item /\ refs[s].ref = log[i].item
      BY <1>4, <2>2, RowsMade
    <3> QED
      BY <1>1, <2>2, <3>1, Zenon
  <2>3. CASE IsDiff(log[i]) /\ refs[r].ref = log[i].id
    <3>m. PICK m : m = Len(log[i].files)
      OBVIOUS
    <3>1. m \in Nat /\ ~(m > 1)
      BY <1>2, <1>4, <2>3, <3>m DEF IsWide
    <3>2. PICK o \in Nat : DiffBlock(refs, log[i], o)
      BY <1>1, <2>3 DEF DiffBlocks
    <3>3. r \in (o + 1) .. (o + m) /\ s \in (o + 1) .. (o + m)
      BY <1>4, <2>3, <3>m, <3>2 DEF DiffBlock
    <3> QED
      BY <3>1, <3>3
  <2> QED
    BY <2>1, <2>2, <2>3 DEF OfPlace
<1> QED
  BY <1>n, <1>1, <1>3, <1>4, Zenon DEF RefsKeyed

ChangesKeyed(s) ==
    \A i, j \in DOMAIN s :
        s[i].diff = s[j].diff /\ s[i].path = s[j].path /\ s[i].old = s[j].old => i = j

\* Rows of diff_files are keyed as long as no diff changes several files.
LEMMA KeyedChanges ==
    ASSUME NEW x, DiffRows(x.diffs), WellNamed, \A e \in rows : ~IsWide(e),
           NEW I \in SUBSET (DOMAIN DiffFiles(x))
    PROVE  ChangesKeyed(At(DiffFiles(x), I))
<1>f. PICK diffs : diffs = x.diffs
  OBVIOUS
<1>D. PICK D : D = DOMAIN diffs
  OBVIOUS
<1>g. PICK g : g = InOrder(D)
  OBVIOUS
<1>n. PICK n : n = Cardinality(D)
  OBVIOUS
<1>u. PICK u : u = DiffFiles(x)
  OBVIOUS
<1>1. D \subseteq Int /\ IsFiniteSet(D)
  BY <1>f, <1>D, DiffEvents
<1>2. \A y \in D : \E e \in rows : IsDiff(e) /\ y = e.id /\ diffs[y] = DiffOf(e)
  BY <1>f, <1>D, DiffEvents
<1>3. \A y \in D : IsSeq(diffs[y].files) /\ DOMAIN diffs[y].files \subseteq {1}
  <2> TAKE y \in D
  <2>1. PICK e \in rows : IsDiff(e) /\ diffs[y] = DiffOf(e)
    BY <1>2
  <2>2. diffs[y].files = e.files /\ IsSeq(e.files)
    BY <2>1 DEF DiffOf, WellNamed
  <2>3. ~(Len(e.files) > 1)
    BY <2>1 DEF IsWide
  <2>4. DOMAIN e.files \subseteq {1}
    BY <2>2, <2>3 DEF IsSeq
  <2> QED
    BY <2>2, <2>4
<1>4. PICK pl : AreDiffFiles(u, g, pl, diffs)
  BY <1>1, <1>3, <1>f, <1>D, <1>g, <1>u, DiffFilesListed
<1>5. n \in Nat /\ g \in [1 .. n -> D] /\ Lists(g, D, LessOn(D))
  BY <1>1, <1>g, <1>n, InOrderLists DEF Lists
<1>6. \A i, k \in 1 .. n : g[i] = g[k] => i = k
  <2> TAKE i \in 1 .. n, k \in 1 .. n
  <2>2. (i < k <=> <<g[i], g[k]>> \in LessOn(D)) /\ (k < i <=> <<g[k], g[i]>> \in LessOn(D))
    BY <1>5, <1>n DEF Lists
  <2>3. i \in Int /\ k \in Int
    BY <1>5
  <2>4. g[i] = g[k] => <<g[i], g[k]>> \notin LessOn(D) /\ <<g[k], g[i]>> \notin LessOn(D)
    <3>1. g[i] \in Int
      BY <1>1, <1>5
    <3> QED
      BY <3>1 DEF LessOn
  <2> QED
    BY <2>2, <2>3, <2>4
<1>7. ASSUME NEW j \in 1 .. Len(u)
      PROVE  pl[j][1] \in 1 .. n /\ pl[j][2] = 1 /\ u[j].diff = g[pl[j][1]]
  <2>k. PICK k : k = pl[j][1]
    OBVIOUS
  <2>i. PICK i : i = pl[j][2]
    OBVIOUS
  <2>1. k \in 1 .. n /\ i \in DOMAIN diffs[g[k]].files /\ u[j] = FilesOf(g[k], diffs[g[k]])[i]
    BY <1>4, <1>D, <1>n, <2>k, <2>i DEF AreDiffFiles
  <2>2. g[k] \in D
    BY <1>5, <2>1
  <2>3. i = 1
    BY <1>3, <2>1, <2>2
  <2>4. u[j].diff = g[k]
    BY <2>1 DEF FilesOf
  <2> QED
    BY <2>1, <2>3, <2>4, <2>k, <2>i
<1>8. IsSeq(u) /\ \A i, j \in 1 .. Len(u) : u[i].diff = u[j].diff => i = j
  <2>1. IsSeq(u) /\ \A i, j \in 1 .. Len(u) : pl[i][1] = pl[j][1] /\ pl[i][2] = pl[j][2] => i = j
    BY <1>4 DEF AreDiffFiles
  <2>2. ASSUME NEW i \in 1 .. Len(u), NEW j \in 1 .. Len(u), u[i].diff = u[j].diff PROVE i = j
    BY <1>6, <1>7, <2>1, <2>2
  <2> QED
    BY <2>1, <2>2
<1>t. PICK t : t = At(u, I)
  OBVIOUS
<1>q. PICK q : q = InOrder(I)
  OBVIOUS
<1>9. IsSelected(t, u, I, q)
  BY <1>8, <1>t, <1>q, <1>u, Selected
<1>10. ASSUME NEW i \in 1 .. Len(t), NEW j \in 1 .. Len(t), t[i].diff = t[j].diff PROVE i = j
  <2>1. q[i] \in 1 .. Len(u) /\ q[j] \in 1 .. Len(u) /\ t[i] = u[q[i]] /\ t[j] = u[q[j]]
    BY <1>8, <1>9, <1>u DEF IsSelected, IsSeq
  <2>2. q[i] = q[j]
    BY <1>8, <1>10, <2>1
  <2>3. (i < j <=> q[i] < q[j]) /\ (j < i <=> q[j] < q[i])
    BY <1>9 DEF IsSelected
  <2>4. q[i] \in Int /\ i \in Int /\ j \in Int
    BY <1>8, <1>9, <2>1 DEF IsSelected, IsSeq
  <2> QED
    BY <2>2, <2>3, <2>4
<1>11. DOMAIN t = 1 .. Len(t)
  BY <1>9 DEF IsSelected, IsSeq
<1>12. ChangesKeyed(t)
  BY <1>10, <1>11 DEF ChangesKeyed
<1> QED
  BY <1>12, <1>t, <1>u

LEMMA FailsWhen ==
    ASSUME NEW x, NEW refs, refs = x.refs, NEW u, u = DiffFiles(x),
           NEW I, I = {j \in DOMAIN u : u[j].old # None}
    PROVE  InsertFails(x) <=> ~RefsKeyed(refs) \/ ~ChangesKeyed(At(u, I))
<1>1. UniqueBy(refs, LAMBDA r : r.ref) <=> RefsKeyed(refs)
  BY Zenon DEF UniqueBy, RefsKeyed
<1>t. PICK t : t = At(u, I)
  OBVIOUS
<1>2. UniqueBy(t, LAMBDA r : <<r.diff, r.path, r.old>>) <=> ChangesKeyed(t)
  <2>1. UniqueBy(t, LAMBDA r : <<r.diff, r.path, r.old>>)
          <=> \A i, j \in DOMAIN t : <<t[i].diff, t[i].path, t[i].old>> = <<t[j].diff, t[j].path, t[j].old>> => i = j
    BY Zenon DEF UniqueBy
  <2>2. \A a, b, c, d, e, f : <<a, b, c>> = <<d, e, f>> <=> a = d /\ b = e /\ c = f
    OBVIOUS
  <2> QED
    BY <2>1, <2>2, Zenon DEF ChangesKeyed
<1>3. Select(u, LAMBDA r : r.old # None) = t
  BY <1>t, Zenon DEF Select, At
<1> QED
  BY <1>1, <1>2, <1>3, <1>t, Zenon DEF InsertFails

LEMMA WideDiffsFail == HistoryInv => OnlyWideDiffsFail
<1> SUFFICES ASSUME HistoryInv, lines = 0
             PROVE  InsertFails(Build(rows)) <=>
                       \E e \in rows : e.type = "diff.captured" /\ Applies(e) /\ Len(e.files) > 1
  BY Zenon DEF OnlyWideDiffsFail, Quiet
<1>x. PICK x : x = Build(rows)
  OBVIOUS
<1>u. PICK u : u = DiffFiles(x)
  OBVIOUS
<1>I. PICK I : I = {j \in DOMAIN u : u[j].old # None}
  OBVIOUS
<1>1. InsertFails(x) <=> ~RefsKeyed(x.refs) \/ ~ChangesKeyed(At(u, I))
  BY <1>u, <1>I, FailsWhen
<1>2. Minted(Events) /\ RefsTable(x.refs, Events, Len(Events))
  BY <1>x, MintedRows DEF Tables
<1>3. \A e : e \in rows <=> \E i \in 1 .. Len(Events) : Events[i] = e
  BY QuietRows, Zenon DEF Ordering
<1>4. RefsKeyed(x.refs) <=> ~\E e \in rows : IsWide(e)
  <2>1. RefsKeyed(x.refs) <=> ~\E i \in 1 .. Len(Events) : IsWide(Events[i])
    BY <1>2, KeyedReferences
  <2> QED
    BY <1>3, <2>1, Zenon
<1>5. (\A e \in rows : ~IsWide(e)) => ChangesKeyed(At(u, I))
  <2>1. DiffRows(x.diffs) /\ WellNamed
    BY <1>x, RowsRead
  <2>2. I \in SUBSET (DOMAIN u)
    BY <1>I
  <2> QED
    BY <1>u, <2>1, <2>2, KeyedChanges
<1>6. \A e : IsWide(e) <=> e.type = "diff.captured" /\ Applies(e) /\ Len(e.files) > 1
  BY DEF IsWide, IsDiff
<1> QED
  BY <1>x, <1>1, <1>4, <1>5, <1>6, Zenon

LEMMA CacheHolds == HistoryInv => SqliteAgrees
BY WideDiffsFail, SessionAgrees, PathsComplete, QueryComplete, RowsNewest, Zenon DEF SqliteAgrees

\* A rebuild of the SQLite cache fails just when a captured diff changes several
\* files; when it does not, what the cache answers is what the rows say: a
\* session's missions, artifacts and logs, an artifact's paths, the artifacts of
\* a session or a mission, and a path's newest sessions, which limiting diffs and
\* references before they are merged does not lose (sqlite_index.rs).
THEOREM CacheAgrees == Spec => []SqliteAgrees
<1>1. HistoryInv => SqliteAgrees
  BY CacheHolds
<1> QED
  BY <1>1, History, PTL

=============================================================================
