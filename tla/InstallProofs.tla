--------------------------- MODULE InstallProofs ---------------------------
(***************************************************************************)
(* Proofs about Install for every set of builds and any number of commands *)
(* and edits: that the user's part of every file is kept, that installing  *)
(* twice or installing and uninstalling changes nothing, and that what a   *)
(* command reports is so.                                                  *)
(***************************************************************************)
EXTENDS Install, SequenceTheorems, FiniteSetTheorems, WellFoundedInduction, TLAPS

-----------------------------------------------------------------------------
(* Order. *)

\* A nonempty set of naturals has a least element.
LEMMA LeastElement ==
    ASSUME NEW S \in SUBSET Nat, S # {}
    PROVE  \E x \in S : \A y \in S : x <= y
<1> DEFINE Less == {ss \in Nat \X Nat : ss[1] < ss[2]}
<1>1. Less = OpToRel(<, Nat)
  BY Zenon DEF OpToRel
<1>2. IsWellFoundedOn(Less, Nat)
  BY <1>1, NatLessThanWellFounded, Zenon
<1> HIDE DEF Less
<1>3. PICK x \in S : \A y \in S : ~ (<<y, x>> \in Less)
  BY <1>2, WFMin, Zenon
<1>4. ASSUME NEW y \in S PROVE x <= y
  <2>1. y < x => <<y, x>> \in Less
    BY SMT DEF Less
  <2> QED
    BY <1>3, <2>1
<1> QED
  BY <1>4

\* Min and Max of a set of places are the first and the last of them.
LEMMA FirstPlace ==
    ASSUME NEW S \in SUBSET Nat, S # {}
    PROVE  Min(S) \in S /\ \A y \in S : Min(S) <= y
BY LeastElement DEF Min

LEMMA LastPlace ==
    ASSUME NEW n \in Nat, NEW S \in SUBSET (1 .. n), S # {}
    PROVE  Max(S) \in S /\ \A y \in S : y <= Max(S)
<1> DEFINE T == {n - x : x \in S}
<1>1. PICK x \in T : \A y \in T : x <= y
  <2>1. \A x \in S : x \in 1 .. n /\ n - x \in Nat
    OBVIOUS
  <2>2. T \in SUBSET Nat /\ T # {}
    BY <2>1
  <2> HIDE DEF T
  <2> QED
    BY <2>2, LeastElement
<1>2. PICK s \in S : x = n - s
  OBVIOUS
<1>3. ASSUME NEW y \in S PROVE y <= s
  <2>1. n - y \in T
    OBVIOUS
  <2>2. n - s <= n - y
    BY <1>1, <1>2, <2>1
  <2> HIDE DEF T
  <2> QED
    BY <2>2
<1> QED
  BY <1>3 DEF Max

\* A map that keeps the order and reaches every place of T.
LEMMA SameInOrderBy ==
    ASSUME NEW x, NEW S \in SUBSET Nat, NEW y, NEW T \in SUBSET Nat, NEW f \in [S -> T],
           \A t \in T : \E i \in S : f[i] = t,
           \A i \in S : y[f[i]] = x[i],
           \A i, j \in S : i < j => f[i] < f[j]
    PROVE  SameInOrder(x, S, y, T)
<1>1. \A i, j \in S : f[i] = f[j] => i = j
  <2> SUFFICES ASSUME NEW i \in S, NEW j \in S, f[i] = f[j] PROVE i = j
    OBVIOUS
  <2>1. i \in Nat /\ j \in Nat /\ f[i] \in Nat /\ f[j] \in Nat
    OBVIOUS
  <2>2. ~ (i < j) /\ ~ (j < i)
    BY <2>1
  <2> QED
    BY <2>1, <2>2
<1>2. f \in Bijection(S, T)
  BY <1>1 DEF Bijection, Injection, Surjection, IsInjective
<1> QED
  BY <1>2 DEF SameInOrder

\* Where the places and the elements are the same.
LEMMA SameInPlace ==
    ASSUME NEW x, NEW y, NEW S \in SUBSET Nat, \A i \in S : y[i] = x[i]
    PROVE  SameInOrder(x, S, y, S)
<1> DEFINE f == [i \in S |-> i]
<1>1. f \in [S -> S] /\ \A i \in S : f[i] = i
  OBVIOUS
<1> HIDE DEF f
<1> QED
  BY <1>1, SameInOrderBy

\* The number of places of S up to one of them counts them through.
LEMMA RankCounts ==
    ASSUME NEW n \in Nat, NEW S \in SUBSET (1 .. n)
    PROVE  LET r == [i \in S |-> Cardinality({j \in S : j <= i})] IN
           /\ Cardinality(S) \in Nat
           /\ r \in [S -> 1 .. Cardinality(S)]
           /\ \A i, j \in S : i < j => r[i] < r[j]
           /\ \A k \in 1 .. Cardinality(S) : \E i \in S : r[i] = k
<1> DEFINE Upto(i) == {j \in S : j <= i}
           r == [i \in S |-> Cardinality(Upto(i))]
<1>1. IsFiniteSet(S) /\ Cardinality(S) \in Nat
  <2>1. IsFiniteSet(1 .. n)
    BY FS_Interval
  <2> QED
    BY <2>1, FS_Subset, FS_CardinalityType
<1>2. ASSUME NEW i \in S
      PROVE  /\ IsFiniteSet(Upto(i)) /\ Cardinality(Upto(i)) \in 1 .. Cardinality(S)
  <2>1. IsFiniteSet(Upto(i)) /\ Cardinality(Upto(i)) <= Cardinality(S)
    BY <1>1, FS_Subset
  <2>2. Cardinality(Upto(i)) \in Nat /\ i \in Upto(i)
    BY <2>1, FS_CardinalityType
  <2>3. Cardinality(Upto(i)) # 0
    BY <2>1, <2>2, FS_EmptySet
  <2> HIDE DEF Upto
  <2> QED
    BY <1>1, <2>1, <2>2, <2>3
<1>3. r \in [S -> 1 .. Cardinality(S)]
  <2> HIDE DEF Upto
  <2> QED
    BY <1>2
<1>4. ASSUME NEW i \in S, NEW j \in S, i < j PROVE r[i] < r[j]
  <2>1. Upto(i) \in SUBSET Upto(j) /\ j \in Upto(j) /\ j \notin Upto(i)
    <3>1. \A k \in S : k \in Nat
      OBVIOUS
    <3>2. \A k \in S : k <= i => k <= j
      BY <1>4, <3>1
    <3>3. j <= j /\ ~ (j <= i)
      BY <1>4, <3>1
    <3> QED
      BY <3>2, <3>3
  <2> HIDE DEF Upto
  <2>2. IsFiniteSet(Upto(i)) /\ IsFiniteSet(Upto(j))
    BY <1>2
  <2>3. Cardinality(Upto(i)) <= Cardinality(Upto(j))
        /\ Cardinality(Upto(i)) # Cardinality(Upto(j))
    BY <2>1, <2>2, FS_Subset
  <2>4. Cardinality(Upto(i)) \in Nat /\ Cardinality(Upto(j)) \in Nat
    BY <2>2, FS_CardinalityType
  <2> QED
    BY <2>3, <2>4
<1>5. r \in Surjection(S, 1 .. Cardinality(S))
  <2>1. \A i, j \in S : r[i] = r[j] => i = j
    <3> SUFFICES ASSUME NEW i \in S, NEW j \in S, r[i] = r[j] PROVE i = j
      OBVIOUS
    <3>1. ~ (i < j) /\ ~ (j < i)
      <4>1. r[i] \in Nat /\ r[j] \in Nat
        BY <1>1, <1>3
      <4> HIDE DEF r
      <4> QED
        BY <1>4, <4>1
    <3> QED
      BY <3>1
  <2>2. r \in Injection(S, 1 .. Cardinality(S))
    BY <1>3, <2>1 DEF Injection, IsInjective
  <2>3. IsFiniteSet(1 .. Cardinality(S)) /\ Cardinality(1 .. Cardinality(S)) = Cardinality(S)
    BY <1>1, FS_Interval
  <2> HIDE DEF r
  <2> QED
    BY <2>2, <2>3, FS_Injection
<1> HIDE DEF Upto
<1>6. \A k \in 1 .. Cardinality(S) : \E i \in S : r[i] = k
  <2> HIDE DEF r
  <2> QED
    BY <1>5 DEF Surjection
<1> QED
  BY <1>1, <1>3, <1>4, <1>6 DEF Upto

\* What Only keeps of a sequence.
LEMMA OnlyKeeps ==
    ASSUME NEW X, NEW s \in Seq(X), NEW S \in SUBSET DOMAIN s
    PROVE  /\ Only(s, S) \in Seq(X)
           /\ Cardinality(S) \in Nat /\ DOMAIN Only(s, S) = 1 .. Cardinality(S)
           /\ \E r \in [S -> 1 .. Cardinality(S)] :
                /\ \A k \in 1 .. Cardinality(S) : \E i \in S : r[i] = k
                /\ \A i \in S : Only(s, S)[r[i]] = s[i]
                /\ \A i, j \in S : i < j => r[i] < r[j]
<1> DEFINE n == Cardinality(S)
           r == [i \in S |-> Cardinality({j \in S : j <= i})]
           At(k) == CHOOSE i \in S : Cardinality({j \in S : j <= i}) = k
<1>1. Len(s) \in Nat /\ S \in SUBSET (1 .. Len(s)) /\ s \in [1 .. Len(s) -> X]
  BY LenProperties
<1>2. /\ n \in Nat /\ r \in [S -> 1 .. n]
      /\ \A i, j \in S : i < j => r[i] < r[j]
      /\ \A k \in 1 .. n : \E i \in S : r[i] = k
  BY <1>1, RankCounts
<1>3. \A i, j \in S : r[i] = r[j] => i = j
  <2> SUFFICES ASSUME NEW i \in S, NEW j \in S, r[i] = r[j] PROVE i = j
    OBVIOUS
  <2>1. r[i] \in Nat /\ r[j] \in Nat /\ i \in Nat /\ j \in Nat
    BY <1>1, <1>2
  <2> HIDE DEF r
  <2>2. ~ (i < j) /\ ~ (j < i)
    BY <1>2, <2>1
  <2> QED
    BY <2>1, <2>2
<1>4. \A k \in 1 .. n : At(k) \in S /\ r[At(k)] = k
  <2> SUFFICES ASSUME NEW k \in 1 .. n PROVE At(k) \in S /\ r[At(k)] = k
    OBVIOUS
  <2>1. \E i \in S : Cardinality({j \in S : j <= i}) = k
    BY <1>2
  <2>2. At(k) \in S /\ Cardinality({j \in S : j <= At(k)}) = k
    BY <2>1
  <2> QED
    BY <2>2
<1>5. \A i \in S : At(r[i]) = i
  <2> HIDE DEF r, At
  <2> QED
    BY <1>2, <1>3, <1>4
<1>6. Only(s, S) = [k \in 1 .. n |-> s[At(k)]]
  BY DEF Only
<1> HIDE DEF r, At, n
<1>7. Only(s, S) \in Seq(X)
  <2>1. Only(s, S) \in [1 .. n -> X]
    BY <1>1, <1>4, <1>6
  <2> QED
    BY <1>2, <2>1, SeqDef
<1>8. \A i \in S : Only(s, S)[r[i]] = s[i]
  BY <1>2, <1>5, <1>6
<1> QED
  BY <1>2, <1>6, <1>7, <1>8 DEF n

-----------------------------------------------------------------------------
(* Memory files. *)

Tokens == Owned \cup {NL, End}
IsWord(t) == t \notin {NL, End} /\ ~IsBrick(t)

LEMMA WordsOf ==
    ASSUME NEW x \in Seq(Tokens)
    PROVE  /\ Len(x) \in Nat /\ DOMAIN x = 1 .. Len(x) /\ x \in [1 .. Len(x) -> Tokens]
           /\ Words(x) = {i \in 1 .. Len(x) : IsWord(x[i])}
           /\ Words(x) \in SUBSET (1 .. Len(x)) /\ Words(x) \in SUBSET Nat
<1>1. Len(x) \in Nat /\ DOMAIN x = 1 .. Len(x) /\ x \in [1 .. Len(x) -> Tokens]
  BY LenProperties
<1>2. Words(x) = {i \in 1 .. Len(x) : IsWord(x[i])}
  BY <1>1 DEF Words, IsWord
<1> QED
  BY <1>1, <1>2

\* Brick's tokens are none of the user's words.
LEMMA NoWords == ~IsWord(NL) /\ ~IsWord(End) /\ \A v : ~IsWord(Brick(v))
BY DEF IsWord, IsBrick, Brick

(***************************************************************************)
(* A text cut between a and b, with k tokens put in between, has the words *)
(* it had when none was cut out or put in.                                 *)
(***************************************************************************)
LEMMA SplicedWords ==
    ASSUME NEW x \in Seq(Tokens), NEW y \in Seq(Tokens), NEW k \in Nat,
           NEW a \in 0 .. Len(x), NEW b \in (a + 1) .. (Len(x) + 1),
           Len(y) = a + k + (Len(x) - b + 1),
           \A i \in 1 .. a : y[i] = x[i],
           \A i \in 1 .. k : ~IsWord(y[a + i]),
           \A i \in b .. Len(x) : y[i - b + 1 + a + k] = x[i],
           \A i \in (a + 1) .. (b - 1) : ~IsWord(x[i])
    PROVE  SameWords(x, y)
<1> DEFINE To2(i) == IF i <= a THEN i ELSE i - b + 1 + a + k
           f == [i \in Words(x) |-> To2(i)]
<1>1. /\ Len(x) \in Nat /\ Len(y) \in Nat /\ a \in Nat /\ b \in Nat
      /\ Words(x) = {i \in 1 .. Len(x) : IsWord(x[i])}
      /\ Words(y) = {i \in 1 .. Len(y) : IsWord(y[i])}
  BY WordsOf
<1>2. ASSUME NEW i \in Words(x)
      PROVE  /\ i \in Nat /\ i \in 1 .. Len(x) /\ (i <= a \/ b <= i)
             /\ To2(i) \in Words(y) /\ y[To2(i)] = x[i]
  <2>1. i \in 1 .. Len(x) /\ IsWord(x[i]) /\ (i <= a \/ b <= i)
    BY <1>1
  <2>2. To2(i) \in 1 .. Len(y) /\ y[To2(i)] = x[i]
    <3>1. CASE i <= a
      BY <1>1, <2>1, <3>1
    <3>2. CASE ~ (i <= a)
      BY <1>1, <2>1, <3>2
    <3> QED
      BY <3>1, <3>2
  <2> QED
    BY <1>1, <2>1, <2>2
<1>3. f \in [Words(x) -> Words(y)] /\ \A i \in Words(x) : y[f[i]] = x[i]
  BY <1>2
<1>4. ASSUME NEW i \in Words(x), NEW j \in Words(x), i < j PROVE f[i] < f[j]
  <2>1. /\ i \in Nat /\ j \in Nat /\ (i <= a \/ b <= i) /\ (j <= a \/ b <= j)
    BY <1>2
  <2>2. To2(i) < To2(j)
    BY <1>1, <1>4, <2>1
  <2> QED
    BY <2>2
<1>5. ASSUME NEW t \in Words(y) PROVE \E i \in Words(x) : f[i] = t
  <2>1. t \in 1 .. Len(y) /\ IsWord(y[t])
    BY <1>1
  <2>2. CASE t <= a
    <3>1. t \in Words(x) /\ To2(t) = t
      BY <1>1, <2>1, <2>2
    <3> QED
      BY <3>1
  <2>3. CASE a < t /\ t <= a + k
    <3>1. t - a \in 1 .. k /\ a + (t - a) = t
      BY <1>1, <2>1, <2>3
    <3> QED
      BY <2>1, <3>1
  <2>4. CASE a + k < t
    <3>1. t - k - a + b - 1 \in b .. Len(x) /\ (t - k - a + b - 1) - b + 1 + a + k = t
      BY <1>1, <2>1, <2>4
    <3>2. PICK i \in b .. Len(x) : i - b + 1 + a + k = t
      BY <3>1
    <3>3. y[t] = x[i]
      BY <3>2
    <3>4. i \in 1 .. Len(x) /\ ~ (i <= a)
      BY <1>1, <3>2
    <3>5. i \in Words(x)
      BY <1>1, <2>1, <3>3, <3>4
    <3>6. f[i] = t
      BY <3>2, <3>4, <3>5
    <3> QED
      BY <3>5, <3>6
  <2> QED
    BY <1>1, <2>1, <2>2, <2>3, <2>4
<1>6. Words(x) \in SUBSET Nat /\ Words(y) \in SUBSET Nat
  BY WordsOf
<1> HIDE DEF f
<1> QED
  BY <1>3, <1>4, <1>5, <1>6, SameInOrderBy DEF SameWords

\* Texts without words have the same words.
LEMMA Wordless ==
    ASSUME NEW x, NEW y, Words(x) = {}, Words(y) = {}
    PROVE  SameWords(x, y)
<1>1. SameInOrder(x, {}, y, {})
  BY SameInPlace
<1> QED
  BY <1>1 DEF SameWords

\* One has words if the other has.
LEMMA WordlessAlike ==
    ASSUME NEW x, NEW y, SameWords(x, y), Words(y) = {}
    PROVE  Words(x) = {}
<1>1. PICK f \in Bijection(Words(x), Words(y)) : TRUE
  BY DEF SameWords, SameInOrder
<1>2. f \in [Words(x) -> Words(y)]
  BY <1>1 DEF Bijection, Injection
<1> QED
  BY <1>2

\* A text of newlines has no words.
LEMMA BlankIsWordless ==
    ASSUME NEW x \in Seq(Tokens), IsBlank(x)
    PROVE  Words(x) = {}
BY WordsOf, NoWords DEF IsBlank

\* The block is a start marker and an end after it, right after it when none is stray.
LEMMA BlockFound ==
    ASSUME NEW x \in Seq(Tokens), FindBlock(x) # <<>>
    PROVE  \E m \in 1 .. Len(x), e \in 1 .. Len(x) :
             /\ FindBlock(x)[1] = m /\ FindBlock(x)[2] = e
             /\ m < e /\ IsBrick(x[m]) /\ x[e] = End
             /\ \A i \in 1 .. (m - 1) : ~IsBrick(x[i])
             /\ ~Stray(x) => e = m + 1
<1> DEFINE starts == {i \in DOMAIN x : IsBrick(x[i])}
           ends == {i \in DOMAIN x : x[i] = End /\ i > Min(starts)}
<1>1. starts # {} /\ ends # {} /\ FindBlock(x) = <<Min(starts), Min(ends)>>
  BY DEF FindBlock
<1>2. Len(x) \in Nat /\ DOMAIN x = 1 .. Len(x)
  BY WordsOf
<1>3. Min(starts) \in starts /\ \A i \in starts : Min(starts) <= i
  <2>1. starts \in SUBSET Nat
    BY <1>2
  <2> HIDE DEF starts
  <2> QED
    BY <1>1, <2>1, FirstPlace
<1>m. PICK m : m = Min(starts)
  OBVIOUS
<1>4. m \in 1 .. Len(x) /\ IsBrick(x[m])
  BY <1>2, <1>3, <1>m
<1>9. ASSUME NEW i \in 1 .. (m - 1) PROVE ~IsBrick(x[i])
  <2>1. i \in 1 .. Len(x) /\ i < m
    BY <1>2, <1>4
  <2>2. IsBrick(x[i]) => i \in starts
    BY <1>2, <2>1
  <2>3. i \in starts => m <= i
    BY <1>3, <1>m
  <2> HIDE DEF starts
  <2> QED
    BY <1>2, <1>4, <2>1, <2>2, <2>3
<1>5. Min(ends) \in ends /\ \A i \in ends : Min(ends) <= i
  <2>1. ends \in SUBSET Nat
    BY <1>2
  <2> HIDE DEF ends
  <2> QED
    BY <1>1, <2>1, FirstPlace
<1>e. PICK e : e = Min(ends)
  OBVIOUS
<1>6. e \in 1 .. Len(x) /\ x[e] = End /\ m < e /\ \A i \in 1 .. Len(x) : x[i] = End /\ i > m => e <= i
  BY <1>2, <1>5, <1>m, <1>e
<1>7. ASSUME ~Stray(x) PROVE e = m + 1
  <2> HIDE DEF starts, ends
  <2>0. \A i \in 1 .. Len(x) : IsBrick(x[i]) => i < Len(x) /\ x[i + 1] = End
    BY <1>2, <1>7 DEF Stray
  <2>1. m + 1 \in 1 .. Len(x) /\ x[m + 1] = End
    BY <1>2, <1>4, <2>0
  <2>2. e <= m + 1
    BY <1>2, <1>4, <1>6, <2>1
  <2> QED
    BY <1>2, <1>4, <1>6, <2>2
<1> HIDE DEF starts, ends
<1>8. FindBlock(x)[1] = m /\ FindBlock(x)[2] = e
  BY <1>1, <1>m, <1>e
<1> QED
  BY <1>4, <1>6, <1>7, <1>8, <1>9

\* What is trimmed off the end of a text is newlines.
LEMMA Trimmed ==
    ASSUME NEW x \in Seq(Tokens), ~IsBlank(x)
    PROVE  \E m \in 1 .. Len(x) :
             /\ TrimEnd(x) = SubSeq(x, 1, m) /\ x[m] # NL
             /\ \A i \in (m + 1) .. Len(x) : x[i] = NL
<1> DEFINE S == {i \in DOMAIN x : x[i] # NL}
<1>1. Len(x) \in Nat /\ DOMAIN x = 1 .. Len(x) /\ S \in SUBSET (1 .. Len(x)) /\ S # {}
  BY WordsOf DEF IsBlank
<1>2. TrimEnd(x) = SubSeq(x, 1, Max(S))
  BY DEF TrimEnd
<1>3. Max(S) \in S /\ \A i \in S : i <= Max(S)
  <2> HIDE DEF S
  <2> QED
    BY <1>1, LastPlace
<1>4. PICK m : m = Max(S)
  OBVIOUS
<1>5. m \in 1 .. Len(x) /\ x[m] # NL /\ TrimEnd(x) = SubSeq(x, 1, m)
  BY <1>1, <1>2, <1>3, <1>4
<1>6. \A i \in (m + 1) .. Len(x) : x[i] = NL
  <2> SUFFICES ASSUME NEW i \in (m + 1) .. Len(x), x[i] # NL PROVE FALSE
    OBVIOUS
  <2>1. i \in S
    BY <1>1, <1>5
  <2>2. i <= m
    BY <1>3, <1>4, <2>1
  <2> HIDE DEF S
  <2> QED
    BY <1>1, <1>5, <2>2
<1> QED
  BY <1>5, <1>6

\* A text with a part cut out and another put in.
LEMMA Spliced ==
    ASSUME NEW x \in Seq(Tokens), NEW mid \in Seq(Tokens),
           NEW a \in 0 .. Len(x), NEW b \in (a + 1) .. (Len(x) + 1)
    PROVE  LET y == SubSeq(x, 1, a) \o mid \o SubSeq(x, b, Len(x)) IN
           /\ y \in Seq(Tokens)
           /\ (/\ \A i \in 1 .. Len(mid) : ~IsWord(mid[i])
               /\ \A i \in (a + 1) .. (b - 1) : ~IsWord(x[i])) => SameWords(x, y)
<1> DEFINE p == SubSeq(x, 1, a)
           q == SubSeq(x, b, Len(x))
           y == p \o mid \o q
<1>1. /\ Len(x) \in Nat /\ Len(mid) \in Nat /\ a \in Nat /\ b \in Nat /\ a < b /\ b <= Len(x) + 1
      /\ x \in [1 .. Len(x) -> Tokens]
  BY LenProperties
<1>2. p \in Seq(Tokens) /\ Len(p) = a /\ \A i \in 1 .. a : p[i] = x[i]
  <2>1. \A i \in 1 .. a : x[i] \in Tokens
    BY <1>1
  <2>2. a = 0 => p \in Seq(Tokens) /\ Len(p) = a
    BY <1>1
  <2>3. Len(p) = a /\ \A i \in 1 .. a : p[i] = x[i]
    BY <1>1
  <2> QED
    BY <1>1, <2>1, <2>3
<1>3. q \in Seq(Tokens) /\ Len(q) = Len(x) - b + 1 /\ \A i \in b .. Len(x) : q[i - b + 1] = x[i]
  BY <1>1
<1> HIDE DEF p, q
<1>4. y \in Seq(Tokens) /\ Len(y) = a + Len(mid) + (Len(x) - b + 1)
  <2>1. p \o mid \in Seq(Tokens) /\ Len(p \o mid) = a + Len(mid)
    BY <1>2, ConcatProperties
  <2>2. y \in Seq(Tokens) /\ Len(y) = Len(p \o mid) + Len(q)
    BY <1>3, <2>1, ConcatProperties, Zenon
  <2> HIDE DEF y
  <2> QED
    BY <1>1, <1>3, <2>1, <2>2
<1>5. \A i \in 1 .. a : y[i] = x[i]
  BY <1>1, <1>2, <1>3
<1>6. \A i \in 1 .. Len(mid) : y[a + i] = mid[i]
  BY <1>1, <1>2, <1>3
<1>7. \A i \in b .. Len(x) : y[i - b + 1 + a + Len(mid)] = x[i]
  BY <1>1, <1>2, <1>3
<1> HIDE DEF y
<1>8. ASSUME \A i \in 1 .. Len(mid) : ~IsWord(mid[i]), \A i \in (a + 1) .. (b - 1) : ~IsWord(x[i])
      PROVE  SameWords(x, y)
  <2>1. \A i \in 1 .. Len(mid) : ~IsWord(y[a + i])
    BY <1>6, <1>8
  <2>2. PICK k \in Nat : k = Len(mid)
    BY <1>1
  <2>3. /\ Len(y) = a + k + (Len(x) - b + 1)
        /\ \A i \in 1 .. k : ~IsWord(y[a + i])
        /\ \A i \in b .. Len(x) : y[i - b + 1 + a + k] = x[i]
    BY <1>4, <1>7, <2>1, <2>2
  <2>4. y \in Seq(Tokens)
    BY <1>4
  <2> QED
    BY <1>5, <1>8, <2>3, <2>4, SplicedWords, Zenon
<1> QED
  BY <1>4, <1>8 DEF y, p, q

\* A block added to a text.
LEMMA Appended ==
    ASSUME NEW x \in Seq(Tokens), NEW v \in Builds
    PROVE  LET y == AppendBlock(x, <<Brick(v), End>>) IN
           /\ IsBlank(x) => /\ y \in Seq(Tokens) /\ Len(y) = 3
                            /\ y[1] = Brick(v) /\ y[2] = End /\ y[3] = NL
           /\ ~IsBlank(x) =>
                \E m \in 1 .. Len(x) :
                   /\ TrimEnd(x) = SubSeq(x, 1, m) /\ x[m] # NL
                   /\ \A i \in (m + 1) .. Len(x) : x[i] = NL
                   /\ y \in Seq(Tokens) /\ Len(y) = m + 5
                   /\ \A i \in 1 .. m : y[i] = x[i]
                   /\ y[m + 1] = NL /\ y[m + 2] = NL
                   /\ y[m + 3] = Brick(v) /\ y[m + 4] = End /\ y[m + 5] = NL
<1> DEFINE block == <<Brick(v), End>>
<1>1. Brick(v) \in Tokens /\ End \in Tokens /\ NL \in Tokens
  BY DEF Tokens, Owned
<1>2. block \in Seq(Tokens) /\ Len(block) = 2 /\ block[1] = Brick(v) /\ block[2] = End
  BY <1>1
<1>4. Len(x) \in Nat /\ DOMAIN x = 1 .. Len(x) /\ x \in [1 .. Len(x) -> Tokens]
  BY WordsOf
<1>y. PICK y : y = AppendBlock(x, block)
  OBVIOUS
<1> HIDE DEF block
<1>5. ASSUME IsBlank(x)
      PROVE  /\ y \in Seq(Tokens) /\ Len(y) = 3
             /\ y[1] = Brick(v) /\ y[2] = End /\ y[3] = NL
  <2>1. y = <<>> \o block \o <<NL>>
    BY <1>5, <1>y, Zenon DEF AppendBlock
  <2>2. <<>> \o block = block
    BY <1>2, ConcatEmptySeq
  <2>3. PICK tail : tail = <<NL>>
    OBVIOUS
  <2>4. tail \in Seq(Tokens) /\ Len(tail) = 1 /\ tail[1] = NL
    BY <1>1, <2>3
  <2>5. y = block \o tail
    BY <2>1, <2>2, <2>3
  <2>6. /\ y \in Seq(Tokens) /\ Len(y) = Len(block) + Len(tail)
        /\ \A i \in 1 .. Len(block) + Len(tail) :
              y[i] = IF i <= Len(block) THEN block[i] ELSE tail[i - Len(block)]
    BY <1>2, <2>4, <2>5, ConcatProperties, Zenon
  <2> QED
    BY <1>2, <2>4, <2>6
<1>6. ASSUME ~IsBlank(x)
      PROVE  \E m \in 1 .. Len(x) :
                /\ TrimEnd(x) = SubSeq(x, 1, m) /\ x[m] # NL
                /\ \A i \in (m + 1) .. Len(x) : x[i] = NL
                /\ y \in Seq(Tokens) /\ Len(y) = m + 5
                /\ \A i \in 1 .. m : y[i] = x[i]
                /\ y[m + 1] = NL /\ y[m + 2] = NL
                /\ y[m + 3] = Brick(v) /\ y[m + 4] = End /\ y[m + 5] = NL
  <2>1. PICK m \in 1 .. Len(x) : /\ TrimEnd(x) = SubSeq(x, 1, m) /\ x[m] # NL
                                /\ \A i \in (m + 1) .. Len(x) : x[i] = NL
    BY <1>6, Trimmed
  <2>2. PICK p : p = SubSeq(x, 1, m)
    OBVIOUS
  <2>3. p \in Seq(Tokens) /\ Len(p) = m /\ \A i \in 1 .. m : p[i] = x[i]
    BY <1>4, <2>2
  <2>4. y = p \o <<NL, NL>> \o block \o <<NL>>
    BY <1>6, <1>y, <2>1, <2>2 DEF AppendBlock
  <2>5. PICK z : z = p \o <<NL, NL>>
    OBVIOUS
  <2>6. /\ z \in Seq(Tokens) /\ Len(z) = m + 2
        /\ (\A i \in 1 .. m : z[i] = x[i]) /\ z[m + 1] = NL /\ z[m + 2] = NL
    BY <1>1, <1>4, <2>3, <2>5
  <2>7. PICK w : w = z \o block
    OBVIOUS
  <2>8. /\ w \in Seq(Tokens) /\ Len(w) = m + 4
        /\ (\A i \in 1 .. m : w[i] = x[i]) /\ w[m + 1] = NL /\ w[m + 2] = NL
        /\ w[m + 3] = Brick(v) /\ w[m + 4] = End
    <3>1. /\ w \in Seq(Tokens) /\ Len(w) = Len(z) + Len(block)
          /\ \A i \in 1 .. Len(z) + Len(block) : w[i] = IF i <= Len(z) THEN z[i] ELSE block[i - Len(z)]
      BY <1>2, <2>6, <2>7, ConcatProperties, Zenon
    <3>2. \A i \in 1 .. m + 2 : w[i] = z[i]
      BY <1>2, <1>4, <2>6, <3>1
    <3>3. w[m + 3] = block[1] /\ w[m + 4] = block[2]
      BY <1>2, <1>4, <2>6, <3>1
    <3> QED
      BY <1>2, <1>4, <2>6, <3>1, <3>2, <3>3
  <2>9. y = w \o <<NL>>
    BY <2>4, <2>5, <2>7
  <2>10. /\ y \in Seq(Tokens) /\ Len(y) = m + 5
         /\ (\A i \in 1 .. m : y[i] = x[i]) /\ y[m + 1] = NL /\ y[m + 2] = NL
         /\ y[m + 3] = Brick(v) /\ y[m + 4] = End /\ y[m + 5] = NL
    BY <1>1, <1>4, <2>8, <2>9
  <2> QED
    BY <2>1, <2>10
<1> QED
  BY <1>5, <1>6, <1>y DEF block

\* Memory files stay memory files, and installing a block whose end is there keeps the words.
LEMMA MemoryInstalls ==
    ASSUME NEW x \in Seq(Tokens), NEW v \in Builds, NEW force \in BOOLEAN
    PROVE  LET y == MemoryInstall(x, v, force).new IN
           y \in Seq(Tokens) /\ (~Stray(x) => x = y \/ SameWords(x, y))
<1> DEFINE block == <<Brick(v), End>>
<1>1. Brick(v) \in Tokens /\ End \in Tokens /\ NL \in Tokens
  BY DEF Tokens, Owned
<1>2. block \in Seq(Tokens) /\ Len(block) = 2 /\ block[1] = Brick(v) /\ block[2] = End
  BY <1>1
<1>3. ~IsWord(Brick(v)) /\ ~IsWord(End) /\ ~IsWord(NL)
  BY NoWords
<1>4. Len(x) \in Nat /\ DOMAIN x = 1 .. Len(x) /\ x \in [1 .. Len(x) -> Tokens]
  BY WordsOf
<1> HIDE DEF block
<1>5. CASE FindBlock(x) = <<>>
  <2>1. PICK y : y = AppendBlock(x, <<Brick(v), End>>)
    OBVIOUS
  <2>2. MemoryInstall(x, v, force).new = y
    BY <1>5, <2>1 DEF MemoryInstall, To
  <2>3. CASE IsBlank(x)
    <3>1. y \in Seq(Tokens) /\ Len(y) = 3 /\ y[1] = Brick(v) /\ y[2] = End /\ y[3] = NL
      BY <2>1, <2>3, Appended
    <3>2. \A i \in 1 .. 3 : i = 1 \/ i = 2 \/ i = 3
      OBVIOUS
    <3>3. Words(y) = {}
      BY <1>3, <3>1, <3>2, WordsOf
    <3> QED
      BY <2>2, <2>3, <3>1, <3>3, BlankIsWordless, Wordless
  <2>4. CASE ~IsBlank(x)
    <3>1. PICK m \in 1 .. Len(x) :
             /\ \A i \in (m + 1) .. Len(x) : x[i] = NL
             /\ y \in Seq(Tokens) /\ Len(y) = m + 5
             /\ \A i \in 1 .. m : y[i] = x[i]
             /\ y[m + 1] = NL /\ y[m + 2] = NL
             /\ y[m + 3] = Brick(v) /\ y[m + 4] = End /\ y[m + 5] = NL
      BY <2>1, <2>4, Appended
    <3>2. \A i \in 1 .. 5 : ~IsWord(y[m + i])
      <4> SUFFICES ASSUME NEW i \in 1 .. 5 PROVE ~IsWord(y[m + i])
        OBVIOUS
      <4>1. i = 1 \/ i = 2 \/ i = 3 \/ i = 4 \/ i = 5
        OBVIOUS
      <4> QED
        BY <1>3, <3>1, <4>1
    <3>3. \A i \in (m + 1) .. Len(x) : ~IsWord(x[i])
      BY <1>3, <3>1
    <3>4. /\ m \in 0 .. Len(x) /\ Len(x) + 1 \in (m + 1) .. (Len(x) + 1) /\ 5 \in Nat
          /\ Len(y) = m + 5 + (Len(x) - (Len(x) + 1) + 1)
          /\ (m + 1) .. ((Len(x) + 1) - 1) = (m + 1) .. Len(x)
          /\ (Len(x) + 1) .. Len(x) = {}
      BY <1>4, <3>1
    <3>5. SameWords(x, y)
      BY <3>1, <3>2, <3>3, <3>4, SplicedWords
    <3> QED
      BY <2>2, <3>1, <3>5
  <2> QED
    BY <2>3, <2>4
<1>7. CASE FindBlock(x) # <<>>
  <2>1. PICK m \in 1 .. Len(x), e \in 1 .. Len(x) :
             /\ FindBlock(x)[1] = m /\ FindBlock(x)[2] = e
             /\ m < e /\ IsBrick(x[m]) /\ x[e] = End
             /\ ~Stray(x) => e = m + 1
    BY <1>7, BlockFound
  <2>2. PICK y : y = SubSeq(x, 1, m - 1) \o block \o SubSeq(x, e + 1, Len(x))
    OBVIOUS
  <2>3. MemoryInstall(x, v, force).new \in {x, y}
    BY <1>7, <2>1, <2>2 DEF MemoryInstall, To, block
  <2>4. m - 1 \in 0 .. Len(x) /\ e + 1 \in ((m - 1) + 1) .. (Len(x) + 1)
    BY <1>4, <2>1
  <2>5. y \in Seq(Tokens)
    BY <1>2, <2>2, <2>4, Spliced
  <2>6. ASSUME ~Stray(x) PROVE SameWords(x, y)
    <3>1. \A i \in 1 .. Len(block) : ~IsWord(block[i])
      BY <1>2, <1>3
    <3>2. ASSUME NEW i \in ((m - 1) + 1) .. ((e + 1) - 1) PROVE ~IsWord(x[i])
      <4>1. i = m \/ i = e
        BY <1>4, <2>1, <2>6
      <4> QED
        BY <1>3, <2>1, <4>1 DEF IsWord
    <3> QED
      BY <1>2, <2>2, <2>4, <3>1, <3>2, Spliced
  <2> QED
    BY <2>3, <2>5, <2>6
<1> QED
  BY <1>5, <1>7

\* Uninstalling cuts out the block and, with it, a blank line before and a newline after.
LEMMA MemoryUninstalls ==
    ASSUME NEW x \in Seq(Tokens)
    PROVE  LET y == MemoryUninstall(x).new IN
           y \in Seq(Tokens) /\ (~Stray(x) => x = y \/ SameWords(x, y))
<1>1. CASE FindBlock(x) = <<>>
  BY <1>1 DEF MemoryUninstall, To
<1>2. CASE FindBlock(x) # <<>>
  <2>1. PICK m \in 1 .. Len(x), e \in 1 .. Len(x) :
             /\ FindBlock(x)[1] = m /\ FindBlock(x)[2] = e
             /\ m < e /\ IsBrick(x[m]) /\ x[e] = End
             /\ ~Stray(x) => e = m + 1
    BY <1>2, BlockFound
  <2> DEFINE blankBefore == m > 2 /\ x[m - 1] = NL /\ x[m - 2] = NL
             newlineAfter == e < Len(x) /\ x[e + 1] = NL
  <2>2. PICK a : a = m - (IF blankBefore THEN 2 ELSE 1)
    OBVIOUS
  <2>3. PICK b : b = e + (IF newlineAfter THEN 2 ELSE 1)
    OBVIOUS
  <2>4. PICK left : left = SubSeq(x, 1, a) \o SubSeq(x, b, Len(x))
    OBVIOUS
  <2>5. MemoryUninstall(x).new = IF IsBlank(left) THEN <<>> ELSE left
    BY <1>2, <2>1, <2>2, <2>3, <2>4 DEF MemoryUninstall, To
  <2>6. Len(x) \in Nat
    BY WordsOf
  <2>7. a \in 0 .. Len(x) /\ b \in (a + 1) .. (Len(x) + 1)
    BY <2>1, <2>2, <2>3, <2>6
  <2>8. PICK y : y = SubSeq(x, 1, a) \o <<>> \o SubSeq(x, b, Len(x))
    OBVIOUS
  <2>9. <<>> \in Seq(Tokens) /\ Len(<<>>) = 0
    OBVIOUS
  <2>10. y \in Seq(Tokens)
    BY <2>7, <2>8, <2>9, Spliced
  <2>11. left = y
    <3>1. SubSeq(x, 1, a) \in Seq(Tokens)
      <4>1. \A i \in 1 .. a : x[i] \in Tokens
        BY <2>6, <2>7, WordsOf
      <4> QED
        BY <2>7, <4>1, SubSeqProperties
    <3>2. SubSeq(x, 1, a) \o <<>> = SubSeq(x, 1, a)
      BY <3>1, ConcatEmptySeq
    <3> QED
      BY <2>4, <2>8, <3>2
  <2>12. ASSUME ~Stray(x) PROVE SameWords(x, y)
    <3>1. ASSUME NEW i \in (a + 1) .. (b - 1) PROVE ~IsWord(x[i])
      <4>1. i = m \/ i = e \/ (blankBefore /\ i = m - 1) \/ (newlineAfter /\ i = e + 1)
        BY <2>1, <2>2, <2>3, <2>6, <2>12
      <4> QED
        BY <2>1, <4>1, NoWords DEF IsWord
    <3>2. \A i \in 1 .. Len(<<>>) : ~IsWord(<<>>[i])
      BY <2>9
    <3> QED
      BY <2>7, <2>8, <2>9, <3>1, <3>2, Spliced
  <2>13. CASE IsBlank(left)
    <3>1. Words(y) = {}
      BY <2>10, <2>11, <2>13, BlankIsWordless
    <3>2. ~Stray(x) => Words(x) = {}
      BY <2>12, <3>1, WordlessAlike
    <3>3. <<>> \in Seq(Tokens) /\ Words(<<>>) = {}
      BY DEF Words
    <3> QED
      BY <2>5, <2>13, <3>2, <3>3, Wordless
  <2>14. CASE ~IsBlank(left)
    BY <2>5, <2>10, <2>11, <2>12, <2>14
  <2> QED
    BY <2>13, <2>14
<1> QED
  BY <1>1, <1>2

-----------------------------------------------------------------------------
(* Hook lists. *)

\* Only the elements at T matter.
LEMMA SameElsewhere ==
    ASSUME NEW x, NEW S, NEW y, NEW T, NEW z, SameInOrder(x, S, y, T),
           \A t \in T : z[t] = y[t]
    PROVE  SameInOrder(x, S, z, T)
<1>1. PICK f \in Bijection(S, T) :
           \A i \in S : y[f[i]] = x[i] /\ \A j \in S : i < j => f[i] < f[j]
  BY DEF SameInOrder
<1>2. \A i \in S : f[i] \in T
  BY DEF Bijection, Injection
<1> QED
  BY <1>1, <1>2 DEF SameInOrder

LEMMA HooksOf ==
    ASSUME NEW h \in HookLists
    PROVE  /\ h.entries \in Seq(SUBSET Owned) /\ Len(h.entries) \in Nat
           /\ DOMAIN h.entries = 1 .. Len(h.entries)
           /\ h.form \in {"none", "list", "other"} /\ (h.form = "none" => h.entries = <<>>)
           /\ UserEntries(h) = {i \in 1 .. Len(h.entries) : UsersOf(h.entries[i]) # {}}
           /\ UserEntries(h) \in SUBSET Nat
           /\ \A i \in 1 .. Len(h.entries) : UserCommands(h)[i] = UsersOf(h.entries[i])
           /\ BrickEntries(h) \in SUBSET (1 .. Len(h.entries))
           /\ ForeignEntries(h) = (1 .. Len(h.entries)) \ BrickEntries(h)
           /\ ~Mixed(h) => \A i \in BrickEntries(h) : i \notin UserEntries(h)
<1>1. h.entries \in Seq(SUBSET Owned) /\ h.form \in {"none", "list", "other"}
      /\ (h.form = "none" => h.entries = <<>>)
  BY DEF HookLists
<1>2. Len(h.entries) \in Nat /\ DOMAIN h.entries = 1 .. Len(h.entries)
  BY <1>1, LenProperties
<1>3. \A i \in 1 .. Len(h.entries) : UserCommands(h)[i] = UsersOf(h.entries[i])
  BY <1>2 DEF UserCommands
<1>4. UserEntries(h) = {i \in 1 .. Len(h.entries) : UsersOf(h.entries[i]) # {}}
  BY <1>2, <1>3 DEF UserEntries
<1>5. BrickEntries(h) \in SUBSET (1 .. Len(h.entries))
  BY <1>2 DEF BrickEntries
<1>6. ForeignEntries(h) = (1 .. Len(h.entries)) \ BrickEntries(h)
  BY <1>2 DEF ForeignEntries
<1>7. ~Mixed(h) => \A i \in BrickEntries(h) : i \notin UserEntries(h)
  BY <1>4 DEF Mixed
<1>8. UserEntries(h) \in SUBSET Nat
  BY <1>2, <1>4
<1> QED
  BY <1>1, <1>2, <1>3, <1>4, <1>5, <1>6, <1>7, <1>8, Zenon

\* Lists that have the same of the user's in every place.
LEMMA SameEntries ==
    ASSUME NEW h \in HookLists, NEW g \in HookLists, NEW k \in HookLists, SameCommands(h, g),
           UserEntries(k) = UserEntries(g),
           \A i \in UserEntries(g) : k.entries[i] = g.entries[i]
    PROVE  SameCommands(h, k)
<1>1. ASSUME NEW i \in UserEntries(g) PROVE UserCommands(k)[i] = UserCommands(g)[i]
  <2>1. i \in 1 .. Len(g.entries) /\ i \in 1 .. Len(k.entries)
    BY HooksOf
  <2>2. UserCommands(k)[i] = UsersOf(k.entries[i]) /\ UserCommands(g)[i] = UsersOf(g.entries[i])
    BY <2>1, HooksOf
  <2> QED
    BY <2>2
<1> QED
  BY <1>1, SameElsewhere DEF SameCommands

LEMMA SameCommandsReflexive ==
    ASSUME NEW h \in HookLists
    PROVE  SameCommands(h, h)
BY HooksOf, SameInPlace DEF SameCommands

LEMMA BrickEntry ==
    ASSUME NEW v \in Builds
    PROVE  {Brick(v)} \in SUBSET Owned /\ IsBrick(Brick(v)) /\ UsersOf({Brick(v)}) = {}
<1>1. Brick(v) \in Owned
  BY DEF Owned
<1>2. Brick(v) # NL /\ Brick(v) # End
  BY <1>1, InstallAssumption DEF InstallAssumption
<1>3. IsBrick(Brick(v))
  BY <1>2 DEF IsBrick, Brick
<1> QED
  BY <1>1, <1>3 DEF UsersOf

\* An entry of brick's at the end.
LEMMA EntryAdded ==
    ASSUME NEW h \in HookLists, NEW g \in HookLists, SameCommands(h, g), NEW v \in Builds
    PROVE  LET k == HookList(Append(g.entries, {Brick(v)})) IN
           k \in HookLists /\ SameCommands(h, k)
<1>1. PICK k : k = HookList(Append(g.entries, {Brick(v)}))
  OBVIOUS
<1>2. /\ k.form = "list" /\ k.entries = Append(g.entries, {Brick(v)}) /\ k \in HookLists
  <2>1. g.entries \in Seq(SUBSET Owned) /\ {Brick(v)} \in SUBSET Owned
    BY HooksOf, BrickEntry, Zenon
  <2>2. Append(g.entries, {Brick(v)}) \in Seq(SUBSET Owned)
    BY <2>1, AppendProperties, Zenon
  <2> QED
    BY <1>1, <2>2 DEF HookList, HookLists
<1>3. /\ Len(k.entries) = Len(g.entries) + 1 /\ k.entries[Len(g.entries) + 1] = {Brick(v)}
      /\ \A i \in 1 .. Len(g.entries) : k.entries[i] = g.entries[i]
  BY <1>2, HooksOf, BrickEntry
<1>4. UserEntries(k) = UserEntries(g)
  <2> DEFINE n == Len(g.entries)
  <2>1. /\ n \in Nat /\ UserEntries(g) = {i \in 1 .. n : UsersOf(g.entries[i]) # {}}
        /\ UserEntries(k) = {i \in 1 .. Len(k.entries) : UsersOf(k.entries[i]) # {}}
    BY <1>2, HooksOf, Zenon
  <2>2. UsersOf(k.entries[n + 1]) = {}
    BY <1>3, BrickEntry
  <2>3. \A i \in 1 .. Len(k.entries) : i \in 1 .. n \/ i = n + 1
    BY <1>3, <2>1
  <2>4. \A i \in 1 .. n : i \in 1 .. Len(k.entries) /\ k.entries[i] = g.entries[i]
    BY <1>3, <2>1
  <2> HIDE DEF n
  <2> QED
    BY <2>1, <2>2, <2>3, <2>4
<1>5. \A i \in UserEntries(g) : k.entries[i] = g.entries[i]
  BY <1>3, HooksOf
<1> QED
  BY <1>1, <1>2, <1>4, <1>5, SameEntries

\* Dropping brick's entries.
LEMMA EntriesDropped ==
    ASSUME NEW h \in HookLists, NEW g \in HookLists, g.entries = Only(h.entries, ForeignEntries(h)),
           ~Mixed(h)
    PROVE  SameCommands(h, g)
<1> DEFINE S == ForeignEntries(h)
<1>1. /\ h.entries \in Seq(SUBSET Owned) /\ S \in SUBSET DOMAIN h.entries
      /\ S \in SUBSET Nat
  BY HooksOf
<1> HIDE DEF S
<1>2. /\ Cardinality(S) \in Nat /\ DOMAIN g.entries = 1 .. Cardinality(S)
      /\ \E r \in [S -> 1 .. Cardinality(S)] :
            /\ \A k \in 1 .. Cardinality(S) : \E i \in S : r[i] = k
            /\ \A i \in S : g.entries[r[i]] = h.entries[i]
            /\ \A i, j \in S : i < j => r[i] < r[j]
  <2>1. g.entries = Only(h.entries, S)
    BY DEF S
  <2>2. PICK s \in Seq(SUBSET Owned) : s = h.entries
    BY <1>1
  <2>3. S \in SUBSET DOMAIN s
    BY <1>1, <2>2
  <2>4. /\ Cardinality(S) \in Nat /\ DOMAIN Only(s, S) = 1 .. Cardinality(S)
        /\ \E r \in [S -> 1 .. Cardinality(S)] :
            /\ \A k \in 1 .. Cardinality(S) : \E i \in S : r[i] = k
            /\ \A i \in S : Only(s, S)[r[i]] = s[i]
            /\ \A i, j \in S : i < j => r[i] < r[j]
    BY <2>3, OnlyKeeps
  <2> QED
    BY <2>1, <2>2, <2>4
<1>3. PICK r \in [S -> 1 .. Cardinality(S)] :
            /\ \A k \in 1 .. Cardinality(S) : \E i \in S : r[i] = k
            /\ \A i \in S : g.entries[r[i]] = h.entries[i]
            /\ \A i, j \in S : i < j => r[i] < r[j]
  BY <1>2
<1>4. UserEntries(h) \subseteq S
  BY HooksOf DEF S
<1>5. 1 .. Len(g.entries) = 1 .. Cardinality(S)
  BY <1>2, HooksOf
<1> DEFINE f == [i \in UserEntries(h) |-> r[i]]
<1>6. ASSUME NEW i \in S
      PROVE  (i \in UserEntries(h) <=> r[i] \in UserEntries(g))
             /\ UserCommands(g)[r[i]] = UserCommands(h)[i]
  <2>1. r[i] \in 1 .. Len(g.entries) /\ i \in 1 .. Len(h.entries) /\ g.entries[r[i]] = h.entries[i]
    BY <1>3, <1>5, HooksOf DEF S
  <2>2. /\ UserCommands(h)[i] = UsersOf(h.entries[i])
        /\ i \in UserEntries(h) <=> UsersOf(h.entries[i]) # {}
    <3>1. PICK j \in 1 .. Len(h.entries) : j = i
      BY <2>1
    <3>2. /\ UserCommands(h)[j] = UsersOf(h.entries[j])
          /\ j \in UserEntries(h) <=> UsersOf(h.entries[j]) # {}
      BY HooksOf
    <3> QED
      BY <3>1, <3>2
  <2>3. PICK p \in 1 .. Len(g.entries) : p = r[i]
    BY <2>1
  <2>4. /\ UserCommands(g)[p] = UsersOf(g.entries[p])
        /\ p \in UserEntries(g) <=> UsersOf(g.entries[p]) # {}
    BY HooksOf
  <2> QED
    BY <2>1, <2>2, <2>3, <2>4
<1>7. f \in [UserEntries(h) -> UserEntries(g)]
  BY <1>4, <1>6
<1>8. \A t \in UserEntries(g) : \E i \in UserEntries(h) : f[i] = t
  <2> SUFFICES ASSUME NEW t \in UserEntries(g) PROVE \E i \in UserEntries(h) : f[i] = t
    OBVIOUS
  <2>1. t \in 1 .. Cardinality(S)
    BY <1>5, HooksOf
  <2>2. PICK i \in S : r[i] = t
    BY <1>3, <2>1
  <2> QED
    BY <1>6, <2>2
<1>9. \A i \in UserEntries(h) : UserCommands(g)[f[i]] = UserCommands(h)[i]
  BY <1>4, <1>6
<1>10. \A i, j \in UserEntries(h) : i < j => f[i] < f[j]
  BY <1>3, <1>4
<1> HIDE DEF f
<1>11. UserEntries(h) \in SUBSET Nat /\ UserEntries(g) \in SUBSET Nat
  BY HooksOf
<1> QED
  BY <1>7, <1>8, <1>9, <1>10, <1>11, SameInOrderBy DEF SameCommands

\* Brick's first entry replaced by its own.
LEMMA EntryReplaced ==
    ASSUME NEW h \in HookLists, NEW v \in Builds, NEW m \in BrickEntries(h)
    PROVE  LET y == HookList([h.entries EXCEPT ![m] = {Brick(v)}]) IN
           y \in HookLists /\ (~Mixed(h) => SameCommands(h, y))
<1>1. PICK y : y = HookList([h.entries EXCEPT ![m] = {Brick(v)}])
  OBVIOUS
<1>2. m \in 1 .. Len(h.entries) /\ h.entries \in Seq(SUBSET Owned) /\ {Brick(v)} \in SUBSET Owned
  BY HooksOf, BrickEntry
<1>3. /\ y.form = "list" /\ y.entries \in Seq(SUBSET Owned) /\ Len(y.entries) = Len(h.entries)
      /\ y.entries[m] = {Brick(v)}
      /\ \A i \in 1 .. Len(h.entries) : i # m => y.entries[i] = h.entries[i]
  <2>1. y.form = "list" /\ y.entries = [h.entries EXCEPT ![m] = {Brick(v)}]
    BY <1>1 DEF HookList
  <2> QED
    BY <1>2, <2>1, ExceptSeq
<1>4. y \in HookLists
  BY <1>1, <1>3 DEF HookLists, HookList
<1>5. ASSUME ~Mixed(h) PROVE SameCommands(h, y)
  <2>1. m \notin UserEntries(h)
    BY <1>5, HooksOf
  <2>2. UserEntries(y) = {i \in 1 .. Len(h.entries) : UsersOf(y.entries[i]) # {}}
    BY <1>3, <1>4, HooksOf
  <2>3. UserEntries(h) = {i \in 1 .. Len(h.entries) : UsersOf(h.entries[i]) # {}}
    BY HooksOf
  <2>4. UsersOf(y.entries[m]) = {}
    BY <1>3, BrickEntry
  <2>5. UserEntries(y) = UserEntries(h)
    BY <1>3, <2>1, <2>2, <2>3, <2>4
  <2>6. \A i \in UserEntries(h) : y.entries[i] = h.entries[i]
    BY <1>3, <2>1, <2>3
  <2> QED
    BY <1>4, <2>5, <2>6, SameEntries, SameCommandsReflexive
<1> QED
  BY <1>1, <1>4, <1>5

LEMMA SettingsInstalls ==
    ASSUME NEW h \in HookLists, NEW v \in Builds, NEW force \in BOOLEAN
    PROVE  LET y == SettingsInstall(h, v, force).new IN
           y \in HookLists /\ (~Mixed(h) => h = y \/ SameCommands(h, y))
<1> DEFINE brick == {i \in DOMAIN h.entries : HasBrick(h.entries[i])}
<1>1. brick = BrickEntries(h) /\ brick \in SUBSET Nat
  BY HooksOf DEF BrickEntries
<1>2. brick # {} => Min(brick) \in brick
  <2> HIDE DEF brick
  <2> QED
    BY <1>1, FirstPlace
<1>3. PICK y : y = SettingsInstall(h, v, force).new
  OBVIOUS
<1>4. \/ y = h \/ y = HookList(Append(h.entries, {Brick(v)}))
      \/ brick # {} /\ y = HookList([h.entries EXCEPT ![Min(brick)] = {Brick(v)}])
  BY <1>3 DEF SettingsInstall, UpsertEntry, To
<1> HIDE DEF brick
<1>5. CASE y = HookList(Append(h.entries, {Brick(v)}))
  BY <1>3, <1>5, EntryAdded, SameCommandsReflexive
<1>6. CASE brick # {} /\ y = HookList([h.entries EXCEPT ![Min(brick)] = {Brick(v)}])
  BY <1>1, <1>2, <1>3, <1>6, EntryReplaced
<1> QED
  BY <1>3, <1>4, <1>5, <1>6

\* A list without brick's entries, or nothing where that leaves none.
LEMMA Pruned ==
    ASSUME NEW h \in HookLists
    PROVE  LET y == PruneEmpty(Only(h.entries, ForeignEntries(h))) IN
           /\ y \in HookLists /\ y.entries = Only(h.entries, ForeignEntries(h)) /\ y.form # "other"
           /\ ~Mixed(h) => SameCommands(h, y)
<1>1. PICK e : e = Only(h.entries, ForeignEntries(h))
  OBVIOUS
<1>2. e \in Seq(SUBSET Owned)
  <2>1. h.entries \in Seq(SUBSET Owned) /\ ForeignEntries(h) \in SUBSET DOMAIN h.entries
    BY HooksOf
  <2> QED
    BY <1>1, <2>1, OnlyKeeps
<1>3. PICK y : y = PruneEmpty(e)
  OBVIOUS
<1>4. y \in HookLists /\ y.entries = e /\ y.form # "other"
  <2>1. CASE e = <<>>
    <3>1. y = NoHooks
      BY <1>3, <2>1 DEF PruneEmpty
    <3> QED
      BY <1>2, <2>1, <3>1 DEF NoHooks, HookLists
  <2>2. CASE e # <<>>
    <3>1. y = HookList(e)
      BY <1>3, <2>2 DEF PruneEmpty
    <3> QED
      BY <1>2, <3>1 DEF HookList, HookLists
  <2> QED
    BY <2>1, <2>2
<1>5. ~Mixed(h) => SameCommands(h, y)
  BY <1>1, <1>4, EntriesDropped
<1> QED
  BY <1>1, <1>3, <1>4, <1>5

LEMMA HooksUninstall ==
    ASSUME NEW h \in HookLists
    PROVE  LET y == SettingsUninstall(h).new IN
           y \in HookLists /\ (~Mixed(h) => h = y \/ SameCommands(h, y))
<1>1. PICK y : y = PruneEmpty(Only(h.entries, ForeignEntries(h)))
  OBVIOUS
<1>2. SettingsUninstall(h).new \in {h, y}
  BY <1>1 DEF SettingsUninstall, To
<1> QED
  BY <1>1, <1>2, Pruned

\* A list of another shape gives way only where otherIs says so.
LEMMA NativeInstalls ==
    ASSUME NEW h \in HookLists, NEW v \in Builds, NEW force \in BOOLEAN, NEW otherIs
    PROVE  LET y == NativeInstall(h, v, force, otherIs).new IN
           /\ y \in HookLists
           /\ ~Mixed(h) /\ (h.form # "other" \/ otherIs = "error") => h = y \/ SameCommands(h, y)
<1>1. PICK e : e = IF h.form = "list" THEN Only(h.entries, ForeignEntries(h)) ELSE <<>>
  OBVIOUS
<1>2. e \in Seq(SUBSET Owned)
  <2>1. h.entries \in Seq(SUBSET Owned) /\ ForeignEntries(h) \in SUBSET DOMAIN h.entries
    BY HooksOf
  <2>2. Only(h.entries, ForeignEntries(h)) \in Seq(SUBSET Owned)
    BY <2>1, OnlyKeeps
  <2> QED
    BY <1>1, <2>2
<1>3. PICK g : g = HookList(e)
  OBVIOUS
<1>4. g \in HookLists /\ g.entries = e
  BY <1>2, <1>3 DEF HookList, HookLists
<1>5. PICK y : y = HookList(Append(e, {Brick(v)}))
  OBVIOUS
<1>6. y \in HookLists
  BY <1>4, <1>5, EntryAdded, SameCommandsReflexive
<1>7. ASSUME ~Mixed(h), h.form # "other" PROVE SameCommands(h, y)
  <2>1. CASE h.form = "list"
    <3>1. SameCommands(h, g)
      BY <1>1, <1>4, <1>7, <2>1, EntriesDropped
    <3> QED
      BY <1>4, <1>5, <3>1, EntryAdded
  <2>2. CASE h.form = "none"
    <3>1. h.entries = <<>> /\ g.entries = <<>>
      BY <1>1, <1>4, <2>2, HooksOf
    <3>2. UserEntries(h) = {} /\ UserEntries(g) = {}
      BY <3>1 DEF UserEntries
    <3>3. SameCommands(h, g)
      BY <3>2, SameInPlace DEF SameCommands
    <3> QED
      BY <1>4, <1>5, <3>3, EntryAdded
  <2> QED
    BY <1>7, <2>1, <2>2, HooksOf
<1>8. /\ NativeInstall(h, v, force, otherIs).new \in {h, y}
      /\ h.form = "other" /\ otherIs = "error" => NativeInstall(h, v, force, otherIs).new = h
  BY <1>1, <1>5 DEF NativeInstall, To
<1> QED
  BY <1>6, <1>7, <1>8

-----------------------------------------------------------------------------
(* Windsurf's lists, of single commands. *)

LEMMA CommandsOf ==
    ASSUME NEW h \in CommandLists
    PROVE  h \in HookLists /\ ~Mixed(h)
<1>1. h \in HookLists /\ \A i \in DOMAIN h.entries : \E c \in Owned : h.entries[i] = {c}
  BY DEF CommandLists
<1>2. ASSUME NEW i \in BrickEntries(h), i \in UserEntries(h) PROVE FALSE
  <2>1. i \in DOMAIN h.entries /\ HasBrick(h.entries[i])
    BY DEF BrickEntries
  <2>2. PICK c : h.entries[i] = {c}
    BY <1>1, <2>1
  <2>3. UsersOf(h.entries[i]) # {}
    BY <1>1, <1>2, HooksOf
  <2> QED
    BY <2>1, <2>2, <2>3 DEF HasBrick, UsersOf
<1> QED
  BY <1>1, <1>2 DEF Mixed

\* A list whose entries are those of such a list, or single commands themselves.
LEMMA CommandsOnly ==
    ASSUME NEW h \in CommandLists, NEW k \in HookLists,
           \A i \in DOMAIN k.entries :
                \/ \E j \in DOMAIN h.entries : k.entries[i] = h.entries[j]
                \/ \E c \in Owned : k.entries[i] = {c}
    PROVE  k \in CommandLists
BY DEF CommandLists

\* The entries of a sequence that Only keeps are entries of it.
LEMMA OnlyFrom ==
    ASSUME NEW X, NEW s \in Seq(X), NEW S \in SUBSET DOMAIN s, NEW i \in DOMAIN Only(s, S)
    PROVE  \E j \in S : Only(s, S)[i] = s[j]
<1>1. PICK r \in [S -> 1 .. Cardinality(S)] :
          /\ \A k \in 1 .. Cardinality(S) : \E j \in S : r[j] = k
          /\ \A j \in S : Only(s, S)[r[j]] = s[j]
  BY OnlyKeeps
<1>2. i \in 1 .. Cardinality(S)
  BY OnlyKeeps
<1>3. PICK j \in S : r[j] = i
  BY <1>1, <1>2
<1> QED
  BY <1>1, <1>3

LEMMA ListLeft ==
    ASSUME NEW h \in CommandLists
    PROVE  /\ LeftIn(h) \in CommandLists
           /\ h = LeftIn(h) \/ SameCommands(h, LeftIn(h))
<1>1. PICK y : y = PruneEmpty(Only(h.entries, ForeignEntries(h)))
  OBVIOUS
<1>2. h \in HookLists /\ ~Mixed(h)
  BY CommandsOf
<1>3. y \in HookLists /\ y.entries = Only(h.entries, ForeignEntries(h)) /\ SameCommands(h, y)
  BY <1>1, <1>2, Pruned
<1>4. h.entries \in Seq(SUBSET Owned) /\ ForeignEntries(h) \in SUBSET DOMAIN h.entries
  BY <1>2, HooksOf
<1>5. \A i \in DOMAIN y.entries : \E j \in DOMAIN h.entries : y.entries[i] = h.entries[j]
  BY <1>3, <1>4, OnlyFrom
<1>6. y \in CommandLists
  BY <1>3, <1>5, CommandsOnly
<1>7. LeftIn(h) \in {h, y}
  BY <1>1 DEF LeftIn
<1> QED
  BY <1>3, <1>6, <1>7

LEMMA CommandAdded ==
    ASSUME NEW h \in CommandLists, NEW v \in Builds, NEW force \in BOOLEAN
    PROVE  LET y == NativeInstall(h, v, force, "error").new IN
           y \in CommandLists /\ (h = y \/ SameCommands(h, y))
<1>1. h \in HookLists /\ ~Mixed(h)
  BY CommandsOf
<1>2. PICK y : y = NativeInstall(h, v, force, "error").new
  OBVIOUS
<1>3. y \in HookLists /\ (h = y \/ SameCommands(h, y))
  BY <1>1, <1>2, NativeInstalls
<1>4. PICK e : e = IF h.form = "list" THEN Only(h.entries, ForeignEntries(h)) ELSE <<>>
  OBVIOUS
<1>5. y = h \/ y = HookList(Append(e, {Brick(v)}))
  BY <1>2, <1>4 DEF NativeInstall, To
<1>6. h.entries \in Seq(SUBSET Owned) /\ ForeignEntries(h) \in SUBSET DOMAIN h.entries
  BY <1>1, HooksOf
<1>7. e \in Seq(SUBSET Owned) /\ \A i \in DOMAIN e : \E j \in DOMAIN h.entries : e[i] = h.entries[j]
  <2>1. Only(h.entries, ForeignEntries(h)) \in Seq(SUBSET Owned)
    BY <1>6, OnlyKeeps
  <2>2. \A i \in DOMAIN Only(h.entries, ForeignEntries(h)) :
           \E j \in DOMAIN h.entries : Only(h.entries, ForeignEntries(h))[i] = h.entries[j]
    BY <1>6, OnlyFrom
  <2>3. CASE h.form = "list"
    BY <1>4, <2>1, <2>2, <2>3
  <2>4. CASE h.form # "list"
    BY <1>4, <2>4
  <2> QED
    BY <2>3, <2>4
<1>8. CASE y = HookList(Append(e, {Brick(v)}))
  <2>1. PICK b \in SUBSET Owned : b = {Brick(v)} /\ Brick(v) \in Owned
    BY BrickEntry DEF Owned
  <2>2. y.entries = Append(e, b)
    BY <1>8, <2>1 DEF HookList
  <2>3. /\ y.entries \in Seq(SUBSET Owned) /\ Len(y.entries) = Len(e) + 1
        /\ y.entries[Len(e) + 1] = b /\ \A i \in 1 .. Len(e) : y.entries[i] = e[i]
    BY <1>7, <2>2, AppendProperties
  <2>4. Len(e) \in Nat /\ DOMAIN e = 1 .. Len(e) /\ DOMAIN y.entries = 1 .. Len(y.entries)
    BY <1>7, <2>3, LenProperties
  <2>5. ASSUME NEW i \in DOMAIN y.entries
        PROVE  \/ \E j \in DOMAIN h.entries : y.entries[i] = h.entries[j]
               \/ \E c \in Owned : y.entries[i] = {c}
    <3>1. i \in 1 .. Len(e) \/ i = Len(e) + 1
      BY <2>3, <2>4
    <3> QED
      BY <1>7, <2>1, <2>3, <2>4, <3>1
  <2>6. PICK g \in HookLists : g = y
    BY <1>3
  <2>7. g \in CommandLists
    BY <2>5, <2>6, CommandsOnly
  <2> QED
    BY <1>2, <1>3, <2>6, <2>7
<1> QED
  BY <1>2, <1>3, <1>5, <1>8

\* Windsurf's file, of two lists.
LEMMA WindsurfKeeps ==
    ASSUME NEW x \in [pre : CommandLists, post : CommandLists], NEW v \in Builds,
           NEW force \in BOOLEAN
    PROVE  LET y == WindsurfInstall(x, v, force).new IN
           /\ y \in [pre : CommandLists, post : CommandLists]
           /\ SameCommands(x.pre, y.pre) /\ SameCommands(x.post, y.post)
<1>1. x.pre \in CommandLists /\ x.post \in CommandLists /\ x = [pre |-> x.pre, post |-> x.post]
  OBVIOUS
<1>2. SameCommands(x.pre, x.pre) /\ SameCommands(x.post, x.post)
  BY <1>1, CommandsOf, SameCommandsReflexive
<1>3. PICK k : k = NativeInstall(x.pre, v, force, "error").new
  OBVIOUS
<1>4. k \in CommandLists /\ (x.pre = k \/ SameCommands(x.pre, k))
  BY <1>1, <1>3, CommandAdded
<1>5. WindsurfInstall(x, v, force).new = [pre |-> k, post |-> x.post]
  BY <1>1, <1>3 DEF WindsurfInstall, To
<1> QED
  BY <1>1, <1>2, <1>4, <1>5

LEMMA WindsurfLeft ==
    ASSUME NEW x \in [pre : CommandLists, post : CommandLists]
    PROVE  LET y == WindsurfUninstall(x).new IN
           /\ y \in [pre : CommandLists, post : CommandLists]
           /\ SameCommands(x.pre, y.pre) /\ SameCommands(x.post, y.post)
<1>1. x.pre \in CommandLists /\ x.post \in CommandLists
  OBVIOUS
<1>2. SameCommands(x.pre, x.pre) /\ SameCommands(x.post, x.post)
  BY <1>1, CommandsOf, SameCommandsReflexive
<1>3. /\ LeftIn(x.pre) \in CommandLists /\ LeftIn(x.post) \in CommandLists
      /\ x.pre = LeftIn(x.pre) \/ SameCommands(x.pre, LeftIn(x.pre))
      /\ x.post = LeftIn(x.post) \/ SameCommands(x.post, LeftIn(x.post))
  BY <1>1, ListLeft
<1>4. WindsurfUninstall(x).new \in {x, [pre |-> LeftIn(x.pre), post |-> LeftIn(x.post)]}
  BY DEF WindsurfUninstall, To
<1> QED
  BY <1>1, <1>2, <1>3, <1>4

-----------------------------------------------------------------------------
(* MCP servers and the skill. *)

LEMMA ServersInstalled ==
    ASSUME NEW s \in ServerTables, NEW v \in Builds, NEW force \in BOOLEAN
    PROVE  /\ JsonInstall(s, v, force).new \in ServerTables
           /\ SameServers(s, JsonInstall(s, v, force).new)
           /\ TomlInstall(s, v, force).new \in ServerTables
           /\ s.form # "other" => SameServers(s, TomlInstall(s, v, force).new)
<1>1. IsBrick(Brick(v)) /\ Brick(v) \in Owned
  BY BrickEntry
<1>2. ASSUME NEW t \in ServerTables
      PROVE  WithServer(t, v) \in ServerTables /\ SameServers(t, WithServer(t, v))
  BY <1>1 DEF WithServer, ServerTables, SameServers, UserServers, BrickServers
<1>3. JsonInstall(s, v, force).new \in {s, WithServer(s, v)}
  BY DEF JsonInstall, To
<1>4. TomlInstall(s, v, force).new
        = IF s.form = "other" THEN WithServer(NoServers, v) ELSE JsonInstall(s, v, force).new
  BY DEF TomlInstall, To
<1>5. NoServers \in ServerTables /\ SameServers(s, s)
  BY DEF NoServers, ServerTables, SameServers
<1> QED
  BY <1>2, <1>3, <1>4, <1>5

LEMMA ServersUninstalled ==
    ASSUME NEW s \in ServerTables
    PROVE  /\ JsonUninstall(s).new \in ServerTables /\ SameServers(s, JsonUninstall(s).new)
           /\ TomlUninstall(s).new \in ServerTables /\ SameServers(s, TomlUninstall(s).new)
<1>1. PICK t : t = [s EXCEPT !.names = @ \ BrickServers(s)]
  OBVIOUS
<1>2. t \in ServerTables /\ SameServers(s, t) /\ SameServers(s, s)
  BY <1>1 DEF ServerTables, SameServers, UserServers, BrickServers
<1>3. JsonUninstall(s).new \in {s, t}
  BY <1>1 DEF JsonUninstall, To
<1>4. \/ TomlUninstall(s).new = JsonUninstall(s).new
      \/ JsonUninstall(s).new.names = {} /\ TomlUninstall(s).new = NoServers
  BY DEF TomlUninstall, To
<1>5. ASSUME NEW u \in ServerTables, SameServers(s, u), u.names = {}
      PROVE  NoServers \in ServerTables /\ SameServers(s, NoServers)
  BY <1>5 DEF NoServers, ServerTables, SameServers, UserServers
<1> QED
  BY <1>2, <1>3, <1>4, <1>5

LEMMA SkillKept ==
    ASSUME NEW s \in Owned \cup {Nothing}, NEW v \in Builds
    PROVE  /\ SkillInstall(s, v, FALSE).new \in Owned \cup {Nothing}
           /\ UserSkill(s) = UserSkill(SkillInstall(s, v, FALSE).new)
           /\ SkillInstall(s, v, TRUE).new \in Owned \cup {Nothing}
           /\ SkillUninstall(s).new \in Owned \cup {Nothing}
<1>1. Brick(v) \in Owned
  BY BrickEntry
<1>2. \A n \in 1 .. MaxEdits : User(n) # Nothing /\ User(n) # Brick(v) /\ ~IsBrick(User(n))
  BY InstallAssumption DEF InstallAssumption, Owned, User, Brick, IsBrick
<1>3. UserSkill(Nothing) = {} /\ UserSkill(Brick(v)) = {}
  BY <1>2 DEF UserSkill
<1>4. IsBrick(s) => UserSkill(s) = {}
  BY <1>2 DEF UserSkill
<1> QED
  BY <1>1, <1>3, <1>4 DEF SkillInstall, SkillUninstall, Classify, To

-----------------------------------------------------------------------------
(* One step of a command, one edit of the user. *)

StepNames == {"memory", "settings", "codex_hooks", "windsurf", "mcp", "codex_mcp", "skill"}

Understood(c) ==
    /\ c.op \in {"install", "uninstall", "status"} /\ c.force \in BOOLEAN
    /\ c.op # "uninstall" => c.build \in Builds

\* What a step of command c makes of file contents x.
After(c, step, x) == WithPart(step, x, Outcome(c, step, Part(step, x)).new)

\* Where command c takes what is the user's for its own (as Exposed, of any command).
ExposedTo(c, f, x) ==
    CASE f = "memory" -> Stray(x)
      [] f = "settings" -> Mixed(x)
      [] f = "config" -> Mixed(x.hooks) \/ x.hooks.form = "other" \/ x.servers.form = "other"
      [] f = "skill" -> c.force \/ c.op = "uninstall"
      [] OTHER -> FALSE

LEMMA NotTorn ==
    ASSUME NEW f \in Files, NEW x \in Contents(f)
    PROVE  x # Torn
BY InstallAssumption DEF InstallAssumption

LEMMA OutcomeKeeps ==
    ASSUME NEW c, Understood(c), NEW step \in StepNames, NEW x \in Contents(FileOf(step))
    PROVE  LET f == FileOf(step)  y == After(c, step, x) IN
           /\ f \in Files /\ y \in Contents(f)
           /\ ~ExposedTo(c, f, x) => SameForUser(f, x, y)
<1>1. FileOf(step) \in Files
  BY DEF FileOf, Files, StepNames
<1> DEFINE y == After(c, step, x)
<1>2. c.force \in BOOLEAN /\ (c.op = "install" => c.build \in Builds)
  BY DEF Understood
<1>3. c.op = "install" \/ c.op = "uninstall" \/ c.op = "status"
  BY DEF Understood
<1>4. SUFFICES y \in Contents(FileOf(step))
               /\ (~ExposedTo(c, FileOf(step), x) => SameForUser(FileOf(step), x, y))
  BY <1>1
<1>5. CASE c.op = "status"
  <2>1. Outcome(c, step, Part(step, x)).new = Part(step, x)
    <3>1. Outcome(c, step, Part(step, x)) = StatusStep(step, Part(step, x), c.build)
      BY <1>5 DEF Outcome
    <3> QED
      BY <3>1 DEF StatusStep, MemoryStatus, SettingsStatus, NativeStatus, WindsurfStatus, ServersStatus,
                  SkillStatus, To, StepNames
  <2>2. y = x
    <3>1. CASE step = "codex_hooks"
      <4>1. FileOf(step) = "config" /\ x \in [hooks : HookLists, servers : ServerTables]
        BY <3>1 DEF FileOf, Contents
      <4> QED
        BY <2>1, <3>1, <4>1 DEF After, WithPart, Part
    <3>2. CASE step = "codex_mcp"
      <4>1. FileOf(step) = "config" /\ x \in [hooks : HookLists, servers : ServerTables]
        BY <3>2 DEF FileOf, Contents
      <4> QED
        BY <2>1, <3>2, <4>1 DEF After, WithPart, Part
    <3>3. CASE step \notin {"codex_hooks", "codex_mcp"}
      BY <2>1, <3>3 DEF After, WithPart, Part
    <3> QED
      BY <3>1, <3>2, <3>3
  <2> HIDE DEF y
  <2> QED
    BY <2>2 DEF SameForUser
<1>6. ASSUME c.op \in {"install", "uninstall"}, y \in Contents(FileOf(step)),
             ~ExposedTo(c, FileOf(step), x), x # y,
             CASE FileOf(step) = "memory" -> SameWords(x, y)
               [] FileOf(step) = "settings" -> SameCommands(x, y)
               [] FileOf(step) = "windsurf" -> SameCommands(x.pre, y.pre)
                                                 /\ SameCommands(x.post, y.post)
               [] FileOf(step) = "config" -> SameCommands(x.hooks, y.hooks)
                                               /\ SameServers(x.servers, y.servers)
               [] FileOf(step) = "mcp" -> SameServers(x, y)
               [] FileOf(step) = "skill" -> UserSkill(x) = UserSkill(y)
      PROVE  SameForUser(FileOf(step), x, y)
  <2>1. x # Torn /\ y # Torn
    BY <1>1, <1>6, NotTorn
  <2> HIDE DEF y
  <2> QED
    BY <1>6, <2>1 DEF SameForUser
<1>7. ASSUME c.op \in {"install", "uninstall"} PROVE
      y \in Contents(FileOf(step)) /\ (~ExposedTo(c, FileOf(step), x) => SameForUser(FileOf(step), x, y))
  <2>1. CASE step = "memory"
    <3>1. FileOf(step) = "memory" /\ x \in Seq(Tokens) /\ Contents("memory") = Seq(Tokens)
      BY <2>1 DEF FileOf, Contents, Tokens
    <3>2. y = IF c.op = "install" THEN MemoryInstall(x, c.build, c.force).new ELSE MemoryUninstall(x).new
      BY <1>7, <2>1 DEF After, WithPart, Part, Outcome, InstallStep, UninstallStep
    <3> HIDE DEF y
    <3>3. y \in Seq(Tokens) /\ (~Stray(x) => x = y \/ SameWords(x, y))
      BY <1>2, <1>7, <3>1, <3>2, MemoryInstalls, MemoryUninstalls
    <3>4. ExposedTo(c, "memory", x) = Stray(x)
      BY DEF ExposedTo
    <3>5. x = y => SameForUser("memory", x, y)
      BY DEF SameForUser
    <3> QED
      BY <1>6, <1>7, <3>1, <3>3, <3>4, <3>5
  <2>2. CASE step = "settings"
    <3>1. FileOf(step) = "settings" /\ x \in HookLists /\ Contents("settings") = HookLists
      BY <2>2 DEF FileOf, Contents
    <3>2. y = IF c.op = "install" THEN SettingsInstall(x, c.build, c.force).new
              ELSE SettingsUninstall(x).new
      BY <1>7, <2>2 DEF After, WithPart, Part, Outcome, InstallStep, UninstallStep
    <3> HIDE DEF y
    <3>3. y \in HookLists /\ (~Mixed(x) => x = y \/ SameCommands(x, y))
      BY <1>2, <1>7, <3>1, <3>2, SettingsInstalls, HooksUninstall
    <3>4. ExposedTo(c, "settings", x) = Mixed(x)
      BY DEF ExposedTo
    <3>5. x = y => SameForUser("settings", x, y)
      BY DEF SameForUser
    <3> QED
      BY <1>6, <1>7, <3>1, <3>3, <3>4, <3>5
  <2>3. CASE step = "windsurf"
    <3>1. /\ FileOf(step) = "windsurf" /\ x \in Contents("windsurf")
          /\ Contents("windsurf") = [pre : CommandLists, post : CommandLists]
      BY <2>3 DEF FileOf, Contents
    <3>2. y = IF c.op = "install" THEN WindsurfInstall(x, c.build, c.force).new
              ELSE WindsurfUninstall(x).new
      BY <1>7, <2>3 DEF After, WithPart, Part, Outcome, InstallStep, UninstallStep
    <3> HIDE DEF y
    <3>3. y \in Contents("windsurf") /\ SameCommands(x.pre, y.pre) /\ SameCommands(x.post, y.post)
      <4>1. CASE c.op = "install"
        BY <1>2, <3>1, <3>2, <4>1, WindsurfKeeps
      <4>2. CASE c.op # "install"
        <5>1. y = WindsurfUninstall(x).new
          BY <3>2, <4>2
        <5> QED
          BY <3>1, <5>1, WindsurfLeft
      <4> QED
        BY <4>1, <4>2
    <3>5. x = y => SameForUser("windsurf", x, y)
      BY DEF SameForUser
    <3> QED
      BY <1>6, <1>7, <3>1, <3>3, <3>5
  <2>4. CASE step = "mcp"
    <3>1. FileOf(step) = "mcp" /\ x \in ServerTables /\ Contents("mcp") = ServerTables
      BY <2>4 DEF FileOf, Contents
    <3>2. y = IF c.op = "install" THEN JsonInstall(x, c.build, c.force).new ELSE JsonUninstall(x).new
      BY <1>7, <2>4 DEF After, WithPart, Part, Outcome, InstallStep, UninstallStep
    <3> HIDE DEF y
    <3>3. y \in ServerTables /\ SameServers(x, y)
      BY <1>2, <1>7, <3>1, <3>2, ServersInstalled, ServersUninstalled
    <3>5. x = y => SameForUser("mcp", x, y)
      BY DEF SameForUser
    <3> QED
      BY <1>6, <1>7, <3>1, <3>3, <3>5
  <2>5. CASE step = "skill"
    <3>1. FileOf(step) = "skill" /\ x \in Owned \cup {Nothing} /\ Contents("skill") = Owned \cup {Nothing}
      BY <2>5 DEF FileOf, Contents
    <3>2. y = IF c.op = "install" THEN SkillInstall(x, c.build, c.force).new ELSE SkillUninstall(x).new
      BY <1>7, <2>5 DEF After, WithPart, Part, Outcome, InstallStep, UninstallStep
    <3> HIDE DEF y
    <3>3. /\ y \in Owned \cup {Nothing}
          /\ c.op = "install" /\ ~c.force => UserSkill(x) = UserSkill(y)
      <4>1. CASE c.op = "install"
        <5>1. c.force = TRUE \/ c.force = FALSE
          BY <1>2
        <5> QED
          BY <1>2, <3>1, <3>2, <4>1, <5>1, SkillKept
      <4>2. CASE c.op = "uninstall"
        BY <3>1, <3>2, <4>2 DEF SkillUninstall, To
      <4> QED
        BY <1>7, <4>1, <4>2
    <3>4. ExposedTo(c, "skill", x) <=> c.force \/ c.op = "uninstall"
      BY DEF ExposedTo
    <3>5. x = y => SameForUser("skill", x, y)
      BY DEF SameForUser
    <3> QED
      BY <1>6, <1>7, <3>1, <3>3, <3>4, <3>5
  <2>6. CASE step = "codex_hooks"
    <3>1. /\ FileOf(step) = "config" /\ x \in Contents("config")
          /\ Contents("config") = [hooks : HookLists, servers : ServerTables]
      BY <2>6 DEF FileOf, Contents
    <3>2. PICK h : h = IF c.op = "install" THEN NativeInstall(x.hooks, c.build, c.force, "replaced").new
                       ELSE SettingsUninstall(x.hooks).new
      OBVIOUS
    <3>3. y = [x EXCEPT !.hooks = h]
      BY <1>7, <2>6, <3>2 DEF After, WithPart, Part, Outcome, InstallStep, UninstallStep,
                              CodexInstall, CodexUninstall
    <3> HIDE DEF y
    <3>4. h \in HookLists /\ (~Mixed(x.hooks) /\ x.hooks.form # "other"
                                => x.hooks = h \/ SameCommands(x.hooks, h))
      BY <1>2, <1>7, <3>1, <3>2, NativeInstalls, HooksUninstall
    <3>5. y \in Contents("config") /\ y.hooks = h /\ y.servers = x.servers
      <4>1. x \in [hooks : HookLists, servers : ServerTables] /\ h \in HookLists
        BY <3>1, <3>4
      <4>2. /\ y \in [hooks : HookLists, servers : ServerTables]
            /\ y.hooks = h /\ y.servers = x.servers
        BY <3>3, <4>1
      <4> QED
        BY <3>1, <4>2
    <3>6. ExposedTo(c, "config", x) <=> Mixed(x.hooks) \/ x.hooks.form = "other" \/ x.servers.form = "other"
      BY DEF ExposedTo
    <3>7. SameServers(x.servers, y.servers) /\ SameCommands(x.hooks, x.hooks)
      BY <3>1, <3>5, SameCommandsReflexive DEF SameServers
    <3>8. ~ExposedTo(c, "config", x) => SameCommands(x.hooks, y.hooks)
      BY <3>4, <3>5, <3>6, <3>7
    <3>9. x = y => SameForUser("config", x, y)
      BY DEF SameForUser
    <3> QED
      BY <1>6, <1>7, <3>1, <3>5, <3>7, <3>8, <3>9
  <2>7. CASE step = "codex_mcp"
    <3>1. /\ FileOf(step) = "config" /\ x \in Contents("config")
          /\ Contents("config") = [hooks : HookLists, servers : ServerTables]
      BY <2>7 DEF FileOf, Contents
    <3>2. PICK s : s = IF c.op = "install" THEN TomlInstall(x.servers, c.build, c.force).new
                       ELSE TomlUninstall(x.servers).new
      OBVIOUS
    <3>3. y = [x EXCEPT !.servers = s]
      BY <1>7, <2>7, <3>2 DEF After, WithPart, Part, Outcome, InstallStep, UninstallStep
    <3> HIDE DEF y
    <3>4. s \in ServerTables /\ (x.servers.form # "other" => SameServers(x.servers, s))
      <4>1. x.servers \in ServerTables
        BY <3>1
      <4>2. CASE c.op = "install"
        BY <1>2, <3>2, <4>1, <4>2, ServersInstalled
      <4>3. CASE c.op = "uninstall"
        BY <3>2, <4>1, <4>3, ServersUninstalled
      <4> QED
        BY <1>7, <4>2, <4>3
    <3>5. y \in Contents("config") /\ y.hooks = x.hooks /\ y.servers = s
      <4>1. x \in [hooks : HookLists, servers : ServerTables] /\ s \in ServerTables
        BY <3>1, <3>4
      <4>2. /\ y \in [hooks : HookLists, servers : ServerTables]
            /\ y.hooks = x.hooks /\ y.servers = s
        BY <3>3, <4>1
      <4> QED
        BY <3>1, <4>2
    <3>6. ExposedTo(c, "config", x) <=> Mixed(x.hooks) \/ x.hooks.form = "other" \/ x.servers.form = "other"
      BY DEF ExposedTo
    <3>7. SameCommands(x.hooks, y.hooks)
      BY <3>1, <3>5, SameCommandsReflexive
    <3>8. ~ExposedTo(c, "config", x) => SameServers(x.servers, y.servers)
      BY <3>4, <3>5, <3>6
    <3>9. x = y => SameForUser("config", x, y)
      BY DEF SameForUser
    <3> QED
      BY <1>6, <1>7, <3>1, <3>5, <3>7, <3>8, <3>9
  <2> HIDE DEF y
  <2> QED
    BY <2>1, <2>2, <2>3, <2>4, <2>5, <2>6, <2>7 DEF StepNames
<1> HIDE DEF y
<1> QED
  BY <1>3, <1>5, <1>7

LEMMA UserOwned ==
    ASSUME NEW n \in 1 .. MaxEdits
    PROVE  User(n) \in Owned
BY DEF Owned

\* The user adds a command to one of Windsurf's lists.
LEMMA CommandEdits ==
    ASSUME NEW me \in Owned, NEW h \in CommandLists, NEW k \in ListEdits(h, me)
    PROVE  k \in CommandLists
<1>1. h \in HookLists /\ h.entries \in Seq(SUBSET Owned)
  BY CommandsOf, HooksOf
<1>2. PICK b \in SUBSET Owned : b = {me}
  OBVIOUS
<1>3. PICK s : s = <<b>>
  OBVIOUS
<1>4. s \in Seq(SUBSET Owned) /\ Len(s) = 1 /\ s[1] = b /\ DOMAIN s = 1 .. 1
  BY <1>3
<1>5. k \in {HookList(s \o h.entries), HookList(Append(h.entries, b)), [form |-> "other", entries |-> s]}
  BY <1>2, <1>3 DEF ListEdits
<1>6. \A e \in Seq(SUBSET Owned) :
          HookList(e) \in HookLists /\ [form |-> "other", entries |-> e] \in HookLists
  BY DEF HookList, HookLists
<1>7. ASSUME NEW e \in Seq(SUBSET Owned), k \in {HookList(e), [form |-> "other", entries |-> e]},
             \A i \in 1 .. Len(e) : e[i] = b \/ \E j \in 1 .. Len(h.entries) : e[i] = h.entries[j]
      PROVE  k \in CommandLists
  <2>1. k \in HookLists /\ k.entries = e
    <3>1. CASE k = HookList(e)
      BY <1>6, <3>1 DEF HookList
    <3>2. CASE k = [form |-> "other", entries |-> e]
      BY <1>6, <3>2
    <3> QED
      BY <1>7, <3>1, <3>2
  <2>2. DOMAIN e = 1 .. Len(e) /\ DOMAIN h.entries = 1 .. Len(h.entries)
    BY <1>1, LenProperties
  <2> QED
    BY <1>2, <1>7, <2>1, <2>2, CommandsOnly
<1>8. CASE k = HookList(s \o h.entries)
  <2>1. PICK n \in Nat : n = Len(h.entries)
    BY <1>1, LenProperties
  <2>2. PICK e : e = s \o h.entries
    OBVIOUS
  <2>3. /\ e \in Seq(SUBSET Owned) /\ Len(e) = 1 + n
        /\ \A i \in 1 .. (1 + n) : e[i] = IF i <= 1 THEN s[i] ELSE h.entries[i - 1]
    <3>1. /\ e \in Seq(SUBSET Owned) /\ Len(e) = Len(s) + Len(h.entries)
          /\ \A i \in 1 .. Len(s) + Len(h.entries) :
                e[i] = IF i <= Len(s) THEN s[i] ELSE h.entries[i - Len(s)]
      BY <1>1, <1>4, <2>2, ConcatProperties, Zenon
    <3> QED
      BY <1>4, <2>1, <3>1
  <2>4. ASSUME NEW i \in 1 .. Len(e)
        PROVE  e[i] = b \/ \E j \in 1 .. Len(h.entries) : e[i] = h.entries[j]
    <3>1. CASE i = 1
      BY <1>4, <2>1, <2>3, <3>1
    <3>2. CASE i # 1
      <4>1. i - 1 \in 1 .. Len(h.entries) /\ e[i] = h.entries[i - 1]
        BY <2>1, <2>3, <3>2
      <4> QED
        BY <4>1
    <3> QED
      BY <3>1, <3>2
  <2> QED
    BY <1>7, <1>8, <2>2, <2>3, <2>4
<1>9. CASE k = HookList(Append(h.entries, b))
  <2>1. PICK n \in Nat : n = Len(h.entries)
    BY <1>1, LenProperties
  <2>2. PICK e : e = Append(h.entries, b)
    OBVIOUS
  <2>3. /\ e \in Seq(SUBSET Owned) /\ Len(e) = n + 1
        /\ e[n + 1] = b /\ \A i \in 1 .. n : e[i] = h.entries[i]
    BY <1>1, <2>1, <2>2, AppendProperties
  <2>4. \A i \in 1 .. Len(e) : i = n + 1 \/ i \in 1 .. Len(h.entries)
    BY <2>1, <2>3
  <2> QED
    BY <1>7, <1>9, <2>1, <2>2, <2>3, <2>4
<1>10. CASE k = [form |-> "other", entries |-> s]
  BY <1>4, <1>7, <1>10
<1> QED
  BY <1>5, <1>8, <1>9, <1>10

\* The user moves brick's entry to another event, or gives an event an empty list.
LEMMA EntryMoves ==
    ASSUME NEW x \in [pre : CommandLists, post : CommandLists], NEW y \in EventEdits(x)
    PROVE  y \in [pre : CommandLists, post : CommandLists]
<1>1. x.pre \in CommandLists /\ x.post \in CommandLists /\ x = [pre |-> x.pre, post |-> x.post]
  OBVIOUS
<1>2. /\ x.pre \in HookLists /\ x.pre.entries \in Seq(SUBSET Owned)
      /\ x.post \in HookLists /\ x.post.entries \in Seq(SUBSET Owned)
  BY <1>1, CommandsOf, HooksOf
<1>3. \A e \in Seq(SUBSET Owned) : HookList(e) \in HookLists /\ HookList(e).entries = e
  BY DEF HookList, HookLists
<1>4. CASE y = [x EXCEPT !.post = HookList(<<>>)]
  <2>1. <<>> \in Seq(SUBSET Owned) /\ DOMAIN <<>> = {}
    OBVIOUS
  <2>2. HookList(<<>>) \in CommandLists
    BY <1>1, <1>3, <2>1, CommandsOnly
  <2> QED
    BY <1>1, <1>4, <2>2
<1>5. ASSUME NEW i \in ListBricks(x.pre),
             y = [pre |-> HookList(Only(x.pre.entries, DOMAIN x.pre.entries \ {i})),
                  post |-> HookList(Append(x.post.entries, x.pre.entries[i]))]
      PROVE  y \in [pre : CommandLists, post : CommandLists]
  <2>1. i \in DOMAIN x.pre.entries
    BY DEF ListBricks, BrickEntries
  <2>2. PICK c \in Owned : x.pre.entries[i] = {c}
    BY <1>1, <2>1 DEF CommandLists
  <2>3. HookList(Only(x.pre.entries, DOMAIN x.pre.entries \ {i})) \in CommandLists
    <3>1. PICK S \in SUBSET DOMAIN x.pre.entries : S = DOMAIN x.pre.entries \ {i}
      OBVIOUS
    <3>2. Only(x.pre.entries, S) \in Seq(SUBSET Owned)
      BY <1>2, OnlyKeeps
    <3>3. \A k \in DOMAIN Only(x.pre.entries, S) :
             \E j \in DOMAIN x.pre.entries : Only(x.pre.entries, S)[k] = x.pre.entries[j]
      BY <1>2, OnlyFrom
    <3>4. PICK g \in HookLists : g = HookList(Only(x.pre.entries, S)) /\ g.entries = Only(x.pre.entries, S)
      BY <1>3, <3>2
    <3>5. g \in CommandLists
      BY <1>1, <3>3, <3>4, CommandsOnly
    <3> QED
      BY <3>1, <3>4, <3>5
  <2>4. HookList(Append(x.post.entries, x.pre.entries[i])) \in CommandLists
    <3>1. PICK b \in SUBSET Owned : b = {c}
      OBVIOUS
    <3>2. PICK n \in Nat : n = Len(x.post.entries)
      BY <1>2, LenProperties
    <3>3. PICK e : e = Append(x.post.entries, b)
      OBVIOUS
    <3>4. /\ e \in Seq(SUBSET Owned) /\ Len(e) = n + 1
          /\ e[n + 1] = b /\ \A k \in 1 .. n : e[k] = x.post.entries[k]
      BY <1>2, <3>2, <3>3, AppendProperties
    <3>5. DOMAIN e = 1 .. Len(e) /\ DOMAIN x.post.entries = 1 .. n
      BY <1>2, <3>2, <3>4, LenProperties
    <3>6. \A k \in DOMAIN e : k = n + 1 \/ k \in DOMAIN x.post.entries
      BY <3>2, <3>4, <3>5
    <3>7. \A k \in DOMAIN e : (\E j \in DOMAIN x.post.entries : e[k] = x.post.entries[j])
                               \/ \E d \in Owned : e[k] = {d}
      BY <3>1, <3>4, <3>5, <3>6
    <3>8. PICK g \in HookLists : g = HookList(e) /\ g.entries = e
      BY <1>3, <3>4
    <3>9. g \in CommandLists
      BY <1>1, <3>7, <3>8, CommandsOnly
    <3> QED
      BY <2>2, <3>1, <3>3, <3>8, <3>9
  <2> QED
    BY <1>5, <2>3, <2>4
<1> QED
  BY <1>4, <1>5 DEF EventEdits

\* The user's edits leave contents of the same kind.
LEMMA EditsTyped ==
    ASSUME NEW f \in Files, NEW x \in Contents(f), NEW n \in 1 .. MaxEdits,
           NEW y \in EditsOf(f, x, User(n))
    PROVE  y \in Contents(f)
<1> DEFINE me == User(n)
<1>1. me \in Owned
  BY UserOwned
<1> HIDE DEF me
<1>2. ASSUME NEW t \in Seq(Tokens), NEW u \in MemoryEdits(t, me) PROVE u \in Seq(Tokens)
  <2>1. Len(t) \in Nat /\ DOMAIN t = 1 .. Len(t) /\ t \in [1 .. Len(t) -> Tokens]
    BY LenProperties
  <2>2. me \in Tokens /\ NL \in Tokens
    BY <1>1 DEF Tokens
  <2>3. <<me, NL>> \in Seq(Tokens)
    BY <2>2
  <2>4. <<me, NL>> \o t \in Seq(Tokens) /\ t \o <<me, NL>> \in Seq(Tokens)
    <3>1. PICK s \in Seq(Tokens) : s = <<me, NL>>
      BY <2>3
    <3>2. s \o t \in Seq(Tokens) /\ t \o s \in Seq(Tokens)
      BY ConcatProperties
    <3> QED
      BY <3>1, <3>2
  <2>5. ASSUME NEW i \in 1 .. Len(t)
        PROVE  SubSeq(t, 1, i - 1) \o SubSeq(t, i + 1, Len(t)) \in Seq(Tokens)
    <3>1. /\ \A j \in 1 .. (i - 1) : t[j] \in Tokens
          /\ \A j \in (i + 1) .. Len(t) : t[j] \in Tokens
      BY <2>1
    <3>2. SubSeq(t, 1, i - 1) \in Seq(Tokens) /\ SubSeq(t, i + 1, Len(t)) \in Seq(Tokens)
      BY <2>1, <3>1, SubSeqProperties
    <3> QED
      BY <3>2, ConcatProperties
  <2> QED
    BY <2>1, <2>4, <2>5 DEF MemoryEdits
<1>3. ASSUME NEW h \in HookLists, NEW u \in HookEdits(h, me) PROVE u \in HookLists
  <2>1. h.entries \in Seq(SUBSET Owned) /\ {me} \in SUBSET Owned
    BY <1>1, HooksOf
  <2>2. <<{me}>> \in Seq(SUBSET Owned)
    BY <2>1
  <2>3. <<{me}>> \o h.entries \in Seq(SUBSET Owned)
    BY <2>1, <2>2, ConcatProperties, Zenon
  <2>4. Append(h.entries, {me}) \in Seq(SUBSET Owned)
    BY <2>1, AppendProperties, Zenon
  <2>5. ASSUME NEW i \in BrickEntries(h)
        PROVE  [h.entries EXCEPT ![i] = @ \cup {me}] \in Seq(SUBSET Owned)
    <3>1. i \in 1 .. Len(h.entries) /\ h.entries[i] \cup {me} \in SUBSET Owned
      BY <2>1, HooksOf, ElementOfSeq
    <3> QED
      BY <2>1, <3>1, ExceptSeq
  <2>6. \A e \in Seq(SUBSET Owned) :
          HookList(e) \in HookLists /\ [form |-> "other", entries |-> e] \in HookLists
    BY DEF HookList, HookLists
  <2>7. \/ u \in {HookList(<<{me}>> \o h.entries), HookList(Append(h.entries, {me})),
                  [form |-> "other", entries |-> <<{me}>>]}
        \/ \E i \in BrickEntries(h) : u = HookList([h.entries EXCEPT ![i] = @ \cup {me}])
    BY DEF HookEdits, ListEdits
  <2> QED
    BY <2>2, <2>3, <2>4, <2>5, <2>6, <2>7
<1>4. ASSUME NEW s \in ServerTables, NEW u \in ServerEdits(s, me) PROVE u \in ServerTables
  BY <1>1 DEF ServerEdits, ServerTables
<1>5. y \in EditsOf(f, x, me)
  BY DEF me
<1>6. CASE f = "memory"
  BY <1>2, <1>5, <1>6 DEF EditsOf, Contents, Tokens
<1>7. CASE f = "settings"
  BY <1>3, <1>5, <1>7 DEF EditsOf, Contents
<1>11. CASE f = "windsurf"
  <2>1. x \in [pre : CommandLists, post : CommandLists]
    BY <1>11 DEF Contents
  <2>2. \/ \E h \in ListEdits(x.pre, me) : y = [x EXCEPT !.pre = h]
        \/ \E h \in ListEdits(x.post, me) : y = [x EXCEPT !.post = h]
        \/ y \in EventEdits(x)
    BY <1>5, <1>11 DEF EditsOf
  <2>3. \A h \in CommandLists : \A k \in ListEdits(h, me) : k \in CommandLists
    BY <1>1, CommandEdits
  <2>4. y \in EventEdits(x) => y \in [pre : CommandLists, post : CommandLists]
    BY <2>1, EntryMoves
  <2>5. y \in [pre : CommandLists, post : CommandLists]
    BY <2>1, <2>2, <2>3, <2>4
  <2> QED
    BY <1>11, <2>5 DEF Contents
<1>8. CASE f = "mcp"
  BY <1>4, <1>5, <1>8 DEF EditsOf, Contents
<1>9. CASE f = "config"
  <2>1. x \in [hooks : HookLists, servers : ServerTables]
    BY <1>9 DEF Contents
  <2>2. \/ \E h \in HookEdits(x.hooks, me) : y = [x EXCEPT !.hooks = h]
        \/ \E s \in ServerEdits(x.servers, me) : y = [x EXCEPT !.servers = s]
    BY <1>5, <1>9 DEF EditsOf
  <2>3. y \in [hooks : HookLists, servers : ServerTables]
    BY <1>3, <1>4, <2>1, <2>2
  <2> QED
    BY <1>9, <2>3 DEF Contents
<1>10. CASE f = "skill"
  BY <1>1, <1>5, <1>10 DEF EditsOf, Contents
<1> QED
  BY <1>6, <1>7, <1>8, <1>9, <1>10, <1>11 DEF Files

-----------------------------------------------------------------------------
(***************************************************************************)
(* The invariant: every file holds contents of its kind, and a command     *)
(* that has read its file has in hand, and at the end in the temporary     *)
(* file, what its step makes of what it read.                              *)
(***************************************************************************)
FilesInv == file = [f \in Files |-> file[f]] /\ \A f \in Files : file[f] \in Contents(f)

CmdInv ==
    cmd # Idle =>
        /\ cmd = [op |-> cmd.op, build |-> cmd.build, force |-> cmd.force, todo |-> cmd.todo,
                  pc |-> cmd.pc, seen |-> cmd.seen, new |-> cmd.new, tmp |-> cmd.tmp,
                  says |-> cmd.says]
        /\ Understood(cmd) /\ cmd.todo \in Seq(StepNames) /\ cmd.todo # <<>>
        /\ cmd.pc # "read" => cmd.seen \in Contents(CurrentFile)
                                /\ cmd.new = After(cmd, Current, cmd.seen)
        /\ cmd.pc = "commit" => cmd.tmp = cmd.new

InstallInv ==
    /\ target \in AllTargets /\ edits \in Nat /\ edits <= MaxEdits
    /\ FilesInv /\ CmdInv

\* Commands that differ in how far they are only.
LEMMA SameAfter ==
    ASSUME NEW c, NEW d, c.op = d.op, c.build = d.build, c.force = d.force, NEW step, NEW x
    PROVE  /\ After(c, step, x) = After(d, step, x)
           /\ Understood(c) => Understood(d)
BY DEF After, Outcome, Understood

LEMMA StepsTyped ==
    ASSUME NEW t \in AllTargets
    PROVE  StepsOf(t) \in Seq(StepNames) /\ StepsOf(t) # <<>>
<1>1. CASE t = "claude"
  <2>1. StepsOf(t) = <<"memory", "settings", "mcp", "skill">>
    BY <1>1 DEF StepsOf
  <2> QED
    BY <2>1 DEF StepNames
<1>2. CASE t = "codex"
  <2>1. StepsOf(t) = <<"memory", "codex_hooks", "codex_mcp", "skill">>
    BY <1>2 DEF StepsOf
  <2> QED
    BY <2>1 DEF StepNames
<1>3. CASE t = "windsurf"
  <2>1. StepsOf(t) = <<"windsurf", "mcp", "skill">>
    BY <1>3 DEF StepsOf
  <2> QED
    BY <2>1 DEF StepNames
<1>4. CASE t = "gemini"
  <2>1. StepsOf(t) = <<"memory", "mcp", "skill">>
    BY <1>4 DEF StepsOf
  <2> QED
    BY <2>1 DEF StepNames
<1>5. CASE t \in {"cursor", "orgii"}
  <2>1. StepsOf(t) = <<"mcp", "skill">>
    BY <1>5 DEF StepsOf
  <2> QED
    BY <2>1 DEF StepNames
<1>6. CASE t = "vscode"
  <2>1. StepsOf(t) = <<"mcp">>
    BY <1>6 DEF StepsOf
  <2> QED
    BY <2>1 DEF StepNames
<1> QED
  BY <1>1, <1>2, <1>3, <1>4, <1>5, <1>6 DEF AllTargets

\* On to the next file, or to the end.
LEMMA ProceedKeeps ==
    ASSUME InstallInv, cmd # Idle, Proceed
    PROVE  CmdInv'
<1>1. cmd.todo \in Seq(StepNames) /\ cmd.todo # <<>>
  BY DEF InstallInv, CmdInv
<1>2. CASE cmd' = Idle
  BY <1>2 DEF CmdInv
<1>3. CASE Len(cmd.todo) # 1
  <2>1. cmd' = [op |-> cmd.op, build |-> cmd.build, force |-> cmd.force, todo |-> Tail(cmd.todo),
                pc |-> "read", seen |-> Nothing, new |-> Nothing, tmp |-> Nothing, says |-> ""]
    BY <1>3 DEF Proceed, InstallInv, CmdInv
  <2>2. Tail(cmd.todo) \in Seq(StepNames) /\ Tail(cmd.todo) # <<>>
    <3>1. Tail(cmd.todo) \in Seq(StepNames) /\ Len(Tail(cmd.todo)) = Len(cmd.todo) - 1
      BY <1>1, HeadTailProperties
    <3>2. Len(cmd.todo) \in Nat \ {0, 1}
      BY <1>1, <1>3, EmptySeq
    <3>3. Len(Tail(cmd.todo)) # 0
      BY <3>1, <3>2
    <3> QED
      BY <3>1, <3>3, EmptySeq
  <2>3. Understood(cmd')
    BY <2>1, SameAfter DEF InstallInv, CmdInv
  <2> QED
    BY <2>1, <2>2, <2>3 DEF CmdInv
<1> QED
  BY <1>2, <1>3 DEF Proceed

LEMMA InstallInit == Init => InstallInv
<1> SUFFICES ASSUME Init PROVE InstallInv
  OBVIOUS
<1>1. target \in AllTargets /\ edits \in Nat /\ edits <= MaxEdits
  BY InstallAssumption DEF Init, InstallAssumption
<1>2. CmdInv
  BY DEF Init, CmdInv
<1>3. NoHooks \in HookLists /\ NoHooks \in CommandLists /\ NoServers \in ServerTables
  BY DEF NoHooks, NoServers, HookLists, CommandLists, ServerTables
<1>4. ASSUME NEW f \in Files PROVE file[f] \in Contents(f)
  <2>1. CASE f = "memory"
    BY <2>1 DEF Init, Contents
  <2>2. CASE f = "settings"
    BY <1>3, <2>2 DEF Init, Contents
  <2>6. CASE f = "windsurf"
    <3>1. file[f] = [pre |-> NoHooks, post |-> NoHooks]
      BY <2>6 DEF Init
    <3> QED
      BY <1>3, <2>6, <3>1 DEF Contents
  <2>3. CASE f = "config"
    BY <1>3, <2>3 DEF Init, Contents
  <2>4. CASE f = "mcp"
    BY <1>3, <2>4 DEF Init, Contents
  <2>5. CASE f = "skill"
    BY <2>5 DEF Init, Contents
  <2> QED
    BY <2>1, <2>2, <2>3, <2>4, <2>5, <2>6 DEF Files
<1>5. file = [f \in Files |-> file[f]]
  BY DEF Init
<1> QED
  BY <1>1, <1>2, <1>4, <1>5 DEF InstallInv, FilesInv

\* What a command that has read its file has in hand.
LEMMA InHand ==
    ASSUME InstallInv, cmd # Idle
    PROVE  /\ Current \in StepNames /\ CurrentFile \in Files
           /\ cmd.pc # "read" =>
                /\ cmd.new \in Contents(CurrentFile)
                /\ ~ExposedTo(cmd, CurrentFile, cmd.seen)
                        => SameForUser(CurrentFile, cmd.seen, cmd.new)
<1>1. Understood(cmd) /\ cmd.todo \in Seq(StepNames) /\ cmd.todo # <<>>
  BY DEF InstallInv, CmdInv
<1>2. Current \in StepNames
  BY <1>1, HeadTailProperties DEF Current
<1>3. CurrentFile \in Files
  BY <1>2 DEF CurrentFile, FileOf, StepNames, Files
<1>4. ASSUME cmd.pc # "read"
      PROVE  /\ cmd.new \in Contents(CurrentFile)
             /\ ~ExposedTo(cmd, CurrentFile, cmd.seen)
                     => SameForUser(CurrentFile, cmd.seen, cmd.new)
  <2>1. cmd.seen \in Contents(FileOf(Current)) /\ cmd.new = After(cmd, Current, cmd.seen)
    BY <1>4 DEF InstallInv, CmdInv, CurrentFile
  <2> QED
    BY <1>1, <1>2, <2>1, OutcomeKeeps DEF CurrentFile
<1> QED
  BY <1>2, <1>3, <1>4

\* The file a command replaces.
LEMMA Replaces ==
    ASSUME InstallInv, cmd # Idle, cmd.pc # "read", file' = [file EXCEPT ![CurrentFile] = cmd.new]
    PROVE  /\ FilesInv'
           /\ \A f \in Files :
                \/ SameForUser(f, file[f], file'[f])
                \/ /\ f = CurrentFile
                   /\ Exposed(f, file[f]) \/ cmd.seen # file[f]
<1>1. CurrentFile \in Files /\ cmd.new \in Contents(CurrentFile) /\ FilesInv
  BY InHand DEF InstallInv
<1>2. /\ file'[CurrentFile] = cmd.new
      /\ \A f \in Files : f # CurrentFile => file'[f] = file[f]
  BY <1>1 DEF FilesInv
<1>3. FilesInv'
  <2>1. file' = [f \in Files |-> file'[f]]
    BY <1>1 DEF FilesInv
  <2>2. \A f \in Files : file'[f] \in Contents(f)
    BY <1>1, <1>2 DEF FilesInv
  <2> QED
    BY <2>1, <2>2 DEF FilesInv
<1>4. ASSUME NEW f \in Files
      PROVE  \/ SameForUser(f, file[f], file'[f])
             \/ /\ f = CurrentFile
                /\ Exposed(f, file[f]) \/ cmd.seen # file[f]
  <2>1. CASE f # CurrentFile
    BY <1>2, <2>1 DEF SameForUser
  <2>2. CASE f = CurrentFile /\ cmd.seen = file[f] /\ ~Exposed(f, file[f])
    <3>1. ~ExposedTo(cmd, f, file[f])
      BY <2>2 DEF Exposed, ExposedTo
    <3> QED
      BY <1>2, <2>2, <3>1, InHand
  <2> QED
    BY <2>1, <2>2
<1> QED
  BY <1>3, <1>4

LEMMA InstallStepKeeps == InstallInv /\ [Next]_vars => InstallInv'
<1> SUFFICES ASSUME InstallInv, [Next]_vars PROVE InstallInv'
  OBVIOUS
<1> USE DEF InstallInv
<1>1. ASSUME NEW op \in {"install", "uninstall", "status"}, NEW v, NEW force \in BOOLEAN,
             op # "uninstall" => v \in Builds, Start(op, v, force)
      PROVE  InstallInv'
  <2>1. cmd' = [op |-> op, build |-> v, force |-> force, todo |-> StepsOf(target),
                pc |-> "read", seen |-> Nothing, new |-> Nothing, tmp |-> Nothing, says |-> ""]
    BY <1>1 DEF Start
  <2>2. CmdInv'
    BY <1>1, <2>1, StepsTyped DEF CmdInv, Understood
  <2> QED
    BY <1>1, <2>2 DEF Start, FilesInv
<1>2. CASE Read
  <2>1. cmd # Idle /\ cmd.pc = "read"
    BY <1>2 DEF Read, Running
  <2>2. UNCHANGED <<target, file, edits>>
    BY <1>2 DEF Read
  <2>3. CASE Proceed
    BY <2>1, <2>2, <2>3, ProceedKeeps DEF FilesInv
  <2>4. CASE ~Proceed
    <3> DEFINE seen == file[CurrentFile]
               step == Outcome(cmd, Current, Part(Current, seen))
    <3>1. cmd' = [cmd EXCEPT !.pc = "write", !.seen = seen,
                             !.new = WithPart(Current, seen, step.new), !.says = step.says]
      BY <1>2, <2>4 DEF Read, Report
    <3>2. seen \in Contents(CurrentFile)
      BY <2>1, InHand DEF FilesInv
    <3>3. WithPart(Current, seen, step.new) = After(cmd, Current, seen)
      BY DEF After
    <3> HIDE DEF seen, step
    <3>4. cmd' = [op |-> cmd.op, build |-> cmd.build, force |-> cmd.force, todo |-> cmd.todo,
                  pc |-> "write", seen |-> seen, new |-> After(cmd, Current, seen),
                  tmp |-> cmd.tmp, says |-> step.says]
      BY <2>1, <3>1, <3>3 DEF CmdInv
    <3>5. Current' = Current /\ CurrentFile' = CurrentFile
      BY <3>4 DEF Current, CurrentFile
    <3>6. After(cmd', Current, seen) = After(cmd, Current, seen) /\ Understood(cmd')
      BY <2>1, <3>4, SameAfter DEF CmdInv
    <3>7. CmdInv'
      BY <2>1, <3>2, <3>4, <3>5, <3>6 DEF CmdInv
    <3> QED
      BY <2>2, <3>7 DEF FilesInv
  <2> QED
    BY <2>3, <2>4
<1>3. ASSUME cmd # Idle, cmd.pc # "read", NEW pc \in {"fill", "commit"}, NEW tmp,
             pc = "commit" => tmp = cmd.new, cmd' = [cmd EXCEPT !.pc = pc, !.tmp = tmp],
             UNCHANGED <<target, file, edits>>
      PROVE  InstallInv'
  <2>1. cmd' = [op |-> cmd.op, build |-> cmd.build, force |-> cmd.force, todo |-> cmd.todo,
                pc |-> pc, seen |-> cmd.seen, new |-> cmd.new, tmp |-> tmp, says |-> cmd.says]
    BY <1>3 DEF CmdInv
  <2>2. Current' = Current /\ CurrentFile' = CurrentFile
    BY <2>1 DEF Current, CurrentFile
  <2>3. /\ After(cmd', Current, cmd.seen) = After(cmd, Current, cmd.seen)
        /\ Understood(cmd')
    <3>1. cmd'.op = cmd.op /\ cmd'.build = cmd.build /\ cmd'.force = cmd.force
      BY <2>1
    <3>2. Understood(cmd)
      BY <1>3 DEF CmdInv
    <3> QED
      BY <3>1, <3>2, SameAfter
  <2>4. CmdInv'
    BY <1>3, <2>1, <2>2, <2>3 DEF CmdInv
  <2> QED
    BY <1>3, <2>4 DEF FilesInv
<1>4. CASE Stage
  BY <1>3, <1>4 DEF Stage, Running
<1>5. CASE Fill
  BY <1>3, <1>5 DEF Fill, Running
<1>6. CASE Commit
  <2>1. cmd # Idle /\ cmd.pc = "commit" /\ cmd.tmp = cmd.new /\ Proceed
    BY <1>6 DEF Commit, Running, CmdInv, Report
  <2>2. file' = [file EXCEPT ![CurrentFile] = cmd.new]
    BY <1>6, <2>1 DEF Commit
  <2> QED
    BY <1>6, <2>1, <2>2, Replaces, ProceedKeeps DEF Commit
<1>7. CASE Remove
  <2>1. cmd # Idle /\ cmd.pc = "write" /\ cmd.new = Nothing /\ Proceed
    BY <1>7 DEF Remove, Running, Report
  <2>2. file' = [file EXCEPT ![CurrentFile] = cmd.new]
    BY <1>7, <2>1 DEF Remove
  <2> QED
    BY <1>7, <2>1, <2>2, Replaces, ProceedKeeps DEF Remove
<1>8. CASE Fail
  <2>1. CmdInv'
    <3>1. CASE cmd' = Idle
      BY <3>1 DEF CmdInv
    <3>2. CASE Proceed
      BY <1>8, <3>2, ProceedKeeps DEF Fail
    <3> QED
      BY <1>8, <3>1, <3>2 DEF Fail
  <2> QED
    BY <1>8, <2>1 DEF Fail, FilesInv
<1>9. CASE Crash
  BY <1>9 DEF Crash, FilesInv, CmdInv
<1>10. ASSUME NEW f \in Files, Edit(f) PROVE InstallInv'
  <2>1. edits + 1 \in 1 .. MaxEdits /\ edits' = edits + 1 /\ target' = target
    BY <1>10, InstallAssumption DEF Edit, InstallAssumption
  <2>2. PICK x \in EditsOf(f, file[f], User(edits + 1)) : file' = [file EXCEPT ![f] = x]
    BY <1>10 DEF Edit
  <2>3. x \in Contents(f)
    BY <2>1, <2>2, EditsTyped DEF FilesInv
  <2>4. FilesInv'
    BY <2>2, <2>3 DEF FilesInv
  <2>5. CmdInv'
    <3>1. cmd' = cmd
      BY <1>10 DEF Edit
    <3>2. Current' = Current /\ CurrentFile' = CurrentFile
      BY <3>1 DEF Current, CurrentFile
    <3> QED
      BY <3>1, <3>2 DEF CmdInv
  <2> QED
    BY <2>1, <2>4, <2>5
<1>11. CASE UNCHANGED vars
  BY <1>11 DEF vars, FilesInv, CmdInv, Current, CurrentFile
<1> QED
  BY <1>1, <1>2, <1>4, <1>5, <1>6, <1>7, <1>8, <1>9, <1>10, <1>11 DEF Next

THEOREM InstallInvariance == Spec => []InstallInv
<1> QED
  BY InstallInit, InstallStepKeeps, PTL DEF Spec

(***************************************************************************)
(* Whatever the builds, the edits and the crashes: what a command writes   *)
(* has the same of the user's as what it read.                             *)
(***************************************************************************)
\* A command changes nothing that is the user's, but where Exposed says so or the user
\* saved the file after the command had read it (cli agent.rs, claude_hook, native_hook,
\* mcp_config, skill).
THEOREM UserContent == Spec => UserContentKept
<1> DEFINE Kept ==
      edits' = edits =>
        \A f \in Files :
            \/ SameForUser(f, file[f], file'[f])
            \/ /\ f = CurrentFile
               /\ Exposed(f, file[f]) \/ (cmd.pc # "read" /\ cmd.seen # file[f])
<1>1. ASSUME InstallInv, [Next]_vars PROVE [Kept]_vars
  <2> SUFFICES ASSUME edits' = edits, NEW f \in Files
               PROVE  \/ SameForUser(f, file[f], file'[f])
                      \/ /\ f = CurrentFile
                         /\ Exposed(f, file[f]) \/ (cmd.pc # "read" /\ cmd.seen # file[f])
    OBVIOUS
  <2>1. CASE file' = file
    BY <2>1 DEF SameForUser
  <2>2. CASE cmd # Idle /\ cmd.pc # "read" /\ file' = [file EXCEPT ![CurrentFile] = cmd.new]
    BY <1>1, <2>2, Replaces
  <2>3. CASE Commit
    <3>1. cmd # Idle /\ cmd.pc = "commit" /\ cmd.tmp = cmd.new
      BY <1>1, <2>3 DEF Commit, Running, InstallInv, CmdInv
    <3>2. file' = [file EXCEPT ![CurrentFile] = cmd.new]
      BY <2>3, <3>1 DEF Commit
    <3> QED
      BY <2>2, <3>1, <3>2
  <2>4. CASE Remove
    <3>1. cmd # Idle /\ cmd.pc = "write" /\ cmd.new = Nothing
      BY <2>4 DEF Remove, Running
    <3>2. file' = [file EXCEPT ![CurrentFile] = cmd.new]
      BY <2>4, <3>1 DEF Remove
    <3> QED
      BY <2>2, <3>1, <3>2
  <2>5. ASSUME NEW g \in Files, Edit(g) PROVE FALSE
    BY <1>1, <2>5 DEF Edit, InstallInv
  <2>6. CASE UNCHANGED vars
    BY <2>1, <2>6 DEF vars
  <2>7. ASSUME NEW op, NEW v, NEW force, Start(op, v, force) PROVE file' = file
    BY <2>7 DEF Start
  <2>8. Read \/ Stage \/ Fill \/ Fail \/ Crash => file' = file
    BY DEF Read, Stage, Fill, Fail, Crash
  <2> QED
    BY <1>1, <2>1, <2>3, <2>4, <2>5, <2>6, <2>7, <2>8 DEF Next
<1> QED
  BY <1>1, InstallInvariance, PTL DEF Spec, UserContentKept

-----------------------------------------------------------------------------
(* Installing twice, and installing and uninstalling. *)

\* The first start marker with an end right after it is the block.
LEMMA BlockAt ==
    ASSUME NEW y \in Seq(Tokens), NEW p \in 1 .. (Len(y) - 1), IsBrick(y[p]), y[p + 1] = End,
           \A i \in 1 .. (p - 1) : ~IsBrick(y[i])
    PROVE  FindBlock(y) # <<>> /\ FindBlock(y)[1] = p /\ FindBlock(y)[2] = p + 1
<1> DEFINE starts == {i \in DOMAIN y : IsBrick(y[i])}
           ends == {i \in DOMAIN y : y[i] = End /\ i > Min(starts)}
<1>1. Len(y) \in Nat /\ DOMAIN y = 1 .. Len(y)
  BY WordsOf
<1>2. starts \in SUBSET Nat /\ p \in starts /\ \A i \in starts : p <= i
  BY <1>1
<1>3. Min(starts) = p
  <2> HIDE DEF starts
  <2>1. PICK m \in starts : m = Min(starts) /\ m <= p
    BY <1>2, FirstPlace
  <2> QED
    BY <1>2, <2>1
<1>4. ends = {i \in DOMAIN y : y[i] = End /\ i > p}
  <2> HIDE DEF starts
  <2> QED
    BY <1>3
<1>5. ends \in SUBSET Nat /\ p + 1 \in ends /\ \A i \in ends : p + 1 <= i
  <2> HIDE DEF ends
  <2> QED
    BY <1>1, <1>4
<1>6. Min(ends) = p + 1
  <2> HIDE DEF ends
  <2>1. PICK m \in ends : m = Min(ends) /\ m <= p + 1
    BY <1>5, FirstPlace
  <2>2. m \in Nat /\ p + 1 <= m
    BY <1>5, <2>1
  <2> QED
    BY <2>1, <2>2
<1>7. FindBlock(y) = IF starts = {} \/ ends = {} THEN <<>> ELSE <<Min(starts), Min(ends)>>
  BY DEF FindBlock
<1> HIDE DEF starts, ends
<1>8. starts # {} /\ ends # {}
  BY <1>2, <1>5
<1> QED
  BY <1>3, <1>6, <1>7, <1>8

\* Two tokens of a text.
LEMMA BlockText ==
    ASSUME NEW y \in Seq(Tokens), NEW v \in Builds, NEW p \in 1 .. (Len(y) - 1),
           y[p] = Brick(v), y[p + 1] = End
    PROVE  SubSeq(y, p, p + 1) = <<Brick(v), End>>
<1>1. PICK s : s = SubSeq(y, p, p + 1)
  OBVIOUS
<1>2. Len(y) \in Nat /\ \A i \in p .. (p + 1) : y[i] \in Tokens
  BY WordsOf
<1>3. s \in Seq(Tokens) /\ Len(s) = 2 /\ s[1] = y[p] /\ s[2] = y[p + 1]
  <2>1. p \in Int /\ p + 1 \in Int
    BY <1>2
  <2>2. /\ s \in Seq(Tokens) /\ Len(s) = IF p <= p + 1 THEN (p + 1) - p + 1 ELSE 0
        /\ \A i \in 1 .. (p + 1) - p + 1 : s[i] = y[p + i - 1]
    BY <1>1, <1>2, <2>1, SubSeqProperties
  <2> QED
    BY <2>1, <2>2
<1>4. PICK block : block = <<Brick(v), End>>
  OBVIOUS
<1>5. block \in Seq(Tokens) /\ Len(block) = 2 /\ block[1] = Brick(v) /\ block[2] = End
  BY <1>4 DEF Tokens, Owned
<1>6. \A i \in 1 .. 2 : i = 1 \/ i = 2
  OBVIOUS
<1>7. s = block
  BY <1>3, <1>5, <1>6, SeqEqual
<1> QED
  BY <1>1, <1>4, <1>7

\* A text with brick's block in it: a second install leaves it.
LEMMA Again ==
    ASSUME NEW y \in Seq(Tokens), NEW v \in Builds, NEW p \in 1 .. (Len(y) - 1),
           y[p] = Brick(v), y[p + 1] = End, \A i \in 1 .. (p - 1) : ~IsBrick(y[i])
    PROVE  MemoryInstall(y, v, FALSE).says = "unchanged"
<1>1. IsBrick(y[p])
  BY BrickEntry
<1>2. FindBlock(y) # <<>> /\ FindBlock(y)[1] = p /\ FindBlock(y)[2] = p + 1
  BY <1>1, BlockAt
<1>3. SubSeq(y, p, p + 1) = <<Brick(v), End>>
  BY BlockText
<1> QED
  BY <1>2, <1>3 DEF MemoryInstall, To

\* A text without a block and without a stray marker has no marker.
LEMMA Markerless ==
    ASSUME NEW x \in Seq(Tokens), FindBlock(x) = <<>>, ~Stray(x)
    PROVE  \A i \in 1 .. Len(x) : ~IsBrick(x[i])
<1> SUFFICES ASSUME NEW i \in 1 .. Len(x), IsBrick(x[i]) PROVE FALSE
  OBVIOUS
<1>1. Len(x) \in Nat /\ DOMAIN x = 1 .. Len(x)
  BY WordsOf
<1> DEFINE starts == {j \in 1 .. Len(x) : IsBrick(x[j])}
<1>2. PICK p \in starts : \A j \in starts : p <= j
  <2>1. starts \in SUBSET Nat /\ starts # {}
    BY <1>1
  <2> HIDE DEF starts
  <2> QED
    BY <2>1, LeastElement
<1>3. p \in 1 .. Len(x) /\ IsBrick(x[p])
  OBVIOUS
<1>4. p \in 1 .. (Len(x) - 1) /\ x[p + 1] = End
  <2>1. \A j \in 1 .. Len(x) : IsBrick(x[j]) => j < Len(x) /\ x[j + 1] = End
    BY <1>1 DEF Stray
  <2> HIDE DEF starts
  <2> QED
    BY <1>1, <1>3, <2>1
<1>5. \A j \in 1 .. (p - 1) : ~IsBrick(x[j])
  BY <1>1, <1>2
<1> HIDE DEF starts
<1> QED
  BY <1>3, <1>4, <1>5, BlockAt

\* A text with the part from m to e replaced by a block.
WithBlock(x, m, e, v) == SubSeq(x, 1, m - 1) \o <<Brick(v), End>> \o SubSeq(x, e + 1, Len(x))

LEMMA Replaced ==
    ASSUME NEW x \in Seq(Tokens), NEW m \in 1 .. Len(x), NEW e \in 1 .. Len(x), m < e, NEW v \in Builds
    PROVE  LET y == WithBlock(x, m, e, v) IN
           /\ y \in Seq(Tokens) /\ m + 1 <= Len(y) /\ Len(y) \in Nat
           /\ \A i \in 1 .. (m - 1) : y[i] = x[i]
           /\ y[m] = Brick(v) /\ y[m + 1] = End
           /\ \A i \in (m + 2) .. Len(y) : \E k \in (e + 1) .. Len(x) : y[i] = x[k]
<1>1. Len(x) \in Nat /\ \A i \in 1 .. Len(x) : x[i] \in Tokens
  BY WordsOf
<1>2. PICK block : block = <<Brick(v), End>>
  OBVIOUS
<1>3. block \in Seq(Tokens) /\ Len(block) = 2 /\ block[1] = Brick(v) /\ block[2] = End
  BY <1>2 DEF Tokens, Owned
<1>4. PICK p : p = SubSeq(x, 1, m - 1)
  OBVIOUS
<1>5. PICK q : q = SubSeq(x, e + 1, Len(x))
  OBVIOUS
<1>6. p \in Seq(Tokens) /\ Len(p) = m - 1 /\ \A i \in 1 .. (m - 1) : p[i] = x[i]
  BY <1>1, <1>4
<1>7. /\ q \in Seq(Tokens) /\ Len(q) = Len(x) - e
      /\ \A i \in 1 .. (Len(x) - e) : q[i] = x[e + i]
  <2>1. \A i \in (e + 1) .. Len(x) : x[i] \in Tokens
    BY <1>1
  <2>2. /\ q \in Seq(Tokens) /\ Len(q) = IF e + 1 <= Len(x) THEN Len(x) - (e + 1) + 1 ELSE 0
        /\ \A i \in 1 .. Len(x) - (e + 1) + 1 : q[i] = x[(e + 1) + i - 1]
    <3>1. e + 1 \in Int /\ Len(x) \in Int
      BY <1>1
    <3> QED
      BY <1>5, <2>1, <3>1, SubSeqProperties
  <2> QED
    BY <1>1, <2>2
<1>8. PICK w : w = p \o block
  OBVIOUS
<1>9. /\ w \in Seq(Tokens) /\ Len(w) = m + 1
      /\ \A i \in 1 .. (m - 1) : w[i] = x[i]
      /\ w[m] = Brick(v) /\ w[m + 1] = End
  <2>1. /\ w \in Seq(Tokens) /\ Len(w) = Len(p) + Len(block)
        /\ \A i \in 1 .. Len(p) + Len(block) : w[i] = IF i <= Len(p) THEN p[i] ELSE block[i - Len(p)]
    BY <1>3, <1>6, <1>8, ConcatProperties, Zenon
  <2>2. \A i \in 1 .. (m - 1) : w[i] = p[i]
    BY <1>1, <1>3, <1>6, <2>1
  <2>3. w[m] = block[1] /\ w[m + 1] = block[2]
    BY <1>1, <1>3, <1>6, <2>1
  <2> QED
    BY <1>3, <1>6, <2>1, <2>2, <2>3
<1> DEFINE y == WithBlock(x, m, e, v)
<1>10. y = w \o q
  BY <1>2, <1>4, <1>5, <1>8 DEF WithBlock
<1> HIDE DEF y
<1>11. /\ y \in Seq(Tokens) /\ Len(y) = Len(w) + Len(q)
       /\ \A i \in 1 .. Len(w) + Len(q) : y[i] = IF i <= Len(w) THEN w[i] ELSE q[i - Len(w)]
  <2>1. /\ w \o q \in Seq(Tokens) /\ Len(w \o q) = Len(w) + Len(q)
        /\ \A i \in 1 .. Len(w) + Len(q) :
              (w \o q)[i] = IF i <= Len(w) THEN w[i] ELSE q[i - Len(w)]
    BY <1>7, <1>9, ConcatProperties, Zenon
  <2> QED
    BY <1>10, <2>1, Zenon
<1>12. PICK n \in Nat : n = Len(x) - e
  BY <1>1
<1>13. /\ m \in Nat /\ e \in Nat /\ Len(x) = e + n /\ Len(w) = m + 1 /\ Len(q) = n
       /\ Len(y) = m + 1 + n
  <2>1. m \in Nat /\ e \in Nat /\ Len(x) = e + n /\ Len(w) = m + 1 /\ Len(q) = n
    BY <1>1, <1>7, <1>9, <1>12
  <2> QED
    BY <1>11, <2>1
<1>14. \A i \in 1 .. (m + 1) : y[i] = w[i]
  BY <1>11, <1>13
<1>15. ASSUME NEW i \in (m + 2) .. Len(y) PROVE \E k \in (e + 1) .. Len(x) : y[i] = x[k]
  <2>1. PICK j \in 1 .. n : i = m + 1 + j
    <3>1. i - (m + 1) \in 1 .. n /\ i = m + 1 + (i - (m + 1))
      BY <1>13
    <3> QED
      BY <3>1
  <2>2. y[i] = q[j]
    <3>1. i \in 1 .. Len(w) + Len(q) /\ ~ (i <= Len(w)) /\ i - Len(w) = j
      BY <1>13, <2>1
    <3> QED
      BY <1>11, <3>1
  <2>3. e + j \in (e + 1) .. Len(x)
    BY <1>13
  <2>4. q[j] = x[e + j]
    BY <1>7, <1>12
  <2> QED
    BY <2>2, <2>3, <2>4
<1>16. m + 1 <= Len(y) /\ Len(y) \in Nat
  BY <1>13
<1>17. /\ \A i \in 1 .. (m - 1) : y[i] = x[i]
       /\ y[m] = Brick(v) /\ y[m + 1] = End
  BY <1>9, <1>13, <1>14
<1> QED
  BY <1>11, <1>15, <1>16, <1>17 DEF y

LEMMA MemoryExact ==
    ASSUME NEW x \in Seq(Tokens), NEW v \in Builds, ~Stray(x)
    PROVE  LET y == MemoryInstall(x, v, FALSE).new IN
           /\ MemoryInstall(y, v, FALSE).says = "unchanged"
           /\ (\A i \in 1 .. Len(x) : ~IsBrick(x[i]))
                => MemoryUninstall(y).new = IF IsBlank(x) THEN <<>> ELSE TrimEnd(x) \o <<NL>>
<1>1. Len(x) \in Nat /\ DOMAIN x = 1 .. Len(x) /\ \A i \in 1 .. Len(x) : x[i] \in Tokens
  BY WordsOf
<1>2. IsBrick(Brick(v)) /\ ~IsBrick(NL) /\ ~IsBrick(End)
  BY BrickEntry DEF IsBrick
<1>3. CASE FindBlock(x) # <<>>
  <2>1. PICK m \in 1 .. Len(x), e \in 1 .. Len(x) :
             /\ FindBlock(x)[1] = m /\ FindBlock(x)[2] = e
             /\ m < e /\ IsBrick(x[m]) /\ x[e] = End
             /\ \A i \in 1 .. (m - 1) : ~IsBrick(x[i])
             /\ ~Stray(x) => e = m + 1
    BY <1>3, BlockFound
  <2>2. MemoryInstall(x, v, FALSE).says = "unchanged" => MemoryInstall(x, v, FALSE).new = x
    BY <1>3 DEF MemoryInstall, To
  <2>3. PICK y : y = WithBlock(x, m, e, v)
    OBVIOUS
  <2>4. MemoryInstall(x, v, FALSE).says # "unchanged" => MemoryInstall(x, v, FALSE).new = y
    BY <1>3, <2>1, <2>3 DEF MemoryInstall, To, WithBlock
  <2>5. /\ y \in Seq(Tokens) /\ m + 1 <= Len(y) /\ Len(y) \in Nat
        /\ \A i \in 1 .. (m - 1) : y[i] = x[i]
        /\ y[m] = Brick(v) /\ y[m + 1] = End
    <3>1. m < e
      BY <2>1
    <3> QED
      BY <2>3, <3>1, Replaced
  <2>6. /\ m \in 1 .. (Len(y) - 1) /\ y[m] = Brick(v) /\ y[m + 1] = End
        /\ \A i \in 1 .. (m - 1) : ~IsBrick(y[i])
    BY <1>1, <2>1, <2>5
  <2>7. MemoryInstall(y, v, FALSE).says = "unchanged"
    BY <2>5, <2>6, Again
  <2> QED
    BY <2>1, <2>2, <2>4, <2>7
<1>4. CASE FindBlock(x) = <<>>
  <2>1. PICK y : y = AppendBlock(x, <<Brick(v), End>>)
    OBVIOUS
  <2>2. MemoryInstall(x, v, FALSE).new = y
    BY <1>4, <2>1 DEF MemoryInstall, To
  <2>3. \A i \in 1 .. Len(x) : ~IsBrick(x[i])
    BY <1>4, Markerless
  <2>4. CASE IsBlank(x)
    <3>1. y \in Seq(Tokens) /\ Len(y) = 3 /\ y[1] = Brick(v) /\ y[2] = End /\ y[3] = NL
      BY <2>1, <2>4, Appended
    <3>2. 1 \in 1 .. (Len(y) - 1) /\ y[1 + 1] = End /\ 1 .. (1 - 1) = {} /\ IsBrick(y[1])
      BY <1>2, <3>1
    <3>3. MemoryInstall(y, v, FALSE).says = "unchanged"
      BY <3>1, <3>2, Again
    <3>4. FindBlock(y) # <<>> /\ FindBlock(y)[1] = 1 /\ FindBlock(y)[2] = 2
      <4>1. FindBlock(y) # <<>> /\ FindBlock(y)[1] = 1 /\ FindBlock(y)[2] = 1 + 1
        BY <3>1, <3>2, BlockAt
      <4> QED
        BY <4>1
    <3>5. SubSeq(y, 1, 0) \o SubSeq(y, 4, 3) = <<>>
      <4>1. SubSeq(y, 1, 0) = <<>> /\ SubSeq(y, 4, 3) = <<>>
        BY SubSeqEmpty
      <4>2. <<>> \in Seq(Tokens)
        OBVIOUS
      <4> QED
        BY <4>1, <4>2, ConcatEmptySeq
    <3>6. MemoryUninstall(y).new = <<>>
      BY <3>1, <3>4, <3>5 DEF MemoryUninstall, To
    <3> QED
      BY <2>2, <2>4, <3>3, <3>6
  <2>5. CASE ~IsBlank(x)
    <3>1. PICK m \in 1 .. Len(x) :
             /\ TrimEnd(x) = SubSeq(x, 1, m) /\ x[m] # NL
             /\ y \in Seq(Tokens) /\ Len(y) = m + 5
             /\ \A i \in 1 .. m : y[i] = x[i]
             /\ y[m + 1] = NL /\ y[m + 2] = NL
             /\ y[m + 3] = Brick(v) /\ y[m + 4] = End /\ y[m + 5] = NL
      BY <2>1, <2>5, Appended
    <3>2. PICK p \in Nat : p = m + 3
      BY <1>1, <3>1
    <3>3. /\ p \in 1 .. (Len(y) - 1) /\ y[p] = Brick(v) /\ y[p + 1] = End /\ IsBrick(y[p])
      BY <1>1, <1>2, <3>1, <3>2
    <3>4. ASSUME NEW i \in 1 .. (p - 1) PROVE ~IsBrick(y[i])
      <4>1. (i \in 1 .. Len(x) /\ y[i] = x[i]) \/ i = m + 1 \/ i = m + 2
        BY <1>1, <3>1, <3>2
      <4> QED
        BY <1>2, <2>3, <3>1, <4>1
    <3>5. MemoryInstall(y, v, FALSE).says = "unchanged"
      BY <3>1, <3>3, <3>4, Again
    <3>6. FindBlock(y) # <<>> /\ FindBlock(y)[1] = p /\ FindBlock(y)[2] = p + 1
      BY <3>1, <3>3, <3>4, BlockAt
    <3>7. PICK left : left = SubSeq(y, 1, p - 2) \o SubSeq(y, p + 3, Len(y))
      OBVIOUS
    <3>8. /\ left \in Seq(Tokens) /\ Len(left) = m + 1
          /\ \A i \in 1 .. (m + 1) : left[i] = y[i]
      <4>1. PICK s : s = SubSeq(y, 1, p - 2)
        OBVIOUS
      <4>2. \A i \in 1 .. (m + 1) : y[i] \in Tokens
        BY <3>1, WordsOf
      <4>3. s \in Seq(Tokens) /\ Len(s) = m + 1 /\ \A i \in 1 .. (m + 1) : s[i] = y[i]
        BY <1>1, <3>1, <3>2, <4>1, <4>2
      <4>4. SubSeq(y, p + 3, Len(y)) = <<>>
        BY <1>1, <3>1, <3>2, SubSeqEmpty
      <4>5. left = s
        BY <3>7, <4>1, <4>3, <4>4, ConcatEmptySeq
      <4> QED
        BY <4>3, <4>5
    <3>9. ~IsBlank(left)
      <4>1. DOMAIN left = 1 .. (m + 1)
        BY <3>8, LenProperties
      <4>2. m \in DOMAIN left /\ left[m] # NL
        BY <1>1, <3>1, <3>8, <4>1
      <4> QED
        BY <4>2 DEF IsBlank
    <3>10. MemoryUninstall(y).new = left
      <4>1. /\ FindBlock(y)[1] > 2 /\ y[FindBlock(y)[1] - 1] = NL /\ y[FindBlock(y)[1] - 2] = NL
            /\ FindBlock(y)[2] < Len(y) /\ y[FindBlock(y)[2] + 1] = NL
            /\ FindBlock(y)[1] - 2 = p - 2 /\ FindBlock(y)[2] + 2 = p + 3
        BY <1>1, <3>1, <3>2, <3>6
      <4>2. left = SubSeq(y, 1, FindBlock(y)[1] - 2) \o SubSeq(y, FindBlock(y)[2] + 2, Len(y))
        BY <3>7, <4>1
      <4> QED
        BY <3>6, <3>9, <4>1, <4>2 DEF MemoryUninstall, To
    <3>11. left = TrimEnd(x) \o <<NL>>
      <4>1. PICK t : t = SubSeq(x, 1, m)
        OBVIOUS
      <4>2. t \in Seq(Tokens) /\ Len(t) = m /\ \A i \in 1 .. m : t[i] = x[i]
        BY <1>1, <3>1, <4>1
      <4>3. PICK u : u = t \o <<NL>>
        OBVIOUS
      <4>4. NL \in Tokens
        BY DEF Tokens
      <4>5. /\ u \in Seq(Tokens) /\ Len(u) = m + 1 /\ u[m + 1] = NL
            /\ \A i \in 1 .. m : u[i] = x[i]
        BY <1>1, <4>2, <4>3, <4>4
      <4>6. \A i \in 1 .. (m + 1) : left[i] = u[i]
        <5> SUFFICES ASSUME NEW i \in 1 .. (m + 1) PROVE left[i] = u[i]
          OBVIOUS
        <5>1. i \in 1 .. m \/ i = m + 1
          BY <1>1, <3>1
        <5> QED
          BY <3>1, <3>8, <4>5, <5>1
      <4>7. left = u
        BY <3>8, <4>5, <4>6, SeqEqual
      <4> QED
        BY <3>1, <4>1, <4>3, <4>7
    <3> QED
      BY <2>2, <2>5, <3>5, <3>10, <3>11
  <2> QED
    BY <2>4, <2>5
<1> QED
  BY <1>3, <1>4

\* What Only keeps of a list when it drops the end.
LEMMA OnlyPrefix ==
    ASSUME NEW X, NEW s \in Seq(X), NEW t \in Seq(X), Len(t) <= Len(s),
           \A i \in 1 .. Len(t) : s[i] = t[i]
    PROVE  Only(s, 1 .. Len(t)) = t
<1> DEFINE S == 1 .. Len(t)
<1>1. Len(t) \in Nat /\ Len(s) \in Nat /\ DOMAIN t = S
  BY LenProperties
<1>2. Cardinality(S) = Len(t)
  <2>1. PICK n \in Nat : n = Len(t)
    BY <1>1
  <2>2. Cardinality(1 .. n) = n
    BY FS_Interval
  <2> QED
    BY <2>1, <2>2
<1>3. ASSUME NEW i \in S PROVE Cardinality({j \in S : j <= i}) = i
  <2>1. i \in Nat /\ {j \in S : j <= i} = 1 .. i
    BY <1>1
  <2>2. Cardinality(1 .. i) = i
    BY <2>1, FS_Interval
  <2> QED
    BY <2>1, <2>2
<1>4. ASSUME NEW k \in S
      PROVE  (CHOOSE i \in S : Cardinality({j \in S : j <= i}) = k) = k
  BY <1>3, <1>4
<1>5. Only(s, S) = [k \in S |-> s[CHOOSE i \in S : Cardinality({j \in S : j <= i}) = k]]
  BY <1>2 DEF Only
<1>6. Only(s, S) = [k \in S |-> t[k]]
  BY <1>4, <1>5
<1>7. t = [k \in S |-> t[k]]
  BY <1>1
<1> HIDE DEF S
<1> QED
  BY <1>6, <1>7 DEF S

\* A list without an entry of brick's, with one added.
LEMMA OneEntry ==
    ASSUME NEW e \in Seq(SUBSET Owned), \A i \in 1 .. Len(e) : ~HasBrick(e[i]), NEW v \in Builds
    PROVE  LET k == HookList(Append(e, {Brick(v)})) IN
           /\ k.form = "list" /\ BrickEntries(k) = {Len(e) + 1}
           /\ k.entries = Append(e, {Brick(v)}) /\ k.entries[Len(e) + 1] = {Brick(v)}
           /\ SettingsUninstall(k).new.entries = e
<1> DEFINE n == Len(e)
<1>1. PICK k : k = HookList(Append(e, {Brick(v)}))
  OBVIOUS
<1>2. PICK s : s = Append(e, {Brick(v)})
  OBVIOUS
<1>3. k.form = "list" /\ k.entries = s
  BY <1>1, <1>2 DEF HookList
<1>4. {Brick(v)} \in SUBSET Owned /\ HasBrick({Brick(v)})
  BY BrickEntry DEF HasBrick
<1>5. /\ n \in Nat /\ s \in Seq(SUBSET Owned) /\ Len(s) = n + 1 /\ DOMAIN s = 1 .. (n + 1)
      /\ s[n + 1] = {Brick(v)} /\ \A i \in 1 .. n : s[i] = e[i]
  <2>1. /\ s \in Seq(SUBSET Owned) /\ Len(s) = Len(e) + 1
        /\ s[Len(e) + 1] = {Brick(v)} /\ \A i \in 1 .. Len(e) : s[i] = e[i]
    <3>1. PICK b \in SUBSET Owned : b = {Brick(v)}
      BY <1>4
    <3>2. s = Append(e, b)
      BY <1>2, <3>1
    <3>3. /\ s \in Seq(SUBSET Owned) /\ Len(s) = Len(e) + 1
          /\ s[Len(e) + 1] = b /\ \A i \in 1 .. Len(e) : s[i] = e[i]
      BY <3>2, AppendProperties
    <3> QED
      BY <3>1, <3>3
  <2>2. Len(e) \in Nat /\ DOMAIN s = 1 .. Len(s)
    BY <2>1, LenProperties
  <2> QED
    BY <2>1, <2>2
<1> HIDE DEF n
<1>6. BrickEntries(k) = {n + 1}
  <2>1. BrickEntries(k) = {i \in 1 .. (n + 1) : HasBrick(s[i])}
    BY <1>3, <1>5 DEF BrickEntries
  <2>2. \A i \in 1 .. n : ~HasBrick(s[i])
    BY <1>5 DEF n
  <2>3. HasBrick(s[n + 1])
    BY <1>4, <1>5
  <2>4. \A i \in 1 .. (n + 1) : i \in 1 .. n \/ i = n + 1
    BY <1>5
  <2>5. n + 1 \in 1 .. (n + 1)
    BY <1>5
  <2> QED
    BY <2>1, <2>2, <2>3, <2>4, <2>5
<1>7. ForeignEntries(k) = 1 .. n
  BY <1>3, <1>5, <1>6 DEF ForeignEntries
<1>8. Only(k.entries, ForeignEntries(k)) = e
  <2>1. Len(e) <= Len(s) /\ \A i \in 1 .. Len(e) : s[i] = e[i]
    BY <1>5 DEF n
  <2>2. Only(s, 1 .. Len(e)) = e
    BY <1>5, <2>1, OnlyPrefix
  <2> QED
    BY <1>3, <1>7, <2>2 DEF n
<1>9. PruneEmpty(e).entries = e
  BY DEF PruneEmpty, NoHooks, HookList
<1>10. SettingsUninstall(k).new = PruneEmpty(Only(k.entries, ForeignEntries(k)))
  BY <1>3, <1>6 DEF SettingsUninstall, To
<1>11. SettingsUninstall(k).new.entries = e
  BY <1>8, <1>9, <1>10
<1> QED
  BY <1>1, <1>2, <1>3, <1>5, <1>6, <1>11 DEF n

LEMMA NoBrickEntries ==
    ASSUME NEW h \in HookLists, BrickEntries(h) = {}
    PROVE  \A i \in 1 .. Len(h.entries) : ~HasBrick(h.entries[i])
BY HooksOf DEF BrickEntries

LEMMA SettingsExact ==
    ASSUME NEW h \in HookLists, NEW v \in Builds, h.form # "other"
    PROVE  LET k == SettingsInstall(h, v, FALSE).new IN
           /\ SettingsInstall(k, v, FALSE).says = "unchanged"
           /\ BrickEntries(h) = {} => SettingsUninstall(k).new.entries = h.entries
<1>1. BrickEntries(h) \in SUBSET Nat /\ BrickEntries(h) \in SUBSET (1 .. Len(h.entries))
  BY HooksOf
<1>2. ASSUME NEW g, g.form # "other", BrickEntries(g) # {},
             g.entries[Min(BrickEntries(g))] = {Brick(v)}
      PROVE  SettingsInstall(g, v, FALSE).says = "unchanged"
  <2>1. BrickEntries(g) = {i \in DOMAIN g.entries : HasBrick(g.entries[i])}
    BY DEF BrickEntries
  <2>2. UpsertEntry(g.entries, v, FALSE).says = "unchanged"
    BY <1>2, <2>1 DEF UpsertEntry, To
  <2> QED
    BY <1>2, <2>2 DEF SettingsInstall, To
<1>3. CASE BrickEntries(h) = {}
  <2>1. PICK k : k = HookList(Append(h.entries, {Brick(v)}))
    OBVIOUS
  <2>2. SettingsInstall(h, v, FALSE).new = k
    BY <1>3, <2>1 DEF SettingsInstall, UpsertEntry, To, BrickEntries
  <2>3. h.entries \in Seq(SUBSET Owned) /\ \A i \in 1 .. Len(h.entries) : ~HasBrick(h.entries[i])
        /\ Len(h.entries) \in Nat
    BY <1>3, HooksOf, NoBrickEntries
  <2>4. /\ k.form = "list" /\ BrickEntries(k) = {Len(h.entries) + 1}
        /\ k.entries[Len(h.entries) + 1] = {Brick(v)}
        /\ SettingsUninstall(k).new.entries = h.entries
    BY <2>1, <2>3, OneEntry
  <2>5. Min(BrickEntries(k)) = Len(h.entries) + 1
    <3>1. BrickEntries(k) \in SUBSET Nat /\ BrickEntries(k) # {}
      BY <2>3, <2>4
    <3>2. Min(BrickEntries(k)) \in BrickEntries(k)
      BY <3>1, FirstPlace
    <3> QED
      BY <2>4, <3>2
  <2>6. SettingsInstall(k, v, FALSE).says = "unchanged"
    BY <1>2, <2>4, <2>5
  <2> QED
    BY <2>2, <2>4, <2>6
<1>4. CASE BrickEntries(h) # {}
  <2>1. PICK m : m = Min(BrickEntries(h))
    OBVIOUS
  <2>2. m \in BrickEntries(h) /\ m \in 1 .. Len(h.entries)
    BY <1>1, <1>4, <2>1, FirstPlace
  <2>3. CASE h.entries[m] = {Brick(v)}
    <3>1. SettingsInstall(h, v, FALSE).says = "unchanged"
      BY <1>2, <1>4, <2>1, <2>3
    <3>2. SettingsInstall(h, v, FALSE).says = "unchanged" => SettingsInstall(h, v, FALSE).new = h
      BY DEF SettingsInstall, To
    <3> QED
      BY <1>4, <3>1, <3>2
  <2>4. CASE h.entries[m] # {Brick(v)}
    <3>1. PICK s : s = [h.entries EXCEPT ![m] = {Brick(v)}]
      OBVIOUS
    <3>2. PICK k : k = HookList(s)
      OBVIOUS
    <3>3. SettingsInstall(h, v, FALSE).new = k
      <4> DEFINE brick == {i \in DOMAIN h.entries : HasBrick(h.entries[i])}
      <4>1. brick = BrickEntries(h)
        BY DEF BrickEntries
      <4> HIDE DEF brick
      <4>2. /\ brick # {} /\ h.entries[Min(brick)] # {Brick(v)}
            /\ s = [h.entries EXCEPT ![Min(brick)] = {Brick(v)}]
        BY <1>4, <2>1, <2>4, <3>1, <4>1
      <4>3. UpsertEntry(h.entries, v, FALSE).says = "updated"
            /\ UpsertEntry(h.entries, v, FALSE).new = s
        BY <4>2 DEF UpsertEntry, To, brick
      <4> QED
        BY <3>2, <4>3 DEF SettingsInstall, To
    <3>4. k.form = "list" /\ k.entries = s
      BY <3>2 DEF HookList
    <3>5. h.entries \in Seq(SUBSET Owned) /\ {Brick(v)} \in SUBSET Owned /\ HasBrick({Brick(v)})
      BY HooksOf, BrickEntry DEF HasBrick
    <3>6. /\ DOMAIN s = DOMAIN h.entries /\ s[m] = {Brick(v)}
          /\ \A i \in DOMAIN h.entries : i # m => s[i] = h.entries[i]
      BY <2>2, <3>1, HooksOf
    <3>7. BrickEntries(k) = BrickEntries(h)
      BY <2>2, <3>4, <3>5, <3>6 DEF BrickEntries
    <3>8. SettingsInstall(k, v, FALSE).says = "unchanged"
      BY <1>2, <1>4, <2>1, <3>4, <3>6, <3>7
    <3> QED
      BY <1>4, <3>3, <3>8
  <2> QED
    BY <2>3, <2>4
<1> QED
  BY <1>3, <1>4

\* What is left of a list, and what an install makes of one, are lists brick expects.
LEMMA NotOther ==
    ASSUME NEW h, NEW v, NEW force, NEW otherIs
    PROVE  /\ h.form # "other" => /\ SettingsUninstall(h).new.form # "other"
                                  /\ SettingsInstall(h, v, force).new.form # "other"
           /\ NativeInstall(h, v, force, otherIs).says # "error" =>
                NativeInstall(h, v, force, otherIs).new.form # "other"
<1>1. h.form # "other" => SettingsUninstall(h).new.form # "other"
  BY DEF SettingsUninstall, To, PruneEmpty, NoHooks, HookList
<1>2. h.form # "other" => SettingsInstall(h, v, force).new.form # "other"
  BY DEF SettingsInstall, To, HookList
<1>3. NativeInstall(h, v, force, otherIs).says # "error" =>
         NativeInstall(h, v, force, otherIs).new.form # "other"
  BY DEF NativeInstall, To, HookList
<1> QED
  BY <1>1, <1>2, <1>3

LEMMA NativeExact ==
    ASSUME NEW h \in HookLists, NEW v \in Builds, NEW otherIs,
           NativeInstall(h, v, FALSE, otherIs).says # "error"
    PROVE  LET k == NativeInstall(h, v, FALSE, otherIs).new IN
           /\ NativeInstall(k, v, FALSE, otherIs).says = "unchanged"
           /\ BrickEntries(h) = {} /\ h.form # "other"
                => SettingsUninstall(k).new.entries = h.entries
<1>1. PICK e : e = IF h.form = "list" THEN Only(h.entries, ForeignEntries(h)) ELSE <<>>
  OBVIOUS
<1>2. PICK k : k = HookList(Append(e, {Brick(v)}))
  OBVIOUS
<1>3. CASE NativeInstall(h, v, FALSE, otherIs).says = "unchanged"
  <2>1. NativeInstall(h, v, FALSE, otherIs).new = h /\ BrickEntries(h) # {}
    BY <1>3 DEF NativeInstall, To
  <2> QED
    BY <1>3, <2>1
<1>4. CASE NativeInstall(h, v, FALSE, otherIs).says # "unchanged"
  <2>1. NativeInstall(h, v, FALSE, otherIs).new = k
    BY <1>1, <1>2, <1>4 DEF NativeInstall, To
  <2>2. e \in Seq(SUBSET Owned) /\ Len(e) \in Nat
    <3>1. h.entries \in Seq(SUBSET Owned) /\ ForeignEntries(h) \in SUBSET DOMAIN h.entries
      BY HooksOf
    <3>2. Only(h.entries, ForeignEntries(h)) \in Seq(SUBSET Owned)
      BY <3>1, OnlyKeeps
    <3>3. e \in Seq(SUBSET Owned)
      BY <1>1, <3>2
    <3> QED
      BY <3>3, LenProperties
  <2>3. PICK s : s = Append(e, {Brick(v)})
    OBVIOUS
  <2>4. k.form = "list" /\ k.entries = s
    BY <1>2, <2>3 DEF HookList
  <2>5. Len(e) + 1 \in DOMAIN s /\ s[Len(e) + 1] = {Brick(v)}
    <3>1. {Brick(v)} \in SUBSET Owned
      BY BrickEntry
    <3>2. s \in Seq(SUBSET Owned) /\ Len(s) = Len(e) + 1 /\ s[Len(e) + 1] = {Brick(v)}
      <4>1. PICK b \in SUBSET Owned : b = {Brick(v)}
        BY <3>1
      <4>2. s = Append(e, b)
        BY <2>3, <4>1
      <4>3. s \in Seq(SUBSET Owned) /\ Len(s) = Len(e) + 1 /\ s[Len(e) + 1] = b
        BY <2>2, <4>2, AppendProperties, Zenon
      <4> QED
        BY <4>1, <4>3
    <3>3. DOMAIN s = 1 .. Len(s)
      BY <3>2, LenProperties
    <3> QED
      BY <2>2, <3>2, <3>3
  <2>6. BrickEntries(k) # {} /\ NativeMatches(k, v)
    BY <2>4, <2>5, BrickEntry DEF BrickEntries, HasBrick, NativeMatches
  <2>7. NativeInstall(k, v, FALSE, otherIs).says = "unchanged"
    BY <2>4, <2>6 DEF NativeInstall, To
  <2>8. ASSUME BrickEntries(h) = {}, h.form # "other"
        PROVE  SettingsUninstall(k).new.entries = h.entries
    <3>1. /\ h.entries \in Seq(SUBSET Owned) /\ \A i \in 1 .. Len(h.entries) : ~HasBrick(h.entries[i])
          /\ Len(h.entries) \in Nat
      BY <2>8, HooksOf, NoBrickEntries
    <3>2. e = h.entries
      <4>1. CASE h.form = "list"
        <5>1. ForeignEntries(h) = 1 .. Len(h.entries)
          BY <2>8, HooksOf
        <5>2. Only(h.entries, 1 .. Len(h.entries)) = h.entries
          BY <3>1, OnlyPrefix
        <5> QED
          BY <1>1, <4>1, <5>1, <5>2
      <4>2. CASE h.form = "none"
        BY <1>1, <4>2, HooksOf
      <4> QED
        BY <2>8, <4>1, <4>2, HooksOf
    <3> QED
      BY <1>2, <3>1, <3>2, OneEntry
  <2> QED
    BY <2>1, <2>7, <2>8
<1> QED
  BY <1>3, <1>4

LEMMA ServersExact ==
    ASSUME NEW s \in ServerTables, NEW v \in Builds
    PROVE  /\ s.form # "other" =>
                LET k == JsonInstall(s, v, FALSE).new IN
                /\ JsonInstall(k, v, FALSE).says = "unchanged"
                /\ BrickServers(s) = {} => JsonUninstall(k).new.names = s.names
           /\ LET k == TomlInstall(s, v, FALSE).new IN
              /\ TomlInstall(k, v, FALSE).says = "unchanged"
              /\ BrickServers(s) = {} /\ s.form # "other" => TomlUninstall(k).new.names = s.names
<1>1. IsBrick(Brick(v))
  BY BrickEntry
<1>2. ASSUME NEW t \in ServerTables
      PROVE  /\ WithServer(t, v).form = "table" /\ BrickServers(WithServer(t, v)) = {Brick(v)}
             /\ BrickServers(t) = {} => WithServer(t, v).names \ {Brick(v)} = t.names
  BY <1>1 DEF WithServer, BrickServers
<1>3. ASSUME NEW k, k.form # "other", BrickServers(k) = {Brick(v)}
      PROVE  /\ JsonInstall(k, v, FALSE).says = "unchanged" /\ JsonInstall(k, v, FALSE).new = k
             /\ TomlInstall(k, v, FALSE) = JsonInstall(k, v, FALSE)
  BY <1>3 DEF JsonInstall, TomlInstall, To
<1>4. ASSUME NEW t \in ServerTables, BrickServers(t) = {}
      PROVE  LET k == WithServer(t, v) IN
             JsonUninstall(k).new.names = t.names /\ TomlUninstall(k).new.names = t.names
  <2>1. PICK k : k = WithServer(t, v)
    OBVIOUS
  <2>2. k.form = "table" /\ BrickServers(k) = {Brick(v)} /\ k.names \ {Brick(v)} = t.names
    BY <1>2, <1>4, <2>1
  <2>3. JsonUninstall(k) = To([k EXCEPT !.names = @ \ BrickServers(k)], "removed")
    BY <2>2 DEF JsonUninstall
  <2>4. JsonUninstall(k).new.names = t.names /\ JsonUninstall(k).says = "removed"
    BY <2>1, <2>2, <2>3 DEF To, WithServer
  <2>5. TomlUninstall(k).new.names = t.names
    BY <2>4 DEF TomlUninstall, To, NoServers
  <2> QED
    BY <2>1, <2>4, <2>5
<1>5. NoServers \in ServerTables
  BY DEF NoServers, ServerTables
<1>6. CASE s.form = "other"
  <2>1. TomlInstall(s, v, FALSE).new = WithServer(NoServers, v)
    BY <1>6 DEF TomlInstall, To
  <2>2. PICK k : k = WithServer(NoServers, v)
    OBVIOUS
  <2>3. k.form # "other" /\ BrickServers(k) = {Brick(v)}
    BY <1>2, <1>5, <2>2
  <2>4. TomlInstall(k, v, FALSE).says = "unchanged"
    BY <1>3, <2>3
  <2> QED
    BY <1>6, <2>1, <2>2, <2>4
<1>7. CASE s.form # "other" /\ BrickServers(s) = {Brick(v)}
  BY <1>3, <1>7
<1>8. CASE s.form # "other" /\ BrickServers(s) # {Brick(v)}
  <2>1. /\ JsonInstall(s, v, FALSE).new = WithServer(s, v)
        /\ TomlInstall(s, v, FALSE).new = WithServer(s, v)
    BY <1>8 DEF JsonInstall, TomlInstall, To
  <2>2. PICK k : k = WithServer(s, v)
    OBVIOUS
  <2>3. k.form # "other" /\ BrickServers(k) = {Brick(v)}
    BY <1>2, <2>2
  <2>4. JsonInstall(k, v, FALSE).says = "unchanged" /\ TomlInstall(k, v, FALSE).says = "unchanged"
    BY <1>3, <2>3
  <2>5. BrickServers(s) = {} => JsonUninstall(k).new.names = s.names
                                 /\ TomlUninstall(k).new.names = s.names
    BY <1>4, <2>2
  <2> QED
    BY <2>1, <2>2, <2>4, <2>5
<1> QED
  BY <1>6, <1>7, <1>8

\* What is left of a table, and what an install makes of one, is no other form.
LEMMA TableForms ==
    ASSUME NEW s \in ServerTables, NEW v
    PROVE  /\ s.form # "other" => JsonUninstall(JsonInstall(s, v, FALSE).new).new.form # "other"
           /\ TomlUninstall(TomlInstall(s, v, FALSE).new).new.form # "other"
<1>1. ASSUME NEW k \in ServerTables, k.form # "other"
      PROVE  JsonUninstall(k).new.form # "other" /\ TomlUninstall(k).new.form # "other"
  <2>1. JsonUninstall(k).new.form # "other"
    BY <1>1 DEF JsonUninstall, To, ServerTables
  <2> QED
    BY <2>1 DEF TomlUninstall, To, NoServers
<1>2. ASSUME NEW t \in ServerTables
      PROVE  JsonUninstall(WithServer(t, v)).new.form # "other" /\ TomlUninstall(WithServer(t, v)).new.form # "other"
  <2>1. PICK k : k = WithServer(t, v)
    OBVIOUS
  <2>2. k = [form |-> "table", names |-> k.names]
    BY <2>1 DEF WithServer
  <2>3. JsonUninstall(k).new.form # "other"
    BY <2>2 DEF JsonUninstall, To
  <2>4. TomlUninstall(k).new.form # "other"
    BY <2>3 DEF TomlUninstall, To, NoServers
  <2> QED
    BY <2>1, <2>3, <2>4
<1>3. NoServers \in ServerTables
  BY DEF NoServers, ServerTables
<1>4. CASE s.form = "other"
  <2>1. TomlInstall(s, v, FALSE).new = WithServer(NoServers, v)
    BY <1>4 DEF TomlInstall, To
  <2> QED
    BY <1>2, <1>3, <1>4, <2>1
<1>5. CASE s.form # "other"
  <2>1. /\ TomlInstall(s, v, FALSE) = JsonInstall(s, v, FALSE)
        /\ JsonInstall(s, v, FALSE).new = s \/ JsonInstall(s, v, FALSE).new = WithServer(s, v)
    BY <1>5 DEF TomlInstall, JsonInstall, To
  <2> QED
    BY <1>1, <1>2, <1>5, <2>1
<1> QED
  BY <1>4, <1>5

\* Windsurf's two lists.
LEMMA WindsurfExact ==
    ASSUME NEW x, x.pre \in HookLists, x.post \in HookLists, x = [pre |-> x.pre, post |-> x.post],
           NEW v \in Builds, WindsurfInstall(x, v, FALSE).says # "error"
    PROVE  LET k == WindsurfInstall(x, v, FALSE).new
               y == WindsurfUninstall(k).new
           IN  /\ WindsurfInstall(k, v, FALSE).says = "unchanged"
               /\ BrickEntries(x.pre) = {} /\ BrickEntries(x.post) = {}
                     => SameList(x.pre, y.pre) /\ SameList(x.post, y.post)
<1>1. PICK change : change = NativeInstall(x.pre, v, FALSE, "error")
  OBVIOUS
<1>2. PICK g : g = change.new
  OBVIOUS
<1>3. PICK k : k = WindsurfInstall(x, v, FALSE).new
  OBVIOUS
<1>4. k = [pre |-> g, post |-> x.post] /\ change.says # "error"
  BY <1>1, <1>2, <1>3 DEF WindsurfInstall, To
<1>5. /\ NativeInstall(g, v, FALSE, "error").says = "unchanged"
      /\ BrickEntries(x.pre) = {} /\ x.pre.form # "other" => SettingsUninstall(g).new.entries = x.pre.entries
  BY <1>1, <1>2, <1>4, NativeExact
<1>6. WindsurfInstall(k, v, FALSE).says = "unchanged"
  BY <1>4, <1>5 DEF WindsurfInstall, To
<1>7. g.form = "list" /\ BrickEntries(g) # {}
  BY <1>5 DEF NativeInstall, To
<1>8. ASSUME BrickEntries(x.pre) = {}, BrickEntries(x.post) = {}
      PROVE  LET y == WindsurfUninstall(k).new IN SameList(x.pre, y.pre) /\ SameList(x.post, y.post)
  <2>1. WindsurfUninstall(k).new = [pre |-> LeftIn(g), post |-> LeftIn(x.post)]
    BY <1>4, <1>7 DEF WindsurfUninstall, ListBricks, To
  <2>2. x.pre.form # "other"
    BY <1>1, <1>4, <1>8 DEF NativeInstall, To
  <2>3. LeftIn(g) = SettingsUninstall(g).new
    BY <1>7 DEF LeftIn, SettingsUninstall, To
  <2>4. LeftIn(g).entries = x.pre.entries /\ LeftIn(g).form # "other"
    BY <1>5, <1>7, <1>8, <2>2, <2>3, NotOther
  <2>5. SameList(x.post, LeftIn(x.post))
    <3>1. CASE x.post.form = "list"
      <4>1. /\ x.post.entries \in Seq(SUBSET Owned) /\ Len(x.post.entries) \in Nat
            /\ ForeignEntries(x.post) = 1 .. Len(x.post.entries)
        BY <1>8, HooksOf
      <4>2. Only(x.post.entries, 1 .. Len(x.post.entries)) = x.post.entries
        BY <4>1, OnlyPrefix
      <4>3. LeftIn(x.post) = PruneEmpty(x.post.entries)
        BY <3>1, <4>1, <4>2 DEF LeftIn
      <4> QED
        BY <3>1, <4>3 DEF SameList, PruneEmpty, NoHooks, HookList
    <3>2. CASE x.post.form # "list"
      BY <3>2 DEF LeftIn, SameList
    <3> QED
      BY <3>1, <3>2
  <2> QED
    BY <2>1, <2>2, <2>4, <2>5 DEF SameList
<1> QED
  BY <1>3, <1>6, <1>8

LEMMA SkillExact ==
    ASSUME NEW s \in Owned \cup {Nothing}, NEW v \in Builds
    PROVE  LET k == SkillInstall(s, v, FALSE).new IN
           /\ SkillInstall(k, v, FALSE).says = "unchanged"
           /\ SkillUninstall(k).new = Nothing
<1>1. Brick(v) # Nothing
  BY BrickEntry, InstallAssumption DEF InstallAssumption
<1> QED
  BY <1>1 DEF SkillInstall, SkillUninstall, Classify, To

\* Brick's commands in a list, each with its place.
LEMMA CommandsAt ==
    ASSUME NEW h
    PROVE  /\ \A i \in BrickEntries(h) : \A c \in h.entries[i] :
                IsBrick(c) => <<i, c>> \in BrickCommands(h)
           /\ BrickCommands(h) = {} <=> BrickEntries(h) = {}
<1> DEFINE Of(j) == {<<j, d>> : d \in {b \in h.entries[j] : IsBrick(b)}}
<1>1. BrickCommands(h) = UNION {Of(j) : j \in BrickEntries(h)}
  BY DEF BrickCommands
<1>2. ASSUME NEW i \in BrickEntries(h), NEW c \in h.entries[i], IsBrick(c)
      PROVE  <<i, c>> \in BrickCommands(h)
  <2>1. <<i, c>> \in Of(i)
    BY <1>2
  <2> HIDE DEF Of
  <2> QED
    BY <1>1, <2>1
<1>3. ASSUME NEW i \in BrickEntries(h) PROVE BrickCommands(h) # {}
  <2>1. PICK c \in h.entries[i] : IsBrick(c)
    BY DEF BrickEntries, HasBrick
  <2> QED
    BY <1>2, <2>1
<1>4. BrickEntries(h) = {} => BrickCommands(h) = {}
  <2> HIDE DEF Of
  <2> QED
    BY <1>1
<1> QED
  BY <1>2, <1>3, <1>4

\* What a step finds of brick's is nothing where its part of the file has nothing.
LEMMA NoBrickParts ==
    ASSUME NEW step, NEW x, BrickParts(step, x) = {}
    PROVE  /\ step = "memory" => \A i \in DOMAIN x : ~IsBrick(x[i])
           /\ step \in {"settings", "codex_hooks"} => BrickEntries(x) = {}
           /\ step = "windsurf" => BrickEntries(x.pre) = {} /\ BrickEntries(x.post) = {}
           /\ step \in {"mcp", "codex_mcp"} => BrickServers(x) = {}
<1>1. ASSUME step = "memory", NEW i \in DOMAIN x, IsBrick(x[i]) PROVE FALSE
  <2>1. <<i, x[i]>> \in BrickParts(step, x)
    BY <1>1 DEF BrickParts
  <2> QED
    BY <2>1
<1>2. CASE step \in {"settings", "codex_hooks"}
  <2>1. BrickCommands(x) = {}
    BY <1>2 DEF BrickParts
  <2> QED
    BY <1>2, <2>1, CommandsAt
<1>4. CASE step = "windsurf"
  <2>1. /\ BrickCommands(x.pre) = {}
        /\ {<<-p[1], p[2]>> : p \in BrickCommands(x.post)} = {}
    BY <1>4 DEF BrickParts
  <2>2. BrickCommands(x.post) = {}
    BY <2>1
  <2> QED
    BY <1>4, <2>1, <2>2, CommandsAt
<1>3. ASSUME step \in {"mcp", "codex_mcp"}, NEW n \in BrickServers(x) PROVE FALSE
  <2>1. <<0, n>> \in BrickParts(step, x)
    BY <1>3 DEF BrickParts
  <2> QED
    BY <2>1
<1> QED
  BY <1>1, <1>2, <1>3, <1>4

\* The last property, of one step and one part of a file.
LEMMA StepExact ==
    ASSUME NEW step \in StepNames, NEW z \in Contents(FileOf(step)), NEW v \in Builds
    PROVE  LET x == Part(step, z)
               once == InstallStep(step, x, v, FALSE)
               back == UninstallStep(step, once.new).new
           IN  \/ once.says = "error"
               \/ step = "memory" /\ Stray(x)
               \/ /\ InstallStep(step, once.new, v, FALSE).says = "unchanged"
                  /\ BrickParts(step, x) = {} => (GivenBack(step, x, back) <=> ~Lost(step, x))
<1>x. PICK x : x = Part(step, z)
  OBVIOUS
<1>o. PICK once : once = InstallStep(step, x, v, FALSE)
  OBVIOUS
<1>b. PICK back : back = UninstallStep(step, once.new).new
  OBVIOUS
<1> SUFFICES
       \/ once.says = "error"
       \/ step = "memory" /\ Stray(x)
       \/ /\ InstallStep(step, once.new, v, FALSE).says = "unchanged"
          /\ BrickParts(step, x) = {} => (GivenBack(step, x, back) <=> ~Lost(step, x))
  BY <1>x, <1>o, <1>b, Zenon
<1>1. CASE step = "memory"
  <2>1. x \in Seq(Tokens) /\ DOMAIN x = 1 .. Len(x)
    <3>1. x \in Seq(Tokens)
      BY <1>1, <1>x DEF Part, FileOf, Contents, Tokens
    <3> QED
      BY <3>1, LenProperties
  <2>2. /\ once = MemoryInstall(x, v, FALSE) /\ back = MemoryUninstall(once.new).new
        /\ InstallStep(step, once.new, v, FALSE) = MemoryInstall(once.new, v, FALSE)
    BY <1>1, <1>o, <1>b DEF InstallStep, UninstallStep
  <2>3. ~Stray(x) =>
          /\ MemoryInstall(once.new, v, FALSE).says = "unchanged"
          /\ BrickParts(step, x) = {} => back = IF IsBlank(x) THEN <<>> ELSE TrimEnd(x) \o <<NL>>
    BY <1>1, <2>1, <2>2, MemoryExact, NoBrickParts
  <2> QED
    BY <1>1, <2>2, <2>3 DEF GivenBack, Lost
<1>2. CASE step = "settings"
  <2>1. x \in HookLists
    BY <1>2, <1>x DEF Part, FileOf, Contents
  <2>2. /\ once = SettingsInstall(x, v, FALSE) /\ back = SettingsUninstall(once.new).new
        /\ InstallStep(step, once.new, v, FALSE) = SettingsInstall(once.new, v, FALSE)
    BY <1>2, <1>o, <1>b DEF InstallStep, UninstallStep
  <2>3. x.form = "other" => once.says = "error"
    BY <2>2 DEF SettingsInstall, To
  <2>4. x.form # "other" =>
          /\ SettingsInstall(once.new, v, FALSE).says = "unchanged"
          /\ BrickParts(step, x) = {} => back.entries = x.entries
    BY <1>2, <2>1, <2>2, SettingsExact, NoBrickParts
  <2>5. x.form # "other" => back.form # "other"
    BY <2>2, NotOther
  <2> QED
    BY <1>2, <2>2, <2>3, <2>4, <2>5 DEF GivenBack, SameList, Lost
<1>3. CASE step = "windsurf"
  <2>1. x \in [pre : CommandLists, post : CommandLists]
    BY <1>3, <1>x DEF Part, FileOf, Contents
  <2>2. x.pre \in HookLists /\ x.post \in HookLists /\ x = [pre |-> x.pre, post |-> x.post]
    BY <2>1, CommandsOf
  <2>3. /\ once = WindsurfInstall(x, v, FALSE) /\ back = WindsurfUninstall(once.new).new
        /\ InstallStep(step, once.new, v, FALSE) = WindsurfInstall(once.new, v, FALSE)
    BY <1>3, <1>o, <1>b DEF InstallStep, UninstallStep
  <2>4. once.says # "error" =>
          /\ WindsurfInstall(once.new, v, FALSE).says = "unchanged"
          /\ BrickParts(step, x) = {} => SameList(x.pre, back.pre) /\ SameList(x.post, back.post)
    BY <1>3, <2>2, <2>3, WindsurfExact, NoBrickParts
  <2> QED
    BY <1>3, <2>3, <2>4 DEF GivenBack, Lost
<1>4. CASE step = "codex_hooks"
  <2>1. x \in HookLists
    BY <1>4, <1>x DEF Part, FileOf, Contents
  <2>2. /\ once = NativeInstall(x, v, FALSE, "replaced") /\ back = SettingsUninstall(once.new).new
        /\ InstallStep(step, once.new, v, FALSE) = NativeInstall(once.new, v, FALSE, "replaced")
    BY <1>4, <1>o, <1>b DEF InstallStep, UninstallStep, CodexInstall, CodexUninstall
  <2>3. once.says # "error" =>
          /\ NativeInstall(once.new, v, FALSE, "replaced").says = "unchanged"
          /\ BrickParts(step, x) = {} => back.entries = x.entries \/ x.form = "other"
    <3>1. once.says # "error" =>
            /\ NativeInstall(once.new, v, FALSE, "replaced").says = "unchanged"
            /\ BrickEntries(x) = {} /\ x.form # "other" => back.entries = x.entries
      BY <2>1, <2>2, NativeExact
    <3>2. BrickParts(step, x) = {} => BrickEntries(x) = {}
      BY <1>4, NoBrickParts
    <3> QED
      BY <3>1, <3>2
  <2>4. once.says # "error" => back.form # "other"
    BY <2>2, NotOther
  <2> QED
    BY <1>4, <2>2, <2>3, <2>4 DEF GivenBack, SameList, Lost
<1>5. CASE step = "mcp"
  <2>1. x \in ServerTables
    BY <1>5, <1>x DEF Part, FileOf, Contents
  <2>2. /\ once = JsonInstall(x, v, FALSE) /\ back = JsonUninstall(once.new).new
        /\ InstallStep(step, once.new, v, FALSE) = JsonInstall(once.new, v, FALSE)
    BY <1>5, <1>o, <1>b DEF InstallStep, UninstallStep
  <2>3. x.form = "other" => once.says = "error"
    BY <2>2 DEF JsonInstall, To
  <2>4. x.form # "other" =>
          /\ JsonInstall(once.new, v, FALSE).says = "unchanged"
          /\ BrickParts(step, x) = {} => back.names = x.names
    BY <1>5, <2>1, <2>2, ServersExact, NoBrickParts
  <2>5. x.form # "other" => back.form # "other"
    BY <2>1, <2>2, TableForms
  <2> QED
    BY <1>5, <2>2, <2>3, <2>4, <2>5 DEF GivenBack, Lost
<1>6. CASE step = "codex_mcp"
  <2>1. x \in ServerTables
    BY <1>6, <1>x DEF Part, FileOf, Contents
  <2>2. /\ once = TomlInstall(x, v, FALSE) /\ back = TomlUninstall(once.new).new
        /\ InstallStep(step, once.new, v, FALSE) = TomlInstall(once.new, v, FALSE)
    BY <1>6, <1>o, <1>b DEF InstallStep, UninstallStep
  <2>3. /\ TomlInstall(once.new, v, FALSE).says = "unchanged"
        /\ BrickParts(step, x) = {} => back.names = x.names \/ x.form = "other"
    BY <1>6, <2>1, <2>2, ServersExact, NoBrickParts
  <2>4. back.form # "other"
    BY <2>1, <2>2, TableForms
  <2> QED
    BY <1>6, <2>2, <2>3, <2>4 DEF GivenBack, Lost
<1>7. CASE step = "skill"
  <2>1. x \in Owned \cup {Nothing}
    BY <1>7, <1>x DEF Part, FileOf, Contents
  <2>2. /\ once = SkillInstall(x, v, FALSE) /\ back = SkillUninstall(once.new).new
        /\ InstallStep(step, once.new, v, FALSE) = SkillInstall(once.new, v, FALSE)
    BY <1>7, <1>o, <1>b DEF InstallStep, UninstallStep
  <2>3. SkillInstall(once.new, v, FALSE).says = "unchanged" /\ back = Nothing
    BY <2>1, <2>2, SkillExact
  <2> QED
    BY <1>7, <2>2, <2>3 DEF GivenBack, Lost
<1> QED
  BY <1>1, <1>2, <1>3, <1>4, <1>5, <1>6, <1>7 DEF StepNames

\* Whatever the files hold a second install finds nothing to do; and where brick had
\* nothing, installing and uninstalling gives a part back exactly when it is not one of
\* those Lost names: a skill of the user's own, and hooks or servers that config.toml
\* holds in another form ("install is idempotent and uninstall is exact",
\* claude_hook.rs, and the same of agent.rs, native_hook.rs, mcp_config.rs, skill.rs).
THEOREM Exactness == Spec => []InstallIsExact
<1>1. InstallInv => InstallIsExact
  <2> SUFFICES ASSUME InstallInv, NEW i \in DOMAIN StepsOf(target), NEW v \in Builds
               PROVE  InstallIsExact!(i, v)
    BY DEF InstallIsExact
  <2>1. StepsOf(target)[i] \in StepNames
    BY StepsTyped, LenProperties DEF InstallInv
  <2>2. file[FileOf(StepsOf(target)[i])] \in Contents(FileOf(StepsOf(target)[i]))
    BY <2>1 DEF InstallInv, FilesInv, FileOf, Files, StepNames
  <2> QED
    BY <2>1, <2>2, StepExact
<1> QED
  BY <1>1, InstallInvariance, PTL

-----------------------------------------------------------------------------
(***************************************************************************)
(* What is reported.  Brick writes its part over the first one it finds,   *)
(* so that a report is only true because there is never a second: a file   *)
(* is tidy when it holds at most one complete block, or one entry with one *)
(* command, or one server of brick's.  Of Windsurf's lists this is so of   *)
(* the one brick writes; to another the user may have moved any number.    *)
(***************************************************************************)
TidyText(x) ==
    \A i \in DOMAIN x : x[i] = End =>
        /\ i - 1 \in DOMAIN x /\ IsBrick(x[i - 1])
        /\ \A j \in DOMAIN x : (x[j] = End => j = i) /\ (IsBrick(x[j]) => j < i)

TidyHooks(h) ==
    /\ \A i, j \in BrickEntries(h) : i = j
    /\ \A i \in DOMAIN h.entries : \A c, d \in h.entries[i] : IsBrick(c) /\ IsBrick(d) => c = d
    /\ h.form # "list" => BrickEntries(h) = {}

TidyServers(s) ==
    /\ \A a, b \in BrickServers(s) : a = b
    /\ s.form # "table" => BrickServers(s) = {}

ListsOnly(h) == h.form # "list" => BrickEntries(h) = {}

Tidy(f, x) ==
    CASE f = "memory" -> TidyText(x)
      [] f = "settings" -> TidyHooks(x)
      [] f = "windsurf" -> TidyHooks(x.pre) /\ ListsOnly(x.post)
      [] f = "config" -> TidyHooks(x.hooks) /\ TidyServers(x.servers)
      [] f = "mcp" -> TidyServers(x)
      [] OTHER -> TRUE

\* What ReportsTrue asks of a report by op of build v about a part x.
Truth(op, v, step, says, x) ==
    LET parts == BrickParts(step, x)
        here == PartsHere(step, x)
        builds == {p[2] : p \in here}
    IN  \/ step = "memory" /\ Stray(x)
        \/ step = "skill" /\ x # Nothing /\ ~IsBrick(x)
        \/ says = "error" /\ "other" = IF step = "windsurf" THEN x.pre.form ELSE x.form
        \/ op = "install" /\ Cardinality(here) = 1 /\ builds = {Brick(v)}
        \/ says \in {"removed", "absent"} /\ parts = {}
        \/ /\ op = "status" /\ parts # {} /\ Cardinality(here) <= 1
           /\ \/ says = "present" /\ builds = {Brick(v)}
              \/ says \in {"stale", "updated"} /\ builds # {Brick(v)}
              \/ says = "present" /\ step = "settings"

\* One part of brick's where an install puts it, and none.
LEMMA OneHere ==
    ASSUME NEW op, NEW v, NEW step, NEW says, NEW x, NEW p, NEW c, PartsHere(step, x) = {<<p, c>>},
           \/ op = "install" /\ c = Brick(v)
           \/ op = "status" /\ says = "present" /\ (c = Brick(v) \/ step = "settings")
           \/ op = "status" /\ says \in {"stale", "updated"} /\ c # Brick(v)
    PROVE  Truth(op, v, step, says, x)
<1> DEFINE here == PartsHere(step, x)
           parts == BrickParts(step, x)
<1>1. Cardinality(here) = 1
  BY FS_Singleton
<1>2. {q[2] : q \in here} = {c}
  OBVIOUS
<1>3. parts # {}
  <2>1. step = "windsurf" => here \subseteq parts
    BY DEF PartsHere, BrickParts
  <2>2. step # "windsurf" => here = parts
    BY DEF PartsHere
  <2> QED
    BY <2>1, <2>2
<1> HIDE DEF here, parts
<1> QED
  BY <1>1, <1>2, <1>3 DEF Truth, here, parts

LEMMA OnePart ==
    ASSUME NEW op, NEW v, NEW step, NEW says, NEW x, NEW p, NEW c, BrickParts(step, x) = {<<p, c>>},
           step # "windsurf",
           \/ op = "install" /\ c = Brick(v)
           \/ op = "status" /\ says = "present" /\ (c = Brick(v) \/ step = "settings")
           \/ op = "status" /\ says \in {"stale", "updated"} /\ c # Brick(v)
    PROVE  Truth(op, v, step, says, x)
<1>1. PartsHere(step, x) = {<<p, c>>}
  BY DEF PartsHere
<1> QED
  BY <1>1, OneHere

LEMMA NoPart ==
    ASSUME NEW op, NEW v, NEW step, NEW says \in {"removed", "absent"}, NEW x, BrickParts(step, x) = {}
    PROVE  Truth(op, v, step, says, x)
BY DEF Truth

\* Memory files.
LEMMA TextParts ==
    ASSUME NEW x \in Seq(Tokens)
    PROVE  /\ (\A i \in 1 .. Len(x) : ~IsBrick(x[i])) => BrickParts("memory", x) = {}
           /\ TidyText(x) /\ ~Stray(x) =>
                \A p \in 1 .. Len(x) : IsBrick(x[p]) => BrickParts("memory", x) = {<<p, x[p]>>}
<1>1. Len(x) \in Nat /\ DOMAIN x = 1 .. Len(x)
  BY WordsOf
<1>2. BrickParts("memory", x) = {<<i, x[i]>> : i \in {j \in 1 .. Len(x) : IsBrick(x[j])}}
  BY <1>1 DEF BrickParts
<1>3. ASSUME TidyText(x), ~Stray(x), NEW p \in 1 .. Len(x), IsBrick(x[p]),
             NEW q \in 1 .. Len(x), IsBrick(x[q])
      PROVE  p = q
  <2>1. \A i \in 1 .. Len(x) : IsBrick(x[i]) => i < Len(x) /\ x[i + 1] = End
    BY <1>1, <1>3 DEF Stray
  <2>2. /\ p + 1 \in 1 .. Len(x) /\ x[p + 1] = End
        /\ q + 1 \in 1 .. Len(x) /\ x[q + 1] = End
    BY <1>1, <1>3, <2>1
  <2>3. p + 1 = q + 1
    BY <1>1, <1>3, <2>2 DEF TidyText
  <2> QED
    BY <1>1, <2>3
<1>4. ASSUME TidyText(x), ~Stray(x), NEW p \in 1 .. Len(x), IsBrick(x[p])
      PROVE  BrickParts("memory", x) = {<<p, x[p]>>}
  <2>1. {j \in 1 .. Len(x) : IsBrick(x[j])} = {p}
    BY <1>3, <1>4
  <2> QED
    BY <1>2, <2>1
<1> QED
  BY <1>2, <1>4

LEMMA Endless ==
    ASSUME NEW x, \A i \in DOMAIN x : x[i] # End
    PROVE  TidyText(x)
BY DEF TidyText

\* A tidy text without a block has no end marker.
LEMMA NoEnd ==
    ASSUME NEW x \in Seq(Tokens), TidyText(x), FindBlock(x) = <<>>
    PROVE  \A i \in 1 .. Len(x) : x[i] # End
<1> SUFFICES ASSUME NEW i \in 1 .. Len(x), x[i] = End PROVE FALSE
  OBVIOUS
<1>1. Len(x) \in Nat /\ DOMAIN x = 1 .. Len(x)
  BY WordsOf
<1> DEFINE starts == {j \in DOMAIN x : IsBrick(x[j])}
           ends == {j \in DOMAIN x : x[j] = End /\ j > Min(starts)}
<1>2. FindBlock(x) = IF starts = {} \/ ends = {} THEN <<>> ELSE <<Min(starts), Min(ends)>>
  BY DEF FindBlock
<1>3. i - 1 \in starts
  BY <1>1 DEF TidyText
<1>4. Min(starts) \in Nat /\ Min(starts) <= i - 1
  <2>1. starts \in SUBSET Nat
    BY <1>1
  <2> HIDE DEF starts
  <2> QED
    BY <1>3, <2>1, FirstPlace
<1>5. i \in ends
  <2> HIDE DEF starts
  <2> QED
    BY <1>1, <1>4
<1> HIDE DEF starts, ends
<1> QED
  BY <1>2, <1>3, <1>5

\* The block of a tidy text is all of brick's, but for stray start markers inside it.
LEMMA TidyBlock ==
    ASSUME NEW x \in Seq(Tokens), TidyText(x), FindBlock(x) # <<>>
    PROVE  \E m \in 1 .. Len(x), e \in 1 .. Len(x) :
             /\ FindBlock(x)[1] = m /\ FindBlock(x)[2] = e
             /\ m < e /\ IsBrick(x[m]) /\ x[e] = End
             /\ ~Stray(x) => e = m + 1
             /\ \A i \in 1 .. Len(x) : i < m \/ i > e => x[i] # End /\ ~IsBrick(x[i])
<1>1. PICK m \in 1 .. Len(x), e \in 1 .. Len(x) :
             /\ FindBlock(x)[1] = m /\ FindBlock(x)[2] = e
             /\ m < e /\ IsBrick(x[m]) /\ x[e] = End
             /\ \A i \in 1 .. (m - 1) : ~IsBrick(x[i])
             /\ ~Stray(x) => e = m + 1
  BY BlockFound
<1>2. Len(x) \in Nat /\ DOMAIN x = 1 .. Len(x)
  BY WordsOf
<1>3. \A j \in 1 .. Len(x) : (x[j] = End => j = e) /\ (IsBrick(x[j]) => j < e)
  BY <1>1, <1>2 DEF TidyText
<1>4. ASSUME NEW i \in 1 .. Len(x), i < m \/ i > e PROVE x[i] # End /\ ~IsBrick(x[i])
  <2>1. i # e /\ (i < m \/ ~ (i < e))
    BY <1>1, <1>2, <1>4
  <2>2. i < m => i \in 1 .. (m - 1)
    BY <1>1, <1>2
  <2> QED
    BY <1>1, <1>3, <2>1, <2>2
<1> QED
  BY <1>1, <1>4

\* A part of a text starts with its first token.
LEMMA SliceHead ==
    ASSUME NEW x \in Seq(Tokens), NEW m \in 1 .. Len(x), NEW e \in 1 .. Len(x), m < e, NEW v,
           SubSeq(x, m, e) = <<Brick(v), End>>
    PROVE  x[m] = Brick(v)
<1>1. Len(x) \in Nat
  BY WordsOf
<1>2. Head(SubSeq(x, m, e)) = x[m]
  <2>1. e \in m .. Len(x)
    BY <1>1
  <2> QED
    BY <2>1, HeadTailOfSubSeq
<1>3. PICK block : block = <<Brick(v), End>>
  OBVIOUS
<1>4. Head(block) = Brick(v)
  BY <1>3
<1> QED
  BY <1>2, <1>3, <1>4

LEMMA InstallReport ==
    ASSUME NEW x \in Seq(Tokens), TidyText(x), NEW v \in Builds, NEW force \in BOOLEAN
    PROVE  LET y == MemoryInstall(x, v, force).new IN
           TidyText(y) /\ \A says : Truth("install", v, "memory", says, y)
<1>1. Len(x) \in Nat /\ DOMAIN x = 1 .. Len(x) /\ \A i \in 1 .. Len(x) : x[i] \in Tokens
  BY WordsOf
<1>2. IsBrick(Brick(v)) /\ ~IsBrick(NL) /\ ~IsBrick(End) /\ NL # End /\ Brick(v) # End
  BY BrickEntry, InstallAssumption DEF IsBrick, InstallAssumption
<1>3. ASSUME NEW y \in Seq(Tokens), TidyText(y), NEW p \in 1 .. Len(y), y[p] = Brick(v), NEW says
      PROVE  Truth("install", v, "memory", says, y)
  <2>1. CASE Stray(y)
    BY <2>1 DEF Truth
  <2>2. CASE ~Stray(y)
    <3>1. BrickParts("memory", y) = {<<p, Brick(v)>>}
      BY <1>2, <1>3, <2>2, TextParts
    <3> QED
      BY <3>1, OnePart
  <2> QED
    BY <2>1, <2>2
<1>4. CASE FindBlock(x) = <<>>
  <2>1. PICK y : y = AppendBlock(x, <<Brick(v), End>>)
    OBVIOUS
  <2>2. MemoryInstall(x, v, force).new = y
    BY <1>4, <2>1 DEF MemoryInstall, To
  <2>3. \A i \in 1 .. Len(x) : x[i] # End
    BY <1>4, NoEnd
  <2>4. \E p \in 1 .. Len(y) :
           /\ y \in Seq(Tokens) /\ y[p] = Brick(v) /\ p + 1 \in 1 .. Len(y)
           /\ \A j \in 1 .. Len(y) : (y[j] = End => j = p + 1) /\ (IsBrick(y[j]) => j < p + 1)
    <3>1. CASE IsBlank(x)
      <4>1. y \in Seq(Tokens) /\ Len(y) = 3 /\ y[1] = Brick(v) /\ y[2] = End /\ y[3] = NL
        BY <2>1, <3>1, Appended
      <4>2. \A j \in 1 .. 3 : j = 1 \/ j = 2 \/ j = 3
        OBVIOUS
      <4>3. \A j \in 1 .. Len(y) : (y[j] = End => j = 1 + 1) /\ (IsBrick(y[j]) => j < 1 + 1)
        BY <1>2, <4>1, <4>2
      <4>4. 1 \in 1 .. Len(y) /\ 1 + 1 \in 1 .. Len(y)
        BY <4>1
      <4> QED
        BY <4>1, <4>3, <4>4
    <3>2. CASE ~IsBlank(x)
      <4>1. PICK m \in 1 .. Len(x) :
               /\ y \in Seq(Tokens) /\ Len(y) = m + 5
               /\ \A i \in 1 .. m : y[i] = x[i]
               /\ y[m + 1] = NL /\ y[m + 2] = NL
               /\ y[m + 3] = Brick(v) /\ y[m + 4] = End /\ y[m + 5] = NL
        BY <2>1, <3>2, Appended
      <4>2. PICK p \in Nat : p = m + 3
        BY <1>1
      <4>3. p \in 1 .. Len(y) /\ p + 1 \in 1 .. Len(y) /\ y[p] = Brick(v)
        BY <1>1, <4>1, <4>2
      <4>4. ASSUME NEW j \in 1 .. Len(y)
            PROVE  (y[j] = End => j = p + 1) /\ (IsBrick(y[j]) => j < p + 1)
        <5>1. j \in 1 .. m \/ j = m + 1 \/ j = m + 2 \/ j = m + 3 \/ j = m + 4 \/ j = m + 5
          <6>1. m \in Nat /\ j \in 1 .. m + 5
            BY <1>1, <4>1
          <6> QED
            BY <6>1
        <5>2. CASE j \in 1 .. m
          <6>1. y[j] = x[j] /\ j \in 1 .. Len(x) /\ j < p + 1
            BY <1>1, <4>1, <4>2, <5>2
          <6> QED
            BY <2>3, <6>1
        <5>3. CASE j = m + 1 \/ j = m + 2 \/ j = m + 5
          BY <1>2, <4>1, <5>3
        <5>4. CASE j = m + 3 \/ j = m + 4
          <6>1. m \in Nat
            BY <1>1
          <6> QED
            BY <1>2, <4>1, <4>2, <5>4, <6>1
        <5> QED
          BY <5>1, <5>2, <5>3, <5>4
      <4> QED
        BY <4>1, <4>3, <4>4
    <3> QED
      BY <3>1, <3>2
  <2>5. PICK p \in 1 .. Len(y) :
           /\ y \in Seq(Tokens) /\ y[p] = Brick(v) /\ p + 1 \in 1 .. Len(y)
           /\ \A j \in 1 .. Len(y) : (y[j] = End => j = p + 1) /\ (IsBrick(y[j]) => j < p + 1)
    BY <2>4
  <2>6. TidyText(y)
    <3>1. DOMAIN y = 1 .. Len(y) /\ Len(y) \in Nat
      BY <2>5, WordsOf
    <3>2. (p + 1) - 1 = p
      BY <2>5, <3>1
    <3> QED
      BY <1>2, <2>5, <3>1, <3>2 DEF TidyText
  <2> QED
    BY <1>3, <2>2, <2>5, <2>6
<1>5. CASE FindBlock(x) # <<>>
  <2>1. PICK m \in 1 .. Len(x), e \in 1 .. Len(x) :
             /\ FindBlock(x)[1] = m /\ FindBlock(x)[2] = e
             /\ m < e /\ IsBrick(x[m]) /\ x[e] = End
             /\ \A i \in 1 .. Len(x) : i < m \/ i > e => x[i] # End /\ ~IsBrick(x[i])
    BY <1>5, TidyBlock
  <2>2. PICK y : y = WithBlock(x, m, e, v)
    OBVIOUS
  <2>3. \/ MemoryInstall(x, v, force).new = y
        \/ MemoryInstall(x, v, force).new = x /\ SubSeq(x, m, e) = <<Brick(v), End>>
    BY <1>5, <2>1, <2>2 DEF MemoryInstall, To, WithBlock
  <2>4. /\ y \in Seq(Tokens) /\ m + 1 <= Len(y) /\ Len(y) \in Nat
        /\ \A i \in 1 .. (m - 1) : y[i] = x[i]
        /\ y[m] = Brick(v) /\ y[m + 1] = End
        /\ \A i \in (m + 2) .. Len(y) : \E k \in (e + 1) .. Len(x) : y[i] = x[k]
    <3>1. m < e
      BY <2>1
    <3> QED
      BY <2>2, <3>1, Replaced
  <2>5. ASSUME NEW j \in 1 .. Len(y)
        PROVE  (y[j] = End => j = m + 1) /\ (IsBrick(y[j]) => j < m + 1)
    <3>1. j \in 1 .. (m - 1) \/ j = m \/ j = m + 1 \/ j \in (m + 2) .. Len(y)
      BY <1>1, <2>4
    <3>2. CASE j \in 1 .. (m - 1)
      <4>1. y[j] = x[j] /\ j \in 1 .. Len(x) /\ j < m
        BY <1>1, <2>4, <3>2
      <4> QED
        BY <2>1, <4>1
    <3>3. CASE j \in (m + 2) .. Len(y)
      <4>1. PICK k \in (e + 1) .. Len(x) : y[j] = x[k]
        BY <2>4, <3>3
      <4>2. k \in 1 .. Len(x) /\ k > e
        BY <1>1, <4>1
      <4> QED
        BY <2>1, <4>1, <4>2
    <3>4. CASE j = m \/ j = m + 1
      <4>1. m \in Nat
        BY <1>1
      <4> QED
        BY <1>2, <2>4, <3>4, <4>1
    <3> QED
      BY <3>1, <3>2, <3>3, <3>4
  <2>6. TidyText(y)
    <3>1. DOMAIN y = 1 .. Len(y) /\ m \in 1 .. Len(y) /\ (m + 1) - 1 = m
      BY <1>1, <2>4, WordsOf
    <3> QED
      BY <1>2, <2>4, <2>5, <3>1 DEF TidyText
  <2>7. CASE MemoryInstall(x, v, force).new = y
    <3>1. m \in 1 .. Len(y)
      BY <1>1, <2>4
    <3> QED
      BY <1>3, <2>4, <2>6, <2>7, <3>1
  <2>8. CASE MemoryInstall(x, v, force).new = x /\ SubSeq(x, m, e) = <<Brick(v), End>>
    <3>5. x[m] = Brick(v)
      BY <2>1, <2>8, SliceHead
    <3> QED
      BY <1>3, <2>1, <2>8, <3>5
  <2> QED
    BY <2>3, <2>7, <2>8
<1> QED
  BY <1>4, <1>5

\* What holds of the tokens before and after a cut holds of what is left.
LEMMA PartsOf ==
    ASSUME NEW x \in Seq(Tokens), NEW a \in Nat, a <= Len(x),
           NEW b \in Nat, 1 <= b, b <= Len(x) + 1,
           \A i \in 1 .. a : x[i] # End /\ ~IsBrick(x[i]),
           \A i \in b .. Len(x) : x[i] # End /\ ~IsBrick(x[i])
    PROVE  LET left == SubSeq(x, 1, a) \o SubSeq(x, b, Len(x)) IN
           /\ left \in Seq(Tokens)
           /\ \A i \in 1 .. Len(left) : left[i] # End /\ ~IsBrick(left[i])
<1> DEFINE Plain == {t \in Tokens : t # End /\ ~IsBrick(t)}
<1>1. Len(x) \in Nat /\ \A i \in 1 .. Len(x) : x[i] \in Tokens
  BY WordsOf
<1>2. (\A i \in 1 .. a : x[i] \in Plain) /\ (\A i \in b .. Len(x) : x[i] \in Plain)
  BY <1>1
<1> HIDE DEF Plain
<1>3. SubSeq(x, 1, a) \in Seq(Plain) /\ SubSeq(x, b, Len(x)) \in Seq(Plain)
  BY <1>1, <1>2, SubSeqProperties
<1>4. PICK left \in Seq(Plain) : left = SubSeq(x, 1, a) \o SubSeq(x, b, Len(x))
  BY <1>3, ConcatProperties
<1>5. left \in [1 .. Len(left) -> Plain] /\ Len(left) \in Nat
  BY LenProperties
<1>6. \A i \in 1 .. Len(left) : left[i] \in Tokens /\ left[i] # End /\ ~IsBrick(left[i])
  BY <1>5 DEF Plain
<1>7. left \in Seq(Tokens)
  <2>1. left \in [1 .. Len(left) -> Tokens]
    BY <1>5, <1>6
  <2> QED
    BY <1>5, <2>1, SeqDef
<1> QED
  BY <1>4, <1>6, <1>7

LEMMA UninstallReport ==
    ASSUME NEW x \in Seq(Tokens), TidyText(x), NEW v
    PROVE  LET done == MemoryUninstall(x) IN
           /\ TidyText(done.new) /\ Truth("uninstall", v, "memory", done.says, done.new)
           /\ done.says \in {"removed", "absent"} /\ (done.says = "absent" => done.new = x)
<1>1. Len(x) \in Nat /\ DOMAIN x = 1 .. Len(x) /\ \A i \in 1 .. Len(x) : x[i] \in Tokens
  BY WordsOf
<1>2. CASE FindBlock(x) = <<>>
  <2>1. MemoryUninstall(x).new = x /\ MemoryUninstall(x).says = "absent"
    BY <1>2 DEF MemoryUninstall, To
  <2>2. CASE Stray(x)
    BY <2>1, <2>2 DEF Truth
  <2>3. CASE ~Stray(x)
    <3>1. BrickParts("memory", x) = {}
      BY <1>2, <2>3, Markerless, TextParts
    <3> QED
      BY <2>1, <3>1, NoPart
  <2> QED
    BY <2>1, <2>2, <2>3
<1>3. CASE FindBlock(x) # <<>>
  <2>1. PICK m \in 1 .. Len(x), e \in 1 .. Len(x) :
             /\ FindBlock(x)[1] = m /\ FindBlock(x)[2] = e
             /\ m < e /\ IsBrick(x[m]) /\ x[e] = End
             /\ \A i \in 1 .. Len(x) : i < m \/ i > e => x[i] # End /\ ~IsBrick(x[i])
    BY <1>3, TidyBlock
  <2> DEFINE blankBefore == m > 2 /\ x[m - 1] = NL /\ x[m - 2] = NL
             newlineAfter == e < Len(x) /\ x[e + 1] = NL
  <2>2. PICK a : a = m - (IF blankBefore THEN 2 ELSE 1)
    OBVIOUS
  <2>3. PICK b : b = e + (IF newlineAfter THEN 2 ELSE 1)
    OBVIOUS
  <2>4. PICK left : left = SubSeq(x, 1, a) \o SubSeq(x, b, Len(x))
    OBVIOUS
  <2>5. /\ MemoryUninstall(x).new = IF IsBlank(left) THEN <<>> ELSE left
        /\ MemoryUninstall(x).says = "removed"
    BY <1>3, <2>1, <2>2, <2>3, <2>4 DEF MemoryUninstall, To
  <2>6. /\ a \in Nat /\ a < m /\ a <= Len(x)
        /\ b \in Nat /\ e < b /\ b <= Len(x) + 1
    BY <1>1, <2>1, <2>2, <2>3
  <2>7. left \in Seq(Tokens) /\ \A i \in 1 .. Len(left) : left[i] # End /\ ~IsBrick(left[i])
    <3>1. \A i \in 1 .. a : x[i] # End /\ ~IsBrick(x[i])
      BY <1>1, <2>1, <2>6
    <3>2. \A i \in b .. Len(x) : x[i] # End /\ ~IsBrick(x[i])
      BY <1>1, <2>1, <2>6
    <3>3. 1 <= b
      BY <2>1, <2>6
    <3> QED
      BY <2>4, <2>6, <3>1, <3>2, <3>3, PartsOf
  <2>8. PICK y : y = MemoryUninstall(x).new
    OBVIOUS
  <2>9. y \in Seq(Tokens) /\ \A i \in 1 .. Len(y) : y[i] # End /\ ~IsBrick(y[i])
    <3>1. <<>> \in Seq(Tokens) /\ \A i \in 1 .. Len(<<>>) : FALSE
      OBVIOUS
    <3> QED
      BY <2>5, <2>7, <2>8, <3>1
  <2>10. TidyText(y)
    BY <2>9, WordsOf, Endless
  <2>11. BrickParts("memory", y) = {}
    BY <2>9, TextParts
  <2> QED
    BY <2>5, <2>8, <2>10, <2>11, NoPart
<1> QED
  BY <1>2, <1>3

LEMMA StatusReport ==
    ASSUME NEW x \in Seq(Tokens), TidyText(x), NEW v \in Builds
    PROVE  LET done == MemoryStatus(x, v) IN
           done.new = x /\ Truth("status", v, "memory", done.says, x)
<1>1. MemoryStatus(x, v).new = x
  BY DEF MemoryStatus, To
<1>2. CASE Stray(x)
  BY <1>1, <1>2 DEF Truth
<1>3. CASE ~Stray(x) /\ FindBlock(x) = <<>>
  <2>1. BrickParts("memory", x) = {}
    BY <1>3, Markerless, TextParts
  <2>2. MemoryStatus(x, v).says = "absent"
    BY <1>3 DEF MemoryStatus, To
  <2> QED
    BY <1>1, <2>1, <2>2, NoPart
<1>4. CASE ~Stray(x) /\ FindBlock(x) # <<>>
  <2>1. PICK m \in 1 .. Len(x), e \in 1 .. Len(x) :
             /\ FindBlock(x)[1] = m /\ FindBlock(x)[2] = e
             /\ m < e /\ IsBrick(x[m]) /\ x[e] = End /\ e = m + 1
    BY <1>4, TidyBlock
  <2>2. BrickParts("memory", x) = {<<m, x[m]>>}
    BY <1>4, <2>1, TextParts
  <2>3. CASE SubSeq(x, m, e) = <<Brick(v), End>>
    <3>1. x[m] = Brick(v)
      BY <2>1, <2>3, SliceHead
    <3>2. MemoryStatus(x, v).says = "present"
      BY <1>4, <2>1, <2>3 DEF MemoryStatus, To
    <3> QED
      BY <1>1, <2>2, <3>1, <3>2, OnePart
  <2>4. CASE SubSeq(x, m, e) # <<Brick(v), End>>
    <3>1. x[m] # Brick(v)
      <4>1. Len(x) \in Nat
        BY WordsOf
      <4>2. m \in 1 .. (Len(x) - 1)
        BY <2>1, <4>1
      <4> QED
        BY <2>1, <2>4, <4>2, BlockText
    <3>2. MemoryStatus(x, v).says = "stale"
      BY <1>4, <2>1, <2>4 DEF MemoryStatus, To
    <3> QED
      BY <1>1, <2>2, <3>1, <3>2, OnePart
  <2> QED
    BY <2>3, <2>4
<1> QED
  BY <1>2, <1>3, <1>4

\* Hook lists.
HookSteps == {"settings", "codex_hooks"}

LEMMA HookParts ==
    ASSUME NEW h, TidyHooks(h), NEW m \in BrickEntries(h), NEW c \in h.entries[m], IsBrick(c)
    PROVE  /\ BrickCommands(h) = {<<m, c>>}
           /\ \A step \in HookSteps : BrickParts(step, h) = {<<m, c>>}
<1> DEFINE Of(i) == {<<i, d>> : d \in {b \in h.entries[i] : IsBrick(b)}}
<1>1. BrickEntries(h) = {m}
  BY DEF TidyHooks
<1>2. {b \in h.entries[m] : IsBrick(b)} = {c}
  BY DEF TidyHooks, BrickEntries
<1>3. BrickCommands(h) = UNION {Of(i) : i \in BrickEntries(h)}
  BY DEF BrickCommands
<1>4. Of(m) = {<<m, c>>}
  BY <1>2
<1> HIDE DEF Of
<1>5. BrickCommands(h) = {<<m, c>>}
  BY <1>1, <1>3, <1>4
<1> QED
  BY <1>5 DEF BrickParts, HookSteps

LEMMA NoHookParts ==
    ASSUME NEW h, BrickEntries(h) = {}
    PROVE  TidyHooks(h) /\ \A step \in HookSteps : BrickParts(step, h) = {}
<1>1. BrickCommands(h) = {}
  BY CommandsAt
<1>2. TidyHooks(h)
  BY DEF TidyHooks, BrickEntries, HasBrick
<1> QED
  BY <1>1, <1>2 DEF BrickParts, HookSteps

\* A list whose one entry of brick's is brick's own.
LEMMA OwnEntry ==
    ASSUME NEW k, NEW m, k.form = "list", BrickEntries(k) = {m}, NEW v \in Builds,
           k.entries[m] = {Brick(v)}
    PROVE  /\ TidyHooks(k) /\ BrickCommands(k) = {<<m, Brick(v)>>}
           /\ \A step \in HookSteps : \A says : Truth("install", v, step, says, k)
<1>1. TidyHooks(k)
  <2>1. \A i \in DOMAIN k.entries : \A c \in k.entries[i] : IsBrick(c) => i = m
    BY DEF BrickEntries, HasBrick
  <2> QED
    BY <2>1 DEF TidyHooks
<1>2. /\ BrickCommands(k) = {<<m, Brick(v)>>}
      /\ \A step \in HookSteps : BrickParts(step, k) = {<<m, Brick(v)>>}
  <2>1. m \in BrickEntries(k) /\ Brick(v) \in k.entries[m] /\ IsBrick(Brick(v))
    BY BrickEntry
  <2> QED
    BY <1>1, <2>1, HookParts
<1>3. \A step \in HookSteps : \A says : Truth("install", v, step, says, k)
  BY <1>2, OnePart DEF HookSteps
<1> QED
  BY <1>1, <1>2, <1>3

\* The entries without the marker.
LEMMA Foreigners ==
    ASSUME NEW h \in HookLists
    PROVE  LET e == Only(h.entries, ForeignEntries(h)) IN
           e \in Seq(SUBSET Owned) /\ \A k \in 1 .. Len(e) : ~HasBrick(e[k])
<1> DEFINE S == ForeignEntries(h)
<1>1. /\ h.entries \in Seq(SUBSET Owned) /\ S \in SUBSET DOMAIN h.entries
      /\ \A i \in S : ~HasBrick(h.entries[i])
  BY HooksOf DEF ForeignEntries, BrickEntries
<1>2. PICK s \in Seq(SUBSET Owned) : s = h.entries
  BY <1>1
<1>3. PICK e : e = Only(s, S)
  OBVIOUS
<1> HIDE DEF S
<1>4. /\ e \in Seq(SUBSET Owned)
      /\ Cardinality(S) \in Nat /\ DOMAIN e = 1 .. Cardinality(S)
      /\ \E r \in [S -> 1 .. Cardinality(S)] :
           /\ \A k \in 1 .. Cardinality(S) : \E i \in S : r[i] = k
           /\ \A i \in S : e[r[i]] = s[i]
  <2>1. S \in SUBSET DOMAIN s
    BY <1>1, <1>2
  <2> QED
    BY <1>3, <2>1, OnlyKeeps
<1>5. DOMAIN e = 1 .. Len(e)
  BY <1>4, LenProperties
<1>6. ASSUME NEW k \in 1 .. Len(e) PROVE ~HasBrick(e[k])
  <2>1. PICK i \in S : e[k] = s[i]
    BY <1>4, <1>5
  <2> QED
    BY <1>1, <1>2, <2>1
<1> QED
  BY <1>2, <1>3, <1>4, <1>6 DEF S

LEMMA SettingsReport ==
    ASSUME NEW h \in HookLists, TidyHooks(h), NEW v \in Builds, NEW force \in BOOLEAN
    PROVE  LET done == SettingsInstall(h, v, force) IN
           /\ TidyHooks(done.new) /\ Truth("install", v, "settings", done.says, done.new)
           /\ done.says \notin {"installed", "updated"} => done.new = h
<1>1. BrickEntries(h) \in SUBSET Nat /\ BrickEntries(h) \in SUBSET (1 .. Len(h.entries))
  BY HooksOf
<1>2. CASE h.form = "other"
  <2>1. SettingsInstall(h, v, force).new = h /\ SettingsInstall(h, v, force).says = "error"
    BY <1>2 DEF SettingsInstall, To
  <2> QED
    BY <1>2, <2>1 DEF Truth
<1>3. CASE h.form # "other" /\ BrickEntries(h) = {}
  <2>1. PICK k : k = HookList(Append(h.entries, {Brick(v)}))
    OBVIOUS
  <2>2. SettingsInstall(h, v, force).new = k /\ SettingsInstall(h, v, force).says = "installed"
    BY <1>3, <2>1 DEF SettingsInstall, UpsertEntry, To, BrickEntries
  <2>3. h.entries \in Seq(SUBSET Owned) /\ \A i \in 1 .. Len(h.entries) : ~HasBrick(h.entries[i])
    BY <1>3, HooksOf, NoBrickEntries
  <2>4. /\ k.form = "list" /\ BrickEntries(k) = {Len(h.entries) + 1}
        /\ k.entries[Len(h.entries) + 1] = {Brick(v)}
    BY <2>1, <2>3, OneEntry
  <2> QED
    BY <2>2, <2>4, OwnEntry DEF HookSteps
<1>4. CASE h.form # "other" /\ BrickEntries(h) # {}
  <2>1. PICK m : m = Min(BrickEntries(h))
    OBVIOUS
  <2>2. m \in BrickEntries(h) /\ m \in 1 .. Len(h.entries) /\ BrickEntries(h) = {m}
    <3>1. m \in BrickEntries(h)
      BY <1>1, <1>4, <2>1, FirstPlace
    <3> QED
      BY <1>1, <3>1 DEF TidyHooks
  <2>3. h.form = "list"
    BY <1>4 DEF TidyHooks
  <2>4. PICK s : s = [h.entries EXCEPT ![m] = {Brick(v)}]
    OBVIOUS
  <2>5. PICK k : k = HookList(s)
    OBVIOUS
  <2>6. \/ /\ h.entries[m] = {Brick(v)}
           /\ SettingsInstall(h, v, force).new = h /\ SettingsInstall(h, v, force).says = "unchanged"
        \/ SettingsInstall(h, v, force).new = k /\ SettingsInstall(h, v, force).says = "updated"
    <3> DEFINE brick == {i \in DOMAIN h.entries : HasBrick(h.entries[i])}
    <3>1. brick = BrickEntries(h)
      BY DEF BrickEntries
    <3> HIDE DEF brick
    <3>2. brick # {} /\ Min(brick) = m /\ s = [h.entries EXCEPT ![Min(brick)] = {Brick(v)}]
      BY <1>4, <2>1, <2>4, <3>1
    <3>3. \/ /\ h.entries[m] = {Brick(v)}
             /\ UpsertEntry(h.entries, v, force).says = "unchanged"
          \/ /\ UpsertEntry(h.entries, v, force).says = "updated"
             /\ UpsertEntry(h.entries, v, force).new = s
      BY <3>2 DEF UpsertEntry, To, brick
    <3> QED
      BY <1>4, <2>5, <3>3 DEF SettingsInstall, To
  <2>7. k.form = "list" /\ k.entries = s
    BY <2>5 DEF HookList
  <2>8. /\ DOMAIN s = DOMAIN h.entries /\ s[m] = {Brick(v)}
        /\ \A i \in DOMAIN h.entries : i # m => s[i] = h.entries[i]
    BY <2>2, <2>4, HooksOf
  <2>9. BrickEntries(k) = {m}
    <3>1. HasBrick({Brick(v)})
      BY BrickEntry DEF HasBrick
    <3>2. BrickEntries(k) = BrickEntries(h)
      BY <2>2, <2>7, <2>8, <3>1 DEF BrickEntries
    <3> QED
      BY <2>2, <3>2
  <2>10. TidyHooks(k) /\ Truth("install", v, "settings", "updated", k)
    BY <2>7, <2>8, <2>9, OwnEntry DEF HookSteps
  <2>11. h.entries[m] = {Brick(v)} => Truth("install", v, "settings", "unchanged", h)
    BY <2>2, <2>3, OwnEntry DEF HookSteps
  <2> QED
    BY <2>6, <2>10, <2>11
<1> QED
  BY <1>2, <1>3, <1>4

LEMMA NoneLeft ==
    ASSUME NEW h \in HookLists
    PROVE  BrickEntries(PruneEmpty(Only(h.entries, ForeignEntries(h)))) = {}
<1>1. PICK e : e = Only(h.entries, ForeignEntries(h))
  OBVIOUS
<1>2. PICK y : y = PruneEmpty(e)
  OBVIOUS
<1>3. e \in Seq(SUBSET Owned) /\ \A k \in 1 .. Len(e) : ~HasBrick(e[k])
  BY <1>1, Foreigners
<1>4. y.entries = e
  BY <1>2 DEF PruneEmpty, NoHooks, HookList
<1>5. DOMAIN e = 1 .. Len(e)
  BY <1>3, LenProperties
<1> QED
  BY <1>1, <1>2, <1>3, <1>4, <1>5 DEF BrickEntries

LEMMA HooksRemovedReport ==
    ASSUME NEW h \in HookLists, TidyHooks(h), NEW step \in HookSteps, NEW v
    PROVE  LET done == SettingsUninstall(h) IN
           /\ TidyHooks(done.new) /\ Truth("uninstall", v, step, done.says, done.new)
           /\ done.says \in {"removed", "absent"} /\ (done.says = "absent" => done.new = h)
<1>1. CASE h.form # "list" \/ BrickEntries(h) = {}
  <2>1. SettingsUninstall(h).new = h /\ SettingsUninstall(h).says = "absent"
    BY <1>1 DEF SettingsUninstall, To
  <2>2. BrickEntries(h) = {}
    BY <1>1 DEF TidyHooks
  <2> QED
    BY <2>1, <2>2, NoHookParts, NoPart
<1>2. CASE ~ (h.form # "list" \/ BrickEntries(h) = {})
  <2>1. PICK y : y = PruneEmpty(Only(h.entries, ForeignEntries(h)))
    OBVIOUS
  <2>2. SettingsUninstall(h).new = y /\ SettingsUninstall(h).says = "removed"
    BY <1>2, <2>1 DEF SettingsUninstall, To
  <2>3. BrickEntries(y) = {}
    BY <2>1, NoneLeft
  <2> QED
    BY <2>2, <2>3, NoHookParts, NoPart
<1> QED
  BY <1>1, <1>2

\* What Codex's and Windsurf's install leaves in its list: one command, its own.
OneCommand(h, v) ==
    \E m : BrickCommands(h) = {<<m, Brick(v)>>}

\* What their install of a tidy list answers and leaves, and what their status tells of one.
NativeLeaves(h, done, v) ==
    /\ TidyHooks(done.new)
    /\ \/ h.form = "other" /\ done.new = h /\ done.says = "error"
       \/ OneCommand(done.new, v)
    /\ done.says \notin {"installed", "updated"} => done.new = h

NativeTells(h, done, v) ==
    /\ done.new = h
    /\ \/ BrickEntries(h) = {} /\ done.says = "absent"
       \/ \E m, c : /\ BrickCommands(h) = {<<m, c>>}
                    /\ \/ done.says = "present" /\ c = Brick(v)
                       \/ done.says = "updated" /\ c # Brick(v)

LEMMA NativeOne ==
    ASSUME NEW h \in HookLists, TidyHooks(h), NEW v \in Builds, NEW force \in BOOLEAN, NEW otherIs
    PROVE  NativeLeaves(h, NativeInstall(h, v, force, otherIs), v)
<1>3. PICK done : done = NativeInstall(h, v, force, otherIs)
  OBVIOUS
<1>1. PICK e : e = IF h.form = "list" THEN Only(h.entries, ForeignEntries(h)) ELSE <<>>
  OBVIOUS
<1>2. PICK k : k = HookList(Append(e, {Brick(v)}))
  OBVIOUS
<1>4. \/ BrickEntries(h) # {} /\ NativeMatches(h, v) /\ done.new = h /\ done.says = "unchanged"
      \/ h.form = "other" /\ done.new = h /\ done.says = "error"
      \/ done.new = k /\ done.says \in {"installed", "updated"}
  BY <1>1, <1>2, <1>3 DEF NativeInstall, To
<1>5. ASSUME BrickEntries(h) # {} /\ NativeMatches(h, v) /\ done.new = h /\ done.says = "unchanged"
      PROVE  NativeLeaves(h, done, v)
  <2>1. PICK m \in DOMAIN h.entries : Brick(v) \in h.entries[m]
    BY <1>5 DEF NativeMatches
  <2>2. m \in BrickEntries(h) /\ IsBrick(Brick(v))
    BY <2>1, BrickEntry DEF BrickEntries, HasBrick
  <2>3. BrickCommands(h) = {<<m, Brick(v)>>}
    BY <2>1, <2>2, HookParts
  <2> QED
    BY <1>5, <2>3 DEF OneCommand, NativeLeaves
<1>6. ASSUME h.form = "other" /\ done.new = h /\ done.says = "error"
      PROVE  NativeLeaves(h, done, v)
  BY <1>6 DEF NativeLeaves
<1>7. ASSUME done.new = k /\ done.says \in {"installed", "updated"}
      PROVE  NativeLeaves(h, done, v)
  <2>1. e \in Seq(SUBSET Owned) /\ \A i \in 1 .. Len(e) : ~HasBrick(e[i])
    <3>1. <<>> \in Seq(SUBSET Owned) /\ \A i \in 1 .. Len(<<>>) : FALSE
      OBVIOUS
    <3> QED
      BY <1>1, <3>1, Foreigners
  <2>2. k.form = "list" /\ BrickEntries(k) = {Len(e) + 1} /\ k.entries[Len(e) + 1] = {Brick(v)}
    BY <1>2, <2>1, OneEntry
  <2>3. TidyHooks(k) /\ BrickCommands(k) = {<<Len(e) + 1, Brick(v)>>}
    BY <2>2, OwnEntry
  <2> QED
    BY <1>7, <2>3 DEF OneCommand, NativeLeaves
<1>8. NativeLeaves(h, done, v)
  BY <1>4, <1>5, <1>6, <1>7
<1> QED
  BY <1>3, <1>8

LEMMA CodexReport ==
    ASSUME NEW h \in HookLists, TidyHooks(h), NEW v \in Builds, NEW force \in BOOLEAN
    PROVE  LET done == CodexInstall(h, v, force) IN
           /\ TidyHooks(done.new) /\ Truth("install", v, "codex_hooks", done.says, done.new)
           /\ done.says \notin {"installed", "updated"} => done.new = h
<1>1. PICK done : done = CodexInstall(h, v, force)
  OBVIOUS
<1>2. NativeLeaves(h, done, v)
  <2>1. NativeLeaves(h, NativeInstall(h, v, force, "replaced"), v)
    BY NativeOne, Zenon
  <2> QED
    BY <1>1, <2>1 DEF CodexInstall
<1>3. /\ TidyHooks(done.new)
      /\ \/ h.form = "other" /\ done.new = h /\ done.says = "error"
         \/ OneCommand(done.new, v)
      /\ done.says \notin {"installed", "updated"} => done.new = h
  BY <1>2 DEF NativeLeaves
<1>4. Truth("install", v, "codex_hooks", done.says, done.new)
  <2>1. CASE h.form = "other" /\ done.new = h /\ done.says = "error"
    BY <2>1 DEF Truth
  <2>2. CASE OneCommand(done.new, v)
    <3>1. PICK m : BrickCommands(done.new) = {<<m, Brick(v)>>}
      BY <2>2 DEF OneCommand
    <3>2. BrickParts("codex_hooks", done.new) = {<<m, Brick(v)>>}
      BY <3>1 DEF BrickParts
    <3> QED
      BY <3>2, OnePart
  <2> QED
    BY <1>3, <2>1, <2>2
<1> QED
  BY <1>1, <1>3, <1>4

\* What a status tells of a list.
LEMMA NativeStatusOne ==
    ASSUME NEW h, TidyHooks(h), NEW v \in Builds
    PROVE  NativeTells(h, NativeStatus(h, v), v)
<1>1. PICK done : done = NativeStatus(h, v)
  OBVIOUS
<1>2. ASSUME BrickEntries(h) = {} PROVE NativeTells(h, done, v)
  BY <1>1, <1>2 DEF NativeStatus, To, NativeTells
<1>3. ASSUME BrickEntries(h) # {} PROVE NativeTells(h, done, v)
  <2>1. h.form = "list"
    BY <1>3 DEF TidyHooks
  <2>2. PICK m \in BrickEntries(h) : TRUE
    BY <1>3
  <2>3. PICK c \in h.entries[m] : IsBrick(c)
    BY DEF BrickEntries, HasBrick
  <2>4. BrickCommands(h) = {<<m, c>>}
    BY <2>3, HookParts
  <2>5. NativeMatches(h, v) => c = Brick(v)
    <3>1. ASSUME NEW i \in DOMAIN h.entries, Brick(v) \in h.entries[i] PROVE c = Brick(v)
      <4>1. IsBrick(Brick(v)) /\ i \in BrickEntries(h)
        BY <3>1, BrickEntry DEF BrickEntries, HasBrick
      <4>2. i = m
        BY <4>1 DEF TidyHooks
      <4> QED
        BY <2>3, <3>1, <4>1, <4>2 DEF TidyHooks
    <3> QED
      BY <3>1 DEF NativeMatches
  <2>6. ~NativeMatches(h, v) => c # Brick(v)
    BY <2>3 DEF NativeMatches, BrickEntries
  <2>7. /\ done.new = h
        /\ \/ done.says = "present" /\ c = Brick(v)
           \/ done.says = "updated" /\ c # Brick(v)
    BY <1>1, <1>3, <2>1, <2>5, <2>6 DEF NativeStatus, To
  <2> QED
    BY <2>4, <2>7 DEF NativeTells
<1> QED
  BY <1>1, <1>2, <1>3

LEMMA HooksStatusReport ==
    ASSUME NEW h \in HookLists, TidyHooks(h), NEW v \in Builds, NEW step \in HookSteps
    PROVE  LET done == IF step = "settings" THEN SettingsStatus(h) ELSE NativeStatus(h, v) IN
           done.new = h /\ Truth("status", v, step, done.says, h)
<1>1. PICK done : done = IF step = "settings" THEN SettingsStatus(h) ELSE NativeStatus(h, v)
  OBVIOUS
<1>2. CASE BrickEntries(h) = {}
  <2>1. done.new = h /\ done.says = "absent"
    BY <1>1, <1>2 DEF SettingsStatus, NativeStatus, To
  <2> QED
    BY <1>1, <1>2, <2>1, NoHookParts, NoPart
<1>3. CASE BrickEntries(h) # {}
  <2>1. h.form = "list"
    BY <1>3 DEF TidyHooks
  <2>2. PICK m, c : /\ BrickCommands(h) = {<<m, c>>}
                    /\ \/ NativeStatus(h, v).says = "present" /\ c = Brick(v)
                       \/ NativeStatus(h, v).says = "updated" /\ c # Brick(v)
    BY <1>3, NativeStatusOne DEF NativeTells
  <2>3. BrickParts(step, h) = {<<m, c>>} /\ step # "windsurf"
    BY <2>2 DEF BrickParts, HookSteps
  <2>4. /\ done.new = h
        /\ \/ step = "settings" /\ done.says = "present"
           \/ done.says = "present" /\ c = Brick(v)
           \/ done.says = "updated" /\ c # Brick(v)
    BY <1>1, <1>3, <2>1, <2>2, NativeStatusOne DEF SettingsStatus, To, NativeTells
  <2> QED
    BY <1>1, <2>3, <2>4, OnePart
<1> QED
  BY <1>2, <1>3

\* Windsurf's two lists.
LEMMA WindsurfInstallReport ==
    ASSUME NEW x \in [pre : CommandLists, post : CommandLists], TidyHooks(x.pre), ListsOnly(x.post),
           NEW v \in Builds, NEW force \in BOOLEAN
    PROVE  LET done == WindsurfInstall(x, v, force) IN
           /\ TidyHooks(done.new.pre) /\ ListsOnly(done.new.post)
           /\ Truth("install", v, "windsurf", done.says, done.new)
           /\ done.says \notin {"installed", "updated"} => done.new = x
<1>1. PICK change : change = NativeInstall(x.pre, v, force, "error")
  OBVIOUS
<1>2. PICK done : done = WindsurfInstall(x, v, force)
  OBVIOUS
<1>3. /\ done.new = [pre |-> change.new, post |-> x.post] /\ x = [pre |-> x.pre, post |-> x.post]
      /\ done.says = change.says \/ (change.says = "installed" /\ done.says = "updated")
  BY <1>1, <1>2 DEF WindsurfInstall, To
<1>4. /\ TidyHooks(change.new)
      /\ \/ x.pre.form = "other" /\ change.new = x.pre /\ change.says = "error"
         \/ OneCommand(change.new, v)
      /\ change.says \notin {"installed", "updated"} => change.new = x.pre
  <2>1. x.pre \in HookLists
    BY CommandsOf
  <2>2. PICK h \in HookLists : h = x.pre
    BY <2>1
  <2>3. TidyHooks(h)
    BY <2>2
  <2>4. NativeLeaves(h, NativeInstall(h, v, force, "error"), v)
    BY <2>3, NativeOne, Zenon
  <2> QED
    BY <1>1, <2>2, <2>4 DEF NativeLeaves
<1>5. Truth("install", v, "windsurf", done.says, done.new)
  <2>1. CASE x.pre.form = "other" /\ change.new = x.pre /\ change.says = "error"
    BY <1>3, <2>1 DEF Truth
  <2>2. CASE OneCommand(change.new, v)
    <3>1. PICK m : BrickCommands(change.new) = {<<m, Brick(v)>>}
      BY <2>2 DEF OneCommand
    <3>2. PartsHere("windsurf", done.new) = {<<m, Brick(v)>>}
      BY <1>3, <3>1 DEF PartsHere
    <3> QED
      BY <3>2, OneHere
  <2> QED
    BY <1>4, <2>1, <2>2
<1> QED
  BY <1>2, <1>3, <1>4, <1>5

LEMMA WindsurfRemovedReport ==
    ASSUME NEW x \in [pre : CommandLists, post : CommandLists], TidyHooks(x.pre), ListsOnly(x.post),
           NEW v
    PROVE  LET done == WindsurfUninstall(x) IN
           /\ TidyHooks(done.new.pre) /\ ListsOnly(done.new.post)
           /\ Truth("uninstall", v, "windsurf", done.says, done.new)
           /\ done.says \in {"removed", "absent"} /\ (done.says = "absent" => done.new = x)
<1>1. PICK done : done = WindsurfUninstall(x)
  OBVIOUS
<1>2. x.pre \in HookLists /\ x.post \in HookLists
  BY CommandsOf
<1>3. ASSUME NEW h \in HookLists, ListsOnly(h)
      PROVE  BrickEntries(LeftIn(h)) = {} /\ (ListBricks(h) = {} => BrickEntries(h) = {})
  BY <1>3, NoneLeft DEF LeftIn, ListsOnly, ListBricks
<1>4. ListsOnly(x.pre)
  BY DEF TidyHooks, ListsOnly
<1>5. /\ BrickEntries(done.new.pre) = {} /\ BrickEntries(done.new.post) = {}
      /\ done.says \in {"removed", "absent"} /\ (done.says = "absent" => done.new = x)
  BY <1>1, <1>2, <1>3, <1>4 DEF WindsurfUninstall, To
<1>6. BrickParts("windsurf", done.new) = {}
  <2>1. BrickCommands(done.new.pre) = {} /\ BrickCommands(done.new.post) = {}
    BY <1>5, CommandsAt
  <2> QED
    BY <2>1 DEF BrickParts
<1>7. TidyHooks(done.new.pre) /\ ListsOnly(done.new.post)
  BY <1>5, NoHookParts DEF ListsOnly
<1> QED
  BY <1>1, <1>5, <1>6, <1>7, NoPart

LEMMA WindsurfStatusReport ==
    ASSUME NEW x, TidyHooks(x.pre), ListsOnly(x.post), NEW v \in Builds
    PROVE  LET done == WindsurfStatus(x, v) IN
           done.new = x /\ Truth("status", v, "windsurf", done.says, x)
<1>1. PICK here : here = NativeStatus(x.pre, v)
  OBVIOUS
<1>2. PICK done : done = WindsurfStatus(x, v)
  OBVIOUS
<1>3. /\ done.new = x
      /\ done.says = IF here.says = "absent" /\ ListBricks(x.post) # {} THEN "updated" ELSE here.says
  BY <1>1, <1>2 DEF WindsurfStatus, To
<1>4. CASE BrickEntries(x.pre) = {} /\ here.says = "absent"
  <2>1. BrickCommands(x.pre) = {}
    BY <1>4, CommandsAt
  <2>2. CASE ListBricks(x.post) = {}
    <3>1. BrickEntries(x.post) = {}
      BY <2>2 DEF ListBricks, ListsOnly
    <3>2. BrickCommands(x.post) = {}
      BY <3>1, CommandsAt
    <3>3. BrickParts("windsurf", x) = {} /\ done.says = "absent"
      BY <1>3, <1>4, <2>1, <2>2, <3>2 DEF BrickParts
    <3> QED
      BY <1>2, <1>3, <3>3, NoPart
  <2>3. CASE ListBricks(x.post) # {}
    <3>1. BrickEntries(x.post) # {}
      BY <2>3 DEF ListBricks
    <3>2. PICK p \in BrickCommands(x.post) : TRUE
      BY <3>1, CommandsAt
    <3>3. BrickParts("windsurf", x) # {}
      BY <3>2 DEF BrickParts
    <3>4. PartsHere("windsurf", x) = {} /\ Cardinality(PartsHere("windsurf", x)) <= 1
      <4>1. PartsHere("windsurf", x) = {}
        BY <2>1 DEF PartsHere
      <4>2. Cardinality({}) = 0
        BY FS_EmptySet
      <4> QED
        BY <4>1, <4>2
    <3>5. {p2[2] : p2 \in PartsHere("windsurf", x)} # {Brick(v)}
      BY <3>4
    <3>6. done.says = "updated"
      BY <1>3, <1>4, <2>3
    <3> QED
      BY <1>2, <1>3, <3>3, <3>4, <3>5, <3>6 DEF Truth
  <2> QED
    BY <2>2, <2>3
<1>5. CASE \E m, c : /\ BrickCommands(x.pre) = {<<m, c>>}
                     /\ \/ here.says = "present" /\ c = Brick(v)
                        \/ here.says = "updated" /\ c # Brick(v)
  <2>1. PICK m, c : /\ BrickCommands(x.pre) = {<<m, c>>}
                    /\ \/ here.says = "present" /\ c = Brick(v)
                       \/ here.says = "updated" /\ c # Brick(v)
    BY <1>5
  <2>2. PartsHere("windsurf", x) = {<<m, c>>} /\ done.says = here.says
    BY <1>3, <2>1 DEF PartsHere
  <2> QED
    BY <1>2, <1>3, <2>1, <2>2, OneHere
<1>6. \/ BrickEntries(x.pre) = {} /\ here.says = "absent"
      \/ \E m, c : /\ BrickCommands(x.pre) = {<<m, c>>}
                   /\ \/ here.says = "present" /\ c = Brick(v)
                      \/ here.says = "updated" /\ c # Brick(v)
  <2>1. PICK h : h = x.pre
    OBVIOUS
  <2>2. TidyHooks(h)
    BY <2>1
  <2>3. NativeTells(h, NativeStatus(h, v), v)
    BY <2>2, NativeStatusOne, Zenon
  <2>4. NativeTells(h, here, v)
    BY <1>1, <2>1, <2>3
  <2>5. \/ BrickEntries(h) = {} /\ here.says = "absent"
        \/ \E m, c : /\ BrickCommands(h) = {<<m, c>>}
                     /\ \/ here.says = "present" /\ c = Brick(v)
                        \/ here.says = "updated" /\ c # Brick(v)
    BY <2>4 DEF NativeTells
  <2>6. BrickEntries(h) = BrickEntries(x.pre) /\ BrickCommands(h) = BrickCommands(x.pre)
    BY <2>1
  <2> QED
    BY <2>5, <2>6
<1> QED
  BY <1>4, <1>5, <1>6

\* Server tables and the skill.
ServerSteps == {"mcp", "codex_mcp"}

LEMMA ServerParts ==
    ASSUME NEW s, TidyServers(s), NEW step \in ServerSteps
    PROVE  /\ BrickServers(s) = {} => BrickParts(step, s) = {}
           /\ \A n \in BrickServers(s) : BrickServers(s) = {n} /\ BrickParts(step, s) = {<<0, n>>}
<1>1. BrickParts(step, s) = {<<0, n>> : n \in BrickServers(s)}
  BY DEF BrickParts, ServerSteps
<1>2. ASSUME NEW n \in BrickServers(s) PROVE BrickServers(s) = {n}
  BY DEF TidyServers
<1> QED
  BY <1>1, <1>2

\* A table whose one server of brick's is the build's own.
LEMMA OwnServer ==
    ASSUME NEW k, k.form = "table", NEW v, BrickServers(k) = {Brick(v)}, NEW step \in ServerSteps
    PROVE  TidyServers(k) /\ \A says : Truth("install", v, step, says, k)
<1>1. TidyServers(k)
  BY DEF TidyServers
<1>2. BrickParts(step, k) = {<<0, Brick(v)>>}
  BY <1>1, ServerParts
<1> QED
  BY <1>1, <1>2, OnePart DEF ServerSteps

LEMMA ServersReport ==
    ASSUME NEW s \in ServerTables, TidyServers(s), NEW v \in Builds, NEW force \in BOOLEAN,
           NEW step \in ServerSteps
    PROVE  LET done == IF step = "mcp" THEN JsonInstall(s, v, force) ELSE TomlInstall(s, v, force) IN
           /\ TidyServers(done.new) /\ Truth("install", v, step, done.says, done.new)
           /\ done.says \notin {"installed", "updated"} => done.new = s
<1>1. PICK done : done = IF step = "mcp" THEN JsonInstall(s, v, force) ELSE TomlInstall(s, v, force)
  OBVIOUS
<1>2. IsBrick(Brick(v))
  BY BrickEntry
<1>3. ASSUME NEW t
      PROVE  WithServer(t, v).form = "table" /\ BrickServers(WithServer(t, v)) = {Brick(v)}
  BY <1>2 DEF WithServer, BrickServers
<1>4. \/ s.form = "other" /\ done.new = s /\ done.says = "error"
      \/ BrickServers(s) = {Brick(v)} /\ done.new = s /\ done.says = "unchanged"
      \/ \E t : done.new = WithServer(t, v) /\ done.says \in {"installed", "updated"}
  BY <1>1 DEF JsonInstall, TomlInstall, To
<1>5. CASE s.form = "other" /\ done.new = s /\ done.says = "error"
  BY <1>1, <1>5 DEF Truth, ServerSteps
<1>6. CASE BrickServers(s) = {Brick(v)} /\ done.new = s /\ done.says = "unchanged"
  <2>1. s.form = "table"
    BY <1>6 DEF TidyServers
  <2> QED
    BY <1>1, <1>6, <2>1, OwnServer
<1>7. CASE \E t : done.new = WithServer(t, v) /\ done.says \in {"installed", "updated"}
  <2>1. PICK k : k = done.new
    OBVIOUS
  <2>2. k.form = "table" /\ BrickServers(k) = {Brick(v)}
    BY <1>3, <1>7, <2>1
  <2> QED
    BY <1>1, <1>7, <2>1, <2>2, OwnServer
<1> QED
  BY <1>4, <1>5, <1>6, <1>7

LEMMA ServersRemovedReport ==
    ASSUME NEW s \in ServerTables, TidyServers(s), NEW step \in ServerSteps, NEW v
    PROVE  LET done == IF step = "mcp" THEN JsonUninstall(s) ELSE TomlUninstall(s) IN
           /\ TidyServers(done.new) /\ Truth("uninstall", v, step, done.says, done.new)
           /\ done.says \in {"removed", "absent"} /\ (done.says = "absent" => done.new = s)
<1>1. PICK done : done = IF step = "mcp" THEN JsonUninstall(s) ELSE TomlUninstall(s)
  OBVIOUS
<1>2. PICK t : t = [s EXCEPT !.names = @ \ BrickServers(s)]
  OBVIOUS
<1>3. \/ s.form # "table" /\ done.new = s /\ done.says = "absent"
      \/ BrickServers(s) = {} /\ done.new = s /\ done.says = "absent"
      \/ done.new \in {t, NoServers} /\ done.says = "removed"
  <2>1. \/ (s.form # "table" \/ BrickServers(s) = {}) /\ JsonUninstall(s) = To(s, "absent")
        \/ JsonUninstall(s) = To(t, "removed")
    BY <1>2 DEF JsonUninstall
  <2>2. \/ TomlUninstall(s) = JsonUninstall(s)
        \/ JsonUninstall(s).says = "removed" /\ TomlUninstall(s) = To(NoServers, "removed")
    BY DEF TomlUninstall
  <2> QED
    BY <1>1, <2>1, <2>2 DEF To
<1>4. BrickServers(t) = {} /\ BrickServers(NoServers) = {}
  BY <1>2 DEF BrickServers, ServerTables, NoServers
<1>5. BrickServers(done.new) = {}
  BY <1>3, <1>4 DEF TidyServers
<1>6. TidyServers(done.new)
  BY <1>5 DEF TidyServers
<1>7. BrickParts(step, done.new) = {}
  BY <1>5, <1>6, ServerParts
<1> QED
  BY <1>1, <1>3, <1>6, <1>7, NoPart

LEMMA ServersStatusReport ==
    ASSUME NEW s \in ServerTables, TidyServers(s), NEW v \in Builds, NEW step \in ServerSteps
    PROVE  LET done == ServersStatus(s, v) IN
           done.new = s /\ Truth("status", v, step, done.says, s)
<1>1. PICK done : done = ServersStatus(s, v)
  OBVIOUS
<1>2. CASE BrickServers(s) = {}
  <2>1. done.new = s /\ done.says = "absent"
    BY <1>1, <1>2 DEF ServersStatus, To
  <2> QED
    BY <1>1, <1>2, <2>1, ServerParts, NoPart
<1>3. CASE BrickServers(s) # {}
  <2>1. PICK n \in BrickServers(s) : BrickServers(s) = {n} /\ BrickParts(step, s) = {<<0, n>>}
    BY <1>3, ServerParts
  <2>2. s.form = "table"
    BY <1>3 DEF TidyServers
  <2>3. /\ done.new = s
        /\ \/ done.says = "present" /\ n = Brick(v)
           \/ done.says = "updated" /\ n # Brick(v)
    BY <1>1, <1>3, <2>1, <2>2 DEF ServersStatus, To
  <2> QED
    BY <1>1, <2>1, <2>3, OnePart DEF ServerSteps
<1> QED
  BY <1>2, <1>3

LEMMA SkillReport ==
    ASSUME NEW s \in Owned \cup {Nothing}, NEW v \in Builds, NEW force \in BOOLEAN
    PROVE  LET done == SkillInstall(s, v, force) IN
           /\ Truth("install", v, "skill", done.says, done.new)
           /\ done.says \notin {"installed", "updated"} => done.new = s
<1>1. Brick(v) # Nothing /\ IsBrick(Brick(v))
  BY BrickEntry, InstallAssumption DEF InstallAssumption
<1>2. BrickParts("skill", Brick(v)) = {<<0, Brick(v)>>}
  BY <1>1 DEF BrickParts
<1>3. \A says : Truth("install", v, "skill", says, Brick(v))
  BY <1>2, OnePart
<1>4. PICK done : done = SkillInstall(s, v, force)
  OBVIOUS
<1>5. \/ done.new = Brick(v) /\ done.says \in {"installed", "updated"}
      \/ done.new = s /\ done.says = "unchanged" /\ s # Nothing /\ (~IsBrick(s) \/ s = Brick(v))
  BY <1>4 DEF SkillInstall, Classify, To
<1>6. s # Nothing /\ ~IsBrick(s) => \A says : Truth("install", v, "skill", says, s)
  BY DEF Truth
<1> QED
  BY <1>3, <1>4, <1>5, <1>6

LEMMA SkillRemovedReport ==
    ASSUME NEW s \in Owned \cup {Nothing}, NEW v
    PROVE  LET done == SkillUninstall(s) IN
           /\ Truth("uninstall", v, "skill", done.says, done.new)
           /\ done.says \in {"removed", "absent"} /\ (done.says = "absent" => done.new = s)
<1>1. BrickParts("skill", Nothing) = {}
  BY DEF BrickParts
<1>2. SkillUninstall(s).new = Nothing /\ SkillUninstall(s).says \in {"removed", "absent"}
      /\ (SkillUninstall(s).says = "absent" => s = Nothing)
  BY DEF SkillUninstall, To
<1> QED
  BY <1>1, <1>2, NoPart

LEMMA SkillStatusReport ==
    ASSUME NEW s \in Owned \cup {Nothing}, NEW v \in Builds
    PROVE  LET done == SkillStatus(s, v) IN
           done.new = s /\ Truth("status", v, "skill", done.says, s)
<1>1. PICK done : done = SkillStatus(s, v)
  OBVIOUS
<1>2. done.new = s
  BY <1>1 DEF SkillStatus, To
<1>3. CASE s = Nothing
  <2>1. done.says = "absent" /\ BrickParts("skill", s) = {}
    BY <1>1, <1>3 DEF SkillStatus, To, BrickParts
  <2> QED
    BY <1>1, <1>2, <2>1, NoPart
<1>4. CASE s # Nothing /\ ~IsBrick(s)
  BY <1>1, <1>2, <1>4 DEF Truth
<1>5. CASE s # Nothing /\ IsBrick(s)
  <2>1. BrickParts("skill", s) = {<<0, s>>}
    BY <1>5 DEF BrickParts
  <2>2. done.says = IF s = Brick(v) THEN "present" ELSE "stale"
    BY <1>1, <1>5 DEF SkillStatus, Classify, To
  <2> QED
    BY <1>1, <1>2, <2>1, <2>2, OnePart
<1> QED
  BY <1>3, <1>4, <1>5

-----------------------------------------------------------------------------
(* Any step. *)

\* What a step's part of a file may be, and when that is tidy.
Kind(step) ==
    CASE step = "memory" -> Seq(Tokens)
      [] step \in HookSteps -> HookLists
      [] step = "windsurf" -> [pre : CommandLists, post : CommandLists]
      [] step \in ServerSteps -> ServerTables
      [] step = "skill" -> Owned \cup {Nothing}

TidyPart(step, x) ==
    CASE step = "memory" -> TidyText(x)
      [] step \in HookSteps -> TidyHooks(x)
      [] step = "windsurf" -> TidyHooks(x.pre) /\ ListsOnly(x.post)
      [] step \in ServerSteps -> TidyServers(x)
      [] step = "skill" -> TRUE

LEMMA KindOf ==
    ASSUME NEW step, NEW x
    PROVE  /\ step = "memory" => Kind(step) = Seq(Tokens) /\ (TidyPart(step, x) <=> TidyText(x))
           /\ step \in HookSteps => Kind(step) = HookLists /\ (TidyPart(step, x) <=> TidyHooks(x))
           /\ step = "windsurf" => /\ Kind(step) = [pre : CommandLists, post : CommandLists]
                                   /\ TidyPart(step, x) <=> TidyHooks(x.pre) /\ ListsOnly(x.post)
           /\ step \in ServerSteps =>
                Kind(step) = ServerTables /\ (TidyPart(step, x) <=> TidyServers(x))
           /\ step = "skill" => Kind(step) = Owned \cup {Nothing} /\ TidyPart(step, x)
<1>1. CASE step = "memory"
  BY <1>1 DEF Kind, TidyPart, HookSteps, ServerSteps
<1>2. CASE step \in HookSteps
  BY <1>2 DEF Kind, TidyPart, HookSteps, ServerSteps
<1>3. CASE step \in ServerSteps
  BY <1>3 DEF Kind, TidyPart, HookSteps, ServerSteps
<1>4. CASE step = "skill"
  BY <1>4 DEF Kind, TidyPart, HookSteps, ServerSteps
<1>5. CASE step = "windsurf"
  BY <1>5 DEF Kind, TidyPart, HookSteps, ServerSteps
<1> QED
  BY <1>1, <1>2, <1>3, <1>4, <1>5 DEF HookSteps, ServerSteps

\* A report that a command writes the file for.
Writes(op, says) == says \in {"installed", "removed"} \/ (says = "updated" /\ op = "install")

LEMMA PartReports ==
    ASSUME NEW c, Understood(c), NEW step \in StepNames, NEW x \in Kind(step), TidyPart(step, x)
    PROVE  LET done == Outcome(c, step, x) IN
           /\ TidyPart(step, done.new) /\ Truth(c.op, c.build, step, done.says, done.new)
           /\ ~Writes(c.op, done.says) => done.new = x
<1>1. PICK done : done = Outcome(c, step, x)
  OBVIOUS
<1>2. c.force \in BOOLEAN
  BY DEF Understood
<1>3. CASE c.op = "install"
  <2>1. c.build \in Builds /\ done = InstallStep(step, x, c.build, c.force)
    BY <1>1, <1>3 DEF Understood, Outcome
  <2>2. CASE step = "memory"
    <3>1. x \in Seq(Tokens) /\ TidyText(x) /\ done = MemoryInstall(x, c.build, c.force)
      BY <2>1, <2>2, KindOf DEF InstallStep
    <3>2. TidyText(done.new) /\ \A says : Truth("install", c.build, "memory", says, done.new)
      BY <1>2, <2>1, <3>1, InstallReport
    <3>3. done.says \notin {"installed", "updated"} => done.new = x
      BY <3>1 DEF MemoryInstall, To
    <3> QED
      BY <1>1, <1>3, <2>2, <3>2, <3>3, KindOf DEF Writes
  <2>3. CASE step = "settings"
    <3>1. x \in HookLists /\ TidyHooks(x) /\ done = SettingsInstall(x, c.build, c.force)
      BY <2>1, <2>3, KindOf DEF InstallStep, HookSteps
    <3>2. /\ TidyHooks(done.new) /\ Truth("install", c.build, "settings", done.says, done.new)
          /\ done.says \notin {"installed", "updated"} => done.new = x
      BY <1>2, <2>1, <3>1, SettingsReport
    <3> QED
      BY <1>1, <1>3, <2>3, <3>2, KindOf DEF Writes, HookSteps
  <2>4. CASE step = "codex_hooks"
    <3>1. x \in HookLists /\ TidyHooks(x) /\ done = CodexInstall(x, c.build, c.force)
      BY <2>1, <2>4, KindOf DEF InstallStep, HookSteps
    <3>2. /\ TidyHooks(done.new) /\ Truth("install", c.build, step, done.says, done.new)
          /\ done.says \notin {"installed", "updated"} => done.new = x
      BY <1>2, <2>1, <2>4, <3>1, CodexReport
    <3> QED
      BY <1>1, <1>3, <2>4, <3>2, KindOf DEF Writes, HookSteps
  <2>7. CASE step = "windsurf"
    <3>1. /\ x \in [pre : CommandLists, post : CommandLists] /\ TidyHooks(x.pre) /\ ListsOnly(x.post)
          /\ done = WindsurfInstall(x, c.build, c.force)
      BY <2>1, <2>7, KindOf DEF InstallStep
    <3>2. /\ TidyHooks(done.new.pre) /\ ListsOnly(done.new.post)
          /\ Truth("install", c.build, "windsurf", done.says, done.new)
          /\ done.says \notin {"installed", "updated"} => done.new = x
      BY <1>2, <2>1, <3>1, WindsurfInstallReport
    <3> QED
      BY <1>1, <1>3, <2>7, <3>2, KindOf DEF Writes
  <2>5. CASE step \in ServerSteps
    <3>1. x \in ServerTables /\ TidyServers(x)
      BY <2>5, KindOf
    <3>2. done = IF step = "mcp" THEN JsonInstall(x, c.build, c.force)
                 ELSE TomlInstall(x, c.build, c.force)
      BY <2>1, <2>5 DEF InstallStep, ServerSteps
    <3>3. /\ TidyServers(done.new) /\ Truth("install", c.build, step, done.says, done.new)
          /\ done.says \notin {"installed", "updated"} => done.new = x
      BY <1>2, <2>1, <2>5, <3>1, <3>2, ServersReport
    <3> QED
      BY <1>1, <1>3, <2>5, <3>3, KindOf DEF Writes
  <2>6. CASE step = "skill"
    <3>1. x \in Owned \cup {Nothing} /\ done = SkillInstall(x, c.build, c.force)
      BY <2>1, <2>6, KindOf DEF InstallStep
    <3>2. /\ Truth("install", c.build, "skill", done.says, done.new)
          /\ done.says \notin {"installed", "updated"} => done.new = x
      BY <1>2, <2>1, <3>1, SkillReport
    <3> QED
      BY <1>1, <1>3, <2>6, <3>2, KindOf DEF Writes
  <2> QED
    BY <2>2, <2>3, <2>4, <2>5, <2>6, <2>7 DEF StepNames, ServerSteps
<1>4. CASE c.op = "uninstall"
  <2>1. done = UninstallStep(step, x)
    BY <1>1, <1>4 DEF Outcome
  <2>2. SUFFICES /\ TidyPart(step, done.new) /\ Truth("uninstall", c.build, step, done.says, done.new)
                 /\ done.says \in {"removed", "absent"} /\ (done.says = "absent" => done.new = x)
    BY <1>1, <1>4 DEF Writes
  <2>3. CASE step = "memory"
    <3>1. x \in Seq(Tokens) /\ TidyText(x) /\ done = MemoryUninstall(x)
      BY <2>1, <2>3, KindOf DEF UninstallStep
    <3> QED
      BY <2>3, <3>1, UninstallReport, KindOf
  <2>4. CASE step \in HookSteps
    <3>1. x \in HookLists /\ TidyHooks(x) /\ done = SettingsUninstall(x)
      BY <2>1, <2>4, KindOf DEF UninstallStep, HookSteps, CodexUninstall
    <3>2. /\ TidyHooks(done.new) /\ Truth("uninstall", c.build, step, done.says, done.new)
          /\ done.says \in {"removed", "absent"} /\ (done.says = "absent" => done.new = x)
      BY <2>4, <3>1, HooksRemovedReport
    <3> QED
      BY <2>4, <3>2, KindOf
  <2>5. CASE step \in ServerSteps
    <3>1. x \in ServerTables /\ TidyServers(x)
      BY <2>5, KindOf
    <3>2. done = IF step = "mcp" THEN JsonUninstall(x) ELSE TomlUninstall(x)
      BY <2>1, <2>5 DEF UninstallStep, ServerSteps
    <3>3. /\ TidyServers(done.new) /\ Truth("uninstall", c.build, step, done.says, done.new)
          /\ done.says \in {"removed", "absent"} /\ (done.says = "absent" => done.new = x)
      BY <2>5, <3>1, <3>2, ServersRemovedReport
    <3> QED
      BY <2>5, <3>3, KindOf
  <2>6. CASE step = "skill"
    <3>1. x \in Owned \cup {Nothing} /\ done = SkillUninstall(x)
      BY <2>1, <2>6, KindOf DEF UninstallStep
    <3> QED
      BY <2>6, <3>1, SkillRemovedReport, KindOf
  <2>7. CASE step = "windsurf"
    <3>1. /\ x \in [pre : CommandLists, post : CommandLists] /\ TidyHooks(x.pre) /\ ListsOnly(x.post)
          /\ done = WindsurfUninstall(x)
      BY <2>1, <2>7, KindOf DEF UninstallStep
    <3>2. /\ TidyHooks(done.new.pre) /\ ListsOnly(done.new.post)
          /\ Truth("uninstall", c.build, "windsurf", done.says, done.new)
          /\ done.says \in {"removed", "absent"} /\ (done.says = "absent" => done.new = x)
      BY <3>1, WindsurfRemovedReport
    <3> QED
      BY <2>7, <3>2, KindOf
  <2> QED
    BY <2>3, <2>4, <2>5, <2>6, <2>7 DEF StepNames, HookSteps, ServerSteps
<1>5. CASE c.op = "status"
  <2>1. c.build \in Builds /\ done = StatusStep(step, x, c.build)
    BY <1>1, <1>5 DEF Understood, Outcome
  <2>2. SUFFICES done.new = x /\ Truth("status", c.build, step, done.says, x)
    BY <1>1, <1>5
  <2>3. CASE step = "memory"
    <3>1. x \in Seq(Tokens) /\ TidyText(x) /\ done = MemoryStatus(x, c.build)
      BY <2>1, <2>3, KindOf DEF StatusStep
    <3> QED
      BY <2>1, <2>3, <3>1, StatusReport
  <2>4. CASE step \in HookSteps
    <3>1. x \in HookLists /\ TidyHooks(x)
      BY <2>4, KindOf DEF HookSteps
    <3>2. done = IF step = "settings" THEN SettingsStatus(x) ELSE NativeStatus(x, c.build)
      BY <2>1, <2>4 DEF StatusStep, HookSteps
    <3> QED
      BY <2>1, <2>4, <3>1, <3>2, HooksStatusReport
  <2>5. CASE step \in ServerSteps
    <3>1. x \in ServerTables /\ TidyServers(x)
      BY <2>5, KindOf
    <3>2. done = ServersStatus(x, c.build)
      BY <2>1, <2>5 DEF StatusStep, ServerSteps
    <3> QED
      BY <2>1, <2>5, <3>1, <3>2, ServersStatusReport
  <2>6. CASE step = "skill"
    <3>1. x \in Owned \cup {Nothing} /\ done = SkillStatus(x, c.build)
      BY <2>1, <2>6, KindOf DEF StatusStep
    <3> QED
      BY <2>1, <2>6, <3>1, SkillStatusReport
  <2>7. CASE step = "windsurf"
    <3>1. TidyHooks(x.pre) /\ ListsOnly(x.post) /\ done = WindsurfStatus(x, c.build)
      BY <2>1, <2>7, KindOf DEF StatusStep
    <3> QED
      BY <2>1, <2>7, <3>1, WindsurfStatusReport
  <2> QED
    BY <2>3, <2>4, <2>5, <2>6, <2>7 DEF StepNames, HookSteps, ServerSteps
<1> QED
  BY <1>3, <1>4, <1>5 DEF Understood

LEMMA PartOf ==
    ASSUME NEW step \in StepNames, NEW z \in Contents(FileOf(step))
    PROVE  /\ Part(step, z) \in Kind(step)
           /\ Tidy(FileOf(step), z) => TidyPart(step, Part(step, z))
           /\ WithPart(step, z, Part(step, z)) = z
           /\ \A p : /\ Part(step, WithPart(step, z, p)) = p
                     /\ Tidy(FileOf(step), z) /\ TidyPart(step, p)
                             => Tidy(FileOf(step), WithPart(step, z, p))
<1>1. CASE step = "memory"
  <2>1. /\ FileOf(step) = "memory" /\ z \in Seq(Tokens)
        /\ \A p : WithPart(step, z, p) = p /\ Part(step, p) = p
        /\ \A p : Tidy(FileOf(step), p) <=> TidyText(p)
    BY <1>1 DEF FileOf, Contents, Tokens, WithPart, Part, Tidy
  <2> QED
    BY <1>1, <2>1, KindOf
<1>7. CASE step = "windsurf"
  <2>1. /\ FileOf(step) = "windsurf" /\ z \in [pre : CommandLists, post : CommandLists]
        /\ \A p : WithPart(step, z, p) = p /\ Part(step, p) = p
        /\ \A p : Tidy(FileOf(step), p) <=> TidyHooks(p.pre) /\ ListsOnly(p.post)
    BY <1>7 DEF FileOf, Contents, WithPart, Part, Tidy
  <2> QED
    BY <1>7, <2>1, KindOf
<1>2. CASE step = "settings"
  <2>1. /\ FileOf(step) = step /\ z \in HookLists /\ step \in HookSteps
        /\ \A p : WithPart(step, z, p) = p /\ Part(step, p) = p
        /\ \A p : Tidy(FileOf(step), p) <=> TidyHooks(p)
    BY <1>2 DEF FileOf, Contents, WithPart, Part, Tidy, HookSteps
  <2>2. Kind(step) = HookLists /\ \A p : TidyPart(step, p) <=> TidyHooks(p)
    BY <2>1, KindOf
  <2> QED
    BY <2>1, <2>2
<1>3. CASE step = "mcp"
  <2>1. /\ FileOf(step) = "mcp" /\ z \in ServerTables /\ step \in ServerSteps
        /\ \A p : WithPart(step, z, p) = p /\ Part(step, p) = p
        /\ \A p : Tidy(FileOf(step), p) <=> TidyServers(p)
    BY <1>3 DEF FileOf, Contents, WithPart, Part, Tidy, ServerSteps
  <2>2. Kind(step) = ServerTables /\ \A p : TidyPart(step, p) <=> TidyServers(p)
    BY <2>1, KindOf
  <2> QED
    BY <2>1, <2>2
<1>4. CASE step = "skill"
  <2>1. /\ FileOf(step) = "skill" /\ z \in Owned \cup {Nothing}
        /\ \A p : WithPart(step, z, p) = p /\ Part(step, p) = p
        /\ \A p : Tidy(FileOf(step), p)
    BY <1>4 DEF FileOf, Contents, WithPart, Part, Tidy
  <2> QED
    BY <1>4, <2>1, KindOf
<1>5. CASE step = "codex_hooks"
  <2>1. /\ FileOf(step) = "config" /\ z \in [hooks : HookLists, servers : ServerTables]
        /\ step \in HookSteps /\ Part(step, z) = z.hooks
        /\ \A p : WithPart(step, z, p) = [z EXCEPT !.hooks = p]
        /\ \A y : Part(step, y) = y.hooks
        /\ \A y : Tidy(FileOf(step), y) <=> TidyHooks(y.hooks) /\ TidyServers(y.servers)
    BY <1>5 DEF FileOf, Contents, WithPart, Part, Tidy, HookSteps
  <2>2. /\ [z EXCEPT !.hooks = z.hooks] = z
        /\ \A p : [z EXCEPT !.hooks = p].hooks = p /\ [z EXCEPT !.hooks = p].servers = z.servers
    BY <2>1
  <2>3. Kind(step) = HookLists /\ \A p : TidyPart(step, p) <=> TidyHooks(p)
    BY <2>1, KindOf
  <2> QED
    BY <2>1, <2>2, <2>3
<1>6. CASE step = "codex_mcp"
  <2>1. /\ FileOf(step) = "config" /\ z \in [hooks : HookLists, servers : ServerTables]
        /\ step \in ServerSteps /\ Part(step, z) = z.servers
        /\ \A p : WithPart(step, z, p) = [z EXCEPT !.servers = p]
        /\ \A y : Part(step, y) = y.servers
        /\ \A y : Tidy(FileOf(step), y) <=> TidyHooks(y.hooks) /\ TidyServers(y.servers)
    BY <1>6 DEF FileOf, Contents, WithPart, Part, Tidy, ServerSteps
  <2>2. /\ [z EXCEPT !.servers = z.servers] = z
        /\ \A p : [z EXCEPT !.servers = p].servers = p /\ [z EXCEPT !.servers = p].hooks = z.hooks
    BY <2>1
  <2>3. Kind(step) = ServerTables /\ \A p : TidyPart(step, p) <=> TidyServers(p)
    BY <2>1, KindOf
  <2> QED
    BY <2>1, <2>2, <2>3
<1> QED
  BY <1>1, <1>2, <1>3, <1>4, <1>5, <1>6, <1>7 DEF StepNames

LEMMA StepReports ==
    ASSUME NEW c, Understood(c), NEW step \in StepNames, NEW z \in Contents(FileOf(step)),
           Tidy(FileOf(step), z)
    PROVE  LET says == Outcome(c, step, Part(step, z)).says  y == After(c, step, z) IN
           /\ Tidy(FileOf(step), y)
           /\ Truth(c.op, c.build, step, says, Part(step, y))
           /\ ~Writes(c.op, says) => y = z
<1>1. PICK x : x = Part(step, z)
  OBVIOUS
<1>2. PICK done : done = Outcome(c, step, x)
  OBVIOUS
<1>3. After(c, step, z) = WithPart(step, z, done.new)
  BY <1>1, <1>2 DEF After
<1>4. x \in Kind(step) /\ TidyPart(step, x)
  BY <1>1, PartOf
<1>5. /\ TidyPart(step, done.new) /\ Truth(c.op, c.build, step, done.says, done.new)
      /\ ~Writes(c.op, done.says) => done.new = x
  BY <1>2, <1>4, PartReports
<1> QED
  BY <1>1, <1>2, <1>3, <1>5, PartOf

\* A text with tokens put before or after it that are not brick's.
LEMMA ShiftedTidy ==
    ASSUME NEW t \in Seq(Tokens), TidyText(t), NEW u \in Seq(Tokens), NEW k \in Nat,
           \A i \in 1 .. Len(t) : i + k \in 1 .. Len(u) /\ u[i + k] = t[i],
           \A i \in 1 .. Len(u) : u[i] = End \/ IsBrick(u[i]) =>
                \E j \in 1 .. Len(t) : i = j + k
    PROVE  TidyText(u)
<1>1. DOMAIN t = 1 .. Len(t) /\ Len(t) \in Nat /\ DOMAIN u = 1 .. Len(u) /\ Len(u) \in Nat
  BY WordsOf
<1> SUFFICES ASSUME NEW i \in 1 .. Len(u), u[i] = End
             PROVE  /\ i - 1 \in 1 .. Len(u) /\ IsBrick(u[i - 1])
                    /\ \A j \in 1 .. Len(u) : (u[j] = End => j = i) /\ (IsBrick(u[j]) => j < i)
  BY <1>1 DEF TidyText
<1>2. PICK a \in 1 .. Len(t) : i = a + k /\ t[a] = End
  OBVIOUS
<1>3. /\ a - 1 \in 1 .. Len(t) /\ IsBrick(t[a - 1])
      /\ \A b \in 1 .. Len(t) : (t[b] = End => b = a) /\ (IsBrick(t[b]) => b < a)
  BY <1>1, <1>2 DEF TidyText
<1>4. i - 1 = (a - 1) + k
  BY <1>1, <1>2
<1>5. i - 1 \in 1 .. Len(u) /\ IsBrick(u[i - 1])
  BY <1>3, <1>4
<1>6. ASSUME NEW j \in 1 .. Len(u), u[j] = End \/ IsBrick(u[j])
      PROVE  (u[j] = End => j = i) /\ (IsBrick(u[j]) => j < i)
  <2>1. PICK b \in 1 .. Len(t) : j = b + k /\ t[b] = u[j]
    BY <1>6
  <2>2. (t[b] = End => b = a) /\ (IsBrick(t[b]) => b < a)
    BY <1>3
  <2>3. b < a => b + k < a + k
    BY <1>1
  <2> QED
    BY <1>2, <2>1, <2>2, <2>3
<1> QED
  BY <1>5, <1>6

\* A text that loses its end marker.
LEMMA EndLost ==
    ASSUME NEW t \in Seq(Tokens), TidyText(t), NEW e \in 1 .. Len(t), t[e] = End
    PROVE  TidyText(SubSeq(t, 1, e - 1) \o SubSeq(t, e + 1, Len(t)))
<1> DEFINE Rest == Tokens \ {End}
<1>1. Len(t) \in Nat /\ DOMAIN t = 1 .. Len(t) /\ \A i \in 1 .. Len(t) : t[i] \in Tokens
  BY WordsOf
<1>2. \A i \in 1 .. Len(t) : t[i] = End => i = e
  BY <1>1 DEF TidyText
<1>3. /\ \A i \in 1 .. (e - 1) : t[i] \in Rest
      /\ \A i \in (e + 1) .. Len(t) : t[i] \in Rest
  BY <1>1, <1>2
<1> HIDE DEF Rest
<1>4. SubSeq(t, 1, e - 1) \in Seq(Rest) /\ SubSeq(t, e + 1, Len(t)) \in Seq(Rest)
  BY <1>1, <1>3, SubSeqProperties
<1>5. PICK u \in Seq(Rest) : u = SubSeq(t, 1, e - 1) \o SubSeq(t, e + 1, Len(t))
  BY <1>4, ConcatProperties
<1>6. \A i \in DOMAIN u : u[i] \in Rest
  BY <1>5, LenProperties
<1>7. TidyText(u)
  BY <1>6, Endless DEF Rest
<1> QED
  BY <1>5, <1>7

LEMMA TextEdits ==
    ASSUME NEW t \in Seq(Tokens), TidyText(t), NEW me \in Tokens, me # End, ~IsBrick(me),
           NEW u \in MemoryEdits(t, me)
    PROVE  TidyText(u)
<1>1. Len(t) \in Nat /\ DOMAIN t = 1 .. Len(t) /\ \A i \in 1 .. Len(t) : t[i] \in Tokens
  BY WordsOf
<1>2. NL \in Tokens /\ NL # End /\ ~IsBrick(NL)
  BY InstallAssumption DEF Tokens, IsBrick, InstallAssumption
<1>3. PICK w \in Seq(Tokens) : w = <<me, NL>>
  <2>1. <<me, NL>> \in Seq(Tokens)
    BY <1>2
  <2> QED
    BY <2>1
<1>4. Len(w) = 2 /\ w[1] = me /\ w[2] = NL
  BY <1>3
<1>5. \/ u = w \o t
      \/ u = t \o w
      \/ \E e \in 1 .. Len(t) : t[e] = End /\ u = SubSeq(t, 1, e - 1) \o SubSeq(t, e + 1, Len(t))
  BY <1>1, <1>3 DEF MemoryEdits
<1>6. CASE u = w \o t
  <2>1. /\ u \in Seq(Tokens) /\ Len(u) = Len(w) + Len(t)
        /\ \A i \in 1 .. Len(w) + Len(t) : u[i] = IF i <= Len(w) THEN w[i] ELSE t[i - Len(w)]
    BY <1>6, ConcatProperties, Zenon
  <2>2. /\ Len(u) = 2 + Len(t)
        /\ \A i \in 1 .. (2 + Len(t)) : u[i] = IF i <= 2 THEN w[i] ELSE t[i - 2]
    BY <1>4, <2>1
  <2>3. ASSUME NEW i \in 1 .. Len(t) PROVE i + 2 \in 1 .. Len(u) /\ u[i + 2] = t[i]
    <3>1. i + 2 \in 1 .. (2 + Len(t)) /\ ~ (i + 2 <= 2) /\ (i + 2) - 2 = i
      BY <1>1
    <3> QED
      BY <2>2, <3>1
  <2>4. ASSUME NEW i \in 1 .. Len(u), u[i] = End \/ IsBrick(u[i])
        PROVE  \E j \in 1 .. Len(t) : i = j + 2
    <3>1. i # 1 /\ i # 2
      <4>1. 1 \in 1 .. (2 + Len(t)) /\ 2 \in 1 .. (2 + Len(t))
        BY <1>1
      <4>2. u[1] = me /\ u[2] = NL
        BY <1>4, <2>2, <4>1
      <4> QED
        BY <1>2, <2>4, <4>2
    <3>2. i - 2 \in 1 .. Len(t) /\ i = (i - 2) + 2
      BY <1>1, <2>2, <3>1
    <3> QED
      BY <3>2
  <2> QED
    BY <2>1, <2>3, <2>4, ShiftedTidy
<1>7. CASE u = t \o w
  <2>1. /\ u \in Seq(Tokens) /\ Len(u) = Len(t) + Len(w)
        /\ \A i \in 1 .. Len(t) + Len(w) : u[i] = IF i <= Len(t) THEN t[i] ELSE w[i - Len(t)]
    BY <1>7, ConcatProperties, Zenon
  <2>2. ASSUME NEW i \in 1 .. Len(t) PROVE i + 0 \in 1 .. Len(u) /\ u[i + 0] = t[i]
    BY <1>1, <1>4, <2>1
  <2>3. ASSUME NEW i \in 1 .. Len(u), u[i] = End \/ IsBrick(u[i])
        PROVE  \E j \in 1 .. Len(t) : i = j + 0
    <3>1. i <= Len(t)
      <4> SUFFICES ASSUME ~ (i <= Len(t)) PROVE FALSE
        OBVIOUS
      <4>1. i - Len(t) = 1 \/ i - Len(t) = 2
        BY <1>1, <1>4, <2>1
      <4>2. u[i] = w[i - Len(t)]
        BY <2>1
      <4> QED
        BY <1>2, <1>4, <2>3, <4>1, <4>2
    <3>2. i \in 1 .. Len(t) /\ i = i + 0
      BY <1>1, <3>1
    <3> QED
      BY <3>2
  <2> QED
    BY <2>1, <2>2, <2>3, ShiftedTidy
<1> QED
  BY <1>5, <1>6, <1>7, EndLost

\* Lists with the same of brick's, n places further.
LEMMA SameBricks ==
    ASSUME NEW h \in HookLists, TidyHooks(h), NEW k \in HookLists, k.form = "list", NEW n \in Nat,
           \A i \in BrickEntries(k) :
              /\ i - n \in BrickEntries(h)
              /\ \A c \in k.entries[i] : IsBrick(c) => c \in h.entries[i - n]
    PROVE  TidyHooks(k)
<1>1. \A i, j \in BrickEntries(k) : i = j
  <2> SUFFICES ASSUME NEW i \in BrickEntries(k), NEW j \in BrickEntries(k) PROVE i = j
    OBVIOUS
  <2>1. i - n = j - n
    BY DEF TidyHooks
  <2>2. i \in Int /\ j \in Int
    BY HooksOf
  <2> QED
    BY <2>1, <2>2
<1>2. ASSUME NEW i \in DOMAIN k.entries, NEW c \in k.entries[i], NEW d \in k.entries[i],
             IsBrick(c), IsBrick(d)
      PROVE  c = d
  <2>1. i \in BrickEntries(k)
    BY <1>2 DEF BrickEntries, HasBrick
  <2>2. i - n \in DOMAIN h.entries
    BY <2>1 DEF BrickEntries
  <2> QED
    BY <1>2, <2>1, <2>2 DEF TidyHooks
<1> QED
  BY <1>1, <1>2 DEF TidyHooks

LEMMA HookListEdits ==
    ASSUME NEW h \in HookLists, TidyHooks(h), NEW me \in Owned, ~IsBrick(me),
           NEW k \in HookEdits(h, me), k \in HookLists
    PROVE  TidyHooks(k)
<1> DEFINE n == Len(h.entries)
<1>1. h.entries \in Seq(SUBSET Owned) /\ n \in Nat /\ DOMAIN h.entries = 1 .. n
  BY HooksOf
<1>2. ~HasBrick({me})
  BY DEF HasBrick
<1>3. PICK b \in SUBSET Owned : b = {me}
  OBVIOUS
<1>4. \/ k = HookList(<<b>> \o h.entries)
      \/ k = HookList(Append(h.entries, b))
      \/ \E m \in BrickEntries(h) : k = HookList([h.entries EXCEPT ![m] = @ \cup b])
      \/ k = [form |-> "other", entries |-> <<b>>]
  BY <1>3 DEF HookEdits, ListEdits
<1> HIDE DEF n
<1>5. CASE k = HookList(<<b>> \o h.entries)
  <2>1. PICK w \in Seq(SUBSET Owned) : w = <<b>>
    <3>1. <<b>> \in Seq(SUBSET Owned)
      OBVIOUS
    <3> QED
      BY <3>1
  <2>2. Len(w) = 1 /\ w[1] = b
    BY <2>1
  <2>3. PICK s : s = w \o h.entries
    OBVIOUS
  <2>4. /\ s \in Seq(SUBSET Owned) /\ Len(s) = Len(w) + Len(h.entries)
        /\ \A i \in 1 .. Len(w) + Len(h.entries) :
              s[i] = IF i <= Len(w) THEN w[i] ELSE h.entries[i - Len(w)]
    BY <1>1, <2>3, ConcatProperties, Zenon
  <2>5. k.form = "list" /\ k.entries = s /\ DOMAIN s = 1 .. (1 + n)
    <3>1. k.form = "list" /\ k.entries = s
      BY <1>5, <2>1, <2>3 DEF HookList
    <3>2. DOMAIN s = 1 .. Len(s)
      BY <2>4, LenProperties
    <3> QED
      BY <2>2, <2>4, <3>1, <3>2 DEF n
  <2>6. \A i \in 1 .. (1 + n) : s[i] = IF i <= 1 THEN w[i] ELSE h.entries[i - 1]
    BY <2>2, <2>4 DEF n
  <2>7. ASSUME NEW i \in BrickEntries(k)
        PROVE  i - 1 \in BrickEntries(h) /\ s[i] = h.entries[i - 1]
    <3>1. i \in 1 .. (1 + n) /\ HasBrick(s[i])
      BY <2>5 DEF BrickEntries
    <3>2. i # 1
      <4>1. 1 \in 1 .. (1 + n)
        BY <1>1
      <4>2. s[1] = b
        BY <2>2, <2>6, <4>1
      <4> QED
        BY <1>2, <1>3, <3>1, <4>2
    <3>3. i - 1 \in 1 .. n /\ ~ (i <= 1)
      BY <1>1, <3>1, <3>2
    <3>4. s[i] = h.entries[i - 1]
      BY <2>6, <3>1, <3>3
    <3> QED
      BY <1>1, <3>1, <3>3, <3>4 DEF BrickEntries
  <2> QED
    BY <2>5, <2>7, SameBricks
<1>6. CASE k = HookList(Append(h.entries, b))
  <2>1. PICK s : s = Append(h.entries, b)
    OBVIOUS
  <2>2. /\ s \in Seq(SUBSET Owned) /\ Len(s) = Len(h.entries) + 1
        /\ s[Len(h.entries) + 1] = b /\ \A i \in 1 .. Len(h.entries) : s[i] = h.entries[i]
    BY <1>1, <2>1, AppendProperties
  <2>3. k.form = "list" /\ k.entries = s /\ DOMAIN s = 1 .. (n + 1)
    <3>1. k.form = "list" /\ k.entries = s
      BY <1>6, <2>1 DEF HookList
    <3>2. DOMAIN s = 1 .. Len(s)
      BY <2>2, LenProperties
    <3> QED
      BY <2>2, <3>1, <3>2 DEF n
  <2>4. s[n + 1] = b /\ \A i \in 1 .. n : s[i] = h.entries[i]
    BY <2>2 DEF n
  <2>5. ASSUME NEW i \in BrickEntries(k)
        PROVE  i - 0 \in BrickEntries(h) /\ s[i] = h.entries[i - 0]
    <3>1. i \in 1 .. (n + 1) /\ HasBrick(s[i])
      BY <2>3 DEF BrickEntries
    <3>2. i # n + 1
      BY <1>2, <1>3, <2>4, <3>1
    <3>3. i \in 1 .. n /\ i - 0 = i
      BY <1>1, <3>1, <3>2
    <3> QED
      BY <1>1, <2>4, <3>1, <3>3 DEF BrickEntries
  <2> QED
    BY <2>3, <2>5, SameBricks
<1>7. ASSUME NEW m \in BrickEntries(h), k = HookList([h.entries EXCEPT ![m] = @ \cup b])
      PROVE  TidyHooks(k)
  <2>1. PICK s : s = [h.entries EXCEPT ![m] = @ \cup b]
    OBVIOUS
  <2>2. k.form = "list" /\ k.entries = s
    BY <1>7, <2>1 DEF HookList
  <2>3. /\ DOMAIN s = 1 .. n
        /\ \A i \in 1 .. n : s[i] = IF i = m THEN h.entries[i] \cup b ELSE h.entries[i]
    BY <1>1, <2>1
  <2>4. ASSUME NEW i \in BrickEntries(k)
        PROVE  /\ i - 0 \in BrickEntries(h)
               /\ \A c \in k.entries[i] : IsBrick(c) => c \in h.entries[i - 0]
    <3>1. i \in 1 .. n /\ HasBrick(s[i])
      BY <2>2, <2>3 DEF BrickEntries
    <3>2. \A c \in s[i] : IsBrick(c) => c \in h.entries[i]
      BY <1>3, <2>3, <3>1
    <3>3. i - 0 = i
      BY <1>1, <3>1
    <3>4. i \in BrickEntries(h)
      BY <1>1, <3>1, <3>2 DEF BrickEntries, HasBrick
    <3> QED
      BY <2>2, <3>2, <3>3, <3>4
  <2> QED
    BY <2>2, <2>4, SameBricks
<1>8. CASE k = [form |-> "other", entries |-> <<b>>]
  <2>1. k.entries = <<b>>
    BY <1>8
  <2>2. \A i \in DOMAIN k.entries : k.entries[i] = b
    BY <2>1
  <2>3. BrickEntries(k) = {}
    BY <1>2, <1>3, <2>2 DEF BrickEntries
  <2> QED
    BY <2>3, NoHookParts
<1> QED
  BY <1>4, <1>5, <1>6, <1>7, <1>8

\* The same of Windsurf's lists; an entry moved from the one leaves none there.
LEMMA WindsurfEdits ==
    ASSUME NEW x \in [pre : CommandLists, post : CommandLists], TidyHooks(x.pre), ListsOnly(x.post),
           NEW me \in Owned, ~IsBrick(me), NEW y \in EditsOf("windsurf", x, me),
           y \in [pre : CommandLists, post : CommandLists]
    PROVE  TidyHooks(y.pre) /\ ListsOnly(y.post)
<1>1. /\ x.pre \in HookLists /\ x.post \in HookLists /\ x = [pre |-> x.pre, post |-> x.post]
      /\ y.pre \in HookLists /\ y.post \in HookLists
  BY CommandsOf
<1>2. \/ \E h \in ListEdits(x.pre, me) : y = [x EXCEPT !.pre = h]
      \/ \E h \in ListEdits(x.post, me) : y = [x EXCEPT !.post = h]
      \/ y \in EventEdits(x)
  BY DEF EditsOf
<1>3. ASSUME NEW h \in ListEdits(x.pre, me), y = [x EXCEPT !.pre = h]
      PROVE  TidyHooks(y.pre) /\ ListsOnly(y.post)
  <2>1. y.pre = h /\ y.post = x.post /\ h \in HookEdits(x.pre, me) /\ h \in HookLists
    BY <1>1, <1>3 DEF HookEdits
  <2> QED
    BY <1>1, <2>1, HookListEdits
<1>4. ASSUME NEW h \in ListEdits(x.post, me), y = [x EXCEPT !.post = h]
      PROVE  TidyHooks(y.pre) /\ ListsOnly(y.post)
  <2>1. y.pre = x.pre /\ y.post = h
    BY <1>1, <1>4
  <2>2. h.form = "list" \/ h = [form |-> "other", entries |-> <<{me}>>]
    BY DEF ListEdits, HookList
  <2>3. h = [form |-> "other", entries |-> <<{me}>>] => BrickEntries(h) = {}
    <3>1. ASSUME h = [form |-> "other", entries |-> <<{me}>>], NEW i \in BrickEntries(h) PROVE FALSE
      <4>1. h.entries = <<{me}>>
        BY <3>1
      <4>2. i \in DOMAIN h.entries /\ HasBrick(h.entries[i])
        BY DEF BrickEntries
      <4>3. h.entries[i] = {me}
        BY <4>1, <4>2
      <4> QED
        BY <4>2, <4>3 DEF HasBrick
    <3> QED
      BY <3>1
  <2> QED
    BY <2>1, <2>2, <2>3 DEF ListsOnly
<1>5. CASE y = [x EXCEPT !.post = HookList(<<>>)]
  <2>1. y.pre = x.pre /\ y.post = HookList(<<>>)
    BY <1>1, <1>5
  <2> QED
    BY <2>1 DEF ListsOnly, HookList
<1>6. ASSUME NEW m \in ListBricks(x.pre),
             y = [pre |-> HookList(Only(x.pre.entries, DOMAIN x.pre.entries \ {m})),
                  post |-> HookList(Append(x.post.entries, x.pre.entries[m]))]
      PROVE  TidyHooks(y.pre) /\ ListsOnly(y.post)
  <2>1. m \in BrickEntries(x.pre) /\ \A i \in BrickEntries(x.pre) : i = m
    BY DEF ListBricks, TidyHooks
  <2>2. PICK S \in SUBSET DOMAIN x.pre.entries : S = DOMAIN x.pre.entries \ {m}
    OBVIOUS
  <2>3. y.pre.entries = Only(x.pre.entries, S) /\ y.post.form = "list"
    BY <1>6, <2>2 DEF HookList
  <2>4. x.pre.entries \in Seq(SUBSET Owned)
    BY <1>1, HooksOf
  <2>5. ASSUME NEW i \in BrickEntries(y.pre) PROVE FALSE
    <3>1. i \in DOMAIN Only(x.pre.entries, S) /\ HasBrick(Only(x.pre.entries, S)[i])
      BY <2>3 DEF BrickEntries
    <3>2. PICK j \in S : Only(x.pre.entries, S)[i] = x.pre.entries[j]
      BY <2>4, <3>1, OnlyFrom
    <3>3. j \in BrickEntries(x.pre)
      BY <3>1, <3>2 DEF BrickEntries
    <3> QED
      BY <2>1, <2>2, <3>3
  <2> QED
    BY <2>3, <2>5, NoHookParts DEF ListsOnly
<1> QED
  BY <1>2, <1>3, <1>4, <1>5, <1>6 DEF EventEdits

LEMMA ServerTableEdits ==
    ASSUME NEW s \in ServerTables, TidyServers(s), NEW me, ~IsBrick(me), NEW t \in ServerEdits(s, me)
    PROVE  TidyServers(t)
<1>1. s.form # "other" /\ BrickServers(t) = BrickServers(s)
  BY DEF ServerEdits, BrickServers
<1>2. t.form # "table" => BrickServers(t) = {}
  BY <1>1 DEF ServerEdits, BrickServers
<1> QED
  BY <1>1, <1>2 DEF TidyServers

LEMMA EditsTidy ==
    ASSUME NEW f \in Files, NEW x \in Contents(f), Tidy(f, x), NEW n \in 1 .. MaxEdits,
           NEW y \in EditsOf(f, x, User(n))
    PROVE  Tidy(f, y)
<1> DEFINE me == User(n)
<1>1. me \in Owned /\ me \in Tokens /\ me # End /\ ~IsBrick(me)
  <2>1. me \in Owned
    BY UserOwned
  <2>2. me # End
    BY <2>1, InstallAssumption DEF InstallAssumption
  <2>3. ~IsBrick(me)
    BY DEF IsBrick, User
  <2> QED
    BY <2>1, <2>2, <2>3 DEF Tokens
<1>2. y \in EditsOf(f, x, me) /\ y \in Contents(f)
  BY EditsTyped
<1> HIDE DEF me
<1>3. CASE f = "memory"
  <2>1. x \in Seq(Tokens) /\ TidyText(x) /\ y \in MemoryEdits(x, me)
    BY <1>2, <1>3 DEF Contents, Tokens, Tidy, EditsOf
  <2>2. TidyText(y)
    BY <1>1, <2>1, TextEdits
  <2> QED
    BY <1>3, <2>2 DEF Tidy
<1>8. CASE f = "windsurf"
  <2>1. /\ x \in [pre : CommandLists, post : CommandLists] /\ TidyHooks(x.pre) /\ ListsOnly(x.post)
        /\ y \in [pre : CommandLists, post : CommandLists]
    BY <1>2, <1>8 DEF Contents, Tidy
  <2>2. TidyHooks(y.pre) /\ ListsOnly(y.post)
    BY <1>1, <1>2, <1>8, <2>1, WindsurfEdits
  <2> QED
    BY <1>8, <2>2 DEF Tidy
<1>4. CASE f = "settings"
  <2>1. x \in HookLists /\ TidyHooks(x) /\ y \in HookEdits(x, me) /\ y \in HookLists
    BY <1>2, <1>4 DEF Contents, Tidy, EditsOf
  <2>2. TidyHooks(y)
    BY <1>1, <2>1, HookListEdits
  <2> QED
    BY <1>4, <2>2 DEF Tidy
<1>5. CASE f = "mcp"
  <2>1. x \in ServerTables /\ TidyServers(x) /\ y \in ServerEdits(x, me)
    BY <1>2, <1>5 DEF Contents, Tidy, EditsOf
  <2>2. TidyServers(y)
    BY <1>1, <2>1, ServerTableEdits
  <2> QED
    BY <1>5, <2>2 DEF Tidy
<1>6. CASE f = "config"
  <2>1. /\ x \in [hooks : HookLists, servers : ServerTables]
        /\ y \in [hooks : HookLists, servers : ServerTables]
        /\ TidyHooks(x.hooks) /\ TidyServers(x.servers)
    BY <1>2, <1>6 DEF Contents, Tidy
  <2>2. \/ \E h \in HookEdits(x.hooks, me) : y = [x EXCEPT !.hooks = h]
        \/ \E s \in ServerEdits(x.servers, me) : y = [x EXCEPT !.servers = s]
    BY <1>2, <1>6 DEF EditsOf
  <2>3. ASSUME NEW h \in HookEdits(x.hooks, me), y = [x EXCEPT !.hooks = h]
        PROVE  TidyHooks(y.hooks) /\ TidyServers(y.servers)
    <3>1. y.hooks = h /\ y.servers = x.servers /\ h \in HookLists /\ x.hooks \in HookLists
      BY <2>1, <2>3
    <3> QED
      BY <1>1, <2>1, <3>1, HookListEdits
  <2>4. ASSUME NEW s \in ServerEdits(x.servers, me), y = [x EXCEPT !.servers = s]
        PROVE  TidyHooks(y.hooks) /\ TidyServers(y.servers)
    <3>1. y.servers = s /\ y.hooks = x.hooks /\ x.servers \in ServerTables
      BY <2>1, <2>4
    <3> QED
      BY <1>1, <2>1, <3>1, ServerTableEdits
  <2> QED
    BY <1>6, <2>2, <2>3, <2>4 DEF Tidy
<1>7. CASE f = "skill"
  BY <1>7 DEF Tidy
<1> QED
  BY <1>3, <1>4, <1>5, <1>6, <1>7, <1>8 DEF Files

-----------------------------------------------------------------------------
(***************************************************************************)
(* The invariant: with InstallInv, every file is tidy, the contents a      *)
(* command has read are too and what it will say is what its step said of  *)
(* them, and the last report is true of the file.                          *)
(***************************************************************************)
TidyInv == \A f \in Files : Tidy(f, file[f])

HandInv ==
    cmd # Idle /\ cmd.pc # "read" =>
        /\ Tidy(CurrentFile, cmd.seen)
        /\ cmd.says = Outcome(cmd, Current, Part(Current, cmd.seen)).says

SaidInv ==
    said # Nothing =>
        /\ said.step \in StepNames
        /\ Truth(said.op, said.build, said.step, said.says, Part(said.step, file[FileOf(said.step)]))

ReportInv == TidyInv /\ HandInv /\ SaidInv

LEMMA ReportInit == Init => ReportInv
<1> SUFFICES ASSUME Init PROVE ReportInv
  OBVIOUS
<1>1. HandInv /\ SaidInv
  BY DEF Init, HandInv, SaidInv
<1>2. TidyText(<<>>)
  BY DEF TidyText
<1>3. TidyHooks(NoHooks) /\ TidyServers(NoServers)
  BY DEF TidyHooks, TidyServers, NoHooks, NoServers, BrickEntries, BrickServers
<1>4. ASSUME NEW f \in Files PROVE Tidy(f, file[f])
  <2>1. CASE f = "memory"
    BY <1>2, <2>1 DEF Init, Tidy
  <2>2. CASE f = "settings"
    BY <1>3, <2>2 DEF Init, Tidy
  <2>6. CASE f = "windsurf"
    <3>1. file[f] = [pre |-> NoHooks, post |-> NoHooks]
      BY <2>6 DEF Init
    <3>2. ListsOnly(NoHooks)
      BY DEF ListsOnly, NoHooks, BrickEntries
    <3> QED
      BY <1>3, <2>6, <3>1, <3>2 DEF Tidy
  <2>3. CASE f = "config"
    BY <1>3, <2>3 DEF Init, Tidy
  <2>4. CASE f = "mcp"
    BY <1>3, <2>4 DEF Init, Tidy
  <2>5. CASE f = "skill"
    BY <2>5 DEF Tidy
  <2> QED
    BY <2>1, <2>2, <2>3, <2>4, <2>5, <2>6 DEF Files
<1> QED
  BY <1>1, <1>4 DEF ReportInv, TidyInv

\* Commands that differ in how far they are only say the same.
LEMMA SameOutcome ==
    ASSUME NEW c, NEW d, c.op = d.op, c.build = d.build, c.force = d.force, NEW step, NEW x
    PROVE  Outcome(c, step, x) = Outcome(d, step, x)
BY DEF Outcome

LEMMA ProceedReads ==
    ASSUME InstallInv, cmd # Idle, Proceed
    PROVE  HandInv'
<1>1. CASE cmd' = Idle
  BY <1>1 DEF HandInv
<1>2. CASE Len(cmd.todo) # 1
  <2>1. cmd' = [op |-> cmd.op, build |-> cmd.build, force |-> cmd.force, todo |-> Tail(cmd.todo),
                pc |-> "read", seen |-> Nothing, new |-> Nothing, tmp |-> Nothing, says |-> ""]
    BY <1>2 DEF Proceed, InstallInv, CmdInv
  <2> QED
    BY <2>1 DEF HandInv
<1> QED
  BY <1>1, <1>2 DEF Proceed

\* The file a command replaces is tidy, and what it says of it is true.
LEMMA ReplacesTidy ==
    ASSUME InstallInv, ReportInv, cmd # Idle, cmd.pc # "read",
           file' = [file EXCEPT ![CurrentFile] = cmd.new], Report(cmd.says)
    PROVE  ReportInv'
<1>1. /\ CurrentFile \in Files /\ Current \in StepNames /\ Understood(cmd)
      /\ cmd.seen \in Contents(CurrentFile) /\ cmd.new = After(cmd, Current, cmd.seen)
      /\ FilesInv
  BY InHand DEF InstallInv, CmdInv
<1>2. Tidy(CurrentFile, cmd.seen) /\ cmd.says = Outcome(cmd, Current, Part(Current, cmd.seen)).says
  BY DEF ReportInv, HandInv
<1>3. Tidy(CurrentFile, cmd.new) /\ Truth(cmd.op, cmd.build, Current, cmd.says, Part(Current, cmd.new))
  BY <1>1, <1>2, StepReports DEF CurrentFile
<1>4. /\ file'[CurrentFile] = cmd.new
      /\ \A f \in Files : f # CurrentFile => file'[f] = file[f]
  BY <1>1 DEF FilesInv
<1>5. TidyInv'
  BY <1>3, <1>4 DEF ReportInv, TidyInv
<1>6. HandInv'
  BY ProceedReads DEF Report
<1>7. SaidInv'
  <2>1. /\ said'.step = Current /\ said'.says = cmd.says
        /\ said'.op = cmd.op /\ said'.build = cmd.build
    BY DEF Report
  <2>2. file'[FileOf(Current)] = cmd.new
    BY <1>4 DEF CurrentFile
  <2> QED
    BY <1>1, <1>3, <2>1, <2>2 DEF SaidInv
<1> QED
  BY <1>5, <1>6, <1>7 DEF ReportInv

LEMMA ReportStep == InstallInv /\ ReportInv /\ [Next]_vars => ReportInv'
<1> SUFFICES ASSUME InstallInv, ReportInv, [Next]_vars PROVE ReportInv'
  OBVIOUS
<1>0. TidyInv /\ HandInv /\ SaidInv
  BY DEF ReportInv
<1>1. ASSUME NEW op, NEW v, NEW force, Start(op, v, force) PROVE ReportInv'
  <2>1. file' = file /\ said' = Nothing /\ cmd'.pc = "read"
    BY <1>1 DEF Start
  <2> QED
    BY <1>0, <2>1 DEF ReportInv, TidyInv, HandInv, SaidInv
<1>2. CASE Read
  <2>1. cmd # Idle /\ cmd.pc = "read" /\ file' = file
    BY <1>2 DEF Read, Running
  <2> DEFINE seen == file[CurrentFile]
             step == Outcome(cmd, Current, Part(Current, seen))
  <2>2. /\ CurrentFile \in Files /\ Current \in StepNames /\ Understood(cmd)
        /\ seen \in Contents(CurrentFile) /\ Tidy(CurrentFile, seen)
    BY <1>0, <2>1, InHand DEF InstallInv, CmdInv, FilesInv, TidyInv
  <2>3. CASE Writes(cmd.op, step.says)
    <3>1. /\ cmd' = [cmd EXCEPT !.pc = "write", !.seen = seen,
                                !.new = WithPart(Current, seen, step.new), !.says = step.says]
          /\ said' = said
      BY <1>2, <2>3 DEF Read, Writes
    <3> HIDE DEF step
    <3>2. /\ cmd'.op = cmd.op /\ cmd'.build = cmd.build /\ cmd'.force = cmd.force
          /\ cmd'.todo = cmd.todo /\ cmd'.seen = seen /\ cmd'.says = step.says
      BY <2>1, <3>1 DEF InstallInv, CmdInv
    <3>3. Current' = Current /\ CurrentFile' = CurrentFile
      BY <3>2 DEF Current, CurrentFile
    <3>4. Outcome(cmd', Current, Part(Current, seen)) = step
      BY <3>2, SameOutcome DEF step
    <3>5. HandInv'
      BY <2>2, <3>2, <3>3, <3>4 DEF HandInv
    <3> QED
      BY <1>0, <2>1, <3>1, <3>5 DEF ReportInv, TidyInv, SaidInv
  <2>4. CASE ~Writes(cmd.op, step.says)
    <3>1. Report(step.says)
      BY <1>2, <2>4 DEF Read, Writes
    <3>2. Truth(cmd.op, cmd.build, Current, step.says, Part(Current, seen))
      BY <2>2, <2>4, StepReports DEF CurrentFile
    <3> HIDE DEF step
    <3>3. HandInv'
      BY <2>1, <3>1, ProceedReads DEF Report
    <3>4. SaidInv'
      <4>1. /\ said'.step = Current /\ said'.says = step.says
            /\ said'.op = cmd.op /\ said'.build = cmd.build
        BY <3>1 DEF Report
      <4>2. file'[FileOf(Current)] = seen
        BY <2>1 DEF CurrentFile
      <4> HIDE DEF seen
      <4> QED
        BY <2>2, <3>2, <4>1, <4>2 DEF SaidInv
    <3> QED
      BY <1>0, <2>1, <3>3, <3>4 DEF ReportInv, TidyInv
  <2> QED
    BY <2>3, <2>4
<1>3. ASSUME cmd # Idle, cmd.pc # "read", NEW pc, NEW tmp, cmd' = [cmd EXCEPT !.pc = pc, !.tmp = tmp],
             UNCHANGED <<file, said>>
      PROVE  ReportInv'
  <2>1. /\ cmd'.op = cmd.op /\ cmd'.build = cmd.build /\ cmd'.force = cmd.force
        /\ cmd'.todo = cmd.todo /\ cmd'.seen = cmd.seen /\ cmd'.says = cmd.says
    BY <1>3 DEF InstallInv, CmdInv
  <2>2. Current' = Current /\ CurrentFile' = CurrentFile
    BY <2>1 DEF Current, CurrentFile
  <2>3. Outcome(cmd', Current, Part(Current, cmd.seen)) = Outcome(cmd, Current, Part(Current, cmd.seen))
    BY <2>1, SameOutcome
  <2>4. HandInv'
    BY <1>0, <1>3, <2>1, <2>2, <2>3 DEF HandInv
  <2> QED
    BY <1>0, <1>3, <2>4 DEF ReportInv, TidyInv, SaidInv
<1>4. CASE Stage
  BY <1>3, <1>4 DEF Stage, Running
<1>5. CASE Fill
  BY <1>3, <1>5 DEF Fill, Running
<1>6. CASE Commit
  <2>1. cmd # Idle /\ cmd.pc = "commit" /\ cmd.tmp = cmd.new /\ Report(cmd.says)
    BY <1>6 DEF Commit, Running, InstallInv, CmdInv
  <2>2. file' = [file EXCEPT ![CurrentFile] = cmd.new]
    BY <1>6, <2>1 DEF Commit
  <2> QED
    BY <2>1, <2>2, ReplacesTidy
<1>7. CASE Remove
  <2>1. cmd # Idle /\ cmd.pc = "write" /\ cmd.new = Nothing /\ Report(cmd.says)
    BY <1>7 DEF Remove, Running
  <2>2. file' = [file EXCEPT ![CurrentFile] = cmd.new]
    BY <1>7, <2>1 DEF Remove
  <2> QED
    BY <2>1, <2>2, ReplacesTidy
<1>8. CASE Fail \/ Crash
  <2>1. cmd # Idle /\ UNCHANGED <<file, said>> /\ (cmd' = Idle \/ Proceed)
    BY <1>8 DEF Fail, Crash
  <2>2. HandInv'
    BY <2>1, ProceedReads DEF HandInv
  <2> QED
    BY <1>0, <2>1, <2>2 DEF ReportInv, TidyInv, SaidInv
<1>9. ASSUME NEW f \in Files, Edit(f) PROVE ReportInv'
  <2>1. edits + 1 \in 1 .. MaxEdits /\ said' = Nothing /\ cmd' = cmd
    BY <1>9, InstallAssumption DEF Edit, InstallAssumption, InstallInv
  <2>2. PICK x \in EditsOf(f, file[f], User(edits + 1)) : file' = [file EXCEPT ![f] = x]
    BY <1>9 DEF Edit
  <2>3. Tidy(f, x)
    BY <1>0, <2>1, <2>2, EditsTidy DEF InstallInv, FilesInv, TidyInv
  <2>4. TidyInv'
    BY <1>0, <2>2, <2>3 DEF InstallInv, FilesInv, TidyInv
  <2>5. HandInv'
    <3>1. Current' = Current /\ CurrentFile' = CurrentFile
      BY <2>1 DEF Current, CurrentFile
    <3> QED
      BY <1>0, <2>1, <3>1 DEF HandInv
  <2> QED
    BY <2>1, <2>4, <2>5 DEF ReportInv, SaidInv
<1>10. CASE UNCHANGED vars
  <2>1. UNCHANGED <<file, cmd, said>>
    BY <1>10 DEF vars
  <2>2. Current' = Current /\ CurrentFile' = CurrentFile
    BY <2>1 DEF Current, CurrentFile
  <2> QED
    BY <1>0, <2>1, <2>2 DEF ReportInv, TidyInv, HandInv, SaidInv
<1> QED
  BY <1>1, <1>2, <1>4, <1>5, <1>6, <1>7, <1>8, <1>9, <1>10 DEF Next

\* After an install a file holds brick's part once and in the build's own form, after an
\* uninstall nothing of it under any event, and a status tells which (agent.rs, claude_hook.rs,
\* native_hook.rs, mcp_config.rs, skill.rs).
THEOREM Reports == Spec => []ReportsTrue
<1>1. ReportInv => ReportsTrue
  BY DEF ReportInv, SaidInv, ReportsTrue, Truth
<1> QED
  BY <1>1, InstallInvariance, ReportInit, ReportStep, PTL DEF Spec

=============================================================================
