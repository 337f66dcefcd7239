--------------------------- MODULE ListingProofs ----------------------------
(* What the pages of a listing hold, for every set of key IDs, every page   *)
(* size and every number of keys.                                           *)
EXTENDS Listing, FiniteSetTheorems, FunctionTheorems, SequenceTheorems, TLAPS

-----------------------------------------------------------------------------
(* Sorting.  Sorted takes the element of each rank; that there is exactly   *)
(* one follows without induction: ranks are injective into 0 .. |S| - 1, so *)
(* they are all taken.                                                      *)

\* How many elements of S come before x.
Rank(S, x) == Cardinality({y \in S : y < x})

LEMMA RankFacts ==
    ASSUME NEW S \in SUBSET Nat, IsFiniteSet(S)
    PROVE  /\ Cardinality(S) \in Nat
           /\ \A x \in S : Rank(S, x) \in 0 .. Cardinality(S) - 1
           /\ \A x, y \in S : x < y => Rank(S, x) < Rank(S, y)
           /\ \A x, y \in S : Rank(S, x) = Rank(S, y) => x = y
<1>1. Cardinality(S) \in Nat  BY FS_CardinalityType
<1>2. ASSUME NEW x \in S PROVE Rank(S, x) \in 0 .. Cardinality(S) - 1
  <2> DEFINE L == {y \in S : y < x}
  <2>1. L \in SUBSET S /\ x \notin L  OBVIOUS
  <2> HIDE DEF L
  <2>2. IsFiniteSet(L) /\ Cardinality(L) <= Cardinality(S) /\ Cardinality(L) # Cardinality(S)
    BY <2>1, FS_Subset
  <2>3. Cardinality(L) \in Nat  BY <2>2, FS_CardinalityType
  <2>4. Rank(S, x) = Cardinality(L)  BY DEF Rank, L
  <2> QED  BY <1>1, <2>2, <2>3, <2>4
<1>3. ASSUME NEW x \in S, NEW y \in S, x < y PROVE Rank(S, x) < Rank(S, y)
  <2> DEFINE L == {z \in S : z < x}  M == {z \in S : z < y}
  <2>0. \A z \in S : z < x => z < y  BY <1>3
  <2>1. M \in SUBSET S /\ L \in SUBSET M /\ x \in M /\ x \notin L
    <3>1. M \in SUBSET S /\ x \in M  BY <1>3
    <3>2. L \in SUBSET M  BY <2>0
    <3>3. x \in Nat  OBVIOUS
    <3>4. x \notin L  BY <3>3
    <3> QED  BY <3>1, <3>2, <3>4
  <2>2. Rank(S, x) = Cardinality(L) /\ Rank(S, y) = Cardinality(M)  BY DEF Rank
  <2> HIDE DEF L, M
  <2>3. IsFiniteSet(M)  BY <2>1, FS_Subset
  <2>4. IsFiniteSet(L) /\ Cardinality(L) <= Cardinality(M) /\ Cardinality(L) # Cardinality(M)
    BY <2>1, <2>3, FS_Subset
  <2>5. Cardinality(L) \in Nat /\ Cardinality(M) \in Nat
    BY <2>3, <2>4, FS_CardinalityType
  <2> QED  BY <2>2, <2>4, <2>5
<1>4. ASSUME NEW x \in S, NEW y \in S, Rank(S, x) = Rank(S, y) PROVE x = y
  <2>1. ~(x < y) /\ ~(y < x)  BY <1>1, <1>2, <1>3, <1>4
  <2> QED  BY <2>1
<1> QED  BY <1>1, <1>2, <1>3, <1>4

LEMMA RankTaken ==
    ASSUME NEW S \in SUBSET Nat, IsFiniteSet(S), NEW n \in 0 .. Cardinality(S) - 1
    PROVE  \E x \in S : Rank(S, x) = n
<1> DEFINE T == 0 .. Cardinality(S) - 1  f == [x \in S |-> Rank(S, x)]
<1>1. Cardinality(S) \in Nat  BY RankFacts
<1>2. IsFiniteSet(T) /\ Cardinality(T) = Cardinality(S)
  BY <1>1, FS_Interval
<1>3. f \in [S -> T] /\ \A x, y \in S : f[x] = f[y] => x = y  BY RankFacts
<1>4. \A x \in S : f[x] = Rank(S, x)  OBVIOUS
<1>5. n \in T  OBVIOUS
<1> HIDE DEF T, f
<1>6. f \in Injection(S, T)  BY <1>3, Fun_IsInj
<1>7. f \in Surjection(S, T)  BY <1>2, <1>6, FS_Injection
<1>8. \E x \in S : f[x] = n  BY <1>5, <1>7 DEF Surjection
<1> QED  BY <1>4, <1>8

\* Sorted(S) is S in ascending order.
LEMMA SortedFacts ==
    ASSUME NEW S \in SUBSET Nat, IsFiniteSet(S)
    PROVE  /\ Sorted(S) \in Seq(S) /\ Sorted(S) \in [1 .. Cardinality(S) -> S]
           /\ Cardinality(S) \in Nat /\ Len(Sorted(S)) = Cardinality(S)
           /\ \A i \in 1 .. Cardinality(S) : Rank(S, Sorted(S)[i]) = i - 1
           /\ \A x \in S : /\ Rank(S, x) + 1 \in 1 .. Cardinality(S)
                           /\ Sorted(S)[Rank(S, x) + 1] = x
           /\ \A i, j \in 1 .. Cardinality(S) : i < j => Sorted(S)[i] < Sorted(S)[j]
<1> DEFINE N == Cardinality(S)
<1>1. N \in Nat  BY RankFacts
<1>2. ASSUME NEW i \in 1 .. N PROVE Sorted(S)[i] \in S /\ Rank(S, Sorted(S)[i]) = i - 1
  <2>1. Sorted(S)[i] = CHOOSE x \in S : Rank(S, x) = i - 1  BY DEF Sorted, Rank
  <2>2. i - 1 \in 0 .. N - 1  BY <1>1
  <2>3. \E x \in S : Rank(S, x) = i - 1  BY <2>2, RankTaken
  <2> QED  BY <2>1, <2>3
<1>3. Sorted(S) = [i \in 1 .. N |-> Sorted(S)[i]]  BY DEF Sorted
<1>4. Sorted(S) \in [1 .. N -> S]  BY <1>2, <1>3
<1>5. Sorted(S) \in Seq(S) /\ Len(Sorted(S)) = N  BY <1>1, <1>4
<1>6. ASSUME NEW x \in S PROVE Rank(S, x) + 1 \in 1 .. N /\ Sorted(S)[Rank(S, x) + 1] = x
  <2>1. Rank(S, x) \in 0 .. N - 1  BY RankFacts
  <2>2. Rank(S, x) + 1 \in 1 .. N  BY <1>1, <2>1
  <2> DEFINE y == Sorted(S)[Rank(S, x) + 1]
  <2>3. y \in S /\ Rank(S, y) = Rank(S, x)  BY <1>2, <2>1, <2>2
  <2> HIDE DEF y
  <2>4. y = x  BY <2>3, RankFacts
  <2> QED  BY <2>2, <2>4 DEF y
<1>7. ASSUME NEW i \in 1 .. N, NEW j \in 1 .. N, i < j PROVE Sorted(S)[i] < Sorted(S)[j]
  <2> DEFINE x == Sorted(S)[i]  y == Sorted(S)[j]
  <2>1. x \in S /\ y \in S /\ Rank(S, x) = i - 1 /\ Rank(S, y) = j - 1  BY <1>2
  <2> HIDE DEF x, y
  <2>2. x # y  BY <1>7, <2>1
  <2>3. ~(y < x)
    <3>1. y < x => Rank(S, y) < Rank(S, x)  BY <2>1, RankFacts
    <3> QED  BY <1>7, <2>1, <3>1
  <2>4. x \in Nat /\ y \in Nat  BY <2>1
  <2>5. x < y  BY <2>2, <2>3, <2>4
  <2> QED  BY <2>5 DEF x, y
<1> QED  BY <1>1, <1>2, <1>4, <1>5, <1>6, <1>7

\* The elements a page token leaves behind, and those it has passed.
Above(S, t) == {x \in S : x > t}
UpTo(S, t) == {x \in S : x <= t}

\* A sorted set from an element on is the sorted rest of it.
LEMMA SortedAbove ==
    ASSUME NEW S \in SUBSET Nat, IsFiniteSet(S), NEW t \in Nat
    PROVE  LET A == Above(S, t)  low == Cardinality(UpTo(S, t)) IN
           /\ A \in SUBSET Nat /\ IsFiniteSet(A) /\ Cardinality(A) \in Nat /\ low \in Nat
           /\ Cardinality(S) = low + Cardinality(A)
           /\ \A j \in 1 .. Cardinality(A) : Sorted(S)[low + j] = Sorted(A)[j]
<1> DEFINE A == Above(S, t)  L == UpTo(S, t)  low == Cardinality(L)
<1>0. \A x \in S : x > t <=> ~(x <= t)
  <2>1. \A x \in S : x \in Nat  OBVIOUS
  <2> QED  BY <2>1
<1>1. A \in SUBSET S /\ L \in SUBSET S /\ S = L \cup A /\ L \cap A = {}
  BY <1>0, Zenon DEF Above, UpTo
<1>2. A \in SUBSET Nat  BY <1>1
<1>3. \A x \in A, y \in L : y < x  BY DEF Above, UpTo
<1>4. \A x \in A, y \in A : y \in S /\ x \in S  BY <1>1
<1> HIDE DEF A, L
<1>5. IsFiniteSet(A) /\ IsFiniteSet(L)  BY <1>1, FS_Subset
<1>6. Cardinality(A) \in Nat /\ low \in Nat  BY <1>5, FS_CardinalityType
<1>7. Cardinality(S) = low + Cardinality(A)
  <2>1. Cardinality(S) = low + Cardinality(A) - Cardinality({})
    BY <1>1, <1>5, FS_Union
  <2> QED  BY <1>6, <2>1, FS_EmptySet
<1>8. ASSUME NEW x \in A PROVE Rank(S, x) = low + Rank(A, x)
  <2> DEFINE B == {y \in A : y < x}
  <2>1. B \in SUBSET A  OBVIOUS
  <2>2. {y \in S : y < x} = L \cup B  BY <1>1, <1>3
  <2>3. L \cap B = {}  BY <1>1
  <2>4. Rank(A, x) = Cardinality(B)  BY DEF Rank
  <2> HIDE DEF B
  <2>5. IsFiniteSet(B)  BY <1>5, <2>1, FS_Subset
  <2>6. Cardinality(B) \in Nat  BY <2>5, FS_CardinalityType
  <2>7. Cardinality(L \cup B) = low + Cardinality(B) - Cardinality({})
    BY <1>5, <2>3, <2>5, FS_Union
  <2> QED  BY <1>6, <2>2, <2>4, <2>6, <2>7, FS_EmptySet DEF Rank
<1>9. ASSUME NEW j \in 1 .. Cardinality(A) PROVE Sorted(S)[low + j] = Sorted(A)[j]
  <2> DEFINE x == Sorted(A)[j]
  <2>1. x \in A /\ Rank(A, x) = j - 1  BY <1>2, <1>5, SortedFacts
  <2> HIDE DEF x
  <2>2. Rank(S, x) + 1 = low + j  BY <1>6, <1>8, <2>1
  <2>3. Sorted(S)[Rank(S, x) + 1] = x  BY <1>1, <2>1, SortedFacts
  <2> QED  BY <2>2, <2>3 DEF x
<1> QED  BY <1>2, <1>5, <1>6, <1>7, <1>9 DEF A, L

\* The elements of the n lowest ranks are the first n.
LEMMA SortedFirst ==
    ASSUME NEW S \in SUBSET Nat, IsFiniteSet(S), NEW n \in 0 .. Cardinality(S)
    PROVE  LET F == {x \in S : Rank(S, x) < n} IN
           /\ F \in SUBSET Nat /\ IsFiniteSet(F) /\ Cardinality(F) = n
           /\ \A j \in 1 .. n : Sorted(F)[j] = Sorted(S)[j]
<1> DEFINE F == {x \in S : Rank(S, x) < n}
<1>1. F \in SUBSET S /\ F \in SUBSET Nat  OBVIOUS
<1>2. \A x \in S : x \in F <=> Rank(S, x) < n  OBVIOUS
<1>3. n \in Nat /\ Cardinality(S) \in Nat /\ n <= Cardinality(S)  BY RankFacts
<1> HIDE DEF F
<1>4. IsFiniteSet(F)  BY <1>1, FS_Subset
<1>5. \A j \in 1 .. n : Sorted(S)[j] \in F
  <2>1. \A j \in 1 .. n : /\ j \in 1 .. Cardinality(S) /\ Sorted(S)[j] \in S
                          /\ Rank(S, Sorted(S)[j]) = j - 1
    BY <1>3, SortedFacts
  <2>2. \A j \in 1 .. n : j - 1 < n  BY <1>3
  <2> QED  BY <1>2, <2>1, <2>2
<1>6. Cardinality(F) = n
  <2> DEFINE f == [j \in 1 .. n |-> Sorted(S)[j]]
  <2>1. f \in [1 .. n -> F]  BY <1>5
  <2>2. \A i, j \in 1 .. n : f[i] = f[j] => i = j
    <3>1. \A i \in 1 .. n : f[i] = Sorted(S)[i] /\ i \in 1 .. Cardinality(S)  BY <1>3
    <3>2. \A i \in 1 .. n : Rank(S, f[i]) = i - 1  BY <3>1, SortedFacts
    <3> HIDE DEF f
    <3>3. ASSUME NEW i \in 1 .. n, NEW j \in 1 .. n, f[i] = f[j] PROVE i = j
      <4>1. i - 1 = j - 1  BY <3>2, <3>3
      <4> QED  BY <4>1
    <3> QED  BY <3>3
  <2>3. ASSUME NEW x \in F PROVE \E j \in 1 .. n : f[j] = x
    <3>1. x \in S /\ Rank(S, x) < n  BY <1>1, <1>2
    <3>2. Rank(S, x) \in 0 .. Cardinality(S) - 1 /\ Sorted(S)[Rank(S, x) + 1] = x
      BY <3>1, RankFacts, SortedFacts
    <3>3. Rank(S, x) + 1 \in 1 .. n  BY <1>3, <3>1, <3>2
    <3> QED  BY <3>2, <3>3
  <2> HIDE DEF f
  <2>4. f \in Bijection(1 .. n, F)  BY <2>1, <2>2, <2>3, Fun_IsBij
  <2>5. ExistsBijection(1 .. n, F)  BY <2>4 DEF ExistsBijection
  <2> QED  BY <1>3, <2>5, FS_CountingElements
<1>7. ASSUME NEW x \in F PROVE Rank(F, x) = Rank(S, x)
  <2>1. ASSUME NEW y \in S, y < x PROVE y \in F
    <3>1. x \in S /\ Rank(S, x) < n /\ Rank(S, y) < Rank(S, x)
      BY <1>1, <1>2, <2>1, RankFacts
    <3>2. Rank(S, x) \in 0 .. Cardinality(S) - 1 /\ Rank(S, y) \in 0 .. Cardinality(S) - 1
      BY <3>1, RankFacts
    <3>3. Rank(S, y) < n  BY <1>3, <3>1, <3>2
    <3> QED  BY <1>2, <3>3
  <2>2. {y \in F : y < x} = {y \in S : y < x}  BY <1>1, <2>1
  <2> QED  BY <2>2 DEF Rank
<1>8. ASSUME NEW j \in 1 .. n PROVE Sorted(F)[j] = Sorted(S)[j]
  <2> DEFINE x == Sorted(S)[j]
  <2>1. j \in 1 .. Cardinality(S)  BY <1>3
  <2>2. x \in F /\ Rank(S, x) = j - 1  BY <1>5, <2>1, SortedFacts
  <2> HIDE DEF x
  <2>3. Rank(F, x) + 1 = j  BY <1>3, <1>7, <2>2
  <2>4. Sorted(F)[Rank(F, x) + 1] = x  BY <1>1, <1>4, <2>2, SortedFacts
  <2> QED  BY <2>3, <2>4 DEF x
<1> QED  BY <1>1, <1>4, <1>6, <1>8 DEF F

\* The binary search finds the place of any token, a key's ID or not.
LEMMA StartFacts ==
    ASSUME NEW S \in SUBSET (Nat \ {NoToken}), IsFiniteSet(S), NEW t \in Nat
    PROVE  Start(Sorted(S), t) = Cardinality(UpTo(S, t))
<1> DEFINE ids == Sorted(S)  B == {x \in S : x < t}  P == {i \in 1 .. Len(ids) : ids[i] < t}
<1>1. S \in SUBSET Nat  OBVIOUS
<1>2. /\ ids \in [1 .. Cardinality(S) -> S] /\ Len(ids) = Cardinality(S)
      /\ Cardinality(S) \in Nat
  BY <1>1, SortedFacts
<1>3. IsFiniteSet(B) /\ Cardinality(B) \in Nat
  <2>1. B \in SUBSET S  OBVIOUS
  <2> HIDE DEF B
  <2>2. IsFiniteSet(B)  BY <2>1, FS_Subset
  <2> QED  BY <2>2, FS_CardinalityType
<1>4. SearchStrings(ids, t) = Cardinality(B)
  <2> DEFINE f == [x \in B |-> Rank(S, x) + 1]
  <2>1. \A x \in B : /\ f[x] \in 1 .. Cardinality(S) /\ ids[f[x]] = x /\ x < t
    BY <1>1, SortedFacts
  <2>2. f \in [B -> P]
    <3>1. \A x \in B : f[x] \in P  BY <1>2, <2>1
    <3> QED  BY <3>1
  <2>3. \A x, y \in B : f[x] = f[y] => x = y  BY <2>1
  <2>4. ASSUME NEW i \in P PROVE \E x \in B : f[x] = i
    <3>1. i \in 1 .. Cardinality(S) /\ ids[i] \in S /\ ids[i] < t  BY <1>2
    <3>2. Rank(S, ids[i]) = i - 1  BY <1>1, <3>1, SortedFacts
    <3>3. f[ids[i]] = i  BY <1>2, <3>1, <3>2
    <3> QED  BY <3>1, <3>3
  <2>5. SearchStrings(ids, t) = Cardinality(P)  BY DEF SearchStrings
  <2> HIDE DEF f, P, B
  <2>6. f \in Bijection(B, P)  BY <2>2, <2>3, <2>4, Fun_IsBij
  <2>7. ExistsBijection(B, P)  BY <2>6 DEF ExistsBijection
  <2> QED  BY <1>3, <2>5, <2>7, FS_Bijection
<1>5. CASE t = NoToken
  <2>0. \A x \in S : ~(x <= t)
    <3>1. \A x \in S : x \in Nat /\ x # 0  BY DEF NoToken
    <3> QED  BY <1>5, <3>1 DEF NoToken
  <2>1. UpTo(S, t) = {}  BY <2>0, Zenon DEF UpTo
  <2> QED  BY <1>5, <2>1, FS_EmptySet DEF Start
<1>6. CASE t # NoToken /\ t \in S
  <2>0. (\A x \in S : x <= t <=> x < t \/ x = t) /\ ~(t < t)
    <3>1. \A x \in S : x \in Nat  OBVIOUS
    <3> QED  BY <3>1
  <2>1. UpTo(S, t) = B \cup {t} /\ t \notin B  BY <1>6, <2>0, Zenon DEF UpTo
  <2>2. Rank(S, t) = Cardinality(B)  BY DEF Rank
  <2> HIDE DEF B
  <2>3. Cardinality(UpTo(S, t)) = Cardinality(B) + 1  BY <1>3, <2>1, FS_AddElement
  <2>4. Cardinality(B) + 1 \in 1 .. Cardinality(S) /\ ids[Cardinality(B) + 1] = t
    BY <1>1, <1>6, <2>2, SortedFacts
  <2>5. Cardinality(B) < Len(ids)  BY <1>2, <1>3, <2>4
  <2> HIDE DEF ids
  <2>6. Start(ids, t) = Cardinality(B) + 1  BY <1>4, <1>6, <2>4, <2>5 DEF Start
  <2> QED  BY <2>3, <2>6 DEF ids
<1>7. CASE t # NoToken /\ t \notin S
  <2>0. \A x \in S : x <= t <=> x < t
    <3>1. \A x \in S : x \in Nat /\ x # t  BY <1>7
    <3> QED  BY <3>1
  <2>1. UpTo(S, t) = B  BY <2>0, Zenon DEF UpTo
  <2> HIDE DEF B
  <2>2. Cardinality(B) < Len(ids) => ids[Cardinality(B) + 1] # t
    <3>1. Cardinality(B) < Len(ids) => Cardinality(B) + 1 \in 1 .. Cardinality(S)
      BY <1>2, <1>3
    <3> HIDE DEF ids
    <3> QED  BY <1>2, <1>7, <3>1
  <2> HIDE DEF ids
  <2>3. Start(ids, t) = Cardinality(B)  BY <1>4, <1>7, <2>2 DEF Start
  <2> QED  BY <2>1, <2>3 DEF ids
<1> QED  BY <1>5, <1>6, <1>7

-----------------------------------------------------------------------------
(* One page.                                                                *)

LEMMA SubSeqAbove ==
    ASSUME NEW S \in SUBSET Nat, IsFiniteSet(S), NEW t \in Nat,
           NEW k \in 0 .. Cardinality(Above(S, t))
    PROVE  LET low == Cardinality(UpTo(S, t)) IN
           SubSeq(Sorted(S), low + 1, low + k) = SubSeq(Sorted(Above(S, t)), 1, k)
<1> DEFINE A == Above(S, t)  low == Cardinality(UpTo(S, t))
           x == SubSeq(Sorted(S), low + 1, low + k)  y == SubSeq(Sorted(A), 1, k)
<1>1. /\ A \in SUBSET Nat /\ IsFiniteSet(A) /\ Cardinality(A) \in Nat /\ low \in Nat
      /\ Cardinality(S) = low + Cardinality(A)
      /\ \A j \in 1 .. Cardinality(A) : Sorted(S)[low + j] = Sorted(A)[j]
  BY SortedAbove
<1>2. k \in Nat /\ k <= Cardinality(A)  BY <1>1
<1> HIDE DEF A, low
<1>3. \A i \in 1 .. k : Sorted(A)[i] \in Nat
  <2>1. Sorted(A) \in [1 .. Cardinality(A) -> A]  BY <1>1, SortedFacts
  <2>2. \A i \in 1 .. k : i \in 1 .. Cardinality(A)  BY <1>1, <1>2
  <2> QED  BY <1>1, <2>1, <2>2
<1>4. y \in Seq(Nat) /\ Len(y) = k /\ \A i \in 1 .. k : y[i] = Sorted(A)[i]
  <2>1. \A i \in 1 .. k : 1 + i - 1 = i  BY <1>2
  <2>2. /\ SubSeq(Sorted(A), 1, k) \in Seq(Nat)
        /\ Len(SubSeq(Sorted(A), 1, k)) = IF 1 <= k THEN k - 1 + 1 ELSE 0
        /\ \A i \in 1 .. k - 1 + 1 : SubSeq(Sorted(A), 1, k)[i] = Sorted(A)[1 + i - 1]
    BY <1>2, <1>3, SubSeqProperties
  <2>3. k - 1 + 1 = k  BY <1>2
  <2> QED  BY <1>2, <2>1, <2>2, <2>3
<1>5. \A i \in 1 .. k : Sorted(S)[low + i] = Sorted(A)[i]
  <2>1. \A i \in 1 .. k : i \in 1 .. Cardinality(A)  BY <1>1, <1>2
  <2> QED  BY <1>1, <2>1
<1>6. x \in Seq(Nat) /\ Len(x) = k /\ \A i \in 1 .. k : x[i] = Sorted(S)[low + i]
  <2>1. \A i \in low + 1 .. low + k : Sorted(S)[i] \in Nat
    <3>1. \A i \in low + 1 .. low + k : i - low \in 1 .. k /\ low + (i - low) = i
      BY <1>1, <1>2
    <3> QED  BY <1>3, <1>5, <3>1
  <2>2. /\ x \in Seq(Nat)
        /\ Len(x) = IF low + 1 <= low + k THEN (low + k) - (low + 1) + 1 ELSE 0
        /\ \A i \in 1 .. (low + k) - (low + 1) + 1 : x[i] = Sorted(S)[(low + 1) + i - 1]
    <3>1. low + 1 \in Int /\ low + k \in Int  BY <1>1, <1>2
    <3> QED  BY <2>1, <3>1, SubSeqProperties
  <2>3. (low + k) - (low + 1) + 1 = k /\ \A i \in 1 .. k : (low + 1) + i - 1 = low + i
    BY <1>1, <1>2
  <2>4. Len(x) = k  BY <1>1, <1>2, <2>2, <2>3
  <2> QED  BY <2>2, <2>3, <2>4
<1> HIDE DEF x, y
<1>7. x = y
  <2>1. \A i \in 1 .. Len(x) : x[i] = y[i]  BY <1>4, <1>5, <1>6
  <2> QED  BY <1>4, <1>6, <2>1, SeqEqual
<1> QED  BY <1>7 DEF x, y, A, low

LEMMA SortedWhole ==
    ASSUME NEW S \in SUBSET Nat, IsFiniteSet(S)
    PROVE  SubSeq(Sorted(S), 1, Cardinality(S)) = Sorted(S)
BY SortedFacts, SubSeqFull

\* What a page is a page of.
Ahead(table, q) == Above(Matching(table, q), q.token)

LEMMA MatchingFacts ==
    ASSUME NEW table, IsFiniteSet(DOMAIN table), DOMAIN table \subseteq Nat \ {NoToken}, NEW q
    PROVE  Matching(table, q) \in SUBSET (Nat \ {NoToken}) /\ IsFiniteSet(Matching(table, q))
<1>1. Matching(table, q) \in SUBSET DOMAIN table  BY DEF Matching
<1> QED  BY <1>1, FS_Subset

LEMMA PageSizeFacts == \A n \in Int : PageSize(n) \in Nat \ {0}
BY PageSizeAssumption DEF PageSize

\* memory: the page after the token.
LEMMA MemoryPages ==
    ASSUME NEW table, IsFiniteSet(DOMAIN table), DOMAIN table \subseteq Nat \ {NoToken},
           NEW q, q.token \in Nat, q.size \in Int
    PROVE  MemoryPage(table, q) = Truncated(Sorted(Ahead(table, q)), PageSize(q.size))
<1> DEFINE M == Matching(table, q)  A == Ahead(table, q)  n == PageSize(q.size)
           low == Cardinality(UpTo(M, q.token))  ids == Sorted(M)
           end == IF low + n > Len(ids) THEN Len(ids) ELSE low + n
<1>1. M \in SUBSET (Nat \ {NoToken}) /\ M \in SUBSET Nat /\ IsFiniteSet(M)
  BY MatchingFacts
<1>2. n \in Nat /\ n >= 1  BY PageSizeFacts
<1>3. Start(ids, q.token) = low  BY <1>1, StartFacts
<1>4. /\ A \in SUBSET Nat /\ IsFiniteSet(A) /\ Cardinality(A) \in Nat /\ low \in Nat
      /\ Cardinality(M) = low + Cardinality(A)
      /\ \A j \in 1 .. Cardinality(A) : ids[low + j] = Sorted(A)[j]
  BY <1>1, SortedAbove DEF Ahead
<1>5. Len(ids) = low + Cardinality(A) /\ Len(Sorted(A)) = Cardinality(A)
  BY <1>1, <1>4, SortedFacts
<1>6. MemoryPage(table, q) = [ids |-> SubSeq(ids, low + 1, end), next |-> NextToken(ids, end)]
  BY <1>3 DEF MemoryPage
<1>7. \A k \in 0 .. Cardinality(A) : SubSeq(ids, low + 1, low + k) = SubSeq(Sorted(A), 1, k)
  BY <1>1, SubSeqAbove DEF Ahead
<1> HIDE DEF M, A, n, low, ids
<1>8. CASE Cardinality(A) > n
  <2>1. end = low + n /\ end < Len(ids) /\ n \in 0 .. Cardinality(A) /\ n \in 1 .. Cardinality(A)
    BY <1>2, <1>4, <1>5, <1>8
  <2>2. SubSeq(ids, low + 1, end) = SubSeq(Sorted(A), 1, n)  BY <1>7, <2>1
  <2>3. NextToken(ids, end) = Sorted(A)[n]  BY <1>4, <2>1 DEF NextToken
  <2> QED  BY <1>5, <1>6, <1>8, <2>2, <2>3 DEF Truncated, A, n
<1>9. CASE ~(Cardinality(A) > n)
  <2>1. end = low + Cardinality(A) /\ ~(end < Len(ids)) /\ Cardinality(A) \in 0 .. Cardinality(A)
    <3>1. Cardinality(A) <= n  BY <1>2, <1>4, <1>9
    <3>2. end = low + Cardinality(A)  BY <1>2, <1>4, <1>5, <3>1
    <3>3. ~(low + Cardinality(A) < Len(ids))  BY <1>4, <1>5
    <3> QED  BY <1>4, <3>2, <3>3
  <2>2. SubSeq(ids, low + 1, end) = Sorted(A)  BY <1>4, <1>7, <2>1, SortedWhole
  <2>3. NextToken(ids, end) = NoToken  BY <2>1 DEF NextToken
  <2> QED  BY <1>5, <1>6, <1>9, <2>2, <2>3 DEF Truncated, A, n
<1> QED  BY <1>8, <1>9

\* postgres: the same, from one row more than the page has.
LEMMA PostgresPages ==
    ASSUME NEW table, IsFiniteSet(DOMAIN table), DOMAIN table \subseteq Nat \ {NoToken},
           NEW q, q.token \in Nat, q.size \in Int
    PROVE  PostgresPage(table, q) = Truncated(Sorted(Ahead(table, q)), PageSize(q.size))
<1> DEFINE M == Matching(table, q)  A == Ahead(table, q)  n == PageSize(q.size)
           F == {x \in A : Rank(A, x) < n + 1}
<1>1. M \in SUBSET (Nat \ {NoToken}) /\ M \in SUBSET Nat /\ IsFiniteSet(M)
  BY MatchingFacts
<1>2. n \in Nat /\ n >= 1  BY PageSizeFacts
<1>3. A \in SUBSET Nat /\ IsFiniteSet(A) /\ Cardinality(A) \in Nat
  BY <1>1, SortedAbove DEF Ahead
<1>4. {id \in M : q.token = NoToken \/ id > q.token} = A
  <2>1. \A id \in M : id \in Nat /\ id # 0  BY <1>1 DEF NoToken
  <2>2. \A id \in M : q.token = NoToken \/ id > q.token <=> id > q.token
    BY <2>1 DEF NoToken
  <2> HIDE DEF M
  <2>3. {id \in M : q.token = NoToken \/ id > q.token} = {id \in M : id > q.token}
    BY <2>2, Zenon
  <2> QED  BY <2>3 DEF Ahead, Above, M
<1>5. PostgresPage(table, q) = Truncated(Sorted(F), n)
  BY <1>4, Zenon DEF PostgresPage, Rank
<1>6. CASE Cardinality(A) > n
  <2>1. n + 1 \in 0 .. Cardinality(A)  BY <1>2, <1>3, <1>6
  <2>2. /\ F \in SUBSET Nat /\ IsFiniteSet(F) /\ Cardinality(F) = n + 1
        /\ \A j \in 1 .. n + 1 : Sorted(F)[j] = Sorted(A)[j]
    <3> HIDE DEF A, n
    <3> QED  BY <1>3, <2>1, SortedFirst
  <2> HIDE DEF F, A, n
  <2>3. /\ Len(Sorted(F)) = n + 1 /\ Sorted(F) \in [1 .. n + 1 -> F]
        /\ Len(Sorted(A)) = Cardinality(A)
    BY <1>3, <2>2, SortedFacts
  <2>4. SubSeq(Sorted(F), 1, n) = SubSeq(Sorted(A), 1, n)
    <3>1. \A j \in 1 .. n : j \in 1 .. n + 1  BY <1>2
    <3>2. \A j \in 1 .. n : Sorted(F)[j] = Sorted(A)[j] /\ Sorted(F)[j] \in Nat
      BY <2>2, <2>3, <3>1
    <3> DEFINE x == SubSeq(Sorted(F), 1, n)  y == SubSeq(Sorted(A), 1, n)
    <3>3. /\ x \in Seq(Nat) /\ y \in Seq(Nat)
          /\ Len(x) = IF 1 <= n THEN n - 1 + 1 ELSE 0
          /\ Len(y) = IF 1 <= n THEN n - 1 + 1 ELSE 0
          /\ \A i \in 1 .. n - 1 + 1 : x[i] = Sorted(F)[1 + i - 1]
          /\ \A i \in 1 .. n - 1 + 1 : y[i] = Sorted(A)[1 + i - 1]
      BY <1>2, <3>2, SubSeqProperties
    <3>4. n - 1 + 1 = n /\ \A i \in 1 .. n : 1 + i - 1 = i  BY <1>2
    <3> HIDE DEF x, y
    <3>5. Len(x) = n /\ Len(y) = n /\ \A i \in 1 .. n : x[i] = y[i]
      BY <1>2, <3>2, <3>3, <3>4
    <3>6. x = y  BY <3>3, <3>5, SeqEqual
    <3> QED  BY <3>6 DEF x, y
  <2>5. Sorted(F)[n] = Sorted(A)[n]  BY <1>2, <2>2
  <2>6. n + 1 > n  BY <1>2
  <2> QED  BY <1>5, <1>6, <2>3, <2>4, <2>5, <2>6 DEF Truncated, A, n
<1>7. CASE ~(Cardinality(A) > n)
  <2>1. \A x \in A : Rank(A, x) < n + 1
    <3>1. \A x \in A : Rank(A, x) \in 0 .. Cardinality(A) - 1  BY <1>3, RankFacts
    <3> HIDE DEF A, n
    <3> QED  BY <1>2, <1>3, <1>7, <3>1
  <2>2. F = A
    <3> HIDE DEF A, n
    <3> QED  BY <2>1
  <2> QED  BY <1>5, <2>2
<1> QED  BY <1>6, <1>7

\* A page starts with the first key ahead and leaves none out: without a
\* token nothing is left, with one it is the last key of the page and there
\* is more to come.
LEMMA PageFacts ==
    ASSUME NEW A \in SUBSET (Nat \ {NoToken}), IsFiniteSet(A), NEW n \in Nat \ {0}
    PROVE  LET page == Truncated(Sorted(A), n)
               Holds(x) == \E i \in 1 .. Len(page.ids) : page.ids[i] = x
           IN /\ page.ids \in Seq(A)
              /\ \A i, j \in 1 .. Len(page.ids) : i < j => page.ids[i] < page.ids[j]
              /\ page.next = NoToken => \A x \in A : Holds(x)
              /\ page.next # NoToken =>
                    /\ page.next \in A /\ \E x \in A : x > page.next
                    /\ \A i \in 1 .. Len(page.ids) : page.ids[i] <= page.next
                    /\ \A x \in A : x <= page.next => Holds(x)
<1> DEFINE s == Sorted(A)  N == Cardinality(A)
<1>1. A \in SUBSET Nat  OBVIOUS
<1>2. /\ s \in Seq(A) /\ s \in [1 .. N -> A] /\ N \in Nat /\ Len(s) = N
      /\ \A x \in A : Rank(A, x) + 1 \in 1 .. N /\ s[Rank(A, x) + 1] = x
      /\ \A i, j \in 1 .. N : i < j => s[i] < s[j]
  BY <1>1, SortedFacts
<1>3. CASE ~(N > n)
  <2>1. Truncated(s, n) = [ids |-> s, next |-> NoToken]  BY <1>2, <1>3 DEF Truncated
  <2>2. \A x \in A : \E i \in 1 .. Len(s) : s[i] = x  BY <1>2
  <2> HIDE DEF s, N
  <2> QED  BY <1>2, <2>1, <2>2 DEF s
<1>4. CASE N > n
  <2> DEFINE ids == SubSeq(s, 1, n)
  <2>1. Truncated(s, n) = [ids |-> ids, next |-> s[n]]  BY <1>2, <1>4 DEF Truncated
  <2>2. \A i \in 1 .. n : i \in 1 .. N /\ 1 + i - 1 = i  BY <1>2, <1>4
  <2>3. n - 1 + 1 = n /\ 1 <= n /\ n \in 1 .. N /\ n + 1 \in 1 .. N /\ n < n + 1
    BY <1>2, <1>4
  <2>4. \A i \in 1 .. n : s[i] \in A  BY <1>2, <2>2
  <2>5. ids \in Seq(A) /\ Len(ids) = n /\ \A i \in 1 .. n : ids[i] = s[i]
    <3>1. /\ ids \in Seq(A) /\ Len(ids) = IF 1 <= n THEN n - 1 + 1 ELSE 0
          /\ \A i \in 1 .. n - 1 + 1 : ids[i] = s[1 + i - 1]
      <4> HIDE DEF s
      <4> QED  BY <2>4, SubSeqProperties
    <3> QED  BY <2>2, <2>3, <3>1
  <2> HIDE DEF ids
  <2>6. \A i, j \in 1 .. n : i < j => ids[i] < ids[j]  BY <1>2, <2>2, <2>5
  <2>7. s[n] \in A /\ s[n] # NoToken /\ s[n + 1] \in A /\ s[n + 1] > s[n]
    <3> HIDE DEF s, N
    <3>1. s[n] \in A /\ s[n + 1] \in A /\ s[n] < s[n + 1]  BY <1>2, <2>3
    <3>2. s[n] \in Nat /\ s[n + 1] \in Nat /\ s[n] # NoToken  BY <3>1
    <3> QED  BY <3>1, <3>2
  <2>8. ASSUME NEW i \in 1 .. n PROVE ids[i] <= s[n]
    <3> HIDE DEF s, N
    <3>1. i \in 1 .. N /\ s[i] \in Nat /\ s[n] \in Nat  BY <1>1, <2>2, <2>4, <2>7
    <3>2. CASE i = n  BY <2>5, <3>1, <3>2
    <3>3. CASE i # n
      <4>1. i < n  BY <3>3
      <4>2. s[i] < s[n]  BY <1>2, <2>3, <3>1, <4>1
      <4> QED  BY <2>5, <3>1, <4>2
    <3> QED  BY <3>2, <3>3
  <2>9. ASSUME NEW x \in A, x <= s[n] PROVE \E i \in 1 .. n : ids[i] = x
    <3> DEFINE i == Rank(A, x) + 1
    <3>1. i \in 1 .. N /\ s[i] = x  BY <1>2
    <3> HIDE DEF s, N, i
    <3>2. x \in Nat /\ s[n] \in Nat  BY <1>1, <2>7
    <3>3. ~(n < i)
      <4>1. n < i => s[n] < x  BY <1>2, <2>3, <3>1
      <4> QED  BY <2>9, <3>2, <4>1
    <3>4. i \in 1 .. n  BY <1>2, <3>1, <3>3
    <3> QED  BY <2>5, <3>1, <3>4
  <2> HIDE DEF s, N
  <2> DEFINE page == Truncated(s, n)
  <2>10. page.ids = ids /\ page.next = s[n]  BY <2>1
  <2> HIDE DEF page
  <2>11. page.next # NoToken /\ page.next \in A /\ \E x \in A : x > page.next
    BY <2>7, <2>10
  <2>12. page.ids \in Seq(A) /\ Len(page.ids) = n  BY <2>5, <2>10
  <2> QED  BY <2>6, <2>8, <2>9, <2>10, <2>11, <2>12 DEF page, s
<1> QED  BY <1>3, <1>4

=============================================================================
