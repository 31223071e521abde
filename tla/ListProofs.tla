----------------------------- MODULE ListProofs -----------------------------
(***************************************************************************)
(* What unlinking does to a list: whose elements remain, that they remain  *)
(* distinct, and that they keep their order.                               *)
(***************************************************************************)
EXTENDS Lists, FiniteSetTheorems, WellFoundedInduction, TLAPS

(* A non-empty set of positions has a first and a last one. *)
LEMMA FirstAndLast ==
    ASSUME NEW n \in Nat, NEW at \in SUBSET (1 .. n), at # {}
    PROVE  /\ Min(at) \in at /\ \A i \in at : Min(at) <= i
           /\ Max(at) \in at /\ \A i \in at : i <= Max(at)
<1>1. ASSUME NEW A, A \subseteq Nat, A # {}
      PROVE  \E x \in A : \A y \in A : x =< y
  <2>1. PICK x \in A : \A y \in A : ~(<<y, x>> \in OpToRel(<, Nat))
    BY <1>1, NatLessThanWellFounded, WFMin
  <2>2. ASSUME NEW y \in A PROVE x =< y
    <3>1. x \in Nat /\ y \in Nat
      BY <1>1
    <3>2. ~(y < x)
      BY <2>1, <2>2, <3>1 DEF OpToRel
    <3> QED
      BY <3>1, <3>2
  <2> QED
    BY <2>2
<1>2. \E x \in at : \A y \in at : x =< y
  <2>1. at \subseteq Nat
    OBVIOUS
  <2> QED
    BY <1>1, <2>1
<1>3. \E x \in at : \A y \in at : x >= y
  <2> DEFINE back == {n - i : i \in at}
  <2>1. back # {}
    OBVIOUS
  <2>2. back \subseteq Nat
    <3>1. ASSUME NEW i \in at PROVE n - i \in Nat
      OBVIOUS
    <3> QED
      BY <3>1
  <2>3. PICK x \in back : \A y \in back : x =< y
    <3> HIDE DEF back
    <3> QED
      BY <1>1, <2>1, <2>2
  <2>4. PICK k \in at : x = n - k
    BY <2>3
  <2>5. ASSUME NEW y \in at PROVE k >= y
    <3>1. x =< n - y
      BY <2>3
    <3> QED
      BY <2>4, <3>1
  <2> QED
    BY <2>4, <2>5
<1> QED
  BY <1>2, <1>3 DEF Min, Max

(* A sequence of positions is counted through: what is true of none and goes
   from each to the next is true of all. *)
LEMMA Counting ==
    ASSUME NEW n \in Nat, NEW C, 0 \in C, \A k \in 0 .. n - 1 : k \in C => k + 1 \in C
    PROVE  \A k \in 0 .. n : k \in C
<1> DEFINE missed == {k \in 0 .. n : k \notin C}
<1> SUFFICES ASSUME missed # {} PROVE FALSE
  OBVIOUS
<1> DEFINE at == {k + 1 : k \in missed}
<1>1. n + 1 \in Nat /\ at \in SUBSET (1 .. n + 1) /\ at # {}
  OBVIOUS
<1>2. Min(at) \in at /\ \A i \in at : Min(at) <= i
  <2> HIDE DEF at
  <2> QED
    BY <1>1, FirstAndLast
<1>3. PICK k \in missed : \A i \in missed : k <= i
  <2>1. PICK k \in missed : Min(at) = k + 1
    BY <1>2
  <2>2. ASSUME NEW i \in missed PROVE k <= i
    <3>1. i + 1 \in at
      OBVIOUS
    <3> HIDE DEF at
    <3>2. k + 1 <= i + 1
      BY <1>2, <2>1, <3>1
    <3> QED
      BY <3>2
  <2> QED
    BY <2>2
<1> QED
  BY <1>3

(* Of two positions of a finite set, the later one has the greater rank. *)
LEMMA RankGrows ==
    ASSUME NEW at \in SUBSET Int, IsFiniteSet(at), NEW i \in at, NEW j \in at, i < j
    PROVE  Rank(at, i) < Rank(at, j)
<1> DEFINE I == {k \in at : k <= i}
           J == {k \in at : k <= j}
<1>1. IsFiniteSet(J) /\ I \in SUBSET J /\ I # J
  <2>1. IsFiniteSet(J)
    BY FS_Subset
  <2>2. i \in Int /\ j \in Int /\ \A k \in at : k \in Int
    OBVIOUS
  <2>3. ASSUME NEW k \in I PROVE k \in J
    <3>1. k \in at /\ k <= i
      OBVIOUS
    <3>2. k <= j
      BY <2>2, <3>1
    <3> QED
      BY <3>1, <3>2
  <2>4. j \in J /\ j \notin I
    BY <2>2
  <2> QED
    BY <2>1, <2>3, <2>4
<1>2. IsFiniteSet(I) /\ Cardinality(I) <= Cardinality(J)
      /\ (Cardinality(I) = Cardinality(J) => I = J)
  <2> HIDE DEF I, J
  <2> QED
    BY <1>1, FS_Subset
<1>3. Cardinality(I) \in Nat /\ Cardinality(J) \in Nat
  BY <1>1, <1>2, FS_CardinalityType
<1> QED
  BY <1>1, <1>2, <1>3 DEF Rank

(* The ranks of a finite set of positions count them: every number from one to
   the size of the set is the rank of one position. *)
LEMMA RankCounts ==
    ASSUME NEW at \in SUBSET Int, IsFiniteSet(at)
    PROVE  /\ Cardinality(at) \in Nat
           /\ \A i \in at : Rank(at, i) \in 1 .. Cardinality(at)
           /\ \A k \in 1 .. Cardinality(at) : \E i \in at : Rank(at, i) = k
<1> DEFINE n == Cardinality(at)
           rank == [i \in at |-> Rank(at, i)]
<1>1. n \in Nat
  BY FS_CardinalityType
<1>2. ASSUME NEW i \in at PROVE Rank(at, i) \in 1 .. n
  <2> DEFINE I == {k \in at : k <= i}
  <2>1. I \in SUBSET at /\ i \in I
    OBVIOUS
  <2>2. IsFiniteSet(I) /\ Cardinality(I) <= n
    BY <2>1, FS_Subset
  <2>3. Cardinality(I) \in Nat /\ (Cardinality(I) = 0 <=> I = {})
    BY <2>2, FS_CardinalityType, FS_EmptySet
  <2> QED
    BY <1>1, <2>1, <2>2, <2>3 DEF Rank
<1>3. rank \in Injection(at, 1 .. n)
  <2>1. rank \in [at -> 1 .. n]
    BY <1>2
  <2>2. \A i, j \in at : rank[i] = rank[j] => i = j
    <3> SUFFICES ASSUME NEW i \in at, NEW j \in at, i # j PROVE Rank(at, i) # Rank(at, j)
      OBVIOUS
    <3>1. i < j \/ j < i
      OBVIOUS
    <3>2. Rank(at, i) \in Int /\ Rank(at, j) \in Int
      BY <1>2
    <3> QED
      BY <3>1, <3>2, RankGrows
  <2> QED
    BY <2>1, <2>2 DEF Injection, IsInjective
<1>4. IsFiniteSet(1 .. n) /\ Cardinality(1 .. n) = n
  BY <1>1, FS_Interval
<1>5. rank \in Surjection(at, 1 .. n)
  <2> HIDE DEF rank
  <2> QED
    BY <1>3, <1>4, FS_Injection
<1>6. \A k \in 1 .. n : \E i \in at : rank[i] = k
  <2> HIDE DEF rank
  <2> QED
    BY <1>5 DEF Surjection
<1> QED
  BY <1>1, <1>2, <1>6
-----------------------------------------------------------------------------
(* Where the elements that stay come from: positions of the list, in order. *)
LEMMA StayingPlaces ==
    ASSUME NEW S, NEW s \in Seq(S), NEW gone
    PROVE  LET kept == Kept(s, gone)
           IN  /\ Staying(s, gone) \in Seq(S)
               /\ Len(Staying(s, gone)) = Cardinality(kept)
               /\ Cardinality(kept) \in Nat
               /\ \A i \in kept : /\ Rank(kept, i) \in 1 .. Cardinality(kept)
                                   /\ Staying(s, gone)[Rank(kept, i)] = s[i]
               /\ \A k \in 1 .. Cardinality(kept) :
                    \E i \in kept : Rank(kept, i) = k /\ Staying(s, gone)[k] = s[i]
<1> DEFINE kept == Kept(s, gone)
           n == Cardinality(kept)
           At(k) == CHOOSE i \in kept : Rank(kept, i) = k
           t == [k \in 1 .. n |-> s[At(k)]]
<1>1. DOMAIN s = 1 .. Len(s) /\ Len(s) \in Nat /\ \A i \in DOMAIN s : s[i] \in S
  OBVIOUS
<1>2. kept \in SUBSET Int /\ kept \in SUBSET DOMAIN s /\ IsFiniteSet(kept)
  <2>1. kept \in SUBSET (1 .. Len(s))
    BY <1>1 DEF Kept
  <2>2. IsFiniteSet(1 .. Len(s))
    BY <1>1, FS_Interval
  <2> QED
    BY <1>1, <2>1, <2>2, FS_Subset
<1>3. Staying(s, gone) = t
  BY DEF Staying
<1> HIDE DEF kept
<1>4. /\ n \in Nat
      /\ \A i \in kept : Rank(kept, i) \in 1 .. n
      /\ \A k \in 1 .. n : \E i \in kept : Rank(kept, i) = k
  BY <1>2, RankCounts
<1>5. \A k \in 1 .. n : At(k) \in kept /\ Rank(kept, At(k)) = k
  BY <1>4
<1>6. \A i \in kept : At(Rank(kept, i)) = i
  <2> SUFFICES ASSUME NEW i \in kept PROVE At(Rank(kept, i)) = i
    OBVIOUS
  <2> DEFINE j == At(Rank(kept, i))
  <2>1. j \in kept /\ Rank(kept, j) = Rank(kept, i)
    BY <1>4, <1>5
  <2> HIDE DEF j
  <2>2. i \in Int /\ j \in Int /\ Rank(kept, i) \in Int
    BY <1>2, <1>4, <2>1
  <2>3. ~(i < j) /\ ~(j < i)
    BY <1>2, <2>1, <2>2, RankGrows
  <2>4. i = j
    BY <2>2, <2>3
  <2> QED
    BY <2>4 DEF j
<1> HIDE DEF At
<1>7. t \in Seq(S) /\ Len(t) = n
  <2>1. \A k \in 1 .. n : s[At(k)] \in S
    BY <1>1, <1>2, <1>5
  <2>2. t \in [1 .. n -> S]
    BY <2>1
  <2> QED
    BY <1>4, <2>2
<1>8. \A i \in kept : t[Rank(kept, i)] = s[i]
  BY <1>4, <1>6
<1>9. \A k \in 1 .. n : \E i \in kept : Rank(kept, i) = k /\ t[k] = s[i]
  BY <1>5
<1> HIDE DEF t
<1> QED
  BY <1>3, <1>4, <1>7, <1>8, <1>9 DEF kept

(* Unlinking: the others remain, as distinct as they were. *)
LEMMA StayingProps ==
    ASSUME NEW S, NEW s \in Seq(S), NEW gone
    PROVE  /\ Staying(s, gone) \in Seq(S)
           /\ ToSet(Staying(s, gone)) = ToSet(s) \ gone
           /\ IsInjective(s) => IsInjective(Staying(s, gone))
<1> DEFINE kept == Kept(s, gone)
           n == Cardinality(kept)
           t == Staying(s, gone)
<1>1. /\ t \in Seq(S) /\ Len(t) = n /\ n \in Nat
      /\ \A i \in kept : Rank(kept, i) \in 1 .. n /\ t[Rank(kept, i)] = s[i]
      /\ \A k \in 1 .. n : \E i \in kept : Rank(kept, i) = k /\ t[k] = s[i]
  BY StayingPlaces
<1>2. DOMAIN t = 1 .. n
  BY <1>1
<1>3. \A i \in kept : i \in DOMAIN s /\ s[i] \notin gone
  BY DEF Kept
<1>4. \A i \in DOMAIN s : s[i] \notin gone => i \in kept
  BY DEF Kept
<1> HIDE DEF kept, t
<1>5. ToSet(t) = ToSet(s) \ gone
  BY <1>1, <1>2, <1>3, <1>4 DEF ToSet
<1>6. ASSUME IsInjective(s) PROVE IsInjective(t)
  BY <1>1, <1>2, <1>3, <1>6 DEF IsInjective
<1> QED
  BY <1>1, <1>5, <1>6 DEF t

(* Linking a newcomer at the head. *)
LEMMA LinkedProps ==
    ASSUME NEW S, NEW s \in Seq(S), NEW c \in S, c \notin ToSet(s)
    PROVE  /\ << c >> \o s \in Seq(S)
           /\ ToSet(<< c >> \o s) = ToSet(s) \cup {c}
           /\ IsInjective(s) => IsInjective(<< c >> \o s)
<1> DEFINE t == << c >> \o s
<1>1. /\ t \in Seq(S) /\ DOMAIN t = 1 .. Len(s) + 1 /\ Len(s) \in Nat
      /\ DOMAIN s = 1 .. Len(s)
      /\ t[1] = c /\ \A i \in 1 .. Len(s) : t[i + 1] = s[i]
  OBVIOUS
<1>2. \A i \in 1 .. Len(s) : s[i] # c
  BY <1>1 DEF ToSet
<1>3. \A i \in DOMAIN t : i # 1 => i - 1 \in 1 .. Len(s) /\ t[i] = s[i - 1]
  BY <1>1
<1>4. \A i \in 1 .. Len(s) : i + 1 \in DOMAIN t
  BY <1>1
<1>5. 1 \in DOMAIN t
  BY <1>1
<1> HIDE DEF t
<1>6. ToSet(t) = ToSet(s) \cup {c}
  <2>1. ASSUME NEW x \in ToSet(t) PROVE x \in ToSet(s) \cup {c}
    <3>1. PICK i \in DOMAIN t : t[i] = x
      BY DEF ToSet
    <3>2. CASE i = 1
      BY <1>1, <3>1, <3>2
    <3>3. CASE i # 1
      <4>1. i - 1 \in DOMAIN s /\ s[i - 1] = x
        BY <1>1, <1>3, <3>1, <3>3
      <4> QED
        BY <4>1 DEF ToSet
    <3> QED
      BY <3>2, <3>3
  <2>2. ASSUME NEW x \in ToSet(s) PROVE x \in ToSet(t)
    <3>1. PICK i \in DOMAIN s : s[i] = x
      BY DEF ToSet
    <3>2. i + 1 \in DOMAIN t /\ t[i + 1] = x
      BY <1>1, <1>4, <3>1
    <3> QED
      BY <3>2 DEF ToSet
  <2>3. c \in ToSet(t)
    BY <1>1, <1>5 DEF ToSet
  <2> QED
    BY <2>1, <2>2, <2>3
<1>7. ASSUME IsInjective(s) PROVE IsInjective(t)
  <2> SUFFICES ASSUME NEW i \in DOMAIN t, NEW j \in DOMAIN t, t[i] = t[j] PROVE i = j
    BY DEF IsInjective
  <2>1. CASE i = 1 \/ j = 1
    BY <2>1, <1>1, <1>2, <1>3
  <2>2. CASE i # 1 /\ j # 1
    <3>1. i - 1 = j - 1
      BY <1>1, <1>3, <1>7, <2>2 DEF IsInjective
    <3> QED
      BY <3>1, <1>1
  <2> QED
    BY <2>1, <2>2
<1> QED
  BY <1>1, <1>6, <1>7 DEF t
-----------------------------------------------------------------------------
(* The order of a list whose elements are distinct *)

\* x stands no later than y.
Precedes(s, x, y) == \E i, j \in DOMAIN s : i <= j /\ s[i] = x /\ s[j] = y

(* It is a linear order of the elements. *)
LEMMA BeforeOrders ==
    ASSUME NEW S, NEW s \in Seq(S), IsInjective(s)
    PROVE  /\ \A i, j \in DOMAIN s : Precedes(s, s[i], s[j]) <=> i <= j
           /\ \A x, y : Precedes(s, x, y) => x \in ToSet(s) /\ y \in ToSet(s)
           /\ \A x, y \in ToSet(s) : Precedes(s, x, y) \/ Precedes(s, y, x)
           /\ \A x, y : Precedes(s, x, y) /\ Precedes(s, y, x) => x = y
           /\ \A x, y, z : Precedes(s, x, y) /\ Precedes(s, y, z) => Precedes(s, x, z)
<1>1. DOMAIN s \subseteq Int
  OBVIOUS
<1>2. \A i, j \in DOMAIN s : s[i] = s[j] => i = j
  BY DEF IsInjective
<1>3. ASSUME NEW i \in DOMAIN s, NEW j \in DOMAIN s
      PROVE  Precedes(s, s[i], s[j]) <=> i <= j
  BY <1>2 DEF Precedes
<1>4. \A x, y : Precedes(s, x, y) => x \in ToSet(s) /\ y \in ToSet(s)
  BY DEF Precedes, ToSet
<1>5. ASSUME NEW x \in ToSet(s) PROVE \E i \in DOMAIN s : s[i] = x
  BY DEF ToSet
<1>6. ASSUME NEW x \in ToSet(s), NEW y \in ToSet(s)
      PROVE  Precedes(s, x, y) \/ Precedes(s, y, x)
  <2>1. PICK i \in DOMAIN s : s[i] = x
    BY <1>5
  <2>2. PICK j \in DOMAIN s : s[j] = y
    BY <1>5
  <2>3. i <= j \/ j <= i
    BY <1>1
  <2> QED
    BY <1>3, <2>1, <2>2, <2>3
<1>7. ASSUME NEW x, NEW y, Precedes(s, x, y), Precedes(s, y, x) PROVE x = y
  <2>1. PICK i \in DOMAIN s, j \in DOMAIN s : i <= j /\ s[i] = x /\ s[j] = y
    BY <1>7 DEF Precedes
  <2>2. j <= i
    BY <1>3, <1>7, <2>1
  <2> QED
    BY <1>1, <2>1, <2>2
<1>8. ASSUME NEW x, NEW y, NEW z, Precedes(s, x, y), Precedes(s, y, z)
      PROVE  Precedes(s, x, z)
  <2>1. PICK i \in DOMAIN s, j \in DOMAIN s : i <= j /\ s[i] = x /\ s[j] = y
    BY <1>8 DEF Precedes
  <2>2. PICK k \in DOMAIN s : s[k] = z
    BY <1>4, <1>5, <1>8
  <2>3. j <= k
    BY <1>3, <1>8, <2>1, <2>2
  <2>4. i <= k
    BY <1>1, <2>1, <2>3
  <2> QED
    BY <1>3, <2>1, <2>2, <2>4
<1> QED
  BY <1>3, <1>4, <1>6, <1>7, <1>8

(* How many elements stand no later than the i-th. *)
LEMMA PlaceCounts ==
    ASSUME NEW S, NEW s \in Seq(S), IsInjective(s), NEW i \in DOMAIN s
    PROVE  Cardinality({x \in ToSet(s) : Precedes(s, x, s[i])}) = i
<1> DEFINE X == {x \in ToSet(s) : Precedes(s, x, s[i])}
           at == [j \in 1 .. i |-> s[j]]
<1>1. DOMAIN s = 1 .. Len(s) /\ Len(s) \in Nat /\ i \in Nat /\ 1 .. i \subseteq DOMAIN s
  OBVIOUS
<1>2. \A j \in DOMAIN s : Precedes(s, s[j], s[i]) <=> j <= i
  BY BeforeOrders
<1>3. at \in [1 .. i -> X]
  <2>1. \A j \in 1 .. i : s[j] \in X
    BY <1>1, <1>2 DEF ToSet
  <2> QED
    BY <2>1
<1>4. \A j, k \in 1 .. i : at[j] = at[k] => j = k
  BY <1>1 DEF IsInjective
<1>5. \A x \in X : \E j \in 1 .. i : at[j] = x
  <2> SUFFICES ASSUME NEW x \in X PROVE \E j \in 1 .. i : at[j] = x
    OBVIOUS
  <2>1. PICK j \in DOMAIN s : s[j] = x
    BY DEF ToSet
  <2>2. j \in 1 .. i
    BY <1>1, <1>2, <2>1
  <2> QED
    BY <2>1, <2>2
<1>6. at \in Bijection(1 .. i, X)
  <2> HIDE DEF X, at
  <2> QED
    BY <1>3, <1>4, <1>5 DEF Bijection, Injection, Surjection, IsInjective
<1>7. IsFiniteSet(1 .. i) /\ Cardinality(1 .. i) = i
  <2>1. 1 \in Int /\ i \in Int /\ 1 <= i
    BY <1>1
  <2> QED
    BY <2>1, FS_Interval
<1> HIDE DEF X, at
<1>8. Cardinality(X) = i
  BY <1>6, <1>7, FS_Bijection DEF ExistsBijection
<1> QED
  BY <1>8 DEF X

(* Lists that have the same elements in the same order are equal. *)
LEMMA SameOrder ==
    ASSUME NEW S, NEW s \in Seq(S), NEW t \in Seq(S),
           IsInjective(s), IsInjective(t), ToSet(s) = ToSet(t),
           \A x, y \in ToSet(s) : Precedes(s, x, y) <=> Precedes(t, x, y)
    PROVE  s = t
<1>1. ASSUME NEW i \in DOMAIN s PROVE i \in DOMAIN t /\ t[i] = s[i]
  <2>1. s[i] \in ToSet(s)
    BY DEF ToSet
  <2>2. PICK k \in DOMAIN t : t[k] = s[i]
    BY <2>1 DEF ToSet
  <2>3. {x \in ToSet(s) : Precedes(s, x, s[i])} = {x \in ToSet(t) : Precedes(t, x, t[k])}
    BY <2>1, <2>2
  <2>4. i = k
    BY <2>3, PlaceCounts
  <2> QED
    BY <2>2, <2>4
<1>2. ASSUME NEW k \in DOMAIN t PROVE k \in DOMAIN s
  <2>1. t[k] \in ToSet(t)
    BY DEF ToSet
  <2>2. PICK i \in DOMAIN s : s[i] = t[k]
    BY <2>1 DEF ToSet
  <2>3. {x \in ToSet(s) : Precedes(s, x, s[i])} = {x \in ToSet(t) : Precedes(t, x, t[k])}
    BY <2>1, <2>2
  <2>4. i = k
    BY <2>3, PlaceCounts
  <2> QED
    BY <2>2, <2>4
<1>3. DOMAIN s = DOMAIN t
  BY <1>1, <1>2
<1>4. DOMAIN s = 1 .. Len(s) /\ DOMAIN t = 1 .. Len(t) /\ Len(s) \in Nat /\ Len(t) \in Nat
  OBVIOUS
<1>5. s = [i \in DOMAIN s |-> s[i]] /\ t = [i \in DOMAIN t |-> t[i]]
  OBVIOUS
<1> QED
  BY <1>1, <1>3, <1>5

(* Those that stay keep their order. *)
LEMMA StayingOrder ==
    ASSUME NEW S, NEW s \in Seq(S), IsInjective(s), NEW gone,
           NEW x \in ToSet(s) \ gone, NEW y \in ToSet(s) \ gone
    PROVE  Precedes(Staying(s, gone), x, y) <=> Precedes(s, x, y)
<1> DEFINE kept == Kept(s, gone)
           t == Staying(s, gone)
<1>1. PICK i \in DOMAIN s : s[i] = x
  BY DEF ToSet
<1>2. PICK j \in DOMAIN s : s[j] = y
  BY DEF ToSet
<1>3. i \in kept /\ j \in kept
  BY <1>1, <1>2 DEF Kept
<1>4. kept \in SUBSET Int /\ IsFiniteSet(kept)
  <2>1. kept \in SUBSET (1 .. Len(s)) /\ Len(s) \in Nat
    BY DEF Kept
  <2>2. IsFiniteSet(1 .. Len(s))
    BY <2>1, FS_Interval
  <2>3. kept \in SUBSET Int
    BY <2>1
  <2> HIDE DEF kept
  <2> QED
    BY <2>1, <2>2, <2>3, FS_Subset
<1>5. /\ t \in Seq(S) /\ Len(t) = Cardinality(kept) /\ Cardinality(kept) \in Nat
      /\ \A k \in kept : Rank(kept, k) \in 1 .. Cardinality(kept) /\ t[Rank(kept, k)] = s[k]
  BY StayingPlaces
<1>6. IsInjective(t)
  BY StayingProps
<1>7. DOMAIN t = 1 .. Cardinality(kept)
  BY <1>5
<1> HIDE DEF kept, t
<1>8. Precedes(t, x, y) <=> Rank(kept, i) <= Rank(kept, j)
  BY <1>1, <1>2, <1>3, <1>5, <1>6, <1>7, BeforeOrders
<1>9. Precedes(s, x, y) <=> i <= j
  BY <1>1, <1>2, BeforeOrders
<1>10. Rank(kept, i) <= Rank(kept, j) <=> i <= j
  <2>1. i \in Int /\ j \in Int /\ Rank(kept, i) \in Int /\ Rank(kept, j) \in Int
    BY <1>3, <1>4, <1>5
  <2>2. i < j => Rank(kept, i) < Rank(kept, j)
    BY <1>3, <1>4, RankGrows
  <2>3. j < i => Rank(kept, j) < Rank(kept, i)
    BY <1>3, <1>4, RankGrows
  <2> QED
    BY <2>1, <2>2, <2>3
<1> QED
  BY <1>8, <1>9, <1>10 DEF t

(* A newcomer at the head comes before all others, which keep their order. *)
LEMMA LinkedOrder ==
    ASSUME NEW S, NEW s \in Seq(S), IsInjective(s), NEW c \in S, c \notin ToSet(s)
    PROVE  /\ \A x \in ToSet(s) : Precedes(<< c >> \o s, c, x)
           /\ \A x, y \in ToSet(s) : Precedes(<< c >> \o s, x, y) <=> Precedes(s, x, y)
<1> DEFINE t == << c >> \o s
<1>1. /\ t \in Seq(S) /\ DOMAIN t = 1 .. Len(s) + 1 /\ Len(s) \in Nat
      /\ DOMAIN s = 1 .. Len(s)
      /\ t[1] = c /\ \A i \in 1 .. Len(s) : t[i + 1] = s[i]
  OBVIOUS
<1>2. IsInjective(t)
  BY LinkedProps
<1> HIDE DEF t
<1>3. ASSUME NEW x \in ToSet(s), NEW y \in ToSet(s)
      PROVE  Precedes(t, c, x) /\ (Precedes(t, x, y) <=> Precedes(s, x, y))
  <2>1. PICK i \in DOMAIN s : s[i] = x
    BY DEF ToSet
  <2>2. PICK j \in DOMAIN s : s[j] = y
    BY DEF ToSet
  <2>3. i + 1 \in DOMAIN t /\ j + 1 \in DOMAIN t /\ 1 \in DOMAIN t
        /\ t[i + 1] = x /\ t[j + 1] = y /\ 1 <= i + 1 /\ (i + 1 <= j + 1 <=> i <= j)
    BY <1>1, <2>1, <2>2
  <2>4. Precedes(t, x, y) <=> i + 1 <= j + 1
    BY <1>1, <1>2, <2>3, BeforeOrders
  <2>5. Precedes(s, x, y) <=> i <= j
    BY <2>1, <2>2, BeforeOrders
  <2>6. Precedes(t, c, x)
    BY <1>1, <2>3 DEF Precedes
  <2> QED
    BY <2>3, <2>4, <2>5, <2>6
<1> QED
  BY <1>3 DEF t

(* The end of a list: those that stand no earlier than one of its elements. *)
LEMMA EndOfList ==
    ASSUME NEW S, NEW s \in Seq(S), IsInjective(s), NEW m \in 1 .. Len(s) + 1
    PROVE  LET t == SubSeq(s, m, Len(s))
           IN  /\ t \in Seq(S) /\ IsInjective(t) /\ IsSuffix(t, s)
               /\ ToSet(t) = {s[i] : i \in m .. Len(s)}
               /\ \A x, y \in ToSet(t) : Precedes(t, x, y) <=> Precedes(s, x, y)
<1> DEFINE n == Len(s)
           t == SubSeq(s, m, n)
<1>1. n \in Nat /\ DOMAIN s = 1 .. n /\ m \in Nat /\ \A i \in 1 .. n : s[i] \in S
  OBVIOUS
<1>2. /\ t \in Seq(S) /\ Len(t) = n - m + 1 /\ DOMAIN t = 1 .. n - m + 1
      /\ \A i \in 1 .. n - m + 1 : t[i] = s[m + i - 1]
  BY <1>1
<1>3. DOMAIN t = 1 .. n - m + 1
  BY <1>2
<1>4. ASSUME NEW i \in 1 .. n - m + 1
      PROVE  m + i - 1 \in DOMAIN s
  BY <1>1
<1>5. IsInjective(t)
  <2> SUFFICES ASSUME NEW i \in DOMAIN t, NEW j \in DOMAIN t, t[i] = t[j] PROVE i = j
    BY DEF IsInjective
  <2> HIDE DEF t
  <2>1. s[m + i - 1] = s[m + j - 1]
    BY <1>2
  <2>2. m + i - 1 \in DOMAIN s /\ m + j - 1 \in DOMAIN s
    BY <1>3, <1>4
  <2>3. m + i - 1 = m + j - 1
    BY <2>1, <2>2 DEF IsInjective
  <2>4. i \in Int /\ j \in Int /\ m \in Int
    BY <1>1, <1>3
  <2> QED
    BY <2>3, <2>4
<1> HIDE DEF t
<1>6. IsSuffix(t, s)
  <2> DEFINE rs == [i \in 1 .. Len(s) |-> s[(Len(s) - i) + 1]]
             rt == [i \in 1 .. Len(t) |-> t[(Len(t) - i) + 1]]
             k == Len(t)
  <2>0. k \in Nat /\ k <= n
    BY <1>1, <1>2
  <2>1. \A i \in 1 .. n : s[(n - i) + 1] \in S
    BY <1>1
  <2>2. rs \in Seq(S) /\ Len(rs) = n
    BY <1>1, <2>1
  <2>3. \A i \in 1 .. k : t[(k - i) + 1] \in S
    BY <1>2
  <2>4. rt \in Seq(S) /\ Len(rt) = k
    BY <2>0, <2>3
  <2>5. \A i \in 1 .. k : rt[i] = rs[i]
    <3> SUFFICES ASSUME NEW i \in 1 .. k PROVE t[(k - i) + 1] = s[(n - i) + 1]
      BY <1>1, <1>2
    <3>1. (k - i) + 1 \in 1 .. n - m + 1 /\ m + ((k - i) + 1) - 1 = (n - i) + 1
      BY <1>1, <1>2
    <3> QED
      BY <1>2, <3>1
  <2> HIDE DEF rs, rt
  <2>6. SubSeq(rt, 1, k) = SubSeq(rs, 1, k)
    <3>1. SubSeq(rt, 1, k) \in Seq(S) /\ SubSeq(rs, 1, k) \in Seq(S)
          /\ Len(SubSeq(rt, 1, k)) = k /\ Len(SubSeq(rs, 1, k)) = k
          /\ \A i \in 1 .. k : SubSeq(rt, 1, k)[i] = rt[i] /\ SubSeq(rs, 1, k)[i] = rs[i]
      BY <2>0, <2>2, <2>4
    <3> QED
      BY <2>5, <3>1
  <2>7. IsPrefix(rt, rs)
    BY <2>0, <2>2, <2>4, <2>6 DEF IsPrefix
  <2> QED
    BY <2>7 DEF IsSuffix, Reverse, rs, rt
<1>7. ToSet(t) = {s[i] : i \in m .. n}
  <2>1. ASSUME NEW i \in DOMAIN t PROVE m + i - 1 \in m .. n /\ t[i] = s[m + i - 1]
    <3>1. DOMAIN t = 1 .. n - m + 1 /\ m \in Nat /\ n \in Nat
      BY <1>1, <1>2
    <3>2. m + i - 1 \in m .. n
      BY <2>1, <3>1
    <3> QED
      BY <1>2, <2>1, <3>1, <3>2
  <2>2. ASSUME NEW i \in m .. n PROVE (i - m) + 1 \in DOMAIN t /\ t[(i - m) + 1] = s[i]
    <3>1. (i - m) + 1 \in 1 .. n - m + 1 /\ m + ((i - m) + 1) - 1 = i
      BY <1>1
    <3> QED
      BY <1>2, <3>1
  <2>3. ToSet(t) = {t[i] : i \in DOMAIN t}
    BY DEF ToSet
  <2> HIDE DEF n
  <2> QED
    BY <2>1, <2>2, <2>3
<1>8. ASSUME NEW x \in ToSet(t), NEW y \in ToSet(t)
      PROVE  Precedes(t, x, y) <=> Precedes(s, x, y)
  <2>1. PICK i \in DOMAIN t : t[i] = x
    BY DEF ToSet
  <2>2. PICK j \in DOMAIN t : t[j] = y
    BY DEF ToSet
  <2>3. m + i - 1 <= m + j - 1 <=> i <= j
    <3>1. i \in Int /\ j \in Int /\ m \in Int
      BY <1>1, <1>3
    <3> QED
      BY <3>1
  <2>4. /\ m + i - 1 \in DOMAIN s /\ m + j - 1 \in DOMAIN s
        /\ s[m + i - 1] = x /\ s[m + j - 1] = y
    BY <1>2, <1>3, <1>4, <2>1, <2>2
  <2>5. Precedes(t, x, y) <=> i <= j
    BY <1>2, <1>5, <2>1, <2>2, BeforeOrders
  <2>6. Precedes(s, x, y) <=> m + i - 1 <= m + j - 1
    BY <2>4, BeforeOrders
  <2> QED
    BY <2>3, <2>5, <2>6
<1> QED
  BY <1>2, <1>5, <1>6, <1>7, <1>8 DEF t

(* The first element comes before all others. *)
LEMMA HeadFirst ==
    ASSUME NEW S, NEW s \in Seq(S), IsInjective(s), NEW x \in ToSet(s)
    PROVE  s # << >> /\ Head(s) \in ToSet(s) /\ Precedes(s, Head(s), x)
<1>1. PICK i \in DOMAIN s : s[i] = x
  BY DEF ToSet
<1>2. 1 \in DOMAIN s /\ 1 <= i /\ Head(s) = s[1] /\ s # << >>
  BY <1>1
<1> QED
  BY <1>1, <1>2 DEF ToSet, Precedes

(* Where those that stay are behind all others, they are the end of the list. *)
LEMMA StayingIsSuffix ==
    ASSUME NEW S, NEW s \in Seq(S), NEW t \in Seq(S), IsInjective(s), IsInjective(t),
           NEW stay, stay \subseteq ToSet(s), stay \subseteq ToSet(t),
           \A x, y \in stay : Precedes(s, x, y) <=> Precedes(t, x, y),
           \A x \in stay, y \in ToSet(t) \ stay : Precedes(t, y, x)
    PROVE  IsSuffix(Staying(s, ToSet(s) \ stay), t)
<1> DEFINE r == Staying(s, ToSet(s) \ stay)
           at == {i \in 1 .. Len(t) : t[i] \in stay}
           m == IF at = {} THEN Len(t) + 1 ELSE Min(at)
           e == SubSeq(t, m, Len(t))
<1>1. DOMAIN t = 1 .. Len(t) /\ Len(t) \in Nat /\ at \in SUBSET (1 .. Len(t))
  OBVIOUS
<1>2. /\ m \in 1 .. Len(t) + 1
      /\ m = Len(t) + 1 => at = {}
      /\ m # Len(t) + 1 => m \in at
      /\ \A i \in at : m <= i
  <2>1. at # {} => Min(at) \in at /\ \A i \in at : Min(at) <= i
    <3> HIDE DEF at
    <3> QED
      BY <1>1, FirstAndLast
  <2> HIDE DEF at
  <2>2. CASE at = {}
    BY <1>1, <2>2
  <2>3. CASE at # {}
    <3>1. m = Min(at) /\ m \in at /\ m \in 1 .. Len(t)
      BY <1>1, <2>1, <2>3
    <3> QED
      BY <1>1, <2>1, <2>3, <3>1
  <2> QED
    BY <2>2, <2>3
<1> HIDE DEF m
<1>3. ASSUME NEW i \in m .. Len(t) PROVE t[i] \in stay
  <2>1. m \in at /\ m \in DOMAIN t /\ i \in DOMAIN t /\ t[m] \in stay
    BY <1>1, <1>2, <1>3
  <2>2. ASSUME t[i] \notin stay PROVE FALSE
    <3>1. Precedes(t, t[i], t[m])
      BY <2>1, <2>2 DEF ToSet
    <3>2. i <= m
      BY <2>1, <3>1, BeforeOrders
    <3>3. i = m
      BY <1>1, <1>2, <1>3, <3>2
    <3> QED
      BY <2>1, <2>2, <3>3
  <2> QED
    BY <2>2
<1>4. /\ e \in Seq(S) /\ IsInjective(e) /\ IsSuffix(e, t)
      /\ ToSet(e) = {t[i] : i \in m .. Len(t)}
      /\ \A x, y \in ToSet(e) : Precedes(e, x, y) <=> Precedes(t, x, y)
  BY <1>2, EndOfList
<1> HIDE DEF e
<1>5. ToSet(e) = stay
  <2>1. ASSUME NEW x \in stay PROVE x \in ToSet(e)
    <3>1. PICK i \in DOMAIN t : t[i] = x
      BY DEF ToSet
    <3>2. i \in at
      BY <1>1, <3>1
    <3>3. i \in m .. Len(t)
      BY <1>1, <1>2, <3>2
    <3> QED
      BY <1>4, <3>1, <3>3
  <2> QED
    BY <1>3, <1>4, <2>1
<1>6. r \in Seq(S) /\ IsInjective(r) /\ ToSet(r) = stay
  <2> DEFINE gone == ToSet(s) \ stay
  <2>1. ToSet(s) \ gone = stay /\ r = Staying(s, gone)
    OBVIOUS
  <2> HIDE DEF gone, r
  <2>2. /\ Staying(s, gone) \in Seq(S) /\ IsInjective(Staying(s, gone))
        /\ ToSet(Staying(s, gone)) = ToSet(s) \ gone
    BY StayingProps
  <2> QED
    BY <2>1, <2>2
<1>7. ASSUME NEW x \in stay, NEW y \in stay PROVE Precedes(r, x, y) <=> Precedes(s, x, y)
  <2>1. x \in ToSet(s) \ (ToSet(s) \ stay) /\ y \in ToSet(s) \ (ToSet(s) \ stay)
    OBVIOUS
  <2> QED
    BY <2>1, StayingOrder
<1> HIDE DEF r
<1>8. r = e
  BY <1>4, <1>5, <1>6, <1>7, SameOrder
<1> QED
  BY <1>4, <1>8 DEF r
=============================================================================
