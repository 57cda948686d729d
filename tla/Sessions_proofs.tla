--------------------------- MODULE Sessions_proofs ---------------------------
(***************************************************************************)
(* Proofs about Sessions, for any set of sessions, any ids of them, alike  *)
(* or not, any timeout and any bounds.                                     *)
(*                                                                         *)
(* The first part says what becomes of a list when elements are taken from *)
(* it, put before it, or when it is turned around: which elements it has,  *)
(* that none is there twice, and which precedes which.  The second part    *)
(* uses nothing else of the lists.                                         *)
(***************************************************************************)
EXTENDS Sessions, FiniteSetTheorems, SequenceTheorems, TLAPS

-----------------------------------------------------------------------------
(* Ranks of a finite set of places are the numbers from 1 to its size, in  *)
(* the order of the places.                                                *)
LEMMA Ranks ==
    ASSUME NEW P, P \subseteq Nat, IsFiniteSet(P)
    PROVE  /\ Cardinality(P) \in Nat
           /\ \A i \in P : Rank(P, i) \in 1 .. Cardinality(P)
           /\ \A i, j \in P : i < j => Rank(P, i) < Rank(P, j)
           /\ \A k \in 1 .. Cardinality(P) : \E i \in P : Rank(P, i) = k
  <1> DEFINE Upto(i) == {j \in P : j <= i}
             n == Cardinality(P)
             rank == [i \in P |-> Rank(P, i)]
  <1>1. n \in Nat
    BY FS_CardinalityType
  <1>2. ASSUME NEW i \in P
        PROVE  /\ IsFiniteSet(Upto(i)) /\ Cardinality(Upto(i)) \in Nat
               /\ Cardinality(Upto(i)) <= n /\ Cardinality(Upto(i)) # 0
    <2>1. Upto(i) \in SUBSET P
      OBVIOUS
    <2>2. IsFiniteSet(Upto(i)) /\ Cardinality(Upto(i)) <= n
      BY <2>1, FS_Subset
    <2>3. i \in Upto(i)
      BY <1>2
    <2>4. Cardinality(Upto(i)) # 0
      BY <2>2, <2>3, FS_EmptySet
    <2> QED BY <2>2, <2>4, FS_CardinalityType
  <1>3. \A i \in P : Rank(P, i) \in 1 .. n
    BY <1>1, <1>2 DEF Rank
  <1>4. ASSUME NEW i \in P, NEW j \in P, i < j
        PROVE  Rank(P, i) < Rank(P, j)
    <2>0. i \in Nat /\ j \in Nat /\ \A x \in P : x \in Nat
      OBVIOUS
    <2>4. \A x \in P : x <= i => x <= j
      BY <1>4, <2>0
    <2>5. j \in Upto(j) /\ j \notin Upto(i)
      BY <1>4, <2>0
    <2>6. Upto(i) \subseteq Upto(j)
      BY <2>4
    <2>1. Upto(i) \in SUBSET Upto(j) /\ j \in Upto(j) /\ j \notin Upto(i)
      BY <2>5, <2>6
    <2>2. /\ Cardinality(Upto(i)) <= Cardinality(Upto(j))
          /\ Cardinality(Upto(i)) # Cardinality(Upto(j))
      BY <1>2, <2>1, FS_Subset
    <2>3. Cardinality(Upto(i)) \in Nat /\ Cardinality(Upto(j)) \in Nat
      BY <1>2
    <2> QED BY <2>2, <2>3 DEF Rank
  <1>5. \A k \in 1 .. n : \E i \in P : Rank(P, i) = k
    <2> DEFINE T == 1 .. n
    <2>1. IsFiniteSet(T) /\ Cardinality(T) = n
      BY <1>1, FS_Interval
    <2>2. rank \in [P -> T]
      BY <1>3
    <2>3. \A i, j \in P : rank[i] = rank[j] => i = j
      <3>1. SUFFICES ASSUME NEW i \in P, NEW j \in P, rank[i] = rank[j], i # j PROVE FALSE
        OBVIOUS
      <3>2. i < j \/ j < i
        BY <3>1
      <3>3. Rank(P, i) \in Nat /\ Rank(P, j) \in Nat /\ Rank(P, i) = Rank(P, j)
        BY <1>3, <3>1
      <3> QED BY <1>4, <3>2, <3>3
    <2>4. rank \in Injection(P, T)
      BY <2>2, <2>3 DEF Injection, IsInjective
    <2>5. rank \in Surjection(P, T)
      BY <2>1, <2>4, FS_Injection
    <2>6. \A k \in T : \E i \in P : rank[i] = k
      BY <2>5 DEF Surjection
    <2> QED BY <2>6
  <1> QED BY <1>1, <1>3, <1>4, <1>5

(* Element k of m is element at[k] of l, and these are the ones in S.      *)
IsKeptAt(l, S, at, m) ==
    /\ \A k \in DOMAIN m : at[k] \in DOMAIN l /\ m[k] = l[at[k]] /\ m[k] \in S
    /\ \A j, k \in DOMAIN m : j < k => at[j] < at[k]
    /\ \A i \in DOMAIN l : l[i] \in S => \E k \in DOMAIN m : at[k] = i

(* A sublist is what is left of the list: its places are there, in order.  *)
LEMMA SublistPlaces ==
    ASSUME NEW T, NEW l \in Seq(T), NEW S
    PROVE  /\ Sublist(l, S) \in Seq(T)
           /\ \E at : IsKeptAt(l, S, at, Sublist(l, S))
  <1> DEFINE P == PlacesOf(l, S)
             n == Cardinality(P)
             at == [k \in 1 .. n |-> CHOOSE i \in P : Rank(P, i) = k]
             m == Sublist(l, S)
  <1>1. DOMAIN l = 1 .. Len(l) /\ Len(l) \in Nat /\ \A i \in DOMAIN l : l[i] \in T
    BY LenProperties, ElementOfSeq
  <1>2. P \subseteq 1 .. Len(l) /\ P \subseteq Nat
    BY <1>1 DEF PlacesOf
  <1>3. IsFiniteSet(P)
    <2>1. IsFiniteSet(1 .. Len(l))
      BY <1>1, FS_Interval
    <2> QED BY <1>2, <2>1, FS_Subset
  <1>4. /\ n \in Nat
        /\ \A i \in P : Rank(P, i) \in 1 .. n
        /\ \A i, j \in P : i < j => Rank(P, i) < Rank(P, j)
        /\ \A k \in 1 .. n : \E i \in P : Rank(P, i) = k
    BY ONLY <1>2, <1>3, Ranks
  <1>5. m = [k \in 1 .. n |-> l[at[k]]]
    BY DEF Sublist
  <1> HIDE DEF P
  <1>6. ASSUME NEW k \in 1 .. n PROVE at[k] \in P /\ Rank(P, at[k]) = k
    <2>1. \E i \in P : Rank(P, i) = k
      BY <1>4
    <2> QED BY <2>1
  <1> HIDE DEF at, n, m
  <1>7. \A k \in 1 .. n : at[k] \in DOMAIN l /\ l[at[k]] \in T \cap S
    BY <1>1, <1>2, <1>6 DEF PlacesOf, P
  <1>8. m \in [1 .. n -> T \cap S]
    BY <1>5, <1>7
  <1>9. m \in Seq(T) /\ DOMAIN m = 1 .. n
    BY <1>4, <1>8, SeqDef
  <1>10. ASSUME NEW j \in 1 .. n, NEW k \in 1 .. n, j < k PROVE at[j] < at[k]
    <2>1. at[j] \in Nat /\ at[k] \in Nat /\ Rank(P, at[j]) = j /\ Rank(P, at[k]) = k
      BY <1>2, <1>6
    <2>2. at[j] # at[k]
      BY <1>4, <1>10, <2>1
    <2>3. ~(at[k] < at[j])
      BY <1>4, <1>6, <1>10, <2>1
    <2> QED BY <2>1, <2>2, <2>3
  <1>11. ASSUME NEW i \in DOMAIN l, l[i] \in S PROVE \E k \in 1 .. n : at[k] = i
    <2>1. i \in P /\ i \in Nat /\ Rank(P, i) \in 1 .. n
      BY <1>1, <1>4, <1>11 DEF P, PlacesOf
    <2> DEFINE k == Rank(P, i)
    <2>2. at[k] \in P /\ at[k] \in Nat /\ Rank(P, at[k]) = k
      BY <1>2, <1>6, <2>1
    <2>3. ~(at[k] < i) /\ ~(i < at[k])
      BY <1>4, <2>1, <2>2
    <2> QED BY <2>1, <2>2, <2>3
  <1>12. \A k \in DOMAIN m : at[k] \in DOMAIN l /\ m[k] = l[at[k]] /\ m[k] \in S
    BY <1>5, <1>7, <1>9
  <1>13. \A j, k \in DOMAIN m : j < k => at[j] < at[k]
    BY <1>9, <1>10
  <1>14. \A i \in DOMAIN l : l[i] \in S => \E k \in DOMAIN m : at[k] = i
    BY <1>9, <1>11
  <1>15. IsKeptAt(l, S, at, m)
    BY <1>12, <1>13, <1>14 DEF IsKeptAt
  <1> QED BY <1>9, <1>15 DEF m

(* Taking elements from a list                                             *)
LEMMA SublistIs ==
    ASSUME NEW T, NEW l \in Seq(T), NEW S
    PROVE  /\ Sublist(l, S) \in Seq(T)
           /\ ToSet(Sublist(l, S)) = ToSet(l) \cap S
           /\ IsInjective(l) => IsInjective(Sublist(l, S))
           /\ \A x, y : Precedes(Sublist(l, S), x, y) <=>
                           x \in S /\ y \in S /\ Precedes(l, x, y)
  <1> DEFINE m == Sublist(l, S)
  <1>0. m \in Seq(T) /\ \E at : IsKeptAt(l, S, at, m)
    BY SublistPlaces
  <1> HIDE DEF m
  <1>11. PICK at : IsKeptAt(l, S, at, m)
    BY <1>0
  <1>1. /\ \A k \in DOMAIN m : at[k] \in DOMAIN l /\ m[k] = l[at[k]] /\ m[k] \in S
        /\ \A j, k \in DOMAIN m : j < k => at[j] < at[k]
        /\ \A i \in DOMAIN l : l[i] \in S => \E k \in DOMAIN m : at[k] = i
    BY <1>11 DEF IsKeptAt
  <1>2. DOMAIN m \subseteq Nat /\ DOMAIN l \subseteq Nat
    BY <1>0, LenProperties
  <1>4. ToSet(m) = ToSet(l) \cap S
    <2>1. ASSUME NEW x \in ToSet(m) PROVE x \in ToSet(l) \cap S
      BY <1>1, <1>2, <2>1 DEF ToSet
    <2>2. ASSUME NEW x \in ToSet(l), x \in S PROVE x \in ToSet(m)
      <3>1. PICK i \in DOMAIN l : l[i] = x
        BY <2>2 DEF ToSet
      <3>2. PICK k \in DOMAIN m : at[k] = i
        BY <1>1, <2>2, <3>1
      <3>3. m[k] = x
        BY <1>1, <3>1, <3>2
      <3> QED BY <3>3 DEF ToSet
    <2> QED BY <2>1, <2>2
  <1>5. ASSUME IsInjective(l) PROVE IsInjective(m)
    <2>1. SUFFICES ASSUME NEW j \in DOMAIN m, NEW k \in DOMAIN m, m[j] = m[k], j # k
                   PROVE  FALSE
      BY DEF IsInjective
    <2>2. at[j] = at[k] /\ at[j] \in Nat
      BY <1>1, <1>2, <1>5, <2>1 DEF IsInjective
    <2>3. j < k \/ k < j
      BY <1>2, <2>1
    <2>4. at[j] < at[k] \/ at[k] < at[j]
      BY <1>1, <2>3
    <2> QED BY <2>2, <2>4
  <1>6. ASSUME NEW x, NEW y, Precedes(m, x, y)
        PROVE  x \in S /\ y \in S /\ Precedes(l, x, y)
    <2>1. PICK j, k \in DOMAIN m : j < k /\ m[j] = x /\ m[k] = y
      BY <1>6 DEF Precedes
    <2>2. /\ at[j] \in DOMAIN l /\ at[k] \in DOMAIN l /\ at[j] < at[k]
          /\ l[at[j]] = x /\ l[at[k]] = y /\ x \in S /\ y \in S
      BY <1>1, <2>1
    <2> QED BY <1>2, <2>1, <2>2 DEF Precedes
  <1>7. ASSUME NEW x, NEW y, x \in S, y \in S, Precedes(l, x, y)
        PROVE  Precedes(m, x, y)
    <2>1. PICK i, j \in DOMAIN l : i < j /\ l[i] = x /\ l[j] = y
      BY <1>7 DEF Precedes
    <2>2. PICK p \in DOMAIN m : at[p] = i
      BY <1>1, <1>7, <2>1
    <2>3. PICK q \in DOMAIN m : at[q] = j
      BY <1>1, <1>7, <2>1
    <2>4. p \in Nat /\ q \in Nat /\ i \in Nat /\ j \in Nat
      BY <1>2
    <2>5. p # q
      BY <2>1, <2>2, <2>3, <2>4
    <2>6. ~(q < p)
      BY <1>1, <2>1, <2>2, <2>3, <2>4
    <2>7. p < q /\ m[p] = x /\ m[q] = y
      BY <1>1, <2>1, <2>2, <2>3, <2>4, <2>5, <2>6
    <2> QED BY <2>7 DEF Precedes
  <1> QED BY <1>0, <1>4, <1>5, <1>6, <1>7 DEF m

(* Putting an element before a list                                        *)
LEMMA ConsIs ==
    ASSUME NEW T, NEW l \in Seq(T), NEW e \in T
    PROVE  /\ <<e>> \o l \in Seq(T)
           /\ ToSet(<<e>> \o l) = {e} \cup ToSet(l)
           /\ IsInjective(l) /\ e \notin ToSet(l) => IsInjective(<<e>> \o l)
           /\ \A x, y : Precedes(<<e>> \o l, x, y) <=>
                           (x = e /\ y \in ToSet(l)) \/ Precedes(l, x, y)
  <1> DEFINE m == <<e>> \o l
  <1>1. <<e>> \in Seq(T) /\ Len(<<e>>) = 1 /\ <<e>>[1] = e
    OBVIOUS
  <1>2. /\ m \in Seq(T) /\ Len(m) = 1 + Len(l)
        /\ \A i \in 1 .. 1 + Len(l) : m[i] = IF i <= 1 THEN <<e>>[i] ELSE l[i - 1]
    BY <1>1, ConcatProperties
  <1>3. /\ Len(l) \in Nat /\ DOMAIN l = 1 .. Len(l) /\ DOMAIN m = 1 .. Len(l) + 1
    BY <1>2, LenProperties
  <1>4. m[1] = e /\ \A i \in DOMAIN l : i + 1 \in DOMAIN m /\ m[i + 1] = l[i]
    BY <1>1, <1>2, <1>3
  <1>5. \A i \in DOMAIN m : i = 1 \/ (i - 1 \in DOMAIN l /\ m[i] = l[i - 1])
    BY <1>2, <1>3
  <1>6. 1 \in DOMAIN m /\ DOMAIN m \subseteq Nat \ {0} /\ DOMAIN l \subseteq Nat \ {0}
    BY <1>3
  <1> HIDE DEF m
  <1>7. ToSet(m) = {e} \cup ToSet(l)
    BY <1>4, <1>5, <1>6 DEF ToSet
  <1>8. ASSUME IsInjective(l), e \notin ToSet(l) PROVE IsInjective(m)
    <2>1. SUFFICES ASSUME NEW i \in DOMAIN m, NEW j \in DOMAIN m, m[i] = m[j] PROVE i = j
      BY DEF IsInjective
    <2>2. CASE i = 1 /\ j = 1
      BY <2>2
    <2>3. CASE (i = 1 /\ j # 1) \/ (i # 1 /\ j = 1)
      BY <1>4, <1>5, <1>8, <2>1, <2>3 DEF ToSet
    <2>4. CASE i # 1 /\ j # 1
      <3>1. i - 1 = j - 1
        BY <1>5, <1>8, <2>1, <2>4 DEF IsInjective
      <3> QED BY <1>6, <3>1
    <2> QED BY <2>2, <2>3, <2>4
  <1>9. ASSUME NEW x, NEW y, Precedes(m, x, y)
        PROVE  (x = e /\ y \in ToSet(l)) \/ Precedes(l, x, y)
    <2>1. PICK i, j \in DOMAIN m : i < j /\ m[i] = x /\ m[j] = y
      BY <1>9 DEF Precedes
    <2>2. j # 1 /\ j - 1 \in DOMAIN l /\ l[j - 1] = y
      BY <1>5, <1>6, <2>1
    <2>3. CASE i = 1
      BY <1>4, <2>1, <2>2, <2>3 DEF ToSet
    <2>4. CASE i # 1
      <3>1. i - 1 \in DOMAIN l /\ l[i - 1] = x /\ i - 1 < j - 1
        BY <1>5, <1>6, <2>1, <2>4
      <3> QED BY <2>2, <3>1 DEF Precedes
    <2> QED BY <2>3, <2>4
  <1>10. ASSUME NEW x, NEW y, (x = e /\ y \in ToSet(l)) \/ Precedes(l, x, y)
         PROVE  Precedes(m, x, y)
    <2>1. CASE x = e /\ y \in ToSet(l)
      <3>1. PICK j \in DOMAIN l : l[j] = y
        BY <2>1 DEF ToSet
      <3>2. 1 < j + 1 /\ j + 1 \in DOMAIN m /\ m[j + 1] = y
        BY <1>4, <1>6, <3>1
      <3> QED BY <1>4, <1>6, <2>1, <3>2 DEF Precedes
    <2>2. CASE Precedes(l, x, y)
      <3>1. PICK i, j \in DOMAIN l : i < j /\ l[i] = x /\ l[j] = y
        BY <2>2 DEF Precedes
      <3>2. /\ i + 1 < j + 1 /\ i + 1 \in DOMAIN m /\ j + 1 \in DOMAIN m
            /\ m[i + 1] = x /\ m[j + 1] = y
        BY <1>4, <1>6, <3>1
      <3> QED BY <3>2 DEF Precedes
    <2> QED BY <1>10, <2>1, <2>2
  <1> QED BY <1>2, <1>7, <1>8, <1>9, <1>10 DEF m

(* Putting one list before another                                         *)
LEMMA ConcatIs ==
    ASSUME NEW T, NEW k \in Seq(T), NEW l \in Seq(T), ToSet(k) \cap ToSet(l) = {}
    PROVE  /\ k \o l \in Seq(T)
           /\ ToSet(k \o l) = ToSet(k) \cup ToSet(l)
           /\ IsInjective(k) /\ IsInjective(l) => IsInjective(k \o l)
           /\ \A x, y : Precedes(k \o l, x, y) <=>
                           \/ Precedes(k, x, y) \/ Precedes(l, x, y)
                           \/ x \in ToSet(k) /\ y \in ToSet(l)
  <1> DEFINE m == k \o l
             n == Len(k)
  <1>1. /\ m \in Seq(T) /\ Len(m) = n + Len(l)
        /\ \A i \in 1 .. n + Len(l) : m[i] = IF i <= n THEN k[i] ELSE l[i - n]
    BY ConcatProperties
  <1>2. /\ n \in Nat /\ Len(l) \in Nat /\ DOMAIN l = 1 .. Len(l) /\ DOMAIN k = 1 .. n
        /\ DOMAIN m = 1 .. n + Len(l)
    BY <1>1, LenProperties
  <1> HIDE DEF m, n
  <1>3. /\ \A i \in DOMAIN k : i \in DOMAIN m /\ m[i] = k[i]
        /\ \A i \in DOMAIN l : i + n \in DOMAIN m /\ m[i + n] = l[i]
    BY <1>1, <1>2
  <1>4. \A i \in DOMAIN m : \/ i \in DOMAIN k /\ m[i] = k[i]
                            \/ i \notin DOMAIN k /\ i - n \in DOMAIN l /\ m[i] = l[i - n]
    BY <1>1, <1>2
  <1>5. DOMAIN m \subseteq Nat /\ DOMAIN l \subseteq Nat \ {0} /\ DOMAIN k \subseteq Nat
    BY <1>2
  <1>6. \A i \in DOMAIN k, j \in DOMAIN l : k[i] # l[j] /\ i < j + n
    <2>1. TAKE i \in DOMAIN k, j \in DOMAIN l
    <2>2. k[i] \in ToSet(k) /\ l[j] \in ToSet(l)
      BY DEF ToSet
    <2>3. i < j + n
      BY <1>2
    <2> QED BY <2>2, <2>3
  <1>7. ToSet(m) = ToSet(k) \cup ToSet(l)
    BY <1>3, <1>4 DEF ToSet
  <1>8. ASSUME IsInjective(k), IsInjective(l) PROVE IsInjective(m)
    <2>1. SUFFICES ASSUME NEW i \in DOMAIN m, NEW j \in DOMAIN m, m[i] = m[j] PROVE i = j
      BY DEF IsInjective
    <2>2. CASE i \in DOMAIN k /\ j \in DOMAIN k
      BY <1>3, <1>8, <2>1, <2>2 DEF IsInjective
    <2>3. CASE i \notin DOMAIN k /\ j \notin DOMAIN k
      <3>1. i - n = j - n
        BY <1>4, <1>8, <2>1, <2>3 DEF IsInjective
      <3> QED BY <1>2, <1>5, <3>1
    <2>4. CASE i \in DOMAIN k /\ j \notin DOMAIN k
      BY <1>3, <1>4, <1>6, <2>1, <2>4
    <2>5. CASE i \notin DOMAIN k /\ j \in DOMAIN k
      BY <1>3, <1>4, <1>6, <2>1, <2>5
    <2> QED BY <2>2, <2>3, <2>4, <2>5
  <1>9. ASSUME NEW x, NEW y, Precedes(m, x, y)
        PROVE  \/ Precedes(k, x, y) \/ Precedes(l, x, y)
               \/ x \in ToSet(k) /\ y \in ToSet(l)
    <2>1. PICK i, j \in DOMAIN m : i < j /\ m[i] = x /\ m[j] = y
      BY <1>9 DEF Precedes
    <2>2. CASE i \in DOMAIN k /\ j \in DOMAIN k
      BY <1>3, <2>1, <2>2 DEF Precedes
    <2>3. CASE i \in DOMAIN k /\ j \notin DOMAIN k
      BY <1>3, <1>4, <2>1, <2>3 DEF ToSet
    <2>4. CASE i \notin DOMAIN k
      <3>1. j \notin DOMAIN k
        BY <1>2, <1>5, <2>1, <2>4
      <3>2. i - n \in DOMAIN l /\ j - n \in DOMAIN l /\ l[i - n] = x /\ l[j - n] = y
        BY <1>4, <2>1, <2>4, <3>1
      <3>3. i - n < j - n
        BY <1>2, <1>5, <2>1
      <3> QED BY <3>2, <3>3 DEF Precedes
    <2> QED BY <2>2, <2>3, <2>4
  <1>10. ASSUME NEW x, NEW y, Precedes(k, x, y) PROVE Precedes(m, x, y)
    BY <1>3, <1>10 DEF Precedes
  <1>11. ASSUME NEW x, NEW y, Precedes(l, x, y) PROVE Precedes(m, x, y)
    <2>1. PICK i, j \in DOMAIN l : i < j /\ l[i] = x /\ l[j] = y
      BY <1>11 DEF Precedes
    <2>2. i + n < j + n
      BY <1>2, <1>5, <2>1
    <2> QED BY <1>3, <2>1, <2>2 DEF Precedes
  <1>12. ASSUME NEW x \in ToSet(k), NEW y \in ToSet(l) PROVE Precedes(m, x, y)
    <2>1. PICK i \in DOMAIN k : k[i] = x
      BY DEF ToSet
    <2>2. PICK j \in DOMAIN l : l[j] = y
      BY DEF ToSet
    <2> QED BY <1>3, <1>6, <2>1, <2>2 DEF Precedes
  <1> QED BY <1>1, <1>7, <1>8, <1>9, <1>10, <1>11, <1>12 DEF m

(* Turning a list around                                                   *)
LEMMA ReverseIs ==
    ASSUME NEW T, NEW l \in Seq(T)
    PROVE  /\ Reverse(l) \in Seq(T)
           /\ ToSet(Reverse(l)) = ToSet(l)
           /\ IsInjective(l) => IsInjective(Reverse(l))
  <1> DEFINE m == Reverse(l)
             n == Len(l)
  <1>1. n \in Nat /\ DOMAIN l = 1 .. n /\ \A i \in 1 .. n : l[i] \in T
    BY LenProperties, ElementOfSeq
  <1>2. m = [i \in 1 .. n |-> l[(n - i) + 1]]
    BY DEF Reverse
  <1> HIDE DEF n, m
  <1>3. \A i \in 1 .. n : (n - i) + 1 \in 1 .. n /\ (n - ((n - i) + 1)) + 1 = i
    BY <1>1
  <1>4. DOMAIN m = 1 .. n /\ \A i \in 1 .. n : m[i] = l[(n - i) + 1]
    BY <1>2
  <1>5. m \in Seq(T)
    <2>1. m \in [1 .. n -> T]
      BY <1>1, <1>2, <1>3
    <2> QED BY <1>1, <2>1, SeqDef
  <1>6. ToSet(m) = ToSet(l)
    BY <1>1, <1>3, <1>4 DEF ToSet
  <1>7. ASSUME IsInjective(l) PROVE IsInjective(m)
    <2>1. SUFFICES ASSUME NEW i \in 1 .. n, NEW j \in 1 .. n, m[i] = m[j] PROVE i = j
      BY <1>4 DEF IsInjective
    <2>2. (n - i) + 1 = (n - j) + 1
      BY <1>1, <1>3, <1>4, <1>7, <2>1 DEF IsInjective
    <2> QED BY <1>1, <2>2
  <1> QED BY <1>5, <1>6, <1>7 DEF m

(* Two lists of the same elements, each once and in the same order, are    *)
(* the same: the place of an element tells how many precede it.            *)
LEMMA PlaceIsCount ==
    ASSUME NEW T, NEW l \in Seq(T), IsInjective(l), NEW i \in DOMAIN l
    PROVE  Cardinality({x \in ToSet(l) : Precedes(l, x, l[i])}) = i - 1
  <1> DEFINE B == {x \in ToSet(l) : Precedes(l, x, l[i])}
             A == 1 .. i - 1
             f == [k \in A |-> l[k]]
  <1>1. DOMAIN l = 1 .. Len(l) /\ Len(l) \in Nat
    BY LenProperties
  <1>2. A \subseteq DOMAIN l /\ i \in Nat \ {0} /\ \A k \in A : k < i
    BY <1>1
  <1>3. IsFiniteSet(A) /\ Cardinality(A) = i - 1
    <2>1. 1 \in Int /\ i - 1 \in Int
      BY <1>2
    <2>2. /\ IsFiniteSet(1 .. i - 1)
          /\ Cardinality(1 .. i - 1) = IF 1 > i - 1 THEN 0 ELSE (i - 1) - 1 + 1
      BY ONLY <2>1, FS_Interval
    <2> QED BY <1>2, <2>2
  <1> HIDE DEF A
  <1>4. \A k \in A : l[k] \in B
    BY <1>2 DEF ToSet, Precedes
  <1>5. \A x \in B : \E k \in A : l[k] = x
    <2>1. SUFFICES ASSUME NEW x, Precedes(l, x, l[i]) PROVE \E k \in A : l[k] = x
      OBVIOUS
    <2>2. PICK a, b \in DOMAIN l : a < b /\ l[a] = x /\ l[b] = l[i]
      BY <2>1 DEF Precedes
    <2>3. b = i
      BY <2>2 DEF IsInjective
    <2>4. a \in A
      BY <1>1, <2>2, <2>3 DEF A
    <2> QED BY <2>2, <2>4
  <1>6. \A a, b \in A : l[a] = l[b] => a = b
    BY <1>2 DEF IsInjective
  <1> HIDE DEF B
  <1>7. f \in [A -> B] /\ (\A x \in B : \E k \in A : f[k] = x)
                       /\ (\A a, b \in A : f[a] = f[b] => a = b)
    BY <1>4, <1>5, <1>6
  <1> HIDE DEF f
  <1>8. f \in Bijection(A, B)
    BY <1>7 DEF Bijection, Injection, Surjection, IsInjective
  <1>9. ExistsBijection(A, B)
    BY <1>8 DEF ExistsBijection
  <1>10. Cardinality(B) = i - 1
    BY <1>3, <1>9, FS_Bijection
  <1> QED BY <1>10 DEF B

LEMMA SameOrder ==
    ASSUME NEW T, NEW l \in Seq(T), NEW m \in Seq(T),
           IsInjective(l), IsInjective(m), ToSet(l) = ToSet(m),
           \A x, y : Precedes(l, x, y) <=> Precedes(m, x, y)
    PROVE  l = m
  <1>1. /\ DOMAIN l = 1 .. Len(l) /\ Len(l) \in Nat
        /\ DOMAIN m = 1 .. Len(m) /\ Len(m) \in Nat
    BY LenProperties
  <1>2. ASSUME NEW i \in DOMAIN l, NEW j \in DOMAIN m, l[i] = m[j] PROVE i = j
    <2>1. Cardinality({x \in ToSet(l) : Precedes(l, x, l[i])}) = i - 1
      BY PlaceIsCount
    <2>2. Cardinality({x \in ToSet(m) : Precedes(m, x, m[j])}) = j - 1
      BY PlaceIsCount
    <2>3. {x \in ToSet(l) : Precedes(l, x, l[i])} = {x \in ToSet(m) : Precedes(m, x, m[j])}
      BY <1>2
    <2>4. i - 1 = j - 1
      BY <2>1, <2>2, <2>3
    <2> QED BY <1>1, <2>4
  <1>3. \A i \in DOMAIN l : i \in DOMAIN m /\ l[i] = m[i]
    <2>1. TAKE i \in DOMAIN l
    <2>2. l[i] \in ToSet(m)
      BY DEF ToSet
    <2>3. PICK j \in DOMAIN m : m[j] = l[i]
      BY <2>2 DEF ToSet
    <2> QED BY <1>2, <2>3
  <1>4. \A j \in DOMAIN m : j \in DOMAIN l
    <2>1. TAKE j \in DOMAIN m
    <2>2. m[j] \in ToSet(l)
      BY DEF ToSet
    <2>3. PICK i \in DOMAIN l : l[i] = m[j]
      BY <2>2 DEF ToSet
    <2> QED BY <1>2, <2>3
  <1>5. Len(l) = Len(m)
    <2>1. Len(m) = 0 \/ Len(m) \in 1 .. Len(l)
      BY <1>1, <1>4
    <2>2. Len(l) = 0 \/ Len(l) \in 1 .. Len(m)
      BY <1>1, <1>3
    <2> DEFINE p == Len(l)
               q == Len(m)
    <2>3. p \in Nat /\ q \in Nat /\ q <= p /\ p <= q
      BY <1>1, <2>1, <2>2
    <2> HIDE DEF p, q
    <2>4. p = q
      BY ONLY <2>3
    <2> QED BY <2>4 DEF p, q
  <1> QED BY <1>1, <1>3, <1>5, SeqEqual

-----------------------------------------------------------------------------
(* The inductive invariant                                                 *)

(* A session that was not made is nowhere, and an id that was exposed is   *)
(* one that a session has had.                                             *)
UnusedIsNowhere ==
    /\ \A s \in GssSessions : kind[s] = "unused" => s \notin Listed \cup ToSet(saved)
    /\ \A x \in exposed : \E s \in GssSessions : Id[s] = x /\ kind[s] # "unused"

BornIsPast == \A s \in GssSessions : born[s] <= clock

(* The file and the list agree on the permanent sessions and their order;  *)
(* what the list lacks was seen over plain HTTP.                           *)
FileIsInOrder ==
    /\ IsInjective(saved)
    /\ \A s \in ToSet(saved) : Permanent(s)
    /\ \A s \in Listed : Permanent(s) => s \in ToSet(saved)
    /\ \A s, t \in Listed : Permanent(s) /\ Permanent(t) =>
            (Precedes(saved, s, t) <=> Precedes(list, s, t))
    /\ \A s \in ToSet(saved) \ Listed : Id[s] \in exposed

IInv ==
    /\ TypeOK
    /\ ListedIsReferenced
    /\ UnusedIsNowhere
    /\ BornIsPast
    /\ RightsEnd
    /\ ExposedIsDead
    /\ FileIsInOrder

(* What is left of the list when some sessions have been invalidated       *)
IsRest(rest, ended) ==
    /\ rest \in Seq(GssSessions)
    /\ IsInjective(rest)
    /\ ToSet(rest) = Listed \ ended
    /\ \A s, t : Precedes(rest, s, t) <=> s \notin ended /\ t \notin ended /\ Precedes(list, s, t)

LEMMA ListedAreSessions ==
    ASSUME NEW l \in Seq(GssSessions)
    PROVE  /\ ToSet(l) \subseteq GssSessions
           /\ \A s, t : Precedes(l, s, t) => s \in ToSet(l) /\ t \in ToSet(l)
  <1>1. \A i \in DOMAIN l : l[i] \in GssSessions
    BY LenProperties, ElementOfSeq
  <1> QED BY <1>1 DEF ToSet, Precedes

LEMMA WithoutIsRest == ASSUME IInv, NEW ended PROVE IsRest(Without(ended), ended)
  <1>1. list \in Seq(GssSessions) /\ IsInjective(list)
    BY DEF IInv, TypeOK, ListedIsReferenced
  <1>2. /\ Listed \subseteq GssSessions
        /\ \A s, t : Precedes(list, s, t) => s \in GssSessions /\ t \in GssSessions
    BY <1>1, ListedAreSessions DEF Listed
  <1> DEFINE S == GssSessions \ ended
             rest == Sublist(list, S)
  <1>3. /\ rest \in Seq(GssSessions)
        /\ ToSet(rest) = ToSet(list) \cap S
        /\ IsInjective(rest)
        /\ \A x, y : Precedes(rest, x, y) <=> x \in S /\ y \in S /\ Precedes(list, x, y)
    BY ONLY <1>1, SublistIs
  <1>4. Without(ended) = rest
    BY DEF Without
  <1> QED BY <1>2, <1>3, <1>4 DEF IsRest, Listed

LEMMA ListIsRest == ASSUME IInv PROVE IsRest(list, {})
  BY DEF IInv, TypeOK, ListedIsReferenced, IsRest, Listed

(* The permanent ones of what is left                                      *)
LEMMA PermanentsAre ==
    ASSUME NEW l \in Seq(GssSessions), IsInjective(l)
    PROVE  /\ Permanents(l) \in Seq(GssSessions)
           /\ IsInjective(Permanents(l))
           /\ \A s : s \in ToSet(Permanents(l)) <=> s \in ToSet(l) /\ Permanent(s)
           /\ \A s, t : Precedes(Permanents(l), s, t) <=>
                           Permanent(s) /\ Permanent(t) /\ Precedes(l, s, t)
  <1> DEFINE S == {s \in GssSessions : Permanent(s)}
             m == Sublist(l, S)
  <1>1. /\ m \in Seq(GssSessions) /\ ToSet(m) = ToSet(l) \cap S /\ IsInjective(m)
        /\ \A x, y : Precedes(m, x, y) <=> x \in S /\ y \in S /\ Precedes(l, x, y)
    BY SublistIs
  <1>2. /\ ToSet(l) \subseteq GssSessions
        /\ \A s, t : Precedes(l, s, t) => s \in ToSet(l) /\ t \in ToSet(l)
    BY ListedAreSessions
  <1>3. Permanents(l) = m
    BY DEF Permanents
  <1> QED BY <1>1, <1>2, <1>3

(* References are only given back by sessions that have one.               *)
LEMMA RefsAre ==
    ASSUME IInv, NEW found, NEW ended, ended \subseteq Listed
    PROVE  /\ Refs(found, ended) \in [GssSessions -> Nat]
           /\ \A s \in Listed \ ended : Refs(found, ended)[s] >= 1
           /\ \A s \in found \cap GssSessions : s \notin ended => Refs(found, ended)[s] >= 1
           /\ \A s \in GssSessions : s \notin found \cup ended => Refs(found, ended)[s] = refs[s]
  <1>1. refs \in [GssSessions -> Nat] /\ \A s \in Listed : refs[s] >= 1
    BY DEF IInv, TypeOK, ListedIsReferenced
  <1>2. Listed \subseteq GssSessions
    BY ListedAreSessions DEF IInv, TypeOK, Listed
  <1>3. ASSUME NEW s \in GssSessions
        PROVE  refs[s] + (IF s \in found THEN 1 ELSE 0) - (IF s \in ended THEN 1 ELSE 0) \in Nat
    BY <1>1, <1>3
  <1>4. Refs(found, ended) \in [GssSessions -> Nat]
    BY <1>3 DEF Refs
  <1>5. \A s \in GssSessions : Refs(found, ended)[s] =
            refs[s] + (IF s \in found THEN 1 ELSE 0) - (IF s \in ended THEN 1 ELSE 0)
    BY DEF Refs
  <1>6. \A s \in Listed \ ended : Refs(found, ended)[s] >= 1
    BY <1>1, <1>2, <1>5
  <1>7. \A s \in found \cap GssSessions : s \notin ended => Refs(found, ended)[s] >= 1
    BY <1>1, <1>5
  <1>8. \A s \in GssSessions : s \notin found \cup ended => Refs(found, ended)[s] = refs[s]
    BY <1>1, <1>5
  <1> QED BY <1>4, <1>6, <1>7, <1>8

-----------------------------------------------------------------------------
LEMMA InvariantAtStart == Init => IInv
  <1> SUFFICES ASSUME Init PROVE IInv
    OBVIOUS
  <1>1. 0 \in 0 .. MaxTime /\ 0 \in 0 .. MaxPending
    BY TimeAssumption, BoundAssumption
  <1>2. list = <<>> /\ saved = <<>> /\ <<>> \in Seq(GssSessions) /\ DOMAIN <<>> = {}
    <2>1. DOMAIN <<>> = 1 .. 0
      OBVIOUS
    <2> QED BY <2>1 DEF Init
  <1>3. ToSet(list) = {} /\ ToSet(saved) = {} /\ Listed = {}
    BY <1>2 DEF ToSet, Listed
  <1>4. IsInjective(list) /\ IsInjective(saved)
    BY <1>2 DEF IsInjective
  <1>5. TypeOK
    <2>1. admitted \subseteq [session : GssSessions, age : 0 .. MaxTime]
      BY DEF Init
    <2>2. born \in [GssSessions -> 0 .. MaxTime]
      BY <1>1 DEF Init
    <2> QED BY <1>1, <1>2, <2>1, <2>2 DEF Init, TypeOK
  <1>6. BornIsPast /\ RightsEnd
    BY DEF Init, BornIsPast, RightsEnd
  <1>7. ListedIsReferenced /\ UnusedIsNowhere /\ ExposedIsDead /\ FileIsInOrder
    BY <1>3, <1>4
       DEF Init, ListedIsReferenced, UnusedIsNowhere, ExposedIsDead, FileIsInOrder
  <1> QED BY <1>5, <1>6, <1>7 DEF IInv

(* Sessions are invalidated and none is created; the file is left alone,   *)
(* or written afterwards.                                                  *)
LEMMA InvalidationKeeps ==
    ASSUME IInv, NEW ended, ended \subseteq Listed, IsRest(list', ended),
           \A s \in Listed \ ended : refs'[s] >= 1,
           UNCHANGED kind,
           \/ UNCHANGED <<exposed, excused>>
           \/ \E id : Expose(id) /\ Found(id) \subseteq ended,
           \/ saved' = saved /\ \A s \in ended : Permanent(s) => Id[s] \in exposed'
           \/ saved' = Permanents(list')
    PROVE  ListedIsReferenced' /\ UnusedIsNowhere' /\ ExposedIsDead' /\ FileIsInOrder'
  <1>1. /\ list' \in Seq(GssSessions) /\ IsInjective(list') /\ Listed' = Listed \ ended
        /\ \A s, t : Precedes(list', s, t) <=>
                        s \notin ended /\ t \notin ended /\ Precedes(list, s, t)
    BY DEF IsRest, Listed
  <1>2. \A s : Permanent(s)' = Permanent(s)
    BY DEF Permanent
  <1>3. ListedIsReferenced'
    BY <1>1 DEF ListedIsReferenced
  <1>4. ExposedIsDead' /\ exposed \subseteq exposed'
    <2>1. CASE UNCHANGED <<exposed, excused>>
      BY <1>1, <2>1 DEF IInv, ExposedIsDead
    <2>2. CASE \E id : Expose(id) /\ Found(id) \subseteq ended
      <3>1. PICK id : Expose(id) /\ Found(id) \subseteq ended
        BY <2>2
      <3> QED BY <1>1, <3>1 DEF IInv, ExposedIsDead, Expose, Having, Found
    <2> QED BY <2>1, <2>2
  <1>7. \A x \in exposed' : \E s \in GssSessions : Id[s] = x /\ kind'[s] # "unused"
    <2>1. CASE UNCHANGED <<exposed, excused>>
      BY <2>1 DEF IInv, UnusedIsNowhere
    <2>2. CASE \E id : Expose(id) /\ Found(id) \subseteq ended
      <3>1. PICK id : Expose(id) /\ Found(id) \subseteq ended
        BY <2>2
      <3>2. Found(id) \subseteq Listed /\ Listed \subseteq GssSessions
        BY ListedAreSessions DEF Found, Having, IInv, TypeOK, Listed
      <3> QED BY <3>1, <3>2 DEF IInv, UnusedIsNowhere, Expose
    <2> QED BY <2>1, <2>2
  <1>5. CASE saved' = saved /\ \A s \in ended : Permanent(s) => Id[s] \in exposed'
    <2>1. UnusedIsNowhere'
      BY <1>1, <1>5, <1>7 DEF IInv, UnusedIsNowhere
    <2>2. FileIsInOrder'
      BY <1>1, <1>2, <1>4, <1>5 DEF IInv, FileIsInOrder
    <2> QED BY <1>3, <1>4, <2>1, <2>2
  <1>6. CASE saved' = Permanents(list')
    <2>1. /\ IsInjective(saved')
          /\ \A s : s \in ToSet(saved') <=> s \in ToSet(list') /\ Permanent(s)
          /\ \A s, t : Precedes(saved', s, t) <=>
                          Permanent(s) /\ Permanent(t) /\ Precedes(list', s, t)
      BY <1>1, <1>6, PermanentsAre
    <2>2. ToSet(list') = Listed'
      BY DEF Listed
    <2>3. UnusedIsNowhere'
      BY <1>1, <1>7, <2>1, <2>2 DEF IInv, UnusedIsNowhere
    <2>4. FileIsInOrder'
      BY <1>2, <2>1, <2>2 DEF FileIsInOrder
    <2> QED BY <1>3, <1>4, <2>3, <2>4
  <1> QED BY <1>5, <1>6

(* A session is created before what is left of the list; the file is left  *)
(* alone, or a permanent one is written before what it is to keep.         *)
LEMMA CreationKeeps ==
    ASSUME IInv, NEW s \in GssSessions, NEW what \in {"login", "permanent"},
           NEW isAdmin \in BOOLEAN, Create(s, what, isAdmin),
           NEW ended, ended \subseteq Listed, NEW rest, IsRest(rest, ended),
           list' = <<s>> \o rest,
           refs'[s] = 1, \A t \in Listed \ ended : refs'[t] >= 1,
           UNCHANGED <<exposed, excused>>,
           \/ what = "login" /\ saved' = saved /\ \A t \in ended : ~Permanent(t)
           \/ what = "permanent" /\ saved' = <<s>> \o Permanents(rest)
    PROVE  ListedIsReferenced' /\ UnusedIsNowhere' /\ ExposedIsDead' /\ FileIsInOrder'
  <1>1. /\ rest \in Seq(GssSessions) /\ IsInjective(rest) /\ ToSet(rest) = Listed \ ended
        /\ \A t, u : Precedes(rest, t, u) <=>
                        t \notin ended /\ u \notin ended /\ Precedes(list, t, u)
    BY DEF IsRest
  <1>2. s \notin Listed /\ s \notin ToSet(saved) /\ Id[s] \notin exposed
    BY DEF Create, IInv, UnusedIsNowhere
  <1>3. /\ IsInjective(list') /\ Listed' = {s} \cup (Listed \ ended)
        /\ \A t, u : Precedes(list', t, u) <=>
                        (t = s /\ u \in Listed \ ended) \/ Precedes(rest, t, u)
    BY <1>1, <1>2, ConsIs DEF Listed
  <1>4. /\ kind \in [GssSessions -> {"unused", "login", "permanent", "lost"}]
        /\ kind' = [kind EXCEPT ![s] = what] /\ kind[s] = "unused"
    BY DEF Create, IInv, TypeOK
  <1>5. /\ \A t \in GssSessions \ {s} : kind'[t] = kind[t] /\ Permanent(t)' = Permanent(t)
        /\ kind'[s] = what /\ (Permanent(s)' <=> what = "permanent")
    BY <1>4 DEF Permanent
  <1>6. Listed \subseteq GssSessions /\ ToSet(saved) \subseteq GssSessions
    BY ListedAreSessions DEF IInv, TypeOK, Listed
  <1>7. ListedIsReferenced'
    BY <1>3 DEF ListedIsReferenced
  <1>8. ExposedIsDead'
    BY <1>2, <1>3, <1>5, <1>6 DEF IInv, ExposedIsDead
  <1>11. \A x \in exposed : \E t \in GssSessions : Id[t] = x /\ kind'[t] # "unused"
    BY <1>2, <1>5 DEF IInv, UnusedIsNowhere
  <1>9. CASE what = "login" /\ saved' = saved /\ \A t \in ended : ~Permanent(t)
    <2>1. UnusedIsNowhere'
      BY <1>2, <1>3, <1>5, <1>9, <1>11 DEF IInv, UnusedIsNowhere
    <2>2. \A t \in ToSet(saved) : Permanent(t)'
      BY <1>2, <1>5, <1>6 DEF IInv, FileIsInOrder
    <2>3. \A t \in Listed' : Permanent(t)' => t \in Listed /\ Permanent(t) /\ t # s
      BY <1>3, <1>5, <1>6, <1>9
    <2>4. ASSUME NEW t \in Listed', NEW u \in Listed', Permanent(t)', Permanent(u)'
          PROVE  Precedes(saved, t, u) <=> Precedes(list', t, u)
      BY <1>1, <1>3, <1>9, <2>3, <2>4 DEF IInv, FileIsInOrder
    <2>5. \A t \in ToSet(saved) \ Listed' : Id[t] \in exposed
      BY <1>3, <1>9 DEF IInv, FileIsInOrder
    <2>6. FileIsInOrder'
      BY <1>9, <2>2, <2>3, <2>4, <2>5 DEF IInv, FileIsInOrder
    <2> QED BY <1>7, <1>8, <2>1, <2>6
  <1>10. CASE what = "permanent" /\ saved' = <<s>> \o Permanents(rest)
    <2>1. /\ Permanents(rest) \in Seq(GssSessions) /\ IsInjective(Permanents(rest))
          /\ \A t : t \in ToSet(Permanents(rest)) <=> t \in Listed \ ended /\ Permanent(t)
          /\ \A t, u : Precedes(Permanents(rest), t, u) <=>
                          Permanent(t) /\ Permanent(u) /\ Precedes(rest, t, u)
      BY <1>1, PermanentsAre
    <2>2. s \notin ToSet(Permanents(rest))
      BY <1>2, <2>1
    <2>3. /\ IsInjective(saved') /\ ToSet(saved') = {s} \cup ToSet(Permanents(rest))
          /\ \A t, u : Precedes(saved', t, u) <=>
                (t = s /\ u \in ToSet(Permanents(rest))) \/ Precedes(Permanents(rest), t, u)
      BY <1>10, <2>1, <2>2, ConsIs
    <2>4. UnusedIsNowhere'
      BY <1>2, <1>3, <1>5, <1>10, <1>11, <2>1, <2>3, ZenonT(40) DEF IInv, UnusedIsNowhere
    <2>5. \A t \in ToSet(saved') : Permanent(t)' /\ t \in Listed'
      BY <1>3, <1>5, <1>6, <1>10, <2>1, <2>3
    <2>6. \A t \in Listed' : Permanent(t)' => t \in ToSet(saved')
      BY <1>3, <1>5, <1>6, <2>1, <2>3
    <2>7. \A t, u : Precedes(rest, t, u) => t \in Listed \ ended /\ u \in Listed \ ended
      BY <1>1, ListedAreSessions
    <2>8. ASSUME NEW t \in Listed', NEW u \in Listed', Permanent(t)', Permanent(u)'
          PROVE  Precedes(saved', t, u) <=> Precedes(list', t, u)
      <3>1. t # s => Permanent(t) /\ t \in Listed \ ended
        BY <1>3, <1>5, <1>6, <2>8
      <3>2. u # s => Permanent(u) /\ u \in Listed \ ended
        BY <1>3, <1>5, <1>6, <2>8
      <3>3. CASE u = s
        BY <1>2, <1>3, <2>1, <2>2, <2>3, <2>7, <3>3
      <3>4. CASE u # s /\ t = s
        BY <1>3, <2>1, <2>3, <3>2, <3>4
      <3>5. CASE u # s /\ t # s
        BY <1>3, <2>1, <2>3, <3>1, <3>2, <3>5
      <3> QED BY <3>3, <3>4, <3>5
    <2>9. FileIsInOrder'
      BY <2>3, <2>5, <2>6, <2>8 DEF FileIsInOrder
    <2> QED BY <1>7, <1>8, <2>4, <2>9
  <1> QED BY <1>9, <1>10

-----------------------------------------------------------------------------
(* The steps                                                               *)

LEMMA SweptAre ==
    ASSUME NEW id
    PROVE  Swept(id) \subseteq Listed /\ \A s \in Swept(id) : ~Permanent(s)
  BY DEF Swept, Expired

LEMMA Types ==
    ASSUME IInv
    PROVE  /\ clock \in Nat /\ MaxTime \in Nat /\ clock <= MaxTime
           /\ list \in Seq(GssSessions) /\ saved \in Seq(GssSessions)
           /\ kind \in [GssSessions -> {"unused", "login", "permanent", "lost"}]
           /\ born \in [GssSessions -> 0 .. MaxTime] /\ \A s \in GssSessions : born[s] <= clock
           /\ refs \in [GssSessions -> Nat] /\ pending \in 0 .. MaxPending
           /\ Listed \subseteq GssSessions /\ ToSet(saved) \subseteq GssSessions
           /\ exposed \subseteq Ids /\ excused \subseteq GssSessions
  <1>1. list \in Seq(GssSessions) /\ saved \in Seq(GssSessions)
    BY DEF IInv, TypeOK
  <1>2. Listed \subseteq GssSessions /\ ToSet(saved) \subseteq GssSessions
    BY <1>1, ListedAreSessions DEF Listed
  <1> QED BY <1>1, <1>2, TimeAssumption DEF IInv, TypeOK, BornIsPast

(* What a request or a post that only invalidates does to the other parts  *)
LEMMA InvalidationIsTyped ==
    ASSUME IInv, NEW ended, IsRest(list', ended), refs' \in [GssSessions -> Nat],
           saved' \in Seq(GssSessions), exposed' \subseteq Ids,
           excused' \subseteq GssSessions,
           UNCHANGED <<clock, kind, admin, born, pending>>,
           admitted' \subseteq [session : GssSessions, age : 0 .. MaxTime]
    PROVE  TypeOK' /\ BornIsPast'
  BY DEF IInv, TypeOK, BornIsPast, IsRest

LEMMA SameRights ==
    ASSUME IInv, UNCHANGED <<kind, admitted>>
    PROVE  RightsEnd'
  BY DEF IInv, RightsEnd, Permanent

(* What the creation of a session does to the other parts                  *)
LEMMA CreationIsTyped ==
    ASSUME IInv, NEW s \in GssSessions, NEW what \in {"login", "permanent"},
           NEW isAdmin \in BOOLEAN, Create(s, what, isAdmin),
           NEW ended, NEW rest, IsRest(rest, ended), list' = <<s>> \o rest,
           refs' \in [GssSessions -> Nat], saved' \in Seq(GssSessions), pending' \in 0 .. MaxPending,
           UNCHANGED <<clock, exposed, excused, admitted>>
    PROVE  TypeOK' /\ BornIsPast' /\ RightsEnd'
  <1>1. list' \in Seq(GssSessions)
    BY ConsIs DEF IsRest
  <1>2. kind' \in [GssSessions -> {"unused", "login", "permanent", "lost"}]
    BY DEF IInv, TypeOK, Create
  <1>3. admin' \in [GssSessions -> BOOLEAN]
    BY DEF IInv, TypeOK, Create
  <1>4. born' \in [GssSessions -> 0 .. MaxTime] /\ BornIsPast'
    BY Types DEF IInv, TypeOK, BornIsPast, Create
  <1>5. TypeOK'
    BY <1>1, <1>2, <1>3, <1>4 DEF IInv, TypeOK
  <1>6. RightsEnd'
    <2>1. kind \in [GssSessions -> {"unused", "login", "permanent", "lost"}]
          /\ \A c \in admitted : c.session \in GssSessions
      BY DEF IInv, TypeOK
    <2>2. ASSUME NEW c \in admitted, Permanent(c.session) PROVE Permanent(c.session)'
      <3>1. c.session # s /\ c.session \in GssSessions
        BY <2>1, <2>2 DEF Create, Permanent
      <3> QED BY <2>1, <2>2, <3>1 DEF Create, Permanent
    <2> QED BY <2>2 DEF IInv, RightsEnd
  <1> QED BY <1>4, <1>5, <1>6

LEMMA FoundIs ==
    ASSUME IInv, NEW id
    PROVE  /\ Found(id) \subseteq Listed /\ Found(id) \subseteq GssSessions
           /\ \A s \in Found(id) : Id[s] = id /\ ~Expired(s)
  BY Types DEF Found, Having

LEMMA SecureRequestKeeps ==
    ASSUME IInv, NEW id, NEW needs \in Needs, NEW allowed \in BOOLEAN,
           SecureRequest(id, needs, allowed)
    PROVE  IInv'
  <1>1. IsRest(list', Swept(id))
    BY WithoutIsRest DEF SecureRequest
  <1>2. /\ refs' \in [GssSessions -> Nat]
        /\ \A s \in Listed \ Swept(id) : refs'[s] >= 1
    <2>1. refs' = Refs(Found(id), Swept(id))
      BY DEF SecureRequest
    <2> QED BY <2>1, RefsAre, SweptAre
  <1>3. UNCHANGED <<clock, kind, admin, born, pending, saved, exposed, excused>>
    BY DEF SecureRequest
  <1>4. /\ admitted' \subseteq [session : GssSessions, age : 0 .. MaxTime]
        /\ RightsEnd'
    <2>1. CASE needs # "nothing" /\ Meets(id, needs, allowed)
      <3>1. admitted' = {[session |-> s, age |-> clock - born[s]] : s \in Found(id)}
        BY <2>1 DEF SecureRequest
      <3>2. ASSUME NEW s \in Found(id)
            PROVE  /\ s \in GssSessions
                   /\ clock - born[s] \in 0 .. MaxTime
                   /\ Permanent(s) \/ clock - born[s] <= Timeout
        <4>1. s \in GssSessions /\ ~Expired(s)
          BY FoundIs
        <4>2. Permanent(s) \/ born[s] + Timeout >= clock
          BY <4>1, Types, TimeAssumption DEF Expired
        <4>3. clock - born[s] \in 0 .. MaxTime
          BY <4>1, Types
        <4>4. Permanent(s) \/ clock - born[s] <= Timeout
          BY <4>1, <4>2, Types, TimeAssumption
        <4> QED BY <4>1, <4>3, <4>4
      <3>3. RightsEnd'
        BY <1>3, <3>1, <3>2 DEF RightsEnd, Permanent
      <3> QED BY <3>1, <3>2, <3>3
    <2>2. CASE ~(needs # "nothing" /\ Meets(id, needs, allowed))
      <3>1. admitted' = admitted
        BY <2>2 DEF SecureRequest
      <3> QED BY <1>3, <3>1, SameRights DEF IInv, TypeOK
    <2> QED BY <2>1, <2>2
  <1>5. TypeOK' /\ BornIsPast'
    BY <1>1, <1>2, <1>3, <1>4, Types, InvalidationIsTyped
  <1>6. ListedIsReferenced' /\ UnusedIsNowhere' /\ ExposedIsDead' /\ FileIsInOrder'
    BY <1>1, <1>2, <1>3, SweptAre, InvalidationKeeps
  <1> QED BY <1>4, <1>5, <1>6 DEF IInv

LEMMA PlainRequestKeeps ==
    ASSUME IInv, NEW id, PlainRequest(id)
    PROVE  IInv'
  <1> DEFINE ended == Swept(id) \cup Found(id)
  <1>1. IsRest(list', ended)
    BY WithoutIsRest DEF PlainRequest
  <1>2. ended \subseteq Listed /\ Found(id) \subseteq ended
    BY SweptAre, FoundIs
  <1>3. refs' = Refs(Found(id), ended) /\ Expose(id)
    BY DEF PlainRequest
  <1>4. UNCHANGED <<clock, kind, admin, born, pending, saved, admitted>>
    BY DEF PlainRequest
  <1>5. \A s \in ended : Permanent(s) => Id[s] \in exposed'
    BY <1>3, SweptAre DEF Expose
  <1> HIDE DEF ended
  <1>6. refs' \in [GssSessions -> Nat] /\ \A s \in Listed \ ended : refs'[s] >= 1
    BY <1>2, <1>3, RefsAre
  <1>7. TypeOK' /\ BornIsPast'
    <2>1. admitted' \subseteq [session : GssSessions, age : 0 .. MaxTime]
      BY <1>4 DEF IInv, TypeOK
    <2>2. exposed' \subseteq Ids /\ excused' \subseteq GssSessions
      BY <1>3, FoundIs, Types DEF Expose, Having, Ids
    <2>3. saved' \in Seq(GssSessions)
      BY <1>4, Types
    <2> QED BY <1>1, <1>4, <1>6, <2>1, <2>2, <2>3, InvalidationIsTyped
  <1>8. ListedIsReferenced' /\ UnusedIsNowhere' /\ ExposedIsDead' /\ FileIsInOrder'
    BY <1>1, <1>2, <1>3, <1>4, <1>5, <1>6, InvalidationKeeps
  <1> QED BY <1>4, <1>7, <1>8, SameRights DEF IInv

LEMMA LogoutKeeps ==
    ASSUME IInv, NEW id, Logout(id)
    PROVE  IInv'
  <1> DEFINE ended == Swept(id) \cup {s \in Found(id) : ~Permanent(s)}
  <1>1. IsRest(list', ended)
    BY WithoutIsRest DEF Logout
  <1>2. ended \subseteq Listed /\ \A s \in ended : ~Permanent(s)
    BY SweptAre, FoundIs
  <1>3. refs' = Refs(Found(id), ended)
    BY DEF Logout
  <1>4. UNCHANGED <<clock, kind, admin, born, pending, saved, exposed, excused, admitted>>
    BY DEF Logout
  <1> HIDE DEF ended
  <1>5. refs' \in [GssSessions -> Nat] /\ \A s \in Listed \ ended : refs'[s] >= 1
    BY <1>2, <1>3, RefsAre
  <1>6. TypeOK' /\ BornIsPast'
    <2>1. admitted' \subseteq [session : GssSessions, age : 0 .. MaxTime]
      BY <1>4 DEF IInv, TypeOK
    <2>2. exposed' \subseteq Ids /\ excused' \subseteq GssSessions
          /\ saved' \in Seq(GssSessions)
      BY <1>4, Types
    <2> QED BY <1>1, <1>4, <1>5, <2>1, <2>2, InvalidationIsTyped
  <1>7. ListedIsReferenced' /\ UnusedIsNowhere' /\ ExposedIsDead' /\ FileIsInOrder'
    BY <1>1, <1>2, <1>4, <1>5, InvalidationKeeps
  <1> QED BY <1>4, <1>6, <1>7, SameRights DEF IInv

(* A post that invalidates and writes the file                             *)
LEMMA SavingKeeps ==
    ASSUME IInv, NEW ended, ended \subseteq Listed,
           list' = Without(ended), saved' = Permanents(Without(ended)),
           refs' \in [GssSessions -> Nat], \A s \in Listed \ ended : refs'[s] >= 1,
           UNCHANGED <<clock, kind, admin, born, pending, exposed, excused, admitted>>
    PROVE  IInv'
  <1>1. IsRest(list', ended)
    BY WithoutIsRest
  <1>2. saved' \in Seq(GssSessions)
    BY <1>1, PermanentsAre DEF IsRest
  <1>3. TypeOK' /\ BornIsPast'
    <2>1. admitted' \subseteq [session : GssSessions, age : 0 .. MaxTime] /\ exposed' \subseteq Ids
      BY DEF IInv, TypeOK
    <2> QED BY <1>1, <1>2, <2>1, Types, InvalidationIsTyped
  <1>4. ListedIsReferenced' /\ UnusedIsNowhere' /\ ExposedIsDead' /\ FileIsInOrder'
    <2>1. kind' = kind /\ UNCHANGED <<exposed, excused>> /\ saved' = Permanents(list')
      OBVIOUS
    <2> QED BY <1>1, <2>1, InvalidationKeeps
  <1> QED BY <1>3, <1>4, SameRights DEF IInv

LEMMA RemoveSessionKeeps ==
    ASSUME IInv, NEW by, NEW id, RemoveSession(by, id)
    PROVE  IInv'
  <1> DEFINE ended == Swept(by) \cup Swept(id) \cup Found(id)
             left == Refs(Found(id), ended)
  <1>1. /\ list' = Without(ended) /\ saved' = Permanents(Without(ended))
        /\ refs' = [s \in GssSessions |-> left[s] + (IF s \in Found(by) THEN 1 ELSE 0)]
        /\ UNCHANGED <<clock, kind, admin, born, pending, exposed, excused, admitted>>
    BY DEF RemoveSession
  <1>2. ended \subseteq Listed
    BY SweptAre, FoundIs
  <1> HIDE DEF ended
  <1>3. left \in [GssSessions -> Nat] /\ \A s \in Listed \ ended : left[s] >= 1
    BY <1>2, RefsAre
  <1> HIDE DEF left
  <1>4. refs' \in [GssSessions -> Nat] /\ \A s \in Listed \ ended : refs'[s] >= 1
    BY <1>1, <1>3, Types
  <1> QED BY <1>1, <1>2, <1>4, SavingKeeps

LEMMA SaveConfigKeeps ==
    ASSUME IInv, NEW by, SaveConfig(by)
    PROVE  IInv'
  <1> DEFINE ended == Swept(by)
  <1>1. /\ list' = Without(ended) /\ saved' = Permanents(Without(ended))
        /\ refs' = Refs(Found(by), ended)
        /\ UNCHANGED <<clock, kind, admin, born, pending, exposed, excused, admitted>>
    BY DEF SaveConfig
  <1>2. ended \subseteq Listed
    BY SweptAre
  <1> HIDE DEF ended
  <1>3. refs' \in [GssSessions -> Nat] /\ \A s \in Listed \ ended : refs'[s] >= 1
    BY <1>1, <1>2, RefsAre
  <1> QED BY <1>1, <1>2, <1>3, SavingKeeps

(* A login, with a password or an assertion                                *)
LEMMA LoginKeeps ==
    ASSUME IInv, NEW s \in GssSessions, NEW isAdmin \in BOOLEAN, Create(s, "login", isAdmin),
           list' = <<s>> \o list, refs' = [refs EXCEPT ![s] = 1],
           pending' \in 0 .. MaxPending,
           UNCHANGED <<clock, saved, exposed, excused, admitted>>
    PROVE  IInv'
  <1>1. IsRest(list, {})
    BY ListIsRest
  <1>2. refs' \in [GssSessions -> Nat] /\ refs'[s] = 1 /\ \A t \in Listed \ {} : refs'[t] >= 1
    BY Types DEF IInv, ListedIsReferenced
  <1>3. TypeOK' /\ BornIsPast' /\ RightsEnd'
    <2>1. saved' \in Seq(GssSessions)
      BY Types
    <2> QED BY <1>1, <1>2, <2>1, CreationIsTyped
  <1>4. ListedIsReferenced' /\ UnusedIsNowhere' /\ ExposedIsDead' /\ FileIsInOrder'
    <2>1. {} \subseteq Listed /\ \A t \in {} : ~Permanent(t)
      OBVIOUS
    <2>2. "login" \in {"login", "permanent"} /\ saved' = saved
      OBVIOUS
    <2> QED BY <1>1, <1>2, <2>1, <2>2, CreationKeeps
  <1> QED BY <1>3, <1>4 DEF IInv

(* A permanent session is added before what is left, and so it is saved.   *)
LEMMA AddingKeeps ==
    ASSUME IInv, NEW by, NEW s \in GssSessions, Create(s, "permanent", TRUE),
           NEW ended, ended \subseteq Listed,
           list' = <<s>> \o Without(ended),
           refs' = [Refs(Found(by), ended) EXCEPT ![s] = 1],
           saved' = <<s>> \o Permanents(Without(ended)),
           UNCHANGED <<clock, pending, exposed, excused, admitted>>
    PROVE  IInv'
  <1> DEFINE rest == Without(ended)
             left == Refs(Found(by), ended)
  <1>1. IsRest(rest, ended)
    BY WithoutIsRest
  <1>2. left \in [GssSessions -> Nat] /\ \A t \in Listed \ ended : left[t] >= 1
    BY RefsAre
  <1>3. list' = <<s>> \o rest /\ saved' = <<s>> \o Permanents(rest)
    OBVIOUS
  <1>9. refs' = [left EXCEPT ![s] = 1] /\ Listed \subseteq GssSessions
    BY Types
  <1> HIDE DEF rest, left
  <1>4. /\ refs' \in [GssSessions -> Nat] /\ refs'[s] = 1
        /\ \A t \in Listed \ ended : refs'[t] >= 1
    BY ONLY s \in GssSessions, <1>2, <1>9
  <1>5. saved' \in Seq(GssSessions)
    <2>1. Permanents(rest) \in Seq(GssSessions)
      BY <1>1, PermanentsAre DEF IsRest
    <2> DEFINE m == Permanents(rest)
    <2> HIDE DEF m
    <2>2. <<s>> \o m \in Seq(GssSessions)
      BY ONLY s \in GssSessions, <2>1, ConsIs DEF m
    <2> QED BY <1>3, <2>2 DEF m
  <1>6. "permanent" \in {"login", "permanent"} /\ TRUE \in BOOLEAN
    OBVIOUS
  <1>7. TypeOK' /\ BornIsPast' /\ RightsEnd'
    <2>1. pending' \in 0 .. MaxPending
      BY Types
    <2> QED BY <1>1, <1>3, <1>4, <1>5, <1>6, <2>1, CreationIsTyped
  <1>8. ListedIsReferenced' /\ UnusedIsNowhere' /\ ExposedIsDead' /\ FileIsInOrder'
    BY <1>1, <1>3, <1>4, <1>6, CreationKeeps
  <1> QED BY <1>7, <1>8 DEF IInv

LEMMA AddPermanentKeeps ==
    ASSUME IInv, NEW by, NEW s \in GssSessions, AddPermanent(by, s)
    PROVE  IInv'
  <1>1. Swept(by) \subseteq Listed
    BY SweptAre
  <1> QED BY <1>1, AddingKeeps DEF AddPermanent

(* A post of the permanent sessions: none of the old ones is left, so the  *)
(* new ones are all that the list and the file have of them.               *)
LEMMA ReplacePermanentKeeps ==
    ASSUME IInv, NEW by, NEW posted \in Posts, ReplacePermanent(by, posted)
    PROVE  IInv'
  <1> DEFINE ended == Swept(by) \cup {p \in Listed : Permanent(p)}
             made == ToSet(posted)
             new == Reverse(posted)
             rest == Without(ended)
             left == Refs(Found(by), ended)
  <1>1. /\ made \cap (Listed \ ended) = {}
        /\ list' = new \o rest /\ saved' = new
        /\ kind' = [s \in GssSessions |-> IF s \in made THEN "permanent" ELSE kind[s]]
        /\ admin' = [s \in GssSessions |-> s \in made \/ admin[s]]
        /\ born' = [s \in GssSessions |-> IF s \in made THEN clock ELSE born[s]]
        /\ refs' = [s \in GssSessions |-> IF s \in made THEN 1 ELSE left[s]]
        /\ excused' = (excused \ made) \cup {s \in made : Id[s] \in exposed}
        /\ UNCHANGED <<clock, pending, exposed, admitted>>
    BY DEF ReplacePermanent
  <1>2. posted \in Seq(GssSessions) /\ IsInjective(posted)
    <2>1. PICK n \in 0 .. MaxPosted : posted \in [1 .. n -> GssSessions]
      BY DEF Posts
    <2>2. n \in Nat
      BY BoundAssumption
    <2> QED BY <2>1, <2>2, SeqDef DEF Posts
  <1>3. /\ new \in Seq(GssSessions) /\ ToSet(new) = made /\ IsInjective(new)
        /\ made \subseteq GssSessions
    BY <1>2, ReverseIs, ListedAreSessions
  <1>4. /\ ended \subseteq Listed /\ \A s \in Listed \ ended : ~Permanent(s)
        /\ IsRest(rest, ended)
    BY SweptAre, WithoutIsRest
  <1>5. left \in [GssSessions -> Nat] /\ \A s \in Listed \ ended : left[s] >= 1
    BY <1>4, RefsAre
  <1> HIDE DEF ended, made, new, rest, left
  <1>6. rest \in Seq(GssSessions) /\ IsInjective(rest) /\ ToSet(rest) = Listed \ ended
    BY <1>4 DEF IsRest
  <1>7. /\ list' \in Seq(GssSessions) /\ IsInjective(list')
        /\ Listed' = made \cup (Listed \ ended)
        /\ \A s, t : Precedes(list', s, t) <=>
                        \/ Precedes(new, s, t) \/ Precedes(rest, s, t)
                        \/ s \in made /\ t \in Listed \ ended
    BY <1>1, <1>3, <1>6, ConcatIs DEF Listed
  <1>8. /\ \A s \in made : Permanent(s)' /\ kind'[s] # "unused"
        /\ \A s \in GssSessions \ made : Permanent(s)' <=> Permanent(s)
        /\ \A s \in GssSessions : kind[s] # "unused" => kind'[s] # "unused"
        /\ \A s \in GssSessions \ made : kind'[s] = kind[s]
    BY <1>1, <1>3 DEF Permanent
  <1>9. Listed \subseteq GssSessions
    BY Types
  <1>10. TypeOK'
    <2>1. kind' \in [GssSessions -> {"unused", "login", "permanent", "lost"}]
      BY <1>1, Types
    <2>2. admin' \in [GssSessions -> BOOLEAN]
      BY <1>1
    <2>3. born' \in [GssSessions -> 0 .. MaxTime]
      BY <1>1, Types DEF IInv, TypeOK
    <2>4. refs' \in [GssSessions -> Nat]
      BY <1>1, <1>5
    <2>5. excused' \subseteq GssSessions
      BY <1>1, <1>3, Types
    <2> QED BY <1>1, <1>3, <1>7, <2>1, <2>2, <2>3, <2>4, <2>5 DEF IInv, TypeOK
  <1>11. BornIsPast'
    BY <1>1, Types DEF BornIsPast
  <1>12. RightsEnd'
    <2>1. ASSUME NEW c \in admitted, Permanent(c.session) PROVE Permanent(c.session)'
      <3>1. c.session \in GssSessions
        BY DEF IInv, TypeOK
      <3> QED BY <1>8, <2>1, <3>1
    <2> QED BY <1>1, <2>1 DEF IInv, RightsEnd
  <1>13. ListedIsReferenced'
    BY <1>1, <1>3, <1>5, <1>7, <1>9 DEF ListedIsReferenced
  <1>14. UnusedIsNowhere'
    <2>1. ASSUME NEW s \in GssSessions, kind'[s] = "unused"
          PROVE  s \notin Listed' \cup ToSet(saved')
      BY <1>1, <1>3, <1>7, <1>8, <2>1 DEF IInv, UnusedIsNowhere
    <2>2. \A x \in exposed : \E s \in GssSessions : Id[s] = x /\ kind'[s] # "unused"
      BY <1>8 DEF IInv, UnusedIsNowhere
    <2> QED BY <1>1, <2>1, <2>2 DEF UnusedIsNowhere
  <1>15. ExposedIsDead'
    BY <1>1, <1>7 DEF IInv, ExposedIsDead
  <1>16. FileIsInOrder'
    <2>1. \A s \in Listed' : Permanent(s)' <=> s \in made
      BY <1>1, <1>3, <1>4, <1>7, <1>8, <1>9
    <2>2. ASSUME NEW s \in made, NEW t \in made
          PROVE  Precedes(new, s, t) <=> Precedes(list', s, t)
      <3>1. ~Precedes(rest, s, t)
        BY <1>1, <1>6, ListedAreSessions
      <3> QED BY <1>1, <1>7, <3>1
    <2>3. ToSet(saved') = made /\ IsInjective(saved') /\ made \subseteq Listed'
      BY <1>1, <1>3, <1>7
    <2> QED BY <1>1, <1>8, <2>1, <2>2, <2>3 DEF FileIsInOrder
  <1> QED BY <1>10, <1>11, <1>12, <1>13, <1>14, <1>15, <1>16 DEF IInv

LEMMA RestartKeeps == ASSUME IInv, Restart PROVE IInv'
  <1>1. /\ list' = Reverse(saved) /\ saved' = Reverse(saved) /\ admitted' = {}
        /\ pending' = 0 /\ clock' = clock /\ exposed' = exposed
        /\ excused' = {s \in ToSet(saved) : Id[s] \in exposed}
    BY DEF Restart
  <1>2. saved \in Seq(GssSessions) /\ IsInjective(saved)
    BY DEF IInv, TypeOK, FileIsInOrder
  <1>3. /\ list' \in Seq(GssSessions) /\ saved' \in Seq(GssSessions) /\ saved' = list'
        /\ IsInjective(list') /\ ToSet(list') = ToSet(saved) /\ Listed' = ToSet(saved)
    BY <1>1, <1>2, ReverseIs DEF Listed
  <1>4. \A s \in ToSet(saved) :
            s \in GssSessions /\ kind'[s] = "permanent" /\ refs'[s] = 1 /\ Permanent(s)'
    BY Types DEF Restart, Permanent
  <1>5. \A s \in GssSessions :
            /\ kind'[s] = "unused" => kind[s] = "unused" /\ s \notin ToSet(saved)
            /\ kind[s] # "unused" => kind'[s] # "unused"
    BY DEF Restart
  <1>6. BornIsPast' /\ \A s \in GssSessions : born'[s] \in 0 .. MaxTime
    BY Types DEF Restart, BornIsPast
  <1>7. TypeOK'
    <2>1. kind' \in [GssSessions -> {"unused", "login", "permanent", "lost"}]
      BY Types DEF Restart
    <2>2. admin' \in [GssSessions -> BOOLEAN] /\ refs' \in [GssSessions -> Nat]
      BY DEF Restart
    <2>3. born' \in [GssSessions -> 0 .. MaxTime]
      BY <1>6 DEF Restart
    <2>4. admitted' \subseteq [session : GssSessions, age : 0 .. MaxTime]
          /\ excused' \subseteq GssSessions
      BY <1>1, <1>4
    <2>5. pending' \in 0 .. MaxPending /\ clock' \in 0 .. MaxTime /\ exposed' \subseteq Ids
      BY <1>1, BoundAssumption, Types DEF IInv, TypeOK
    <2> QED BY <1>1, <1>3, <2>1, <2>2, <2>3, <2>4, <2>5 DEF TypeOK
  <1>8. ListedIsReferenced' /\ UnusedIsNowhere' /\ ExposedIsDead' /\ FileIsInOrder'
    <2>1. ListedIsReferenced'
      BY <1>3, <1>4 DEF ListedIsReferenced
    <2>2. UnusedIsNowhere'
      BY <1>1, <1>3, <1>5 DEF IInv, UnusedIsNowhere
    <2>3. ExposedIsDead'
      BY <1>1, <1>3 DEF ExposedIsDead
    <2>4. FileIsInOrder'
      BY <1>3, <1>4 DEF FileIsInOrder
    <2> QED BY <2>1, <2>2, <2>3, <2>4
  <1>9. RightsEnd'
    BY <1>1 DEF RightsEnd
  <1> QED BY <1>6, <1>7, <1>8, <1>9 DEF IInv

(* Steps that touch no session: the clock and the verifier                 *)
LEMMA OthersKeep ==
    ASSUME IInv, AskVerifier \/ Rejected \/ Tick \/ UNCHANGED vars
    PROVE  IInv'
  <1>1. UNCHANGED <<list, kind, admin, born, refs, saved, exposed, excused, admitted>>
    BY DEF AskVerifier, Rejected, Tick, vars
  <1>2. pending' \in 0 .. MaxPending
    BY Types, BoundAssumption DEF AskVerifier, Rejected, Tick, vars
  <1>3. clock' \in 0 .. MaxTime /\ clock <= clock'
    BY Types DEF AskVerifier, Rejected, Tick, vars
  <1>4. TypeOK' /\ BornIsPast'
    <2>1. TypeOK'
      BY <1>1, <1>2, <1>3 DEF IInv, TypeOK
    <2>2. BornIsPast'
      BY <1>1, <1>3, Types DEF BornIsPast
    <2> QED BY <2>1, <2>2
  <1>5. ListedIsReferenced' /\ UnusedIsNowhere' /\ ExposedIsDead' /\ FileIsInOrder'
    BY <1>1 DEF IInv, ListedIsReferenced, UnusedIsNowhere, ExposedIsDead, FileIsInOrder,
                Listed, Permanent
  <1> QED BY <1>1, <1>4, <1>5, SameRights DEF IInv

-----------------------------------------------------------------------------
(* The invariant holds of every history of logins, requests, posts of an   *)
(* administrator, expiries and restarts.                                   *)
THEOREM Inductive == Spec => []IInv
  <1>1. ASSUME IInv, [Next]_vars PROVE IInv'
    <2>1. CASE \E s \in GssSessions : Login(s)
      <3>1. PICK s \in GssSessions : Login(s)
        BY <2>1
      <3>2. Create(s, "login", TRUE) /\ TRUE \in BOOLEAN /\ pending' \in 0 .. MaxPending
        BY <1>1, <3>1, Types DEF Login
      <3> QED BY <1>1, <3>1, <3>2, LoginKeeps DEF Login
    <2>2. CASE \E s \in GssSessions, isAdmin \in BOOLEAN : Verified(s, isAdmin)
      <3>1. PICK s \in GssSessions, isAdmin \in BOOLEAN : Verified(s, isAdmin)
        BY <2>2
      <3>2. pending' \in 0 .. MaxPending
        BY <1>1, <3>1, Types, BoundAssumption DEF Verified
      <3> QED BY <1>1, <3>1, <3>2, LoginKeeps DEF Verified
    <2>3. CASE \E id \in Ids \cup {NoId}, needs \in Needs, allowed \in BOOLEAN :
                  SecureRequest(id, needs, allowed)
      BY <1>1, <2>3, SecureRequestKeeps
    <2>4. CASE \E id \in Ids \cup {NoId} : PlainRequest(id) \/ Logout(id)
      BY <1>1, <2>4, PlainRequestKeeps, LogoutKeeps
    <2>5. CASE \E by \in Ids, s \in GssSessions : AddPermanent(by, s)
      BY <1>1, <2>5, AddPermanentKeeps
    <2>9. CASE \E by \in Ids, posted \in Posts : ReplacePermanent(by, posted)
      BY <1>1, <2>9, ReplacePermanentKeeps
    <2>10. CASE \E by, id \in Ids : RemoveSession(by, id)
      BY <1>1, <2>10, RemoveSessionKeeps
    <2>6. CASE \E by \in Ids : SaveConfig(by)
      BY <1>1, <2>6, SaveConfigKeeps
    <2>7. CASE Restart
      BY <1>1, <2>7, RestartKeeps
    <2>8. CASE AskVerifier \/ Rejected \/ Tick \/ UNCHANGED vars
      BY <1>1, <2>8, OthersKeep
    <2> QED BY <1>1, <2>1, <2>2, <2>3, <2>4, <2>5, <2>6, <2>7, <2>8, <2>9, <2>10 DEF Next
  <1> QED BY <1>1, InvariantAtStart, PTL DEF Spec

(* The list of sessions can be walked: no session is in it twice, and none *)
(* that is in it was ever freed (gss_session_lookup, gss_session_unref).   *)
THEOREM ListCorrect == Spec => []ListIsSound
  <1>1. IInv => ListIsSound
    BY DEF IInv, ListIsSound
  <1> QED BY <1>1, Inductive, PTL

(* No request is served with the rights of a login more than               *)
(* SESSION_TIMEOUT after it (__gss_session_is_valid).                      *)
THEOREM RightsCorrect == Spec => []RightsEnd
  <1>1. IInv => RightsEnd
    BY DEF IInv
  <1> QED BY <1>1, Inductive, PTL

(* An id that a plain HTTP request has shown to the network is that of no  *)
(* listed session, but for one that had it beside the session found        *)
(* (gss_server_resource_callback) and one made under it later, by a post   *)
(* (gss_user_set_permanent_sessions) or from the file at a start.          *)
THEOREM ExposedCorrect == Spec => []ExposedIsDead
  <1>1. IInv => ExposedIsDead
    BY DEF IInv
  <1> QED BY <1>1, Inductive, PTL

(* The file has the permanent sessions of the list, in its order, at every *)
(* moment, and besides them only some that were seen over plain HTTP       *)
(* (gss_user_add_permanent_session, gss_user_set_permanent_sessions,       *)
(* gss_config_save_config_file).                                           *)
THEOREM SavedCorrect == Spec => []PermanentIsSaved
  <1>1. ASSUME IInv PROVE PermanentIsSaved
    <2> DEFINE l == Permanents(list)
               m == Sublist(saved, Listed)
    <2>1. /\ list \in Seq(GssSessions) /\ IsInjective(list) /\ saved \in Seq(GssSessions)
          /\ IsInjective(saved)
      BY <1>1 DEF IInv, TypeOK, ListedIsReferenced, FileIsInOrder
    <2>2. /\ l \in Seq(GssSessions) /\ IsInjective(l)
          /\ \A s : s \in ToSet(l) <=> s \in Listed /\ Permanent(s)
          /\ \A s, t : Precedes(l, s, t) <=>
                          Permanent(s) /\ Permanent(t) /\ Precedes(list, s, t)
      BY <2>1, PermanentsAre DEF Listed
    <2>3. /\ m \in Seq(GssSessions) /\ IsInjective(m)
          /\ ToSet(m) = ToSet(saved) \cap Listed
          /\ \A s, t : Precedes(m, s, t) <=>
                          s \in Listed /\ t \in Listed /\ Precedes(saved, s, t)
      BY <2>1, SublistIs
    <2>4. /\ \A s, t : Precedes(list, s, t) => s \in Listed /\ t \in Listed
          /\ \A s, t : Precedes(saved, s, t) => s \in ToSet(saved) /\ t \in ToSet(saved)
      BY <2>1, ListedAreSessions DEF Listed
    <2> HIDE DEF l, m
    <2>5. ToSet(l) = ToSet(m)
      BY <1>1, <2>2, <2>3 DEF IInv, FileIsInOrder
    <2>6. ASSUME NEW s, NEW t PROVE Precedes(l, s, t) <=> Precedes(m, s, t)
      BY <1>1, <2>2, <2>3, <2>4 DEF IInv, FileIsInOrder
    <2>7. l = m
      BY <2>2, <2>3, <2>5, <2>6, SameOrder
    <2> QED BY <1>1, <2>7 DEF l, m, IInv, FileIsInOrder, PermanentIsSaved
  <1> QED BY <1>1, Inductive, PTL
=============================================================================
