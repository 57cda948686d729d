-------------------------- MODULE DashRange_proofs --------------------------
(***************************************************************************)
(* Proofs about Fragmentizer and DashRange, for every movie whose tables   *)
(* fit together, every time scale and all sizes.                           *)
(***************************************************************************)
EXTENDS DashRange, SequenceTheorems, WellFoundedInduction, TLAPS

-----------------------------------------------------------------------------
(* Induction over numbers, for sets                                        *)

LEMMA Least ==
    ASSUME NEW T \in SUBSET Nat, T # {}
    PROVE  \E x \in T : \A y \in T : x <= y
<1>1. IsWellFoundedOn(OpToRel(<, Nat), Nat)
  BY NatLessThanWellFounded
<1>2. PICK x \in T : \A y \in T : <<y, x>> \notin OpToRel(<, Nat)
  BY <1>1, WFMin
<1>3. \A y \in Nat : y < x => <<y, x>> \in OpToRel(<, Nat)
  BY DEF OpToRel
<1>4. \A y \in T : ~(y < x)
  BY <1>2, <1>3
<1>. QED
  BY <1>4

LEMMA SetInduction ==
    ASSUME NEW T, 0 \in T, \A n \in Nat : n \in T => n + 1 \in T
    PROVE  Nat \subseteq T
<1> SUFFICES ASSUME NEW m \in Nat, m \notin T
             PROVE  FALSE
  OBVIOUS
<1>1. PICK x \in Nat \ T : \A y \in Nat \ T : x <= y
  BY Least
<1>2. x # 0 /\ x - 1 \in Nat
  BY <1>1
<1>3. x - 1 \in T
  BY <1>1, <1>2
<1>. QED
  BY <1>1, <1>2, <1>3

(* A set of numbers that has an element and a bound has a greatest one.    *)
LEMMA Greatest ==
    ASSUME NEW n \in Nat, NEW T \in SUBSET (0 .. n), T # {}
    PROVE  \E x \in T : \A y \in T : y <= x
<1> DEFINE U == {m \in Nat : n - m \in T}
<1>1. PICK y \in T : TRUE
  OBVIOUS
<1>2. n - y \in U
  BY <1>1
<1>3. PICK m \in U : \A k \in U : m <= k
  BY <1>2, Least
<1>4. \A x \in T : n - x \in U
  OBVIOUS
<1>5. n - m \in T /\ \A x \in T : x <= n - m
  BY <1>3, <1>4
<1>. QED
  BY <1>5

-----------------------------------------------------------------------------
(* Sums                                                                    *)

IsSum(g, s, n) == g = [i \in 0 .. n |-> IF i = 0 THEN 0 ELSE g[i - 1] + s[i]]

LEMMA SumExists ==
    ASSUME NEW s, NEW n \in Nat
    PROVE  \E g : IsSum(g, s, n)
<1> DEFINE T == {m \in Nat : \E g : IsSum(g, s, m)}
<1>1. 0 \in T
  <2> DEFINE g == [i \in 0 .. 0 |-> 0]
  <2>1. \A i \in 0 .. 0 : i = 0
    OBVIOUS
  <2>2. IsSum(g, s, 0)
    BY <2>1 DEF IsSum
  <2>. QED
    BY <2>2
<1>2. ASSUME NEW m \in Nat, m \in T
      PROVE  m + 1 \in T
  <2>1. PICK f : IsSum(f, s, m)
    BY <1>2
  <2> DEFINE g == [i \in 0 .. m + 1 |-> IF i \in 0 .. m THEN f[i] ELSE f[m] + s[m + 1]]
             h == [i \in 0 .. m + 1 |-> IF i = 0 THEN 0 ELSE g[i - 1] + s[i]]
  <2>2. \A i \in 0 .. m : f[i] = IF i = 0 THEN 0 ELSE f[i - 1] + s[i]
    BY <2>1 DEF IsSum
  <2>3. ASSUME NEW i \in 0 .. m + 1
        PROVE  g[i] = h[i]
    <3>1. CASE i = 0
      BY <2>2, <3>1
    <3>2. CASE i \in 1 .. m
      <4>1. i \in 0 .. m /\ i # 0 /\ i - 1 \in 0 .. m /\ i - 1 \in 0 .. m + 1
        BY <3>2
      <4>2. g[i] = f[i] /\ g[i - 1] = f[i - 1]
        BY <4>1
      <4>. QED
        BY <2>2, <4>1, <4>2
    <3>3. CASE i = m + 1
      <4>1. i \notin 0 .. m /\ i # 0 /\ i - 1 = m /\ m \in 0 .. m /\ m \in 0 .. m + 1
        BY <3>3
      <4>2. g[i] = f[m] + s[m + 1] /\ g[m] = f[m]
        BY <4>1
      <4>3. h[i] = g[m] + s[m + 1]
        BY <3>3, <4>1
      <4>. QED
        BY <4>2, <4>3
    <3>. QED
      BY <3>1, <3>2, <3>3
  <2>4. g = h
    BY <2>3
  <2> HIDE DEF g
  <2>5. IsSum(g, s, m + 1)
    BY <2>4 DEF IsSum
  <2>. QED
    BY <2>5
<1> HIDE DEF T
<1>. QED
  BY <1>1, <1>2, SetInduction DEF T

LEMMA TotalIs ==
    ASSUME NEW n \in Nat, NEW s, Len(s) = n
    PROVE  \E g : IsSum(g, s, n) /\ Total(s) = g[n]
<1> DEFINE g == CHOOSE f : IsSum(f, s, n)
<1>1. IsSum(g, s, n)
  BY SumExists
<1>2. Total(s) = g[n]
  BY DEF Total, IsSum
<1>. QED
  BY <1>1, <1>2

Upto(f, n) == Total([j \in 1 .. n |-> f[j]])

(* The sums of the first elements of f, one by one                         *)
LEMMA SumStep ==
    ASSUME NEW n \in Nat, NEW f, \A j \in 1 .. n : f[j] \in Nat
    PROVE  /\ Upto(f, 0) = 0
           /\ \A i \in 0 .. n : Upto(f, i) \in Nat
           /\ \A i \in 1 .. n : Upto(f, i) = Upto(f, i - 1) + f[i]
<1> DEFINE s(i) == [j \in 1 .. i |-> f[j]]
<1>1. ASSUME NEW i \in 0 .. n
      PROVE  Len(s(i)) = i /\ \A j \in 1 .. i : s(i)[j] = f[j]
  OBVIOUS
<1>2. PICK g : IsSum(g, f, n)
  BY SumExists
<1>3. /\ g[0] = 0
      /\ \A i \in 1 .. n : g[i] = g[i - 1] + f[i]
  BY <1>2 DEF IsSum
<1> HIDE DEF s
<1>4. ASSUME NEW i \in 0 .. n
      PROVE  Upto(f, i) = g[i]
  <2>1. PICK h : IsSum(h, s(i), i) /\ Total(s(i)) = h[i]
    BY <1>1, TotalIs
  <2>2. /\ h[0] = 0
        /\ \A k \in 1 .. i : h[k] = h[k - 1] + f[k]
    BY <1>1, <2>1 DEF IsSum
  <2> DEFINE T == {k \in Nat : k <= i => h[k] = g[k]}
  <2>3. 0 \in T
    BY <1>3, <2>2
  <2>4. ASSUME NEW k \in Nat, k \in T
        PROVE  k + 1 \in T
    <3> SUFFICES ASSUME k + 1 <= i
                 PROVE  h[k + 1] = g[k + 1]
      OBVIOUS
    <3>1. h[k] = g[k] /\ k + 1 \in 1 .. i /\ k + 1 \in 1 .. n /\ k + 1 - 1 = k
      BY <2>4
    <3>. QED
      BY <1>3, <2>2, <3>1
  <2> HIDE DEF T
  <2>5. i \in T
    BY <2>3, <2>4, SetInduction
  <2>6. h[i] = g[i]
    BY <2>5 DEF T
  <2>. QED
    BY <2>1, <2>6 DEF Upto, s
<1>5. \A i \in 0 .. n : g[i] \in Nat
  <2> DEFINE T == {k \in Nat : k <= n => g[k] \in Nat}
  <2>1. 0 \in T
    BY <1>3
  <2>2. ASSUME NEW k \in Nat, k \in T
        PROVE  k + 1 \in T
    <3> SUFFICES ASSUME k + 1 <= n
                 PROVE  g[k + 1] \in Nat
      OBVIOUS
    <3>1. g[k] \in Nat /\ k + 1 \in 1 .. n /\ k + 1 - 1 = k
      BY <2>2
    <3>. QED
      BY <1>3, <3>1
  <2> HIDE DEF T
  <2>3. Nat \subseteq T
    BY <2>1, <2>2, SetInduction
  <2>. QED
    BY <2>3 DEF T
<1>6. ASSUME NEW i \in 1 .. n
      PROVE  Upto(f, i) = Upto(f, i - 1) + f[i]
  <2>1. i \in 0 .. n /\ i - 1 \in 0 .. n
    OBVIOUS
  <2>. QED
    BY <1>3, <1>4, <2>1
<1>7. \A i \in 0 .. n : Upto(f, i) \in Nat
  BY <1>4, <1>5
<1>8. Upto(f, 0) = 0
  BY <1>3, <1>4
<1>. QED
  BY <1>6, <1>7, <1>8

(* They grow, and where elements are not 0 they grow strictly.             *)
LEMMA SumGrows ==
    ASSUME NEW n \in Nat, NEW f, \A j \in 1 .. n : f[j] \in Nat,
           NEW i \in 0 .. n, NEW k \in i .. n
    PROVE  /\ Upto(f, i) <= Upto(f, k)
           /\ (\A j \in 1 .. n : f[j] # 0) /\ i < k => Upto(f, i) < Upto(f, k)
<1> DEFINE T == {m \in Nat : i + m <= n =>
                    /\ Upto(f, i) <= Upto(f, i + m)
                    /\ (\A j \in 1 .. n : f[j] # 0) /\ 0 < m => Upto(f, i) < Upto(f, i + m)}
<1>1. 0 \in T
  BY SumStep
<1>2. ASSUME NEW m \in Nat, m \in T
      PROVE  m + 1 \in T
  <2> SUFFICES ASSUME i + (m + 1) <= n
               PROVE  /\ Upto(f, i) <= Upto(f, i + (m + 1))
                      /\ (\A j \in 1 .. n : f[j] # 0) => Upto(f, i) < Upto(f, i + (m + 1))
    OBVIOUS
  <2>1. Upto(f, i) <= Upto(f, i + m)
    BY <1>2
  <2>2. i + (m + 1) \in 1 .. n /\ i + (m + 1) - 1 = i + m /\ i + m \in 0 .. n
    OBVIOUS
  <2>3. Upto(f, i + (m + 1)) = Upto(f, i + m) + f[i + (m + 1)]
    BY <2>2, SumStep
  <2>4. f[i + (m + 1)] \in Nat /\ Upto(f, i) \in Nat /\ Upto(f, i + m) \in Nat
    BY <2>2, SumStep
  <2>5. (\A j \in 1 .. n : f[j] # 0) => f[i + (m + 1)] # 0
    BY <2>2
  <2>. QED
    BY <2>1, <2>3, <2>4, <2>5
<1> HIDE DEF T
<1>3. k - i \in T
  BY <1>1, <1>2, SetInduction
<1>4. i + (k - i) = k
  OBVIOUS
<1>. QED
  BY <1>3, <1>4 DEF T

-----------------------------------------------------------------------------
(* What the tables of a track mean                                         *)

(* stts: the entries one after the other cover all samples                 *)
LEMMA Entries ==
    ASSUME NEW t, IsTrack(t)
    PROVE  /\ Len(t.stts) \in Nat /\ NumSamples(t) \in Nat
           /\ EntryStart(t, 1) = 0 /\ EntryTime(t, 1) = 0
           /\ EntryStart(t, Len(t.stts) + 1) = NumSamples(t)
           /\ \A i \in 1 .. Len(t.stts) + 1 : EntryStart(t, i) \in Nat /\ EntryTime(t, i) \in Nat
           /\ \A i \in 1 .. Len(t.stts) :
                 /\ t.stts[i].count \in Nat \ {0} /\ t.stts[i].delta \in Nat
                 /\ EntryStart(t, i + 1) = EntryStart(t, i) + t.stts[i].count
                 /\ EntryTime(t, i + 1) = EntryTime(t, i) + t.stts[i].count * t.stts[i].delta
           /\ \A i \in 1 .. Len(t.stts) + 1 : \A k \in i .. Len(t.stts) + 1 :
                 /\ EntryStart(t, i) <= EntryStart(t, k)
                 /\ EntryTime(t, i) <= EntryTime(t, k)
<1> DEFINE n == Len(t.stts)
           count == [j \in 1 .. n |-> t.stts[j].count]
           spent == [j \in 1 .. n |-> t.stts[j].count * t.stts[j].delta]
<1>1. n \in Nat /\ NumSamples(t) \in Nat
  BY DEF IsTrack, NumSamples
<1>2. \A j \in 1 .. n : t.stts[j].count \in Nat \ {0} /\ t.stts[j].delta \in Nat
  <2> DEFINE R == [count : Nat \ {0}, delta : Nat]
  <2>1. \A e \in R : e.count \in Nat \ {0} /\ e.delta \in Nat
    OBVIOUS
  <2>2. t.stts \in Seq(R)
    BY DEF IsTrack
  <2> HIDE DEF R
  <2>3. \A j \in 1 .. n : t.stts[j] \in R
    BY <2>2
  <2>. QED
    BY <2>1, <2>3
<1>3. \A j \in 1 .. n : t.stts[j].count * t.stts[j].delta \in Nat
  BY <1>2
<1>4. /\ \A j \in 1 .. n : count[j] = t.stts[j].count /\ count[j] \in Nat
      /\ \A j \in 1 .. n : spent[j] = t.stts[j].count * t.stts[j].delta /\ spent[j] \in Nat
  BY <1>2, <1>3
<1>5. ASSUME NEW i \in 1 .. n + 1
      PROVE  EntryStart(t, i) = Upto(count, i - 1) /\ EntryTime(t, i) = Upto(spent, i - 1)
  <2>1. [j \in 1 .. i - 1 |-> t.stts[j].count] = [j \in 1 .. i - 1 |-> count[j]]
    BY <1>1, <1>4
  <2>2. [j \in 1 .. i - 1 |-> t.stts[j].count * t.stts[j].delta]
            = [j \in 1 .. i - 1 |-> spent[j]]
    BY <1>1, <1>4
  <2>. QED
    BY <2>1, <2>2 DEF EntryStart, EntryTime, Upto
<1> HIDE DEF n, count, spent
<1>6. /\ Upto(count, 0) = 0
      /\ \A i \in 0 .. n : Upto(count, i) \in Nat
      /\ \A i \in 1 .. n : Upto(count, i) = Upto(count, i - 1) + count[i]
      /\ \A i \in 0 .. n : \A k \in i .. n : Upto(count, i) <= Upto(count, k)
  BY <1>1, <1>4, SumStep, SumGrows
<1>7. /\ Upto(spent, 0) = 0
      /\ \A i \in 0 .. n : Upto(spent, i) \in Nat
      /\ \A i \in 1 .. n : Upto(spent, i) = Upto(spent, i - 1) + spent[i]
      /\ \A i \in 0 .. n : \A k \in i .. n : Upto(spent, i) <= Upto(spent, k)
  BY <1>1, <1>4, SumStep, SumGrows
<1>8. EntryStart(t, 1) = 0 /\ EntryTime(t, 1) = 0
  BY <1>1, <1>5, <1>6, <1>7
<1>9. ASSUME NEW i \in 1 .. n + 1
      PROVE  EntryStart(t, i) \in Nat /\ EntryTime(t, i) \in Nat
  <2>1. i - 1 \in 0 .. n
    BY <1>1
  <2>. QED
    BY <1>5, <1>6, <1>7, <2>1
<1>10. ASSUME NEW i \in 1 .. n
       PROVE  /\ EntryStart(t, i + 1) = EntryStart(t, i) + t.stts[i].count
              /\ EntryTime(t, i + 1) = EntryTime(t, i) + t.stts[i].count * t.stts[i].delta
  <2>1. i \in 1 .. n + 1 /\ i + 1 \in 1 .. n + 1 /\ i + 1 - 1 = i
    BY <1>1
  <2>. QED
    BY <1>4, <1>5, <1>6, <1>7, <2>1
<1>11. ASSUME NEW i \in 1 .. n + 1, NEW k \in i .. n + 1
       PROVE  EntryStart(t, i) <= EntryStart(t, k) /\ EntryTime(t, i) <= EntryTime(t, k)
  <2>1. k \in 1 .. n + 1 /\ i - 1 \in 0 .. n /\ k - 1 \in i - 1 .. n
    BY <1>1
  <2>. QED
    BY <1>5, <1>6, <1>7, <2>1
<1>12. EntryStart(t, n + 1) = NumSamples(t)
  BY DEF IsTrack, n
<1>. QED
  BY <1>1, <1>2, <1>8, <1>9, <1>10, <1>11, <1>12 DEF n

LEMMA EntryOf ==
    ASSUME NEW t, IsTrack(t), NEW k \in Nat, k < NumSamples(t)
    PROVE  \E i \in 1 .. Len(t.stts) : EntryStart(t, i) <= k /\ k < EntryStart(t, i + 1)
<1> DEFINE n == Len(t.stts)
           T == {i \in 1 .. n + 1 : EntryStart(t, i) <= k}
<1>1. /\ n \in Nat
      /\ EntryStart(t, 1) = 0
      /\ EntryStart(t, n + 1) = NumSamples(t)
      /\ \A i \in 1 .. n + 1 : EntryStart(t, i) \in Nat
      /\ NumSamples(t) \in Nat
  BY Entries
<1> HIDE DEF n
<1>2. 1 \in T /\ T \subseteq 0 .. n + 1 /\ n + 1 \in Nat
  BY <1>1
<1>3. PICK i \in T : \A j \in T : j <= i
  <2>. HIDE DEF T
  <2>. QED
    BY <1>2, Greatest
<1>4. i # n + 1
  BY <1>1
<1>5. i \in 1 .. n /\ i + 1 \in 1 .. n + 1 /\ i + 1 \notin T
  BY <1>1, <1>3, <1>4
<1>6. k < EntryStart(t, i + 1)
  BY <1>1, <1>5
<1>. QED
  BY <1>5, <1>6 DEF n

LEMMA DeltaIs ==
    ASSUME NEW t, IsTrack(t), NEW k \in Nat, NEW i \in 1 .. Len(t.stts),
           EntryStart(t, i) <= k, k < EntryStart(t, i + 1)
    PROVE  DeltaOf(t, k) = t.stts[i].delta
<1> DEFINE n == Len(t.stts)
<1>1. /\ n \in Nat
      /\ \A j \in 1 .. n + 1 : EntryStart(t, j) \in Nat
      /\ \A j \in 1 .. n + 1 : \A l \in j .. n + 1 : EntryStart(t, j) <= EntryStart(t, l)
  BY Entries
<1>2. ASSUME NEW j \in 1 .. n, EntryStart(t, j) <= k, k < EntryStart(t, j + 1)
      PROVE  j = i
  <2>1. CASE j < i
    <3>1. j + 1 \in 1 .. n + 1 /\ i \in j + 1 .. n + 1 /\ i \in 1 .. n + 1
      BY <1>1, <2>1
    <3>2. EntryStart(t, j + 1) <= EntryStart(t, i)
      BY <1>1, <3>1
    <3>. QED
      BY <1>1, <1>2, <3>1, <3>2
  <2>2. CASE i < j
    <3>1. i + 1 \in 1 .. n + 1 /\ j \in i + 1 .. n + 1 /\ j \in 1 .. n + 1
      BY <1>1, <2>2
    <3>2. EntryStart(t, i + 1) <= EntryStart(t, j)
      BY <1>1, <3>1
    <3>. QED
      BY <1>1, <1>2, <3>1, <3>2
  <2>. QED
    BY <1>1, <2>1, <2>2
<1>3. DOMAIN t.stts = 1 .. n
  BY DEF IsTrack
<1>4. (CHOOSE j \in DOMAIN t.stts : EntryStart(t, j) <= k /\ k < EntryStart(t, j + 1)) = i
  BY <1>2, <1>3
<1>. QED
  BY <1>4 DEF DeltaOf

(* stsc: entry m of the table is about chunk c.                            *)
IsAbout(t, m, c) ==
    /\ m \in 1 .. Len(t.stsc)
    /\ t.stsc[m].first - 1 <= c
    /\ m < Len(t.stsc) => c < t.stsc[m + 1].first - 1

LEMMA Stsc ==
    ASSUME NEW t, IsTrack(t)
    PROVE  /\ Len(t.stsc) \in Nat \ {0} /\ DOMAIN t.stsc = 1 .. Len(t.stsc)
           /\ t.stsc[1].first = 1
           /\ \A m \in 1 .. Len(t.stsc) :
                 t.stsc[m].first \in Nat \ {0} /\ t.stsc[m].per \in Nat \ {0}
           /\ \A m, k \in 1 .. Len(t.stsc) : m < k => t.stsc[m].first < t.stsc[k].first
<1>1. t.stsc \in Seq([first : Nat \ {0}, per : Nat \ {0}]) /\ t.stsc # <<>>
  BY DEF IsTrack
<1>2. Len(t.stsc) \in Nat \ {0} /\ DOMAIN t.stsc = 1 .. Len(t.stsc)
  BY <1>1
<1>3. \A m \in 1 .. Len(t.stsc) : t.stsc[m].first \in Nat \ {0} /\ t.stsc[m].per \in Nat \ {0}
  <2> DEFINE R == [first : Nat \ {0}, per : Nat \ {0}]
  <2>1. \A e \in R : e.first \in Nat \ {0} /\ e.per \in Nat \ {0}
    OBVIOUS
  <2>2. t.stsc \in Seq(R)
    BY <1>1
  <2> HIDE DEF R
  <2>3. \A m \in 1 .. Len(t.stsc) : t.stsc[m] \in R
    BY <2>2
  <2>. QED
    BY <2>1, <2>3
<1>. QED
  BY <1>2, <1>3 DEF IsTrack

LEMMA PerIs ==
    ASSUME NEW t, IsTrack(t), NEW c \in Nat, NEW m, IsAbout(t, m, c)
    PROVE  PerChunk(t, c) = t.stsc[m].per
<1> DEFINE now == {i \in DOMAIN t.stsc : t.stsc[i].first - 1 <= c}
<1>1. m \in now
  BY Stsc DEF IsAbout
<1>2. \A i \in now : i <= m
  <2> SUFFICES ASSUME NEW i \in now, ~(i <= m)
               PROVE  FALSE
    OBVIOUS
  <2>1. i \in 1 .. Len(t.stsc) /\ m \in 1 .. Len(t.stsc) /\ Len(t.stsc) \in Nat
    BY Stsc DEF IsAbout
  <2>2. m + 1 \in 1 .. Len(t.stsc) /\ m < Len(t.stsc) /\ (m + 1 = i \/ m + 1 < i)
    BY <2>1
  <2>3. t.stsc[m + 1].first <= t.stsc[i].first
    BY <2>1, <2>2, Stsc
  <2>4. t.stsc[i].first \in Nat /\ t.stsc[m + 1].first \in Nat
    BY <2>1, <2>2, Stsc
  <2>. QED
    BY <2>2, <2>3, <2>4, SMTT(30) DEF IsAbout
<1>3. \A i \in now : (\A j \in now : j <= i) => i = m
  BY <1>1, <1>2, Stsc
<1> HIDE DEF now
<1>4. (CHOOSE i \in now : \A j \in now : j <= i) = m
  BY <1>1, <1>2, <1>3
<1>. QED
  BY <1>4 DEF PerChunk, now

LEMMA PerIsPositive ==
    ASSUME NEW t, IsTrack(t), NEW c \in Nat
    PROVE  PerChunk(t, c) \in Nat \ {0}
<1> DEFINE n == Len(t.stsc)
           now == {i \in 1 .. n : t.stsc[i].first - 1 <= c}
<1>1. n \in Nat \ {0} /\ 1 \in now /\ now \subseteq 0 .. n
  BY Stsc
<1>2. PICK m \in now : \A i \in now : i <= m
  <2>. HIDE DEF now
  <2>. QED
    BY <1>1, Greatest
<1>3. IsAbout(t, m, c)
  <2>1. ASSUME m < n
        PROVE  c < t.stsc[m + 1].first - 1
    <3>1. m + 1 \in 1 .. n /\ m + 1 \notin now
      BY <1>1, <1>2, <2>1
    <3>2. t.stsc[m + 1].first \in Nat
      BY <3>1, Stsc
    <3>. QED
      BY <3>1, <3>2
  <2>. QED
    BY <2>1 DEF IsAbout
<1>4. PerChunk(t, c) = t.stsc[m].per
  BY <1>3, PerIs
<1>5. t.stsc[m].per \in Nat \ {0}
  BY <1>1, Stsc
<1>. QED
  BY <1>4, <1>5

(* The chunks one after the other cover all samples.                       *)
LEMMA Chunks ==
    ASSUME NEW t, IsTrack(t)
    PROVE  /\ ChunkStart(t, 0) = 0
           /\ \A c \in Nat : ChunkStart(t, c) \in Nat
           /\ \A c \in Nat : ChunkStart(t, c + 1) = ChunkStart(t, c) + PerChunk(t, c)
           /\ \A c \in Nat : \A d \in Nat : c < d => ChunkStart(t, c) < ChunkStart(t, d)
           /\ \A c \in Nat : c <= ChunkStart(t, c)
<1> DEFINE f(n) == [d \in 1 .. n |-> PerChunk(t, d - 1)]
<1>1. ASSUME NEW n \in Nat
      PROVE  \A j \in 1 .. n : f(n)[j] = PerChunk(t, j - 1) /\ f(n)[j] \in Nat \ {0}
  BY PerIsPositive
<1>2. ASSUME NEW n \in Nat, NEW c \in 0 .. n
      PROVE  ChunkStart(t, c) = Upto(f(n), c)
  <2>1. [d \in 1 .. c |-> PerChunk(t, d - 1)] = [d \in 1 .. c |-> f(n)[d]]
    BY <1>1
  <2>. QED
    BY <2>1 DEF ChunkStart, Upto
<1> HIDE DEF f
<1>3. ChunkStart(t, 0) = 0
  BY <1>1, <1>2, SumStep
<1>4. ASSUME NEW c \in Nat
      PROVE  ChunkStart(t, c) \in Nat
  <2>1. \A j \in 1 .. c : f(c)[j] \in Nat
    BY <1>1
  <2>2. c \in 0 .. c
    OBVIOUS
  <2>3. Upto(f(c), c) \in Nat
    BY <2>1, <2>2, SumStep
  <2>. QED
    BY <1>2, <2>2, <2>3
<1>5. ASSUME NEW c \in Nat
      PROVE  ChunkStart(t, c + 1) = ChunkStart(t, c) + PerChunk(t, c)
  <2>1. c + 1 \in Nat /\ c + 1 \in 1 .. c + 1 /\ c + 1 - 1 = c /\ c \in 0 .. c + 1
    OBVIOUS
  <2>2. Upto(f(c + 1), c + 1) = Upto(f(c + 1), c) + f(c + 1)[c + 1]
    <3>1. \A j \in 1 .. c + 1 : f(c + 1)[j] \in Nat
      BY <1>1, <2>1
    <3>. QED
      BY <2>1, <3>1, SumStep
  <2>3. f(c + 1)[c + 1] = PerChunk(t, c)
    BY <1>1, <2>1
  <2>. QED
    BY <1>2, <2>1, <2>2, <2>3
<1>6. ASSUME NEW c \in Nat, NEW d \in Nat, c < d
      PROVE  ChunkStart(t, c) < ChunkStart(t, d)
  <2>1. c \in 0 .. d /\ d \in c .. d /\ d \in 0 .. d
    BY <1>6
  <2>2. Upto(f(d), c) < Upto(f(d), d)
    BY <1>1, <1>6, <2>1, SumGrows
  <2>. QED
    BY <1>2, <2>1, <2>2
<1>7. \A c \in Nat : c <= ChunkStart(t, c)
  <2> DEFINE T == {c \in Nat : c <= ChunkStart(t, c)}
  <2>1. 0 \in T
    BY <1>3
  <2>2. ASSUME NEW c \in Nat, c \in T
        PROVE  c + 1 \in T
    BY <1>4, <1>6, <2>2
  <2> HIDE DEF T
  <2>3. Nat \subseteq T
    BY <2>1, <2>2, SetInduction
  <2>. QED
    BY <2>3 DEF T
<1>. QED
  BY <1>3, <1>4, <1>5, <1>6, <1>7

LEMMA ChunkIs ==
    ASSUME NEW t, IsTrack(t), NEW k \in Nat, NEW c \in Nat,
           ChunkStart(t, c) <= k, k < ChunkStart(t, c + 1)
    PROVE  ChunkOf(t, k) = c
<1>1. c \in 0 .. k
  BY Chunks
<1>2. ASSUME NEW d \in 0 .. k, ChunkStart(t, d) <= k, k < ChunkStart(t, d + 1)
      PROVE  d = c
  <2>1. /\ ChunkStart(t, d) \in Nat /\ ChunkStart(t, d + 1) \in Nat
        /\ ChunkStart(t, c) \in Nat /\ ChunkStart(t, c + 1) \in Nat
    BY Chunks, SMTT(30)
  <2>2. CASE d < c
    <3>1. d + 1 = c \/ d + 1 < c
      BY <2>2
    <3>2. ChunkStart(t, d + 1) <= ChunkStart(t, c)
      <4>1. d + 1 \in Nat /\ (d + 1 < c => ChunkStart(t, d + 1) < ChunkStart(t, c))
        BY Chunks
      <4>. QED
        BY <2>1, <3>1, <4>1
    <3>. QED
      BY <1>2, <2>1, <3>2
  <2>3. CASE c < d
    <3>1. c + 1 = d \/ c + 1 < d
      BY <2>3
    <3>2. ChunkStart(t, c + 1) <= ChunkStart(t, d)
      <4>1. c + 1 \in Nat /\ d \in Nat /\ (c + 1 < d => ChunkStart(t, c + 1) < ChunkStart(t, d))
        BY Chunks
      <4>. QED
        BY <2>1, <3>1, <4>1
    <3>. QED
      BY <1>2, <2>1, <3>2
  <2>. QED
    BY <2>2, <2>3
<1>3. (CHOOSE d \in 0 .. k : ChunkStart(t, d) <= k /\ k < ChunkStart(t, d + 1)) = c
  BY <1>1, <1>2
<1>. QED
  BY <1>3 DEF ChunkOf

(* The sizes of the samples from a on                                      *)
LEMMA Sizes ==
    ASSUME NEW t, IsTrack(t), NEW a \in 0 .. NumSamples(t)
    PROVE  /\ \A k \in a .. NumSamples(t) : Total(SubSeq(t.size, a + 1, k)) \in Nat
           /\ Total(SubSeq(t.size, a + 1, a)) = 0
           /\ \A k \in a .. NumSamples(t) : k < NumSamples(t) =>
                 Total(SubSeq(t.size, a + 1, k + 1))
                     = Total(SubSeq(t.size, a + 1, k)) + t.size[k + 1]
<1> DEFINE n == NumSamples(t)
           f == [j \in 1 .. n - a |-> t.size[a + j]]
<1>1. n \in Nat /\ n = Len(t.size) /\ t.size \in Seq(Nat) /\ a \in 0 .. n
  BY DEF IsTrack, NumSamples
<1>2. \A j \in 1 .. n - a : f[j] = t.size[a + j] /\ f[j] \in Nat
  BY <1>1
<1> HIDE DEF f
<1>3. ASSUME NEW k \in a .. n
      PROVE  Total(SubSeq(t.size, a + 1, k)) = Upto(f, k - a)
  <2>1. SubSeq(t.size, a + 1, k) = [j \in 1 .. k - (a + 1) + 1 |-> t.size[j + (a + 1) - 1]]
    <3> DEFINE q == SubSeq(t.size, a + 1, k)
    <3>1. a + 1 \in Int /\ k \in Int /\ \A i \in a + 1 .. k : t.size[i] \in Nat
      BY <1>1
    <3>2. /\ q \in Seq(Nat)
          /\ Len(q) = IF a + 1 <= k THEN k - (a + 1) + 1 ELSE 0
          /\ \A i \in 1 .. k - (a + 1) + 1 : q[i] = t.size[a + 1 + i - 1]
      BY <3>1, SubSeqProperties
    <3> HIDE DEF q
    <3>3. Len(q) = k - (a + 1) + 1
      BY <1>1, <3>2
    <3>4. \A i \in 1 .. k - (a + 1) + 1 : a + 1 + i - 1 = i + (a + 1) - 1
      BY <1>1
    <3>5. q = [j \in 1 .. Len(q) |-> q[j]]
      BY <3>2
    <3>. QED
      BY <3>2, <3>3, <3>4, <3>5 DEF q
  <2>2. k - (a + 1) + 1 = k - a
    BY <1>1
  <2>3. \A j \in 1 .. k - a : t.size[j + (a + 1) - 1] = f[j]
    <3> SUFFICES ASSUME NEW j \in 1 .. k - a
                 PROVE  t.size[j + (a + 1) - 1] = f[j]
      OBVIOUS
    <3>1. j + (a + 1) - 1 = a + j /\ j \in 1 .. n - a
      BY <1>1
    <3>. QED
      BY <1>2, <3>1
  <2>4. SubSeq(t.size, a + 1, k) = [j \in 1 .. k - a |-> f[j]]
    BY <2>1, <2>2, <2>3
  <2>. QED
    BY <2>4 DEF Upto
<1> HIDE DEF n
<1>4. n - a \in Nat /\ a \in 0 .. n
  BY <1>1
<1>5. /\ Upto(f, 0) = 0
      /\ \A i \in 0 .. n - a : Upto(f, i) \in Nat
      /\ \A i \in 1 .. n - a : Upto(f, i) = Upto(f, i - 1) + f[i]
  BY <1>2, <1>4, SumStep
<1>6. ASSUME NEW k \in a .. n
      PROVE  /\ Upto(f, k - a) \in Nat
             /\ k < n => Total(SubSeq(t.size, a + 1, k + 1))
                             = Total(SubSeq(t.size, a + 1, k)) + t.size[k + 1]
  <2>1. k - a \in 0 .. n - a
    BY <1>1, <1>4
  <2>2. ASSUME k < n
        PROVE  Total(SubSeq(t.size, a + 1, k + 1))
                   = Total(SubSeq(t.size, a + 1, k)) + t.size[k + 1]
    <3>1. k + 1 - a \in 1 .. n - a /\ k + 1 - a - 1 = k - a /\ k + 1 \in a .. n
          /\ a + (k + 1 - a) = k + 1
      BY <1>1, <1>4, <2>2
    <3>. QED
      BY <1>2, <1>3, <1>5, <3>1
  <2>. QED
    BY <1>5, <2>1, <2>2
<1>7. a \in a .. n /\ a - a = 0
  BY <1>4
<1>. QED
  BY <1>3, <1>5, <1>6, <1>7 DEF n

-----------------------------------------------------------------------------
(* The iterator                                                            *)

Places == [sample : Nat, stts : Nat, inStts : Nat, stsc : Nat,
           chunk : Nat, inChunk : Nat, offset : Nat]

(* It is at the same sample in all tables.                                 *)
IsAt(t, it) ==
    /\ it \in Places
    /\ it.sample <= NumSamples(t)
    /\ it.stts \in 1 .. Len(t.stts) + 1
    /\ it.sample = EntryStart(t, it.stts) + it.inStts
    /\ IF it.stts <= Len(t.stts) THEN it.inStts < t.stts[it.stts].count ELSE it.inStts = 0
    /\ IsAbout(t, it.stsc, it.chunk)
    /\ it.sample = ChunkStart(t, it.chunk) + it.inChunk
    /\ it.inChunk < t.stsc[it.stsc].per
    /\ it.offset = Total(SubSeq(t.size, ChunkStart(t, it.chunk) + 1, it.sample))

LEMMA FirstIsAt ==
    ASSUME NEW t, IsTrack(t)
    PROVE  IsAt(t, FirstSample)
<1> DEFINE it == FirstSample
<1>1. /\ it \in Places /\ it.sample = 0 /\ it.stts = 1 /\ it.inStts = 0
      /\ it.stsc = 1 /\ it.chunk = 0 /\ it.inChunk = 0 /\ it.offset = 0
  BY DEF FirstSample, Places
<1> HIDE DEF it
<1>2. /\ Len(t.stts) \in Nat /\ NumSamples(t) \in Nat
      /\ EntryStart(t, 1) = 0
      /\ \A i \in 1 .. Len(t.stts) : t.stts[i].count \in Nat \ {0}
  BY Entries
<1>3. IsAbout(t, 1, 0)
  <2>1. Len(t.stsc) \in Nat \ {0} /\ t.stsc[1].first = 1
    BY Stsc
  <2>2. ASSUME 1 < Len(t.stsc)
        PROVE  0 < t.stsc[1 + 1].first - 1
    <3>1. 2 \in 1 .. Len(t.stsc) /\ 1 \in 1 .. Len(t.stsc) /\ 1 + 1 = 2
      BY <2>1, <2>2
    <3>2. t.stsc[1].first < t.stsc[2].first /\ t.stsc[2].first \in Nat
      BY <3>1, Stsc
    <3>. QED
      BY <2>1, <3>1, <3>2
  <2>. QED
    BY <2>1, <2>2 DEF IsAbout
<1>4. t.stsc[1].per \in Nat \ {0}
  BY Stsc
<1>5. ChunkStart(t, 0) = 0
  BY Chunks
<1>6. Total(SubSeq(t.size, 0 + 1, 0)) = 0
  BY <1>2, Sizes
<1>. QED
  BY <1>1, <1>2, <1>3, <1>4, <1>5, <1>6 DEF IsAt, it

(* What the iterator says of a sample is what the tables mean.             *)
LEMMA SampleIs ==
    ASSUME NEW t, IsTrack(t), NEW it, IsAt(t, it), it.sample < NumSamples(t)
    PROVE  LET s == Sample(t, it)
               k == it.sample
           IN  /\ s \in [size : Nat, delta : Nat, chunk : Nat, offset : Nat]
               /\ s.size = t.size[k + 1]
               /\ s.delta = DeltaOf(t, k)
               /\ s.chunk = ChunkOf(t, k)
               /\ s.offset = OffsetOf(t, k)
<1> DEFINE k == it.sample
<1>1. it \in Places /\ k \in Nat /\ it.chunk \in Nat /\ it.inChunk \in Nat
      /\ it.inStts \in Nat /\ it.offset \in Nat
  BY DEF IsAt, Places
<1>2. it.stts \in 1 .. Len(t.stts)
  BY <1>1, Entries, SMTT(30) DEF IsAt
<1>3. /\ t.stts[it.stts].delta \in Nat
      /\ EntryStart(t, it.stts) \in Nat
      /\ EntryStart(t, it.stts + 1) = EntryStart(t, it.stts) + t.stts[it.stts].count
      /\ t.stts[it.stts].count \in Nat
  <2>1. it.stts \in 1 .. Len(t.stts) + 1
    BY DEF IsAt
  <2>. QED
    BY <1>2, <2>1, Entries
<1>4. DeltaOf(t, k) = t.stts[it.stts].delta
  <2>1. k = EntryStart(t, it.stts) + it.inStts /\ it.inStts < t.stts[it.stts].count
    <3>1. it.stts <= Len(t.stts)
      BY <1>2, Entries
    <3>. QED
      BY <3>1 DEF IsAt
  <2>2. EntryStart(t, it.stts) <= k /\ k < EntryStart(t, it.stts + 1)
    <3> HIDE DEF k
    <3>. QED
      BY <1>1, <1>3, <2>1
  <2>. QED
    BY <1>1, <1>2, <2>2, DeltaIs
<1>5. PerChunk(t, it.chunk) = t.stsc[it.stsc].per
  BY <1>1, PerIs DEF IsAt
<1>6. ChunkOf(t, k) = it.chunk
  <2>1. ChunkStart(t, it.chunk + 1) = ChunkStart(t, it.chunk) + PerChunk(t, it.chunk)
    BY <1>1, Chunks
  <2>2. PerChunk(t, it.chunk) \in Nat /\ ChunkStart(t, it.chunk) \in Nat
    BY <1>1, Chunks, PerIsPositive
  <2>3. ChunkStart(t, it.chunk) <= k /\ k < ChunkStart(t, it.chunk + 1)
    BY <1>1, <1>5, <2>1, <2>2, SMTT(30) DEF IsAt
  <2>. QED
    BY <1>1, <2>3, ChunkIs
<1>7. OffsetOf(t, k) = it.offset
  BY <1>6 DEF OffsetOf, IsAt
<1>8. t.size[k + 1] \in Nat
  <2>1. t.size \in Seq(Nat)
    BY DEF IsTrack
  <2>2. k + 1 \in 1 .. Len(t.size)
    BY <1>1, <2>1 DEF NumSamples
  <2> HIDE DEF k
  <2>. QED
    BY <2>1, <2>2
<1>9. Sample(t, it) = [size |-> t.size[k + 1], delta |-> t.stts[it.stts].delta,
                       chunk |-> it.chunk, offset |-> it.offset]
  BY DEF Sample
<1> HIDE DEF k
<1>. QED
  BY <1>1, <1>3, <1>4, <1>6, <1>7, <1>8, <1>9 DEF k

LEMMA IterateIsAt ==
    ASSUME NEW t, IsTrack(t), NEW it, IsAt(t, it), it.sample < NumSamples(t)
    PROVE  IsAt(t, Iterate(t, it)) /\ Iterate(t, it).sample = it.sample + 1
<1> DEFINE k == it.sample
           n == Len(t.stts)
           next == Iterate(t, it)
           endOfEntry == it.inStts + 1 >= t.stts[it.stts].count
           endOfChunk == it.inChunk + 1 >= t.stsc[it.stsc].per
           chunk == IF endOfChunk THEN it.chunk + 1 ELSE it.chunk
           stsc == IF it.stsc < Len(t.stsc) /\ chunk >= t.stsc[it.stsc + 1].first - 1
                   THEN it.stsc + 1 ELSE it.stsc
<1>1. /\ it.sample \in Nat /\ it.stts \in Nat /\ it.inStts \in Nat /\ it.stsc \in Nat
      /\ it.chunk \in Nat /\ it.inChunk \in Nat /\ it.offset \in Nat
  BY DEF IsAt, Places
<1>2. next = [sample |-> k + 1,
              stts |-> IF endOfEntry THEN it.stts + 1 ELSE it.stts,
              inStts |-> IF endOfEntry THEN 0 ELSE it.inStts + 1,
              chunk |-> chunk,
              inChunk |-> IF endOfChunk THEN 0 ELSE it.inChunk + 1,
              offset |-> IF endOfChunk THEN 0 ELSE it.offset + t.size[k + 1],
              stsc |-> stsc]
  BY DEF Iterate
<1>3. /\ next.sample = k + 1
      /\ next.stts = IF endOfEntry THEN it.stts + 1 ELSE it.stts
      /\ next.inStts = IF endOfEntry THEN 0 ELSE it.inStts + 1
      /\ next.chunk = chunk
      /\ next.inChunk = IF endOfChunk THEN 0 ELSE it.inChunk + 1
      /\ next.offset = IF endOfChunk THEN 0 ELSE it.offset + t.size[k + 1]
      /\ next.stsc = stsc
  BY <1>2
<1>4. n \in Nat /\ NumSamples(t) \in Nat /\ k + 1 <= NumSamples(t)
  BY <1>1, Entries
<1>5. t.size[k + 1] \in Nat
  <2>1. t.size \in Seq(Nat)
    BY DEF IsTrack
  <2>2. k + 1 \in 1 .. Len(t.size)
    BY <1>1, <2>1, SMTT(30) DEF NumSamples
  <2> HIDE DEF k
  <2>. QED
    BY <2>1, <2>2
<1>6. chunk \in Nat /\ stsc \in Nat
  BY <1>1
<1>7. next \in Places
  <2> HIDE DEF chunk, stsc, endOfEntry, endOfChunk
  <2>. QED
    BY <1>1, <1>2, <1>5, <1>6 DEF Places
<1> HIDE DEF next
<1>8. it.stts \in 1 .. n /\ it.inStts < t.stts[it.stts].count
  BY <1>1, Entries, SMTT(30) DEF IsAt
<1>9. /\ next.stts \in 1 .. n + 1
      /\ next.sample = EntryStart(t, next.stts) + next.inStts
      /\ IF next.stts <= n THEN next.inStts < t.stts[next.stts].count ELSE next.inStts = 0
  <2>1. /\ EntryStart(t, it.stts) \in Nat
        /\ EntryStart(t, it.stts + 1) = EntryStart(t, it.stts) + t.stts[it.stts].count
        /\ t.stts[it.stts].count \in Nat
    <3>1. it.stts \in 1 .. n + 1
      BY <1>4, <1>8
    <3>. QED
      BY <1>8, <3>1, Entries
  <2>2. k = EntryStart(t, it.stts) + it.inStts
    BY DEF IsAt
  <2>3. CASE endOfEntry
    <3>1. next.stts = it.stts + 1 /\ next.inStts = 0
      BY <1>3, <2>3
    <3>2. it.inStts + 1 = t.stts[it.stts].count
      <4> DEFINE c == t.stts[it.stts].count
                 i == it.inStts
      <4>1. c \in Nat /\ i \in Nat /\ i < c
        BY <1>1, <1>8, <2>1
      <4>2. i + 1 >= c
        BY <2>3
      <4> HIDE DEF c, i
      <4>3. i + 1 = c
        BY ONLY <4>1, <4>2
      <4>. QED
        BY <4>3 DEF c, i
    <3>3. next.sample = EntryStart(t, next.stts) + next.inStts
      BY <1>1, <1>3, <2>1, <2>2, <3>1, <3>2
    <3>4. next.stts \in 1 .. n + 1
      BY <1>4, <1>8, <3>1
    <3>5. next.stts <= n => t.stts[next.stts].count \in Nat \ {0}
      BY <1>4, <3>4, Entries
    <3>. QED
      BY <3>1, <3>3, <3>4, <3>5
  <2>4. CASE ~endOfEntry
    <3>1. next.stts = it.stts /\ next.inStts = it.inStts + 1
      BY <1>3, <2>4
    <3>2. next.sample = EntryStart(t, next.stts) + next.inStts
      BY <1>1, <1>3, <2>1, <2>2, <3>1
    <3>3. next.stts \in 1 .. n + 1
      BY <1>4, <1>8, <3>1
    <3>4. next.inStts < t.stts[next.stts].count
      BY <1>1, <2>1, <2>4, <3>1
    <3>5. next.stts <= n
      BY <1>8, <3>1
    <3>. QED
      BY <3>2, <3>3, <3>4, <3>5
  <2>. QED
    BY <2>3, <2>4
<1>10. IsAbout(t, it.stsc, it.chunk) /\ it.stsc \in 1 .. Len(t.stsc) /\ Len(t.stsc) \in Nat
  BY Stsc DEF IsAt, IsAbout
<1>11. IsAbout(t, next.stsc, next.chunk)
  <2>1. chunk = it.chunk \/ chunk = it.chunk + 1
    OBVIOUS
  <2>2. t.stsc[it.stsc].first \in Nat /\ t.stsc[it.stsc].first - 1 <= it.chunk
    BY <1>10, Stsc DEF IsAbout
  <2>3. CASE it.stsc < Len(t.stsc) /\ chunk >= t.stsc[it.stsc + 1].first - 1
    <3>1. it.stsc + 1 \in 1 .. Len(t.stsc)
      BY <1>10, <2>3
    <3>2. t.stsc[it.stsc + 1].first \in Nat /\ it.chunk < t.stsc[it.stsc + 1].first - 1
      BY <1>10, <2>3, <3>1, Stsc DEF IsAbout
    <3>3. chunk = t.stsc[it.stsc + 1].first - 1
      <4> DEFINE f == t.stsc[it.stsc + 1].first
      <4>1. f \in Nat /\ it.chunk < f - 1 /\ chunk >= f - 1
        BY <2>3, <3>2
      <4> HIDE DEF f, chunk
      <4>2. chunk = f - 1
        BY <1>1, <2>1, <4>1
      <4>. QED
        BY <4>2 DEF f
    <3>4. ASSUME it.stsc + 1 < Len(t.stsc)
          PROVE  chunk < t.stsc[it.stsc + 1 + 1].first - 1
      <4>1. it.stsc + 1 + 1 \in 1 .. Len(t.stsc) /\ it.stsc + 1 < it.stsc + 1 + 1
        BY <1>10, <3>4
      <4>2. t.stsc[it.stsc + 1].first < t.stsc[it.stsc + 1 + 1].first
        BY <3>1, <4>1, Stsc
      <4>3. t.stsc[it.stsc + 1 + 1].first \in Nat
        BY <4>1, Stsc
      <4>. QED
        BY <3>2, <3>3, <4>2, <4>3
    <3>5. next.stsc = it.stsc + 1 /\ next.chunk = chunk
      BY <1>3, <2>3
    <3>6. t.stsc[next.stsc].first - 1 <= next.chunk
      BY <2>3, <3>2, <3>3, <3>5
    <3> HIDE DEF chunk, stsc
    <3>. QED
      BY <3>1, <3>4, <3>5, <3>6 DEF IsAbout
  <2>4. CASE ~(it.stsc < Len(t.stsc) /\ chunk >= t.stsc[it.stsc + 1].first - 1)
    <3>1. next.stsc = it.stsc /\ next.chunk = chunk
      BY <1>3, <2>4
    <3>2. it.stsc < Len(t.stsc) => chunk < t.stsc[it.stsc + 1].first - 1
      <4> SUFFICES ASSUME it.stsc < Len(t.stsc)
                   PROVE  chunk < t.stsc[it.stsc + 1].first - 1
        OBVIOUS
      <4>1. it.stsc + 1 \in 1 .. Len(t.stsc)
        BY <1>10
      <4>2. t.stsc[it.stsc + 1].first \in Nat
        BY <4>1, Stsc
      <4>. QED
        BY <1>6, <2>4, <4>2
    <3>3. t.stsc[it.stsc].first - 1 <= chunk
      BY <1>1, <2>1, <2>2
    <3> HIDE DEF chunk, stsc
    <3>. QED
      BY <1>10, <3>1, <3>2, <3>3 DEF IsAbout
  <2>. QED
    BY <2>3, <2>4
<1>12. PerChunk(t, it.chunk) = t.stsc[it.stsc].per
  BY <1>1, <1>10, PerIs
<1>13. /\ PerChunk(t, next.chunk) = t.stsc[next.stsc].per
       /\ PerChunk(t, next.chunk) \in Nat \ {0}
  <2>1. next.chunk \in Nat
    BY <1>3, <1>6
  <2> HIDE DEF chunk, stsc
  <2>. QED
    BY <1>11, <2>1, PerIs, PerIsPositive
<1>14. /\ ChunkStart(t, it.chunk) \in Nat
       /\ ChunkStart(t, it.chunk + 1) = ChunkStart(t, it.chunk) + PerChunk(t, it.chunk)
       /\ k = ChunkStart(t, it.chunk) + it.inChunk
       /\ it.inChunk < t.stsc[it.stsc].per
       /\ PerChunk(t, it.chunk) \in Nat
  BY <1>1, Chunks, PerIsPositive DEF IsAt
<1>15. /\ next.sample = ChunkStart(t, next.chunk) + next.inChunk
       /\ next.inChunk < t.stsc[next.stsc].per
       /\ next.offset = Total(SubSeq(t.size, ChunkStart(t, next.chunk) + 1, next.sample))
  <2>1. CASE endOfChunk
    <3>1. next.chunk = it.chunk + 1 /\ next.inChunk = 0 /\ next.offset = 0
      BY <1>3, <2>1
    <3>2. k + 1 = ChunkStart(t, it.chunk + 1)
      BY <1>1, <1>12, <1>14, <2>1
    <3>3. Total(SubSeq(t.size, k + 1 + 1, k + 1)) = 0
      <4>1. k + 1 \in 0 .. NumSamples(t)
        BY <1>1, <1>4
      <4>. QED
        BY <4>1, Sizes
    <3>4. next.sample = k + 1
      BY <1>3
    <3>5. next.sample = ChunkStart(t, next.chunk) + next.inChunk
      BY <1>1, <3>1, <3>2, <3>4
    <3>6. next.offset = Total(SubSeq(t.size, ChunkStart(t, next.chunk) + 1, next.sample))
      BY <3>1, <3>2, <3>3, <3>4
    <3>7. next.inChunk < t.stsc[next.stsc].per
      BY <1>13, <3>1
    <3>. QED
      BY <3>5, <3>6, <3>7
  <2>2. CASE ~endOfChunk
    <3>1. /\ next.chunk = it.chunk /\ next.inChunk = it.inChunk + 1
          /\ next.offset = it.offset + t.size[k + 1]
      BY <1>3, <2>2
    <3>2. next.inChunk < t.stsc[next.stsc].per
      <4>1. next.inChunk < t.stsc[it.stsc].per
        BY <1>1, <1>12, <1>14, <2>2, <3>1
      <4>. QED
        BY <1>12, <1>13, <3>1, <4>1
    <3>3. Total(SubSeq(t.size, ChunkStart(t, it.chunk) + 1, k + 1)) = next.offset
      <4>1. /\ ChunkStart(t, it.chunk) \in 0 .. NumSamples(t)
            /\ k \in ChunkStart(t, it.chunk) .. NumSamples(t)
            /\ k < NumSamples(t)
        BY <1>1, <1>4, <1>14, SMTT(30)
      <4>2. it.offset = Total(SubSeq(t.size, ChunkStart(t, it.chunk) + 1, k))
        BY DEF IsAt
      <4>. QED
        BY <3>1, <4>1, <4>2, Sizes
    <3>. QED
      BY <1>1, <1>3, <1>14, <3>1, <3>2, <3>3
  <2>. QED
    BY <2>1, <2>2
<1>. QED
  BY <1>3, <1>4, <1>7, <1>9, <1>11, <1>15 DEF IsAt, next

-----------------------------------------------------------------------------
(* Quotients                                                               *)

LEMMA Products ==
    ASSUME NEW a \in Nat, NEW b \in Nat, NEW d \in Nat
    PROVE  /\ a * d \in Nat /\ (a + 1) * d = a * d + d
           /\ a <= b => a * d <= b * d
  OBVIOUS

LEMMA Quotient ==
    ASSUME NEW a \in Nat, NEW d \in Nat \ {0}
    PROVE  /\ a \div d \in Nat
           /\ (a \div d) * d <= a
           /\ a < (a \div d + 1) * d
  OBVIOUS

(* The only number that is at most a / d and more than a / d - 1           *)
LEMMA QuotientBound ==
    ASSUME NEW a \in Nat, NEW d \in Nat \ {0}, NEW q \in Nat
    PROVE  q <= a \div d <=> q * d <= a
<1> DEFINE p == a \div d
<1>1. p \in Nat /\ p * d <= a /\ a < (p + 1) * d
  BY Quotient
<1> HIDE DEF p
<1>2. q <= p => q * d <= p * d
  BY <1>1, Products
<1>3. ~(q <= p) => (p + 1) * d <= q * d
  <2>1. p + 1 \in Nat /\ (~(q <= p) => p + 1 <= q)
    BY <1>1
  <2>. QED
    BY <2>1, Products
<1>4. q * d \in Nat /\ p * d \in Nat /\ (p + 1) * d \in Nat
  BY <1>1, Products
<1>. QED
  BY <1>1, <1>2, <1>3, <1>4 DEF p

-----------------------------------------------------------------------------
(* Time                                                                    *)

LEMMA Ticks ==
    ASSUME NEW t, IsTrack(t)
    PROVE  /\ TicksBefore(t, 0) = 0
           /\ \A k \in 0 .. NumSamples(t) : TicksBefore(t, k) \in Nat
           /\ \A k \in Nat : k < NumSamples(t) =>
                 /\ DeltaOf(t, k) \in Nat
                 /\ TicksBefore(t, k + 1) = TicksBefore(t, k) + DeltaOf(t, k)
           /\ \A k \in 0 .. NumSamples(t) : \A l \in k .. NumSamples(t) :
                 TicksBefore(t, k) <= TicksBefore(t, l)
<1> DEFINE n == NumSamples(t)
           f == [j \in 1 .. n |-> DeltaOf(t, j - 1)]
<1>1. n \in Nat
  BY Entries
<1>2. ASSUME NEW k \in Nat, k < n
      PROVE  DeltaOf(t, k) \in Nat
  <2>1. PICK i \in 1 .. Len(t.stts) : EntryStart(t, i) <= k /\ k < EntryStart(t, i + 1)
    BY <1>2, EntryOf
  <2>2. DeltaOf(t, k) = t.stts[i].delta
    BY <2>1, DeltaIs
  <2>. QED
    BY <2>2, Entries
<1>3. \A j \in 1 .. n : f[j] = DeltaOf(t, j - 1) /\ f[j] \in Nat
  BY <1>1, <1>2
<1>4. ASSUME NEW k \in 0 .. n
      PROVE  TicksBefore(t, k) = Upto(f, k)
  <2>1. [j \in 1 .. k |-> DeltaOf(t, j - 1)] = [j \in 1 .. k |-> f[j]]
    BY <1>1, <1>3
  <2>. QED
    BY <2>1 DEF TicksBefore, Upto
<1> HIDE DEF f, n
<1>5. /\ Upto(f, 0) = 0
      /\ \A i \in 0 .. n : Upto(f, i) \in Nat
      /\ \A i \in 1 .. n : Upto(f, i) = Upto(f, i - 1) + f[i]
      /\ \A k \in 0 .. n : \A l \in k .. n : Upto(f, k) <= Upto(f, l)
  BY <1>1, <1>3, SumStep, SumGrows
<1>6. ASSUME NEW k \in Nat, k < n
      PROVE  TicksBefore(t, k + 1) = TicksBefore(t, k) + DeltaOf(t, k)
  <2>1. k \in 0 .. n /\ k + 1 \in 0 .. n /\ k + 1 \in 1 .. n /\ k + 1 - 1 = k
    BY <1>1, <1>6
  <2>. QED
    BY <1>3, <1>4, <1>5, <2>1
<1>7. /\ TicksBefore(t, 0) = 0
      /\ \A k \in 0 .. n : TicksBefore(t, k) \in Nat
      /\ \A k \in 0 .. n : \A l \in k .. n : TicksBefore(t, k) <= TicksBefore(t, l)
  <2>1. \A k \in 0 .. n : \A l \in k .. n : l \in 0 .. n
    BY <1>1
  <2>. QED
    BY <1>1, <1>4, <1>5, <2>1
<1>. QED
  BY <1>2, <1>6, <1>7 DEF n

(* Within an entry, time passes by its delta.                              *)
LEMMA TicksInEntry ==
    ASSUME NEW t, IsTrack(t), NEW i \in 1 .. Len(t.stts),
           TicksBefore(t, EntryStart(t, i)) = EntryTime(t, i),
           NEW m \in 0 .. t.stts[i].count
    PROVE  TicksBefore(t, EntryStart(t, i) + m) = EntryTime(t, i) + m * t.stts[i].delta
<1> DEFINE e == EntryStart(t, i)
           c == t.stts[i].count
           d == t.stts[i].delta
           T == {l \in Nat : l <= c => TicksBefore(t, e + l) = EntryTime(t, i) + l * d}
<1>1. /\ i \in 1 .. Len(t.stts) + 1 /\ i + 1 \in 1 .. Len(t.stts) + 1
      /\ Len(t.stts) + 1 \in i + 1 .. Len(t.stts) + 1
  BY Entries
<1>2. /\ e \in Nat /\ c \in Nat /\ d \in Nat /\ EntryTime(t, i) \in Nat
      /\ EntryStart(t, i + 1) = e + c
      /\ EntryStart(t, i + 1) <= EntryStart(t, Len(t.stts) + 1)
      /\ EntryStart(t, Len(t.stts) + 1) = NumSamples(t)
  BY <1>1, Entries
<1> HIDE DEF e, c, d
<1>3. 0 \in T
  BY <1>2 DEF e
<1>4. ASSUME NEW l \in Nat, l \in T
      PROVE  l + 1 \in T
  <2> SUFFICES ASSUME l + 1 <= c
               PROVE  TicksBefore(t, e + (l + 1)) = EntryTime(t, i) + (l + 1) * d
    OBVIOUS
  <2>1. TicksBefore(t, e + l) = EntryTime(t, i) + l * d
    BY <1>2, <1>4
  <2>2. e + l \in Nat /\ e + l < NumSamples(t) /\ e + (l + 1) = (e + l) + 1
    BY <1>2, Entries
  <2>3. TicksBefore(t, (e + l) + 1) = TicksBefore(t, e + l) + DeltaOf(t, e + l)
    BY <2>2, Ticks
  <2>4. DeltaOf(t, e + l) = d
    <3>1. EntryStart(t, i) <= e + l /\ e + l < EntryStart(t, i + 1)
      BY <1>2 DEF e
    <3>. QED
      BY <2>2, <3>1, DeltaIs DEF d
  <2>5. (l + 1) * d = l * d + d /\ l * d \in Nat
    BY <1>2, Products
  <2>. QED
    BY <1>2, <2>1, <2>2, <2>3, <2>4, <2>5
<1> HIDE DEF T
<1>5. m \in T
  BY <1>2, <1>3, <1>4, SetInduction, SMTT(30) DEF c
<1>. QED
  BY <1>5 DEF T, e, c, d

LEMMA TicksAtEntry ==
    ASSUME NEW t, IsTrack(t)
    PROVE  \A i \in 1 .. Len(t.stts) + 1 : TicksBefore(t, EntryStart(t, i)) = EntryTime(t, i)
<1> DEFINE n == Len(t.stts)
           T == {i \in Nat : i + 1 <= n + 1 =>
                                TicksBefore(t, EntryStart(t, i + 1)) = EntryTime(t, i + 1)}
<1>1. n \in Nat
  BY Entries
<1>2. 0 \in T
  BY Entries, Ticks
<1>3. ASSUME NEW i \in Nat, i \in T
      PROVE  i + 1 \in T
  <2> SUFFICES ASSUME i + 1 + 1 <= n + 1
               PROVE  TicksBefore(t, EntryStart(t, i + 1 + 1)) = EntryTime(t, i + 1 + 1)
    OBVIOUS
  <2>1. i + 1 \in 1 .. n
    BY <1>1
  <2>2. TicksBefore(t, EntryStart(t, i + 1)) = EntryTime(t, i + 1)
    BY <1>1, <1>3
  <2> DEFINE c == t.stts[i + 1].count
  <2>3. /\ c \in Nat
        /\ EntryStart(t, i + 1 + 1) = EntryStart(t, i + 1) + c
        /\ EntryTime(t, i + 1 + 1) = EntryTime(t, i + 1) + c * t.stts[i + 1].delta
    BY <2>1, Entries
  <2>4. c \in 0 .. c
    BY <2>3
  <2>. QED
    BY <2>1, <2>2, <2>3, <2>4, TicksInEntry
<1> HIDE DEF T
<1>4. Nat \subseteq T
  BY <1>2, <1>3, SetInduction
<1>5. ASSUME NEW i \in 1 .. n + 1
      PROVE  TicksBefore(t, EntryStart(t, i)) = EntryTime(t, i)
  <2>1. i - 1 \in T /\ i - 1 + 1 = i /\ i <= n + 1
    BY <1>1, <1>4
  <2>. QED
    BY <2>1 DEF T
<1>. QED
  BY <1>5 DEF n

(* The index is that of the last sample that is over, or all there are.    *)
LEMMA IndexIs ==
    ASSUME NEW t, IsTrack(t), NEW at \in Nat
    PROVE  LET n == IndexFromTimestamp(t, at)
           IN  /\ n \in 0 .. NumSamples(t)
               /\ TicksBefore(t, n) <= at
               /\ n < NumSamples(t) => at < TicksBefore(t, n + 1)
<1> DEFINE later == {i \in 1 .. Len(t.stts) : at < EntryTime(t, i + 1)}
           n == IndexFromTimestamp(t, at)
           l == Len(t.stts)
<1>1. DOMAIN t.stts = 1 .. l /\ l \in Nat
  BY DEF IsTrack
<1>2. CASE later = {}
  <2>1. n = NumSamples(t)
    BY <1>1, <1>2 DEF IndexFromTimestamp
  <2>2. TicksBefore(t, NumSamples(t)) = EntryTime(t, l + 1)
    <3>1. l + 1 \in 1 .. l + 1 /\ EntryStart(t, l + 1) = NumSamples(t)
      BY <1>1, Entries
    <3>. QED
      BY <3>1, TicksAtEntry
  <2>3. EntryTime(t, l + 1) <= at
    <3>1. EntryTime(t, l + 1) \in Nat /\ (l = 0 => EntryTime(t, l + 1) = 0)
      BY <1>1, Entries
    <3>2. l # 0 => l \in 1 .. l
      BY <1>1
    <3>. QED
      BY <1>2, <3>1, <3>2
  <2>4. NumSamples(t) \in Nat
    BY Entries
  <2>. QED
    BY <2>1, <2>2, <2>3, <2>4
<1>3. CASE later # {}
  <2> DEFINE i == CHOOSE j \in later : \A k \in later : j <= k
  <2>1. \E j \in later : \A k \in later : j <= k
    <3>1. later \in SUBSET Nat
      OBVIOUS
    <3> HIDE DEF later
    <3>. QED
      BY <1>3, <3>1, Least
  <2>2. i \in later /\ \A k \in later : i <= k
    <3> HIDE DEF later
    <3>. QED
      BY <2>1
  <2> DEFINE d == t.stts[i].delta
             c == t.stts[i].count
             q == (at - EntryTime(t, i)) \div d
  <2>3. n = EntryStart(t, i) + q
    <3>1. IndexFromTimestamp(t, at) =
              IF later = {} THEN NumSamples(t)
              ELSE EntryStart(t, i) + (at - EntryTime(t, i)) \div t.stts[i].delta
      BY <1>1 DEF IndexFromTimestamp
    <3> HIDE DEF i, later
    <3>. QED
      BY <1>3, <3>1
  <2>4. i \in 1 .. l /\ at < EntryTime(t, i + 1)
    BY <2>2
  <2> HIDE DEF i, n
  <2>5. EntryTime(t, i) \in Nat /\ EntryTime(t, i) <= at
    <3>1. i \in 1 .. l + 1
      BY <1>1, <2>4
    <3>2. EntryTime(t, i) \in Nat /\ (i = 1 => EntryTime(t, i) = 0)
      BY <3>1, Entries
    <3>3. ASSUME i # 1
          PROVE  EntryTime(t, i) <= at
      <4>1. i - 1 \in 1 .. l /\ i - 1 + 1 = i /\ ~(i <= i - 1)
        BY <1>1, <2>4, <3>3
      <4>2. i - 1 \notin later
        BY <2>2, <4>1
      <4>. QED
        BY <3>2, <4>1, <4>2
    <3>. QED
      BY <3>2, <3>3
  <2> HIDE DEF later, l
  <2>6. /\ c \in Nat /\ d \in Nat
        /\ EntryStart(t, i) \in Nat
        /\ EntryStart(t, i + 1) = EntryStart(t, i) + c
        /\ EntryTime(t, i + 1) = EntryTime(t, i) + c * d
        /\ EntryStart(t, i + 1) <= NumSamples(t)
    <3>1. i \in 1 .. l + 1 /\ i + 1 \in 1 .. l + 1 /\ l + 1 \in i + 1 .. l + 1
      BY <1>1, <2>4
    <3>. QED
      BY <2>4, <3>1, Entries DEF l
  <2> HIDE DEF c, d
  <2> DEFINE x == at - EntryTime(t, i)
  <2>7. x \in Nat /\ x < c * d
    BY <2>4, <2>5, <2>6, Products
  <2>8. d # 0
    <3>1. c * 0 = 0
      BY <2>6
    <3>. QED
      BY <2>7, <3>1
  <2>9. q \in Nat /\ q * d <= x /\ x < (q + 1) * d
    BY <2>6, <2>7, <2>8, Quotient
  <2> HIDE DEF x, q
  <2>10. q < c
    <3>1. c <= q => c * d <= q * d
      BY <2>6, <2>9, Products
    <3>2. c * d \in Nat /\ q * d \in Nat
      BY <2>6, <2>9, Products
    <3>. QED
      BY <2>6, <2>7, <2>9, <3>1, <3>2
  <2>11. TicksBefore(t, EntryStart(t, i)) = EntryTime(t, i)
    <3>1. i \in 1 .. l + 1
      BY <1>1, <2>4
    <3>. QED
      BY <3>1, TicksAtEntry DEF l
  <2>12. /\ TicksBefore(t, EntryStart(t, i) + q) = EntryTime(t, i) + q * d
         /\ TicksBefore(t, EntryStart(t, i) + (q + 1)) = EntryTime(t, i) + (q + 1) * d
    <3>1. q \in 0 .. c /\ q + 1 \in 0 .. c /\ i \in 1 .. Len(t.stts)
      BY <2>4, <2>6, <2>9, <2>10 DEF l
    <3>. QED
      BY <2>11, <3>1, TicksInEntry DEF c, d
  <2>13. n \in 0 .. NumSamples(t) /\ n + 1 = EntryStart(t, i) + (q + 1)
    <3>1. NumSamples(t) \in Nat
      BY Entries
    <3>. QED
      BY <2>3, <2>6, <2>9, <2>10, <3>1
  <2>14. TicksBefore(t, n) <= at
    <3>1. q * d \in Nat
      BY <2>6, <2>9, Products
    <3>. QED
      BY <2>3, <2>5, <2>9, <2>12, <3>1 DEF x
  <2>15. at < TicksBefore(t, n + 1)
    <3>1. (q + 1) * d \in Nat
      BY <2>6, <2>9, Products
    <3>. QED
      BY <2>5, <2>9, <2>12, <2>13, <3>1 DEF x
  <2>. QED
    BY <2>13, <2>14, <2>15 DEF n
<1>. QED
  BY <1>2, <1>3

(* A later time has no smaller index.                                      *)
LEMMA IndexGrows ==
    ASSUME NEW t, IsTrack(t), NEW at \in Nat, NEW then \in Nat, at <= then
    PROVE  IndexFromTimestamp(t, at) <= IndexFromTimestamp(t, then)
<1> DEFINE n == IndexFromTimestamp(t, at)
           m == IndexFromTimestamp(t, then)
<1>1. n \in 0 .. NumSamples(t) /\ TicksBefore(t, n) <= at
  BY IndexIs
<1>2. m \in 0 .. NumSamples(t) /\ (m < NumSamples(t) => then < TicksBefore(t, m + 1))
  BY IndexIs
<1> HIDE DEF n, m
<1>3. NumSamples(t) \in Nat
  BY Entries
<1>4. ASSUME m < n
      PROVE  FALSE
  <2>1. m + 1 \in 0 .. NumSamples(t) /\ n \in m + 1 .. NumSamples(t) /\ m < NumSamples(t)
    BY <1>1, <1>2, <1>3, <1>4
  <2>2. TicksBefore(t, m + 1) <= TicksBefore(t, n)
    BY <2>1, Ticks
  <2>3. TicksBefore(t, m + 1) \in Nat /\ TicksBefore(t, n) \in Nat
    BY <1>1, <2>1, Ticks
  <2>. QED
    BY <1>1, <1>2, <2>1, <2>2, <2>3
<1>. QED
  BY <1>1, <1>2, <1>3, <1>4 DEF n, m

(* The time of sample k of a track, in units of Scale                      *)
TimeAt(t, k) == ScaleInt(TicksBefore(t, k), Scale, t.timescale)

LEMMA Times ==
    ASSUME NEW t, IsTrack(t)
    PROVE  /\ TimeAt(t, 0) = 0
           /\ \A k \in 0 .. NumSamples(t) :
                 /\ TimeAt(t, k) \in Nat
                 /\ TimeAt(t, k) * t.timescale <= TicksBefore(t, k) * Scale
                 /\ TicksBefore(t, k) * Scale < (TimeAt(t, k) + 1) * t.timescale
           /\ \A k \in 0 .. NumSamples(t) : \A l \in k .. NumSamples(t) :
                 TimeAt(t, k) <= TimeAt(t, l)
<1>1. t.timescale \in Nat \ {0} /\ Scale \in Nat /\ NumSamples(t) \in Nat
  BY ScaleAssumption, Entries DEF IsTrack
<1>2. ASSUME NEW k \in 0 .. NumSamples(t)
      PROVE  /\ TicksBefore(t, k) * Scale \in Nat
             /\ TimeAt(t, k) \in Nat
             /\ TimeAt(t, k) * t.timescale <= TicksBefore(t, k) * Scale
             /\ TicksBefore(t, k) * Scale < (TimeAt(t, k) + 1) * t.timescale
  <2>1. TicksBefore(t, k) * Scale \in Nat
    BY <1>1, Ticks, Products
  <2>. QED
    BY <1>1, <2>1, Quotient DEF TimeAt, ScaleInt
<1>3. ASSUME NEW k \in 0 .. NumSamples(t), NEW l \in k .. NumSamples(t)
      PROVE  TimeAt(t, k) <= TimeAt(t, l)
  <2>1. l \in 0 .. NumSamples(t)
    BY <1>1
  <2>2. TicksBefore(t, k) * Scale <= TicksBefore(t, l) * Scale
    <3>1. /\ TicksBefore(t, k) \in Nat /\ TicksBefore(t, l) \in Nat
          /\ TicksBefore(t, k) <= TicksBefore(t, l)
      BY <2>1, Ticks
    <3>. QED
      BY <1>1, <3>1, Products
  <2>3. TimeAt(t, k) * t.timescale <= TicksBefore(t, l) * Scale
    <3>1. TimeAt(t, k) * t.timescale \in Nat
      BY <1>1, <1>2, Products
    <3>. QED
      BY <1>2, <2>1, <2>2, <3>1
  <2>4. TimeAt(t, l) = (TicksBefore(t, l) * Scale) \div t.timescale
    BY DEF TimeAt, ScaleInt
  <2>5. TimeAt(t, k) \in Nat /\ TicksBefore(t, l) * Scale \in Nat
    BY <1>2, <2>1
  <2>. QED
    BY <1>1, <2>3, <2>4, <2>5, QuotientBound
<1>4. TimeAt(t, 0) = 0
  <2>1. TicksBefore(t, 0) * Scale = 0
    <3>1. TicksBefore(t, 0) = 0
      BY Ticks
    <3>. QED
      BY <1>1, <3>1
  <2>2. 0 \in 0 .. NumSamples(t)
    BY <1>1
  <2>3. TimeAt(t, 0) \in Nat /\ TimeAt(t, 0) * t.timescale <= 0
    BY <1>2, <2>1, <2>2
  <2>4. 1 <= TimeAt(t, 0) => 1 * t.timescale <= TimeAt(t, 0) * t.timescale
    BY <1>1, <2>3, Products
  <2>5. TimeAt(t, 0) * t.timescale \in Nat
    BY <1>1, <2>3, Products
  <2>. QED
    BY <1>1, <2>3, <2>4, <2>5
<1>. QED
  BY <1>2, <1>3, <1>4

-----------------------------------------------------------------------------
(* Where fragments end: how many samples the first i fragments have        *)

VideoGoal(v, i) == IF i < Len(v.stss) THEN v.stss[i + 1] - 1 ELSE NumSamples(v)
VideoEnd(v, i) == TimeAt(v, VideoGoal(v, i))
AudioGoal(m, i) ==
    IF i = 0 THEN 0
    ELSE IndexFromTimestamp(m.audio, ScaleInt(VideoEnd(m.video, i), m.audio.timescale, Scale))
Goal(m, tr, i) == IF tr = "video" THEN VideoGoal(m.video, i) ELSE AudioGoal(m, i)

HasTrack(m, tr) == tr \in {"video", "audio"} /\ (tr = "audio" => m.audio # NoTrack)

LEMMA TrackIs ==
    ASSUME NEW m \in Movies, NEW tr, HasTrack(m, tr)
    PROVE  IsTrack(m[tr])
  BY MoviesAssumption DEF HasTrack

LEMMA VideoGoals ==
    ASSUME NEW v, IsTrack(v), HasSync(v)
    PROVE  /\ Len(v.stss) \in Nat \ {0}
           /\ VideoGoal(v, 0) = 0
           /\ VideoGoal(v, Len(v.stss)) = NumSamples(v)
           /\ \A i \in 1 .. Len(v.stss) : VideoGoal(v, i - 1) = v.stss[i] - 1
           /\ \A i \in 0 .. Len(v.stss) : VideoGoal(v, i) \in 0 .. NumSamples(v)
           /\ \A i \in 0 .. Len(v.stss) : \A j \in i .. Len(v.stss) :
                 VideoGoal(v, i) <= VideoGoal(v, j)
<1> DEFINE n == Len(v.stss)
<1>1. n \in Nat \ {0} /\ DOMAIN v.stss = 1 .. n /\ NumSamples(v) \in Nat
  BY Entries DEF HasSync
<1>2. \A i \in 1 .. n : v.stss[i] \in 1 .. NumSamples(v)
  <2> DEFINE R == 1 .. NumSamples(v)
  <2>1. v.stss \in Seq(R)
    BY DEF HasSync
  <2> HIDE DEF R
  <2>2. \A i \in 1 .. n : v.stss[i] \in R
    BY <2>1
  <2>. QED
    BY <2>2 DEF R
<1>3. v.stss[1] = 1 /\ \A i, j \in 1 .. n : i < j => v.stss[i] < v.stss[j]
  BY <1>1 DEF HasSync
<1>4. \A i \in 0 .. n : VideoGoal(v, i) = IF i < n THEN v.stss[i + 1] - 1 ELSE NumSamples(v)
  BY DEF VideoGoal
<1> HIDE DEF n
<1>5. \A i \in 0 .. n : i < n => i + 1 \in 1 .. n
  BY <1>1
<1>6. ASSUME NEW i \in 0 .. n
      PROVE  VideoGoal(v, i) \in 0 .. NumSamples(v)
  <2>1. CASE i < n
    <3>1. VideoGoal(v, i) = v.stss[i + 1] - 1 /\ v.stss[i + 1] \in 1 .. NumSamples(v)
      BY <1>2, <1>4, <1>5, <2>1
    <3>. QED
      BY <1>1, <3>1
  <2>2. CASE ~(i < n)
    BY <1>1, <1>4, <2>2
  <2>. QED
    BY <2>1, <2>2
<1>7. ASSUME NEW i \in 0 .. n, NEW j \in i .. n
      PROVE  VideoGoal(v, i) <= VideoGoal(v, j)
  <2>1. j \in 0 .. n
    BY <1>1
  <2>2. CASE j = n
    BY <1>1, <1>4, <1>6, <2>1, <2>2
  <2>3. CASE j < n
    <3>1. i + 1 \in 1 .. n /\ j + 1 \in 1 .. n /\ (i = j \/ i + 1 < j + 1)
      BY <1>1, <2>3
    <3>2. VideoGoal(v, i) = v.stss[i + 1] - 1 /\ VideoGoal(v, j) = v.stss[j + 1] - 1
      BY <1>1, <1>4, <2>1, <2>3
    <3>. QED
      BY <1>2, <1>3, <3>1, <3>2
  <2>. QED
    BY <1>1, <2>1, <2>2, <2>3
<1>8. ASSUME NEW i \in 1 .. n
      PROVE  VideoGoal(v, i - 1) = v.stss[i] - 1
  <2>1. i - 1 \in 0 .. n /\ i - 1 < n /\ i - 1 + 1 = i
    BY <1>1
  <2>. QED
    BY <1>4, <2>1
<1>9. VideoGoal(v, n) = NumSamples(v) /\ VideoGoal(v, 0) = 0
  BY <1>1, <1>3, <1>4
<1>. QED
  BY <1>1, <1>6, <1>7, <1>8, <1>9 DEF n

LEMMA VideoEnds ==
    ASSUME NEW v, IsTrack(v), HasSync(v),
           NEW i \in 0 .. Len(v.stss), NEW j \in i .. Len(v.stss)
    PROVE  VideoEnd(v, i) \in Nat /\ VideoEnd(v, j) \in Nat /\ VideoEnd(v, i) <= VideoEnd(v, j)
<1> DEFINE a == VideoGoal(v, i)
           b == VideoGoal(v, j)
<1>1. j \in 0 .. Len(v.stss) /\ Len(v.stss) \in Nat
  BY VideoGoals
<1>2. a \in 0 .. NumSamples(v) /\ b \in 0 .. NumSamples(v) /\ a <= b
  BY <1>1, VideoGoals
<1> HIDE DEF a, b
<1>3. b \in a .. NumSamples(v)
  BY <1>2, Entries
<1>4. TimeAt(v, a) \in Nat /\ TimeAt(v, b) \in Nat /\ TimeAt(v, a) <= TimeAt(v, b)
  BY <1>2, <1>3, Times
<1>. QED
  BY <1>4 DEF VideoEnd, a, b

LEMMA AudioGoals ==
    ASSUME NEW m \in Movies, m.audio # NoTrack,
           NEW i \in 0 .. Len(m.video.stss), NEW j \in i .. Len(m.video.stss)
    PROVE  /\ AudioGoal(m, 0) = 0
           /\ AudioGoal(m, i) \in 0 .. NumSamples(m.audio)
           /\ AudioGoal(m, j) \in 0 .. NumSamples(m.audio)
           /\ AudioGoal(m, i) <= AudioGoal(m, j)
<1> DEFINE n == Len(m.video.stss)
           at(k) == ScaleInt(VideoEnd(m.video, k), m.audio.timescale, Scale)
<1>1. IsTrack(m.video) /\ HasSync(m.video) /\ IsTrack(m.audio)
  BY MoviesAssumption
<1>2. n \in Nat /\ j \in 0 .. n
  BY <1>1, VideoGoals
<1>3. m.audio.timescale \in Nat \ {0} /\ Scale \in Nat \ {0}
  BY <1>1, ScaleAssumption DEF IsTrack
<1>4. at(i) \in Nat /\ at(j) \in Nat /\ at(i) <= at(j)
  <2> DEFINE a == VideoEnd(m.video, i)
             b == VideoEnd(m.video, j)
             s == m.audio.timescale
  <2>1. a \in Nat /\ b \in Nat /\ a <= b
    BY <1>1, VideoEnds
  <2> HIDE DEF a, b
  <2>2. a * s \in Nat /\ b * s \in Nat /\ a * s <= b * s
    BY <1>3, <2>1, Products
  <2>3. at(i) = (a * s) \div Scale /\ at(j) = (b * s) \div Scale
    BY DEF ScaleInt, a, b
  <2> HIDE DEF at, s
  <2>4. at(i) \in Nat /\ at(j) \in Nat /\ at(i) * Scale <= a * s
    BY <1>3, <2>2, <2>3, Quotient
  <2>5. at(i) * Scale \in Nat
    BY <1>3, <2>4, Products
  <2>6. at(i) * Scale <= b * s
    BY <2>2, <2>4, <2>5
  <2>. QED
    BY <1>3, <2>2, <2>3, <2>4, <2>6, QuotientBound
<1>5. /\ AudioGoal(m, 0) = 0
      /\ AudioGoal(m, i) = IF i = 0 THEN 0 ELSE IndexFromTimestamp(m.audio, at(i))
      /\ AudioGoal(m, j) = IF j = 0 THEN 0 ELSE IndexFromTimestamp(m.audio, at(j))
  BY DEF AudioGoal
<1> HIDE DEF at
<1>6. /\ IndexFromTimestamp(m.audio, at(i)) \in 0 .. NumSamples(m.audio)
      /\ IndexFromTimestamp(m.audio, at(j)) \in 0 .. NumSamples(m.audio)
      /\ IndexFromTimestamp(m.audio, at(i)) <= IndexFromTimestamp(m.audio, at(j))
  BY <1>1, <1>4, IndexIs, IndexGrows
<1>7. NumSamples(m.audio) \in Nat /\ (j = 0 => i = 0)
  BY <1>1, Entries
<1>. QED
  BY <1>5, <1>6, <1>7

LEMMA Goals ==
    ASSUME NEW m \in Movies, NEW tr, HasTrack(m, tr)
    PROVE  /\ Len(m.video.stss) \in Nat \ {0} /\ NumSamples(m[tr]) \in Nat
           /\ Goal(m, tr, 0) = 0
           /\ \A i \in 0 .. Len(m.video.stss) : Goal(m, tr, i) \in 0 .. NumSamples(m[tr])
           /\ \A i \in 0 .. Len(m.video.stss) : \A j \in i .. Len(m.video.stss) :
                 Goal(m, tr, i) <= Goal(m, tr, j)
<1>1. IsTrack(m.video) /\ HasSync(m.video) /\ IsTrack(m[tr])
  BY MoviesAssumption, TrackIs
<1>2. Len(m.video.stss) \in Nat \ {0} /\ NumSamples(m[tr]) \in Nat
  BY <1>1, VideoGoals, Entries
<1>3. CASE tr = "video"
  BY <1>1, <1>2, <1>3, VideoGoals DEF Goal
<1>4. CASE tr = "audio"
  <2>1. m.audio # NoTrack
    BY <1>4 DEF HasTrack
  <2>2. \A i : Goal(m, tr, i) = AudioGoal(m, i)
    BY <1>4 DEF Goal
  <2>3. \A i \in 0 .. Len(m.video.stss) : i \in i .. Len(m.video.stss)
    BY <1>2
  <2>. QED
    BY <1>2, <1>4, <2>1, <2>2, <2>3, AudioGoals
<1>. QED
  BY <1>3, <1>4 DEF HasTrack

-----------------------------------------------------------------------------
(* Lists of fragments                                                      *)

Sampled == [size : Nat, delta : Nat, chunk : Nat, offset : Nat]
Entry == [of : Sampled, duration : Nat]
Fragments == [timestamp : Nat, duration : Nat, samples : Seq(Entry)]

(* The samples in front of fragment i, and their times and those of        *)
(* the samples of fragment f put together                                  *)
Taken(fs, i) == Total([j \in 1 .. i - 1 |-> Len(fs[j].samples)])
Lasts(f) == Total([j \in DOMAIN f.samples |-> f.samples[j].duration])

LEMMA FragmentIs ==
    ASSUME NEW f \in Fragments
    PROVE  /\ f.timestamp \in Nat /\ f.duration \in Nat /\ f.samples \in Seq(Entry)
           /\ Len(f.samples) \in Nat /\ DOMAIN f.samples = 1 .. Len(f.samples)
           /\ \A j \in 1 .. Len(f.samples) :
                 /\ f.samples[j] \in Entry
                 /\ f.samples[j].duration \in Nat
                 /\ f.samples[j].of \in Sampled
<1>1. f.timestamp \in Nat /\ f.duration \in Nat /\ f.samples \in Seq(Entry)
  BY DEF Fragments
<1>2. Len(f.samples) \in Nat /\ DOMAIN f.samples = 1 .. Len(f.samples)
      /\ \A j \in 1 .. Len(f.samples) : f.samples[j] \in Entry
  BY <1>1
<1>3. \A e \in Entry : e.duration \in Nat /\ e.of \in Sampled
  BY DEF Entry
<1>. QED
  BY <1>1, <1>2, <1>3

LEMMA TakenIs ==
    ASSUME NEW fs \in Seq(Fragments)
    PROVE  /\ Taken(fs, 1) = 0
           /\ \A i \in 1 .. Len(fs) + 1 : Taken(fs, i) \in Nat
           /\ \A i \in 1 .. Len(fs) :
                 /\ Len(fs[i].samples) \in Nat
                 /\ Taken(fs, i + 1) = Taken(fs, i) + Len(fs[i].samples)
<1> DEFINE n == Len(fs)
           f == [j \in 1 .. n |-> Len(fs[j].samples)]
<1>1. n \in Nat /\ \A j \in 1 .. n : Len(fs[j].samples) \in Nat
  <2>1. \A j \in 1 .. n : fs[j] \in Fragments
    OBVIOUS
  <2>. QED
    BY <2>1, FragmentIs
<1>2. \A j \in 1 .. n : f[j] = Len(fs[j].samples) /\ f[j] \in Nat
  BY <1>1
<1>3. ASSUME NEW i \in 1 .. n + 1
      PROVE  Taken(fs, i) = Upto(f, i - 1)
  <2>1. [j \in 1 .. i - 1 |-> Len(fs[j].samples)] = [j \in 1 .. i - 1 |-> f[j]]
    BY <1>1, <1>2
  <2>. QED
    BY <2>1 DEF Taken, Upto
<1> HIDE DEF f, n
<1>4. /\ Upto(f, 0) = 0
      /\ \A i \in 0 .. n : Upto(f, i) \in Nat
      /\ \A i \in 1 .. n : Upto(f, i) = Upto(f, i - 1) + f[i]
  BY <1>1, <1>2, SumStep
<1>5. Taken(fs, 1) = 0
  BY <1>1, <1>3, <1>4
<1>6. ASSUME NEW i \in 1 .. n + 1
      PROVE  Taken(fs, i) \in Nat
  <2>1. i - 1 \in 0 .. n
    BY <1>1
  <2>. QED
    BY <1>3, <1>4, <2>1
<1>7. ASSUME NEW i \in 1 .. n
      PROVE  Taken(fs, i + 1) = Taken(fs, i) + Len(fs[i].samples)
  <2>1. i + 1 \in 1 .. n + 1 /\ i + 1 - 1 = i /\ i \in 1 .. n + 1
    BY <1>1
  <2>. QED
    BY <1>2, <1>3, <1>4, <2>1
<1>. QED
  BY <1>1, <1>5, <1>6, <1>7 DEF n

(* It depends on the fragments before only.                                *)
LEMMA TakenNext ==
    ASSUME NEW fs \in Seq(Fragments), NEW i \in 1 .. Len(fs)
    PROVE  /\ Taken(fs, i) \in Nat /\ Len(fs[i].samples) \in Nat
           /\ Taken(fs, i + 1) = Taken(fs, i) + Len(fs[i].samples)
<1>1. i \in 1 .. Len(fs) + 1
  OBVIOUS
<1>. QED
  BY <1>1, TakenIs

LEMMA TakenSame ==
    ASSUME NEW fs, NEW gs, NEW n \in Nat,
           \A j \in 1 .. n : Len(fs[j].samples) = Len(gs[j].samples),
           NEW i \in 1 .. n + 1
    PROVE  Taken(fs, i) = Taken(gs, i)
<1>1. [j \in 1 .. i - 1 |-> Len(fs[j].samples)] = [j \in 1 .. i - 1 |-> Len(gs[j].samples)]
  OBVIOUS
<1>. QED
  BY <1>1 DEF Taken

(* Sample j of fragment i is what the tables mean                          *)
InPlace(t, fs, i, j) ==
    LET s == fs[i].samples[j].of
        k == Taken(fs, i) + j - 1
    IN /\ s.size = t.size[k + 1]
       /\ s.delta = DeltaOf(t, k)
       /\ s.chunk = ChunkOf(t, k)
       /\ s.offset = OffsetOf(t, k)

(* Fragment i of a track, of which the last samples may not be there yet   *)
IsCut(m, tr, fs, i) ==
    /\ Taken(fs, i) = Goal(m, tr, i - 1)
    /\ Taken(fs, i + 1) <= Goal(m, tr, i)
    /\ fs[i].timestamp = TimeAt(m[tr], Taken(fs, i))
    /\ fs[i].timestamp + fs[i].duration = TimeAt(m[tr], Taken(fs, i + 1))
    /\ fs[i].duration = Lasts(fs[i])
    /\ \A j \in 1 .. Len(fs[i].samples) : InPlace(m[tr], fs, i, j)

AreCut(m, tr, fs) ==
    /\ fs \in Seq(Fragments)
    /\ Len(fs) <= Len(m.video.stss)
    /\ \A i \in 1 .. Len(fs) : IsCut(m, tr, fs, i)

(* Fragments whose like is in another list, at the same place              *)
LEMMA CutSame ==
    ASSUME NEW m, NEW tr, NEW fs, NEW gs, NEW n \in Nat,
           \A j \in 1 .. n : fs[j] = gs[j],
           NEW i \in 1 .. n, IsCut(m, tr, fs, i)
    PROVE  IsCut(m, tr, gs, i)
<1>1. \A j \in 1 .. n + 1 : Taken(fs, j) = Taken(gs, j)
  <2>1. \A j \in 1 .. n : Len(fs[j].samples) = Len(gs[j].samples)
    OBVIOUS
  <2>. QED
    BY <2>1, TakenSame
<1>2. Taken(fs, i) = Taken(gs, i) /\ Taken(fs, i + 1) = Taken(gs, i + 1) /\ fs[i] = gs[i]
  BY <1>1
<1>3. \A j : InPlace(m[tr], fs, i, j) = InPlace(m[tr], gs, i, j)
  BY <1>2 DEF InPlace
<1>. QED
  BY <1>2, <1>3 DEF IsCut

LEMMA CutNone ==
    ASSUME NEW m \in Movies, NEW tr, HasTrack(m, tr)
    PROVE  AreCut(m, tr, <<>>) /\ Taken(<<>>, 1) = 0
<1>1. <<>> \in Seq(Fragments) /\ Len(<<>>) = 0
  OBVIOUS
<1>2. Taken(<<>>, 1) = 0
  BY <1>1, TakenIs
<1>3. Len(m.video.stss) \in Nat
  BY Goals
<1>. QED
  BY <1>1, <1>2, <1>3 DEF AreCut

LEMMA CutBegins ==
    ASSUME NEW m \in Movies, NEW tr, HasTrack(m, tr),
           NEW fs, AreCut(m, tr, fs), Len(fs) < Len(m.video.stss),
           Taken(fs, Len(fs) + 1) = Goal(m, tr, Len(fs)),
           NEW now, now = TimeAt(m[tr], Taken(fs, Len(fs) + 1))
    PROVE  LET gs == Append(fs, [timestamp |-> now, duration |-> 0, samples |-> <<>>])
           IN  /\ AreCut(m, tr, gs)
               /\ Len(gs) = Len(fs) + 1
               /\ Taken(gs, Len(gs) + 1) = Taken(fs, Len(fs) + 1)
<1> DEFINE n == Len(fs)
           f == [timestamp |-> now, duration |-> 0, samples |-> <<>>]
           gs == Append(fs, f)
<1>1. fs \in Seq(Fragments) /\ n \in Nat /\ n + 1 <= Len(m.video.stss)
  BY Goals DEF AreCut
<1>2. IsTrack(m[tr])
  BY TrackIs
<1>3. Goal(m, tr, n) \in 0 .. NumSamples(m[tr]) /\ Goal(m, tr, n) <= Goal(m, tr, n + 1)
  <2>1. n \in 0 .. Len(m.video.stss) /\ n + 1 \in n .. Len(m.video.stss)
    BY <1>1, Goals
  <2>. QED
    BY <2>1, Goals
<1>4. now \in Nat
  BY <1>2, <1>3, Times
<1>5. f \in Fragments
  <2>1. <<>> \in Seq(Entry)
    OBVIOUS
  <2>. QED
    BY <1>4, <2>1 DEF Fragments
<1>6. f.timestamp = now /\ f.duration = 0 /\ f.samples = <<>>
  OBVIOUS
<1> HIDE DEF f
<1>7. /\ gs \in Seq(Fragments) /\ Len(gs) = n + 1
      /\ \A j \in 1 .. n : gs[j] = fs[j]
      /\ gs[n + 1] = f
  BY <1>1, <1>5, AppendProperties
<1> HIDE DEF gs, n
<1>8. Taken(gs, n + 1) = Taken(fs, n + 1)
  <2>1. \A j \in 1 .. n : Len(gs[j].samples) = Len(fs[j].samples)
    BY <1>7
  <2>2. n + 1 \in 1 .. n + 1
    BY <1>1
  <2>. QED
    BY <1>1, <2>1, <2>2, TakenSame
<1>9. Taken(gs, n + 1 + 1) = Taken(gs, n + 1)
  <2> DEFINE p == n + 1
  <2>0. gs \in Seq(Fragments) /\ p \in 1 .. Len(gs)
    BY <1>1, <1>7
  <2> HIDE DEF p
  <2>1. Taken(gs, p + 1) = Taken(gs, p) + Len(gs[p].samples) /\ Taken(gs, p) \in Nat
    BY <2>0, TakenNext
  <2>2. Len(gs[n + 1].samples) = 0
    BY <1>6, <1>7
  <2>. QED
    BY <2>1, <2>2 DEF p
<1>10. IsCut(m, tr, gs, n + 1)
  <2>1. (n + 1) - 1 = n
    BY <1>1
  <2>2. Lasts(f) = 0
    <3> DEFINE q == [j \in DOMAIN f.samples |-> f.samples[j].duration]
    <3>1. Len(q) = 0
      BY <1>6
    <3> HIDE DEF q
    <3>2. PICK g : IsSum(g, q, 0) /\ Total(q) = g[0]
      BY <3>1, TotalIs
    <3>3. g[0] = 0
      BY <3>2 DEF IsSum
    <3>. QED
      BY <3>2, <3>3 DEF Lasts, q
  <2>3. Len(gs[n + 1].samples) = 0
    BY <1>6, <1>7
  <2>4. gs[n + 1].timestamp = now /\ gs[n + 1].duration = 0
    BY <1>6, <1>7
  <2>5. Taken(fs, n + 1) = Goal(m, tr, n) /\ now = TimeAt(m[tr], Taken(fs, n + 1))
    BY DEF n
  <2> DEFINE k == Taken(gs, n + 1)
  <2>6. k = Goal(m, tr, n) /\ k <= Goal(m, tr, n + 1) /\ now = TimeAt(m[tr], k)
    BY <1>3, <1>8, <2>5
  <2>7. \A j \in 1 .. Len(gs[n + 1].samples) : InPlace(m[tr], gs, n + 1, j)
    BY <2>3
  <2>8. now + 0 = now /\ gs[n + 1] = f
    BY <1>4, <1>7
  <2>9. /\ Taken(gs, n + 1) = Goal(m, tr, (n + 1) - 1)
        /\ Taken(gs, n + 1 + 1) <= Goal(m, tr, n + 1)
        /\ gs[n + 1].timestamp = TimeAt(m[tr], Taken(gs, n + 1))
    BY <1>9, <2>1, <2>4, <2>6
  <2>10. gs[n + 1].timestamp + gs[n + 1].duration = TimeAt(m[tr], Taken(gs, n + 1 + 1))
    BY <1>9, <2>4, <2>6, <2>8
  <2>11. gs[n + 1].duration = Lasts(gs[n + 1])
    BY <2>2, <2>4, <2>8
  <2>. QED
    BY <2>7, <2>9, <2>10, <2>11 DEF IsCut
<1>11. \A i \in 1 .. n : IsCut(m, tr, gs, i)
  <2>1. \A i \in 1 .. n : IsCut(m, tr, fs, i)
    BY DEF AreCut, n
  <2>. QED
    BY <1>1, <1>7, <2>1, CutSame
<1>12. AreCut(m, tr, gs)
  <2>1. \A i \in 1 .. n + 1 : i \in 1 .. n \/ i = n + 1
    BY <1>1
  <2>. QED
    BY <1>1, <1>7, <1>10, <1>11, <2>1 DEF AreCut
<1>. QED
  BY <1>7, <1>8, <1>9, <1>12 DEF gs, f, n

(* A fragment gets one sample more.                                        *)
LEMMA LastsGrows ==
    ASSUME NEW f \in Fragments, NEW g \in Fragments, NEW e \in Entry,
           g.samples = Append(f.samples, e)
    PROVE  /\ Len(g.samples) = Len(f.samples) + 1
           /\ \A j \in 1 .. Len(f.samples) : g.samples[j] = f.samples[j]
           /\ g.samples[Len(f.samples) + 1] = e
           /\ Lasts(f) \in Nat
           /\ Lasts(g) = Lasts(f) + e.duration
<1> DEFINE l == Len(f.samples)
           p == f.samples
           q == g.samples
           d == [j \in 1 .. l + 1 |-> q[j].duration]
<1>1. p \in Seq(Entry) /\ l \in Nat /\ DOMAIN p = 1 .. l
  BY FragmentIs
<1>2. /\ q \in Seq(Entry) /\ Len(q) = l + 1 /\ DOMAIN q = 1 .. l + 1
      /\ \A j \in 1 .. l : q[j] = p[j]
      /\ q[l + 1] = e
  BY <1>1, AppendProperties
<1>3. \A j \in 1 .. l + 1 : d[j] = q[j].duration /\ d[j] \in Nat
  <2>1. \A j \in 1 .. l + 1 : q[j] \in Entry
    BY <1>2
  <2>2. \A x \in Entry : x.duration \in Nat
    BY DEF Entry
  <2>. QED
    BY <2>1, <2>2
<1>4. Lasts(g) = Upto(d, l + 1)
  <2>1. [j \in DOMAIN q |-> q[j].duration] = [j \in 1 .. l + 1 |-> d[j]]
    BY <1>2, <1>3
  <2>. QED
    BY <2>1 DEF Lasts, Upto
<1>5. Lasts(f) = Upto(d, l)
  <2>1. \A j \in 1 .. l : p[j].duration = d[j]
    <3>1. \A j \in 1 .. l : j \in 1 .. l + 1
      BY <1>1
    <3>. QED
      BY <1>2, <1>3, <3>1
  <2>2. [j \in DOMAIN p |-> p[j].duration] = [j \in 1 .. l |-> d[j]]
    BY <1>1, <2>1
  <2>. QED
    BY <2>2 DEF Lasts, Upto
<1> HIDE DEF d, l, p, q
<1>6. l + 1 \in Nat /\ l \in 0 .. l + 1 /\ l + 1 \in 1 .. l + 1 /\ (l + 1) - 1 = l
  BY <1>1
<1>7. Upto(d, l) \in Nat /\ Upto(d, l + 1) = Upto(d, l) + d[l + 1]
  BY <1>3, <1>6, SumStep
<1>8. d[l + 1] = e.duration
  BY <1>2, <1>3, <1>6
<1>. QED
  BY <1>2, <1>4, <1>5, <1>7, <1>8 DEF l, p, q

Changed(fs, n, g) == [fs EXCEPT ![n] = g]
Longer(f, d, e) == [timestamp |-> f.timestamp, duration |-> d, samples |-> Append(f.samples, e)]
Lasting(s, d) == [of |-> s, duration |-> d]

LEMMA ChangedIs ==
    ASSUME NEW fs \in Seq(Fragments), NEW n \in 1 .. Len(fs), NEW g \in Fragments
    PROVE  LET gs == Changed(fs, n, g)
           IN  /\ gs \in Seq(Fragments) /\ Len(gs) = Len(fs)
               /\ gs[n] = g
               /\ \A j \in 1 .. Len(fs) : j # n => gs[j] = fs[j]
<1>1. DOMAIN fs = 1 .. Len(fs)
  OBVIOUS
<1>2. Changed(fs, n, g) \in Seq(Fragments) /\ Len(Changed(fs, n, g)) = Len(fs)
  BY ExceptSeq DEF Changed
<1>3. n \in DOMAIN fs /\ \A j \in 1 .. Len(fs) : j \in DOMAIN fs
  BY <1>1
<1>4. Changed(fs, n, g)[n] = g
  BY ONLY <1>3, Zenon DEF Changed
<1>5. \A j \in 1 .. Len(fs) : j # n => Changed(fs, n, g)[j] = fs[j]
  BY ONLY <1>3, Zenon DEF Changed
<1>. QED
  BY <1>2, <1>4, <1>5, Zenon

LEMMA ChangedKeeps ==
    ASSUME NEW fs \in Seq(Fragments), NEW n \in 1 .. Len(fs), NEW g \in Fragments,
           NEW m, NEW tr, \A i \in 1 .. n - 1 : IsCut(m, tr, fs, i)
    PROVE  LET gs == Changed(fs, n, g)
           IN  /\ Taken(gs, n) = Taken(fs, n)
               /\ \A i \in 1 .. n - 1 : IsCut(m, tr, gs, i)
<1> DEFINE gs == Changed(fs, n, g)
           p == n - 1
<1>1. p \in Nat /\ n \in 1 .. p + 1
  OBVIOUS
<1>2. \A j \in 1 .. p : j \in 1 .. Len(fs) /\ j # n
  OBVIOUS
<1>3. \A j \in 1 .. p : fs[j] = gs[j]
  <2>1. \A j \in 1 .. Len(fs) : j # n => Changed(fs, n, g)[j] = fs[j]
    BY ChangedIs
  <2>. QED
    BY ONLY <1>2, <2>1, Zenon
<1>4. \A i \in 1 .. p : IsCut(m, tr, fs, i)
  OBVIOUS
<1> HIDE DEF gs, p
<1>5. \A j \in 1 .. p : Len(fs[j].samples) = Len(gs[j].samples)
  BY <1>3
<1>6. Taken(fs, n) = Taken(gs, n)
  BY <1>1, <1>5, TakenSame
<1>7. \A i \in 1 .. p : IsCut(m, tr, gs, i)
  BY <1>1, <1>3, <1>4, CutSame
<1>. QED
  BY <1>6, <1>7 DEF gs, p

(* s is what the tables t say of sample k, and fs after it is added        *)
IsNext(t, k, s) ==
    /\ s \in Sampled
    /\ s.size = t.size[k + 1] /\ s.delta = DeltaOf(t, k)
    /\ s.chunk = ChunkOf(t, k) /\ s.offset = OffsetOf(t, k)
Grown(fs, n, t, k, s) ==
    Changed(fs, n, Longer(fs[n], TimeAt(t, k + 1) - fs[n].timestamp,
                          Lasting(s, TimeAt(t, k + 1) - TimeAt(t, k))))

LEMMA CutGrows ==
    ASSUME NEW m \in Movies, NEW tr, HasTrack(m, tr),
           NEW fs, AreCut(m, tr, fs), NEW n, n = Len(fs), n # 0,
           NEW k, k = Taken(fs, n + 1), k < Goal(m, tr, n),
           NEW s, IsNext(m[tr], k, s)
    PROVE  LET gs == Grown(fs, n, m[tr], k, s)
           IN  /\ AreCut(m, tr, gs)
               /\ Len(gs) = n
               /\ Taken(gs, n + 1) = k + 1
<1> DEFINE t == m[tr]
           f == fs[n]
           l == Len(f.samples)
           a == Taken(fs, n)
           e == [of |-> s, duration |-> TimeAt(t, k + 1) - TimeAt(t, k)]
           g == [timestamp |-> f.timestamp, duration |-> TimeAt(t, k + 1) - f.timestamp,
                 samples |-> Append(f.samples, e)]
           gs == Grown(fs, n, t, k, s)
<1>0. /\ s \in Sampled
      /\ s.size = t.size[k + 1] /\ s.delta = DeltaOf(t, k)
      /\ s.chunk = ChunkOf(t, k) /\ s.offset = OffsetOf(t, k)
  BY DEF IsNext
<1>1. IsTrack(t)
  BY TrackIs
<1>2. /\ fs \in Seq(Fragments) /\ n \in Nat \ {0} /\ n <= Len(m.video.stss)
      /\ n \in 1 .. Len(fs) /\ f \in Fragments
  BY DEF AreCut
<1>3. gs = Changed(fs, n, g)
  BY DEF Grown, Longer, Lasting
<1>4. IsCut(m, tr, fs, n)
  BY <1>2 DEF AreCut
<1>5. a \in Nat /\ l \in Nat /\ k = a + l
  <2>1. fs \in Seq(Fragments) /\ n \in 1 .. Len(fs)
    BY <1>2
  <2>2. k = Taken(fs, n + 1)
    OBVIOUS
  <2>. QED
    BY <2>1, <2>2, TakenNext
<1>6. Goal(m, tr, n) \in 0 .. NumSamples(t) /\ NumSamples(t) \in Nat
  <2>1. n \in 0 .. Len(m.video.stss)
    BY <1>2, Goals
  <2>. QED
    BY <2>1, Goals
<1> HIDE DEF t, f, l, a, g, gs
<1>7. /\ TimeAt(t, a) \in Nat /\ TimeAt(t, k) \in Nat /\ TimeAt(t, k + 1) \in Nat
      /\ TimeAt(t, a) <= TimeAt(t, k) /\ TimeAt(t, k) <= TimeAt(t, k + 1)
  <2>1. /\ a \in 0 .. NumSamples(t) /\ k \in a .. NumSamples(t) /\ k \in 0 .. NumSamples(t)
        /\ k + 1 \in 0 .. NumSamples(t) /\ k + 1 \in k .. NumSamples(t)
    BY <1>5, <1>6
  <2>. QED
    BY <1>1, <2>1, Times
<1>8. /\ a = Goal(m, tr, n - 1) /\ f.timestamp = TimeAt(t, a)
      /\ f.timestamp + f.duration = TimeAt(t, k)
      /\ f.duration = Lasts(f)
      /\ \A j \in 1 .. l : InPlace(t, fs, n, j)
  BY <1>4 DEF IsCut, t, f, l, a
<1>9. e \in Entry /\ e.of = s /\ e.duration = TimeAt(t, k + 1) - TimeAt(t, k)
  BY <1>0, <1>7 DEF Entry
<1> HIDE DEF e
<1>10. /\ g.timestamp = f.timestamp
       /\ g.duration = TimeAt(t, k + 1) - f.timestamp
       /\ g.samples = Append(f.samples, e)
  BY DEF g
<1>11. g \in Fragments
  <2>1. f.samples \in Seq(Entry)
    BY <1>2, FragmentIs DEF f
  <2>2. Append(f.samples, e) \in Seq(Entry)
    BY <1>9, <2>1, AppendProperties
  <2>3. f.timestamp \in Nat /\ TimeAt(t, k + 1) - f.timestamp \in Nat
    BY <1>7, <1>8
  <2>. QED
    BY <2>2, <2>3 DEF Fragments, g
<1>12. f \in Fragments
  BY <1>2
<1>13. /\ Len(g.samples) = l + 1
       /\ \A j \in 1 .. l : g.samples[j] = f.samples[j]
       /\ g.samples[l + 1] = e
       /\ Lasts(f) \in Nat
       /\ Lasts(g) = Lasts(f) + e.duration
  BY <1>9, <1>10, <1>11, <1>12, LastsGrows DEF l
<1>14. /\ gs \in Seq(Fragments) /\ Len(gs) = n
       /\ gs[n] = g
       /\ \A j \in 1 .. n - 1 : fs[j] = gs[j]
  <2>. HIDE DEF g
  <2>1. /\ gs \in Seq(Fragments) /\ Len(gs) = Len(fs)
        /\ gs[n] = g
        /\ \A j \in 1 .. Len(fs) : j # n => gs[j] = fs[j]
    <3> DEFINE c == Changed(fs, n, g)
    <3>1. n \in 1 .. Len(fs) /\ fs \in Seq(Fragments)
      BY <1>2
    <3>2. /\ c \in Seq(Fragments) /\ Len(c) = Len(fs)
          /\ c[n] = g
          /\ \A j \in 1 .. Len(fs) : j # n => c[j] = fs[j]
      BY <1>11, <3>1, ChangedIs
    <3>. QED
      BY <1>3, <3>2
  <2>2. \A j \in 1 .. n - 1 : j \in 1 .. n /\ j # n
    BY <1>2
  <2>. QED
    BY <1>2, <2>1, <2>2
<1> HIDE DEF g
<1>15. Taken(gs, n) = a
  <2>1. n \in 1 .. Len(fs) /\ fs \in Seq(Fragments)
    BY <1>2
  <2>2. \A i \in 1 .. n - 1 : IsCut(m, tr, fs, i)
    BY <1>2 DEF AreCut
  <2> DEFINE c == Changed(fs, n, g)
  <2>3. Taken(c, n) = Taken(fs, n)
    BY <1>11, <2>1, <2>2, ChangedKeeps
  <2>. QED
    BY <1>3, <2>3 DEF a
<1>16. Taken(gs, n + 1) = k + 1
  <2>1. n \in 1 .. Len(gs)
    BY <1>2, <1>14
  <2>2. Taken(gs, n + 1) = Taken(gs, n) + Len(gs[n].samples)
    <3>1. gs \in Seq(Fragments)
      BY <1>14
    <3>. QED
      BY <2>1, <3>1, TakenNext
  <2>3. Len(gs[n].samples) = l + 1
    BY <1>13, <1>14
  <2>. QED
    BY <1>5, <1>15, <2>2, <2>3
<1>17. \A j \in 1 .. l + 1 : InPlace(t, gs, n, j)
  <2> SUFFICES ASSUME NEW j \in 1 .. l + 1
               PROVE  InPlace(t, gs, n, j)
    OBVIOUS
  <2>1. CASE j = l + 1
    <3>1. Taken(gs, n) + j - 1 = k
      BY <1>5, <1>15, <2>1
    <3>2. gs[n].samples[j].of = s
      BY <1>9, <1>13, <1>14, <2>1
    <3>. QED
      BY <1>0, <3>1, <3>2 DEF InPlace, t
  <2>2. CASE j # l + 1
    <3>1. j \in 1 .. l
      BY <1>5, <2>2
    <3>2. gs[n].samples[j] = fs[n].samples[j] /\ Taken(gs, n) = Taken(fs, n)
      BY <1>13, <1>14, <1>15, <3>1 DEF f, a
    <3>3. InPlace(t, fs, n, j)
      BY <1>8, <3>1
    <3>. QED
      BY <3>2, <3>3 DEF InPlace
  <2>. QED
    BY <2>1, <2>2
<1>18. IsCut(m, tr, gs, n)
  <2>1. Taken(gs, n) = Goal(m, tr, n - 1) /\ Taken(gs, n + 1) <= Goal(m, tr, n)
    BY <1>5, <1>6, <1>8, <1>15, <1>16
  <2>2. gs[n].timestamp = TimeAt(t, Taken(gs, n))
    BY <1>8, <1>10, <1>14, <1>15
  <2>3. gs[n].timestamp + gs[n].duration = TimeAt(t, Taken(gs, n + 1))
    BY <1>7, <1>8, <1>10, <1>14, <1>16
  <2>4. gs[n].duration = Lasts(gs[n])
    <3>1. f.duration \in Nat /\ f.timestamp \in Nat
      BY <1>12, FragmentIs
    <3>2. Lasts(g) = f.duration + (TimeAt(t, k + 1) - TimeAt(t, k))
      BY <1>8, <1>9, <1>13
    <3>3. g.duration = Lasts(g)
      BY <1>7, <1>8, <1>10, <3>1, <3>2
    <3>. QED
      BY <1>14, <3>3
  <2>5. \A j \in 1 .. Len(gs[n].samples) : InPlace(t, gs, n, j)
    BY <1>13, <1>14, <1>17
  <2>. QED
    BY <2>1, <2>2, <2>3, <2>4, <2>5 DEF IsCut, t
<1>19. \A i \in 1 .. n - 1 : IsCut(m, tr, gs, i)
  <2>1. n \in 1 .. Len(fs) /\ fs \in Seq(Fragments)
    BY <1>2
  <2>2. \A i \in 1 .. n - 1 : IsCut(m, tr, fs, i)
    BY <1>2 DEF AreCut
  <2> DEFINE c == Changed(fs, n, g)
  <2>3. \A i \in 1 .. n - 1 : IsCut(m, tr, c, i)
    BY <1>11, <2>1, <2>2, ChangedKeeps
  <2>. QED
    BY <1>3, <2>3
<1>20. \A i \in 1 .. n : i \in 1 .. n - 1 \/ i = n
  BY <1>2
<1>. QED
  <2>1. AreCut(m, tr, gs)
    BY <1>2, <1>14, <1>18, <1>19, <1>20 DEF AreCut
  <2>. QED
    BY <1>14, <1>16, <2>1 DEF gs, t

BothTracks == [{"video", "audio"} -> Seq(Fragments)]
Replaced(fr, tr, fs) == [fr EXCEPT ![tr] = fs]
Added(fr, tr, n, d, e) == [fr EXCEPT ![tr][n].duration = d, ![tr][n].samples = Append(@, e)]

LEMMA SampleIsAdded ==
    ASSUME NEW fr \in BothTracks, NEW tr \in {"video", "audio"},
           NEW n \in 1 .. Len(fr[tr]), NEW d, NEW e
    PROVE  Added(fr, tr, n, d, e) = Replaced(fr, tr, Changed(fr[tr], n, Longer(fr[tr][n], d, e)))
<1> DEFINE fs == fr[tr]
           f == fs[n]
           p == [fr EXCEPT ![tr][n].duration = d]
           g == [timestamp |-> f.timestamp, duration |-> d, samples |-> Append(f.samples, e)]
<1>1. fs \in Seq(Fragments) /\ DOMAIN fs = 1 .. Len(fs) /\ n \in DOMAIN fs /\ tr \in DOMAIN fr
  BY DEF BothTracks
<1>2. f \in Fragments
  BY <1>1
<1>3. f = [timestamp |-> f.timestamp, duration |-> f.duration, samples |-> f.samples]
  BY <1>2 DEF Fragments
<1> HIDE DEF f
<1>4. /\ DOMAIN p = DOMAIN fr
      /\ \A x \in DOMAIN fr : x # tr => p[x] = fr[x]
      /\ p[tr] = [fs EXCEPT ![n] = [f EXCEPT !.duration = d]]
  BY <1>1 DEF f
<1>5. [f EXCEPT !.duration = d]
         = [timestamp |-> f.timestamp, duration |-> d, samples |-> f.samples]
  BY <1>3
<1> DEFINE h == [timestamp |-> f.timestamp, duration |-> d, samples |-> f.samples]
<1>6. p[tr] = [fs EXCEPT ![n] = h]
  BY <1>4, <1>5
<1>7. p[tr][n] = h
  BY <1>1, <1>6
<1>8. [h EXCEPT !.samples = Append(h.samples, e)] = g
  <2> DEFINE w == Append(f.samples, e)
  <2>1. Append(h.samples, e) = w
    OBVIOUS
  <2> HIDE DEF w
  <2>2. [h EXCEPT !.samples = w]
            = [timestamp |-> f.timestamp, duration |-> d, samples |-> w]
    OBVIOUS
  <2>. QED
    BY <2>1, <2>2 DEF w
<1> HIDE DEF g, h, fs
<1>9. [p[tr] EXCEPT ![n] = g] = [fs EXCEPT ![n] = g]
  BY <1>6
<1> DEFINE q == [fr EXCEPT ![tr][n].duration = d, ![tr][n].samples = Append(@, e)]
<1>10. q = [p EXCEPT ![tr] = [p[tr] EXCEPT ![n] = [p[tr][n] EXCEPT !.samples =
                                                       Append(p[tr][n].samples, e)]]]
  OBVIOUS
<1> HIDE DEF p
<1>11. q = [p EXCEPT ![tr] = [fs EXCEPT ![n] = g]]
  BY <1>7, <1>8, <1>9, <1>10
<1> HIDE DEF q
<1>12. q = [fr EXCEPT ![tr] = [fs EXCEPT ![n] = g]]
  BY <1>4, <1>11
<1>. QED
  BY <1>12 DEF q, fs, g, f, Changed, Longer, Added, Replaced

-----------------------------------------------------------------------------
(* The inductive invariant                                                 *)

Done(tr) ==
    /\ Len(frags[tr]) = NumFragments
    /\ Taken(frags[tr], NumFragments + 1) = Goal(movie, tr, NumFragments)

(* The track that is being cut: the iterator is behind the last fragment,  *)
(* and what is left leads to where that has to end.                        *)
Cutting ==
    LET t == movie[track]
        fs == frags[track]
    IN /\ HasTrack(movie, track)
       /\ IsAt(t, iter)
       /\ iter.sample = Taken(fs, Len(fs) + 1)
       /\ iter.sample + left = Goal(movie, track, Len(fs))
       /\ ticks = TicksBefore(t, iter.sample)
       /\ time = TimeAt(t, iter.sample)

FragInv ==
    /\ movie \in Movies
    /\ track \in {"video", "audio", "none"}
    /\ iter \in Places
    /\ ticks \in Nat /\ time \in Nat /\ left \in Nat
    /\ frags \in BothTracks
    /\ \A tr \in {"video", "audio"} : HasTrack(movie, tr) => AreCut(movie, tr, frags[tr])
    /\ track # "none" => Cutting
    /\ track = "video" => frags["audio"] = <<>>
    /\ track # "video" => Done("video")
    /\ track = "none" => left = 0 /\ (movie.audio # NoTrack => Done("audio"))

LEMMA FragInitIsInv == FragInit => FragInv
<1> SUFFICES ASSUME FragInit
             PROVE  FragInv
  OBVIOUS
<1>1. /\ movie \in Movies /\ track = "video" /\ iter = FirstSample
      /\ ticks = 0 /\ time = 0 /\ left = 0
      /\ frags = [video |-> <<>>, audio |-> <<>>]
  BY DEF FragInit
<1>2. frags \in BothTracks /\ frags["video"] = <<>> /\ frags["audio"] = <<>>
  <2>1. frags["video"] = <<>> /\ frags["audio"] = <<>>
    BY <1>1
  <2>2. DOMAIN frags = {"video", "audio"}
    BY <1>1
  <2>3. frags = [tr \in {"video", "audio"} |-> frags[tr]]
    BY <1>1, <2>2
  <2>4. <<>> \in Seq(Fragments)
    OBVIOUS
  <2>5. \A tr \in {"video", "audio"} : frags[tr] \in Seq(Fragments)
    BY <2>1, <2>4
  <2>. QED
    BY <2>1, <2>3, <2>5 DEF BothTracks
<1>3. \A tr : HasTrack(movie, tr) =>
         AreCut(movie, tr, <<>>) /\ Taken(<<>>, 1) = 0 /\ Goal(movie, tr, 0) = 0
  BY <1>1, CutNone, Goals
<1>4. \A tr \in {"video", "audio"} : HasTrack(movie, tr) => AreCut(movie, tr, frags[tr])
  BY <1>2, <1>3
<1>5. HasTrack(movie, track) /\ IsTrack(movie[track])
  <2>1. HasTrack(movie, "video")
    BY DEF HasTrack
  <2>. QED
    BY <1>1, <2>1, TrackIs
<1>6. Cutting
  <2>1. IsAt(movie[track], iter) /\ iter.sample = 0
    BY <1>1, <1>5, FirstIsAt DEF FirstSample
  <2>2. Len(frags[track]) = 0 /\ frags[track] = <<>>
    BY <1>1, <1>2
  <2>3. TicksBefore(movie[track], 0) = 0 /\ TimeAt(movie[track], 0) = 0
    BY <1>5, Ticks, Times
  <2>. QED
    BY <1>1, <1>3, <1>5, <2>1, <2>2, <2>3 DEF Cutting
<1>7. iter \in Places
  BY <1>6 DEF Cutting, IsAt
<1>. QED
  BY <1>1, <1>2, <1>4, <1>6, <1>7 DEF FragInv

(* What the invariant says of a track that is being cut                    *)
LEMMA CuttingIs ==
    ASSUME FragInv, track # "none"
    PROVE  LET t == movie[track]
               fs == frags[track]
               n == Len(fs)
               k == iter.sample
           IN  /\ track \in {"video", "audio"} /\ HasTrack(movie, track) /\ IsTrack(t)
               /\ AreCut(movie, track, fs)
               /\ fs \in Seq(Fragments) /\ n \in Nat /\ n <= NumFragments
               /\ NumFragments \in Nat \ {0} /\ NumFragments = Len(movie.video.stss)
               /\ IsAt(t, iter) /\ k \in Nat /\ left \in Nat
               /\ k = Taken(fs, n + 1)
               /\ k + left = Goal(movie, track, n)
               /\ Goal(movie, track, n) \in 0 .. NumSamples(t)
               /\ NumSamples(t) \in Nat
               /\ ticks = TicksBefore(t, k)
               /\ time = TimeAt(t, k)
<1>1. movie \in Movies /\ track \in {"video", "audio"} /\ Cutting /\ left \in Nat
      /\ HasTrack(movie, track)
  BY DEF FragInv, Cutting
<1>2. IsTrack(movie[track])
  BY <1>1, TrackIs
<1>3. AreCut(movie, track, frags[track])
  BY <1>1 DEF FragInv
<1>4. /\ frags[track] \in Seq(Fragments) /\ Len(frags[track]) \in Nat
      /\ Len(frags[track]) <= NumFragments
  BY <1>3 DEF AreCut, NumFragments
<1>5. NumFragments \in Nat \ {0} /\ NumFragments = Len(movie.video.stss)
  BY <1>1, Goals DEF NumFragments
<1>6. iter.sample \in Nat
  BY <1>1 DEF Cutting, IsAt, Places
<1>7. /\ Goal(movie, track, Len(frags[track])) \in 0 .. NumSamples(movie[track])
      /\ NumSamples(movie[track]) \in Nat
  <2>1. Len(frags[track]) \in 0 .. Len(movie.video.stss)
    BY <1>4, <1>5
  <2>. QED
    BY <1>1, <2>1, Goals
<1>. QED
  BY <1>1, <1>2, <1>3, <1>4, <1>5, <1>6, <1>7 DEF Cutting

(* A fragment of a finished track ends where it should.                    *)
LEMMA VideoIsDone ==
    ASSUME FragInv, track # "video", NEW i \in 1 .. NumFragments
    PROVE  /\ Len(frags.video) = NumFragments
           /\ Taken(frags.video, i + 1) = VideoGoal(movie.video, i)
           /\ End(frags.video[i]) = VideoEnd(movie.video, i)
<1>1. /\ movie \in Movies /\ HasTrack(movie, "video") /\ Done("video")
      /\ AreCut(movie, "video", frags["video"])
  BY DEF FragInv, HasTrack
<1>2. Len(frags.video) = NumFragments /\ NumFragments \in Nat
  BY <1>1, Goals DEF Done, NumFragments
<1>3. \A j \in 1 .. NumFragments : IsCut(movie, "video", frags.video, j)
  BY <1>1, <1>2 DEF AreCut
<1>4. Taken(frags.video, i + 1) = Goal(movie, "video", i)
  <2>1. CASE i = NumFragments
    BY <1>1, <2>1 DEF Done
  <2>2. CASE i # NumFragments
    <3>1. i + 1 \in 1 .. NumFragments /\ (i + 1) - 1 = i
      BY <1>2, <2>2
    <3>2. IsCut(movie, "video", frags.video, i + 1)
      BY <1>3, <3>1
    <3>. QED
      BY <3>1, <3>2 DEF IsCut
  <2>. QED
    BY <2>1, <2>2
<1>5. End(frags.video[i]) = TimeAt(movie.video, Taken(frags.video, i + 1))
  BY <1>3 DEF IsCut, End
<1>. QED
  BY <1>2, <1>4, <1>5 DEF Goal, VideoEnd

LEMMA BeginKeeps == FragInv /\ BeginFragment => FragInv'
<1> SUFFICES ASSUME FragInv, BeginFragment
             PROVE  FragInv'
  OBVIOUS
<1> DEFINE t == movie[track]
           fs == frags[track]
           n == Len(fs)
           k == iter.sample
           gs == Append(fs, [timestamp |-> time, duration |-> 0, samples |-> <<>>])
<1>1. /\ track # "none" /\ left = 0 /\ n < NumFragments
      /\ left' = IF track = "video" THEN VideoCount(n + 1) ELSE AudioCount(n + 1)
      /\ frags' = [frags EXCEPT ![track] = gs]
      /\ movie' = movie /\ track' = track /\ iter' = iter /\ ticks' = ticks /\ time' = time
  BY DEF BeginFragment
<1>2. /\ track \in {"video", "audio"} /\ HasTrack(movie, track) /\ IsTrack(t)
      /\ AreCut(movie, track, fs)
      /\ fs \in Seq(Fragments) /\ n \in Nat /\ n <= NumFragments
      /\ NumFragments \in Nat \ {0} /\ NumFragments = Len(movie.video.stss)
      /\ IsAt(t, iter) /\ k \in Nat
      /\ k = Taken(fs, n + 1)
      /\ k + left = Goal(movie, track, n)
      /\ Goal(movie, track, n) \in 0 .. NumSamples(t)
      /\ NumSamples(t) \in Nat
      /\ ticks = TicksBefore(t, k)
      /\ time = TimeAt(t, k)
  BY <1>1, CuttingIs
<1>3. movie \in Movies /\ frags \in BothTracks
  BY DEF FragInv
<1>4. k = Goal(movie, track, n)
  BY <1>1, <1>2
<1>5. AreCut(movie, track, gs) /\ Len(gs) = n + 1 /\ Taken(gs, Len(gs) + 1) = k
  <2>1. Taken(fs, Len(fs) + 1) = Goal(movie, track, Len(fs))
    BY <1>2, <1>4
  <2>2. time = TimeAt(movie[track], Taken(fs, Len(fs) + 1))
    BY <1>2
  <2>3. Len(fs) < Len(movie.video.stss)
    BY <1>1, <1>2
  <2>. QED
    BY <1>2, <1>3, <2>1, <2>2, <2>3, CutBegins
<1> HIDE DEF gs
<1>6. /\ frags'[track] = gs
      /\ \A tr \in {"video", "audio"} : tr # track => frags'[tr] = frags[tr]
      /\ frags' \in BothTracks
  <2>1. gs \in Seq(Fragments)
    BY <1>5 DEF AreCut
  <2>. QED
    BY <1>1, <1>2, <1>3, <2>1 DEF BothTracks
<1>7. Goal(movie, track, n + 1) \in Nat /\ k <= Goal(movie, track, n + 1)
  <2>1. n \in 0 .. Len(movie.video.stss) /\ n + 1 \in n .. Len(movie.video.stss)
        /\ n + 1 \in 0 .. Len(movie.video.stss)
    BY <1>1, <1>2
  <2>. QED
    BY <1>2, <1>3, <1>4, <2>1, Goals
<1>8. left' = Goal(movie, track, n + 1) - k
  <2>1. CASE track = "video"
    <3>1. IsTrack(movie.video) /\ HasSync(movie.video)
      BY <1>3, MoviesAssumption
    <3>2. n + 1 \in 1 .. Len(movie.video.stss) /\ (n + 1) - 1 = n
      BY <1>1, <1>2
    <3>3. movie.video.stss[n + 1] - 1 = k
      <4>1. VideoGoal(movie.video, (n + 1) - 1) = movie.video.stss[n + 1] - 1
        BY <3>1, <3>2, VideoGoals
      <4>2. VideoGoal(movie.video, n) = k
        BY <1>4, <2>1 DEF Goal
      <4>. QED
        BY <3>2, <4>1, <4>2
    <3>4. left' = VideoCount(n + 1)
      BY <1>1, <2>1
    <3>5. Goal(movie, track, n + 1) = VideoGoal(movie.video, n + 1)
      BY <2>1 DEF Goal
    <3> HIDE DEF k, n
    <3>6. CASE n + 1 = NumFragments
      <4>1. VideoGoal(movie.video, n + 1) = NumSamples(movie.video)
        BY <1>2, <3>6 DEF VideoGoal
      <4>2. VideoCount(n + 1) = NumSamples(movie.video) - (movie.video.stss[n + 1] - 1)
        BY <3>6 DEF VideoCount
      <4>. QED
        BY <3>3, <3>4, <3>5, <4>1, <4>2
    <3>7. CASE n + 1 # NumFragments
      <4>1. VideoGoal(movie.video, n + 1) = movie.video.stss[(n + 1) + 1] - 1
        BY <1>1, <1>2, <3>7 DEF VideoGoal
      <4>2. VideoCount(n + 1)
                = movie.video.stss[(n + 1) + 1] - 1 - (movie.video.stss[n + 1] - 1)
        BY <3>7 DEF VideoCount
      <4>. QED
        BY <3>3, <3>4, <3>5, <4>1, <4>2
    <3>. QED
      BY <3>6, <3>7
  <2>2. CASE track = "audio"
    <3>1. n + 1 \in 1 .. NumFragments /\ n + 1 # 0
      BY <1>1, <1>2
    <3>2. End(frags.video[n + 1]) = VideoEnd(movie.video, n + 1)
      BY <2>2, <3>1, VideoIsDone
    <3>3. left' = AudioCount(n + 1)
      BY <1>1, <2>2
    <3>4. Goal(movie, track, n + 1)
              = IndexFromTimestamp(movie.audio,
                    ScaleInt(VideoEnd(movie.video, n + 1), movie.audio.timescale, Scale))
      BY <2>2, <3>1 DEF Goal, AudioGoal
    <3>. QED
      BY <3>2, <3>3, <3>4 DEF AudioCount
  <2>. QED
    BY <1>2, <2>1, <2>2
<1>9. left' \in Nat /\ k + left' = Goal(movie, track, n + 1)
  BY <1>2, <1>7, <1>8
<1>10. Cutting'
  <2>1. /\ movie'[track'] = t /\ frags'[track'] = gs /\ iter'.sample = k
    BY <1>1, <1>6
  <2> HIDE DEF t, k, n, fs
  <2>2. IsAt(t, iter') /\ ticks' = TicksBefore(t, k) /\ time' = TimeAt(t, k)
        /\ k = Taken(gs, Len(gs) + 1) /\ k + left' = Goal(movie', track', Len(gs))
        /\ HasTrack(movie', track')
    BY <1>1, <1>2, <1>5, <1>9
  <2>. QED
    BY <2>1, <2>2 DEF Cutting
<1>11. \A tr \in {"video", "audio"} : HasTrack(movie, tr) => AreCut(movie, tr, frags'[tr])
  <2>1. \A tr \in {"video", "audio"} : HasTrack(movie, tr) => AreCut(movie, tr, frags[tr])
    BY DEF FragInv
  <2>. QED
    BY <1>5, <1>6, <2>1
<1>12. track = "video" => frags'["audio"] = <<>>
  <2>1. track = "video" => frags["audio"] = <<>>
    BY DEF FragInv
  <2>. QED
    BY <1>6, <2>1
<1>13. track # "video" => Done("video")'
  <2>1. track # "video" => Done("video") /\ frags'["video"] = frags["video"]
    BY <1>6 DEF FragInv
  <2>2. NumFragments' = NumFragments
    BY <1>1 DEF NumFragments
  <2>. QED
    BY <1>1, <2>1, <2>2 DEF Done
<1>14. iter \in Places /\ ticks \in Nat /\ time \in Nat
  BY SMTT(30) DEF FragInv
<1> HIDE DEF t, fs, n, k
<1>. QED
  BY <1>1, <1>2, <1>3, <1>6, <1>9, <1>10, <1>11, <1>12, <1>13, <1>14 DEF FragInv

LEMMA AddKeeps == FragInv /\ AddSample => FragInv'
<1> SUFFICES ASSUME FragInv, AddSample
             PROVE  FragInv'
  OBVIOUS
<1> DEFINE t == movie[track]
           fs == frags[track]
           n == Len(fs)
           k == iter.sample
           s == Sample(t, iter)
           e == Lasting(s, time' - time)
<1>1. /\ left \in Nat /\ left > 0 /\ left' = left - 1
      /\ ticks' = ticks + s.delta
      /\ time' = ScaleInt(ticks', Scale, t.timescale)
      /\ frags' = [frags EXCEPT ![track][n].duration = time' - fs[n].timestamp,
                                ![track][n].samples = Append(@, e)]
      /\ iter' = Iterate(t, iter)
      /\ movie' = movie /\ track' = track
  BY DEF AddSample, FragInv, Lasting
<1>2. track # "none"
  BY <1>1 DEF FragInv
<1>3. /\ track \in {"video", "audio"} /\ HasTrack(movie, track) /\ IsTrack(t)
      /\ AreCut(movie, track, fs)
      /\ fs \in Seq(Fragments) /\ n \in Nat
      /\ NumFragments = Len(movie.video.stss)
      /\ IsAt(t, iter) /\ k \in Nat
      /\ k = Taken(fs, n + 1)
      /\ k + left = Goal(movie, track, n)
      /\ Goal(movie, track, n) \in 0 .. NumSamples(t)
      /\ NumSamples(t) \in Nat
      /\ ticks = TicksBefore(t, k)
      /\ time = TimeAt(t, k)
  BY <1>2, CuttingIs
<1>4. movie \in Movies /\ frags \in BothTracks
  BY DEF FragInv
<1>5. k < Goal(movie, track, n) /\ k < NumSamples(t)
  BY <1>1, <1>3
<1>6. n # 0
  <2>1. Goal(movie, track, 0) = 0
    BY <1>3, <1>4, Goals
  <2>. QED
    BY <1>3, <1>5, <2>1
<1>7. /\ s \in Sampled
      /\ s.size = t.size[k + 1] /\ s.delta = DeltaOf(t, k)
      /\ s.chunk = ChunkOf(t, k) /\ s.offset = OffsetOf(t, k)
  BY <1>3, <1>5, SampleIs DEF Sampled
<1>8. IsAt(t, iter') /\ iter'.sample = k + 1
  BY <1>1, <1>3, <1>5, IterateIsAt
<1> HIDE DEF s, e
<1>9. ticks' = TicksBefore(t, k + 1) /\ time' = TimeAt(t, k + 1)
  <2>1. TicksBefore(t, k + 1) = TicksBefore(t, k) + DeltaOf(t, k)
    BY <1>3, <1>5, Ticks
  <2>2. ticks' = TicksBefore(t, k + 1)
    BY <1>1, <1>3, <1>7, <2>1
  <2>. QED
    BY <1>1, <2>2 DEF TimeAt
<1> DEFINE gs == Changed(fs, n, Longer(fs[n], time' - fs[n].timestamp, e))
<1>10. frags' = [frags EXCEPT ![track] = gs]
  <2>1. n \in 1 .. Len(frags[track])
    BY <1>3, <1>6
  <2> HIDE DEF n
  <2> DEFINE d == time' - frags[track][n].timestamp
  <2>2. frags' = Added(frags, track, n, d, e)
    BY <1>1 DEF Added
  <2>3. gs = Changed(frags[track], n, Longer(frags[track][n], d, e))
    OBVIOUS
  <2> HIDE DEF d, gs
  <2>4. frags' = Replaced(frags, track, gs)
    BY <1>3, <1>4, <2>1, <2>2, <2>3, SampleIsAdded
  <2>. QED
    BY <2>4 DEF Replaced
<1>11. AreCut(movie, track, gs) /\ Len(gs) = n /\ Taken(gs, n + 1) = k + 1
  <2>1. e = Lasting(s, TimeAt(movie[track], k + 1) - TimeAt(movie[track], k))
    BY <1>3, <1>9 DEF e
  <2>2. gs = Grown(fs, n, t, k, s)
    BY <1>9, <2>1 DEF Grown
  <2>3. n = Len(fs)
    OBVIOUS
  <2>4. IsNext(t, k, s)
    BY <1>7 DEF IsNext
  <2>5. movie \in Movies /\ HasTrack(movie, track) /\ AreCut(movie, track, fs)
    BY <1>3, <1>4
  <2>6. k = Taken(fs, n + 1) /\ k < Goal(movie, track, n)
    BY <1>3, <1>5
  <2> HIDE DEF gs, n, k
  <2>7. /\ AreCut(movie, track, Grown(fs, n, t, k, s))
        /\ Len(Grown(fs, n, t, k, s)) = n
        /\ Taken(Grown(fs, n, t, k, s), n + 1) = k + 1
    BY <1>6, <2>3, <2>4, <2>5, <2>6, CutGrows
  <2>. QED
    BY <2>2, <2>7
<1> HIDE DEF gs
<1>12. /\ frags'[track] = gs
       /\ \A tr \in {"video", "audio"} : tr # track => frags'[tr] = frags[tr]
       /\ frags' \in BothTracks
  <2>1. gs \in Seq(Fragments)
    BY <1>11 DEF AreCut
  <2>. QED
    BY <1>3, <1>4, <1>10, <2>1 DEF BothTracks
<1>13. left' \in Nat /\ (k + 1) + left' = Goal(movie, track, n)
  BY <1>1, <1>3
<1>14. Cutting'
  <2>1. movie'[track'] = t /\ frags'[track'] = gs
    BY <1>1, <1>12
  <2> HIDE DEF t, k, n, fs
  <2>2. /\ IsAt(t, iter') /\ ticks' = TicksBefore(t, iter'.sample)
        /\ time' = TimeAt(t, iter'.sample)
        /\ iter'.sample = Taken(gs, Len(gs) + 1)
        /\ iter'.sample + left' = Goal(movie', track', Len(gs))
        /\ HasTrack(movie', track')
    BY <1>1, <1>3, <1>8, <1>9, <1>11, <1>13
  <2>. QED
    BY <2>1, <2>2 DEF Cutting
<1>15. \A tr \in {"video", "audio"} : HasTrack(movie, tr) => AreCut(movie, tr, frags'[tr])
  <2>1. \A tr \in {"video", "audio"} : HasTrack(movie, tr) => AreCut(movie, tr, frags[tr])
    BY DEF FragInv
  <2>. QED
    BY <1>11, <1>12, <2>1
<1>16. track = "video" => frags'["audio"] = <<>>
  <2>1. track = "video" => frags["audio"] = <<>>
    BY DEF FragInv
  <2>. QED
    BY <1>12, <2>1
<1>17. track # "video" => Done("video")'
  <2>1. track # "video" => Done("video") /\ frags'["video"] = frags["video"]
    BY <1>12 DEF FragInv
  <2>2. NumFragments' = NumFragments
    BY <1>1 DEF NumFragments
  <2>. QED
    BY <1>1, <2>1, <2>2 DEF Done
<1>18. iter' \in Places /\ ticks' \in Nat /\ time' \in Nat
  <2>1. k + 1 \in 0 .. NumSamples(t)
    BY <1>3, <1>5
  <2>. QED
    BY <1>3, <1>8, <1>9, <2>1, Ticks, Times DEF IsAt
<1> HIDE DEF t, fs, n, k
<1>. QED
  BY <1>1, <1>2, <1>3, <1>4, <1>12, <1>13, <1>14, <1>15, <1>16, <1>17, <1>18 DEF FragInv

LEMMA NextTrackKeeps == FragInv /\ NextTrack => FragInv'
<1> SUFFICES ASSUME FragInv, NextTrack
             PROVE  FragInv'
  OBVIOUS
<1>1. /\ track # "none" /\ left = 0 /\ Len(frags[track]) = NumFragments
      /\ track' = IF track = "video" /\ movie.audio # NoTrack THEN "audio" ELSE "none"
      /\ iter' = FirstSample /\ ticks' = 0 /\ time' = 0
      /\ movie' = movie /\ left' = left /\ frags' = frags
  BY DEF NextTrack
<1>2. /\ track \in {"video", "audio"} /\ HasTrack(movie, track)
      /\ iter.sample \in Nat
      /\ iter.sample = Taken(frags[track], Len(frags[track]) + 1)
      /\ iter.sample + left = Goal(movie, track, Len(frags[track]))
  BY <1>1, CuttingIs
<1>3. Done(track)
  BY <1>1, <1>2 DEF Done
<1>4. movie \in Movies /\ frags \in BothTracks /\ left \in Nat
      /\ \A tr \in {"video", "audio"} : HasTrack(movie, tr) => AreCut(movie, tr, frags[tr])
  BY DEF FragInv
<1>5. NumFragments' = NumFragments
  BY <1>1 DEF NumFragments
<1>6. Done("video")'
  <2>1. Done("video")
    BY <1>2, <1>3 DEF FragInv
  <2>. QED
    BY <1>1, <1>5, <2>1 DEF Done
<1>7. iter' \in Places
  <2>1. IsTrack(movie[track])
    BY <1>2, <1>4, TrackIs
  <2>. QED
    BY <1>1, <2>1, FirstIsAt DEF IsAt
<1>8. CASE track = "video" /\ movie.audio # NoTrack
  <2>1. track' = "audio"
    BY <1>1, <1>8
  <2>2. frags["audio"] = <<>>
    BY <1>8 DEF FragInv
  <2>3. HasTrack(movie, "audio")
    BY <1>8 DEF HasTrack
  <2>4. IsTrack(movie["audio"])
    BY <1>4, <2>3, TrackIs
  <2>5. Cutting'
    <3>1. IsAt(movie["audio"], iter') /\ iter'.sample = 0
      BY <1>1, <2>4, FirstIsAt DEF FirstSample
    <3>2. TicksBefore(movie["audio"], 0) = 0 /\ TimeAt(movie["audio"], 0) = 0
      BY <2>4, Ticks, Times
    <3>3. Taken(<<>>, 1) = 0 /\ Goal(movie, "audio", 0) = 0
      BY <1>4, <2>3, CutNone, Goals
    <3>4. Len(frags'[track']) = 0 /\ frags'[track'] = <<>>
      BY <1>1, <2>1, <2>2
    <3>. QED
      BY <1>1, <2>1, <2>3, <3>1, <3>2, <3>3, <3>4 DEF Cutting
  <2>. QED
    BY <1>1, <1>4, <1>6, <1>7, <2>1, <2>5 DEF FragInv
<1>9. CASE ~(track = "video" /\ movie.audio # NoTrack)
  <2>1. track' = "none"
    BY <1>1, <1>9
  <2>2. movie.audio # NoTrack => Done("audio")'
    <3>1. movie.audio # NoTrack => Done("audio")
      BY <1>2, <1>3, <1>9
    <3>. QED
      BY <1>1, <1>5, <3>1 DEF Done
  <2>. QED
    BY <1>1, <1>4, <1>6, <1>7, <2>1, <2>2 DEF FragInv
<1>. QED
  BY <1>8, <1>9

LEMMA FragNextKeeps == FragInv /\ [FragNext]_fragVars => FragInv'
<1>1. ASSUME FragInv, UNCHANGED fragVars
      PROVE  FragInv'
  BY <1>1 DEF fragVars, FragInv, Cutting, Done, NumFragments
<1>. QED
  BY <1>1, BeginKeeps, AddKeeps, NextTrackKeeps DEF FragNext

(* While a file is fragmentized, each fragment has the samples that its    *)
(* tables give it up to where the track has been cut, ends where it should *)
(* and has the times that follow from the tables; ranges change nothing.   *)
THEOREM Inductive == Spec => []FragInv
<1>1. Init => FragInv
  BY FragInitIsInv DEF Init
<1>2. FragInv /\ [Next]_vars => FragInv'
  <2>1. [Next]_vars => [FragNext]_fragVars
    BY DEF Next, GetRange, vars, fragVars
  <2>. QED
    BY <2>1, FragNextKeeps
<1>. QED
  BY <1>1, <1>2, PTL DEF Spec

(* What follows for the fragments of a track                               *)
LEMMA TrackIsCut ==
    ASSUME FragInv, NEW tr \in Tracks
    PROVE  /\ HasTrack(movie, tr) /\ IsTrack(movie[tr])
           /\ frags[tr] \in Seq(Fragments) /\ DOMAIN frags[tr] = 1 .. Len(frags[tr])
           /\ Len(frags[tr]) \in Nat /\ Len(frags[tr]) <= NumFragments
           /\ NumFragments \in Nat
           /\ \A i \in 1 .. Len(frags[tr]) :
                 /\ IsCut(movie, tr, frags[tr], i)
                 /\ Taken(frags[tr], i) = Before(tr, i)
                 /\ Before(tr, i) \in 0 .. NumSamples(movie[tr])
                 /\ frags[tr][i] \in Fragments
<1>1. movie \in Movies /\ HasTrack(movie, tr)
  BY DEF FragInv, Tracks, HasTrack
<1>2. AreCut(movie, tr, frags[tr])
  BY <1>1 DEF FragInv, Tracks
<1>3. /\ frags[tr] \in Seq(Fragments) /\ DOMAIN frags[tr] = 1 .. Len(frags[tr])
      /\ Len(frags[tr]) \in Nat /\ Len(frags[tr]) <= NumFragments
      /\ \A i \in 1 .. Len(frags[tr]) : IsCut(movie, tr, frags[tr], i)
  BY <1>2 DEF AreCut, NumFragments
<1>4. NumFragments \in Nat /\ NumFragments = Len(movie.video.stss)
  BY <1>1, Goals DEF NumFragments
<1>5. ASSUME NEW i \in 1 .. Len(frags[tr])
      PROVE  /\ Taken(frags[tr], i) = Before(tr, i)
             /\ Before(tr, i) \in 0 .. NumSamples(movie[tr])
  <2>1. Taken(frags[tr], i) = Before(tr, i)
    BY DEF Taken, Before
  <2>2. Taken(frags[tr], i) = Goal(movie, tr, i - 1)
    BY <1>3 DEF IsCut
  <2>3. i - 1 \in 0 .. Len(movie.video.stss)
    BY <1>3, <1>4
  <2>. QED
    BY <1>1, <2>1, <2>2, <2>3, Goals
<1>6. \A i \in 1 .. Len(frags[tr]) : frags[tr][i] \in Fragments
  BY <1>3
<1>. QED
  BY <1>1, <1>3, <1>4, <1>5, <1>6, TrackIs

LEMMA SamplesFollow == FragInv => SamplesAreInPlace
<1> SUFFICES ASSUME FragInv, NEW tr \in Tracks, NEW i \in DOMAIN frags[tr],
                    NEW j \in DOMAIN frags[tr][i].samples
             PROVE  LET s == frags[tr][i].samples[j].of
                        t == movie[tr]
                        k == Before(tr, i) + j - 1
                    IN /\ s.size = t.size[k + 1]
                       /\ s.delta = DeltaOf(t, k)
                       /\ s.chunk = ChunkOf(t, k)
                       /\ s.offset = OffsetOf(t, k)
  BY DEF SamplesAreInPlace
<1>1. i \in 1 .. Len(frags[tr]) /\ frags[tr][i] \in Fragments
  BY TrackIsCut
<1>2. IsCut(movie, tr, frags[tr], i) /\ Taken(frags[tr], i) = Before(tr, i)
  BY <1>1, TrackIsCut
<1>3. j \in 1 .. Len(frags[tr][i].samples)
  BY <1>1, FragmentIs
<1>4. InPlace(movie[tr], frags[tr], i, j)
  BY <1>2, <1>3 DEF IsCut
<1>. QED
  BY <1>2, <1>4 DEF InPlace

LEMMA SyncsFollow == FragInv => VideoIsCutAtSync
<1> SUFFICES ASSUME FragInv
             PROVE  VideoIsCutAtSync
  OBVIOUS
<1>1. movie \in Movies /\ IsTrack(movie.video) /\ HasSync(movie.video)
  BY MoviesAssumption DEF FragInv
<1>2. AreCut(movie, "video", frags["video"])
  BY DEF FragInv, HasTrack
<1>3. frags.video \in Seq(Fragments) /\ Len(frags.video) <= Len(movie.video.stss)
      /\ \A i \in 1 .. Len(frags.video) : IsCut(movie, "video", frags.video, i)
  BY <1>2 DEF AreCut
<1>4. Len(movie.video.stss) \in Nat
  BY <1>1, VideoGoals
<1>5. ASSUME NEW i \in DOMAIN frags.video
      PROVE  Before("video", i) + 1 = movie.video.stss[i]
  <2>1. i \in 1 .. Len(frags.video) /\ i \in 1 .. Len(movie.video.stss)
    BY <1>3, <1>4
  <2>2. Taken(frags.video, i) = Goal(movie, "video", i - 1)
    BY <1>3, <2>1 DEF IsCut
  <2>3. Taken(frags.video, i) = Before("video", i)
    BY DEF Taken, Before
  <2>4. Goal(movie, "video", i - 1) = movie.video.stss[i] - 1
    BY <1>1, <2>1, VideoGoals DEF Goal
  <2>5. movie.video.stss[i] \in Int
    <3> DEFINE R == 1 .. NumSamples(movie.video)
    <3>1. movie.video.stss \in Seq(R)
      BY <1>1 DEF HasSync
    <3>2. R \subseteq Int
      OBVIOUS
    <3> HIDE DEF R
    <3>3. movie.video.stss[i] \in R
      BY <2>1, <3>1
    <3>. QED
      BY <3>2, <3>3
  <2>. QED
    BY <2>2, <2>3, <2>4, <2>5
<1>6. ASSUME track # "video"
      PROVE  Before("video", NumFragments + 1) = NumSamples(movie.video)
  <2>1. Taken(frags["video"], NumFragments + 1) = Goal(movie, "video", NumFragments)
    BY <1>6 DEF FragInv, Done
  <2>2. Taken(frags["video"], NumFragments + 1) = Before("video", NumFragments + 1)
    BY DEF Taken, Before
  <2>3. Goal(movie, "video", NumFragments) = NumSamples(movie.video)
    BY <1>1, VideoGoals DEF Goal, NumFragments
  <2>. QED
    BY <2>1, <2>2, <2>3
<1>. QED
  BY <1>5, <1>6 DEF VideoIsCutAtSync

LEMMA TimesFollow == FragInv => TimesDoNotDrift
<1> SUFFICES ASSUME FragInv, NEW tr \in Tracks, NEW i \in DOMAIN frags[tr]
             PROVE  LET f == frags[tr][i]
                        exact == TicksBefore(movie[tr], Before(tr, i)) * Scale
                    IN /\ f.timestamp * movie[tr].timescale <= exact
                       /\ exact < (f.timestamp + 1) * movie[tr].timescale
                       /\ f.duration = Total([j \in DOMAIN f.samples |-> f.samples[j].duration])
                       /\ i > 1 => f.timestamp = End(frags[tr][i - 1])
  BY DEF TimesDoNotDrift
<1> DEFINE f == frags[tr][i]
           k == Before(tr, i)
<1>1. IsTrack(movie[tr]) /\ i \in 1 .. Len(frags[tr]) /\ Len(frags[tr]) \in Nat
  BY TrackIsCut
<1>2. /\ IsCut(movie, tr, frags[tr], i) /\ Taken(frags[tr], i) = k
      /\ k \in 0 .. NumSamples(movie[tr])
  BY <1>1, TrackIsCut
<1>3. f.timestamp = TimeAt(movie[tr], k) /\ f.duration = Lasts(f)
  BY <1>2 DEF IsCut
<1>4. ASSUME i > 1
      PROVE  f.timestamp = End(frags[tr][i - 1])
  <2>1. i - 1 \in 1 .. Len(frags[tr]) /\ (i - 1) + 1 = i
    BY <1>1, <1>4
  <2>2. IsCut(movie, tr, frags[tr], i - 1)
    BY <2>1, TrackIsCut
  <2>3. End(frags[tr][i - 1]) = TimeAt(movie[tr], Taken(frags[tr], (i - 1) + 1))
    BY <2>2 DEF IsCut, End
  <2>. QED
    BY <1>2, <1>3, <2>1, <2>3
<1>5. /\ TimeAt(movie[tr], k) * movie[tr].timescale <= TicksBefore(movie[tr], k) * Scale
      /\ TicksBefore(movie[tr], k) * Scale < (TimeAt(movie[tr], k) + 1) * movie[tr].timescale
  BY <1>1, <1>2, Times
<1>6. f.duration = Total([j \in DOMAIN f.samples |-> f.samples[j].duration])
  BY <1>3 DEF Lasts
<1> HIDE DEF k, f
<1>. QED
  BY <1>3, <1>4, <1>5, <1>6 DEF k, f

LEMMA AudioFollows == FragInv => AudioEndsWithVideo
<1> SUFFICES ASSUME FragInv, movie.audio # NoTrack,
                    NEW i \in DOMAIN frags.audio, Complete("audio", i)
             PROVE  LET n == Before("audio", i + 1)
                        end == End(frags.video[i]) * movie.audio.timescale
                    IN /\ TicksBefore(movie.audio, n) * Scale <= end
                       /\ n < NumSamples(movie.audio) =>
                             end < TicksBefore(movie.audio, n + 1) * Scale
  BY DEF AudioEndsWithVideo
<1> DEFINE n == Before("audio", i + 1)
           fs == frags.audio
           t == movie.audio
<1>1. movie \in Movies /\ IsTrack(t) /\ IsTrack(movie.video) /\ HasSync(movie.video)
  BY MoviesAssumption DEF FragInv
<1>2. "audio" \in Tracks
  BY DEF Tracks
<1>3. /\ fs \in Seq(Fragments) /\ Len(fs) \in Nat /\ Len(fs) <= NumFragments
      /\ NumFragments \in Nat
      /\ i \in 1 .. Len(fs)
      /\ \A j \in 1 .. Len(fs) : IsCut(movie, "audio", fs, j)
  BY <1>2, TrackIsCut
<1>4. track # "video"
  <2>1. Len(fs) # 0
    BY <1>3
  <2>. QED
    BY <2>1 DEF FragInv
<1>5. i \in 1 .. NumFragments /\ i # 0
  BY <1>3
<1>6. End(frags.video[i]) = VideoEnd(movie.video, i)
  BY <1>4, <1>5, VideoIsDone
<1>7. n = Taken(fs, i + 1)
  BY DEF Before, Taken
<1>8. n = AudioGoal(movie, i)
  <2>1. Taken(fs, i + 1) = Goal(movie, "audio", i)
    <3>1. CASE i < Len(fs)
      <4>1. i + 1 \in 1 .. Len(fs) /\ (i + 1) - 1 = i
        BY <1>3, <3>1
      <4>2. IsCut(movie, "audio", fs, i + 1)
        BY <1>3, <4>1
      <4>. QED
        BY <4>1, <4>2 DEF IsCut
    <3>2. CASE ~(i < Len(fs))
      <4>1. i = Len(fs) /\ ("audio" = track => left = 0)
        BY <3>2 DEF Complete
      <4>2. CASE track = "audio"
        <5>1. track # "none"
          BY <4>2
        <5>2. /\ iter.sample \in Nat
              /\ iter.sample = Taken(frags[track], Len(frags[track]) + 1)
              /\ iter.sample + left = Goal(movie, track, Len(frags[track]))
          BY <5>1, CuttingIs
        <5>. QED
          BY <4>1, <4>2, <5>2
      <4>3. CASE track = "none"
        BY <4>1, <4>3 DEF FragInv, Done
      <4>. QED
        BY <1>4, <4>2, <4>3 DEF FragInv
    <3>. QED
      BY <3>1, <3>2
  <2>. QED
    BY <1>7, <2>1 DEF Goal
<1> DEFINE x == VideoEnd(movie.video, i) * t.timescale
<1>9. t.timescale \in Nat \ {0} /\ Scale \in Nat \ {0}
  BY <1>1, ScaleAssumption DEF IsTrack
<1>10. x \in Nat
  <2>1. i \in 0 .. Len(movie.video.stss) /\ i \in i .. Len(movie.video.stss)
    BY <1>5 DEF NumFragments
  <2>2. VideoEnd(movie.video, i) \in Nat
    BY <1>1, <2>1, VideoEnds
  <2>. QED
    BY <1>9, <2>2, Products
<1> HIDE DEF x
<1>11. x \div Scale \in Nat
  BY <1>9, <1>10, Quotient
<1>12. n = IndexFromTimestamp(t, x \div Scale)
  BY <1>5, <1>8 DEF AudioGoal, ScaleInt, x
<1>13. /\ n \in 0 .. NumSamples(t)
       /\ TicksBefore(t, n) <= x \div Scale
       /\ n < NumSamples(t) => x \div Scale < TicksBefore(t, n + 1)
  BY <1>1, <1>11, <1>12, IndexIs
<1> HIDE DEF n, t
<1>14. TicksBefore(t, n) \in Nat /\ (n < NumSamples(t) => TicksBefore(t, n + 1) \in Nat)
  <2>1. NumSamples(t) \in Nat
    BY <1>1, Entries
  <2>2. n < NumSamples(t) => n + 1 \in 0 .. NumSamples(t)
    BY <1>13, <2>1
  <2>. QED
    BY <1>1, <1>13, <2>2, Ticks
<1>15. TicksBefore(t, n) * Scale <= x
  BY <1>9, <1>10, <1>13, <1>14, QuotientBound
<1>16. ASSUME n < NumSamples(t)
       PROVE  x < TicksBefore(t, n + 1) * Scale
  <2> DEFINE b == TicksBefore(t, n + 1)
  <2>1. b \in Nat /\ ~(b <= x \div Scale)
    BY <1>11, <1>13, <1>14, <1>16
  <2> HIDE DEF b
  <2>2. ~(b * Scale <= x)
    BY <1>9, <1>10, <2>1, QuotientBound
  <2>3. b * Scale \in Nat
    BY <1>9, <2>1, Products
  <2>. QED
    BY <1>10, <2>2, <2>3 DEF b
<1>. QED
  BY <1>6, <1>15, <1>16 DEF x, n, t

(* A fragment of audio ends with the last sample that is over when the     *)
(* fragment of video with its number ends, or with the last one there is   *)
(* (gss_isom_track_get_index_from_timestamp and the loop that uses it).    *)
THEOREM AudioCorrect == Spec => []AudioEndsWithVideo
  BY Inductive, AudioFollows, PTL

-----------------------------------------------------------------------------
(* Sequences put together                                                  *)

IsCat(g, q, n) == g = [i \in 1 .. n |-> IF i = 1 THEN q[i] ELSE g[i - 1] \o q[i]]

LEMMA CatExists ==
    ASSUME NEW q, NEW n \in Nat
    PROVE  \E g : IsCat(g, q, n)
<1> DEFINE T == {m \in Nat : \E g : IsCat(g, q, m)}
<1>1. 0 \in T
  <2> DEFINE g == [i \in 1 .. 0 |-> q]
  <2>1. \A i \in 1 .. 0 : FALSE
    OBVIOUS
  <2>2. IsCat(g, q, 0)
    BY <2>1 DEF IsCat
  <2>. QED
    BY <2>2
<1>2. ASSUME NEW m \in Nat, m \in T
      PROVE  m + 1 \in T
  <2>1. PICK f : IsCat(f, q, m)
    BY <1>2
  <2> DEFINE g == [i \in 1 .. m + 1 |-> IF i \in 1 .. m THEN f[i]
                                         ELSE IF i = 1 THEN q[i] ELSE f[m] \o q[i]]
             h == [i \in 1 .. m + 1 |-> IF i = 1 THEN q[i] ELSE g[i - 1] \o q[i]]
  <2>2. \A i \in 1 .. m : f[i] = IF i = 1 THEN q[i] ELSE f[i - 1] \o q[i]
    BY <2>1 DEF IsCat
  <2>3. ASSUME NEW i \in 1 .. m + 1
        PROVE  g[i] = h[i]
    <3>1. CASE i = 1
      BY <2>2, <3>1
    <3>2. CASE i # 1 /\ i \in 1 .. m
      <4>1. i - 1 \in 1 .. m /\ i - 1 \in 1 .. m + 1
        BY <3>2
      <4>2. g[i] = f[i] /\ g[i - 1] = f[i - 1]
        BY <3>2, <4>1
      <4>. QED
        BY <2>2, <3>2, <4>2
    <3>3. CASE i # 1 /\ i = m + 1
      <4>1. i \notin 1 .. m /\ i - 1 = m /\ m \in 1 .. m /\ m \in 1 .. m + 1
        BY <3>3
      <4>2. g[i] = f[m] \o q[i] /\ g[m] = f[m]
        BY <3>3, <4>1
      <4>3. h[i] = g[m] \o q[i]
        BY <3>3, <4>1
      <4>. QED
        BY <4>2, <4>3
    <3>. QED
      BY <3>1, <3>2, <3>3
  <2>4. g = h
    BY <2>3
  <2> HIDE DEF g
  <2>5. IsCat(g, q, m + 1)
    BY <2>4 DEF IsCat
  <2>. QED
    BY <2>5
<1> HIDE DEF T
<1>. QED
  BY <1>1, <1>2, SetInduction DEF T

Cat(s, t) == s \o t

LEMMA FlattenIs ==
    ASSUME NEW q, NEW n \in Nat \ {0}, Len(q) = n
    PROVE  \E g : /\ g[1] = q[1]
                  /\ \A i \in 1 .. n : i # 1 => g[i] = Cat(g[i - 1], q[i])
                  /\ FlattenSeq(q) = g[n]
<1> DEFINE g == CHOOSE f : IsCat(f, q, n)
<1>1. IsCat(g, q, n)
  BY CatExists
<1>2. FlattenSeq(q) = g[n]
  BY DEF FlattenSeq, IsCat
<1> HIDE DEF g
<1>3. \A i \in 1 .. n : g[i] = IF i = 1 THEN q[i] ELSE g[i - 1] \o q[i]
  BY <1>1 DEF IsCat
<1>4. g[1] = q[1]
  <2>1. 1 \in 1 .. n
    OBVIOUS
  <2>. QED
    BY <1>3, <2>1
<1>5. \A i \in 1 .. n : i # 1 => g[i] = Cat(g[i - 1], q[i])
  BY <1>3, Zenon DEF Cat
<1>. QED
  BY <1>2, <1>4, <1>5

LEMMA Cats ==
    ASSUME NEW S
    PROVE  /\ <<>> \in Seq(S)
           /\ \A s, t \in Seq(S) : Cat(s, t) \in Seq(S)
           /\ \A s \in Seq(S) : Cat(s, <<>>) = s /\ Cat(<<>>, s) = s
           /\ \A s, t, u \in Seq(S) : Cat(Cat(s, t), u) = Cat(s, Cat(t, u))
<1>1. \A s, t \in Seq(S) : Cat(s, t) \in Seq(S)
  BY ConcatProperties DEF Cat
<1>2. \A s \in Seq(S) : Cat(s, <<>>) = s /\ Cat(<<>>, s) = s
  BY ConcatEmptySeq DEF Cat
<1>3. \A s, t, u \in Seq(S) : Cat(Cat(s, t), u) = Cat(s, Cat(t, u))
  <2> SUFFICES ASSUME NEW s \in Seq(S), NEW t \in Seq(S), NEW u \in Seq(S)
               PROVE  (s \o t) \o u = s \o (t \o u)
    BY DEF Cat
  <2>. QED
    BY ConcatAssociative
<1>4. <<>> \in Seq(S)
  OBVIOUS
<1>. QED
  BY <1>1, <1>2, <1>3, <1>4

-----------------------------------------------------------------------------
(* Ranges of a part                                                        *)

Piece(s, at, a, b) == Clip(s, at, [start |-> a, end |-> b])
From(at, a) == IF a > at THEN a - at ELSE 0
To(at, b, l) == IF b < at + l THEN b - at ELSE l

LEMMA PieceIs ==
    ASSUME NEW s, NEW at, NEW a, NEW b
    PROVE  Piece(s, at, a, b) = SubSeq(s, From(at, a) + 1, To(at, b, Len(s)))
<1>1. [start |-> a, end |-> b].start = a /\ [start |-> a, end |-> b].end = b
  OBVIOUS
<1>. QED
  BY <1>1, Zenon DEF Piece, Clip, From, To

(* z, the bytes from c to d, is cut at a: x is in front of it, y behind.   *)
CutAt(a, S, c, d, x, y, z) ==
    /\ x \in Seq(S) /\ y \in Seq(S) /\ z = Cat(x, y)
    /\ a <= c => x = <<>>
    /\ a >= d => y = <<>>

LEMMA PieceIsCut ==
    ASSUME NEW S, NEW s \in Seq(S), NEW at \in Nat, NEW a \in Nat, NEW b \in Nat, a <= b
    PROVE  CutAt(a, S, at, at + Len(s), Piece(s, at, 0, a), Piece(s, at, a, b), Piece(s, at, 0, b))
<1> DEFINE l == Len(s)
           k == To(at, a, l)
           n == To(at, b, l)
           from == From(at, a)
           x == Piece(s, at, 0, a)
           y == Piece(s, at, a, b)
           z == Piece(s, at, 0, b)
           Cut == /\ x \in Seq(S) /\ y \in Seq(S) /\ z = Cat(x, y)
                  /\ a <= at => x = <<>>
                  /\ a >= at + l => y = <<>>
<1>1. l \in Nat /\ from \in Nat /\ k \in Int /\ n \in Int /\ k <= l /\ n <= l /\ k <= n
  BY DEF From, To
<1>2. From(at, 0) = 0 /\ 0 + 1 = 1
  BY DEF From
<1>3. x = SubSeq(s, 1, k) /\ z = SubSeq(s, 1, n) /\ y = SubSeq(s, from + 1, n)
  BY <1>2, PieceIs
<1>4. /\ a >= at + l => k = l /\ n = l /\ from >= l
      /\ a <= at => (k <= 0 \/ l = 0) /\ from = 0
      /\ a < at + l /\ a > at => from = k /\ k \in 1 .. l
  BY <1>1 DEF From, To
<1> HIDE DEF k, n, from, x, y, z
<1>5. x \in Seq(S) /\ y \in Seq(S) /\ z \in Seq(S)
  <2>1. /\ \A i \in 1 .. k : s[i] \in S
        /\ \A i \in 1 .. n : s[i] \in S
        /\ \A i \in from + 1 .. n : s[i] \in S
    BY <1>1
  <2>2. from + 1 \in Int /\ 1 \in Int
    BY <1>1
  <2>. QED
    BY <1>1, <1>3, <2>1, <2>2, SubSeqProperties
<1>6. SubSeq(s, 1, l) = s
  BY SubSeqFull
<1> HIDE DEF l
<1>7. ASSUME a >= at + l PROVE Cut
  <2>1. y = <<>>
    <3>1. n < from + 1 /\ from + 1 \in Int
      BY <1>1, <1>4, <1>7
    <3>. QED
      BY <1>1, <1>3, <3>1, SubSeqEmpty
  <2>2. x = s /\ z = s
    BY <1>3, <1>4, <1>6, <1>7
  <2>3. z = Cat(x, y)
    BY <2>1, <2>2, Cats
  <2>4. a <= at => x = <<>>
    <3>1. a <= at => l = 0
      BY <1>1, <1>7
    <3>2. l = 0 => s = <<>>
      BY DEF l
    <3>. QED
      BY <2>2, <3>1, <3>2
  <2>. QED
    BY <1>5, <1>7, <2>1, <2>2, <2>3, <2>4
<1>8. ASSUME a < at + l, a <= at PROVE Cut
  <2>1. k <= 0 \/ l = 0
    BY <1>4, <1>8
  <2>2. k < 1 /\ from = 0
    BY <1>1, <1>4, <1>8, <2>1
  <2>3. x = <<>>
    BY <1>1, <1>3, <2>2, SubSeqEmpty
  <2>4. y = z
    BY <1>2, <1>3, <2>2
  <2>5. z = Cat(x, y)
    BY <1>5, <2>3, <2>4, Cats
  <2>6. ~(a >= at + l)
    BY <1>1, <1>8
  <2>. QED
    BY <1>5, <2>3, <2>5, <2>6
<1>9. ASSUME a < at + l, a > at PROVE Cut
  <2>1. from = k /\ k \in 1 .. l /\ n \in k .. l
    BY <1>1, <1>4, <1>9
  <2>2. SubSeq(s, 1, k) \o SubSeq(s, k + 1, n) = SubSeq(s, 1, n)
    <3>1. 1 \in 1 .. Len(s) + 1 /\ k \in 1 - 1 .. Len(s) /\ n \in k .. Len(s)
      BY <1>1, <2>1 DEF l
    <3>. QED
      BY <3>1, ConcatAdjacentSubSeq
  <2>3. z = Cat(x, y)
    BY <1>3, <2>1, <2>2, Zenon DEF Cat
  <2>4. ~(a >= at + l) /\ ~(a <= at)
    BY <1>1, <1>9
  <2>. QED
    BY <1>5, <2>3, <2>4
<1>10. Cut
  <2> HIDE DEF Cut
  <2>. QED
    BY <1>1, <1>7, <1>8, <1>9
<1>. QED
  BY <1>10, Zenon DEF CutAt, l, x, y, z

LEMMA PieceIsWhole ==
    ASSUME NEW S, NEW s \in Seq(S), NEW at \in Nat, NEW l \in Nat, Len(s) = l,
           NEW b \in Nat, at + l <= b
    PROVE  Piece(s, at, 0, b) = s
<1>1. To(at, b, l) = l /\ From(at, 0) + 1 = 1
  BY DEF To, From
<1>2. Piece(s, at, 0, b) = SubSeq(s, 1, l)
  BY <1>1, PieceIs
<1>. QED
  BY <1>2, SubSeqFull

LEMMA CutsJoin ==
    ASSUME NEW a \in Nat, NEW S, NEW c \in Nat, NEW d \in Nat, NEW e \in Nat, c <= d, d <= e,
           NEW p, NEW q, NEW r, CutAt(a, S, c, d, p, q, r),
           NEW x, NEW y, NEW z, CutAt(a, S, d, e, x, y, z)
    PROVE  CutAt(a, S, c, e, Cat(p, x), Cat(q, y), Cat(r, z))
<1>1. /\ p \in Seq(S) /\ q \in Seq(S) /\ r = Cat(p, q)
      /\ a <= c => p = <<>>
      /\ a >= d => q = <<>>
  BY DEF CutAt
<1>2. /\ x \in Seq(S) /\ y \in Seq(S) /\ z = Cat(x, y)
      /\ a <= d => x = <<>>
      /\ a >= e => y = <<>>
  BY DEF CutAt
<1>3. (a <= c => a <= d) /\ (a >= e => a >= d)
  OBVIOUS
<1>4. Cat(p, x) \in Seq(S) /\ Cat(q, y) \in Seq(S)
  BY <1>1, <1>2, Cats
<1>5. Cat(<<>>, <<>>) = <<>>
  BY Cats
<1>6. (a <= c => Cat(p, x) = <<>>) /\ (a >= e => Cat(q, y) = <<>>)
  BY <1>1, <1>2, <1>3, <1>5, Zenon
<1>7. Cat(r, z) = Cat(Cat(p, x), Cat(q, y))
  <2>1. CASE a >= d
    <3>1. q = <<>>
      BY <1>1, <2>1
    <3>2. r = p /\ Cat(q, y) = y
      BY <1>1, <1>2, <3>1, Cats
    <3>3. Cat(p, Cat(x, y)) = Cat(Cat(p, x), y)
      BY <1>1, <1>2, Cats
    <3>. QED
      BY <1>2, <3>2, <3>3
  <2>2. CASE ~(a >= d)
    <3>1. x = <<>>
      BY <1>2, <2>2
    <3>2. z = y /\ Cat(p, x) = p
      BY <1>1, <1>2, <3>1, Cats
    <3>3. Cat(Cat(p, q), y) = Cat(p, Cat(q, y))
      BY <1>1, <1>2, Cats
    <3>. QED
      BY <1>1, <3>2, <3>3
  <2>. QED
    BY <2>1, <2>2
<1>. QED
  BY <1>4, <1>6, <1>7 DEF CutAt

LEMMA CutWidens ==
    ASSUME NEW a \in Nat, NEW S, NEW c, NEW d \in Nat, NEW e \in Nat, d <= e,
           NEW x, NEW y, NEW z, CutAt(a, S, c, d, x, y, z)
    PROVE  CutAt(a, S, c, e, x, y, z)
<1>1. a >= e => a >= d
  OBVIOUS
<1>. QED
  BY <1>1 DEF CutAt

-----------------------------------------------------------------------------
(* Where the parts of a file are                                           *)

Bytes == {<<"header", j>> : j \in Nat}
            \cup {<<"moof", i, j>> : i \in Nat, j \in Nat}
            \cup {<<"data", i, j>> : i \in Nat, j \in Nat}

Address(tr, i) == Header + OffsetInFile(tr, i)

LEMMA Sizes4 == Header \in Nat /\ MoofBox \in Nat /\ MdatBox \in Nat /\ Prefix \in Nat
  BY SizeAssumption

LEMMA HeaderIs == HeaderBytes \in Seq(Bytes) /\ Len(HeaderBytes) = Header
<1>1. \A j \in 1 .. Header : <<"header", j>> \in Bytes
  BY Sizes4 DEF Bytes
<1>. QED
  BY <1>1, Sizes4 DEF HeaderBytes

LEMMA FragmentSizes ==
    ASSUME NEW f \in Fragments, NEW i \in Nat
    PROVE  /\ DataSize(f) \in Nat /\ MoofSize(f) \in Nat /\ SizeInFile(f) \in Nat
           /\ MoofSize(f) + DataSize(f) <= SizeInFile(f)
           /\ MoofBytes(f, i) \in Seq(Bytes) /\ Len(MoofBytes(f, i)) = MoofSize(f)
           /\ DataBytes(f, i) \in Seq(Bytes) /\ Len(DataBytes(f, i)) = DataSize(f)
<1>1. DataSize(f) \in Nat
  <2> DEFINE l == Len(f.samples)
             s == [k \in 1 .. l |-> f.samples[k].of.size]
  <2>1. l \in Nat /\ DOMAIN f.samples = 1 .. l
    BY FragmentIs
  <2>2. \A k \in 1 .. l : f.samples[k].of \in Sampled
    BY FragmentIs
  <2>3. \A x \in Sampled : x.size \in Nat
    BY DEF Sampled
  <2>4. \A k \in 1 .. l : s[k] = f.samples[k].of.size /\ s[k] \in Nat
    BY <2>2, <2>3
  <2>5. [k \in DOMAIN f.samples |-> f.samples[k].of.size] = [k \in 1 .. l |-> s[k]]
    BY <2>1, <2>4
  <2>6. DataSize(f) = Upto(s, l)
    BY <2>5 DEF DataSize, Upto
  <2> HIDE DEF s, l
  <2>7. l \in 0 .. l
    BY <2>1
  <2>. QED
    BY <2>1, <2>4, <2>6, <2>7, SumStep, SMTT(30)
<1>2. MoofSize(f) \in Nat /\ SizeInFile(f) \in Nat /\ MoofSize(f) + DataSize(f) <= SizeInFile(f)
  BY <1>1, Sizes4 DEF MoofSize, MdatSize, SizeInFile
<1>3. /\ \A j \in 1 .. MoofSize(f) : <<"moof", i, j>> \in Bytes
      /\ \A j \in 1 .. DataSize(f) : <<"data", i, j>> \in Bytes
  BY <1>1, <1>2 DEF Bytes
<1>4. MoofBytes(f, i) \in Seq(Bytes) /\ Len(MoofBytes(f, i)) = MoofSize(f)
  BY <1>2, <1>3 DEF MoofBytes
<1>5. DataBytes(f, i) \in Seq(Bytes) /\ Len(DataBytes(f, i)) = DataSize(f)
  BY <1>1, <1>3 DEF DataBytes
<1>. QED
  BY <1>1, <1>2, <1>4, <1>5

LEMMA Addresses ==
    ASSUME FragInv, NEW tr \in Tracks
    PROVE  /\ Address(tr, 1) = Header
           /\ \A i \in 1 .. Len(frags[tr]) + 1 : Address(tr, i) \in Nat
           /\ \A i \in 1 .. Len(frags[tr]) :
                 Address(tr, i + 1) = Address(tr, i) + SizeInFile(frags[tr][i])
           /\ \A i \in 1 .. Len(frags[tr]) + 1 : \A k \in i .. Len(frags[tr]) + 1 :
                 Address(tr, i) <= Address(tr, k)
           /\ DashSize(tr) = Address(tr, Len(frags[tr]) + 1)
<1> DEFINE n == Len(frags[tr])
           s == [j \in 1 .. n |-> SizeInFile(frags[tr][j])]
<1>1. n \in Nat /\ \A j \in 1 .. n : frags[tr][j] \in Fragments
  BY TrackIsCut
<1>2. \A j \in 1 .. n : s[j] = SizeInFile(frags[tr][j]) /\ s[j] \in Nat
  BY <1>1, FragmentSizes
<1>3. ASSUME NEW i \in 1 .. n + 1
      PROVE  OffsetInFile(tr, i) = Upto(s, i - 1)
  <2>1. [j \in 1 .. i - 1 |-> SizeInFile(frags[tr][j])] = [j \in 1 .. i - 1 |-> s[j]]
    BY <1>1, <1>2
  <2>. QED
    BY <2>1 DEF OffsetInFile, Upto
<1>4. DashSize(tr) = Address(tr, n + 1)
  BY DEF DashSize, Address
<1> HIDE DEF s, n
<1>5. /\ Upto(s, 0) = 0
      /\ \A i \in 0 .. n : Upto(s, i) \in Nat
      /\ \A i \in 1 .. n : Upto(s, i) = Upto(s, i - 1) + s[i]
      /\ \A i \in 0 .. n : \A k \in i .. n : Upto(s, i) <= Upto(s, k)
  BY <1>1, <1>2, SumStep, SumGrows
<1>6. ASSUME NEW i \in 1 .. n + 1
      PROVE  /\ Address(tr, i) = Header + Upto(s, i - 1)
             /\ Upto(s, i - 1) \in Nat
             /\ Address(tr, i) \in Nat
  <2>1. i - 1 \in 0 .. n
    BY <1>1
  <2>. QED
    BY <1>3, <1>5, <2>1, Sizes4 DEF Address
<1>7. Address(tr, 1) = Header
  BY <1>1, <1>5, <1>6, Sizes4
<1>8. ASSUME NEW i \in 1 .. n
      PROVE  Address(tr, i + 1) = Address(tr, i) + SizeInFile(frags[tr][i])
  <2>1. i + 1 \in 1 .. n + 1 /\ (i + 1) - 1 = i /\ i \in 1 .. n + 1
    BY <1>1
  <2>2. Address(tr, i + 1) = Header + Upto(s, i) /\ Address(tr, i) = Header + Upto(s, i - 1)
    BY <1>6, <2>1
  <2>3. Upto(s, i) = Upto(s, i - 1) + s[i] /\ s[i] = SizeInFile(frags[tr][i])
    BY <1>2, <1>5
  <2>. QED
    BY <1>2, <1>6, <2>1, <2>2, <2>3, Sizes4
<1>9. ASSUME NEW i \in 1 .. n + 1, NEW k \in i .. n + 1
      PROVE  Address(tr, i) <= Address(tr, k)
  <2>1. i - 1 \in 0 .. n /\ k - 1 \in i - 1 .. n /\ k \in 1 .. n + 1
    BY <1>1
  <2>2. Upto(s, i - 1) <= Upto(s, k - 1)
    BY <1>5, <2>1
  <2>. QED
    BY <1>6, <2>1, <2>2, Sizes4
<1>. QED
  BY <1>4, <1>6, <1>7, <1>8, <1>9 DEF n

-----------------------------------------------------------------------------
(* Answers                                                                 *)

Ranged(a, b) == [start |-> a, end |-> b]
PartOf(tr, i, a, b) ==
    Cat(Piece(MoofBytes(frags[tr][i], i), Address(tr, i), a, b),
        Piece(DataBytes(frags[tr][i], i), Address(tr, i) + MoofSize(frags[tr][i]), a, b))
PartsOf(tr, a, b) == [i \in DOMAIN frags[tr] |-> PartOf(tr, i, a, b)]

LEMMA BodyIs ==
    ASSUME NEW tr, NEW a, NEW b
    PROVE  Body(tr, Ranged(a, b)) =
              Cat(Piece(HeaderBytes, 0, a, b), FlattenSeq(PartsOf(tr, a, b)))
  BY DEF Body, Ranged, Cat, Piece, PartOf, PartsOf, Address

LEMMA PartIsCut ==
    ASSUME FragInv, NEW tr \in Tracks, NEW i \in 1 .. Len(frags[tr]),
           NEW a \in Nat, NEW b \in Nat, a <= b
    PROVE  CutAt(a, Bytes, Address(tr, i), Address(tr, i + 1),
                 PartOf(tr, i, 0, a), PartOf(tr, i, a, b), PartOf(tr, i, 0, b))
<1> DEFINE f == frags[tr][i]
           at == Address(tr, i)
           l == MoofSize(f)
           k == DataSize(f)
           s == MoofBytes(f, i)
           t == DataBytes(f, i)
           to == at + l
           end == to + k
           m(x, y) == Piece(s, at, x, y)
           d(x, y) == Piece(t, to, x, y)
<1>1. f \in Fragments /\ i \in Nat
  BY TrackIsCut
<1>2. /\ l \in Nat /\ k \in Nat /\ SizeInFile(f) \in Nat /\ l + k <= SizeInFile(f)
      /\ s \in Seq(Bytes) /\ Len(s) = l /\ t \in Seq(Bytes) /\ Len(t) = k
  <2> HIDE DEF f
  <2>. QED
    BY <1>1, FragmentSizes
<1>3. at \in Nat /\ Address(tr, i + 1) = at + SizeInFile(f)
  <2>1. i \in 1 .. Len(frags[tr]) + 1
    BY TrackIsCut
  <2>. QED
    BY <2>1, Addresses
<1>4. \A x, y : PartOf(tr, i, x, y) = Cat(m(x, y), d(x, y))
  BY DEF PartOf
<1>5. /\ to \in Nat /\ end \in Nat /\ Address(tr, i + 1) \in Nat
      /\ at <= to /\ to <= end /\ end <= Address(tr, i + 1)
  <2> HIDE DEF f, at, l, k
  <2>. QED
    BY <1>2, <1>3
<1> HIDE DEF f, at, l, k, s, t
<1>6. CutAt(a, Bytes, at, to, m(0, a), m(a, b), m(0, b))
  <2>1. CutAt(a, Bytes, at, at + Len(s), m(0, a), m(a, b), m(0, b))
    BY <1>2, <1>3, PieceIsCut
  <2>. QED
    BY <1>2, <2>1 DEF to
<1>7. CutAt(a, Bytes, to, end, d(0, a), d(a, b), d(0, b))
  <2> HIDE DEF to
  <2>1. CutAt(a, Bytes, to, to + Len(t), d(0, a), d(a, b), d(0, b))
    BY <1>2, <1>5, PieceIsCut
  <2>. QED
    BY <1>2, <2>1 DEF end
<1> HIDE DEF to, end, m, d
<1>8. CutAt(a, Bytes, at, end, Cat(m(0, a), d(0, a)), Cat(m(a, b), d(a, b)),
            Cat(m(0, b), d(0, b)))
  BY <1>3, <1>5, <1>6, <1>7, CutsJoin
<1>9. CutAt(a, Bytes, at, end, PartOf(tr, i, 0, a), PartOf(tr, i, a, b), PartOf(tr, i, 0, b))
  BY <1>4, <1>8, Zenon
<1>10. CutAt(a, Bytes, at, Address(tr, i + 1),
             PartOf(tr, i, 0, a), PartOf(tr, i, a, b), PartOf(tr, i, 0, b))
  BY <1>5, <1>9, CutWidens
<1>. QED
  BY <1>10 DEF at

LEMMA BodyIsCut ==
    ASSUME FragInv, NEW tr \in Tracks, Len(frags[tr]) # 0,
           NEW a \in Nat, NEW b \in Nat, a <= b
    PROVE  CutAt(a, Bytes, 0, DashSize(tr), Body(tr, Ranged(0, a)), Body(tr, Ranged(a, b)),
                 Body(tr, Ranged(0, b)))
<1> DEFINE n == Len(frags[tr])
           h(x, y) == Piece(HeaderBytes, 0, x, y)
           c(i, x, y) == PartOf(tr, i, x, y)
           to(i) == Address(tr, i + 1)
<1>1. n \in Nat \ {0} /\ DOMAIN frags[tr] = 1 .. n
  BY TrackIsCut
<1>2. ASSUME NEW x, NEW y
      PROVE  \E g : /\ g[1] = c(1, x, y)
                    /\ \A i \in 1 .. n : i # 1 => g[i] = Cat(g[i - 1], c(i, x, y))
                    /\ Body(tr, Ranged(x, y)) = Cat(h(x, y), g[n])
  <2> DEFINE q == PartsOf(tr, x, y)
  <2>1. Len(q) = n /\ \A i \in 1 .. n : q[i] = c(i, x, y)
    BY <1>1 DEF PartsOf
  <2>2. 1 \in 1 .. n
    BY <1>1
  <2> HIDE DEF q, n, c
  <2>3. PICK g : /\ g[1] = q[1]
                 /\ \A i \in 1 .. n : i # 1 => g[i] = Cat(g[i - 1], q[i])
                 /\ FlattenSeq(q) = g[n]
    BY <1>1, <2>1, FlattenIs
  <2>4. Body(tr, Ranged(x, y)) = Cat(h(x, y), FlattenSeq(q))
    BY BodyIs DEF q
  <2>. QED
    BY <2>1, <2>2, <2>3, <2>4
<1>3. PICK ga : /\ ga[1] = c(1, 0, a)
                /\ \A i \in 1 .. n : i # 1 => ga[i] = Cat(ga[i - 1], c(i, 0, a))
                /\ Body(tr, Ranged(0, a)) = Cat(h(0, a), ga[n])
  BY <1>2
<1>4. PICK gb : /\ gb[1] = c(1, a, b)
                /\ \A i \in 1 .. n : i # 1 => gb[i] = Cat(gb[i - 1], c(i, a, b))
                /\ Body(tr, Ranged(a, b)) = Cat(h(a, b), gb[n])
  BY <1>2
<1>5. PICK gc : /\ gc[1] = c(1, 0, b)
                /\ \A i \in 1 .. n : i # 1 => gc[i] = Cat(gc[i - 1], c(i, 0, b))
                /\ Body(tr, Ranged(0, b)) = Cat(h(0, b), gc[n])
  BY <1>2
<1>6. /\ Address(tr, 1) = Header /\ DashSize(tr) = to(n) /\ to(0) = Header
      /\ \A i \in 0 .. n : to(i) \in Nat
      /\ \A i \in 0 .. n : \A j \in i .. n : to(i) <= to(j)
  <2>1. 0 + 1 = 1 /\ \A i \in 0 .. n : i + 1 \in 1 .. n + 1
    BY <1>1
  <2>2. \A i \in 0 .. n : \A j \in i .. n : j + 1 \in i + 1 .. n + 1
    BY <1>1
  <2>. QED
    BY <2>1, <2>2, Addresses
<1>7. ASSUME NEW i \in 1 .. n
      PROVE  CutAt(a, Bytes, to(i - 1), to(i), c(i, 0, a), c(i, a, b), c(i, 0, b))
  <2>1. (i - 1) + 1 = i
    BY <1>1
  <2>2. CutAt(a, Bytes, Address(tr, i), Address(tr, i + 1), c(i, 0, a), c(i, a, b), c(i, 0, b))
    BY PartIsCut
  <2>. QED
    BY <2>1, <2>2
<1>8. CutAt(a, Bytes, 0, Header, h(0, a), h(a, b), h(0, b))
  <2>1. 0 + Header = Header
    BY Sizes4
  <2>2. CutAt(a, Bytes, 0, 0 + Len(HeaderBytes), h(0, a), h(a, b), h(0, b))
    BY HeaderIs, PieceIsCut
  <2>. QED
    BY <2>1, <2>2, HeaderIs
<1>9. Header <= to(n)
  BY <1>1, <1>6
<1> HIDE DEF n, c, to, h
(* All parts together, behind the header                                   *)
<1> DEFINE Cut(j) == j + 1 \in 1 .. n =>
              CutAt(a, Bytes, Header, to(j + 1), ga[j + 1], gb[j + 1], gc[j + 1])
           T == {j \in Nat : Cut(j)}
<1>10. 0 \in T
  <2>1. 0 + 1 = 1 /\ 1 \in 1 .. n /\ 1 - 1 = 0
    BY <1>1
  <2>2. CutAt(a, Bytes, to(1 - 1), to(1), c(1, 0, a), c(1, a, b), c(1, 0, b))
    BY <1>7, <2>1
  <2>3. CutAt(a, Bytes, Header, to(1), ga[1], gb[1], gc[1])
    BY <1>3, <1>4, <1>5, <1>6, <2>1, <2>2
  <2>. QED
    BY <2>1, <2>3
<1>11. ASSUME NEW j \in Nat, j \in T
       PROVE  j + 1 \in T
  <2> SUFFICES ASSUME (j + 1) + 1 \in 1 .. n
               PROVE  CutAt(a, Bytes, Header, to((j + 1) + 1),
                            ga[(j + 1) + 1], gb[(j + 1) + 1], gc[(j + 1) + 1])
    OBVIOUS
  <2> DEFINE k == (j + 1) + 1
             m == j + 1
  <2>1. k \in 1 .. n /\ m \in 1 .. n /\ k # 1 /\ k - 1 = m
    BY <1>1
  <2>2. CutAt(a, Bytes, Header, to(m), ga[m], gb[m], gc[m])
    BY <1>11, <2>1
  <2> HIDE DEF k, m
  <2>3. CutAt(a, Bytes, to(m), to(k), c(k, 0, a), c(k, a, b), c(k, 0, b))
    BY <1>7, <2>1
  <2>4. /\ ga[k] = Cat(ga[m], c(k, 0, a))
        /\ gb[k] = Cat(gb[m], c(k, a, b))
        /\ gc[k] = Cat(gc[m], c(k, 0, b))
    BY <1>3, <1>4, <1>5, <2>1
  <2>5. /\ Header \in Nat /\ to(m) \in Nat /\ to(k) \in Nat
        /\ Header <= to(m) /\ to(m) <= to(k)
    <3>1. /\ 0 \in 0 .. n /\ m \in 0 .. n /\ k \in 0 .. n
          /\ m \in 0 .. n /\ k \in m .. n
      BY <1>1, <2>1
    <3>. QED
      BY <1>6, <3>1
  <2>6. CutAt(a, Bytes, Header, to(k), Cat(ga[m], c(k, 0, a)), Cat(gb[m], c(k, a, b)),
              Cat(gc[m], c(k, 0, b)))
    BY <2>2, <2>3, <2>5, CutsJoin
  <2>. QED
    BY <2>4, <2>6 DEF k
<1> HIDE DEF T
<1>12. \A j \in Nat : j \in T
  BY <1>10, <1>11, SetInduction DEF T
<1>13. CutAt(a, Bytes, Header, to(n), ga[n], gb[n], gc[n])
  <2>1. n - 1 \in Nat /\ (n - 1) + 1 = n /\ n \in 1 .. n
    BY <1>1
  <2>2. Cut(n - 1)
    BY <1>12, <2>1 DEF T
  <2>. QED
    BY <2>1, <2>2
<1>14. 0 \in Nat /\ Header \in Nat /\ to(n) \in Nat /\ 0 <= Header
  BY <1>1, <1>6, Sizes4
<1>15. CutAt(a, Bytes, 0, to(n), Cat(h(0, a), ga[n]), Cat(h(a, b), gb[n]), Cat(h(0, b), gc[n]))
  BY <1>8, <1>9, <1>13, <1>14, CutsJoin
<1>. QED
  BY <1>3, <1>4, <1>5, <1>6, <1>15

LEMMA BodyIsFile ==
    ASSUME FragInv, NEW tr \in Tracks
    PROVE  Body(tr, Ranged(0, DashSize(tr))) = File(tr)
<1> DEFINE n == Len(frags[tr])
           size == DashSize(tr)
           Whole(i) == MoofBytes(frags[tr][i], i) \o DataBytes(frags[tr][i], i)
<1>1. n \in Nat /\ DOMAIN frags[tr] = 1 .. n
  BY TrackIsCut
<1>2. /\ Address(tr, 1) = Header /\ size = Address(tr, n + 1) /\ size \in Nat
      /\ Address(tr, 1) <= size
      /\ \A i \in 1 .. n : Address(tr, i + 1) <= size
  <2>1. /\ 1 \in 1 .. n + 1 /\ n + 1 \in 1 .. n + 1
        /\ \A i \in 1 .. n : i + 1 \in 1 .. n + 1 /\ n + 1 \in i + 1 .. n + 1
    BY <1>1
  <2>. QED
    BY <2>1, Addresses
<1>3. ASSUME NEW i \in 1 .. n
      PROVE  PartOf(tr, i, 0, size) = Whole(i)
  <2> DEFINE f == frags[tr][i]
             at == Address(tr, i)
             l == MoofSize(f)
             k == DataSize(f)
             s == MoofBytes(f, i)
             t == DataBytes(f, i)
             to == at + l
  <2>1. f \in Fragments /\ i \in Nat
    BY TrackIsCut
  <2>2. /\ l \in Nat /\ k \in Nat /\ SizeInFile(f) \in Nat /\ l + k <= SizeInFile(f)
        /\ s \in Seq(Bytes) /\ Len(s) = l /\ t \in Seq(Bytes) /\ Len(t) = k
    <3> HIDE DEF f
    <3>. QED
      BY <2>1, FragmentSizes
  <2>3. at \in Nat /\ Address(tr, i + 1) = at + SizeInFile(f)
    <3>1. i \in 1 .. Len(frags[tr]) + 1
      BY TrackIsCut
    <3>. QED
      BY <3>1, Addresses
  <2>4. PartOf(tr, i, 0, size) = Cat(Piece(s, at, 0, size), Piece(t, to, 0, size))
    BY DEF PartOf
  <2>5. Address(tr, i + 1) <= size
    BY <1>2
  <2>6. Whole(i) = Cat(s, t)
    BY DEF Cat
  <2> HIDE DEF f, at, l, k, s, t, size, Whole
  <2>7. to \in Nat /\ at + l <= size /\ to + k <= size
    BY <1>2, <2>2, <2>3, <2>5
  <2> HIDE DEF to
  <2>8. Piece(s, at, 0, size) = s /\ Piece(t, to, 0, size) = t
    BY <1>2, <2>2, <2>3, <2>7, PieceIsWhole
  <2>. QED
    BY <2>4, <2>6, <2>8
<1>4. PartsOf(tr, 0, size) = [i \in DOMAIN frags[tr] |-> Whole(i)]
  BY <1>1, <1>3 DEF PartsOf
<1>5. Piece(HeaderBytes, 0, 0, size) = HeaderBytes
  <2>1. 0 + Header <= size
    BY <1>2, Sizes4
  <2>. QED
    BY <1>2, <2>1, HeaderIs, Sizes4, PieceIsWhole
<1>6. Body(tr, Ranged(0, size)) = Cat(HeaderBytes, FlattenSeq(PartsOf(tr, 0, size)))
  BY <1>5, BodyIs
<1>. QED
  BY <1>4, <1>6 DEF File, Cat

LEMMA PrefixOfCat ==
    ASSUME NEW S, NEW s \in Seq(S), NEW t \in Seq(S)
    PROVE  IsPrefix(s, Cat(s, t))
<1>1. Len(s) \in Nat /\ Len(t) \in Nat /\ Len(s \o t) = Len(s) + Len(t)
  OBVIOUS
<1>2. SubSeq(s \o t, 1, Len(s)) = SubSeq(s, 1, Len(s))
  <2>1. CASE Len(s) = 0
    <3>1. Len(s) < 1
      BY <2>1
    <3>2. SubSeq(s \o t, 1, Len(s)) = <<>> /\ SubSeq(s, 1, Len(s)) = <<>>
      BY <1>1, <3>1, SubSeqEmpty
    <3>. QED
      BY <3>2
  <2>2. CASE Len(s) # 0
    <3>1. 1 \in 1 .. Len(s) /\ Len(s) \in 1 .. Len(s)
      BY <1>1, <2>2
    <3>. QED
      BY <3>1, SubSeqOfConcat1
  <2>. QED
    BY <2>1, <2>2
<1>. QED
  BY <1>1, <1>2 DEF IsPrefix, Cat

-----------------------------------------------------------------------------
(* What a player has                                                       *)

DashInv ==
    /\ asked \in {"video", "audio", "none"}
    /\ last \in [start : Nat, end : Nat]
    /\ last.start <= last.end
    /\ wild \in BOOLEAN
    /\ asked = "none" => last.end = 0 /\ got = <<>>
    /\ asked # "none" =>
          /\ track = "none" /\ asked \in Tracks
          /\ last.end <= DashSize(asked)
          /\ ~wild => got = Body(asked, Ranged(0, last.end))

LEMMA HasFragments ==
    ASSUME FragInv, track = "none", NEW tr \in Tracks
    PROVE  Len(frags[tr]) # 0
<1>1. HasSync(movie.video)
  BY MoviesAssumption DEF FragInv
<1>2. NumFragments \in Nat \ {0}
  <2> DEFINE R == 1 .. NumSamples(movie.video)
  <2>1. movie.video.stss \in Seq(R) /\ movie.video.stss # <<>>
    BY <1>1 DEF HasSync
  <2> HIDE DEF R
  <2>. QED
    BY <2>1 DEF NumFragments
<1>3. Done(tr)
  BY DEF FragInv, Tracks
<1>. QED
  BY <1>2, <1>3 DEF Done

LEMMA BodiesJoin ==
    ASSUME FragInv, track = "none", NEW tr \in Tracks, NEW a \in Nat, NEW b \in Nat, a <= b
    PROVE  LET x == Body(tr, Ranged(0, a))
               y == Body(tr, Ranged(a, b))
           IN /\ x \in Seq(Bytes) /\ y \in Seq(Bytes)
              /\ Body(tr, Ranged(0, b)) = Cat(x, y)
              /\ a = 0 => x = <<>>
<1>1. Len(frags[tr]) # 0
  BY HasFragments
<1>2. CutAt(a, Bytes, 0, DashSize(tr), Body(tr, Ranged(0, a)), Body(tr, Ranged(a, b)),
            Body(tr, Ranged(0, b)))
  BY <1>1, BodyIsCut
<1>. QED
  BY <1>2 DEF CutAt

LEMMA RangeKeeps ==
    ASSUME FragInv, DashInv, NEW tr \in Tracks, NEW end \in last.end + 1 .. DashSize(tr),
           GetRange(tr, end)
    PROVE  DashInv'
<1> DEFINE a == last.end
           x == Body(tr, Ranged(0, a))
           y == Body(tr, Ranged(a, end))
<1>1. /\ track = "none" /\ ~wild /\ asked \in {"none", tr} /\ asked' = tr
      /\ last' = Ranged(a, end)
      /\ wild' = MeetsNoList(tr, last')
      /\ body' = IF wild' THEN <<>> ELSE Body(tr, last')
      /\ got' = got \o body'
      /\ movie' = movie /\ track' = track /\ frags' = frags
  BY DEF GetRange, fragVars, Ranged
<1>2. a \in Nat /\ DashSize(tr) \in Nat
  <2>1. a \in Nat
    BY DEF DashInv
  <2>2. Len(frags[tr]) + 1 \in 1 .. Len(frags[tr]) + 1
    BY TrackIsCut
  <2>. QED
    BY <2>1, <2>2, Addresses
<1>3. end \in Nat /\ a <= end /\ end <= DashSize(tr)
  BY <1>2
<1>4. /\ x \in Seq(Bytes) /\ y \in Seq(Bytes)
      /\ Body(tr, Ranged(0, end)) = Cat(x, y)
      /\ a = 0 => x = <<>>
  BY <1>1, <1>2, <1>3, BodiesJoin
<1>5. got = x
  BY <1>1, <1>4 DEF DashInv
<1>6. Tracks' = Tracks
  BY <1>1 DEF Tracks
<1>7. ASSUME ~wild'
      PROVE  got' = Body(tr, Ranged(0, end))
  <2>1. got' = x \o y
    BY <1>1, <1>5, <1>7
  <2>. QED
    BY <1>4, <2>1 DEF Cat
<1>8. last'.start = a /\ last'.end = end /\ last' \in [start : Nat, end : Nat]
  BY <1>1, <1>2, <1>3 DEF Ranged
<1>9. wild' \in BOOLEAN
  BY <1>1 DEF MeetsNoList
<1>10. asked' = tr /\ tr \in {"video", "audio"} /\ asked' # "none" /\ tr \in Tracks'
  BY <1>1, <1>6 DEF Tracks
<1>11. DashSize(asked)' = DashSize(tr)
  BY <1>1, SMTT(30) DEF DashSize, OffsetInFile
<1>12. Body(asked, Ranged(0, last.end))' = Body(tr, Ranged(0, end))
  BY <1>1, <1>8 DEF Body, OffsetInFile, Ranged
<1>13. (asked \in {"video", "audio", "none"})' /\ (last \in [start : Nat, end : Nat])'
       /\ (last.start <= last.end)' /\ (asked # "none")' /\ (track = "none")'
  BY <1>1, <1>3, <1>8, <1>10
<1>14. (last.end <= DashSize(asked))' /\ (asked \in Tracks)'
  BY <1>3, <1>8, <1>10, <1>11
<1>15. (~wild => got = Body(asked, Ranged(0, last.end)))'
  BY <1>7, <1>12
<1>. QED
  BY <1>9, <1>13, <1>14, <1>15, Zenon DEF DashInv

LEMMA FragKeepsDash ==
    ASSUME FragInv, DashInv, FragNext, UNCHANGED dashVars
    PROVE  DashInv'
<1>1. track # "none"
  <2>1. CASE BeginFragment
    BY <2>1 DEF BeginFragment
  <2>2. CASE AddSample
    <3>1. left > 0
      BY <2>2 DEF AddSample
    <3>. QED
      BY <3>1 DEF FragInv
  <2>3. CASE NextTrack
    BY <2>3 DEF NextTrack
  <2>. QED
    BY <2>1, <2>2, <2>3 DEF FragNext
<1>. QED
  BY <1>1 DEF DashInv, dashVars

(* While a file is fragmentized and then handed out in ranges, a player    *)
(* has what is in front of the end of its last range, and its ranges end   *)
(* where the file does (gss_adaptive_dash_range_async).                    *)
THEOREM DashInductive == Spec => [](FragInv /\ DashInv)
<1>1. Init => DashInv
  <2> SUFFICES ASSUME Init
               PROVE  DashInv
    OBVIOUS
  <2>1. last = [start |-> 0, end |-> 0] /\ asked = "none" /\ got = <<>> /\ wild = FALSE
    BY DEF Init, DashInit
  <2>2. last \in [start : Nat, end : Nat] /\ last.start = 0 /\ last.end = 0
    BY <2>1
  <2>3. 0 <= 0
    OBVIOUS
  <2>. QED
    BY <2>1, <2>2, <2>3, Zenon DEF DashInv
<1>2. FragInv /\ DashInv /\ [Next]_vars => DashInv'
  <2> SUFFICES ASSUME FragInv, DashInv, [Next]_vars
               PROVE  DashInv'
    OBVIOUS
  <2>1. CASE FragNext /\ UNCHANGED dashVars
    BY <2>1, FragKeepsDash
  <2>2. ASSUME NEW tr \in Tracks, NEW end \in last.end + 1 .. DashSize(tr), GetRange(tr, end)
        PROVE  DashInv'
    BY <2>2, RangeKeeps
  <2>3. CASE UNCHANGED vars
    <3>1. /\ movie' = movie /\ track' = track /\ frags' = frags /\ asked' = asked
          /\ last' = last /\ got' = got /\ wild' = wild
      BY <2>3 DEF vars, fragVars, dashVars
    <3>2. \A tr, r : Body(tr, r)' = Body(tr, r)
      BY <3>1 DEF Body, OffsetInFile
    <3>3. Tracks' = Tracks /\ \A tr : DashSize(tr)' = DashSize(tr)
      BY <3>1 DEF Tracks, DashSize, OffsetInFile
    <3>. QED
      BY <3>1, <3>2, <3>3 DEF DashInv
  <2>. QED
    BY <2>1, <2>2, <2>3 DEF Next
<1>. QED
  BY <1>1, <1>2, Inductive, PTL DEF Spec

(* The fragments of a movie are its samples, each once, in order, with its *)
(* own size, duration, chunk and offset, cut at the sync samples, and no   *)
(* timestamp drifts (gss_isom_parser_fragmentize), whatever the tables.    *)
THEOREM FragmentsCorrect == Spec => []FragmentsAreSound
<1>1. FragInv /\ DashInv => FragmentsAreSound
  <2> SUFFICES ASSUME FragInv, DashInv
               PROVE  FragmentsAreSound
    OBVIOUS
  <2>1. SamplesAreRight /\ TimesDoNotDrift
    BY SamplesFollow, SyncsFollow, TimesFollow DEF SamplesAreRight
  <2>2. /\ movie \in Movies /\ track \in {"video", "audio", "none"}
        /\ iter \in [sample : Nat, stts : Nat, inStts : Nat, stsc : Nat,
                     chunk : Nat, inChunk : Nat, offset : Nat]
        /\ {ticks, time, left} \subseteq Nat
        /\ DOMAIN frags = {"video", "audio"}
    BY DEF FragInv, Places, BothTracks
  <2>3. /\ asked \in {"video", "audio", "none"} /\ last \in [start : Nat, end : Nat]
        /\ last.start <= last.end /\ wild \in BOOLEAN
    BY DEF DashInv
  <2>4. TypeOK
    BY <2>2, <2>3 DEF TypeOK
  <2>. QED
    BY <2>1, <2>4 DEF FragmentsAreSound
<1>. QED
  BY <1>1, DashInductive, PTL

(* Adjacent ranges of a track put together are the bytes of its file in    *)
(* order, each once, and all of them when dash_size bytes have been asked  *)
(* for (gss_adaptive_dash_range_async, append_clipped), for all movies,    *)
(* sizes and ways to cut.                                                  *)
THEOREM RangesCorrect == Spec => []RangesFitTogether
<1>1. FragInv /\ DashInv => RangesFitTogether
  <2> SUFFICES ASSUME FragInv, DashInv, asked # "none", ~wild
               PROVE  /\ IsPrefix(got, File(asked))
                      /\ last.end = DashSize(asked) => got = File(asked)
    BY DEF RangesFitTogether
  <2> DEFINE a == last.end
             b == DashSize(asked)
  <2>1. /\ track = "none" /\ asked \in Tracks /\ a \in Nat /\ a <= b
        /\ got = Body(asked, Ranged(0, a))
    BY DEF DashInv
  <2>2. b \in Nat
    <3>1. Len(frags[asked]) + 1 \in 1 .. Len(frags[asked]) + 1
      BY <2>1, TrackIsCut
    <3>. QED
      BY <2>1, <3>1, Addresses
  <2>3. Body(asked, Ranged(0, b)) = File(asked)
    BY <2>1, BodyIsFile
  <2>4. /\ Body(asked, Ranged(0, a)) \in Seq(Bytes) /\ Body(asked, Ranged(a, b)) \in Seq(Bytes)
        /\ Body(asked, Ranged(0, b)) = Cat(Body(asked, Ranged(0, a)), Body(asked, Ranged(a, b)))
    <3> HIDE DEF a, b
    <3>. QED
      BY <2>1, <2>2, BodiesJoin
  <2>5. IsPrefix(got, File(asked))
    BY <2>1, <2>3, <2>4, PrefixOfCat
  <2>. QED
    BY <2>1, <2>3, <2>5
<1>. QED
  BY <1>1, DashInductive, PTL

=============================================================================
