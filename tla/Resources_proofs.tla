-------------------------- MODULE Resources_proofs --------------------------
(***************************************************************************)
(* Proofs about the two parts of a program: about Resources, for every     *)
(* finite set of streams and every delay and number of one-time URLs, and, *)
(* at the end, about PushProgram, for any set of sources, any restart      *)
(* delay and any number of streams.                                        *)
(*                                                                         *)
(* The argument of the first: whatever is at a URL is known to the stream  *)
(* it belongs to (Owned), and indices of streams only get smaller          *)
(* (Behind), so that a stream that is entered again never takes the URL    *)
(* from one that was entered before it.                                    *)
(***************************************************************************)
EXTENDS Resources, PushProgram, FiniteSetTheorems, SequenceTheorems, WellFoundedInduction, TLAPS

-----------------------------------------------------------------------------
(* The parts of the invariant                                              *)

UrlTables == [at : [Indices -> Nat], entry : [Streams -> Nat],
              index : [Streams -> Indices], stream : Seq(Streams), bad : BOOLEAN]

(* Entries are numbered as they are made.                                  *)
EntriesAreMade(u) ==
    /\ \A i \in Indices : u.at[i] <= Len(u.stream)
    /\ \A s \in Streams : u.entry[s] <= Len(u.stream)

(* The program lists no stream twice, none that has not been made, and     *)
(* leaves indices for those.                                               *)
ListIsFit ==
    /\ streams \in Seq(Streams)
    /\ fresh \subseteq Streams
    /\ \A j, k \in 1 .. Len(streams) : streams[j] = streams[k] => j = k
    /\ \A j \in 1 .. Len(streams) : streams[j] \notin fresh
    /\ Len(streams) + Cardinality(fresh) <= Count

(* A stream that has not been made has no entry.                           *)
FreshHasNone(u) == \A s \in fresh : u.entry[s] = 0

(* What is at a URL is the entry of a listed stream, which knows it.       *)
Owned(u, q) ==
    \A i \in Indices : u.at[i] # 0 =>
        \E j \in 1 .. Len(q) :
            /\ u.stream[u.at[i]] = q[j]
            /\ u.entry[q[j]] = u.at[i]
            /\ u.index[q[j]] = i

(* A stream only moves to the front of the list, so that the URL it has    *)
(* was given out at its place or behind it.                                *)
Behind(u, q) ==
    \A j \in 1 .. Len(q) : u.entry[q[j]] # 0 => u.index[q[j]] >= j - 1

(* The first n streams have the URLs of their places.                      *)
Served(u, q, n) ==
    \A j \in 1 .. n :
        /\ u.index[q[j]] = j - 1
        /\ u.entry[q[j]] # 0
        /\ u.at[j - 1] = u.entry[q[j]]
        /\ u.stream[u.entry[q[j]]] = q[j]

UrlsInv ==
    /\ urls \in UrlTables
    /\ EntriesAreMade(urls)
    /\ ListIsFit
    /\ FreshHasNone(urls)
    /\ Owned(urls, streams)
    /\ Behind(urls, streams)
    /\ ~moved => Served(urls, streams, Len(streams))

(* One-time URLs have numbers of their own, and timers.                    *)
OneTimeInv ==
    /\ ids \in 0 .. MaxOneTimes
    /\ onetime \subseteq [id : 1 .. ids, under : 1 .. Len(urls.stream)]
    /\ timers \subseteq [id : 1 .. ids, left : 0 .. Expiry]
    /\ \A o, p \in onetime : o.id = p.id => o = p
    /\ TimersHaveUrls

IInv ==
    /\ UrlsInv
    /\ OneTimeInv
    /\ started \in BOOLEAN
    /\ moved \in BOOLEAN
    /\ wild \in BOOLEAN

-----------------------------------------------------------------------------
(* Induction over numbers, for sets                                        *)

LEMMA Least ==
    ASSUME NEW T \in SUBSET Nat, T # {}
    PROVE  \E x \in T : \A y \in T : x <= y
<1>1. IsWellFoundedOn(OpToRel(<, Nat), Nat)
  BY NatLessThanWellFounded
<1>2. PICK x \in T : \A y \in T : <<y, x>> \notin OpToRel(<, Nat)
  BY <1>1, WFMin
<1>3. \A y \in Nat : y < x => <<y, x>> \in OpToRel(<, Nat)
  BY DEF OpToRel
<1>4. \A y \in T : ~(y < x)
  BY <1>2, <1>3
<1>. QED
  BY <1>4

LEMMA SetInduction ==
    ASSUME NEW T, 0 \in T, \A n \in Nat : n \in T => n + 1 \in T
    PROVE  Nat \subseteq T
<1> SUFFICES ASSUME NEW m \in Nat, m \notin T
             PROVE  FALSE
  OBVIOUS
<1>1. PICK x \in Nat \ T : \A y \in Nat \ T : x <= y
  BY Least
<1>2. x # 0 /\ x - 1 \in Nat
  BY <1>1
<1>3. x - 1 \in T
  BY <1>1, <1>2
<1>. QED
  BY <1>1, <1>2, <1>3

-----------------------------------------------------------------------------
(* What the operators on tables do                                         *)

LEMMA RemoveResourcesIs ==
    ASSUME NEW u \in UrlTables, NEW s \in Streams
    PROVE  /\ RemoveResources(u, s) \in UrlTables
           /\ RemoveResources(u, s).entry = u.entry
           /\ RemoveResources(u, s).index = u.index
           /\ RemoveResources(u, s).stream = u.stream
           /\ \A i \in Indices : RemoveResources(u, s).at[i] =
                 IF u.entry[s] # 0 /\ i = u.index[s] THEN 0 ELSE u.at[i]
<1>1. CASE u.entry[s] = 0
  BY <1>1 DEF RemoveResources
<1>2. CASE u.entry[s] # 0
  <2> DEFINE b == u.bad \/ IsFreed(u, u.entry[s])
             a == [u.at EXCEPT ![u.index[s]] = 0]
  <2>1. RemoveResources(u, s) = [u EXCEPT !.at = a, !.bad = b]
    BY <1>2 DEF RemoveResources, UrlTables
  <2>2. b \in BOOLEAN
    BY DEF UrlTables, IsFreed
  <2>3. a \in [Indices -> Nat]
    BY DEF UrlTables
  <2>4. \A i \in Indices : a[i] = IF i = u.index[s] THEN 0 ELSE u.at[i]
    BY DEF UrlTables
  <2> HIDE DEF a, b
  <2>. QED
    BY <1>2, <2>1, <2>2, <2>3, <2>4 DEF UrlTables
<1>. QED
  BY <1>1, <1>2

LEMMA AddResourcesIs ==
    ASSUME NEW u \in UrlTables, NEW s \in Streams, NEW i \in Indices
    PROVE  LET a == AddResources(u, s, i)
               n == Len(u.stream) + 1
           IN  /\ a \in UrlTables
               /\ a.stream = Append(u.stream, s)
               /\ \A t \in Streams : a.entry[t] = IF t = s THEN n ELSE u.entry[t]
               /\ \A t \in Streams : a.index[t] = IF t = s THEN i ELSE u.index[t]
               /\ \A j \in Indices : a.at[j] =
                     IF j = i THEN n
                     ELSE IF u.entry[s] # 0 /\ j = u.index[s] THEN 0 ELSE u.at[j]
<1> DEFINE r == RemoveResources(u, s)
           n == Len(u.stream) + 1
           at == [r.at EXCEPT ![i] = n]
           entry == [r.entry EXCEPT ![s] = n]
           index == [r.index EXCEPT ![s] = i]
           owners == Append(r.stream, s)
<1>1. r \in UrlTables
  BY RemoveResourcesIs
<1>2. AddResources(u, s, i) =
          [r EXCEPT !.at = at, !.entry = entry, !.index = index, !.stream = owners]
  BY <1>1 DEF AddResources, UrlTables
<1>3. n \in Nat
  BY DEF UrlTables
<1> HIDE DEF r, n
<1>4. /\ at \in [Indices -> Nat]
      /\ entry \in [Streams -> Nat]
      /\ index \in [Streams -> Indices]
      /\ owners \in Seq(Streams)
  BY <1>1, <1>3 DEF UrlTables
<1>5. /\ \A j \in Indices : at[j] = IF j = i THEN n ELSE r.at[j]
      /\ \A t \in Streams : entry[t] = IF t = s THEN n ELSE r.entry[t]
      /\ \A t \in Streams : index[t] = IF t = s THEN i ELSE r.index[t]
  BY <1>1 DEF UrlTables
<1>6. /\ r.entry = u.entry
      /\ r.index = u.index
      /\ r.stream = u.stream
      /\ \A j \in Indices : r.at[j] =
            IF u.entry[s] # 0 /\ j = u.index[s] THEN 0 ELSE u.at[j]
  BY RemoveResourcesIs DEF r
<1>7. owners = Append(u.stream, s)
  BY <1>6
<1> HIDE DEF at, entry, index, owners
<1>8. /\ AddResources(u, s, i) \in UrlTables
      /\ AddResources(u, s, i).stream = owners
      /\ AddResources(u, s, i).entry = entry
      /\ AddResources(u, s, i).index = index
      /\ AddResources(u, s, i).at = at
  BY <1>1, <1>2, <1>4 DEF UrlTables
<1>. QED
  BY <1>5, <1>6, <1>7, <1>8 DEF n

-----------------------------------------------------------------------------
(* Entering a stream                                                       *)

(* The stream at a place of the list is entered there: nothing that other  *)
(* streams have at their URLs becomes wrong.                               *)
LEMMA AddKeeps ==
    ASSUME NEW u \in UrlTables, NEW q \in Seq(Streams), NEW k \in 1 .. Len(q),
           k - 1 \in Indices, EntriesAreMade(u), Owned(u, q), Behind(u, q),
           \A j, l \in 1 .. Len(q) : q[j] = q[l] => j = l
    PROVE  LET a == AddResources(u, q[k], k - 1)
           IN  /\ a \in UrlTables
               /\ EntriesAreMade(a)
               /\ Owned(a, q)
               /\ Behind(a, q)
<1> DEFINE s == q[k]
           i == k - 1
           n == Len(u.stream) + 1
           a == AddResources(u, s, i)
<1>1. s \in Streams /\ i \in Indices /\ n \in Nat
  BY DEF UrlTables
<1> HIDE DEF s, i
<1>2. /\ a.stream = Append(u.stream, s)
      /\ \A t \in Streams : a.entry[t] = IF t = s THEN n ELSE u.entry[t]
      /\ \A t \in Streams : a.index[t] = IF t = s THEN i ELSE u.index[t]
      /\ \A j \in Indices : a.at[j] =
            IF j = i THEN n
            ELSE IF u.entry[s] # 0 /\ j = u.index[s] THEN 0 ELSE u.at[j]
  BY <1>1, AddResourcesIs
<1>8. a \in UrlTables
  BY <1>1, AddResourcesIs
<1>3. /\ Len(a.stream) = n
      /\ a.stream[n] = s
      /\ \A e \in 1 .. n - 1 : a.stream[e] = u.stream[e]
  BY <1>1, <1>2 DEF UrlTables
<1>4. /\ \A j \in Indices : u.at[j] \in Nat /\ u.at[j] < n
      /\ \A t \in Streams : u.entry[t] \in Nat /\ u.entry[t] < n
  BY DEF UrlTables, EntriesAreMade
<1> HIDE DEF a, n
<1>5. EntriesAreMade(a)
  <2>1. \A j \in Indices : a.at[j] <= n
    BY <1>1, <1>2, <1>4
  <2>2. \A t \in Streams : a.entry[t] <= n
    BY <1>1, <1>2, <1>4
  <2>. QED
    BY <1>3, <2>1, <2>2 DEF EntriesAreMade
<1>6. Behind(a, q)
  <2> SUFFICES ASSUME NEW j \in 1 .. Len(q), a.entry[q[j]] # 0
               PROVE  a.index[q[j]] >= j - 1
    BY DEF Behind
  <2>1. CASE q[j] = s
    BY <1>1, <1>2, <2>1 DEF s, i
  <2>2. CASE q[j] # s
    BY <1>1, <1>2, <2>2 DEF Behind
  <2>. QED
    BY <2>1, <2>2
<1>7. Owned(a, q)
  <2> SUFFICES ASSUME NEW j \in Indices, a.at[j] # 0
               PROVE  \E l \in 1 .. Len(q) :
                         /\ a.stream[a.at[j]] = q[l]
                         /\ a.entry[q[l]] = a.at[j]
                         /\ a.index[q[l]] = j
    BY DEF Owned
  <2>1. CASE j = i
    BY <1>1, <1>2, <1>3, <2>1 DEF s, i
  <2>2. CASE j # i
    <3>1. a.at[j] = u.at[j] /\ u.at[j] # 0 /\ ~(u.entry[s] # 0 /\ j = u.index[s])
      BY <1>2, <2>2
    <3>2. PICK l \in 1 .. Len(q) :
              /\ u.stream[u.at[j]] = q[l]
              /\ u.entry[q[l]] = u.at[j]
              /\ u.index[q[l]] = j
      BY <3>1 DEF Owned
    <3>3. q[l] # s /\ q[l] \in Streams
      BY <3>1, <3>2
    <3>4. a.stream[u.at[j]] = u.stream[u.at[j]]
      BY <1>1, <1>3, <1>4, <3>1
    <3>. QED
      BY <1>2, <3>1, <3>2, <3>3, <3>4
  <2>. QED
    BY <2>1, <2>2
<1>. QED
  BY <1>5, <1>6, <1>7, <1>8 DEF s, i, a

(* The streams before it go on having the URLs of their places.            *)
LEMMA AddServes ==
    ASSUME NEW u \in UrlTables, NEW q \in Seq(Streams), NEW k \in 1 .. Len(q),
           k - 1 \in Indices, EntriesAreMade(u), Behind(u, q), Served(u, q, k - 1),
           \A j, l \in 1 .. Len(q) : q[j] = q[l] => j = l,
           Len(q) <= Count
    PROVE  Served(AddResources(u, q[k], k - 1), q, k)
<1> DEFINE s == q[k]
           i == k - 1
           n == Len(u.stream) + 1
           a == AddResources(u, s, i)
<1>1. s \in Streams /\ i \in Indices /\ n \in Nat /\ n # 0
  BY DEF UrlTables
<1> HIDE DEF s, i
<1>2. /\ a.stream = Append(u.stream, s)
      /\ \A t \in Streams : a.entry[t] = IF t = s THEN n ELSE u.entry[t]
      /\ \A t \in Streams : a.index[t] = IF t = s THEN i ELSE u.index[t]
      /\ \A j \in Indices : a.at[j] =
            IF j = i THEN n
            ELSE IF u.entry[s] # 0 /\ j = u.index[s] THEN 0 ELSE u.at[j]
  BY <1>1, AddResourcesIs
<1>3. /\ a.stream[n] = s
      /\ \A e \in 1 .. n - 1 : a.stream[e] = u.stream[e]
  BY <1>1, <1>2 DEF UrlTables
<1>4. \A t \in Streams : u.entry[t] \in Nat /\ u.entry[t] < n /\ u.index[t] \in Int
  BY DEF UrlTables, EntriesAreMade, Indices
<1>5. u.entry[s] # 0 => u.index[s] >= i
  BY DEF Behind, s, i
<1> HIDE DEF a, n
<1> SUFFICES ASSUME NEW j \in 1 .. k
             PROVE  /\ a.index[q[j]] = j - 1
                    /\ a.entry[q[j]] # 0
                    /\ a.at[j - 1] = a.entry[q[j]]
                    /\ a.stream[a.entry[q[j]]] = q[j]
  BY DEF Served, s, i, a
<1>6. q[j] \in Streams /\ j \in 1 .. Len(q)
  OBVIOUS
<1>7. CASE j = k
  <2>1. q[j] = s /\ j - 1 = i
    BY <1>7 DEF s, i
  <2>. QED
    BY <1>1, <1>2, <1>3, <2>1
<1>8. CASE j # k
  <2>1. j \in 1 .. k - 1 /\ q[j] # s /\ j - 1 < i
    BY <1>6, <1>8 DEF s, i
  <2>2. /\ u.index[q[j]] = j - 1
        /\ u.entry[q[j]] # 0
        /\ u.at[j - 1] = u.entry[q[j]]
        /\ u.stream[u.entry[q[j]]] = q[j]
    BY <2>1 DEF Served
  <2>3. j - 1 \in Indices
    <3>1. u.index[q[j]] \in Indices
      BY <1>6 DEF UrlTables
    <3>. QED
      BY <2>2, <3>1
  <2>4. ~(u.entry[s] # 0 /\ j - 1 = u.index[s])
    BY <1>1, <1>4, <1>5, <2>1 DEF Indices
  <2>5. a.at[j - 1] = u.at[j - 1]
    BY <1>2, <2>1, <2>3, <2>4
  <2>6. a.entry[q[j]] = u.entry[q[j]] /\ a.index[q[j]] = u.index[q[j]]
    BY <1>2, <1>6, <2>1
  <2>7. a.stream[u.entry[q[j]]] = u.stream[u.entry[q[j]]]
    <3>1. u.entry[q[j]] \in 1 .. n - 1
      <4>1. u.entry[q[j]] \in Nat /\ u.entry[q[j]] < n
        BY <1>4, <1>6
      <4>. QED
        BY <1>1, <2>2, <4>1
    <3>. QED
      BY <1>3, <3>1
  <2>. QED
    BY <2>2, <2>5, <2>6, <2>7
<1>. QED
  BY <1>7, <1>8

-----------------------------------------------------------------------------
(* Entering a list of streams                                              *)

(* Tables after each stream of the list                                    *)
IsAdding(f, u, q, n) ==
    f = [k \in 0 .. n |-> IF k = 0 THEN u ELSE AddResources(f[k - 1], q[k], k - 1)]

LEMMA AddingExists ==
    ASSUME NEW u, NEW q, NEW n \in Nat
    PROVE  \E f : IsAdding(f, u, q, n)
<1> DEFINE T == {m \in Nat : \E f : IsAdding(f, u, q, m)}
<1>1. 0 \in T
  <2> DEFINE f == [k \in 0 .. 0 |-> u]
  <2>1. IsAdding(f, u, q, 0)
    <3>1. \A k \in 0 .. 0 : k = 0
      OBVIOUS
    <3>. QED
      BY <3>1 DEF IsAdding
  <2>. QED
    BY <2>1
<1>2. ASSUME NEW m \in Nat, m \in T
      PROVE  m + 1 \in T
  <2>1. PICK f : IsAdding(f, u, q, m)
    BY <1>2
  <2> DEFINE g == [k \in 0 .. m + 1 |->
                      IF k \in 0 .. m THEN f[k] ELSE AddResources(f[m], q[m + 1], m)]
             h == [k \in 0 .. m + 1 |->
                      IF k = 0 THEN u ELSE AddResources(g[k - 1], q[k], k - 1)]
  <2>2. \A k \in 0 .. m : f[k] = IF k = 0 THEN u ELSE AddResources(f[k - 1], q[k], k - 1)
    BY <2>1 DEF IsAdding
  <2>3. ASSUME NEW k \in 0 .. m + 1
        PROVE  g[k] = h[k]
    <3>1. CASE k = 0
      BY <2>2, <3>1
    <3>2. CASE k \in 1 .. m
      <4>1. k \in 0 .. m /\ k # 0 /\ k - 1 \in 0 .. m /\ k - 1 \in 0 .. m + 1
        BY <3>2
      <4>2. g[k] = f[k] /\ g[k - 1] = f[k - 1]
        BY <4>1
      <4>3. f[k] = AddResources(f[k - 1], q[k], k - 1)
        BY <2>2, <4>1
      <4>. QED
        BY <4>1, <4>2, <4>3
    <3>3. CASE k = m + 1
      <4>1. k \notin 0 .. m /\ k # 0 /\ k - 1 = m /\ m \in 0 .. m /\ m \in 0 .. m + 1
        BY <3>3
      <4>2. g[k] = AddResources(f[m], q[m + 1], m)
        BY <4>1
      <4>3. g[m] = f[m]
        BY <4>1
      <4>4. h[k] = AddResources(g[m], q[m + 1], m)
        BY <3>3, <4>1
      <4>. QED
        BY <4>2, <4>3, <4>4
    <3>. QED
      BY <3>1, <3>2, <3>3
  <2>4. g = h
    BY <2>3
  <2> HIDE DEF g
  <2>5. IsAdding(g, u, q, m + 1)
    BY <2>4 DEF IsAdding
  <2>. QED
    BY <2>5
<1> HIDE DEF T
<1>3. Nat \subseteq T
  BY <1>1, <1>2, SetInduction
<1>. QED
  BY <1>3 DEF T

LEMMA AddAllIs ==
    ASSUME NEW u, NEW q \in Seq(Streams)
    PROVE  \E f : /\ f[0] = u
                  /\ \A k \in 1 .. Len(q) : f[k] = AddResources(f[k - 1], q[k], k - 1)
                  /\ AddAllResources(u, q) = f[Len(q)]
<1> DEFINE f == CHOOSE f : IsAdding(f, u, q, Len(q))
<1>1. AddAllResources(u, q) = f[Len(q)]
  BY DEF AddAllResources, IsAdding
<1>2. IsAdding(f, u, q, Len(q))
  BY AddingExists
<1> HIDE DEF f
<1>3. \A k \in 0 .. Len(q) :
          f[k] = IF k = 0 THEN u ELSE AddResources(f[k - 1], q[k], k - 1)
  BY <1>2 DEF IsAdding
<1>. QED
  BY <1>1, <1>3

(* After it each stream of the list has the URL of its place, wherever the *)
(* streams and the URLs were before.                                       *)
LEMMA AddAllServes ==
    ASSUME NEW u \in UrlTables, NEW q \in Seq(Streams), Len(q) <= Count, Count \in Nat,
           \A j, l \in 1 .. Len(q) : q[j] = q[l] => j = l,
           EntriesAreMade(u), Owned(u, q), Behind(u, q)
    PROVE  LET a == AddAllResources(u, q)
           IN  /\ a \in UrlTables
               /\ EntriesAreMade(a)
               /\ Owned(a, q)
               /\ Behind(a, q)
               /\ Served(a, q, Len(q))
               /\ Len(a.stream) >= Len(u.stream)
               /\ \A s \in Streams : (\A j \in 1 .. Len(q) : q[j] # s) =>
                     a.entry[s] = u.entry[s]
<1> DEFINE Good(a, k) ==
               /\ a \in UrlTables
               /\ EntriesAreMade(a)
               /\ Owned(a, q)
               /\ Behind(a, q)
               /\ Served(a, q, k)
               /\ Len(a.stream) >= Len(u.stream)
               /\ \A s \in Streams : (\A j \in 1 .. Len(q) : q[j] # s) =>
                     a.entry[s] = u.entry[s]
<1>1. PICK f : /\ f[0] = u
               /\ \A k \in 1 .. Len(q) : f[k] = AddResources(f[k - 1], q[k], k - 1)
               /\ AddAllResources(u, q) = f[Len(q)]
  BY AddAllIs
<1> DEFINE T == {k \in Nat : k <= Len(q) => Good(f[k], k)}
<1>2. 0 \in T
  <2>1. Served(u, q, 0) /\ Len(u.stream) >= Len(u.stream)
    BY DEF Served, UrlTables
  <2>2. Good(u, 0)
    BY <2>1
  <2> HIDE DEF Good
  <2>. QED
    BY <1>1, <2>2
<1>3. ASSUME NEW m \in Nat, m \in T
      PROVE  m + 1 \in T
  <2> SUFFICES ASSUME m + 1 <= Len(q)
               PROVE  Good(f[m + 1], m + 1)
    OBVIOUS
  <2> DEFINE k == m + 1
             b == f[m]
             a == AddResources(b, q[k], k - 1)
  <2>1. k \in 1 .. Len(q) /\ k - 1 = m /\ m <= Len(q)
    OBVIOUS
  <2>2. Good(b, m)
    BY <1>3, <2>1
  <2>3. f[k] = a
    BY <1>1, <2>1
  <2>4. k - 1 \in Indices /\ q[k] \in Streams
    BY <2>1 DEF Indices
  <2>. b \in UrlTables
    BY <2>2
  <2> HIDE DEF k, b
  <2>5. /\ a \in UrlTables
        /\ EntriesAreMade(a)
        /\ Owned(a, q)
        /\ Behind(a, q)
    BY <2>1, <2>2, <2>4, AddKeeps
  <2>6. Served(a, q, k)
    BY <2>1, <2>2, <2>4, AddServes
  <2>7. /\ a.stream = Append(b.stream, q[k])
        /\ \A t \in Streams : t # q[k] => a.entry[t] = b.entry[t]
    <3> DEFINE r == q[k]
               i == k - 1
    <3>1. r \in Streams /\ i \in Indices
      BY <2>4
    <3>. HIDE DEF Good, r, i
    <3> DEFINE c == AddResources(b, r, i)
    <3>2. c.stream = Append(b.stream, r)
      BY <3>1, AddResourcesIs
    <3>3. \A t \in Streams : c.entry[t] = IF t = r THEN Len(b.stream) + 1 ELSE b.entry[t]
      BY <3>1, AddResourcesIs
    <3>4. \A t \in Streams : t # r => c.entry[t] = b.entry[t]
      BY <3>3
    <3>. QED
      BY <3>2, <3>4 DEF r, i
  <2>8. Len(a.stream) >= Len(u.stream)
    <3>1. u.stream \in Seq(Streams) /\ b.stream \in Seq(Streams)
      BY DEF UrlTables
    <3>2. Len(b.stream) >= Len(u.stream)
      BY <2>2
    <3>3. Len(a.stream) = Len(b.stream) + 1
      BY <2>4, <2>7, <3>1
    <3>. QED
      BY <3>1, <3>2, <3>3
  <2>9. \A s \in Streams : (\A j \in 1 .. Len(q) : q[j] # s) => a.entry[s] = u.entry[s]
    BY <2>1, <2>2, <2>7
  <2> HIDE DEF a
  <2>10. Good(a, k)
    BY <2>5, <2>6, <2>8, <2>9
  <2>. QED
    BY <2>3, <2>10 DEF k
<1> HIDE DEF T
<1>4. Nat \subseteq T
  BY <1>2, <1>3, SetInduction
<1>5. Len(q) \in T
  BY <1>4
<1>6. Good(f[Len(q)], Len(q))
  BY <1>5 DEF T
<1>. QED
  BY <1>1, <1>6

-----------------------------------------------------------------------------
(* Removing a stream                                                       *)

LEMMA WithoutIs ==
    ASSUME NEW q \in Seq(Streams), NEW m \in 1 .. Len(q),
           \A j, l \in 1 .. Len(q) : q[j] = q[l] => j = l
    PROVE  /\ Without(q, q[m]) \in Seq(Streams)
           /\ Len(Without(q, q[m])) = Len(q) - 1
           /\ \A j \in 1 .. Len(q) - 1 :
                 Without(q, q[m])[j] = IF m <= j THEN q[j + 1] ELSE q[j]
<1> DEFINE w == Without(q, q[m])
<1>1. Len(q) - 1 \in Nat
  OBVIOUS
<1>2. \A j \in 1 .. Len(q) - 1 : (\E k \in 1 .. j : q[k] = q[m]) <=> m <= j
  OBVIOUS
<1>3. w = [j \in 1 .. Len(q) - 1 |-> IF m <= j THEN q[j + 1] ELSE q[j]]
  BY <1>2 DEF Without
<1>4. \A j \in 1 .. Len(q) - 1 : q[j] \in Streams /\ q[j + 1] \in Streams
  OBVIOUS
<1> HIDE DEF w
<1>5. w \in [1 .. Len(q) - 1 -> Streams]
  BY <1>3, <1>4
<1>6. w \in Seq(Streams) /\ Len(w) = Len(q) - 1
  BY <1>1, <1>5
<1>. QED
  BY <1>3, <1>6 DEF w

LEMMA RemoveKeeps ==
    ASSUME NEW u \in UrlTables, NEW q \in Seq(Streams), NEW m \in 1 .. Len(q),
           \A j, l \in 1 .. Len(q) : q[j] = q[l] => j = l,
           EntriesAreMade(u), Owned(u, q), Behind(u, q)
    PROVE  LET r == RemoveResources(u, q[m])
               w == Without(q, q[m])
           IN  /\ EntriesAreMade(r)
               /\ Owned(r, w)
               /\ Behind(r, w)
<1> DEFINE s == q[m]
           r == RemoveResources(u, s)
           w == Without(q, s)
<1>1. s \in Streams
  OBVIOUS
<1>2. /\ r.entry = u.entry
      /\ r.index = u.index
      /\ r.stream = u.stream
      /\ \A i \in Indices : r.at[i] =
            IF u.entry[s] # 0 /\ i = u.index[s] THEN 0 ELSE u.at[i]
  BY <1>1, RemoveResourcesIs
<1>3. /\ w \in Seq(Streams)
      /\ Len(w) = Len(q) - 1
      /\ \A j \in 1 .. Len(q) - 1 : w[j] = IF m <= j THEN q[j + 1] ELSE q[j]
  BY WithoutIs
<1> HIDE DEF r, w
<1>4. EntriesAreMade(r)
  <2>1. Len(u.stream) \in Nat
    BY DEF UrlTables
  <2>. QED
    BY <1>2, <2>1 DEF EntriesAreMade
<1>5. Behind(r, w)
  <2> SUFFICES ASSUME NEW j \in 1 .. Len(w), r.entry[w[j]] # 0
               PROVE  r.index[w[j]] >= j - 1
    BY DEF Behind
  <2>1. j \in 1 .. Len(q) - 1
    BY <1>3
  <2>2. CASE m <= j
    <3>1. w[j] = q[j + 1] /\ j + 1 \in 1 .. Len(q) /\ q[j + 1] \in Streams
      BY <1>3, <2>1, <2>2
    <3>2. u.index[q[j + 1]] >= j + 1 - 1
      BY <1>2, <3>1 DEF Behind
    <3>3. u.index[q[j + 1]] \in Int
      <4>1. u.index[q[j + 1]] \in Indices
        BY <3>1 DEF UrlTables
      <4>. QED
        BY <4>1 DEF Indices
    <3>. QED
      BY <1>2, <3>1, <3>2, <3>3
  <2>3. CASE ~(m <= j)
    BY <1>2, <1>3, <2>1, <2>3 DEF Behind
  <2>. QED
    BY <2>2, <2>3
<1>6. Owned(r, w)
  <2> SUFFICES ASSUME NEW i \in Indices, r.at[i] # 0
               PROVE  \E l \in 1 .. Len(w) :
                         /\ r.stream[r.at[i]] = w[l]
                         /\ r.entry[w[l]] = r.at[i]
                         /\ r.index[w[l]] = i
    BY DEF Owned
  <2>1. r.at[i] = u.at[i] /\ u.at[i] # 0 /\ ~(u.entry[s] # 0 /\ i = u.index[s])
    BY <1>2
  <2>2. PICK j \in 1 .. Len(q) :
            /\ u.stream[u.at[i]] = q[j]
            /\ u.entry[q[j]] = u.at[i]
            /\ u.index[q[j]] = i
    BY <2>1 DEF Owned
  <2>3. j # m
    BY <2>1, <2>2
  <2>4. \E l \in 1 .. Len(w) : w[l] = q[j]
    <3>1. CASE j < m
      BY <1>3, <3>1
    <3>2. CASE j > m
      <4>1. j - 1 \in 1 .. Len(q) - 1 /\ m <= j - 1 /\ j - 1 + 1 = j
        BY <3>2
      <4>. QED
        BY <1>3, <4>1
    <3>. QED
      BY <2>3, <3>1, <3>2
  <2>. QED
    BY <1>2, <2>1, <2>2, <2>4
<1>. QED
  BY <1>4, <1>5, <1>6 DEF r, w

(* When it was the last one, the others go on having the URLs of their     *)
(* places.                                                                 *)
LEMMA RemoveLastServes ==
    ASSUME NEW u \in UrlTables, NEW q \in Seq(Streams), NEW m \in 1 .. Len(q), m = Len(q),
           \A j, l \in 1 .. Len(q) : q[j] = q[l] => j = l,
           Served(u, q, Len(q))
    PROVE  Served(RemoveResources(u, q[m]), Without(q, q[m]), Len(Without(q, q[m])))
<1> DEFINE s == q[m]
           r == RemoveResources(u, s)
           w == Without(q, s)
<1>1. s \in Streams
  OBVIOUS
<1>2. /\ r.entry = u.entry
      /\ r.index = u.index
      /\ r.stream = u.stream
      /\ \A i \in Indices : r.at[i] =
            IF u.entry[s] # 0 /\ i = u.index[s] THEN 0 ELSE u.at[i]
  BY <1>1, RemoveResourcesIs
<1>3. /\ Len(w) = Len(q) - 1
      /\ \A j \in 1 .. Len(q) - 1 : w[j] = IF m <= j THEN q[j + 1] ELSE q[j]
  BY WithoutIs
<1>4. u.index[s] = m - 1
  BY DEF Served
<1> HIDE DEF s, r, w
<1> SUFFICES ASSUME NEW j \in 1 .. Len(w)
             PROVE  /\ r.index[w[j]] = j - 1
                    /\ r.entry[w[j]] # 0
                    /\ r.at[j - 1] = r.entry[w[j]]
                    /\ r.stream[r.entry[w[j]]] = w[j]
  BY DEF Served, s, r, w
<1>5. j \in 1 .. Len(q) - 1 /\ ~(m <= j) /\ j \in 1 .. Len(q) /\ q[j] \in Streams
  BY <1>3
<1>6. w[j] = q[j]
  BY <1>3, <1>5
<1>7. /\ u.index[q[j]] = j - 1
      /\ u.entry[q[j]] # 0
      /\ u.at[j - 1] = u.entry[q[j]]
      /\ u.stream[u.entry[q[j]]] = q[j]
  BY <1>5 DEF Served
<1>8. u.index[q[j]] \in Indices
  BY <1>5 DEF UrlTables
<1>9. j - 1 \in Indices /\ j - 1 # u.index[s]
  BY <1>4, <1>5, <1>7, <1>8
<1>10. r.at[j - 1] = u.at[j - 1]
  BY <1>2, <1>9
<1>. QED
  BY <1>2, <1>6, <1>7, <1>10

-----------------------------------------------------------------------------
(* Steps                                                                   *)

LEMMA CountIsNat == Count \in Nat
BY StreamsAssumption, FS_CardinalityType DEF Count

LEMMA FreshIsFinite ==
    ASSUME fresh \subseteq Streams
    PROVE  IsFiniteSet(fresh) /\ Cardinality(fresh) \in Nat
BY StreamsAssumption, FS_Subset, FS_CardinalityType

LEMMA AddStreamUrls ==
    ASSUME UrlsInv, NEW s \in Streams, AddStream(s)
    PROVE  UrlsInv'
<1> DEFINE q == Append(streams, s)
           k == Len(streams) + 1
           a == AddResources(urls, s, Len(streams))
<1>1. /\ s \in fresh
      /\ fresh' = fresh \ {s}
      /\ streams' = q
      /\ urls' = a
      /\ moved' = moved
  BY DEF AddStream
<1>2. /\ urls \in UrlTables
      /\ EntriesAreMade(urls)
      /\ ListIsFit
      /\ FreshHasNone(urls)
      /\ Owned(urls, streams)
      /\ Behind(urls, streams)
      /\ ~moved => Served(urls, streams, Len(streams))
  BY DEF UrlsInv
<1>3. /\ streams \in Seq(Streams)
      /\ fresh \subseteq Streams
      /\ \A j, l \in 1 .. Len(streams) : streams[j] = streams[l] => j = l
      /\ \A j \in 1 .. Len(streams) : streams[j] \notin fresh
      /\ Len(streams) + Cardinality(fresh) <= Count
  BY <1>2 DEF ListIsFit
<1>4. /\ q \in Seq(Streams)
      /\ Len(q) = k
      /\ k \in 1 .. Len(q)
      /\ k - 1 = Len(streams)
      /\ q[k] = s
      /\ \A j \in 1 .. Len(streams) : q[j] = streams[j]
  BY <1>3
<1>5. /\ Cardinality(fresh) \in Nat
      /\ Cardinality(fresh) # 0
      /\ Cardinality(fresh \ {s}) = Cardinality(fresh) - 1
  BY <1>1, <1>3, FreshIsFinite, FS_RemoveElement, FS_EmptySet
<1>6. Len(streams) \in Nat /\ k - 1 \in Indices /\ Len(q) <= Count
  BY <1>3, <1>4, <1>5, CountIsNat DEF Indices
<1> HIDE DEF q, k, a
<1>7. \A j, l \in 1 .. Len(q) : q[j] = q[l] => j = l
  BY <1>1, <1>3, <1>4, <1>6
<1>8. ListIsFit'
  <2>1. \A j \in 1 .. Len(q) : q[j] \notin fresh \ {s}
    BY <1>3, <1>4, <1>6
  <2>2. Len(q) + Cardinality(fresh \ {s}) <= Count
    BY <1>3, <1>4, <1>5, <1>6, CountIsNat
  <2>3. fresh \ {s} \subseteq Streams
    BY <1>3
  <2>4. Count' = Count
    BY DEF Count
  <2>. QED
    BY <1>1, <1>4, <1>7, <2>1, <2>2, <2>3, <2>4 DEF ListIsFit
<1>9. urls.entry[s] = 0
  BY <1>1, <1>2 DEF FreshHasNone
<1>10. Owned(urls, q)
  <2> SUFFICES ASSUME NEW i \in Indices, urls.at[i] # 0
               PROVE  \E j \in 1 .. Len(q) :
                         /\ urls.stream[urls.at[i]] = q[j]
                         /\ urls.entry[q[j]] = urls.at[i]
                         /\ urls.index[q[j]] = i
    BY DEF Owned
  <2>1. PICK j \in 1 .. Len(streams) :
            /\ urls.stream[urls.at[i]] = streams[j]
            /\ urls.entry[streams[j]] = urls.at[i]
            /\ urls.index[streams[j]] = i
    BY <1>2 DEF Owned
  <2>. QED
    BY <1>4, <1>6, <2>1
<1>11. Behind(urls, q)
  BY <1>2, <1>4, <1>6, <1>9 DEF Behind
<1>12. a = AddResources(urls, q[k], k - 1)
  BY <1>4 DEF a
<1>13. /\ a \in UrlTables
       /\ EntriesAreMade(a)
       /\ Owned(a, q)
       /\ Behind(a, q)
  BY <1>2, <1>4, <1>6, <1>7, <1>10, <1>11, <1>12, AddKeeps
<1>14. ASSUME ~moved
       PROVE  Served(a, q, Len(q))
  <2>1. Served(urls, q, k - 1)
    BY <1>2, <1>4, <1>14 DEF Served
  <2>. QED
    BY <1>2, <1>4, <1>6, <1>7, <1>11, <1>12, <2>1, AddServes
<1>15. \A t \in fresh \ {s} : a.entry[t] = 0
  <2>1. \A t \in Streams : t # s => a.entry[t] = urls.entry[t]
    BY <1>2, <1>4, <1>6, AddResourcesIs DEF a
  <2>. QED
    BY <1>2, <1>3, <2>1 DEF FreshHasNone
<1>16. UrlsInv' = /\ a \in UrlTables
                  /\ EntriesAreMade(a)
                  /\ ListIsFit'
                  /\ \A t \in fresh \ {s} : a.entry[t] = 0
                  /\ Owned(a, q)
                  /\ Behind(a, q)
                  /\ ~moved => Served(a, q, Len(q))
  BY <1>1 DEF UrlsInv, EntriesAreMade, FreshHasNone, Owned, Behind, Served, UrlTables,
              Indices, Count
<1>. QED
  BY <1>8, <1>13, <1>14, <1>15, <1>16

LEMMA RemoveStreamUrls ==
    ASSUME UrlsInv, moved \in BOOLEAN, NEW s \in Streams, RemoveStream(s)
    PROVE  UrlsInv'
<1> DEFINE w == Without(streams, s)
           r == RemoveResources(urls, s)
<1>1. /\ streams' = w
      /\ urls' = r
      /\ fresh' = fresh
      /\ moved' = (moved \/ s # Last(streams))
  BY DEF RemoveStream
<1>2. /\ urls \in UrlTables
      /\ EntriesAreMade(urls)
      /\ ListIsFit
      /\ FreshHasNone(urls)
      /\ Owned(urls, streams)
      /\ Behind(urls, streams)
      /\ ~moved => Served(urls, streams, Len(streams))
  BY DEF UrlsInv
<1>3. /\ streams \in Seq(Streams)
      /\ fresh \subseteq Streams
      /\ \A j, l \in 1 .. Len(streams) : streams[j] = streams[l] => j = l
      /\ \A j \in 1 .. Len(streams) : streams[j] \notin fresh
      /\ Len(streams) + Cardinality(fresh) <= Count
  BY <1>2 DEF ListIsFit
<1>4. PICK m \in 1 .. Len(streams) : streams[m] = s
  BY DEF RemoveStream, Contains
<1>5. /\ w \in Seq(Streams)
      /\ Len(w) = Len(streams) - 1
      /\ \A j \in 1 .. Len(streams) - 1 :
            w[j] = IF m <= j THEN streams[j + 1] ELSE streams[j]
  BY <1>3, <1>4, WithoutIs
<1>6. r \in UrlTables /\ r.entry = urls.entry
  BY <1>2, RemoveResourcesIs
<1>7. EntriesAreMade(r) /\ Owned(r, w) /\ Behind(r, w)
  BY <1>2, <1>3, <1>4, RemoveKeeps
<1>8. ASSUME moved' = FALSE
      PROVE  Served(r, w, Len(w))
  <2>1. ~moved /\ s = Last(streams)
    BY <1>1, <1>8
  <2>2. s = streams[Len(streams)]
    BY <2>1 DEF Last
  <2>3. Len(streams) \in 1 .. Len(streams)
    BY <1>3, <1>4
  <2>4. m = Len(streams)
    BY <1>3, <1>4, <2>2, <2>3
  <2>. QED
    BY <1>2, <1>3, <1>4, <2>1, <2>4, RemoveLastServes
<1> HIDE DEF w, r
<1>9. ListIsFit'
  <2>1. \A j, l \in 1 .. Len(w) : w[j] = w[l] => j = l
    <3> SUFFICES ASSUME NEW j \in 1 .. Len(w), NEW l \in 1 .. Len(w), w[j] = w[l]
                 PROVE  j = l
      OBVIOUS
    <3> DEFINE at(i) == IF m <= i THEN i + 1 ELSE i
    <3>1. /\ w[j] = streams[at(j)] /\ at(j) \in 1 .. Len(streams)
          /\ w[l] = streams[at(l)] /\ at(l) \in 1 .. Len(streams)
      BY <1>3, <1>5
    <3>2. at(j) = at(l)
      BY <1>3, <3>1
    <3>. QED
      BY <3>2
  <2>2. \A j \in 1 .. Len(w) : w[j] \notin fresh
    BY <1>3, <1>5
  <2>3. Len(w) + Cardinality(fresh) <= Count
    BY <1>3, <1>5, FreshIsFinite, CountIsNat
  <2>4. Count' = Count
    BY DEF Count
  <2>. QED
    BY <1>1, <1>3, <1>5, <2>1, <2>2, <2>3, <2>4 DEF ListIsFit
<1>10. UrlsInv' = /\ r \in UrlTables
                  /\ EntriesAreMade(r)
                  /\ ListIsFit'
                  /\ \A t \in fresh : r.entry[t] = 0
                  /\ Owned(r, w)
                  /\ Behind(r, w)
                  /\ ~moved' => Served(r, w, Len(w))
  BY <1>1 DEF UrlsInv, EntriesAreMade, FreshHasNone, Owned, Behind, Served, UrlTables,
              Indices, Count
<1>11. \A t \in fresh : r.entry[t] = 0
  BY <1>2, <1>6 DEF FreshHasNone
<1>12. moved' \in BOOLEAN
  BY <1>1
<1>. QED
  BY <1>6, <1>7, <1>8, <1>9, <1>10, <1>11, <1>12

LEMMA StartUrls ==
    ASSUME UrlsInv, Start
    PROVE  UrlsInv'
<1> DEFINE a == AddAllResources(urls, streams)
<1>1. urls' = a /\ UNCHANGED <<streams, fresh>>
  BY DEF Start
<1>2. /\ urls \in UrlTables
      /\ EntriesAreMade(urls)
      /\ ListIsFit
      /\ FreshHasNone(urls)
      /\ Owned(urls, streams)
      /\ Behind(urls, streams)
  BY DEF UrlsInv
<1>3. /\ streams \in Seq(Streams)
      /\ fresh \subseteq Streams
      /\ \A j, l \in 1 .. Len(streams) : streams[j] = streams[l] => j = l
      /\ \A j \in 1 .. Len(streams) : streams[j] \notin fresh
      /\ Len(streams) + Cardinality(fresh) <= Count
  BY <1>2 DEF ListIsFit
<1>4. Len(streams) <= Count
  BY <1>3, FreshIsFinite, CountIsNat
<1>5. /\ a \in UrlTables
      /\ EntriesAreMade(a)
      /\ Owned(a, streams)
      /\ Behind(a, streams)
      /\ Served(a, streams, Len(streams))
      /\ \A s \in Streams : (\A j \in 1 .. Len(streams) : streams[j] # s) =>
            a.entry[s] = urls.entry[s]
  BY <1>2, <1>3, <1>4, CountIsNat, AddAllServes
<1> HIDE DEF a
<1>6. \A t \in fresh : a.entry[t] = 0
  BY <1>2, <1>3, <1>5 DEF FreshHasNone
<1>7. ListIsFit'
  BY <1>1, <1>2 DEF ListIsFit, Count
<1>8. UrlsInv' = /\ a \in UrlTables
                 /\ EntriesAreMade(a)
                 /\ ListIsFit'
                 /\ \A t \in fresh : a.entry[t] = 0
                 /\ Owned(a, streams)
                 /\ Behind(a, streams)
                 /\ ~moved' => Served(a, streams, Len(streams))
  BY <1>1 DEF UrlsInv, EntriesAreMade, FreshHasNone, Owned, Behind, Served, UrlTables,
              Indices, Count
<1>. QED
  BY <1>5, <1>6, <1>7, <1>8

LEMMA FrameUrls ==
    ASSUME UrlsInv, UNCHANGED <<streams, fresh, urls, moved>>
    PROVE  UrlsInv'
BY DEF UrlsInv, EntriesAreMade, ListIsFit, FreshHasNone, Owned, Behind, Served, UrlTables,
       Indices, Count

(* The tables of entries only grow.                                        *)
LEMMA EntriesGrow ==
    ASSUME UrlsInv, [Next]_vars
    PROVE  Len(urls'.stream) >= Len(urls.stream)
<1>1. urls \in UrlTables /\ Len(urls.stream) \in Nat
  BY DEF UrlsInv, UrlTables
<1>2. ASSUME NEW s \in Streams, AddStream(s)
      PROVE  Len(urls'.stream) >= Len(urls.stream)
  <2>1. urls' = AddResources(urls, s, Len(streams))
    BY <1>2 DEF AddStream
  <2>2. Len(streams) \in Indices
    <3>1. /\ streams \in Seq(Streams) /\ fresh \subseteq Streams /\ s \in fresh
          /\ Len(streams) + Cardinality(fresh) <= Count
      BY <1>2 DEF UrlsInv, ListIsFit, AddStream
    <3>2. Cardinality(fresh) \in Nat /\ Cardinality(fresh) # 0
      BY <3>1, FreshIsFinite, FS_EmptySet
    <3>. QED
      BY <3>1, <3>2, CountIsNat DEF Indices
  <2>3. urls'.stream = Append(urls.stream, s)
    BY <1>1, <2>1, <2>2, AddResourcesIs
  <2>4. urls.stream \in Seq(Streams)
    BY <1>1 DEF UrlTables
  <2>5. Len(urls'.stream) = Len(urls.stream) + 1
    BY <2>3, <2>4
  <2>. QED
    BY <1>1, <2>5
<1>3. ASSUME NEW s \in Streams, RemoveStream(s)
      PROVE  Len(urls'.stream) >= Len(urls.stream)
  BY <1>1, <1>3, RemoveResourcesIs DEF RemoveStream
<1>4. CASE Start
  <2>1. urls' = AddAllResources(urls, streams)
    BY <1>4 DEF Start
  <2>2. /\ streams \in Seq(Streams) /\ fresh \subseteq Streams
        /\ Len(streams) + Cardinality(fresh) <= Count
        /\ \A j, l \in 1 .. Len(streams) : streams[j] = streams[l] => j = l
        /\ EntriesAreMade(urls) /\ Owned(urls, streams) /\ Behind(urls, streams)
    BY DEF UrlsInv, ListIsFit
  <2>3. Len(streams) <= Count
    BY <2>2, FreshIsFinite, CountIsNat
  <2>. QED
    BY <1>1, <2>1, <2>2, <2>3, CountIsNat, AddAllServes
<1>5. CASE UNCHANGED urls
  BY <1>1, <1>5
<1>. QED
  BY <1>2, <1>3, <1>4, <1>5 DEF Next, Redirect, Follow, Tick, Expire, vars

-----------------------------------------------------------------------------
(* One-time URLs and their timers                                          *)

LEMMA RedirectOneTime ==
    ASSUME UrlsInv, OneTimeInv, NEW i \in Indices, Redirect(i)
    PROVE  OneTimeInv'
<1> DEFINE o == [id |-> ids + 1, under |-> urls.at[i]]
           t == [id |-> ids + 1, left |-> Expiry]
<1>1. /\ ids' = ids + 1
      /\ onetime' = onetime \cup {o}
      /\ timers' = timers \cup {t}
      /\ urls' = urls
      /\ ids < MaxOneTimes
      /\ urls.at[i] # 0
  BY DEF Redirect
<1>2. /\ ids \in Nat /\ ids' \in 0 .. MaxOneTimes
      /\ ids + 1 \in 1 .. ids' /\ 1 .. ids \subseteq 1 .. ids'
  BY <1>1, BoundAssumption DEF OneTimeInv
<1>3. urls.at[i] \in 1 .. Len(urls.stream)
  BY <1>1 DEF UrlsInv, UrlTables, EntriesAreMade
<1>4. Expiry \in 0 .. Expiry
  BY BoundAssumption
<1>5. onetime' \subseteq [id : 1 .. ids', under : 1 .. Len(urls.stream)]
  BY <1>1, <1>2, <1>3 DEF OneTimeInv
<1>6. timers' \subseteq [id : 1 .. ids', left : 0 .. Expiry]
  BY <1>1, <1>2, <1>4 DEF OneTimeInv
<1>7. \A p \in onetime : p.id # ids + 1
  BY <1>2 DEF OneTimeInv
<1>8. \A p, q \in onetime' : p.id = q.id => p = q
  BY <1>1, <1>7 DEF OneTimeInv
<1>9. TimersHaveUrls'
  <2>. o.id = ids + 1 /\ t.id = ids + 1
    OBVIOUS
  <2>. HIDE DEF o, t
  <2>1. {p.id : p \in onetime'} = {p.id : p \in onetime} \cup {ids + 1}
    BY <1>1
  <2>2. {p.id : p \in timers'} = {p.id : p \in timers} \cup {ids + 1}
    BY <1>1
  <2>. QED
    BY <2>1, <2>2 DEF OneTimeInv, TimersHaveUrls
<1>. QED
  BY <1>1, <1>2, <1>5, <1>6, <1>8, <1>9 DEF OneTimeInv

LEMMA DestroyOneTime ==
    ASSUME OneTimeInv, NEW o \in onetime, Destroy(o), UNCHANGED <<ids, urls>>
    PROVE  OneTimeInv'
<1>1. onetime' = onetime \ {o} /\ timers' = {t \in timers : t.id # o.id}
  BY DEF Destroy
<1>2. {p.id : p \in onetime'} = {p.id : p \in onetime} \ {o.id}
  BY <1>1 DEF OneTimeInv
<1>3. {t.id : t \in timers'} = {t.id : t \in timers} \ {o.id}
  BY <1>1
<1>4. TimersHaveUrls'
  BY <1>2, <1>3 DEF OneTimeInv, TimersHaveUrls
<1>. QED
  BY <1>1, <1>4 DEF OneTimeInv

LEMMA TickOneTime ==
    ASSUME OneTimeInv, Tick
    PROVE  OneTimeInv'
<1> DEFINE less(n) == IF n > 0 THEN n - 1 ELSE 0
           later(t) == [t EXCEPT !.left = less(@)]
<1>1. timers' = {later(t) : t \in timers} /\ UNCHANGED <<onetime, ids, urls>>
  BY DEF Tick
<1>2. \A n \in 0 .. Expiry : less(n) \in 0 .. Expiry
  BY BoundAssumption
<1> HIDE DEF less
<1>3. \A t \in [id : 1 .. ids, left : 0 .. Expiry] :
          /\ later(t) \in [id : 1 .. ids, left : 0 .. Expiry]
          /\ later(t).id = t.id
  BY <1>2
<1> HIDE DEF later
<1>4. timers \subseteq [id : 1 .. ids, left : 0 .. Expiry]
  BY DEF OneTimeInv
<1>5. timers' \subseteq [id : 1 .. ids, left : 0 .. Expiry]
  BY <1>1, <1>3, <1>4
<1>6. {t.id : t \in timers'} = {t.id : t \in timers}
  BY <1>1, <1>3, <1>4
<1>7. TimersHaveUrls'
  BY <1>1, <1>6 DEF OneTimeInv, TimersHaveUrls
<1>. QED
  BY <1>1, <1>5, <1>7 DEF OneTimeInv

(* The timer always finds its URL.                                         *)
LEMMA ExpireOneTime ==
    ASSUME OneTimeInv, NEW t \in timers, Expire(t)
    PROVE  OneTimeInv'
<1>1. t.id \in {o.id : o \in onetime}
  BY DEF OneTimeInv, TimersHaveUrls
<1>2. \E o \in onetime : o.id = t.id
  BY <1>1
<1>3. PICK o \in onetime : Destroy(o)
  BY <1>2 DEF Expire
<1>4. UNCHANGED <<ids, urls>>
  BY DEF Expire
<1>. QED
  BY <1>3, <1>4, DestroyOneTime

LEMMA FrameOneTime ==
    ASSUME UrlsInv, OneTimeInv, [Next]_vars, UNCHANGED <<onetime, timers, ids>>
    PROVE  OneTimeInv'
<1>1. Len(urls'.stream) >= Len(urls.stream) /\ Len(urls.stream) \in Nat
  BY EntriesGrow DEF UrlsInv, UrlTables
<1>2. onetime \subseteq [id : 1 .. ids, under : 1 .. Len(urls'.stream)]
  <2> SUFFICES ASSUME NEW o \in onetime
               PROVE  o \in [id : 1 .. ids, under : 1 .. Len(urls'.stream)]
    OBVIOUS
  <2>1. o \in [id : 1 .. ids, under : 1 .. Len(urls.stream)]
    BY DEF OneTimeInv
  <2>. QED
    BY <1>1, <2>1
<1>3. TimersHaveUrls'
  BY DEF OneTimeInv, TimersHaveUrls
<1>. QED
  BY <1>2, <1>3 DEF OneTimeInv

-----------------------------------------------------------------------------
(* Theorems                                                                *)

LEMMA InitIInv == Init => IInv
<1> SUFFICES ASSUME Init
             PROVE  IInv
  OBVIOUS
<1>1. Streams # {} => 0 \in Indices
  BY StreamsAssumption, CountIsNat, FS_EmptySet DEF Indices, Count
<1>2. NoUrls \in UrlTables
  BY <1>1 DEF NoUrls, UrlTables
<1>3. urls = NoUrls /\ streams = <<>> /\ fresh = Streams
  BY DEF Init
<1>4. /\ NoUrls.stream = <<>>
      /\ \A i \in Indices : NoUrls.at[i] = 0
      /\ \A s \in Streams : NoUrls.entry[s] = 0
  BY DEF NoUrls
<1>5. /\ EntriesAreMade(NoUrls)
      /\ Owned(NoUrls, <<>>)
      /\ Behind(NoUrls, <<>>)
      /\ Served(NoUrls, <<>>, Len(<<>>))
      /\ \A s \in Streams : NoUrls.entry[s] = 0
  BY <1>4 DEF EntriesAreMade, Owned, Behind, Served
<1>6. ListIsFit
  BY <1>3, CountIsNat DEF ListIsFit, Count
<1>7. UrlsInv
  BY <1>2, <1>3, <1>5, <1>6 DEF UrlsInv, FreshHasNone
<1>8. OneTimeInv
  <2>1. ids = 0 /\ onetime = {} /\ timers = {}
    BY DEF Init
  <2>2. ids \in 0 .. MaxOneTimes
    BY <2>1, BoundAssumption
  <2>3. TimersHaveUrls
    BY <2>1 DEF TimersHaveUrls
  <2>. QED
    BY <2>1, <2>2, <2>3 DEF OneTimeInv
<1>. QED
  BY <1>7, <1>8 DEF IInv, Init

LEMMA StepIInv == IInv /\ [Next]_vars => IInv'
<1> SUFFICES ASSUME IInv, [Next]_vars
             PROVE  IInv'
  OBVIOUS
<1>1. UrlsInv'
  <2>1. UrlsInv /\ moved \in BOOLEAN
    BY DEF IInv
  <2>2. ASSUME NEW s \in Streams, AddStream(s)
        PROVE  UrlsInv'
    BY <2>1, <2>2, AddStreamUrls
  <2>3. ASSUME NEW s \in Streams, RemoveStream(s)
        PROVE  UrlsInv'
    BY <2>1, <2>3, RemoveStreamUrls
  <2>4. CASE Start
    BY <2>1, <2>4, StartUrls
  <2>5. CASE UNCHANGED <<streams, fresh, urls, moved>>
    BY <2>1, <2>5, FrameUrls
  <2>. QED
    BY <2>2, <2>3, <2>4, <2>5 DEF Next, Redirect, Follow, Tick, Expire, vars
<1>2. OneTimeInv'
  <2>1. UrlsInv /\ OneTimeInv
    BY DEF IInv
  <2>2. ASSUME NEW i \in Indices, Redirect(i)
        PROVE  OneTimeInv'
    BY <2>1, <2>2, RedirectOneTime
  <2>3. ASSUME NEW o \in onetime, Follow(o)
        PROVE  OneTimeInv'
    <3>1. Destroy(o) /\ UNCHANGED <<ids, urls>>
      BY <2>3 DEF Follow
    <3>. QED
      BY <2>1, <3>1, DestroyOneTime
  <2>4. CASE Tick
    BY <2>1, <2>4, TickOneTime
  <2>5. ASSUME NEW t \in timers, Expire(t)
        PROVE  OneTimeInv'
    BY <2>1, <2>5, ExpireOneTime
  <2>6. CASE UNCHANGED <<onetime, timers, ids>>
    BY <2>1, <2>6, FrameOneTime
  <2>. QED
    BY <2>2, <2>3, <2>4, <2>5, <2>6 DEF Next, AddStream, RemoveStream, Start, vars
<1>3. /\ started' \in BOOLEAN
      /\ moved' \in BOOLEAN
  BY DEF IInv, Next, AddStream, RemoveStream, Start, Redirect, Follow, Tick, Expire, vars
<1>4. wild' \in BOOLEAN
  <2>1. urls'.bad \in BOOLEAN
    BY <1>1 DEF UrlsInv, UrlTables
  <2>2. \A e : IsFreed(urls, e) \in BOOLEAN
    BY DEF IsFreed
  <2>. QED
    BY <2>1, <2>2
       DEF IInv, Next, AddStream, RemoveStream, Start, Redirect, Follow, Tick, Expire, vars
<1>. QED
  BY <1>1, <1>2, <1>3, <1>4 DEF IInv

(* Whatever streams are added and removed, before and after the program is *)
(* started: what is at a URL is known to the listed stream it belongs to,  *)
(* streams only move to the front of the list, and those whose indices are *)
(* right have the URLs of their places.                                    *)
THEOREM Inductive == Spec => []IInv
<1>1. Init => IInv
  BY InitIInv
<1>2. IInv /\ [Next]_vars => IInv'
  BY StepIInv
<1>. QED
  BY <1>1, <1>2, PTL DEF Spec

(* The table of resources agrees with the streams and with the timers of   *)
(* one-time URLs (gss_stream_add_resources, gss_stream_remove_resources,   *)
(* onetime_expire).                                                        *)
THEOREM TableCorrect == Spec => []TableIsSound
<1>1. IInv => TableIsSound
  <2> SUFFICES ASSUME IInv
               PROVE  TableIsSound
    OBVIOUS
  <2>1. /\ urls \in UrlTables
        /\ EntriesAreMade(urls)
        /\ ListIsFit
        /\ Owned(urls, streams)
        /\ ~moved => Served(urls, streams, Len(streams))
        /\ OneTimeInv
    BY DEF IInv, UrlsInv
  <2>2. streams \in Seq(Streams)
    BY <2>1 DEF ListIsFit
  <2>3. TypeOK
    <3>1. Len(urls.stream) \in Nat
      BY <2>1 DEF UrlTables
    <3>2. urls.at \in [Indices -> 0 .. Len(urls.stream)]
      BY <2>1, <3>1 DEF UrlTables, EntriesAreMade
    <3>3. urls.entry \in [Streams -> 0 .. Len(urls.stream)]
      BY <2>1, <3>1 DEF UrlTables, EntriesAreMade
    <3>4. urls.index \in [Streams -> Indices] /\ urls.stream \in Seq(Streams)
      BY <2>1 DEF UrlTables
    <3>5. 1 .. ids \subseteq 1 .. MaxOneTimes
      BY <2>1, BoundAssumption DEF OneTimeInv
    <3>6. onetime \subseteq [id : 1 .. MaxOneTimes, under : 1 .. Len(urls.stream)]
      BY <2>1, <3>5 DEF OneTimeInv
    <3>7. timers \subseteq [id : 1 .. MaxOneTimes, left : 0 .. Expiry]
      BY <2>1, <3>5 DEF OneTimeInv
    <3>8. ids \in 0 .. MaxOneTimes /\ fresh \subseteq Streams
      BY <2>1 DEF OneTimeInv, ListIsFit
    <3>. QED
      BY <2>2, <3>2, <3>3, <3>4, <3>6, <3>7, <3>8 DEF TypeOK, IInv
  <2>4. StreamsAreServed
    <3> SUFFICES ASSUME ~moved, NEW s \in ToSet(streams)
                 PROVE  /\ urls.at[urls.index[s]] = urls.entry[s]
                        /\ Alive(urls.entry[s])
                        /\ urls.stream[urls.entry[s]] = s
      BY DEF StreamsAreServed
    <3>1. PICK j \in 1 .. Len(streams) : s = streams[j]
      BY <2>2 DEF ToSet
    <3>2. /\ urls.index[s] = j - 1
          /\ urls.entry[s] # 0
          /\ urls.at[j - 1] = urls.entry[s]
          /\ urls.stream[urls.entry[s]] = s
      BY <2>1, <3>1 DEF Served
    <3>3. j - 1 \in Indices
      <4>1. urls.index[s] \in Indices
        BY <2>1, <2>2, <3>1 DEF UrlTables
      <4>. QED
        BY <3>2, <4>1
    <3>. QED
      BY <3>2, <3>3 DEF Alive, IsFreed
  <2>5. UrlsHaveStreams
    BY <2>1 DEF UrlsHaveStreams, Owned, Contains
  <2>. QED
    BY <2>1, <2>3, <2>4, <2>5 DEF TableIsSound, StreamsMatchUrls, OneTimeInv
<1>. QED
  BY <1>1, Inductive, PTL

(* The pointer of a one-time URL stays good while streams are added and    *)
(* other one-time URLs come and go: with indices that are right, the URL   *)
(* of a new stream is one that nothing was at.                             *)
THEOREM OneTimesCorrect == Spec => OneTimesStayGood
<1> DEFINE Kept == \A o \in onetime : Alive(o.under) /\ ~Alive(o.under)' =>
                      Len(streams') < Len(streams) \/ started' # started \/ moved
<1>1. IInv /\ [Next]_vars => [Kept]_vars
  <2> SUFFICES ASSUME IInv, [Next]_vars, NEW o \in onetime,
                      Alive(o.under), ~Alive(o.under)'
               PROVE  Len(streams') < Len(streams) \/ started' # started \/ moved
    OBVIOUS
  <2>1. /\ urls \in UrlTables
        /\ ListIsFit
        /\ FreshHasNone(urls)
        /\ Owned(urls, streams)
        /\ ~moved => Served(urls, streams, Len(streams))
    BY DEF IInv, UrlsInv
  <2>2. /\ streams \in Seq(Streams)
        /\ fresh \subseteq Streams
        /\ Len(streams) + Cardinality(fresh) <= Count
        /\ \A j, l \in 1 .. Len(streams) : streams[j] = streams[l] => j = l
    BY <2>1 DEF ListIsFit
  <2> DEFINE e == o.under
  <2>3. PICK i \in Indices : urls.at[i] = e /\ e # 0
    BY DEF Alive, IsFreed
  <2>4. \A j \in Indices : urls'.at[j] # e
    BY <2>3 DEF Alive, IsFreed
  <2> HIDE DEF e
  <2>5. ASSUME NEW s \in Streams, AddStream(s)
        PROVE  moved
    <3> SUFFICES ASSUME ~moved
                 PROVE  FALSE
      OBVIOUS
    <3>1. urls' = AddResources(urls, s, Len(streams)) /\ s \in fresh
      BY <2>5 DEF AddStream
    <3>2. Len(streams) \in Indices
      <4>1. Cardinality(fresh) \in Nat /\ Cardinality(fresh) # 0
        BY <2>2, <3>1, FreshIsFinite, FS_EmptySet
      <4>. QED
        BY <2>2, <4>1, CountIsNat DEF Indices
    <3>3. urls.entry[s] = 0
      BY <2>1, <3>1 DEF FreshHasNone
    <3>4. i # Len(streams) => urls'.at[i] = urls.at[i]
      BY <2>1, <3>1, <3>2, <3>3, AddResourcesIs
    <3>5. PICK j \in 1 .. Len(streams) : urls.index[streams[j]] = i
      BY <2>1, <2>3 DEF Owned
    <3>6. urls.index[streams[j]] = j - 1
      BY <2>1 DEF Served
    <3>. QED
      BY <2>2, <2>3, <2>4, <3>4, <3>5, <3>6
  <2>6. ASSUME NEW s \in Streams, RemoveStream(s)
        PROVE  Len(streams') < Len(streams)
    <3>1. PICK m \in 1 .. Len(streams) : streams[m] = s
      BY <2>6 DEF RemoveStream, Contains
    <3>2. Len(streams') = Len(streams) - 1
      BY <2>2, <2>6, <3>1, WithoutIs DEF RemoveStream
    <3>. QED
      BY <2>2, <3>2
  <2>7. CASE Start
    BY <2>7 DEF Start
  <2>8. CASE UNCHANGED urls
    BY <2>3, <2>4, <2>8
  <2>. QED
    BY <2>5, <2>6, <2>7, <2>8 DEF Next, Redirect, Follow, Tick, Expire, vars
<1>. QED
  BY <1>1, Inductive, PTL DEF Spec, OneTimesStayGood

-----------------------------------------------------------------------------
(* The program that sources push to                                        *)

(* A pipeline is that of a stream of the program.                          *)
PipeHasStream == pipe # "none" => stream # 0

(* A program that is enabled has left STOPPED for good, and one that is    *)
(* STARTING is enabled.                                                    *)
EnabledIsStarted ==
    /\ ~(state = "stopped" /\ enabled)
    /\ state = "starting" => enabled

(* The source of a clean stream is one that Stop will find.                *)
CleanIsStoppable ==
    stream # 0 /\ clean =>
        /\ enabled
        /\ state \in {"starting", "running"}
        /\ pipe # "dead"

PushInv ==
    /\ PushTypeOK
    /\ ClientHasStream
    /\ RunningHasPipeline
    /\ PipeHasStream
    /\ EnabledIsStarted
    /\ CleanIsStoppable

-----------------------------------------------------------------------------
LEMMA InvariantAtStart == PushInit => PushInv
  <1> SUFFICES ASSUME PushInit PROVE PushInv
    OBVIOUS
  <1>1. PushTypeOK
    <2>1. 0 \in 0 .. RestartDelay /\ 0 \in 0 .. MaxStreams
      BY DelayAssumption, MadeAssumption
    <2> QED BY <2>1 DEF PushInit, PushTypeOK
  <1>2. /\ ClientHasStream
        /\ RunningHasPipeline
        /\ PipeHasStream
        /\ EnabledIsStarted
        /\ CleanIsStoppable
    BY DEF PushInit, ClientHasStream, RunningHasPipeline, PipeHasStream,
           EnabledIsStarted, CleanIsStoppable
  <1> QED BY <1>1, <1>2 DEF PushInv

(* What gss_program_stop does to the parts, wherever it is called.         *)
LEMMA StopTypes ==
    ASSUME PushTypeOK, Stop
    PROVE  /\ state' \in {"stopped", "starting", "running", "stopping"}
           /\ client' \in Sources \cup {None}
           /\ stream' \in 0 .. MaxStreams
           /\ pipe' \in {"none", "starting", "playing", "dead"}
  BY MadeAssumption DEF PushTypeOK, Stop, AfterStop

(* The types need ClientHasStream: a later request joins a stream there is.*)
LEMMA TypesKept == PushTypeOK /\ ClientHasStream /\ [PushNext]_pushVars => PushTypeOK'
  <1> SUFFICES ASSUME PushTypeOK, ClientHasStream, [PushNext]_pushVars PROVE PushTypeOK'
    OBVIOUS
  <1> USE DelayAssumption, MadeAssumption DEF PushTypeOK
  <1>1. CASE UNCHANGED pushVars
    BY <1>1 DEF pushVars
  <1>2. CASE Enable
    BY <1>2 DEF Enable, Started
  <1>3. CASE Disable
    BY <1>3, StopTypes DEF Disable
  <1>4. ASSUME NEW s \in Sources, FirstPut(s) PROVE PushTypeOK'
    BY <1>4 DEF FirstPut, FirstRequest, Started
  <1>5. ASSUME NEW s \in Sources, FirstIcecast(s) PROVE PushTypeOK'
    BY <1>5 DEF FirstIcecast, FirstRequest, Started
  <1>6. ASSUME NEW s \in Sources, LaterIcecast(s) PROVE PushTypeOK'
    BY <1>6 DEF LaterIcecast, ClientHasStream
  <1>7. ASSUME NEW h \in pending, WroteHeaders(h) PROVE PushTypeOK'
    BY <1>7 DEF WroteHeaders
  <1>8. ASSUME NEW s \in Sources, Disconnect(s) PROVE PushTypeOK'
    BY <1>8 DEF Disconnect
  <1>9. CASE Playing
    BY <1>9 DEF Playing
  <1>10. ASSUME NEW error \in BOOLEAN, Ends(error) PROVE PushTypeOK'
    BY <1>10, StopTypes DEF Ends
  <1>11. ASSUME NEW s \in 1 .. MaxStreams, NEW error \in BOOLEAN, LeakedEnds(s, error)
         PROVE  PushTypeOK'
    <2>1. leaked' \subseteq 1 .. MaxStreams /\ restartDelay' \in 0 .. RestartDelay
      BY <1>11 DEF LeakedEnds
    <2>2. CASE s = stream
      BY <1>11, <2>1, <2>2, StopTypes DEF LeakedEnds
    <2>3. CASE s # stream
      BY <1>11, <2>1, <2>3 DEF LeakedEnds
    <2> QED BY <2>2, <2>3
  <1>12. CASE RestartTick
    BY <1>12 DEF RestartTick, Started
  <1> QED BY <1>1, <1>2, <1>3, <1>4, <1>5, <1>6, <1>7, <1>8, <1>9, <1>10, <1>11, <1>12
          DEF PushNext

(* A first request finds no stream, so that the program is not RUNNING.    *)
LEMMA FirstRequestKeeps ==
    ASSUME PushInv, NEW s \in Sources, FirstRequest(s), UNCHANGED enabled
    PROVE  /\ client' # None /\ stream' # 0
           /\ state' # "running"
           /\ EnabledIsStarted'
           /\ clean' => enabled' /\ state' = "starting"
  <1>1. client' # None /\ stream' # 0
    BY NoneAssumption, MadeAssumption DEF FirstRequest, PushInv, PushTypeOK
  <1>2. stream = 0 /\ state # "running"
    BY DEF FirstRequest, PushInv, RunningHasPipeline
  <1>3. state' # "running" /\ EnabledIsStarted'
    BY <1>2 DEF FirstRequest, Started, PushInv, EnabledIsStarted
  <1>4. clean' => state' = "starting"
    BY <1>3 DEF FirstRequest
  <1> QED BY <1>1, <1>3, <1>4 DEF EnabledIsStarted

LEMMA InvariantKept == PushInv /\ [PushNext]_pushVars => PushInv'
  <1> SUFFICES ASSUME PushInv, [PushNext]_pushVars PROVE PushInv'
    OBVIOUS
  <1>0. PushTypeOK'
    BY TypesKept DEF PushInv
  <1> DEFINE Rest == /\ ClientHasStream
                     /\ RunningHasPipeline
                     /\ PipeHasStream
                     /\ EnabledIsStarted
                     /\ CleanIsStoppable
  <1> SUFFICES Rest'
    BY <1>0 DEF PushInv
  <1> USE NoneAssumption, MadeAssumption
      DEF PushInv, PushTypeOK, ClientHasStream, RunningHasPipeline, PipeHasStream,
          EnabledIsStarted, CleanIsStoppable
  <1>1. CASE UNCHANGED pushVars
    BY <1>1 DEF pushVars
  <1>2. CASE Enable
    BY <1>2 DEF Enable, Started
  <1>3. CASE Disable
    BY <1>3 DEF Disable, Stop, Stops, AfterStop
  <1>4. ASSUME NEW s \in Sources, FirstPut(s) PROVE Rest'
    BY <1>4, FirstRequestKeeps DEF FirstPut
  <1>5. ASSUME NEW s \in Sources, FirstIcecast(s) PROVE Rest'
    BY <1>5, FirstRequestKeeps DEF FirstIcecast
  <1>6. ASSUME NEW s \in Sources, LaterIcecast(s) PROVE Rest'
    BY <1>6 DEF LaterIcecast
  <1>7. ASSUME NEW h \in pending, WroteHeaders(h) PROVE Rest'
    BY <1>7 DEF WroteHeaders
  <1>8. ASSUME NEW s \in Sources, Disconnect(s) PROVE Rest'
    BY <1>8 DEF Disconnect
  <1>9. CASE Playing
    BY <1>9 DEF Playing
  <1>10. ASSUME NEW error \in BOOLEAN, Ends(error) PROVE Rest'
    BY <1>10 DEF Ends, Stop, Stops, AfterStop
  <1>11. ASSUME NEW s \in 1 .. MaxStreams, NEW error \in BOOLEAN, LeakedEnds(s, error)
         PROVE  Rest'
    BY <1>11 DEF LeakedEnds, Stop, Stops, AfterStop
  <1>12. CASE RestartTick
    BY <1>12 DEF RestartTick, Started
  <1> QED BY <1>1, <1>2, <1>3, <1>4, <1>5, <1>6, <1>7, <1>8, <1>9, <1>10, <1>11, <1>12
          DEF PushNext

(* The invariant of source, stream, pipeline and state.                    *)
THEOREM PushInductive == PushSpec => []PushInv
  BY InvariantAtStart, InvariantKept, PTL DEF PushSpec

-----------------------------------------------------------------------------
(* Every reachable state is type correct.                                  *)
THEOREM PushTypeCorrect == PushSpec => []PushTypeOK
  <1>1. PushInv => PushTypeOK
    BY DEF PushInv
  <1> QED BY <1>1, PushInductive, PTL

(* A program has a client exactly when it has a stream, and one that is    *)
(* shown as running has a pipeline.                                        *)
THEOREM PartsCorrect == PushSpec => []PartsBelongTogether
  <1>1. PushInv => PartsBelongTogether
    BY DEF PushInv, PartsBelongTogether
  <1> QED BY <1>1, PushInductive, PTL

(* The restart timer never restarts a program, whatever the delay.         *)
THEOREM TimerCorrect == PushSpec => []RestartTimerIsIdle
  <1>1. PushInv => RestartTimerIsIdle
    BY DEF PushInv, EnabledIsStarted, RestartTimerIsIdle
  <1> QED BY <1>1, PushInductive, PTL

(* A source that came to a program that could start is stopped with it.    *)
THEOREM CleanCorrect == PushSpec => []CleanSourceIsStopped
  <1>1. PushInv => CleanSourceIsStopped
    BY DEF PushInv, CleanIsStoppable, CleanSourceIsStopped
  <1> QED BY <1>1, PushInductive, PTL

(* Only the pipeline of a new source takes a program out of STOPPING.      *)
THEOREM StoppingCorrect == PushSpec => StoppingIsLeftByPlaying
  <1> DEFINE Leaves == state = "stopping" /\ state' # "stopping" =>
                           state' = "running" /\ pipe' = "playing" /\ stream # 0
  <1>1. PushInv /\ [PushNext]_pushVars => [Leaves]_pushVars
    <2> SUFFICES ASSUME PushInv, PushNext, state = "stopping", state' # "stopping"
                 PROVE  Playing
      BY DEF PushInv, PipeHasStream, Playing
    <2>1. ~Stops
      BY DEF Stops
    <2> QED
      BY <2>1 DEF PushNext, Enable, Disable, FirstPut, FirstIcecast, FirstRequest,
                  LaterIcecast, WroteHeaders, Disconnect, Ends, LeakedEnds, RestartTick,
                  Started, Stop
  <1> QED BY <1>1, PushInductive, PTL DEF PushSpec, StoppingIsLeftByPlaying
=============================================================================
