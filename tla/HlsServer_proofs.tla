-------------------------- MODULE HlsServer_proofs --------------------------
(***************************************************************************)
(* Proofs about HlsServer, for every set of streams, every depth of the    *)
(* ring and every window not larger than the ring.                         *)
(*                                                                         *)
(* The argument: the Ring newest segment numbers of a stream fall in       *)
(* different slots (ModApart) and the next one falls in the slot of the    *)
(* oldest (ModStep), so the segment evicted by AddChunk is the one that    *)
(* leaves the live range, and the URL removed is its URL.                  *)
(***************************************************************************)
EXTENDS MCHlsServer, SequenceTheorems, TLAPS

-----------------------------------------------------------------------------
(* Arithmetic of slots                                                     *)

LEMMA DivMod ==
    ASSUME NEW R \in Nat \ {0}, NEW n \in Nat
    PROVE  /\ n \div R \in Nat
           /\ n % R \in 0 .. R - 1
           /\ n = R * (n \div R) + (n % R)
OBVIOUS

LEMMA MulAtLeast ==
    ASSUME NEW R \in Nat \ {0}, NEW a \in Int, a >= 1
    PROVE  R * a >= R
OBVIOUS

LEMMA MulAtMost ==
    ASSUME NEW R \in Nat \ {0}, NEW a \in Int, a <= -1
    PROVE  R * a <= -R
OBVIOUS

LEMMA MulMinus ==
    ASSUME NEW R \in Nat \ {0}, NEW a \in Int, NEW b \in Int
    PROVE  R * (a - b) = R * a - R * b
OBVIOUS

(* Numbers less than R apart are in the same slot only if they are equal.  *)
LEMMA ModApart ==
    ASSUME NEW R \in Nat \ {0}, NEW i \in Nat, NEW n \in Nat,
           i < n, n - i < R
    PROVE  i % R # n % R
<1>1. SUFFICES ASSUME i % R = n % R PROVE FALSE
  OBVIOUS
<1> DEFINE a == i \div R
           b == n \div R
<1>2. /\ a \in Nat /\ i % R \in 0 .. R - 1 /\ i = R * a + (i % R)
      /\ b \in Nat /\ n % R \in 0 .. R - 1 /\ n = R * b + (n % R)
  BY DivMod
<1> HIDE DEF a, b
<1>3. R * (b - a) = n - i
  BY <1>1, <1>2, MulMinus
<1>4. b - a \in Int
  BY <1>2
<1>5. ~ (b - a >= 1)
  BY <1>3, <1>4, MulAtLeast
<1>6. R * (b - a) <= 0
  <2>1. CASE b - a = 0
    BY <2>1
  <2>2. CASE b - a <= -1
    BY <2>2, <1>4, MulAtMost
  <2>. QED
    BY <1>4, <1>5, <2>1, <2>2
<1>. QED
  BY <1>3, <1>6

(* The slot of segment n is the one that segment n - R had.                *)
LEMMA ModStep ==
    ASSUME NEW R \in Nat \ {0}, NEW n \in Nat, n >= R
    PROVE  (n - R) % R = n % R
<1> DEFINE m == n - R
           a == m \div R
           b == n \div R
<1>1. m \in Nat
  OBVIOUS
<1>2. /\ a \in Nat /\ m % R \in 0 .. R - 1 /\ m = R * a + (m % R)
      /\ b \in Nat /\ n % R \in 0 .. R - 1 /\ n = R * b + (n % R)
  BY <1>1, DivMod
<1>3. n = m + R
  OBVIOUS
<1> HIDE DEF a, b, m
<1>4. R * (b - a) = R + (m % R) - (n % R)
  BY <1>1, <1>2, <1>3, MulMinus
<1>5. b - a \in Int
  BY <1>2
<1>6. b - a = 1
  <2>1. ~ (b - a <= 0)
    <3>1. CASE b - a = 0
      BY <3>1, <1>2, <1>4
    <3>2. CASE b - a <= -1
      BY <3>2, <1>2, <1>4, <1>5, MulAtMost
    <3>. QED
      BY <1>5, <3>1, <3>2
  <2>2. ~ (b - a >= 2)
    <3>1. SUFFICES ASSUME b - a >= 2 PROVE FALSE
      OBVIOUS
    <3>2. R * ((b - a) - 1) >= R
      BY <3>1, <1>5, MulAtLeast
    <3>3. R * ((b - a) - 1) = R * (b - a) - R
      BY <1>5, MulMinus
    <3>. QED
      BY <1>2, <1>4, <1>5, <3>2, <3>3
  <2>. QED
    BY <1>5, <2>1, <2>2
<1>7. R * (b - a) = R
  BY <1>6
<1>8. m % R = n % R
  BY <1>2, <1>4, <1>7
<1>. QED
  BY <1>8 DEF m

-----------------------------------------------------------------------------
(* The inductive invariant                                                 *)

(* The segment with a live number is in its slot.                          *)
RingHoldsLive ==
    \A s \in Streams : \A i \in Live(s) :
        chunks[s][i % Ring].used /\ chunks[s][i % Ring].index = i

(* A slot in use holds a segment with a live number, its own.              *)
SlotsHoldOnlyLive ==
    \A s \in Streams : \A k \in Slots :
        chunks[s][k].used => /\ chunks[s][k].index \in Live(s)
                             /\ chunks[s][k].index % Ring = k

(* Every slot that has had a segment is in use.                            *)
PastSlotsUsed ==
    \A s \in Streams : \A i \in 0 .. nChunks[s] - 1 : chunks[s][i % Ring].used

(* The resource table has an entry for each live segment and no other.     *)
TableIsLive ==
    \A r : r \in resources <=>
              \E s \in Streams : \E i \in Live(s) : r = Resource(s, i)

(* An index playlist that was served lists only published segments.        *)
IndexIsPast ==
    \A s \in Streams : index[s].end <= nChunks[s]

(* Its entries for segments that are still live are right.                 *)
IndexIsRight ==
    \A s \in Streams : \A i \in index[s].seq .. index[s].end - 1 :
        i \in Live(s) => index[s].loc[i] = i

(* Without a pending update all its entries name live segments.            *)
IndexIsLive ==
    \A s \in Streams : index[s].built /\ ~needUpdate[s] =>
        /\ index[s].end = nChunks[s]
        /\ \A i \in index[s].seq .. index[s].end - 1 : index[s].loc[i] \in Live(s)

IInv ==
    /\ TypeOK
    /\ RingHoldsLive
    /\ SlotsHoldOnlyLive
    /\ PastSlotsUsed
    /\ TableIsLive
    /\ IndexIsPast
    /\ IndexIsRight
    /\ IndexIsLive

-----------------------------------------------------------------------------
(* Different segments have different URLs.                                 *)
LEMMA LocationInjective ==
    ASSUME NEW s \in Streams, NEW t \in Streams, NEW i, NEW j,
           Location(s, i) = Location(t, j)
    PROVE  s = t /\ i = j
BY KeyAssumption DEF Location

LEMMA SlotInSlots ==
    ASSUME NEW n \in Nat
    PROVE  n % Ring \in Slots
BY DivMod, RingAssumption DEF Slots

LEMMA LiveIsNat ==
    ASSUME TypeOK, NEW s \in Streams, NEW i \in Live(s)
    PROVE  i \in Nat /\ i < nChunks[s] /\ nChunks[s] - i <= Ring
BY DEF Live, TypeOK

LEMMA InitTypeOK == Init => TypeOK
<1>1. SUFFICES ASSUME Init PROVE TypeOK
  OBVIOUS
<1>2. isHls \in [Streams -> BOOLEAN] /\ received \in [Streams -> Nat]
  BY <1>1 DEF Init
<1>3. adapter \in [Streams -> [from : Nat, rap : BOOLEAN]]
  BY <1>1 DEF Init
<1>4. idle \in Seq([stream : Streams, data : Chunk])
  BY <1>1 DEF Init
<1>5. NoSegment \in Segment
  BY DEF NoSegment, Segment, Chunk
<1>6. chunks \in [Streams -> [Slots -> Segment]]
  BY <1>1, <1>5 DEF Init
<1>7. \A s \in Streams :
          /\ index[s].built \in BOOLEAN
          /\ index[s].seq \in Nat
          /\ index[s].end \in Nat
          /\ index[s].loc \in [index[s].seq .. index[s].end - 1 -> Nat]
  <2>1. 0 .. 0 - 1 = {}
    OBVIOUS
  <2>2. [i \in {} |-> 0] \in [{} -> Nat]
    OBVIOUS
  <2>. QED
    BY <1>1, <2>1, <2>2 DEF Init, NoIndex
<1>. QED
  BY <1>1, <1>2, <1>3, <1>4, <1>6, <1>7 DEF Init, TypeOK

LEMMA InitIInv == Init => IInv
<1>1. SUFFICES ASSUME Init PROVE IInv
  OBVIOUS
<1>2. TypeOK
  BY <1>1, InitTypeOK
<1>3. \A s \in Streams : Live(s) = {}
  BY <1>1 DEF Init, Live
<1>4. RingHoldsLive /\ TableIsLive /\ IndexIsRight
  BY <1>1, <1>3 DEF Init, RingHoldsLive, TableIsLive, IndexIsRight
<1>7. PastSlotsUsed
  BY <1>1 DEF Init, PastSlotsUsed
<1>5. SlotsHoldOnlyLive
  BY <1>1 DEF Init, SlotsHoldOnlyLive, NoSegment
<1>6. IndexIsPast /\ IndexIsLive
  BY <1>1 DEF Init, IndexIsPast, IndexIsLive, NoIndex
<1>. QED
  BY <1>2, <1>4, <1>5, <1>6, <1>7 DEF IInv

-----------------------------------------------------------------------------
(* Every action preserves the type invariant.                              *)

LEMMA AddHlsType == ASSUME TypeOK, NEW s \in Streams, AddHls(s) PROVE TypeOK'
<1>1. variant' \subseteq Streams
  BY DEF AddHls, Playable
<1>. QED
  BY <1>1 DEF TypeOK, AddHls

LEMMA ProbeChunk ==
    ASSUME TypeOK, NEW s \in Streams
    PROVE  [from |-> adapter[s].from, to |-> received[s],
            rap |-> adapter[s].rap] \in Chunk
BY DEF TypeOK, Chunk

LEMMA CutChunkType == ASSUME TypeOK, NEW s \in Streams, CutChunk(s) PROVE TypeOK'
<1>1. idle' \in Seq([stream : Streams, data : Chunk])
  BY ProbeChunk DEF TypeOK, CutChunk
<1>2. received' \in [Streams -> Nat]
  BY DEF TypeOK, CutChunk
<1>3. adapter' \in [Streams -> [from : Nat, rap : BOOLEAN]]
  BY DEF TypeOK, CutChunk
<1>4. UNCHANGED <<isHls, chunks, nChunks, nHlsChunks, resources, needUpdate,
                  index, variant>>
  BY DEF CutChunk
<1>5. /\ isHls' \in [Streams -> BOOLEAN]
      /\ chunks' \in [Streams -> [Slots -> Segment]]
      /\ nChunks' \in [Streams -> Nat]
      /\ nHlsChunks' \in Nat
      /\ needUpdate' \in [Streams -> BOOLEAN]
      /\ variant' \subseteq Streams
  BY <1>4 DEF TypeOK
<1>6. resources' \subseteq [loc : {Key[t] : t \in Streams} \X Nat,
                            stream : Streams, slot : Slots]
  BY <1>4 DEF TypeOK
<1>7. /\ DOMAIN index' = Streams
      /\ \A t \in Streams :
            /\ index'[t].built \in BOOLEAN
            /\ index'[t].seq \in Nat
            /\ index'[t].end \in Nat
            /\ index'[t].loc \in [index'[t].seq .. index'[t].end - 1 -> Nat]
  BY <1>4 DEF TypeOK
<1>. QED
  BY <1>1, <1>2, <1>3, <1>5, <1>6, <1>7 DEF TypeOK

LEMMA CollectType ==
    ASSUME TypeOK, NEW s \in Streams, NEW rap \in BOOLEAN, Collect(s, rap)
    PROVE  TypeOK'
<1>1. received' \in [Streams -> Nat]
  BY DEF TypeOK, Collect
<1>2. adapter' \in [Streams -> [from : Nat, rap : BOOLEAN]]
  BY DEF TypeOK, Collect
<1>. QED
  BY <1>1, <1>2 DEF TypeOK, Collect

LEMMA HeadOfIdle ==
    ASSUME TypeOK, idle # <<>>
    PROVE  /\ Head(idle).stream \in Streams
           /\ Head(idle).data \in Chunk
           /\ nChunks[Head(idle).stream] \in Nat
           /\ Tail(idle) \in Seq([stream : Streams, data : Chunk])
<1>1. idle \in Seq([stream : Streams, data : Chunk]) /\ nChunks \in [Streams -> Nat]
  BY DEF TypeOK
<1>2. /\ Head(idle) \in [stream : Streams, data : Chunk]
      /\ Tail(idle) \in Seq([stream : Streams, data : Chunk])
  BY <1>1, HeadTailProperties
<1>. QED
  BY <1>1, <1>2

LEMMA AddChunkType == ASSUME TypeOK, AddChunk PROVE TypeOK'
<1> DEFINE s == Head(idle).stream
           n == nChunks[s]
           slot == n % Ring
<1>1. /\ s \in Streams /\ Head(idle).data \in Chunk /\ n \in Nat
      /\ Tail(idle) \in Seq([stream : Streams, data : Chunk])
  BY HeadOfIdle DEF AddChunk
<1>2. slot \in Slots
  BY <1>1, SlotInSlots
<1>3. chunks' \in [Streams -> [Slots -> Segment]]
  <2>1. [used |-> TRUE, index |-> n, data |-> Head(idle).data] \in Segment
    BY <1>1 DEF Segment
  <2>2. chunks' = [chunks EXCEPT ![s][slot] =
                     [used |-> TRUE, index |-> n, data |-> Head(idle).data]]
    BY DEF AddChunk
  <2>. HIDE DEF s, n, slot
  <2>. QED
    BY <1>1, <1>2, <2>1, <2>2 DEF TypeOK
<1>4. resources' \subseteq [loc : {Key[t] : t \in Streams} \X Nat,
                            stream : Streams, slot : Slots]
  <2>1. Resource(s, n) \in [loc : {Key[t] : t \in Streams} \X Nat,
                            stream : Streams, slot : Slots]
    BY <1>1, <1>2 DEF Resource, Location
  <2>2. resources' \subseteq resources \cup {Resource(s, n)}
    BY DEF AddChunk, Evicted
  <2>. QED
    BY <2>1, <2>2 DEF TypeOK
<1>5. nChunks' \in [Streams -> Nat] /\ nHlsChunks' \in Nat
  BY <1>1 DEF TypeOK, AddChunk
<1>6. needUpdate' \in [Streams -> BOOLEAN]
  BY <1>1 DEF TypeOK, AddChunk
<1>7. variant' \subseteq Streams
  BY DEF TypeOK, AddChunk, Playable
<1>8. idle' \in Seq([stream : Streams, data : Chunk])
  BY <1>1 DEF AddChunk
<1>9. UNCHANGED <<isHls, received, adapter, index>>
  BY DEF AddChunk
<1>. QED
  BY <1>3, <1>4, <1>5, <1>6, <1>7, <1>8, <1>9 DEF TypeOK

(* What a new index playlist looks like.                                   *)
LEMMA IndexType ==
    ASSUME TypeOK, NEW s \in Streams
    PROVE  /\ Index(s).built = TRUE
           /\ Index(s).seq \in Nat
           /\ Index(s).end = nChunks[s]
           /\ Index(s).loc = [i \in Index(s).seq .. nChunks[s] - 1 |->
                                chunks[s][i % Ring].index]
           /\ Index(s).loc \in [Index(s).seq .. Index(s).end - 1 -> Nat]
<1>1. SeqNum \in Nat
  BY WindowAssumption, RingAssumption DEF SeqNum, TypeOK
<1>2. nChunks[s] \in Nat
  BY DEF TypeOK
<1>3. \A i \in SeqNum .. nChunks[s] - 1 : chunks[s][i % Ring].index \in Nat
  <2>1. TAKE i \in SeqNum .. nChunks[s] - 1
  <2>2. i % Ring \in Slots
    BY <1>1, <1>2, SlotInSlots
  <2>. QED
    BY <2>2 DEF TypeOK, Segment
<1>. QED
  BY <1>1, <1>2, <1>3 DEF Index

LEMMA GetIndexType == ASSUME TypeOK, NEW s \in Streams, GetIndex(s) PROVE TypeOK'
<1>1. needUpdate' \in [Streams -> BOOLEAN]
  BY DEF TypeOK, GetIndex
<1>2. DOMAIN index' = Streams
  BY DEF TypeOK, GetIndex
<1>3. ASSUME NEW t \in Streams
      PROVE  index'[t] = index[t] \/ (t = s /\ index'[t] = Index(s))
  BY DEF TypeOK, GetIndex
<1>4. \A t \in Streams :
          /\ index'[t].built \in BOOLEAN
          /\ index'[t].seq \in Nat
          /\ index'[t].end \in Nat
          /\ index'[t].loc \in [index'[t].seq .. index'[t].end - 1 -> Nat]
  <2>1. TAKE t \in Streams
  <2>2. CASE index'[t] = index[t]
    BY <2>2 DEF TypeOK
  <2>3. CASE t = s /\ index'[t] = Index(s)
    <3>1. Index(s).built \in BOOLEAN /\ Index(s).seq \in Nat /\ Index(s).end \in Nat
      BY IndexType DEF TypeOK
    <3>2. Index(s).loc \in [Index(s).seq .. Index(s).end - 1 -> Nat]
      BY IndexType
    <3>. QED
      BY <2>3, <3>1, <3>2
  <2>. QED
    BY <1>3, <2>2, <2>3
<1>. QED
  BY <1>1, <1>2, <1>4 DEF TypeOK, GetIndex

LEMMA NextType == TypeOK /\ [Next]_vars => TypeOK'
<1>1. SUFFICES ASSUME TypeOK, [Next]_vars PROVE TypeOK'
  OBVIOUS
<1>2. ASSUME NEW s \in Streams, AddHls(s) PROVE TypeOK'
  BY <1>1, <1>2, AddHlsType
<1>3. ASSUME NEW s \in Streams, CutChunk(s) PROVE TypeOK'
  BY <1>1, <1>3, CutChunkType
<1>4. ASSUME NEW s \in Streams, NEW rap \in BOOLEAN, Collect(s, rap) PROVE TypeOK'
  BY <1>1, <1>4, CollectType
<1>5. CASE AddChunk
  BY <1>1, <1>5, AddChunkType
<1>6. ASSUME NEW s \in Streams, GetIndex(s) PROVE TypeOK'
  BY <1>1, <1>6, GetIndexType
<1>7. CASE UNCHANGED vars
  BY <1>1, <1>7 DEF vars, TypeOK
<1>. QED
  BY <1>1, <1>2, <1>3, <1>4, <1>5, <1>6, <1>7 DEF Next

(* Every variable stays in its range.                                      *)
THEOREM TypeCorrect == Spec => []TypeOK
<1>1. Init => TypeOK
  BY InitTypeOK
<1>. QED
  BY <1>1, NextType, PTL DEF Spec

-----------------------------------------------------------------------------
(* The ring, the table and the playlists                                   *)

(* What a new segment of stream s does to the live numbers.                *)
LEMMA LiveStep ==
    ASSUME TypeOK, NEW s \in Streams,
           nChunks' = [nChunks EXCEPT ![s] = nChunks[s] + 1]
    PROVE  /\ \A t \in Streams \ {s} : Live(t)' = Live(t)
           /\ Live(s)' = (Live(s) \ {nChunks[s] - Ring}) \cup {nChunks[s]}
           /\ nChunks[s] \in Nat
           /\ nChunks'[s] = nChunks[s] + 1
<1>1. nChunks[s] \in Nat /\ nChunks'[s] = nChunks[s] + 1
  BY DEF TypeOK
<1>2. \A t \in Streams \ {s} : nChunks'[t] = nChunks[t]
  BY DEF TypeOK
<1>3. \A t \in Streams \ {s} : Live(t)' = Live(t)
  BY <1>2 DEF Live
<1>4. Live(s)' = (Live(s) \ {nChunks[s] - Ring}) \cup {nChunks[s]}
  <2>1. Live(s)' = {i \in 0 .. nChunks[s] : nChunks[s] + 1 - i <= Ring}
    BY <1>1 DEF Live
  <2>2. Live(s) = {i \in 0 .. nChunks[s] - 1 : nChunks[s] - i <= Ring}
    BY DEF Live
  <2>. QED
    BY <1>1, <2>1, <2>2, RingAssumption
<1>. QED
  BY <1>1, <1>3, <1>4

(* What AddChunk does, with names for its parts.                           *)
LEMMA AddChunkParts ==
    ASSUME IInv, AddChunk
    PROVE  \E s \in Streams, d \in Chunk :
              LET n == nChunks[s]
                  k == n % Ring
              IN /\ n \in Nat
                 /\ k \in Slots
                 /\ chunks' = [chunks EXCEPT ![s][k] =
                                 [used |-> TRUE, index |-> n, data |-> d]]
                 /\ resources' = {r \in Evicted(s, chunks[s][k]) :
                                    r.loc # Location(s, n)} \cup {Resource(s, n)}
                 /\ needUpdate' = [needUpdate EXCEPT ![s] = TRUE]
                 /\ nChunks' = [nChunks EXCEPT ![s] = n + 1]
                 /\ index' = index
<1>1. idle # <<>> /\ TypeOK
  BY DEF AddChunk, IInv
<1>2. /\ Head(idle).stream \in Streams /\ Head(idle).data \in Chunk
      /\ nChunks[Head(idle).stream] \in Nat
  BY <1>1, HeadOfIdle
<1>3. nChunks[Head(idle).stream] % Ring \in Slots
  BY <1>2, SlotInSlots
<1>. QED
  BY <1>2, <1>3 DEF AddChunk

(* The segment that a new one finds in its slot is the one that leaves the *)
(* live numbers.                                                           *)
LEMMA OldSegment ==
    ASSUME IInv, NEW s \in Streams
    PROVE  LET n == nChunks[s]
               old == chunks[s][n % Ring]
           IN /\ old.used => old.index = n - Ring
              /\ n >= Ring => old.used
              /\ \A i \in Live(s) : i # n - Ring => i % Ring # n % Ring
<1> DEFINE n == nChunks[s]
           old == chunks[s][n % Ring]
<1>1. n \in Nat /\ Ring \in Nat \ {0} /\ n % Ring \in Slots
  BY SlotInSlots, RingAssumption DEF IInv, TypeOK
<1>2. ASSUME NEW i \in Live(s), i # n - Ring PROVE i % Ring # n % Ring
  <2>1. i \in Nat /\ i < n /\ n - i <= Ring
    BY LiveIsNat DEF IInv
  <2>. QED
    BY <1>1, <1>2, <2>1, ModApart
<1>3. ASSUME old.used PROVE old.index = n - Ring
  <2>1. old.index \in Live(s) /\ old.index % Ring = n % Ring
    BY <1>1, <1>3 DEF IInv, SlotsHoldOnlyLive
  <2>. QED
    BY <1>2, <2>1
<1>4. ASSUME n >= Ring PROVE old.used
  <2>1. n - Ring \in 0 .. n - 1 /\ (n - Ring) % Ring = n % Ring
    BY <1>1, <1>4, ModStep
  <2>. QED
    BY <2>1 DEF IInv, PastSlotsUsed
<1>. QED
  BY <1>2, <1>3, <1>4

LEMMA AddChunkIInv == ASSUME IInv, AddChunk PROVE IInv'
<1>1. TypeOK /\ TypeOK'
  BY AddChunkType DEF IInv
<1>2. PICK s \in Streams, d \in Chunk :
        LET n == nChunks[s]
            k == n % Ring
        IN /\ n \in Nat
           /\ k \in Slots
           /\ chunks' = [chunks EXCEPT ![s][k] =
                           [used |-> TRUE, index |-> n, data |-> d]]
           /\ resources' = {r \in Evicted(s, chunks[s][k]) :
                              r.loc # Location(s, n)} \cup {Resource(s, n)}
           /\ needUpdate' = [needUpdate EXCEPT ![s] = TRUE]
           /\ nChunks' = [nChunks EXCEPT ![s] = n + 1]
           /\ index' = index
  BY AddChunkParts
<1> DEFINE n == nChunks[s]
           k == n % Ring
           old == chunks[s][k]
           new == [used |-> TRUE, index |-> n, data |-> d]
<1>3. /\ n \in Nat /\ k \in Slots /\ Ring \in Nat \ {0}
      /\ nChunks' = [nChunks EXCEPT ![s] = n + 1]
      /\ chunks' = [chunks EXCEPT ![s][k] = new]
      /\ resources' = {r \in Evicted(s, old) : r.loc # Location(s, n)}
                         \cup {Resource(s, n)}
      /\ needUpdate' = [needUpdate EXCEPT ![s] = TRUE]
      /\ index' = index
  BY <1>2, RingAssumption
<1>4. /\ \A t \in Streams \ {s} : Live(t)' = Live(t)
      /\ Live(s)' = (Live(s) \ {n - Ring}) \cup {n}
      /\ nChunks'[s] = n + 1
  BY <1>1, <1>3, LiveStep
<1>5. /\ old.used => old.index = n - Ring
      /\ n >= Ring => old.used
      /\ \A i \in Live(s) : i # n - Ring => i % Ring # k
  BY OldSegment
<1>6. /\ \A t \in Streams \ {s} : chunks'[t] = chunks[t] /\ nChunks'[t] = nChunks[t]
                                  /\ needUpdate'[t] = needUpdate[t]
      /\ \A j \in Slots \ {k} : chunks'[s][j] = chunks[s][j]
      /\ chunks'[s][k] = new
      /\ needUpdate'[s] = TRUE
  BY <1>1, <1>3 DEF TypeOK
<1>7. n \notin Live(s) /\ \A t \in Streams : Live(t) \subseteq Nat
  BY <1>1, <1>3 DEF Live, TypeOK
<1>8. new.used = TRUE /\ new.index = n
  OBVIOUS
<1>9. \A i \in Nat : i % Ring \in Slots
  BY SlotInSlots
<1> HIDE DEF n, k, old, new
<1>10. RingHoldsLive'
  <2>1. ASSUME NEW t \in Streams, NEW i \in Live(t)'
        PROVE  chunks'[t][i % Ring].used /\ chunks'[t][i % Ring].index = i
    <3>1. CASE t # s
      BY <1>4, <1>6, <2>1, <3>1 DEF IInv, RingHoldsLive
    <3>2. CASE t = s /\ i = n
      BY <1>6, <1>8, <3>2 DEF k, n
    <3>3. CASE t = s /\ i # n
      <4>1. i \in Live(s) /\ i # n - Ring
        BY <1>4, <2>1, <3>3
      <4>2. i % Ring \in Slots \ {k}
        BY <1>5, <1>7, <1>9, <4>1
      <4>. QED
        BY <1>6, <3>3, <4>1, <4>2 DEF IInv, RingHoldsLive
    <3>. QED
      BY <3>1, <3>2, <3>3
  <2>. QED
    BY <2>1 DEF RingHoldsLive
<1>11. SlotsHoldOnlyLive'
  <2>1. ASSUME NEW t \in Streams, NEW j \in Slots, chunks'[t][j].used
        PROVE  chunks'[t][j].index \in Live(t)' /\ chunks'[t][j].index % Ring = j
    <3>1. CASE t # s
      BY <1>4, <1>6, <2>1, <3>1 DEF IInv, SlotsHoldOnlyLive
    <3>2. CASE t = s /\ j = k
      BY <1>4, <1>6, <1>8, <3>2 DEF k, n
    <3>3. CASE t = s /\ j # k
      <4>1. /\ chunks[s][j].used /\ chunks[s][j].index \in Live(s)
            /\ chunks[s][j].index % Ring = j
        BY <1>6, <2>1, <3>3 DEF IInv, SlotsHoldOnlyLive
      <4>2. chunks[s][j].index # n - Ring
        <5>1. SUFFICES ASSUME chunks[s][j].index = n - Ring PROVE FALSE
          OBVIOUS
        <5>2. n - Ring \in Nat
          BY <4>1, <5>1, <1>7
        <5>3. (n - Ring) % Ring = k
          BY <1>3, <5>2, ModStep DEF k, n
        <5>. QED
          BY <3>3, <4>1, <5>1, <5>3
      <4>. QED
        BY <1>4, <1>6, <3>3, <4>1, <4>2
    <3>. QED
      BY <3>1, <3>2, <3>3
  <2>. QED
    BY <2>1 DEF SlotsHoldOnlyLive
<1>12. PastSlotsUsed'
  <2>1. ASSUME NEW t \in Streams, NEW i \in 0 .. nChunks'[t] - 1
        PROVE  chunks'[t][i % Ring].used
    <3>1. CASE t # s
      BY <1>6, <2>1, <3>1 DEF IInv, PastSlotsUsed
    <3>2. CASE t = s /\ i % Ring = k
      BY <1>6, <1>8, <3>2
    <3>3. CASE t = s /\ i % Ring # k
      <4>1. i \in 0 .. n - 1
        BY <1>3, <1>4, <2>1, <3>3 DEF k
      <4>2. i % Ring \in Slots \ {k}
        BY <1>9, <3>3, <4>1
      <4>. QED
        BY <1>6, <3>3, <4>1, <4>2 DEF IInv, PastSlotsUsed, n
    <3>. QED
      BY <3>1, <3>2, <3>3
  <2>. QED
    BY <2>1 DEF PastSlotsUsed
<1>13. TableIsLive'
  <2>1. ASSUME NEW r, r \in resources'
        PROVE  \E t \in Streams : \E i \in Live(t)' : r = Resource(t, i)
    <3>1. CASE r = Resource(s, n)
      BY <1>4, <3>1
    <3>2. CASE r \in Evicted(s, old)
      <4>1. r \in resources
        BY <3>2 DEF Evicted
      <4>5. PICK t \in Streams : \E i \in Live(t) : r = Resource(t, i)
        BY <4>1 DEF IInv, TableIsLive
      <4>2. PICK i \in Live(t) : r = Resource(t, i)
        BY <4>5
      <4>3. CASE t # s
        BY <1>4, <4>2, <4>3
      <4>4. CASE t = s
        <5>1. i \in Nat /\ i < nChunks[s] /\ nChunks[s] - i <= Ring
          BY <1>1, <4>4, LiveIsNat
        <5>2. ASSUME i = n - Ring PROVE FALSE
          <6>1. n >= Ring
            BY <1>3, <5>1, <5>2 DEF n
          <6>2. old.used /\ old.index = i
            BY <1>5, <5>2, <6>1
          <6>3. r.loc # Location(s, i)
            BY <3>2, <6>2 DEF Evicted
          <6>. QED
            BY <4>2, <4>4, <6>3 DEF Resource
        <5>. QED
          BY <1>4, <4>2, <4>4, <5>2
      <4>. QED
        BY <4>3, <4>4
    <3>. QED
      BY <1>3, <2>1, <3>1, <3>2
  <2>2. ASSUME NEW t \in Streams, NEW i \in Live(t)'
        PROVE  Resource(t, i) \in resources'
    <3>1. CASE t = s /\ i = n
      BY <1>3, <3>1
    <3>2. CASE ~(t = s /\ i = n)
      <4>1. i \in Live(t) /\ (t = s => i # n - Ring)
        BY <1>4, <2>2, <3>2
      <4>2. Resource(t, i) \in resources
        BY <4>1 DEF IInv, TableIsLive
      <4>3. Resource(t, i).loc # Location(s, n)
        BY <3>2, LocationInjective DEF Resource
      <4>4. old.used => Resource(t, i).loc # Location(s, old.index)
        BY <1>5, <4>1, LocationInjective DEF Resource
      <4>. QED
        BY <1>3, <4>2, <4>3, <4>4 DEF Evicted
    <3>. QED
      BY <3>1, <3>2
  <2>3. \A t, i : Resource(t, i)' = Resource(t, i)
    BY DEF Resource, Location
  <2>. QED
    BY <2>1, <2>2, <2>3 DEF TableIsLive
<1>14. IndexIsPast'
  <2>1. ASSUME NEW t \in Streams PROVE index[t].end <= nChunks'[t]
    <3>1. index[t].end \in Nat /\ index[t].end <= nChunks[t] /\ nChunks[t] \in Nat
      BY <1>1 DEF IInv, TypeOK, IndexIsPast
    <3>. QED
      BY <1>4, <1>6, <3>1 DEF n
  <2>. QED
    BY <1>3, <2>1 DEF IndexIsPast
<1>15. IndexIsRight'
  <2>1. ASSUME NEW t \in Streams, NEW i \in index[t].seq .. index[t].end - 1,
               i \in Live(t)'
        PROVE  index[t].loc[i] = i
    <3>1. /\ index[t].seq \in Nat /\ index[t].end \in Nat
          /\ index[t].end <= nChunks[t] /\ nChunks[t] \in Nat
      BY <1>1 DEF IInv, TypeOK, IndexIsPast
    <3>2. i < nChunks[t]
      BY <2>1, <3>1
    <3>3. i \in Live(t)
      BY <1>3, <1>4, <2>1, <3>2 DEF n
    <3>. QED
      BY <2>1, <3>3 DEF IInv, IndexIsRight
  <2>. QED
    BY <1>3, <2>1 DEF IndexIsRight
<1>16. IndexIsLive'
  <2>1. ASSUME NEW t \in Streams, index[t].built, ~needUpdate'[t]
        PROVE  /\ index[t].end = nChunks'[t]
               /\ \A i \in index[t].seq .. index[t].end - 1 :
                       index[t].loc[i] \in Live(t)'
    <3>1. t # s
      BY <1>6, <2>1
    <3>. QED
      BY <1>4, <1>6, <2>1, <3>1 DEF IInv, IndexIsLive
  <2>. QED
    BY <1>3, <2>1 DEF IndexIsLive
<1>. QED
  BY <1>1, <1>10, <1>11, <1>12, <1>13, <1>14, <1>15, <1>16 DEF IInv

(* The probe and AddHls leave alone all that the invariant is about.       *)
LEMMA FrameIInv ==
    ASSUME IInv, TypeOK',
           UNCHANGED <<chunks, nChunks, resources, needUpdate, index>>
    PROVE  IInv'
<1>1. \A t : Live(t)' = Live(t)
  BY DEF Live
<1>2. \A t, i : Resource(t, i)' = Resource(t, i)
  BY DEF Resource, Location
<1>3. RingHoldsLive' /\ SlotsHoldOnlyLive' /\ PastSlotsUsed'
  BY <1>1 DEF IInv, RingHoldsLive, SlotsHoldOnlyLive, PastSlotsUsed
<1>4. TableIsLive'
  BY <1>1, <1>2 DEF IInv, TableIsLive
<1>5. IndexIsPast' /\ IndexIsRight' /\ IndexIsLive'
  BY <1>1 DEF IInv, IndexIsPast, IndexIsRight, IndexIsLive
<1>. QED
  BY <1>3, <1>4, <1>5 DEF IInv

LEMMA GetIndexIInv == ASSUME IInv, NEW s \in Streams, GetIndex(s) PROVE IInv'
<1>1. TypeOK /\ TypeOK'
  BY GetIndexType DEF IInv
<1>2. UNCHANGED <<chunks, nChunks, resources>>
  BY DEF GetIndex
<1>3. \A t : Live(t)' = Live(t)
  BY <1>2 DEF Live
<1>4. RingHoldsLive' /\ SlotsHoldOnlyLive' /\ PastSlotsUsed'
  BY <1>2, <1>3 DEF IInv, RingHoldsLive, SlotsHoldOnlyLive, PastSlotsUsed
<1>5. TableIsLive'
  <2>1. \A t, i : Resource(t, i)' = Resource(t, i)
    BY DEF Resource, Location
  <2>. QED
    BY <1>2, <1>3, <2>1 DEF IInv, TableIsLive
<1>6. /\ \A t \in Streams \ {s} : index'[t] = index[t] /\ needUpdate'[t] = needUpdate[t]
      /\ \/ index'[s] = index[s] /\ index[s].built /\ ~needUpdate[s]
         \/ index'[s] = Index(s)
  BY <1>1 DEF GetIndex, TypeOK
<1>7. /\ Index(s).end = nChunks[s] /\ Index(s).seq \in Nat /\ nChunks[s] \in Nat
      /\ Index(s).loc = [i \in Index(s).seq .. nChunks[s] - 1 |->
                            chunks[s][i % Ring].index]
  BY <1>1, IndexType DEF TypeOK
<1>8. IndexIsPast'
  <2>1. ASSUME NEW t \in Streams PROVE index'[t].end <= nChunks[t]
    BY <1>6, <1>7 DEF IInv, IndexIsPast
  <2>. QED
    BY <1>2, <2>1 DEF IndexIsPast
<1>9. IndexIsRight'
  <2>1. ASSUME NEW t \in Streams, NEW i \in index'[t].seq .. index'[t].end - 1,
               i \in Live(t)
        PROVE  index'[t].loc[i] = i
    <3>1. CASE index'[t] = index[t]
      BY <2>1, <3>1 DEF IInv, IndexIsRight
    <3>2. CASE t = s /\ index'[s] = Index(s)
      BY <1>7, <2>1, <3>2 DEF IInv, RingHoldsLive
    <3>. QED
      BY <1>6, <3>1, <3>2
  <2>. QED
    BY <1>3, <2>1 DEF IndexIsRight
<1>10. IndexIsLive'
  <2>1. ASSUME NEW t \in Streams, index'[t].built, ~needUpdate'[t]
        PROVE  /\ index'[t].end = nChunks[t]
               /\ \A i \in index'[t].seq .. index'[t].end - 1 :
                       index'[t].loc[i] \in Live(t)
    <3>1. CASE index'[t] = index[t] /\ index[t].built /\ ~needUpdate[t]
      BY <3>1 DEF IInv, IndexIsLive
    <3>2. CASE t = s /\ index'[s] = Index(s)
      <4>1. ASSUME NEW i \in Index(s).seq .. nChunks[s] - 1
            PROVE  chunks[s][i % Ring].index \in Live(s)
        <5>1. i \in 0 .. nChunks[s] - 1
          BY <1>7
        <5>2. chunks[s][i % Ring].used
          BY <5>1 DEF IInv, PastSlotsUsed
        <5>3. i % Ring \in Slots
          BY <5>1, SlotInSlots
        <5>. QED
          BY <5>2, <5>3 DEF IInv, SlotsHoldOnlyLive
      <4>. QED
        BY <1>7, <3>2, <4>1
    <3>. QED
      BY <1>6, <2>1, <3>1, <3>2
  <2>. QED
    BY <1>2, <1>3, <2>1 DEF IndexIsLive
<1>. QED
  BY <1>1, <1>4, <1>5, <1>8, <1>9, <1>10 DEF IInv

LEMMA NextIInv == IInv /\ [Next]_vars => IInv'
<1>1. SUFFICES ASSUME IInv, [Next]_vars PROVE IInv'
  OBVIOUS
<1>2. TypeOK'
  BY <1>1, NextType DEF IInv
<1>3. ASSUME NEW s \in Streams, AddHls(s) PROVE IInv'
  BY <1>1, <1>2, <1>3, FrameIInv DEF AddHls
<1>4. ASSUME NEW s \in Streams, CutChunk(s) PROVE IInv'
  BY <1>1, <1>2, <1>4, FrameIInv DEF CutChunk
<1>5. ASSUME NEW s \in Streams, NEW rap \in BOOLEAN, Collect(s, rap) PROVE IInv'
  BY <1>1, <1>2, <1>5, FrameIInv DEF Collect
<1>6. CASE AddChunk
  BY <1>1, <1>6, AddChunkIInv
<1>7. ASSUME NEW s \in Streams, GetIndex(s) PROVE IInv'
  BY <1>1, <1>7, GetIndexIInv
<1>8. CASE UNCHANGED vars
  BY <1>1, <1>2, <1>8, FrameIInv DEF vars
<1>. QED
  BY <1>1, <1>3, <1>4, <1>5, <1>6, <1>7, <1>8 DEF Next

(* The inductive invariant holds in every state.                            *)
THEOREM Inductive == Spec => []IInv
<1>. QED
  BY InitIInv, NextIInv, PTL DEF Spec

-----------------------------------------------------------------------------
(* The safety properties                                                   *)

LEMMA FoundIsLive ==
    ASSUME IInv, NEW s \in Streams, NEW n
    PROVE  Found(s, n) <=> n \in Live(s)
<1>1. ASSUME Found(s, n) PROVE n \in Live(s)
  <2>1. PICK r \in resources : r.loc = Location(s, n)
    BY <1>1 DEF Found
  <2>2. PICK t \in Streams : \E i \in Live(t) : r = Resource(t, i)
    BY <2>1 DEF IInv, TableIsLive
  <2>3. PICK i \in Live(t) : r = Resource(t, i)
    BY <2>2
  <2>4. Location(t, i) = Location(s, n)
    BY <2>1, <2>3 DEF Resource
  <2>. QED
    BY <2>3, <2>4, LocationInjective
<1>2. ASSUME n \in Live(s) PROVE Found(s, n)
  <2>1. Resource(s, n) \in resources
    BY <1>2 DEF IInv, TableIsLive
  <2>2. Resource(s, n).loc = Location(s, n)
    BY DEF Resource
  <2>. QED
    BY <2>1, <2>2 DEF Found
<1>. QED
  BY <1>1, <1>2

(* The URLs of a stream that answer are those of its Ring newest segments: *)
(* gss_program_add_hls_chunk removes the right resource, always.           *)
THEOREM UrlsCorrect == Spec => []UrlsAreTheLiveOnes
<1>1. IInv => UrlsAreTheLiveOnes
  BY FoundIsLive DEF UrlsAreTheLiveOnes
<1>. QED
  BY <1>1, Inductive, PTL

(* A segment's URL never serves the data of another segment, although the  *)
(* resource only holds a pointer to a slot that is reused.                 *)
THEOREM UrlServesCorrect == Spec => []UrlServesItsOwnChunk
<1>1. IInv => UrlServesItsOwnChunk
  <2>1. SUFFICES ASSUME IInv, NEW r \in resources
                 PROVE  Served(r).used /\ r.loc = Location(r.stream, Served(r).index)
    BY DEF UrlServesItsOwnChunk
  <2>2. PICK s \in Streams : \E i \in Live(s) : r = Resource(s, i)
    BY <2>1 DEF IInv, TableIsLive
  <2>3. PICK i \in Live(s) : r = Resource(s, i)
    BY <2>2
  <2>4. r.loc = Location(s, i) /\ r.stream = s /\ r.slot = i % Ring
    BY <2>3 DEF Resource
  <2>5. chunks[s][i % Ring].used /\ chunks[s][i % Ring].index = i
    BY <2>1 DEF IInv, RingHoldsLive
  <2>. QED
    BY <2>4, <2>5 DEF Served
<1>. QED
  BY <1>1, Inductive, PTL

(* Requests for segments are answered rightly: what is in the ring can be  *)
(* fetched, what was pushed out of it cannot, and nothing is mistaken.     *)
THEOREM RingCorrect == Spec => []RingIsServed
<1>. QED
  BY UrlsCorrect, UrlServesCorrect, PTL DEF RingIsServed

(* An entry of a playlist that was served is right as long as its segment  *)
(* is in the ring, whatever the other streams of the program do to the     *)
(* counter that they share.                                                *)
THEOREM ListedCorrect == Spec => []ListedSegmentsAreServed
<1>1. IInv => ListedSegmentsAreServed
  BY FoundIsLive DEF IInv, IndexIsRight, RingHoldsLive, ListedSegmentsAreServed
<1>. QED
  BY <1>1, Inductive, PTL

(* The cached index playlist is never served stale.                        *)
THEOREM CachedIndexCorrect == Spec => []CachedIndexIsFresh
<1>1. IInv => CachedIndexIsFresh
  BY FoundIsLive DEF IInv, IndexIsLive, CachedIndexIsFresh
<1>. QED
  BY <1>1, Inductive, PTL

(* Index playlists are right, the served ones and the cached one.          *)
THEOREM PlaylistsCorrect == Spec => []PlaylistsAreGood
<1>. QED
  BY ListedCorrect, CachedIndexCorrect, PTL DEF PlaylistsAreGood

(* The cached variant playlist names the streams that can be played now:   *)
(* rewriting it when a stream becomes HLS and at its first chunk is enough.*)
THEOREM VariantCorrect == Spec => []VariantIsFresh
<1>1. Init => VariantIsFresh
  BY DEF Init, VariantIsFresh, Playable
<1>2. TypeOK /\ VariantIsFresh /\ [Next]_vars => VariantIsFresh'
  <2>1. SUFFICES ASSUME TypeOK, VariantIsFresh, [Next]_vars PROVE VariantIsFresh'
    OBVIOUS
  <2>2. CASE \E s \in Streams : AddHls(s)
    BY <2>2 DEF AddHls, VariantIsFresh
  <2>3. CASE AddChunk
    <3> DEFINE s == Head(idle).stream
               n == nChunks[s]
    <3>1. s \in Streams /\ n \in Nat
      BY <2>1, <2>3, HeadOfIdle DEF AddChunk
    <3>2. /\ isHls' = isHls
          /\ nChunks' = [nChunks EXCEPT ![s] = n + 1]
          /\ variant' = IF n + 1 = 1 THEN Playable(isHls, nChunks') ELSE variant
      BY <2>3 DEF AddChunk, FirstChunk
    <3> HIDE DEF s
    <3>3. CASE n + 1 = 1
      BY <3>2, <3>3 DEF VariantIsFresh
    <3>4. CASE n + 1 # 1
      <4>1. \A t \in Streams : nChunks'[t] # 0 <=> nChunks[t] # 0
        BY <2>1, <3>1, <3>2, <3>4 DEF TypeOK
      <4>2. Playable(isHls, nChunks') = Playable(isHls, nChunks)
        BY <4>1 DEF Playable
      <4>. QED
        BY <2>1, <3>2, <3>4, <4>2 DEF VariantIsFresh
    <3>. QED
      BY <3>3, <3>4
  <2>4. CASE UNCHANGED <<isHls, nChunks, variant>>
    BY <2>1, <2>4 DEF VariantIsFresh, Playable
  <2>. QED
    BY <2>1, <2>2, <2>3, <2>4 DEF Next, CutChunk, Collect, GetIndex, vars
<1>. QED
  BY <1>1, <1>2, TypeCorrect, PTL DEF Spec

-----------------------------------------------------------------------------
(* The media of a stream, from its oldest segment in the ring over the     *)
(* pending chunks to what the adapter collects                             *)

(* The idle sources that hold chunks of stream s, by their places.         *)
Pending(s) == {j \in DOMAIN idle : idle[j].stream = s}

(* The segment of stream s that was published last                         *)
Newest(s) == chunks[s][(nChunks[s] - 1) % Ring].data

(* Media from buffer from on, a random access point if rap, goes on where  *)
(* the segment with this data ends.                                        *)
Continues(data, from, rap) == from = data.to /\ rap

(* So does what the adapter collects, which has a buffer by then.          *)
AdapterContinues(s, data) ==
    Continues(data, adapter[s].from, adapter[s].rap) /\ adapter[s].from < received[s]

(* The chunks of a stream that are pending follow each other.              *)
PendingIsContiguous ==
    \A s \in Streams : \A j, k \in Pending(s) :
        j < k /\ (\A m \in Pending(s) : m <= j \/ k <= m) =>
            Continues(idle[j].data, idle[k].data.from, idle[k].data.rap)

(* None of them is short.                                                  *)
PendingIsLong ==
    \A s \in Streams : \A j \in Pending(s) :
        idle[j].data.to - idle[j].data.from >= MinUnits

(* The first of them follows what was published.                           *)
PendingFollowsRing ==
    \A s \in Streams : \A k \in Pending(s) :
        nChunks[s] > 0 /\ (\A m \in Pending(s) : k <= m) =>
            Continues(Newest(s), idle[k].data.from, idle[k].data.rap)

(* The adapter follows the last of them, or else what was published.       *)
AdapterFollows ==
    \A s \in Streams :
        /\ adapter[s].from <= received[s]
        /\ \A j \in Pending(s) :
              (\A m \in Pending(s) : m <= j) => AdapterContinues(s, idle[j].data)
        /\ Pending(s) = {} /\ nChunks[s] > 0 => AdapterContinues(s, Newest(s))

MediaInv ==
    /\ SegmentsAreContiguous
    /\ PendingIsContiguous
    /\ PendingIsLong
    /\ PendingFollowsRing
    /\ AdapterFollows

LEMMA PendingType ==
    ASSUME TypeOK, NEW s \in Streams, NEW j \in Pending(s)
    PROVE  /\ j \in Nat \ {0} /\ j <= Len(idle)
           /\ idle[j].data.from \in Nat /\ idle[j].data.to \in Nat
<1>1. idle \in Seq([stream : Streams, data : Chunk]) /\ j \in DOMAIN idle
  BY DEF TypeOK, Pending
<1>2. j \in 1 .. Len(idle) /\ Len(idle) \in Nat
  BY <1>1, LenProperties
<1>3. idle[j] \in [stream : Streams, data : Chunk]
  BY <1>1, <1>2, ElementOfSeq
<1>. QED
  BY <1>2, <1>3 DEF Chunk

LEMMA MediaAtStart == Init => MediaInv
<1>1. SUFFICES ASSUME Init PROVE MediaInv
  OBVIOUS
<1>2. \A s \in Streams : Live(s) = {} /\ Pending(s) = {} /\ nChunks[s] = 0
  BY <1>1 DEF Init, Live, Pending
<1>3. \A s \in Streams : adapter[s].from = 0 /\ received[s] = 0
  BY <1>1 DEF Init
<1>. QED
  BY <1>2, <1>3 DEF MediaInv, SegmentsAreContiguous, PendingIsContiguous,
                    PendingIsLong, PendingFollowsRing, AdapterFollows

(* The probe touches the ring of no stream.                                *)
LEMMA RingFrame ==
    ASSUME SegmentsAreContiguous, UNCHANGED <<chunks, nChunks>>
    PROVE  SegmentsAreContiguous' /\ \A t : Newest(t)' = Newest(t)
BY DEF SegmentsAreContiguous, Newest, Live

LEMMA CollectMedia ==
    ASSUME TypeOK, MediaInv, NEW s \in Streams, NEW rap \in BOOLEAN, Collect(s, rap)
    PROVE  MediaInv'
<1>1. UNCHANGED <<idle, chunks, nChunks>>
  BY DEF Collect
<1>2. \A t : Pending(t)' = Pending(t)
  BY <1>1 DEF Pending
<1>3. SegmentsAreContiguous' /\ \A t : Newest(t)' = Newest(t)
  BY <1>1, RingFrame DEF MediaInv
<1>4. PendingIsContiguous' /\ PendingIsLong' /\ PendingFollowsRing'
  BY <1>1, <1>2, <1>3 DEF MediaInv, PendingIsContiguous, PendingIsLong, PendingFollowsRing
<1>5. /\ \A t \in Streams \ {s} : received'[t] = received[t] /\ adapter'[t] = adapter[t]
      /\ received'[s] = received[s] + 1 /\ received[s] \in Nat
      /\ adapter[s].from \in Nat
      /\ \/ adapter'[s] = adapter[s]
         \/ received[s] = adapter[s].from /\ adapter'[s].from = received[s]
  BY DEF Collect, Available, TypeOK
<1>6. AdapterFollows'
  <2> SUFFICES ASSUME NEW t \in Streams
               PROVE  /\ adapter'[t].from <= received'[t]
                      /\ \A j \in Pending(t) : (\A m \in Pending(t) : m <= j) =>
                            AdapterContinues(t, idle[j].data)'
                      /\ Pending(t) = {} /\ nChunks[t] > 0 =>
                            AdapterContinues(t, Newest(t))'
    BY <1>1, <1>2, <1>3 DEF AdapterFollows
  <2>1. CASE t # s
    BY <1>1, <1>3, <1>5, <2>1 DEF MediaInv, AdapterFollows, AdapterContinues, Continues
  <2>2. CASE t = s /\ adapter'[s] = adapter[s]
    BY <1>1, <1>3, <1>5, <2>2 DEF MediaInv, AdapterFollows, AdapterContinues, Continues
  <2>3. CASE t = s /\ received[s] = adapter[s].from /\ adapter'[s].from = received[s]
    BY <1>5, <2>3 DEF MediaInv, AdapterFollows, AdapterContinues
  <2> QED BY <1>5, <2>1, <2>2, <2>3
<1>. QED
  BY <1>3, <1>4, <1>6 DEF MediaInv

LEMMA CutChunkMedia ==
    ASSUME TypeOK, MediaInv, NEW s \in Streams, CutChunk(s)
    PROVE  MediaInv'
<1> DEFINE n == Len(idle) + 1
           new == [stream |-> s, data |-> [from |-> adapter[s].from,
                                           to |-> received[s],
                                           rap |-> adapter[s].rap]]
<1>1. UNCHANGED <<chunks, nChunks>> /\ idle' = Append(idle, new)
  BY DEF CutChunk
<1>2. SegmentsAreContiguous' /\ \A t : Newest(t)' = Newest(t)
  BY <1>1, RingFrame DEF MediaInv
<1>3. /\ idle \in Seq([stream : Streams, data : Chunk])
      /\ new \in [stream : Streams, data : Chunk]
  BY ProbeChunk DEF TypeOK
<1>4. /\ Len(idle) \in Nat
      /\ DOMAIN idle = 1 .. Len(idle) /\ DOMAIN idle' = 1 .. n
      /\ \A j \in DOMAIN idle : idle'[j] = idle[j]
      /\ idle'[n] = new
  BY ONLY <1>1, <1>3, AppendProperties, LenProperties
<1>5. /\ \A t \in Streams \ {s} : Pending(t)' = Pending(t)
      /\ Pending(s)' = Pending(s) \cup {n}
      /\ \A t \in Streams : \A j \in Pending(t) : idle'[j] = idle[j]
      /\ \A t \in Streams : \A j \in Pending(t) : j \in Nat /\ j < n
  BY <1>4 DEF Pending
<1>6. /\ \A t \in Streams \ {s} : received'[t] = received[t] /\ adapter'[t] = adapter[t]
      /\ received'[s] = received[s] + 1 /\ received[s] \in Nat
      /\ adapter[s].from \in Nat
      /\ adapter'[s].from = received[s] /\ adapter'[s].rap = TRUE
      /\ received[s] - adapter[s].from >= MinUnits
  BY DEF CutChunk, Available, TypeOK
<1>7. /\ new.data.from = adapter[s].from /\ new.data.to = received[s]
      /\ new.data.rap = adapter[s].rap
  OBVIOUS
<1>8. n \in Nat
  BY <1>4
<1> HIDE DEF n, new
<1>9. PendingIsContiguous'
  <2> SUFFICES ASSUME NEW t \in Streams, NEW j \in Pending(t)', NEW k \in Pending(t)',
                      j < k, \A m \in Pending(t)' : m <= j \/ k <= m
               PROVE  Continues(idle'[j].data, idle'[k].data.from, idle'[k].data.rap)
    BY DEF PendingIsContiguous, Continues
  <2>1. CASE t = s /\ k = n
    <3>1. j \in Pending(s) /\ \A m \in Pending(s) : m <= j
      BY <1>5, <1>8, <2>1
    <3>2. AdapterContinues(s, idle[j].data)
      BY <3>1 DEF MediaInv, AdapterFollows
    <3> QED BY <1>4, <1>5, <1>7, <2>1, <3>1, <3>2 DEF AdapterContinues, Continues
  <2>2. CASE ~(t = s /\ k = n)
    <3>1. j \in Pending(t) /\ k \in Pending(t) /\ Pending(t) \subseteq Pending(t)'
      BY <1>5, <1>8, <2>2
    <3> QED BY <1>5, <3>1 DEF MediaInv, PendingIsContiguous
  <2> QED BY <2>1, <2>2
<1>10. PendingIsLong'
  <2> SUFFICES ASSUME NEW t \in Streams, NEW j \in Pending(t)'
               PROVE  idle'[j].data.to - idle'[j].data.from >= MinUnits
    BY DEF PendingIsLong
  <2>1. CASE t = s /\ j = n
    BY <1>4, <1>6, <1>7, <2>1
  <2>2. CASE j \in Pending(t)
    BY <1>5, <2>2 DEF MediaInv, PendingIsLong
  <2> QED BY <1>5, <2>1, <2>2
<1>11. PendingFollowsRing'
  <2> SUFFICES ASSUME NEW t \in Streams, NEW k \in Pending(t)',
                      nChunks[t] > 0, \A m \in Pending(t)' : k <= m
               PROVE  Continues(Newest(t), idle'[k].data.from, idle'[k].data.rap)
    BY <1>1, <1>2 DEF PendingFollowsRing, Continues
  <2>1. CASE t = s /\ k = n
    <3>1. Pending(s) = {}
      BY <1>5, <1>8, <2>1
    <3>2. AdapterContinues(s, Newest(s))
      BY <2>1, <3>1 DEF MediaInv, AdapterFollows
    <3> QED BY <1>4, <1>7, <2>1, <3>2 DEF AdapterContinues, Continues
  <2>2. CASE k \in Pending(t)
    <3>1. \A m \in Pending(t) : k <= m
      BY <1>5
    <3> QED BY <1>5, <2>2, <3>1 DEF MediaInv, PendingFollowsRing
  <2> QED BY <1>5, <2>1, <2>2
<1>12. AdapterFollows'
  <2> SUFFICES ASSUME NEW t \in Streams
               PROVE  /\ adapter'[t].from <= received'[t]
                      /\ \A j \in Pending(t)' : (\A m \in Pending(t)' : m <= j) =>
                            AdapterContinues(t, idle[j].data)'
                      /\ Pending(t)' = {} /\ nChunks[t] > 0 =>
                            AdapterContinues(t, Newest(t))'
    BY <1>1, <1>2 DEF AdapterFollows
  <2>1. CASE t # s
    <3>1. /\ adapter[t].from <= received[t]
          /\ \A j \in Pending(t) : (\A m \in Pending(t) : m <= j) =>
                AdapterContinues(t, idle[j].data)
          /\ Pending(t) = {} /\ nChunks[t] > 0 => AdapterContinues(t, Newest(t))
      BY DEF MediaInv, AdapterFollows
    <3>2. adapter'[t] = adapter[t] /\ received'[t] = received[t]
      BY <1>6, <2>1
    <3>3. Pending(t)' = Pending(t) /\ \A j \in Pending(t) : idle'[j] = idle[j]
      BY <1>5, <2>1
    <3> QED BY <1>1, <1>2, <3>1, <3>2, <3>3 DEF AdapterContinues, Continues
  <2>2. CASE t = s
    <3>1. ASSUME NEW j \in Pending(s)', \A m \in Pending(s)' : m <= j
          PROVE  AdapterContinues(s, idle[j].data)'
      <4>1. j = n
        BY <1>5, <1>8, <3>1
      <4> QED BY <1>4, <1>6, <1>7, <4>1 DEF AdapterContinues, Continues
    <3> QED BY <1>5, <1>6, <2>2, <3>1
  <2> QED BY <2>1, <2>2
<1>. QED
  BY <1>2, <1>9, <1>10, <1>11, <1>12 DEF MediaInv

(* The chunk that is published leaves the head of the queue.               *)
LEMMA PendingStep ==
    ASSUME TypeOK, AddChunk
    PROVE  LET s == Head(idle).stream
           IN /\ 1 \in Pending(s) /\ idle[1] = Head(idle)
              /\ \A t \in Streams \ {s} : 1 \notin Pending(t)
              /\ \A t \in Streams : \A j \in Pending(t)' :
                    /\ j + 1 \in Pending(t) /\ idle'[j] = idle[j + 1]
                    /\ j \in Nat \ {0}
              /\ \A t \in Streams : \A j \in Pending(t) :
                    j \in Nat \ {0} /\ (j # 1 => j - 1 \in Pending(t)')
<1> DEFINE S == [stream : Streams, data : Chunk]
<1>1. idle # <<>> /\ idle' = Tail(idle) /\ idle \in Seq(S)
  BY DEF AddChunk, TypeOK
<1> HIDE DEF S
<1>2. /\ Len(idle) \in Nat \ {0}
      /\ DOMAIN idle = 1 .. Len(idle) /\ DOMAIN idle' = 1 .. Len(idle) - 1
      /\ Head(idle) = idle[1]
      /\ \A j \in 1 .. Len(idle) - 1 : idle'[j] = idle[j + 1]
  BY ONLY <1>1, HeadTailProperties, LenProperties, EmptySeq
<1>3. \A t \in Streams : \A j \in Pending(t) :
         j \in Nat \ {0} /\ (j # 1 => j - 1 \in Pending(t)')
  <2> SUFFICES ASSUME NEW t \in Streams, NEW j \in Pending(t)
               PROVE  j \in Nat \ {0} /\ (j # 1 => j - 1 \in Pending(t)')
    OBVIOUS
  <2>1. j \in 1 .. Len(idle) /\ idle[j].stream = t
    BY <1>2 DEF Pending
  <2>2. ASSUME j # 1 PROVE j - 1 \in DOMAIN idle' /\ idle'[j - 1] = idle[j]
    BY <1>2, <2>1, <2>2
  <2> QED BY <2>1, <2>2 DEF Pending
<1> QED BY <1>2, <1>3 DEF Pending

LEMMA AddChunkMedia ==
    ASSUME IInv, MediaInv, AddChunk
    PROVE  MediaInv'
<1>0. PICK s \in Streams, d \in Chunk : s = Head(idle).stream /\ d = Head(idle).data
  BY HeadOfIdle DEF AddChunk, IInv
<1> DEFINE n == nChunks[s]
           k == n % Ring
<1>1. /\ 1 \in Pending(s) /\ idle[1].data = d
      /\ \A t \in Streams \ {s} : 1 \notin Pending(t)
      /\ \A t \in Streams : \A j \in Pending(t)' :
            j + 1 \in Pending(t) /\ idle'[j] = idle[j + 1] /\ j \in Nat \ {0}
      /\ \A t \in Streams : \A j \in Pending(t) :
            j \in Nat \ {0} /\ (j # 1 => j - 1 \in Pending(t)')
  BY <1>0, PendingStep DEF IInv
<1>2. /\ s \in Streams /\ n \in Nat /\ k \in Slots /\ Ring \in Nat \ {0}
      /\ UNCHANGED <<received, adapter>>
  BY <1>0, HeadOfIdle, SlotInSlots, RingAssumption DEF AddChunk, IInv
<1>3. /\ nChunks' = [nChunks EXCEPT ![s] = n + 1]
      /\ chunks' = [chunks EXCEPT ![s][k] = [used |-> TRUE, index |-> n, data |-> d]]
  BY <1>0 DEF AddChunk
<1>4. /\ \A t \in Streams \ {s} : Live(t)' = Live(t)
      /\ Live(s)' = (Live(s) \ {n - Ring}) \cup {n}
      /\ nChunks'[s] = n + 1
  BY <1>2, <1>3, LiveStep DEF IInv
<1>5. \A i \in Live(s) : i # n - Ring => i % Ring # k
  BY <1>2, OldSegment
<1> HIDE DEF n, k
<1>6. /\ \A t \in Streams \ {s} : chunks'[t] = chunks[t] /\ nChunks'[t] = nChunks[t]
      /\ chunks'[s][k].data = d
      /\ \A j \in Slots \ {k} : chunks'[s][j] = chunks[s][j]
  BY <1>2, <1>3 DEF IInv, TypeOK
<1>7. /\ \A t \in Streams \ {s} : Newest(t)' = Newest(t)
      /\ Newest(s)' = d
  BY <1>2, <1>4, <1>6 DEF Newest, k, n
<1>8. \A m \in Pending(s) : 1 <= m
  BY <1>1, <1>2
<1>9. n > 0 => Continues(Newest(s), d.from, d.rap)
  BY <1>1, <1>2, <1>8 DEF MediaInv, PendingFollowsRing, n
<1>10. SegmentsAreContiguous'
  <2> SUFFICES ASSUME NEW t \in Streams, NEW i \in Live(t)'
               PROVE  LET here == chunks'[t][i % Ring].data
                      IN /\ here.to - here.from >= MinUnits
                         /\ i > 0 => here.rap
                         /\ i + 1 \in Live(t)' =>
                               chunks'[t][(i + 1) % Ring].data.from = here.to
    BY DEF SegmentsAreContiguous
  <2>1. CASE t # s
    BY <1>4, <1>6, <2>1 DEF MediaInv, SegmentsAreContiguous
  <2>2. CASE t = s /\ i = n
    <3>1. d.to - d.from >= MinUnits
      BY <1>1, <1>2 DEF MediaInv, PendingIsLong
    <3>2. i + 1 \notin Live(s)'
      BY <1>2, <1>4, <2>2 DEF Live
    <3>3. i > 0 => d.rap
      BY <1>9, <2>2 DEF Continues
    <3> QED BY <1>6, <2>2, <3>1, <3>2, <3>3 DEF k
  <2>3. CASE t = s /\ i # n
    <3>1. i \in Live(s) /\ i # n - Ring
      BY <1>4, <2>3
    <3>2. i \in Nat /\ i < n /\ i % Ring \in Slots \ {k}
      BY <1>2, <1>5, <3>1, LiveIsNat, SlotInSlots DEF IInv, n
    <3>3. chunks'[s][i % Ring] = chunks[s][i % Ring]
      BY <1>6, <3>2
    <3>4. CASE i + 1 = n
      <4>1. Newest(s) = chunks[s][i % Ring].data /\ n > 0
        <5>1. i = nChunks[s] - 1
          BY <1>2, <3>2, <3>4 DEF n
        <5> QED BY <3>2, <3>4, <5>1 DEF Newest
      <4>2. d.from = chunks[s][i % Ring].data.to
        BY <1>9, <4>1 DEF Continues
      <4> QED BY <1>6, <2>3, <3>1, <3>3, <3>4, <4>2
                 DEF MediaInv, SegmentsAreContiguous, k
    <3>5. CASE i + 1 # n
      <4>1. ASSUME i + 1 \in Live(s)'
            PROVE  chunks'[s][(i + 1) % Ring] = chunks[s][(i + 1) % Ring]
        <5>1. i + 1 \in Live(s) /\ i + 1 # n - Ring /\ i + 1 \in Nat
          BY <1>4, <3>2, <3>5, <4>1
        <5> QED BY <1>5, <1>6, <5>1, SlotInSlots
      <4>2. i + 1 \in Live(s)' => i + 1 \in Live(s)
        BY <1>4, <3>5
      <4> QED BY <2>3, <3>1, <3>3, <4>1, <4>2 DEF MediaInv, SegmentsAreContiguous
    <3> QED BY <3>4, <3>5
  <2> QED BY <2>1, <2>2, <2>3
<1>11. PendingIsLong'
  BY <1>1 DEF MediaInv, PendingIsLong
<1>12. PendingIsContiguous'
  <2> SUFFICES ASSUME NEW t \in Streams, NEW i \in Pending(t)', NEW j \in Pending(t)',
                      i < j, \A m \in Pending(t)' : m <= i \/ j <= m
               PROVE  Continues(idle'[i].data, idle'[j].data.from, idle'[j].data.rap)
    BY DEF PendingIsContiguous, Continues
  <2>1. i \in Nat \ {0} /\ j \in Nat \ {0} /\ i + 1 \in Pending(t) /\ j + 1 \in Pending(t)
    BY <1>1
  <2>2. i + 1 < j + 1
    BY <2>1
  <2>3. ASSUME NEW m \in Pending(t) PROVE m <= i + 1 \/ j + 1 <= m
    <3>1. m \in Nat \ {0} /\ (m # 1 => m - 1 \in Pending(t)')
      BY <1>1
    <3>2. CASE m = 1
      BY <2>1, <3>2
    <3>3. CASE m # 1
      <4>1. m - 1 <= i \/ j <= m - 1
        BY <3>1, <3>3
      <4> QED BY <2>1, <3>1, <4>1
    <3> QED BY <3>2, <3>3
  <2>4. Continues(idle[i + 1].data, idle[j + 1].data.from, idle[j + 1].data.rap)
    BY <2>1, <2>2, <2>3 DEF MediaInv, PendingIsContiguous
  <2> QED BY <1>1, <2>4
<1>13. PendingFollowsRing'
  <2> SUFFICES ASSUME NEW t \in Streams, NEW j \in Pending(t)',
                      nChunks'[t] > 0, \A m \in Pending(t)' : j <= m
               PROVE  Continues(Newest(t)', idle'[j].data.from, idle'[j].data.rap)
    BY DEF PendingFollowsRing, Continues
  <2>1. j \in Nat \ {0} /\ j + 1 \in Pending(t) /\ idle'[j] = idle[j + 1]
    BY <1>1
  <2>2. \A m \in Pending(t) : m <= 1 \/ j + 1 <= m
    <3> SUFFICES ASSUME NEW m \in Pending(t) PROVE m <= 1 \/ j + 1 <= m
      OBVIOUS
    <3>1. m \in Nat \ {0} /\ (m # 1 => m - 1 \in Pending(t)')
      BY <1>1
    <3>2. CASE m # 1
      <4>1. j <= m - 1
        BY <3>1, <3>2
      <4> QED BY <2>1, <3>1, <4>1
    <3> QED BY <3>2
  <2>3. CASE t = s
    <3>1. Continues(idle[1].data, idle[j + 1].data.from, idle[j + 1].data.rap)
      <4>1. 1 < j + 1
        BY <2>1
      <4> QED BY <1>1, <2>1, <2>2, <2>3, <4>1 DEF MediaInv, PendingIsContiguous
    <3> QED BY <1>1, <1>7, <2>1, <2>3, <3>1
  <2>4. CASE t # s
    <3>1. \A m \in Pending(t) : j + 1 <= m
      <4> SUFFICES ASSUME NEW m \in Pending(t) PROVE j + 1 <= m
        OBVIOUS
      <4>1. m \in Nat \ {0, 1}
        BY <1>1, <2>4
      <4> QED BY <2>2, <4>1
    <3> QED BY <1>6, <1>7, <2>1, <2>4, <3>1 DEF MediaInv, PendingFollowsRing
  <2> QED BY <2>3, <2>4
<1>14. AdapterFollows'
  <2> SUFFICES ASSUME NEW t \in Streams
               PROVE  /\ adapter[t].from <= received[t]
                      /\ \A j \in Pending(t)' : (\A m \in Pending(t)' : m <= j) =>
                            AdapterContinues(t, idle'[j].data)
                      /\ Pending(t)' = {} /\ nChunks'[t] > 0 =>
                            AdapterContinues(t, Newest(t)')
    BY <1>2 DEF AdapterFollows, AdapterContinues, Continues
  <2>1. adapter[t].from <= received[t]
    BY DEF MediaInv, AdapterFollows
  <2>2. ASSUME NEW j \in Pending(t)', \A m \in Pending(t)' : m <= j
        PROVE  AdapterContinues(t, idle'[j].data)
    <3>1. j \in Nat \ {0} /\ j + 1 \in Pending(t) /\ idle'[j] = idle[j + 1]
      BY <1>1
    <3>2. ASSUME NEW m \in Pending(t) PROVE m <= j + 1
      <4>1. m \in Nat \ {0} /\ (m # 1 => m - 1 \in Pending(t)')
        BY <1>1
      <4>2. CASE m # 1
        <5>1. m - 1 <= j
          BY <2>2, <4>1, <4>2
        <5> QED BY <3>1, <4>1, <5>1
      <4> QED BY <3>1, <4>2
    <3> QED BY <3>1, <3>2 DEF MediaInv, AdapterFollows
  <2>3. ASSUME Pending(t)' = {}, nChunks'[t] > 0
        PROVE  AdapterContinues(t, Newest(t)')
    <3>1. \A m \in Pending(t) : m = 1
      BY <1>1, <2>3
    <3>2. CASE t = s
      <4>1. AdapterContinues(s, idle[1].data)
        BY <1>1, <1>2, <3>1, <3>2 DEF MediaInv, AdapterFollows
      <4> QED BY <1>1, <1>7, <3>2, <4>1
    <3>3. CASE t # s
      <4>1. Pending(t) = {}
        BY <1>1, <3>1, <3>3
      <4> QED BY <1>6, <1>7, <2>3, <3>3, <4>1 DEF MediaInv, AdapterFollows
    <3> QED BY <3>2, <3>3
  <2> QED BY <2>1, <2>2, <2>3
<1> QED
  BY <1>10, <1>11, <1>12, <1>13, <1>14 DEF MediaInv

(* AddHls and GetIndex do not touch the media.                             *)
LEMMA FrameMedia ==
    ASSUME MediaInv, UNCHANGED <<received, adapter, idle, chunks, nChunks>>
    PROVE  MediaInv'
<1>1. \A t : Pending(t)' = Pending(t)
  BY DEF Pending
<1>2. SegmentsAreContiguous' /\ \A t : Newest(t)' = Newest(t)
  BY RingFrame DEF MediaInv
<1>3. PendingIsContiguous' /\ PendingIsLong' /\ PendingFollowsRing'
  BY <1>1, <1>2 DEF MediaInv, PendingIsContiguous, PendingIsLong, PendingFollowsRing
<1>4. AdapterFollows'
  BY <1>1, <1>2 DEF MediaInv, AdapterFollows, AdapterContinues, Continues
<1> QED BY <1>2, <1>3, <1>4 DEF MediaInv

(* Segments follow each other without gap or overlap, begin at a random    *)
(* access point and are long enough, however the streaming threads (the    *)
(* probe gss_stream's sink_probe_callback) and the main loop interleave.   *)
THEOREM MediaCorrect == Spec => []SegmentsAreContiguous
<1>1. Init => MediaInv
  BY MediaAtStart
<1>2. IInv /\ MediaInv /\ [Next]_vars => MediaInv'
  <2> SUFFICES ASSUME IInv, MediaInv, [Next]_vars PROVE MediaInv'
    OBVIOUS
  <2>1. TypeOK
    BY DEF IInv
  <2>2. ASSUME NEW s \in Streams, AddHls(s) PROVE MediaInv'
    BY <2>2, FrameMedia DEF AddHls
  <2>3. ASSUME NEW s \in Streams, CutChunk(s) PROVE MediaInv'
    BY <2>1, <2>3, CutChunkMedia
  <2>4. ASSUME NEW s \in Streams, NEW rap \in BOOLEAN, Collect(s, rap) PROVE MediaInv'
    BY <2>1, <2>4, CollectMedia
  <2>5. CASE AddChunk
    BY <2>5, AddChunkMedia
  <2>6. ASSUME NEW s \in Streams, GetIndex(s) PROVE MediaInv'
    BY <2>6, FrameMedia DEF GetIndex
  <2>7. CASE UNCHANGED vars
    BY <2>7, FrameMedia DEF vars
  <2> QED BY <2>2, <2>3, <2>4, <2>5, <2>6, <2>7 DEF Next
<1>3. MediaInv => SegmentsAreContiguous
  BY DEF MediaInv
<1> QED BY <1>1, <1>2, <1>3, Inductive, PTL DEF Spec
-----------------------------------------------------------------------------
(* One stream: what a player sees of it is a LivePlaylist, for every depth *)
(* of the ring and every window not larger than the ring.  The URLs that   *)
(* answer are the live ones (FoundIsLive), and the counter of the program, *)
(* which the window of a playlist is computed from, is that of its only    *)
(* stream, so that a playlist has at most Window segments (WindowGrace).   *)

OneCounter == nHlsChunks = nChunks[s1]

Store == {n \in 0 .. nChunks[s1] : Found(s1, n)}
StoreIsNewest == Store = Feed!Newest(nChunks[s1], Ring)

-----------------------------------------------------------------------------
(* The counter of the program is that of its only stream.                  *)
LEMMA OneCounterKept ==
    ASSUME Streams = {s1}, TypeOK, OneCounter, [Next]_vars
    PROVE  OneCounter'
<1>1. CASE AddChunk
  <2> DEFINE s == Head(idle).stream
  <2>1. s = s1
    BY <1>1, HeadOfIdle DEF AddChunk
  <2>2. /\ nChunks \in [Streams -> Nat]
        /\ nChunks' = [nChunks EXCEPT ![s] = nChunks[s] + 1]
        /\ nHlsChunks' = nChunks[s] + 1
    BY <1>1 DEF AddChunk, TypeOK
  <2> HIDE DEF s
  <2>. QED
    BY <2>1, <2>2 DEF OneCounter
<1>2. CASE UNCHANGED <<nChunks, nHlsChunks>>
  BY <1>2 DEF OneCounter
<1>. QED
  BY <1>1, <1>2 DEF Next, AddHls, CutChunk, Collect, GetIndex, vars

(* The store of LivePlaylist is that of the newest segments.               *)
LEMMA StoreFollows ==
    ASSUME s1 \in Streams, IInv
    PROVE  StoreIsNewest
<1>1. nChunks[s1] \in Nat
  BY DEF IInv, TypeOK
<1>. QED
  BY <1>1, FoundIsLive DEF StoreIsNewest, Store, Feed!Newest, Live

(* Every step publishes a segment, serves a playlist, or does not show.    *)
LEMMA StepRefines ==
    ASSUME Streams = {s1}, IInv, OneCounter, [Next]_vars, StoreIsNewest'
    PROVE  [Feed!Next]_(Feed!vars)
<1> DEFINE n == nChunks[s1]
<1>1. n \in Nat
  BY DEF IInv, TypeOK
<1>2. CASE AddChunk
  <2> DEFINE s == Head(idle).stream
  <2>1. s = s1
    BY <1>2, HeadOfIdle DEF AddChunk, IInv
  <2>2. n' = n + 1 /\ UNCHANGED index
    <3>1. /\ nChunks \in [Streams -> Nat]
          /\ nChunks' = [nChunks EXCEPT ![s] = nChunks[s] + 1]
          /\ UNCHANGED index
      BY <1>2 DEF AddChunk, IInv, TypeOK
    <3> HIDE DEF s
    <3>. QED
      BY <2>1, <3>1
  <2>3. Store' = Feed!Newest(n', Ring)
    BY DEF StoreIsNewest, Feed!Newest
  <2>. QED
    BY <2>2, <2>3 DEF Feed!Next, Feed!Publish, Store
<1>3. CASE GetIndex(s1)
  <2>1. n' = n /\ Store' = Store
    BY <1>3 DEF GetIndex, Store, Found, Location
  <2>2. CASE UNCHANGED index
    BY <2>1, <2>2 DEF Feed!vars, Store
  <2>3. CASE index' = [index EXCEPT ![s1] = Index(s1)]
    <3>1. index'[s1] = Index(s1)
      BY <2>3 DEF IInv, TypeOK
    <3>2. index'[s1].seq = SeqNum /\ index'[s1].end = n
      BY <3>1 DEF Index
    <3>3. SeqNum = IF n > Window THEN n - Window ELSE 0
      BY DEF SeqNum, OneCounter
    <3>. QED
      BY <2>1, <3>2, <3>3 DEF Feed!Next, Feed!Serve, Store
  <2>. QED
    BY <1>3, <2>2, <2>3 DEF GetIndex
<1>4. CASE UNCHANGED <<nChunks, resources, index>>
  BY <1>4 DEF Feed!vars, Found
<1>. QED
  BY <1>2, <1>3, <1>4 DEF Next, AddHls, CutChunk, Collect, vars

(* What a player sees of one stream is a LivePlaylist: the ring, the table *)
(* of URLs and the cached index do not show.                               *)
THEOREM Refinement ==
    ASSUME Streams = {s1}
    PROVE  Spec => ImplementsLivePlaylist
<1>1. Init => Feed!Init /\ OneCounter
  BY DEF Init, Feed!Init, OneCounter, NoIndex, Found
<1>2. IInv => StoreIsNewest
  BY StoreFollows
<1>3. IInv /\ OneCounter /\ [Next]_vars => OneCounter'
  BY OneCounterKept DEF IInv
<1>4. IInv /\ OneCounter /\ [Next]_vars /\ StoreIsNewest' => [Feed!Next]_(Feed!vars)
  BY StepRefines
<1>. QED
  BY <1>1, <1>2, <1>3, <1>4, Inductive, PTL DEF Spec, ImplementsLivePlaylist, Feed!Spec

-----------------------------------------------------------------------------
(* The playlist that was served last names Window segments at most.        *)
ServedIsWindow ==
    \A s \in Streams : index[s].end - index[s].seq <= Window

(* With one stream: what a playlist that was served names can be fetched   *)
(* until Ring - Window more segments have come (gss_hls_update_index and   *)
(* the eviction in gss_program_add_hls_chunk).                             *)
THEOREM GraceCorrect ==
    ASSUME Streams = {s1}
    PROVE  Spec => []WindowGrace
<1>1. Init => OneCounter /\ ServedIsWindow
  BY WindowAssumption, RingAssumption DEF Init, OneCounter, ServedIsWindow, NoIndex
<1>2. IInv /\ OneCounter /\ [Next]_vars => OneCounter'
  BY OneCounterKept DEF IInv
<1>3. IInv /\ OneCounter /\ ServedIsWindow /\ [Next]_vars => ServedIsWindow'
  <2> SUFFICES ASSUME IInv, OneCounter, ServedIsWindow, [Next]_vars
               PROVE  ServedIsWindow'
    OBVIOUS
  <2>1. CASE UNCHANGED index
    BY <2>1 DEF ServedIsWindow
  <2>2. CASE index' = [index EXCEPT ![s1] = Index(s1)]
    <3>1. index'[s1] = Index(s1)
      BY <2>2 DEF IInv, TypeOK
    <3>2. index'[s1].seq = SeqNum /\ index'[s1].end = nChunks[s1]
      BY <3>1 DEF Index
    <3>3. SeqNum = IF nChunks[s1] > Window THEN nChunks[s1] - Window ELSE 0
      BY DEF SeqNum, OneCounter
    <3>4. nChunks[s1] \in Nat /\ Window \in Nat
      BY WindowAssumption, RingAssumption DEF IInv, TypeOK
    <3> QED BY <3>2, <3>3, <3>4 DEF ServedIsWindow
  <2> QED BY <2>1, <2>2 DEF Next, AddHls, CutChunk, Collect, AddChunk, GetIndex, vars
<1>4. IInv /\ ServedIsWindow => WindowGrace
  <2> SUFFICES ASSUME IInv, ServedIsWindow,
                      NEW s \in Streams, NEW i \in index[s].seq .. index[s].end - 1,
                      nChunks[s] - index[s].end <= Ring - Window
               PROVE  index[s].loc[i] = i /\ Found(s, i)
    BY DEF WindowGrace
  <2>1. /\ index[s].seq \in Nat /\ index[s].end \in Nat /\ nChunks[s] \in Nat
        /\ Ring \in Nat /\ Window \in Nat
        /\ index[s].end <= nChunks[s] /\ index[s].end - index[s].seq <= Window
    BY WindowAssumption, RingAssumption DEF IInv, TypeOK, IndexIsPast, ServedIsWindow
  <2>2. i \in Live(s)
    BY <2>1 DEF Live
  <2> QED BY <2>2, FoundIsLive DEF IInv, IndexIsRight
<1>. QED
  BY <1>1, <1>2, <1>3, <1>4, Inductive, PTL DEF Spec
=============================================================================
