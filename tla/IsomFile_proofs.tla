-------------------------- MODULE IsomFile_proofs --------------------------
(***************************************************************************)
(* Proofs about IsomFile, for any recordings and any boxes between their   *)
(* fragments.                                                              *)
(***************************************************************************)
EXTENDS IsomFile, FiniteSetTheorems, SequenceTheorems, TLAPS

-----------------------------------------------------------------------------
(* Sequences and bytes                                                      *)

IsSeq(s) == s \in Seq(Range(s))

LEMMA SeqFacts ==
    ASSUME NEW s, IsSeq(s)
    PROVE  /\ Len(s) \in Nat
           /\ DOMAIN s = 1 .. Len(s)
           /\ \A S : (\A i \in 1 .. Len(s) : s[i] \in S) => s \in Seq(S)
  <1> USE DEF IsSeq
  <1>1. Len(s) \in Nat /\ DOMAIN s = 1 .. Len(s) /\ s \in [1 .. Len(s) -> Range(s)]
    BY LenProperties
  <1>2. ASSUME NEW S, \A i \in 1 .. Len(s) : s[i] \in S
        PROVE  s \in Seq(S)
    <2>1. s \in [1 .. Len(s) -> S]
      BY <1>1, <1>2
    <2> QED BY <1>1, <2>1, SeqDef
  <1> QED BY <1>1, <1>2

LEMMA CatFacts ==
    ASSUME NEW a, NEW b, IsSeq(a), IsSeq(b)
    PROVE  /\ IsSeq(a \o b)
           /\ Len(a \o b) = Len(a) + Len(b)
           /\ \A i \in 1 .. Len(a) : (a \o b)[i] = a[i]
           /\ \A i \in 1 .. Len(b) : (a \o b)[Len(a) + i] = b[i]
  <1> DEFINE S == Range(a) \cup Range(b)
  <1>1. Len(a) \in Nat /\ Len(b) \in Nat
    BY SeqFacts
  <1>2. (\A i \in 1 .. Len(a) : a[i] \in S) /\ (\A i \in 1 .. Len(b) : b[i] \in S)
    BY SeqFacts DEF Range
  <1>3. a \in Seq(S) /\ b \in Seq(S)
    BY <1>2, SeqFacts
  <1> HIDE DEF S
  <1>4. a \o b \in Seq(S)
    BY <1>3
  <1>5. IsSeq(a \o b)
    BY <1>4, SeqOfRange DEF IsSeq
  <1> QED BY <1>1, <1>3, <1>5, SMT

LEMMA SubFacts ==
    ASSUME NEW s, IsSeq(s), NEW m \in Nat, NEW n \in Nat, n <= Len(s)
    PROVE  /\ IsSeq(SubSeq(s, m + 1, n))
           /\ Len(SubSeq(s, m + 1, n)) = IF m <= n THEN n - m ELSE 0
           /\ \A i \in 1 .. n - m : SubSeq(s, m + 1, n)[i] = s[m + i]
  <1>1. Len(s) \in Nat /\ s \in Seq(Range(s))
    BY SeqFacts DEF IsSeq
  <1>2. SubSeq(s, m + 1, n) \in Seq(Range(s))
    BY <1>1, SMT
  <1>3. IsSeq(SubSeq(s, m + 1, n))
    BY <1>2, SeqOfRange DEF IsSeq
  <1> QED BY <1>1, <1>3, SMT

(* A number is read the same wherever its bytes stand.                      *)
LEMMA GetThere ==
    ASSUME NEW a, NEW b, NEW d \in Nat, NEW p \in Nat, NEW n \in Nat,
           \A i \in 1 .. n : a[d + p + i] = b[p + i]
    PROVE  Get(a, d + p, n) = Get(b, p, n)
  <1> DEFINE ZeroA == \A i \in (d + p) + 1 .. (d + p) + n : a[i] = ZeroByte
             ZeroB == \A i \in p + 1 .. p + n : b[i] = ZeroByte
             RightA == \A i \in 1 .. n : a[(d + p) + i][1] = n /\ a[(d + p) + i][2] = i
             RightB == \A i \in 1 .. n : b[p + i][1] = n /\ b[p + i][2] = i
  <1>1. ZeroA <=> ZeroB
    <2>1. ASSUME ZeroA, NEW i \in p + 1 .. p + n PROVE b[i] = ZeroByte
      <3>1. i - p \in 1 .. n /\ d + p + (i - p) \in (d + p) + 1 .. (d + p) + n /\ p + (i - p) = i
        OBVIOUS
      <3> QED BY <2>1, <3>1
    <2>2. ASSUME ZeroB, NEW i \in (d + p) + 1 .. (d + p) + n PROVE a[i] = ZeroByte
      <3>1. i - d - p \in 1 .. n /\ p + (i - d - p) \in p + 1 .. p + n
            /\ d + p + (i - d - p) = i
        OBVIOUS
      <3> QED BY <2>2, <3>1
    <2> QED BY <2>1, <2>2
  <1>2. RightA <=> RightB
    OBVIOUS
  <1>3. n # 0 => a[d + p + 1] = b[p + 1]
    OBVIOUS
  <1>4. n = 0 => ZeroA /\ ZeroB
    OBVIOUS
  <1>5. n # 0 /\ ~ZeroA /\ RightA => a[d + p + 1][3] = b[p + 1][3]
    BY <1>3
  <1> HIDE DEF ZeroA, ZeroB, RightA, RightB
  <1>6. Get(a, d + p, n) = IF ZeroA THEN 0 ELSE IF RightA THEN a[d + p + 1][3] ELSE Garbled
    BY DEF Get, ZeroA, RightA
  <1>7. Get(b, p, n) = IF ZeroB THEN 0 ELSE IF RightB THEN b[p + 1][3] ELSE Garbled
    BY DEF Get, ZeroB, RightB
  <1> QED BY <1>1, <1>2, <1>4, <1>5, <1>6, <1>7

LEMMA AtomThere ==
    ASSUME NEW a, NEW b, NEW d \in Nat, NEW p \in Nat,
           \A i \in 1 .. 4 : a[d + p + i] = b[p + i]
    PROVE  GetAtom(a, d + p) = GetAtom(b, p)
  <1>1. 1 \in 1 .. 4
    OBVIOUS
  <1> QED BY <1>1 DEF GetAtom
-----------------------------------------------------------------------------
(* The file f of a recording s: its parts at the places pl, and boxes of    *)
(* other kinds at the places no                                             *)

Places == [track : Nat, number : Nat, at : Nat]

(* What is written at a place, and where its boxes start                    *)
PartOf(s, p) == IF p.track = 0 THEN s.header ELSE Recorded(s, p.track, p.number)
BoxesOf(s, p) == IF p.track = 0 THEN HeaderBoxes(s.header)
                 ELSE {0, MoofLength(s, p.track, p.number)}

(* What is left of it when the recording is cut off                         *)
KeptOf(s, p) == IF p.track = 0 THEN Len(s.header) ELSE MoofLength(s, p.track, p.number) + 8

Shift(P, n) == {n + p : p \in P}
StartsOf(s, pl, no) ==
    no \cup UNION {Shift(BoxesOf(s, pl[k]), pl[k].at) : k \in 1 .. Len(pl)}

(* b is boxes that start at the places in P, the last of which may be cut   *)
(* off after its header.                                                    *)
IsChain(b, P) ==
    \A p \in P :
        /\ p \in Nat /\ SizeAt(b, p) \in Nat
        /\ Get(b, p, 4) # 0
        /\ HeadLength(b, p) <= SizeAt(b, p) /\ p + HeadLength(b, p) <= Len(b)
        /\ p + SizeAt(b, p) \in P \/ p + SizeAt(b, p) >= Len(b)
        /\ \A q \in P : q <= p \/ p + SizeAt(b, p) <= q

(* As much of b as is in f stands at the place.                             *)
Holds(f, at, b) == \A x \in 1 .. Len(b) : at + x <= Len(f) => f[at + x] = b[x]

NumberOf(pl, tr) == Cardinality({k \in DOMAIN pl : pl[k].track = tr})

(* The first place is that of the header; the fragments of a track are      *)
(* written one after another.                                               *)
IsOfItsTrack(s, pl, k) ==
    IF k = 1 THEN pl[k].track = 0
    ELSE pl[k].track \in DOMAIN s.fragments /\ pl[k].number \in 1 .. NumberOf(pl, pl[k].track)

IsBefore(s, p, q) ==
    /\ p.at + Len(PartOf(s, p)) <= q.at
    /\ p.track = q.track => p.number < q.number

PlaceIsRight(s, f, pl, k) ==
    /\ Holds(f, pl[k].at, PartOf(s, pl[k]))
    /\ pl[k].at + KeptOf(s, pl[k]) <= Len(f)
    /\ IsOfItsTrack(s, pl, k)
    /\ \A l \in 1 .. Len(pl) : k < l => IsBefore(s, pl[k], pl[l])

NumbersAreUsed(s, pl) ==
    \A tr \in DOMAIN s.fragments :
        /\ NumberOf(pl, tr) \in 0 .. Len(s.fragments[tr])
        /\ \A n \in 1 .. NumberOf(pl, tr) :
            \E k \in 1 .. Len(pl) : pl[k].track = tr /\ pl[k].number = n

NoiseIsOther(f, pl, no) ==
    \A p \in no :
        /\ GetAtom(f, p + 4) \notin {"ftyp", "moov", "moof"}
        /\ GetAtom(f, p + 4) = "mdat" =>
            \A k \in 1 .. Len(pl) : pl[k].track # 0 => p < pl[k].at

FileIs(s, f, pl, no) ==
    /\ s \in Sources
    /\ f \in Seq(Range(f))
    /\ pl \in Seq(Places)
    /\ \A k \in 1 .. Len(pl) : PlaceIsRight(s, f, pl, k)
    /\ NumbersAreUsed(s, pl)
    /\ NoiseIsOther(f, pl, no)
    /\ IsChain(f, StartsOf(s, pl, no))
    /\ 0 \in StartsOf(s, pl, no) \/ Len(f) = 0

(* Nothing is cut off.                                                      *)
FileIsWhole(s, f, pl, no) ==
    /\ \A p \in StartsOf(s, pl, no) : p + SizeAt(f, p) <= Len(f)
    /\ \A k \in 1 .. Len(pl) : pl[k].at + Len(PartOf(s, pl[k])) <= Len(f)

FileInv ==
    /\ phase \in {"write", "read", "load", "serve", "cut"}
    /\ FileIs(source, file, places, noise)
    /\ phase = "write" => FileIsWhole(source, file, places, noise)
    /\ phase # "write" => places # <<>>

(* The parser has read nothing.                                             *)
NothingRead ==
    /\ offset = 0
    /\ isIsml = FALSE
    /\ movie = NoMovie
    /\ frags = <<>>
    /\ current = NoFragment
    /\ error = FALSE

-----------------------------------------------------------------------------
(* What has been read of it when the parser is at the offset o: the movie   *)
(* m, the fragments fr of its tracks, of which c is the last                *)

MoovAt(s) == CHOOSE p \in HeaderBoxes(s.header) : GetAtom(s.header, p + 4) = "moov"

MoovPlace(s, pl) == pl[1].at + MoovAt(s)

MovieIsRead(s, pl, o, m, fr) ==
    \/ o <= MoovPlace(s, pl) /\ m = NoMovie /\ fr = <<>>
    \/ o > MoovPlace(s, pl) /\ m = s.movie /\ DOMAIN fr = DOMAIN s.fragments

(* Where the samples of a fragment are                                      *)
MdatAt(s, p) == p.at + MoofLength(s, p.track, p.number)

(* The fragments that begin before the offset have been read.               *)
FragmentsAreCounted(s, pl, o, m, fr) ==
    m # NoMovie =>
        /\ \A k \in 1 .. Len(pl) : pl[k].track # 0 =>
            (pl[k].at < o <=> pl[k].number <= Len(fr[pl[k].track]))
        /\ \A tr \in DOMAIN fr : IsSeq(fr[tr]) /\ Len(fr[tr]) <= NumberOf(pl, tr)

PlaceIn(pl, tr, n) == CHOOSE p \in Range(pl) : p.track = tr /\ p.number = n

(* A fragment that has been read is the one with its number.                *)
IsRead(s, pl, tr, i, f) ==
    /\ DOMAIN f = DOMAIN NewFragment
    /\ f.index = i - 1
    /\ f.offset = PlaceIn(pl, tr, i).at
    /\ f.mfhd.sequence_number = s.fragments[tr][i].mfhd.sequence_number
    /\ [j \in DOMAIN f.trun.samples |-> <<f.trun.samples[j].duration, f.trun.samples[j].size>>]
       = s.timing[tr][i]
    /\ f.trun.sample_count \in 0 .. VectorShift
    /\ DOMAIN f.sample_encryption = DOMAIN SampleEncryption
    /\ f.duration = SumOf(s.timing[tr][i], LAMBDA t : t[1])

HasChunk(s, pl, tr, i, f) ==
    LET size == Len(s.data[tr][i])
        end == PlaceIn(pl, tr, i).at + s.sizes[tr][i]
    IN  f.chunks = <<[offset |-> end - size, size |-> size]>>

FragmentsAreRead(s, pl, o, ml, m, fr) ==
    m # NoMovie => \A tr \in DOMAIN fr : \A i \in DOMAIN fr[tr] :
        /\ IsRead(s, pl, tr, i, fr[tr][i])
        /\ ml /\ MdatAt(s, PlaceIn(pl, tr, i)) < o => HasChunk(s, pl, tr, i, fr[tr][i])

CurrentIsLast(s, pl, o, c) ==
    /\ \A k \in 1 .. Len(pl) : pl[k].track # 0 =>
        (MdatAt(s, pl[k]) = o => c = <<pl[k].track, pl[k].number>>)
    /\ (\A k \in 1 .. Len(pl) : pl[k].track # 0 => o <= pl[k].at) => c = NoFragment

ReadState(s, pl, o, ml, m, fr, c) ==
    /\ ml \in BOOLEAN
    /\ MovieIsRead(s, pl, o, m, fr)
    /\ FragmentsAreCounted(s, pl, o, m, fr)
    /\ FragmentsAreRead(s, pl, o, ml, m, fr)
    /\ CurrentIsLast(s, pl, o, c)

ReadInv ==
    /\ error = FALSE
    /\ offset \in Nat
    /\ offset \in StartsOf(source, places, noise) \/ offset >= Len(file)
    /\ ReadState(source, places, offset, isIsml, movie, frags, current)

(* The time at which the fragment with a number starts                      *)
StartOf(h, i) == SumOf(SubSeq(h, 1, i - 1), LAMBDA x : SumOf(x, LAMBDA t : t[1]))

(* What is true of what has been read once the parser is done, with or      *)
(* without an error e                                                       *)
IsDone(s, pl, ml, m, fr, e) ==
    m # NoMovie =>
        /\ m = s.movie
        /\ DOMAIN fr = DOMAIN s.fragments
        /\ \A tr \in DOMAIN fr :
            /\ IsSeq(fr[tr])
            /\ Len(fr[tr]) <= NumberOf(pl, tr)
            /\ ~e => Len(fr[tr]) = NumberOf(pl, tr)
            /\ \A i \in DOMAIN fr[tr] :
                /\ IsRead(s, pl, tr, i, fr[tr][i])
                /\ ~e => fr[tr][i].timestamp = StartOf(s.timing[tr], i)
                /\ ml => HasChunk(s, pl, tr, i, fr[tr][i])

(* What is served encrypted has the vectors of its track, its fragments and *)
(* their samples.                                                           *)
VectorOf(s, tr, i, j) ==
    LevelIv(s.movie.tracks[tr]) + ((i - 1) * VectorShift) + (j - 1)

FragmentHasVectors(s, tr, i, f) ==
    LET vectors == f.sample_encryption.samples
    IN  /\ DOMAIN vectors \subseteq 1 .. VectorShift
        /\ \A j \in DOMAIN vectors : vectors[j].iv = VectorOf(s, tr, i, j)

VectorsAreSet(s, lv) ==
    \A tr \in DOMAIN lv :
        /\ tr \in DOMAIN s.fragments
        /\ DOMAIN lv[tr].fragments \subseteq 1 .. Len(s.fragments[tr])
        /\ \A i \in DOMAIN lv[tr].fragments :
            FragmentHasVectors(s, tr, i, lv[tr].fragments[i])

IInv ==
    /\ FileInv
    /\ phase = "write" => NothingRead
    /\ phase = "read" => ReadInv
    /\ phase \in {"load", "serve"} => IsDone(source, places, isIsml, movie, frags, error)
    /\ phase = "serve" /\ load.drm = "playready" => VectorsAreSet(source, levels)

-----------------------------------------------------------------------------
(* Boxes one after another                                                  *)

LEMMA HeadThere ==
    ASSUME NEW a, NEW b, NEW d \in Nat, NEW p \in Nat,
           Get(b, p, 4) # 0,
           \A i \in 1 .. HeadLength(b, p) : a[d + p + i] = b[p + i]
    PROVE  /\ Get(a, d + p, 4) = Get(b, p, 4)
           /\ HeadLength(a, d + p) = HeadLength(b, p)
           /\ SizeAt(a, d + p) = SizeAt(b, p)
           /\ GetAtom(a, d + p + 4) = GetAtom(b, p + 4)
  <1>1. HeadLength(b, p) \in Nat /\ HeadLength(b, p) >= 8
    BY DEF HeadLength
  <1>2. Get(a, d + p, 4) = Get(b, p, 4)
    <2>1. \A i \in 1 .. 4 : a[d + p + i] = b[p + i]
      BY <1>1
    <2> QED BY <2>1, GetThere
  <1>3. GetAtom(a, d + p + 4) = GetAtom(b, p + 4)
    <2>1. ASSUME NEW i \in 1 .. 4 PROVE a[d + (p + 4) + i] = b[(p + 4) + i]
      <3>1. 4 + i \in 1 .. HeadLength(b, p)
        BY <1>1
      <3>2. d + p + (4 + i) = d + (p + 4) + i /\ p + (4 + i) = (p + 4) + i
        OBVIOUS
      <3> QED BY <3>1, <3>2
    <2>2. p + 4 \in Nat /\ d + (p + 4) = d + p + 4
      OBVIOUS
    <2>3. GetAtom(a, d + (p + 4)) = GetAtom(b, p + 4)
      BY <2>1, <2>2, AtomThere
    <2> QED BY <2>2, <2>3
  <1>4. ASSUME Get(b, p, 4) = 1 PROVE Get(a, d + p + 8, 8) = Get(b, p + 8, 8)
    <2>1. ASSUME NEW i \in 1 .. 8 PROVE a[d + (p + 8) + i] = b[(p + 8) + i]
      <3>1. 8 + i \in 1 .. HeadLength(b, p)
        BY <1>4 DEF HeadLength
      <3>2. d + p + (8 + i) = d + (p + 8) + i /\ p + (8 + i) = (p + 8) + i
        OBVIOUS
      <3> QED BY <3>1, <3>2
    <2>2. p + 8 \in Nat /\ 8 \in Nat /\ d + (p + 8) = d + p + 8
      OBVIOUS
    <2> DEFINE q == p + 8
    <2>4. q \in Nat /\ \A i \in 1 .. 8 : a[d + q + i] = b[q + i]
      BY <2>1, <2>2
    <2> HIDE DEF q
    <2>5. Get(a, d + q, 8) = Get(b, q, 8)
      BY <2>2, <2>4, GetThere
    <2>3. Get(a, d + (p + 8), 8) = Get(b, p + 8, 8)
      BY <2>5 DEF q
    <2> QED BY <2>2, <2>3
  <1> QED BY <1>2, <1>3, <1>4 DEF HeadLength, SizeAt

(* What is written after boxes leaves them as they are.                     *)
LEMMA HeadStays ==
    ASSUME NEW a, NEW b, NEW p \in Nat,
           Get(b, p, 4) # 0,
           \A i \in p + 1 .. p + HeadLength(b, p) : a[i] = b[i]
    PROVE  /\ Get(a, p, 4) = Get(b, p, 4)
           /\ HeadLength(a, p) = HeadLength(b, p)
           /\ SizeAt(a, p) = SizeAt(b, p)
           /\ GetAtom(a, p + 4) = GetAtom(b, p + 4)
  <1>1. 0 \in Nat /\ 0 + p = p
    OBVIOUS
  <1>2. HeadLength(b, p) \in Nat
    BY DEF HeadLength
  <1>3. \A i \in 1 .. HeadLength(b, p) : a[0 + p + i] = b[p + i]
    BY <1>2
  <1>4. /\ Get(a, 0 + p, 4) = Get(b, p, 4)
        /\ HeadLength(a, 0 + p) = HeadLength(b, p)
        /\ SizeAt(a, 0 + p) = SizeAt(b, p)
        /\ GetAtom(a, 0 + p + 4) = GetAtom(b, p + 4)
    BY <1>1, <1>3, HeadThere
  <1> QED BY <1>1, <1>4
(* What one box of a chain is, apart from the others                         *)
IsLink(b, P, p) ==
    /\ p \in Nat /\ SizeAt(b, p) \in Nat
    /\ Get(b, p, 4) # 0
    /\ HeadLength(b, p) <= SizeAt(b, p) /\ p + HeadLength(b, p) <= Len(b)
    /\ p + SizeAt(b, p) \in P \/ p + SizeAt(b, p) >= Len(b)
    /\ \A q \in P : q <= p \/ p + SizeAt(b, p) <= q

LEMMA ChainOfLinks ==
    ASSUME NEW b, NEW P, \A p \in P : IsLink(b, P, p)
    PROVE  IsChain(b, P)
  BY Zenon DEF IsLink, IsChain

LEMMA LinkOfChain ==
    ASSUME NEW b, NEW P, IsChain(b, P), NEW p \in P
    PROVE  IsLink(b, P, p)
  BY Zenon DEF IsLink, IsChain

LEMMA BoxFacts ==
    ASSUME NEW b, NEW Q, IsBoxes(b, Q), NEW q \in Q
    PROVE  /\ IsSeq(b)
           /\ 0 \in Q
           /\ q \in Nat /\ SizeAt(b, q) \in Nat
           /\ Get(b, q, 4) # 0
           /\ HeadLength(b, q) <= SizeAt(b, q)
           /\ q + SizeAt(b, q) <= Len(b)
           /\ q + SizeAt(b, q) \in Q \/ q + SizeAt(b, q) = Len(b)
           /\ \A r \in Q : r <= q \/ q + SizeAt(b, q) <= r
  <1>1. HeadLength(b, q) \in Nat
    BY DEF HeadLength
  <1>2. /\ IsSeq(b)
        /\ 0 \in Q
        /\ q \in Nat /\ SizeAt(b, q) \in Nat
        /\ Get(b, q, 4) # 0
        /\ q + HeadLength(b, q) <= q + SizeAt(b, q)
        /\ q + SizeAt(b, q) <= Len(b)
        /\ q + SizeAt(b, q) \in Q \cup {Len(b)}
        /\ \A r \in Q : r <= q \/ q + SizeAt(b, q) <= r
    BY DEF IsBoxes, IsSeq
  <1> QED BY <1>1, <1>2

(* What is the same of a box that stands d bytes further on in another file *)
SameBox(a, d, b, p) ==
    /\ Get(a, d + p, 4) = Get(b, p, 4)
    /\ HeadLength(a, d + p) = HeadLength(b, p)
    /\ SizeAt(a, d + p) = SizeAt(b, p)
    /\ GetAtom(a, d + p + 4) = GetAtom(b, p + 4)

LEMMA OldBoxStays ==
    ASSUME NEW a, NEW b, NEW P, NEW p \in P, IsSeq(a), IsSeq(b), IsChain(a, P)
    PROVE  /\ Get(a \o b, p, 4) = Get(a, p, 4)
           /\ HeadLength(a \o b, p) = HeadLength(a, p)
           /\ SizeAt(a \o b, p) = SizeAt(a, p)
           /\ GetAtom(a \o b, p + 4) = GetAtom(a, p + 4)
  <1>1. IsLink(a, P, p)
    BY LinkOfChain
  <1>2. p \in Nat /\ Get(a, p, 4) # 0 /\ p + HeadLength(a, p) <= Len(a)
    BY <1>1 DEF IsLink
  <1>3. Len(a) \in Nat /\ \A i \in 1 .. Len(a) : (a \o b)[i] = a[i]
    BY SeqFacts, CatFacts
  <1>4. HeadLength(a, p) \in Nat
    BY DEF HeadLength
  <1>5. \A i \in p + 1 .. p + HeadLength(a, p) : (a \o b)[i] = a[i]
    BY <1>2, <1>3, <1>4
  <1> QED BY <1>2, <1>5, HeadStays

LEMMA NewBoxStays ==
    ASSUME NEW a, NEW b, NEW Q, NEW q \in Q, IsSeq(a), IsBoxes(b, Q)
    PROVE  SameBox(a \o b, Len(a), b, q)
  <1>1. /\ IsSeq(b)
        /\ q \in Nat /\ SizeAt(b, q) \in Nat
        /\ Get(b, q, 4) # 0
        /\ HeadLength(b, q) <= SizeAt(b, q)
        /\ q + SizeAt(b, q) <= Len(b)
    BY BoxFacts
  <1>2. Len(a) \in Nat /\ Len(b) \in Nat /\ \A i \in 1 .. Len(b) : (a \o b)[Len(a) + i] = b[i]
    BY <1>1, SeqFacts, CatFacts
  <1>3. HeadLength(b, q) \in Nat
    BY DEF HeadLength
  <1>4. ASSUME NEW i \in 1 .. HeadLength(b, q) PROVE (a \o b)[Len(a) + q + i] = b[q + i]
    <2>1. q + i \in 1 .. Len(b) /\ Len(a) + (q + i) = Len(a) + q + i
      BY <1>1, <1>2, <1>3
    <2> QED BY <1>2, <2>1
  <1> DEFINE c == a \o b
             n == Len(a)
  <1>5. n \in Nat /\ q \in Nat /\ Get(b, q, 4) # 0
        /\ \A i \in 1 .. HeadLength(b, q) : c[n + q + i] = b[q + i]
    BY <1>1, <1>2, <1>4
  <1> HIDE DEF c, n
  <1>6. /\ Get(c, n + q, 4) = Get(b, q, 4)
        /\ HeadLength(c, n + q) = HeadLength(b, q)
        /\ SizeAt(c, n + q) = SizeAt(b, q)
        /\ GetAtom(c, n + q + 4) = GetAtom(b, q + 4)
    BY <1>5, HeadThere
  <1>7. SameBox(c, n, b, q)
    BY <1>6 DEF SameBox
  <1> QED BY <1>7 DEF c, n

LEMMA ChainGrows ==
    ASSUME NEW a, NEW b, NEW P, NEW Q, IsSeq(a), IsBoxes(b, Q), IsChain(a, P),
           \A p \in P : p + SizeAt(a, p) <= Len(a)
    PROVE  /\ IsChain(a \o b, P \cup Shift(Q, Len(a)))
           /\ \A p \in P \cup Shift(Q, Len(a)) : p + SizeAt(a \o b, p) <= Len(a \o b)
  <1> DEFINE c == a \o b
             n == Len(a)
             R == P \cup Shift(Q, n)
  <1>1. 0 \in Q /\ IsSeq(b)
    BY DEF IsBoxes, IsSeq
  <1>2. IsSeq(c) /\ n \in Nat /\ Len(b) \in Nat /\ Len(c) = n + Len(b)
    BY <1>1, CatFacts, SeqFacts
  <1>3. n \in R
    BY <1>1, <1>2 DEF Shift
  <1>4. ASSUME NEW r \in Shift(Q, n)
        PROVE  \E q \in Q : r = n + q /\ q \in Nat
    BY BoxFacts DEF Shift
  <1>5. ASSUME NEW p \in P PROVE IsLink(c, R, p) /\ p + SizeAt(c, p) <= Len(c)
    <2>1. /\ Get(c, p, 4) = Get(a, p, 4)
          /\ HeadLength(c, p) = HeadLength(a, p)
          /\ SizeAt(c, p) = SizeAt(a, p)
      BY <1>1, OldBoxStays
    <2>2. IsLink(a, P, p) /\ p + SizeAt(a, p) <= n
      BY LinkOfChain
    <2>3. HeadLength(a, p) \in Nat
      BY DEF HeadLength
    <2> HIDE DEF c, n, R
    <2>4. /\ p \in Nat /\ SizeAt(a, p) \in Nat
          /\ Get(a, p, 4) # 0
          /\ HeadLength(a, p) <= SizeAt(a, p)
          /\ p + SizeAt(a, p) \in P \/ p + SizeAt(a, p) >= n
          /\ \A q \in P : q <= p \/ p + SizeAt(a, p) <= q
      BY <2>2 DEF IsLink, n
    <2>5. p + SizeAt(a, p) \in R
      <3>1. CASE p + SizeAt(a, p) \in P
        BY <3>1 DEF R
      <3>2. CASE p + SizeAt(a, p) >= n
        <4>1. p + SizeAt(a, p) = n
          BY <3>2, <2>2, <2>4, <1>2
        <4> QED BY <4>1, <1>3
      <3> QED BY <3>1, <3>2, <2>4
    <2>6. ASSUME NEW r \in R PROVE r <= p \/ p + SizeAt(a, p) <= r
      <3>1. CASE r \in P
        BY <3>1, <2>4
      <3>2. CASE r \in Shift(Q, n)
        <4>1. PICK q \in Q : r = n + q /\ q \in Nat
          BY <3>2, <1>4
        <4> QED BY <4>1, <2>2, <2>4, <1>2
      <3> QED BY <3>1, <3>2 DEF R
    <2>7. p + HeadLength(a, p) <= Len(c) /\ p + SizeAt(a, p) <= Len(c)
      BY <1>2, <2>2, <2>3, <2>4
    <2> QED BY <2>1, <2>4, <2>5, <2>6, <2>7 DEF IsLink
  <1>6. ASSUME NEW r \in Shift(Q, n) PROVE IsLink(c, R, r) /\ r + SizeAt(c, r) <= Len(c)
    <2>1. PICK q \in Q : r = n + q /\ q \in Nat
      BY <1>4
    <2>2. SameBox(c, n, b, q)
      BY NewBoxStays
    <2>3. /\ SizeAt(b, q) \in Nat
          /\ Get(b, q, 4) # 0
          /\ HeadLength(b, q) <= SizeAt(b, q)
          /\ q + SizeAt(b, q) <= Len(b)
          /\ q + SizeAt(b, q) \in Q \/ q + SizeAt(b, q) = Len(b)
          /\ \A s \in Q : s <= q \/ q + SizeAt(b, q) <= s
      BY BoxFacts
    <2>4. HeadLength(b, q) \in Nat
      BY DEF HeadLength
    <2>5. \A p \in P : p \in Nat /\ SizeAt(a, p) \in Nat /\ p + SizeAt(a, p) <= n
      BY LinkOfChain DEF IsLink
    <2> HIDE DEF c, n
    <2>6. /\ Get(c, r, 4) = Get(b, q, 4)
          /\ HeadLength(c, r) = HeadLength(b, q)
          /\ SizeAt(c, r) = SizeAt(b, q)
      BY <2>1, <2>2 DEF SameBox
    <2>7. r + SizeAt(b, q) \in R \/ r + SizeAt(b, q) >= Len(c)
      <3>1. CASE q + SizeAt(b, q) \in Q
        <4>1. r + SizeAt(b, q) = n + (q + SizeAt(b, q))
          BY <2>1, <2>3, <1>2
        <4> QED BY <3>1, <4>1 DEF Shift
      <3>2. CASE q + SizeAt(b, q) = Len(b)
        BY <3>2, <2>1, <2>3, <1>2
      <3> QED BY <3>1, <3>2, <2>3
    <2>8. ASSUME NEW s \in R PROVE s <= r \/ r + SizeAt(b, q) <= s
      <3>1. CASE s \in P
        BY <3>1, <2>1, <2>5, <1>2
      <3>2. CASE s \in Shift(Q, n)
        <4>1. PICK t \in Q : s = n + t /\ t \in Nat
          BY <3>2, <1>4
        <4>2. t <= q \/ q + SizeAt(b, q) <= t
          BY <2>3
        <4> QED BY <4>1, <4>2, <2>1, <2>3, <1>2
      <3> QED BY <3>1, <3>2
    <2>9. r \in Nat /\ r + HeadLength(b, q) <= Len(c) /\ r + SizeAt(b, q) <= Len(c)
      BY <2>1, <2>3, <2>4, <1>2
    <2> HIDE DEF R
    <2> QED BY <2>3, <2>6, <2>7, <2>8, <2>9 DEF IsLink
  <1>7. \A r \in R : IsLink(c, R, r) /\ r + SizeAt(c, r) <= Len(c)
    BY <1>5, <1>6
  <1>8. IsChain(c, R)
    BY <1>7, ChainOfLinks, Zenon
  <1> QED BY <1>7, <1>8

LEMMA ChainIsCut ==
    ASSUME NEW a, NEW P, NEW n \in Nat, n <= Len(a), IsSeq(a), IsChain(a, P),
           \A p \in P : p + HeadLength(a, p) <= n
    PROVE  /\ IsChain(SubSeq(a, 1, n), P)
           /\ \A p \in P : /\ SizeAt(SubSeq(a, 1, n), p) = SizeAt(a, p)
                           /\ GetAtom(SubSeq(a, 1, n), p + 4) = GetAtom(a, p + 4)
  <1> DEFINE c == SubSeq(a, 1, n)
  <1>1. Len(c) = n /\ \A i \in 1 .. n : c[i] = a[i]
    <2>1. 0 \in Nat /\ 0 + 1 = 1 /\ n - 0 = n /\ 0 <= n
      OBVIOUS
    <2>2. /\ Len(SubSeq(a, 0 + 1, n)) = IF 0 <= n THEN n - 0 ELSE 0
          /\ \A i \in 1 .. n - 0 : SubSeq(a, 0 + 1, n)[i] = a[0 + i]
      BY <2>1, SubFacts
    <2> QED BY <2>1, <2>2
  <1> HIDE DEF c
  <1>2. ASSUME NEW p \in P
        PROVE  /\ SizeAt(c, p) = SizeAt(a, p)
               /\ GetAtom(c, p + 4) = GetAtom(a, p + 4)
               /\ IsLink(c, P, p)
    <2>1. IsLink(a, P, p) /\ p + HeadLength(a, p) <= n
      BY LinkOfChain
    <2>2. HeadLength(a, p) \in Nat
      BY DEF HeadLength
    <2>3. /\ p \in Nat /\ SizeAt(a, p) \in Nat
          /\ Get(a, p, 4) # 0
          /\ HeadLength(a, p) <= SizeAt(a, p)
          /\ p + SizeAt(a, p) \in P \/ p + SizeAt(a, p) >= Len(a)
          /\ \A q \in P : q <= p \/ p + SizeAt(a, p) <= q
      BY <2>1 DEF IsLink
    <2>4. \A i \in p + 1 .. p + HeadLength(a, p) : c[i] = a[i]
      BY <1>1, <2>1, <2>2, <2>3
    <2>5. /\ Get(c, p, 4) = Get(a, p, 4)
          /\ HeadLength(c, p) = HeadLength(a, p)
          /\ SizeAt(c, p) = SizeAt(a, p)
          /\ GetAtom(c, p + 4) = GetAtom(a, p + 4)
      BY <2>3, <2>4, HeadStays
    <2>6. Len(a) \in Nat
      BY SeqFacts
    <2>7. p + SizeAt(a, p) \in P \/ p + SizeAt(a, p) >= n
      BY <2>3, <2>6
    <2> QED BY <1>1, <2>1, <2>3, <2>5, <2>7 DEF IsLink
  <1>3. IsChain(c, P)
    BY <1>2, ChainOfLinks, Zenon
  <1> QED BY <1>2, <1>3 DEF c
-----------------------------------------------------------------------------
(* The parts of a recording                                                 *)

LEMMA FragmentFacts ==
    ASSUME NEW s \in Sources, NEW tr \in DOMAIN s.fragments,
           NEW n \in 1 .. Len(s.fragments[tr])
    PROVE  /\ IsSeq(Recorded(s, tr, n))
           /\ IsBoxes(Recorded(s, tr, n), {0, MoofLength(s, tr, n)})
           /\ MoofLength(s, tr, n) \in Nat /\ MoofLength(s, tr, n) >= 8
           /\ Len(s.data[tr][n]) \in Nat
           /\ Len(Recorded(s, tr, n)) = MoofLength(s, tr, n) + 8 + Len(s.data[tr][n])
           /\ s.sizes[tr][n] = Len(Recorded(s, tr, n))
           /\ SizeAt(Recorded(s, tr, n), 0) = MoofLength(s, tr, n)
           /\ SizeAt(Recorded(s, tr, n), MoofLength(s, tr, n)) = 8 + Len(s.data[tr][n])
           /\ HeadLength(Recorded(s, tr, n), 0) = 8
           /\ HeadLength(Recorded(s, tr, n), MoofLength(s, tr, n)) = 8
           /\ GetAtom(Recorded(s, tr, n), 4) = "moof"
           /\ GetAtom(Recorded(s, tr, n), MoofLength(s, tr, n) + 4) = "mdat"
  <1> DEFINE b == Recorded(s, tr, n)
             m == MoofLength(s, tr, n)
             d == s.data[tr][n]
  <1>1. SourceIsKnown(s)
    BY SourcesAssumption
  <1>2. IsSeq(s.fragments[tr])
    BY <1>1 DEF SourceIsKnown, IsSeq
  <1>3. n \in DOMAIN s.fragments[tr]
    BY <1>2, SeqFacts
  <1>4. FragmentIsKnown(s, tr, n)
    BY <1>1, <1>3 DEF SourceIsKnown
  <1>5. /\ IsBoxes(b, {0, m})
        /\ s.sizes[tr][n] = Len(b)
        /\ d \in Seq(Range(d))
        /\ m > 0
        /\ GetAtom(b, 4) = "moof" /\ GetAtom(b, m + 4) = "mdat"
        /\ HeadLength(b, 0) = 8 /\ HeadLength(b, m) = 8
    BY <1>4, Zenon DEF FragmentIsKnown
  <1>6. m = s.sizes[tr][n] - Len(d) - 8
    BY DEF MoofLength
  <1> HIDE DEF b, m, d
  <1>7. Len(d) \in Nat
    BY <1>5, SeqFacts DEF IsSeq
  <1>8. /\ IsSeq(b)
        /\ SizeAt(b, 0) \in Nat
        /\ HeadLength(b, 0) <= SizeAt(b, 0)
        /\ 0 + SizeAt(b, 0) \in {0, m} \/ 0 + SizeAt(b, 0) = Len(b)
        /\ m <= 0 \/ 0 + SizeAt(b, 0) <= m
    <2>1. 0 \in {0, m} /\ m \in {0, m}
      OBVIOUS
    <2> QED BY <1>5, <2>1, BoxFacts
  <1>9. /\ m \in Nat /\ SizeAt(b, m) \in Nat
        /\ HeadLength(b, m) <= SizeAt(b, m)
        /\ m + SizeAt(b, m) <= Len(b)
        /\ m + SizeAt(b, m) \in {0, m} \/ m + SizeAt(b, m) = Len(b)
    <2>1. m \in {0, m}
      OBVIOUS
    <2> QED BY <1>5, <2>1, BoxFacts
  <1>10. Len(b) \in Nat
    BY <1>8, SeqFacts
  <1>11. SizeAt(b, 0) = m /\ m >= 8
    BY <1>5, <1>8, <1>9, <1>10
  <1>12. m + SizeAt(b, m) = Len(b) /\ Len(b) = m + 8 + Len(d)
    BY <1>5, <1>6, <1>7, <1>9, <1>10
  <1>13. SizeAt(b, m) = 8 + Len(d)
    BY <1>7, <1>9, <1>10, <1>12
  <1> QED BY <1>5, <1>7, <1>8, <1>9, <1>11, <1>12, <1>13 DEF b, m, d

LEMMA HeaderFacts ==
    ASSUME NEW s \in Sources
    PROVE  /\ IsSeq(s.header)
           /\ IsBoxes(s.header, HeaderBoxes(s.header))
           /\ \A p \in HeaderBoxes(s.header) : GetAtom(s.header, p + 4) \notin {"moof", "mdat"}
           /\ s.movie # NoMovie
           /\ MoovAt(s) \in HeaderBoxes(s.header)
           /\ \A p \in HeaderBoxes(s.header) :
                  GetAtom(s.header, p + 4) = "moov" <=> p = MoovAt(s)
           /\ ParseMoov(SubSeq(s.header, MoovAt(s) + 9,
                               MoovAt(s) + SizeAt(s.header, MoovAt(s)))) = s.movie
  <1> DEFINE b == s.header
             P == HeaderBoxes(b)
  <1>1. HeaderIsKnown(s)
    BY SourcesAssumption DEF SourceIsKnown
  <1>2. /\ IsBoxes(b, P)
        /\ \A p \in P : GetAtom(b, p + 4) \notin {"moof", "mdat"}
        /\ s.movie # NoMovie
        /\ \E m \in P :
            /\ \A p \in P : GetAtom(b, p + 4) = "moov" <=> p = m
            /\ ParseMoov(SubSeq(b, m + 9, m + SizeAt(b, m))) = s.movie
    BY <1>1, Zenon DEF HeaderIsKnown
  <1>3. PICK m \in P : /\ \A p \in P : GetAtom(b, p + 4) = "moov" <=> p = m
                       /\ ParseMoov(SubSeq(b, m + 9, m + SizeAt(b, m))) = s.movie
    BY <1>2
  <1>4. MoovAt(s) = m
    BY <1>3 DEF MoovAt
  <1>5. IsSeq(b)
    BY <1>2 DEF IsBoxes, IsSeq
  <1> QED BY <1>2, <1>3, <1>4, <1>5

(* A place of the header, or of one of the fragments there are               *)
IsPlace(s, p) ==
    /\ p \in Places
    /\ p.track # 0 =>
        p.track \in DOMAIN s.fragments /\ p.number \in 1 .. Len(s.fragments[p.track])

LEMMA PartFacts ==
    ASSUME NEW s \in Sources, NEW p, IsPlace(s, p)
    PROVE  /\ IsSeq(PartOf(s, p))
           /\ IsBoxes(PartOf(s, p), BoxesOf(s, p))
           /\ KeptOf(s, p) \in Nat /\ KeptOf(s, p) <= Len(PartOf(s, p))
           /\ Len(PartOf(s, p)) \in Nat
           /\ \A q \in BoxesOf(s, p) : q + HeadLength(PartOf(s, p), q) <= KeptOf(s, p)
  <1>1. CASE p.track = 0
    <2>1. IsSeq(s.header) /\ IsBoxes(s.header, HeaderBoxes(s.header))
      BY HeaderFacts
    <2>2. Len(s.header) \in Nat
      BY <2>1, SeqFacts
    <2>3. ASSUME NEW q \in HeaderBoxes(s.header)
          PROVE  q + HeadLength(s.header, q) <= Len(s.header)
      <3>1. /\ q \in Nat /\ SizeAt(s.header, q) \in Nat
            /\ HeadLength(s.header, q) <= SizeAt(s.header, q)
            /\ q + SizeAt(s.header, q) <= Len(s.header)
        BY <2>1, BoxFacts
      <3>2. HeadLength(s.header, q) \in Nat
        BY DEF HeadLength
      <3> QED BY <2>2, <3>1, <3>2
    <2>4. PartOf(s, p) = s.header /\ BoxesOf(s, p) = HeaderBoxes(s.header)
          /\ KeptOf(s, p) = Len(s.header)
      BY <1>1 DEF PartOf, BoxesOf, KeptOf
    <2> QED BY <2>1, <2>2, <2>3, <2>4
  <1>2. CASE p.track # 0
    <2> DEFINE b == Recorded(s, p.track, p.number)
               m == MoofLength(s, p.track, p.number)
               d == Len(s.data[p.track][p.number])
    <2>1. p.track \in DOMAIN s.fragments /\ p.number \in 1 .. Len(s.fragments[p.track])
      BY <1>2 DEF IsPlace
    <2>2. /\ IsSeq(b)
          /\ IsBoxes(b, {0, m})
          /\ m \in Nat /\ m >= 8
          /\ d \in Nat
          /\ Len(b) = m + 8 + d
          /\ HeadLength(b, 0) = 8
          /\ HeadLength(b, m) = 8
      BY <2>1, FragmentFacts
    <2>3. PartOf(s, p) = b /\ BoxesOf(s, p) = {0, m} /\ KeptOf(s, p) = m + 8
      BY <1>2 DEF PartOf, BoxesOf, KeptOf
    <2> HIDE DEF b, m, d
    <2>4. ASSUME NEW q \in {0, m} PROVE q + HeadLength(b, q) <= m + 8
      BY <2>2
    <2>5. Len(b) \in Nat /\ m + 8 \in Nat /\ m + 8 <= Len(b)
      BY <2>2
    <2> QED BY <2>2, <2>3, <2>4, <2>5, Zenon
  <1> QED BY <1>1, <1>2
-----------------------------------------------------------------------------
(* What the recorder adds                                                   *)

LEMMA NumberAppended ==
    ASSUME NEW pl \in Seq(Places), NEW p \in Places, NEW tr
    PROVE  /\ NumberOf(pl, tr) \in Nat
           /\ NumberOf(Append(pl, p), tr) =
                  IF p.track = tr THEN NumberOf(pl, tr) + 1 ELSE NumberOf(pl, tr)
  <1> DEFINE ql == Append(pl, p)
             A == {k \in DOMAIN pl : pl[k].track = tr}
             B == {k \in DOMAIN ql : ql[k].track = tr}
  <1>1. /\ Len(pl) \in Nat /\ DOMAIN pl = 1 .. Len(pl)
        /\ DOMAIN ql = 1 .. Len(pl) + 1
        /\ \A k \in 1 .. Len(pl) : ql[k] = pl[k]
        /\ ql[Len(pl) + 1] = p
    BY AppendProperties, LenProperties
  <1> HIDE DEF ql
  <1>2. IsFiniteSet(A)
    <2>1. IsFiniteSet(1 .. Len(pl))
      BY <1>1, FS_Interval
    <2> QED BY <1>1, <2>1, FS_Subset
  <1>3. Len(pl) + 1 \notin A
    BY <1>1
  <1>4. B = IF p.track = tr THEN A \cup {Len(pl) + 1} ELSE A
    BY <1>1
  <1> HIDE DEF A, B
  <1>5. Cardinality(A) \in Nat
    BY <1>2, FS_CardinalityType
  <1>6. Cardinality(A \cup {Len(pl) + 1}) = Cardinality(A) + 1
    BY <1>2, <1>3, FS_AddElement
  <1>7. NumberOf(pl, tr) = Cardinality(A) /\ NumberOf(ql, tr) = Cardinality(B)
    BY DEF NumberOf, A, B
  <1> QED BY <1>4, <1>5, <1>6, <1>7 DEF ql

LEMMA TracksAreNumbers ==
    ASSUME NEW s \in Sources, NEW tr \in DOMAIN s.fragments
    PROVE  /\ tr \in Nat /\ tr > 0
           /\ Len(s.fragments[tr]) \in Nat
           /\ DOMAIN s.fragments[tr] = 1 .. Len(s.fragments[tr])
  <1>1. SourceIsKnown(s)
    BY SourcesAssumption
  <1>2. IsSeq(s.movie.tracks) /\ DOMAIN s.fragments = DOMAIN s.movie.tracks
        /\ IsSeq(s.fragments[tr])
    BY <1>1 DEF SourceIsKnown, IsSeq
  <1>3. DOMAIN s.movie.tracks = 1 .. Len(s.movie.tracks) /\ Len(s.movie.tracks) \in Nat
    BY <1>2, SeqFacts
  <1> QED BY <1>2, <1>3, SeqFacts

LEMMA PlaceFacts ==
    ASSUME NEW s, NEW f, NEW pl, NEW no, FileIs(s, f, pl, no), NEW k \in 1 .. Len(pl)
    PROVE  /\ IsPlace(s, pl[k])
           /\ k # 1 => pl[k].track # 0
           /\ k = 1 => pl[k].track = 0
           /\ PlaceIsRight(s, f, pl, k)
  <1>1. /\ s \in Sources
        /\ pl \in Seq(Places)
        /\ PlaceIsRight(s, f, pl, k)
        /\ NumbersAreUsed(s, pl)
    BY DEF FileIs
  <1>2. pl[k] \in Places
    BY <1>1, ElementOfSeq
  <1>3. IsOfItsTrack(s, pl, k)
    BY <1>1 DEF PlaceIsRight
  <1>4. CASE k = 1
    BY <1>1, <1>2, <1>3, <1>4 DEF IsOfItsTrack, IsPlace
  <1>5. CASE k # 1
    <2>1. pl[k].track \in DOMAIN s.fragments /\ pl[k].number \in 1 .. NumberOf(pl, pl[k].track)
      BY <1>3, <1>5 DEF IsOfItsTrack
    <2>2. NumberOf(pl, pl[k].track) \in 0 .. Len(s.fragments[pl[k].track])
      BY <1>1, <2>1 DEF NumbersAreUsed
    <2>3. pl[k].track > 0 /\ pl[k].track \in Nat /\ Len(s.fragments[pl[k].track]) \in Nat
      BY <1>1, <2>1, TracksAreNumbers
    <2>4. pl[k].number \in 1 .. Len(s.fragments[pl[k].track])
      BY <2>1, <2>2, <2>3
    <2> QED BY <1>1, <1>2, <1>5, <2>1, <2>3, <2>4 DEF IsPlace
  <1> QED BY <1>4, <1>5

LEMMA InStarts ==
    ASSUME NEW s, NEW pl, NEW no, NEW x
    PROVE  x \in StartsOf(s, pl, no)
           <=> x \in no \/ \E k \in 1 .. Len(pl) : x \in Shift(BoxesOf(s, pl[k]), pl[k].at)
  <1> DEFINE F(k) == Shift(BoxesOf(s, pl[k]), pl[k].at)
             U == UNION {F(k) : k \in 1 .. Len(pl)}
  <1>1. StartsOf(s, pl, no) = no \cup U
    BY DEF StartsOf
  <1>2. x \in U <=> \E k \in 1 .. Len(pl) : x \in F(k)
    <2> HIDE DEF F
    <2>1. x \in U <=> \E X \in {F(k) : k \in 1 .. Len(pl)} : x \in X
      BY Zenon
    <2> QED BY <2>1, Zenon
  <1> HIDE DEF U
  <1> QED BY <1>1, <1>2

LEMMA StartsAppended ==
    ASSUME NEW s, NEW pl \in Seq(Places), NEW no, NEW p \in Places
    PROVE  StartsOf(s, Append(pl, p), no) = StartsOf(s, pl, no) \cup Shift(BoxesOf(s, p), p.at)
  <1> DEFINE ql == Append(pl, p)
  <1>1. /\ Len(pl) \in Nat /\ Len(ql) = Len(pl) + 1
        /\ \A k \in 1 .. Len(pl) : ql[k] = pl[k]
        /\ ql[Len(pl) + 1] = p
    BY AppendProperties, LenProperties
  <1> HIDE DEF ql
  <1>2. ASSUME NEW x \in StartsOf(s, ql, no)
        PROVE  x \in StartsOf(s, pl, no) \cup Shift(BoxesOf(s, p), p.at)
    <2>1. CASE x \in no
      BY <2>1, InStarts
    <2>2. CASE \E k \in 1 .. Len(ql) : x \in Shift(BoxesOf(s, ql[k]), ql[k].at)
      <3>1. PICK k \in 1 .. Len(ql) : x \in Shift(BoxesOf(s, ql[k]), ql[k].at)
        BY <2>2
      <3>2. CASE k = Len(pl) + 1
        BY <1>1, <3>1, <3>2
      <3>3. CASE k # Len(pl) + 1
        <4>1. k \in 1 .. Len(pl) /\ ql[k] = pl[k]
          BY <1>1, <3>3
        <4>2. x \in StartsOf(s, pl, no)
          BY <3>1, <4>1, InStarts
        <4> QED BY <4>2
      <3> QED BY <3>2, <3>3
    <2> QED BY <2>1, <2>2, InStarts
  <1>3. ASSUME NEW x \in StartsOf(s, pl, no) PROVE x \in StartsOf(s, ql, no)
    <2>1. CASE x \in no
      BY <2>1, InStarts
    <2>2. CASE \E k \in 1 .. Len(pl) : x \in Shift(BoxesOf(s, pl[k]), pl[k].at)
      <3>1. PICK k \in 1 .. Len(pl) : x \in Shift(BoxesOf(s, pl[k]), pl[k].at)
        BY <2>2
      <3>2. k \in 1 .. Len(ql) /\ ql[k] = pl[k]
        BY <1>1
      <3>3. x \in Shift(BoxesOf(s, ql[k]), ql[k].at)
        BY <3>1, <3>2
      <3> QED BY <3>2, <3>3, InStarts
    <2> QED BY <2>1, <2>2, InStarts
  <1>4. ASSUME NEW x \in Shift(BoxesOf(s, p), p.at) PROVE x \in StartsOf(s, ql, no)
    <2>1. Len(pl) + 1 \in 1 .. Len(ql) /\ ql[Len(pl) + 1] = p
      BY <1>1
    <2>2. x \in Shift(BoxesOf(s, ql[Len(pl) + 1]), ql[Len(pl) + 1].at)
      BY <2>1
    <2> QED BY <2>1, <2>2, InStarts
  <1>5. StartsOf(s, ql, no) = StartsOf(s, pl, no) \cup Shift(BoxesOf(s, p), p.at)
    BY <1>2, <1>3, <1>4
  <1> QED BY <1>5 DEF ql

LEMMA FileFacts ==
    ASSUME NEW s, NEW f, NEW pl, NEW no, FileIs(s, f, pl, no)
    PROVE  /\ s \in Sources
           /\ IsSeq(f) /\ Len(f) \in Nat
           /\ pl \in Seq(Places) /\ Len(pl) \in Nat /\ DOMAIN pl = 1 .. Len(pl)
           /\ NumbersAreUsed(s, pl)
           /\ NoiseIsOther(f, pl, no)
           /\ IsChain(f, StartsOf(s, pl, no))
  <1>1. IsSeq(f) /\ pl \in Seq(Places)
    BY DEF FileIs, IsSeq
  <1>2. Len(f) \in Nat
    BY <1>1, SeqFacts
  <1>3. Len(pl) \in Nat /\ DOMAIN pl = 1 .. Len(pl)
    BY <1>1, LenProperties
  <1> QED BY <1>1, <1>2, <1>3 DEF FileIs

(* Where the next part of a recording goes, and which one it is              *)
IsNext(s, f, pl, p) ==
    /\ IsPlace(s, p)
    /\ p.at = Len(f)
    /\ IF pl = <<>> THEN p.track = 0
       ELSE p.track # 0 /\ p.number = NumberOf(pl, p.track) + 1

LEMMA OldPlaceStays ==
    ASSUME NEW s, NEW f, NEW pl, NEW no, FileIs(s, f, pl, no), FileIsWhole(s, f, pl, no),
           NEW p, IsNext(s, f, pl, p), NEW k \in 1 .. Len(pl)
    PROVE  PlaceIsRight(s, f \o PartOf(s, p), Append(pl, p), k)
  <1> DEFINE b == PartOf(s, p)
             g == f \o b
             ql == Append(pl, p)
             x == pl[k]
             c == PartOf(s, x)
  <1>1. /\ s \in Sources /\ IsSeq(f) /\ Len(f) \in Nat
        /\ pl \in Seq(Places) /\ Len(pl) \in Nat
    BY FileFacts
  <1>2. IsPlace(s, p) /\ p \in Places /\ IsPlace(s, x) /\ x \in Places
    BY PlaceFacts DEF IsNext, IsPlace
  <1>3. IsSeq(b) /\ Len(b) \in Nat /\ KeptOf(s, x) \in Nat /\ Len(c) \in Nat
    BY <1>1, <1>2, PartFacts
  <1>4. /\ Len(g) = Len(f) + Len(b)
        /\ \A i \in 1 .. Len(f) : g[i] = f[i]
    BY <1>1, <1>3, CatFacts
  <1>5. /\ Len(ql) = Len(pl) + 1
        /\ \A i \in 1 .. Len(pl) : ql[i] = pl[i]
        /\ ql[Len(pl) + 1] = p
    BY <1>1, <1>2, AppendProperties
  <1>6. /\ PlaceIsRight(s, f, pl, k)
        /\ k # 1 => x.track # 0
        /\ k = 1 => x.track = 0
    BY PlaceFacts
  <1>7. x.at + Len(c) <= Len(f)
    BY DEF FileIsWhole
  <1>8. /\ Holds(f, x.at, c)
        /\ x.at + KeptOf(s, x) <= Len(f)
        /\ IsOfItsTrack(s, pl, k)
        /\ \A l \in 1 .. Len(pl) : k < l => IsBefore(s, x, pl[l])
    BY <1>6 DEF PlaceIsRight
  <1>9. x.at \in Nat /\ p.at = Len(f)
    BY <1>2 DEF Places, IsNext
  <1> HIDE DEF b, g, ql
  <1>10. Holds(g, x.at, c)
    <2>1. ASSUME NEW i \in 1 .. Len(c) PROVE g[x.at + i] = c[i]
      <3>1. x.at + i \in 1 .. Len(f)
        BY <1>1, <1>3, <1>7, <1>9
      <3>2. f[x.at + i] = c[i]
        BY <1>8, <3>1 DEF Holds
      <3> QED BY <1>4, <3>1, <3>2
    <2> QED BY <2>1 DEF Holds
  <1>11. x.at + KeptOf(s, x) <= Len(g)
    BY <1>1, <1>3, <1>4, <1>8, <1>9
  <1>12. IsOfItsTrack(s, ql, k)
    <2>1. CASE k = 1
      BY <1>5, <1>8, <2>1 DEF IsOfItsTrack
    <2>2. CASE k # 1
      <3>1. x.track \in DOMAIN s.fragments /\ x.number \in 1 .. NumberOf(pl, x.track)
        BY <1>8, <2>2 DEF IsOfItsTrack
      <3>2. /\ NumberOf(pl, x.track) \in Nat
            /\ \/ NumberOf(ql, x.track) = NumberOf(pl, x.track)
               \/ NumberOf(ql, x.track) = NumberOf(pl, x.track) + 1
        BY <1>1, <1>2, NumberAppended DEF ql
      <3>3. x.number \in 1 .. NumberOf(ql, x.track)
        BY <3>1, <3>2
      <3> QED BY <1>5, <2>2, <3>1, <3>3 DEF IsOfItsTrack
    <2> QED BY <2>1, <2>2
  <1>13. IsBefore(s, x, p)
    <2>1. x.at + Len(c) <= p.at
      BY <1>7, <1>9
    <2>2. ASSUME x.track = p.track PROVE x.number < p.number
      <3>1. pl # <<>>
        BY <1>1, EmptySeq
      <3>2. p.track # 0 /\ p.number = NumberOf(pl, p.track) + 1
        BY <3>1 DEF IsNext
      <3>3. k # 1
        BY <1>6, <2>2, <3>2
      <3>4. x.number \in 1 .. NumberOf(pl, x.track) /\ NumberOf(pl, x.track) \in Nat
        BY <1>1, <1>2, <1>8, <3>3, NumberAppended DEF IsOfItsTrack
      <3> QED BY <2>2, <3>2, <3>4
    <2> QED BY <2>1, <2>2 DEF IsBefore
  <1>14. ASSUME NEW l \in 1 .. Len(ql), k < l PROVE IsBefore(s, ql[k], ql[l])
    <2>1. CASE l = Len(pl) + 1
      BY <1>5, <1>13, <2>1
    <2>2. CASE l # Len(pl) + 1
      <3>1. l \in 1 .. Len(pl) /\ ql[l] = pl[l]
        BY <1>1, <1>5, <2>2
      <3> QED BY <1>5, <1>8, <1>14, <3>1
    <2> QED BY <2>1, <2>2
  <1>15. ql[k] = x
    BY <1>5
  <1> QED BY <1>10, <1>11, <1>12, <1>14, <1>15 DEF PlaceIsRight, b, g, ql

LEMMA NewPlaceIsRight ==
    ASSUME NEW s, NEW f, NEW pl, NEW no, FileIs(s, f, pl, no), FileIsWhole(s, f, pl, no),
           NEW p, IsNext(s, f, pl, p)
    PROVE  PlaceIsRight(s, f \o PartOf(s, p), Append(pl, p), Len(pl) + 1)
  <1> DEFINE b == PartOf(s, p)
             g == f \o b
             ql == Append(pl, p)
             k == Len(pl) + 1
  <1>1. /\ s \in Sources /\ IsSeq(f) /\ Len(f) \in Nat
        /\ pl \in Seq(Places) /\ Len(pl) \in Nat
    BY FileFacts
  <1>2. IsPlace(s, p) /\ p \in Places /\ p.at = Len(f)
    BY DEF IsNext, IsPlace
  <1>3. IsSeq(b) /\ Len(b) \in Nat /\ KeptOf(s, p) \in Nat /\ KeptOf(s, p) <= Len(b)
    BY <1>1, <1>2, PartFacts
  <1>4. /\ Len(g) = Len(f) + Len(b)
        /\ \A i \in 1 .. Len(b) : g[Len(f) + i] = b[i]
    BY <1>1, <1>3, CatFacts
  <1>5. Len(ql) = k /\ ql[k] = p
    BY <1>1, <1>2, AppendProperties
  <1> HIDE DEF b, g, ql
  <1>6. Holds(g, p.at, b)
    BY <1>2, <1>4 DEF Holds
  <1>7. p.at + KeptOf(s, p) <= Len(g)
    BY <1>1, <1>2, <1>3, <1>4
  <1>8. IsOfItsTrack(s, ql, k)
    <2>1. CASE pl = <<>>
      <3>1. k = 1
        BY <2>1, EmptySeq
      <3> QED BY <1>5, <2>1, <3>1 DEF IsOfItsTrack, IsNext
    <2>2. CASE pl # <<>>
      <3>1. k # 1
        BY <1>1, <2>2, EmptySeq
      <3>2. p.track # 0 /\ p.number = NumberOf(pl, p.track) + 1
        BY <2>2 DEF IsNext
      <3>3. NumberOf(ql, p.track) = NumberOf(pl, p.track) + 1 /\ NumberOf(pl, p.track) \in Nat
        BY <1>1, <1>2, NumberAppended DEF ql
      <3>4. p.number \in 1 .. NumberOf(ql, p.track)
        BY <3>2, <3>3
      <3>5. p.track \in DOMAIN s.fragments
        BY <1>2, <3>2 DEF IsPlace
      <3> QED BY <1>5, <3>1, <3>4, <3>5 DEF IsOfItsTrack
    <2> QED BY <2>1, <2>2
  <1>9. \A l \in 1 .. Len(ql) : ~(k < l)
    BY <1>1, <1>5
  <1> QED BY <1>5, <1>6, <1>7, <1>8, <1>9 DEF PlaceIsRight, b, g, ql

LEMMA NumbersAppended ==
    ASSUME NEW s, NEW f, NEW pl, NEW no, FileIs(s, f, pl, no), NEW p, IsNext(s, f, pl, p)
    PROVE  NumbersAreUsed(s, Append(pl, p))
  <1> DEFINE ql == Append(pl, p)
  <1>1. s \in Sources /\ pl \in Seq(Places) /\ Len(pl) \in Nat /\ NumbersAreUsed(s, pl)
    BY FileFacts
  <1>2. IsPlace(s, p) /\ p \in Places
    BY DEF IsNext, IsPlace
  <1>3. /\ Len(ql) = Len(pl) + 1
        /\ \A i \in 1 .. Len(pl) : ql[i] = pl[i]
        /\ ql[Len(pl) + 1] = p
    BY <1>1, <1>2, AppendProperties
  <1>4. ASSUME NEW tr \in DOMAIN s.fragments
        PROVE  /\ NumberOf(ql, tr) \in 0 .. Len(s.fragments[tr])
               /\ \A n \in 1 .. NumberOf(ql, tr) :
                    \E k \in 1 .. Len(ql) : ql[k].track = tr /\ ql[k].number = n
    <2>1. /\ NumberOf(pl, tr) \in 0 .. Len(s.fragments[tr])
          /\ \A n \in 1 .. NumberOf(pl, tr) :
               \E k \in 1 .. Len(pl) : pl[k].track = tr /\ pl[k].number = n
      BY <1>1 DEF NumbersAreUsed
    <2>2. tr > 0 /\ Len(s.fragments[tr]) \in Nat
      BY <1>1, TracksAreNumbers
    <2>3. NumberOf(ql, tr) = IF p.track = tr THEN NumberOf(pl, tr) + 1 ELSE NumberOf(pl, tr)
      BY <1>1, <1>2, NumberAppended
    <2>4. ASSUME p.track = tr
          PROVE  p.number = NumberOf(pl, tr) + 1 /\ p.number \in 1 .. Len(s.fragments[tr])
      <3>1. p.track # 0
        BY <2>2, <2>4
      <3> QED BY <2>4, <3>1 DEF IsNext, IsPlace
    <2> HIDE DEF ql
    <2>5. NumberOf(ql, tr) \in 0 .. Len(s.fragments[tr])
      BY <2>1, <2>2, <2>3, <2>4
    <2>6. ASSUME NEW n \in 1 .. NumberOf(ql, tr)
          PROVE  \E k \in 1 .. Len(ql) : ql[k].track = tr /\ ql[k].number = n
      <3>1. CASE n \in 1 .. NumberOf(pl, tr)
        <4>1. PICK k \in 1 .. Len(pl) : pl[k].track = tr /\ pl[k].number = n
          BY <2>1, <3>1
        <4>2. k \in 1 .. Len(ql) /\ ql[k] = pl[k]
          BY <1>1, <1>3
        <4> QED BY <4>1, <4>2
      <3>2. CASE n \notin 1 .. NumberOf(pl, tr)
        <4>1. p.track = tr /\ n = NumberOf(pl, tr) + 1
          BY <2>1, <2>3, <3>2
        <4>2. Len(pl) + 1 \in 1 .. Len(ql)
          BY <1>1, <1>3
        <4> QED BY <1>3, <2>4, <4>1, <4>2
      <3> QED BY <3>1, <3>2
    <2> QED BY <2>5, <2>6
  <1> QED BY <1>4 DEF NumbersAreUsed

LEMMA PartAppended ==
    ASSUME NEW s, NEW f, NEW pl, NEW no, FileIs(s, f, pl, no), FileIsWhole(s, f, pl, no),
           NEW p, IsNext(s, f, pl, p)
    PROVE  /\ FileIs(s, f \o PartOf(s, p), Append(pl, p), no)
           /\ FileIsWhole(s, f \o PartOf(s, p), Append(pl, p), no)
  <1> DEFINE b == PartOf(s, p)
             g == f \o b
             ql == Append(pl, p)
             Q == BoxesOf(s, p)
             P == StartsOf(s, pl, no)
             R == StartsOf(s, ql, no)
  <1>1. /\ s \in Sources /\ IsSeq(f) /\ Len(f) \in Nat
        /\ pl \in Seq(Places) /\ Len(pl) \in Nat
        /\ NoiseIsOther(f, pl, no)
        /\ IsChain(f, P)
    BY FileFacts
  <1>2. IsPlace(s, p) /\ p \in Places /\ p.at = Len(f)
    BY DEF IsNext, IsPlace
  <1>3. IsSeq(b) /\ IsBoxes(b, Q) /\ Len(b) \in Nat
    BY <1>1, <1>2, PartFacts
  <1>4. IsSeq(g) /\ Len(g) = Len(f) + Len(b)
    BY <1>1, <1>3, CatFacts
  <1>5. /\ ql \in Seq(Places)
        /\ Len(ql) = Len(pl) + 1
        /\ \A i \in 1 .. Len(pl) : ql[i] = pl[i]
        /\ ql[Len(pl) + 1] = p
    BY <1>1, <1>2, AppendProperties
  <1>6. R = P \cup Shift(Q, Len(f))
    BY <1>1, <1>2, StartsAppended
  <1>7. \A q \in P : q + SizeAt(f, q) <= Len(f)
    BY DEF FileIsWhole
  <1>8. IsChain(g, R) /\ \A r \in R : r + SizeAt(g, r) <= Len(g)
    <2> HIDE DEF b, P, Q, R
    <2>1. IsSeq(f) /\ IsBoxes(b, Q) /\ IsChain(f, P)
      BY <1>1, <1>3
    <2>2. /\ IsChain(f \o b, P \cup Shift(Q, Len(f)))
          /\ \A q \in P \cup Shift(Q, Len(f)) : q + SizeAt(f \o b, q) <= Len(f \o b)
      BY <1>7, <2>1, ChainGrows
    <2> QED BY <1>6, <2>2, Zenon
  <1>9. \A k \in 1 .. Len(ql) : PlaceIsRight(s, g, ql, k)
    <2>1. ASSUME NEW k \in 1 .. Len(ql) PROVE PlaceIsRight(s, g, ql, k)
      <3>1. CASE k = Len(pl) + 1
        BY <3>1, NewPlaceIsRight
      <3>2. CASE k # Len(pl) + 1
        <4>1. k \in 1 .. Len(pl)
          BY <1>1, <1>5, <3>2
        <4> QED BY <4>1, OldPlaceStays
      <3> QED BY <3>1, <3>2
    <2> QED BY <2>1
  <1>10. NumbersAreUsed(s, ql)
    BY NumbersAppended
  <1>11. NoiseIsOther(g, ql, no)
    <2>1. ASSUME NEW x \in no
          PROVE  /\ GetAtom(g, x + 4) \notin {"ftyp", "moov", "moof"}
                 /\ GetAtom(g, x + 4) = "mdat" =>
                      \A k \in 1 .. Len(ql) : ql[k].track # 0 => x < ql[k].at
      <3>1. x \in P
        BY DEF StartsOf
      <3>2. GetAtom(g, x + 4) = GetAtom(f, x + 4)
        BY <1>1, <1>3, <3>1, OldBoxStays
      <3>3. x \in Nat /\ x < Len(f)
        <4>1. IsLink(f, P, x)
          BY <1>1, <3>1, LinkOfChain
        <4> QED BY <1>1, <4>1 DEF IsLink, HeadLength
      <3>4. /\ GetAtom(f, x + 4) \notin {"ftyp", "moov", "moof"}
            /\ GetAtom(f, x + 4) = "mdat" =>
                 \A k \in 1 .. Len(pl) : pl[k].track # 0 => x < pl[k].at
        BY <1>1 DEF NoiseIsOther
      <3> HIDE DEF ql, g
      <3>5. ASSUME GetAtom(f, x + 4) = "mdat", NEW k \in 1 .. Len(ql), ql[k].track # 0
            PROVE  x < ql[k].at
        <4>1. CASE k = Len(pl) + 1
          BY <1>2, <1>5, <3>3, <4>1
        <4>2. CASE k # Len(pl) + 1
          <5>1. k \in 1 .. Len(pl) /\ ql[k] = pl[k]
            BY <1>1, <1>5, <4>2
          <5> QED BY <3>4, <3>5, <5>1
        <4> QED BY <4>1, <4>2
      <3> QED BY <3>2, <3>4, <3>5
    <2> QED BY <2>1 DEF NoiseIsOther
  <1>12. 0 \in R \/ Len(g) = 0
    <2>1. CASE 0 \in P
      BY <1>6, <2>1
    <2>2. CASE 0 \notin P
      <3>1. Len(f) = 0
        BY <2>2 DEF FileIs
      <3>2. 0 \in Q
        BY <1>3 DEF IsBoxes
      <3>3. 0 \in Shift(Q, Len(f))
        BY <3>1, <3>2 DEF Shift
      <3> QED BY <1>6, <3>3
    <2> QED BY <2>1, <2>2
  <1>13. \A k \in 1 .. Len(ql) : ql[k].at + Len(PartOf(s, ql[k])) <= Len(g)
    <2>1. ASSUME NEW k \in 1 .. Len(ql) PROVE ql[k].at + Len(PartOf(s, ql[k])) <= Len(g)
      <3>1. CASE k = Len(pl) + 1
        BY <1>2, <1>4, <1>5, <3>1
      <3>2. CASE k # Len(pl) + 1
        <4>1. k \in 1 .. Len(pl) /\ ql[k] = pl[k]
          BY <1>1, <1>5, <3>2
        <4>2. pl[k].at + Len(PartOf(s, pl[k])) <= Len(f)
          BY <4>1 DEF FileIsWhole
        <4>3. pl[k].at \in Nat /\ Len(PartOf(s, pl[k])) \in Nat
          BY <1>1, <4>1, PlaceFacts, PartFacts DEF IsPlace, Places
        <4> HIDE DEF g, ql, b
        <4> QED BY <1>1, <1>3, <1>4, <4>1, <4>2, <4>3
      <3> QED BY <3>1, <3>2
    <2> QED BY <2>1
  <1>14. g \in Seq(Range(g))
    BY <1>4 DEF IsSeq
  <1> HIDE DEF b, g, ql, P, Q, R
  <1>15. FileIs(s, g, ql, no)
    BY <1>1, <1>5, <1>8, <1>9, <1>10, <1>11, <1>12, <1>14 DEF FileIs, R
  <1>16. FileIsWhole(s, g, ql, no)
    BY <1>8, <1>13 DEF FileIsWhole, R
  <1> QED BY <1>15, <1>16 DEF b, g, ql

LEMMA NoiseAppended ==
    ASSUME NEW s, NEW f, NEW pl, NEW no, FileIs(s, f, pl, no), FileIsWhole(s, f, pl, no),
           NEW b \in Noises, GetAtom(b, 4) = "mdat" => Len(pl) <= 1
    PROVE  /\ FileIs(s, f \o b, pl, no \cup {Len(f)})
           /\ FileIsWhole(s, f \o b, pl, no \cup {Len(f)})
  <1> DEFINE g == f \o b
             n == Len(f)
             mo == no \cup {n}
             P == StartsOf(s, pl, no)
             R == StartsOf(s, pl, mo)
  <1>1. /\ s \in Sources /\ IsSeq(f) /\ n \in Nat
        /\ pl \in Seq(Places) /\ Len(pl) \in Nat
        /\ NumbersAreUsed(s, pl)
        /\ NoiseIsOther(f, pl, no)
        /\ IsChain(f, P)
    BY FileFacts
  <1>2. IsBoxes(b, {0}) /\ GetAtom(b, 4) \notin {"ftyp", "moov", "moof"}
    BY NoisesAssumption
  <1>3. IsSeq(b) /\ Len(b) \in Nat
    BY <1>2, SeqFacts DEF IsBoxes, IsSeq
  <1>4. IsSeq(g) /\ Len(g) = n + Len(b) /\ \A i \in 1 .. n : g[i] = f[i]
    BY <1>1, <1>3, CatFacts
  <1>5. R = P \cup Shift({0}, n)
    <2>1. Shift({0}, n) = {n}
      <3>1. n + 0 = n
        BY <1>1
      <3> HIDE DEF n
      <3> QED BY <3>1, Zenon DEF Shift
    <2>2. \A x : x \in R <=> x \in P \/ x = n
      <3>1. ASSUME NEW x PROVE x \in R <=> x \in P \/ x = n
        <4>1. x \in mo <=> x \in no \/ x = n
          OBVIOUS
        <4> HIDE DEF n, mo
        <4> QED BY <4>1, InStarts
      <3> QED BY <3>1
    <2> HIDE DEF R, P
    <2> QED BY <2>1, <2>2
  <1>6. \A q \in P : q + SizeAt(f, q) <= n
    BY DEF FileIsWhole
  <1>7. IsChain(g, R) /\ \A r \in R : r + SizeAt(g, r) <= Len(g)
    <2> HIDE DEF P, R
    <2>1. /\ IsChain(f \o b, P \cup Shift({0}, Len(f)))
          /\ \A q \in P \cup Shift({0}, Len(f)) : q + SizeAt(f \o b, q) <= Len(f \o b)
      BY <1>1, <1>2, <1>6, ChainGrows
    <2> QED BY <1>5, <2>1, Zenon
  <1>8. ASSUME NEW k \in 1 .. Len(pl)
        PROVE  /\ PlaceIsRight(s, g, pl, k)
               /\ pl[k].at + Len(PartOf(s, pl[k])) <= Len(g)
               /\ pl[k].at + Len(PartOf(s, pl[k])) <= n
               /\ pl[k].at \in Nat /\ Len(PartOf(s, pl[k])) \in Nat
    <2> DEFINE x == pl[k]
               c == PartOf(s, x)
    <2>1. IsPlace(s, x) /\ x.at \in Nat /\ PlaceIsRight(s, f, pl, k)
      BY PlaceFacts DEF IsPlace, Places
    <2>2. Len(c) \in Nat /\ KeptOf(s, x) \in Nat
      BY <1>1, <2>1, PartFacts
    <2>3. x.at + Len(c) <= n
      BY DEF FileIsWhole
    <2>4. /\ Holds(f, x.at, c)
          /\ x.at + KeptOf(s, x) <= n
          /\ IsOfItsTrack(s, pl, k)
          /\ \A l \in 1 .. Len(pl) : k < l => IsBefore(s, x, pl[l])
      BY <2>1 DEF PlaceIsRight
    <2> HIDE DEF c, g, n
    <2>5. Holds(g, x.at, c)
      <3>1. ASSUME NEW i \in 1 .. Len(c) PROVE g[x.at + i] = c[i]
        <4>1. x.at + i \in 1 .. Len(f)
          BY <1>1, <2>1, <2>2, <2>3 DEF n
        <4>2. f[x.at + i] = c[i]
          BY <2>4, <4>1 DEF Holds
        <4> QED BY <1>4, <4>1, <4>2 DEF n
      <3> QED BY <3>1 DEF Holds
    <2>6. x.at + KeptOf(s, x) <= Len(g) /\ x.at + Len(c) <= Len(g)
      BY <1>1, <1>3, <1>4, <2>1, <2>2, <2>3, <2>4
    <2>7. PlaceIsRight(s, g, pl, k)
      BY <2>4, <2>5, <2>6 DEF PlaceIsRight, c
    <2> QED BY <2>1, <2>2, <2>3, <2>6, <2>7 DEF c
  <1>9. NoiseIsOther(g, pl, mo)
    <2>1. ASSUME NEW x \in mo
          PROVE  /\ GetAtom(g, x + 4) \notin {"ftyp", "moov", "moof"}
                 /\ GetAtom(g, x + 4) = "mdat" =>
                      \A k \in 1 .. Len(pl) : pl[k].track # 0 => x < pl[k].at
      <3>1. CASE x \in no
        <4>1. x \in P
          BY <3>1, InStarts
        <4>2. GetAtom(g, x + 4) = GetAtom(f, x + 4)
          BY <1>1, <1>3, <4>1, OldBoxStays
        <4> HIDE DEF g
        <4> QED BY <1>1, <3>1, <4>2 DEF NoiseIsOther
      <3>2. CASE x = n
        <4>1. 0 \in {0}
          OBVIOUS
        <4>2. SameBox(g, n, b, 0)
          BY <1>1, <1>2, <4>1, NewBoxStays
        <4>3. n + 0 = n /\ 0 + 4 = 4
          BY <1>1
        <4> HIDE DEF g, n
        <4>4. GetAtom(g, n + 4) = GetAtom(b, 4)
          BY <4>2, <4>3 DEF SameBox
        <4>5. ASSUME GetAtom(b, 4) = "mdat", NEW k \in 1 .. Len(pl), pl[k].track # 0
              PROVE  FALSE
          <5>1. k = 1
            BY <1>1, <4>5
          <5> QED BY <4>5, <5>1, PlaceFacts
        <4> QED BY <1>2, <3>2, <4>4, <4>5
      <3> QED BY <3>1, <3>2
    <2> QED BY <2>1 DEF NoiseIsOther
  <1>10. 0 \in R \/ Len(g) = 0
    <2>1. CASE 0 \in P
      BY <1>5, <2>1
    <2>2. CASE 0 \notin P
      <3>1. n = 0
        BY <2>2 DEF FileIs
      <3>2. 0 \in mo
        BY <3>1
      <3> QED BY <3>2, InStarts
    <2> QED BY <2>1, <2>2
  <1>11. g \in Seq(Range(g))
    BY <1>4 DEF IsSeq
  <1> HIDE DEF g, n, mo, P, R
  <1>12. FileIs(s, g, pl, mo)
    BY <1>1, <1>7, <1>8, <1>9, <1>10, <1>11 DEF FileIs, R
  <1>13. FileIsWhole(s, g, pl, mo)
    BY <1>7, <1>8 DEF FileIsWhole, R
  <1> QED BY <1>12, <1>13 DEF g, n, mo

LEMMA SameBoxThere ==
    ASSUME NEW a, NEW b, NEW d \in Nat, NEW p \in Nat,
           Get(b, p, 4) # 0,
           \A i \in 1 .. HeadLength(b, p) : a[d + p + i] = b[p + i]
    PROVE  SameBox(a, d, b, p)
  BY HeadThere DEF SameBox

LEMMA PartStands ==
    ASSUME NEW s, NEW f, NEW pl, NEW no, FileIs(s, f, pl, no), NEW k \in 1 .. Len(pl),
           NEW q \in BoxesOf(s, pl[k])
    PROVE  /\ q \in Nat
           /\ pl[k].at + q \in StartsOf(s, pl, no)
           /\ SameBox(f, pl[k].at, PartOf(s, pl[k]), q)
  <1> DEFINE x == pl[k]
             d == x.at
             b == PartOf(s, x)
  <1>1. IsPlace(s, x) /\ d \in Nat /\ PlaceIsRight(s, f, pl, k)
    BY PlaceFacts DEF IsPlace, Places
  <1>2. s \in Sources /\ Len(f) \in Nat
    BY FileFacts
  <1>3. /\ IsBoxes(b, BoxesOf(s, x)) /\ Len(b) \in Nat
        /\ KeptOf(s, x) \in Nat /\ KeptOf(s, x) <= Len(b)
        /\ q + HeadLength(b, q) <= KeptOf(s, x)
    BY <1>1, <1>2, PartFacts
  <1>4. q \in Nat /\ Get(b, q, 4) # 0
    BY <1>3, BoxFacts
  <1>5. Holds(f, d, b) /\ d + KeptOf(s, x) <= Len(f)
    BY <1>1 DEF PlaceIsRight
  <1>6. HeadLength(b, q) \in Nat
    BY DEF HeadLength
  <1> HIDE DEF b, d
  <1>7. ASSUME NEW i \in 1 .. HeadLength(b, q) PROVE f[d + q + i] = b[q + i]
    <2>1. q + i \in 1 .. Len(b) /\ d + (q + i) <= Len(f) /\ d + (q + i) = d + q + i
      BY <1>1, <1>2, <1>3, <1>4, <1>5, <1>6
    <2> QED BY <1>5, <2>1 DEF Holds
  <1>8. SameBox(f, d, b, q)
    <2>1. d \in Nat /\ q \in Nat /\ Get(b, q, 4) # 0
          /\ \A i \in 1 .. HeadLength(b, q) : f[d + q + i] = b[q + i]
      BY <1>1, <1>4, <1>7 DEF d
    <2> QED BY <2>1, SameBoxThere
  <1>9. d + q \in StartsOf(s, pl, no)
    <2>1. d + q \in Shift(BoxesOf(s, x), x.at)
      BY DEF Shift, d
    <2> QED BY <2>1, InStarts
  <1> QED BY <1>4, <1>8, <1>9 DEF b, d

(* The samples at the end of the file may be cut off.                       *)
IsCut(s, f, pl, n) ==
    LET last == pl[Len(pl)]
    IN  /\ n \in Nat
        /\ n # 0 => /\ last.track # 0
                    /\ Len(f) = last.at + s.sizes[last.track][last.number]
                    /\ n < Len(s.data[last.track][last.number])

LEMMA FileIsCut ==
    ASSUME NEW s, NEW f, NEW pl, NEW no, FileIs(s, f, pl, no), FileIsWhole(s, f, pl, no),
           pl # <<>>, NEW n, IsCut(s, f, pl, n)
    PROVE  FileIs(s, SubSeq(f, 1, Len(f) - n), pl, no)
  <1> DEFINE c == Len(f) - n
             g == SubSeq(f, 1, c)
             P == StartsOf(s, pl, no)
             last == pl[Len(pl)]
             d == Len(s.data[last.track][last.number])
             m == MoofLength(s, last.track, last.number)
  <1>1. /\ s \in Sources /\ IsSeq(f) /\ Len(f) \in Nat
        /\ pl \in Seq(Places) /\ Len(pl) \in Nat
        /\ NumbersAreUsed(s, pl)
        /\ NoiseIsOther(f, pl, no)
        /\ IsChain(f, P)
    BY FileFacts
  <1>2. Len(pl) \in 1 .. Len(pl)
    BY <1>1, EmptySeq
  <1>3. n \in Nat
    BY DEF IsCut
  <1>4. ASSUME n # 0
        PROVE  /\ last.at \in Nat /\ m \in Nat /\ d \in Nat /\ n < d
               /\ Len(f) = last.at + m + 8 + d
               /\ last.at + m \in P
               /\ SizeAt(f, last.at + m) = 8 + d
               /\ HeadLength(f, last.at + m) = 8
               /\ KeptOf(s, last) = m + 8
    <2>1. last.track # 0 /\ n < d
          /\ Len(f) = last.at + s.sizes[last.track][last.number]
      BY <1>4 DEF IsCut
    <2>2. IsPlace(s, last) /\ last.at \in Nat
      BY <1>2, PlaceFacts DEF IsPlace, Places
    <2>3. last.track \in DOMAIN s.fragments /\ last.number \in 1 .. Len(s.fragments[last.track])
      BY <2>1, <2>2 DEF IsPlace
    <2> DEFINE b == Recorded(s, last.track, last.number)
    <2>4. /\ m \in Nat /\ d \in Nat
          /\ Len(b) = m + 8 + d
          /\ s.sizes[last.track][last.number] = Len(b)
          /\ SizeAt(b, m) = 8 + d
          /\ HeadLength(b, m) = 8
      BY <1>1, <2>3, FragmentFacts
    <2>5. PartOf(s, last) = b /\ m \in BoxesOf(s, last) /\ KeptOf(s, last) = m + 8
      BY <2>1 DEF PartOf, BoxesOf, KeptOf
    <2>6. last.at + m \in P /\ SameBox(f, last.at, b, m)
      BY <1>2, <2>5, PartStands
    <2>7. SizeAt(f, last.at + m) = 8 + d /\ HeadLength(f, last.at + m) = 8
      BY <2>4, <2>6 DEF SameBox
    <2> HIDE DEF b, d, m, P, last
    <2>8. Len(f) = last.at + m + 8 + d
      BY <2>1, <2>2, <2>4
    <2> QED BY <2>1, <2>2, <2>4, <2>5, <2>6, <2>7, <2>8
  <1>5. c \in Nat /\ c <= Len(f) /\ (n = 0 => c = Len(f)) /\ (n # 0 => last.at + m + 8 <= c)
    <2>1. CASE n = 0
      BY <1>1, <2>1
    <2>2. CASE n # 0
      <3> HIDE DEF last, m, d
      <3> QED BY <1>1, <1>3, <1>4, <2>2
    <2> QED BY <2>1, <2>2
  <1> HIDE DEF c, d, m, P, last
  <1>6. IsSeq(g) /\ Len(g) = c /\ \A i \in 1 .. c : g[i] = f[i]
    <2>1. 0 \in Nat /\ 0 + 1 = 1 /\ c - 0 = c /\ 0 <= c
      BY <1>5
    <2>2. /\ IsSeq(SubSeq(f, 0 + 1, c))
          /\ Len(SubSeq(f, 0 + 1, c)) = IF 0 <= c THEN c - 0 ELSE 0
          /\ \A i \in 1 .. c - 0 : SubSeq(f, 0 + 1, c)[i] = f[0 + i]
      BY <1>1, <1>5, <2>1, SubFacts
    <2> QED BY <1>5, <2>1, <2>2
  <1>7. ASSUME NEW r \in P PROVE r + HeadLength(f, r) <= c
    <2>1. IsLink(f, P, r) /\ HeadLength(f, r) \in Nat
      BY <1>1, LinkOfChain DEF HeadLength
    <2>2. /\ r \in Nat /\ SizeAt(f, r) \in Nat
          /\ HeadLength(f, r) <= SizeAt(f, r)
          /\ r + HeadLength(f, r) <= Len(f)
          /\ \A q \in P : q <= r \/ r + SizeAt(f, r) <= q
      BY <2>1 DEF IsLink
    <2>3. CASE n = 0
      BY <1>5, <2>2, <2>3
    <2>4. CASE n # 0
      <3> DEFINE x == last.at + m
      <3>1. /\ x \in P /\ x \in Nat /\ d \in Nat
            /\ x + 8 <= c
            /\ SizeAt(f, x) = 8 + d /\ HeadLength(f, x) = 8
            /\ x + (8 + d) = Len(f)
        <4>1. /\ last.at \in Nat /\ m \in Nat /\ d \in Nat
              /\ Len(f) = last.at + m + 8 + d
              /\ last.at + m + 8 <= c
          BY <1>4, <1>5, <2>4
        <4>2. x \in P /\ SizeAt(f, x) = 8 + d /\ HeadLength(f, x) = 8
          BY <1>4, <2>4
        <4>3. x \in Nat /\ x + 8 <= c /\ x + (8 + d) = Len(f)
          BY <4>1
        <4> QED BY <4>1, <4>2, <4>3
      <3> HIDE DEF x
      <3>2. r <= x \/ x + SizeAt(f, x) <= r
        <4>1. IsLink(f, P, x)
          BY <1>1, <3>1, LinkOfChain
        <4> QED BY <4>1 DEF IsLink
      <3>3. r <= x
        <4>1. HeadLength(f, r) >= 8
          BY DEF HeadLength
        <4> QED BY <2>1, <2>2, <3>1, <3>2, <4>1
      <3>4. CASE r = x
        BY <3>1, <3>4
      <3>5. CASE r # x
        <4>1. r + SizeAt(f, r) <= x
          BY <2>2, <3>1, <3>3, <3>5
        <4> QED BY <1>5, <2>1, <2>2, <3>1, <4>1
      <3> QED BY <3>4, <3>5
    <2> QED BY <2>3, <2>4
  <1>8. /\ IsChain(g, P)
        /\ \A p \in P : GetAtom(g, p + 4) = GetAtom(f, p + 4)
    BY <1>1, <1>5, <1>7, ChainIsCut
  <1>9. ASSUME NEW k \in 1 .. Len(pl) PROVE PlaceIsRight(s, g, pl, k)
    <2> DEFINE x == pl[k]
               b == PartOf(s, x)
    <2>1. IsPlace(s, x) /\ x.at \in Nat /\ PlaceIsRight(s, f, pl, k)
      BY PlaceFacts DEF IsPlace, Places
    <2>2. Len(b) \in Nat /\ KeptOf(s, x) \in Nat /\ KeptOf(s, x) <= Len(b)
      BY <1>1, <2>1, PartFacts
    <2>3. /\ Holds(f, x.at, b)
          /\ x.at + KeptOf(s, x) <= Len(f)
          /\ IsOfItsTrack(s, pl, k)
          /\ \A l \in 1 .. Len(pl) : k < l => IsBefore(s, x, pl[l])
      BY <2>1 DEF PlaceIsRight
    <2>4. Holds(g, x.at, b)
      <3> HIDE DEF b, g
      <3>1. ASSUME NEW i \in 1 .. Len(b), x.at + i <= Len(g) PROVE g[x.at + i] = b[i]
        <4>1. x.at + i \in 1 .. c /\ x.at + i <= Len(f)
          BY <1>1, <1>5, <1>6, <2>1, <2>2, <3>1
        <4>2. f[x.at + i] = b[i]
          BY <2>3, <4>1 DEF Holds
        <4> QED BY <1>6, <4>1, <4>2
      <3> QED BY <3>1 DEF Holds
    <2>5. x.at + KeptOf(s, x) <= c
      <3>1. CASE n = 0
        BY <1>5, <2>3, <3>1
      <3>2. CASE n # 0
        <4>1. CASE k = Len(pl)
          <5>1. x = last
            BY <4>1 DEF last
          <5>2. x.at + (m + 8) = last.at + m + 8
            BY <1>4, <3>2, <5>1
          <5> QED BY <1>4, <1>5, <3>2, <5>1, <5>2
        <4>2. CASE k # Len(pl)
          <5>1. k < Len(pl)
            BY <1>1, <4>2
          <5>2. x.at + Len(b) <= last.at
            BY <1>2, <2>3, <5>1 DEF IsBefore, last
          <5> HIDE DEF b
          <5>3. last.at \in Nat /\ m \in Nat /\ last.at + m + 8 <= c
            BY <1>4, <1>5, <3>2
          <5> HIDE DEF x
          <5>4. x.at + KeptOf(s, x) <= last.at
            BY <2>1, <2>2, <5>2, <5>3
          <5> QED BY <1>5, <2>1, <2>2, <5>3, <5>4
        <4> QED BY <4>1, <4>2
      <3> QED BY <3>1, <3>2
    <2>6. x.at + KeptOf(s, x) <= Len(g)
      BY <1>6, <2>5
    <2> QED BY <2>3, <2>4, <2>6 DEF PlaceIsRight
  <1>10. NoiseIsOther(g, pl, no)
    <2>1. ASSUME NEW x \in no PROVE x \in P
      BY InStarts DEF P
    <2> HIDE DEF g
    <2> QED BY <1>1, <1>8, <2>1 DEF NoiseIsOther
  <1>11. 0 \in P \/ Len(g) = 0
    <2>1. 0 \in P \/ Len(f) = 0
      BY DEF FileIs, P
    <2> QED BY <1>5, <1>6, <2>1
  <1>12. g \in Seq(Range(g))
    BY <1>6 DEF IsSeq
  <1> HIDE DEF g
  <1>13. FileIs(s, g, pl, no)
    BY <1>1, <1>8, <1>9, <1>10, <1>11, <1>12 DEF FileIs, P
  <1> QED BY <1>13 DEF g, c
-----------------------------------------------------------------------------
(* What the parser finds                                                    *)

FragmentsOf(pl) == {k \in 1 .. Len(pl) : pl[k].track # 0}

LEMMA FragmentStands ==
    ASSUME NEW s, NEW f, NEW pl, NEW no, FileIs(s, f, pl, no), NEW k \in FragmentsOf(pl)
    PROVE  LET p == pl[k]
               m == MoofLength(s, p.track, p.number)
               d == Len(s.data[p.track][p.number])
           IN  /\ k \in 1 .. Len(pl)
               /\ p \in Places /\ p.at \in Nat /\ p.number \in Nat /\ p.track # 0
               /\ p.track \in DOMAIN s.fragments
               /\ p.number \in 1 .. Len(s.fragments[p.track])
               /\ p.number \in 1 .. NumberOf(pl, p.track)
               /\ m \in Nat /\ m >= 8 /\ d \in Nat
               /\ MdatAt(s, p) = p.at + m
               /\ s.sizes[p.track][p.number] = m + 8 + d
               /\ Len(PartOf(s, p)) = m + 8 + d
               /\ p.at \in StartsOf(s, pl, no) /\ MdatAt(s, p) \in StartsOf(s, pl, no)
               /\ GetAtom(f, p.at + 4) = "moof" /\ GetAtom(f, MdatAt(s, p) + 4) = "mdat"
               /\ SizeAt(f, p.at) = m /\ SizeAt(f, MdatAt(s, p)) = 8 + d
               /\ MdatAt(s, p) + 8 <= Len(f)
  <1> DEFINE p == pl[k]
             a == p.at
             m == MoofLength(s, p.track, p.number)
             d == Len(s.data[p.track][p.number])
             b == Recorded(s, p.track, p.number)
             P == StartsOf(s, pl, no)
  <1>1. k \in 1 .. Len(pl) /\ p.track # 0
    BY DEF FragmentsOf
  <1>2. s \in Sources /\ Len(f) \in Nat
    BY FileFacts
  <1>3. /\ IsPlace(s, p) /\ p \in Places /\ a \in Nat /\ p.number \in Nat
        /\ k # 1
        /\ PlaceIsRight(s, f, pl, k)
    BY <1>1, PlaceFacts DEF IsPlace, Places
  <1>4. p.track \in DOMAIN s.fragments /\ p.number \in 1 .. Len(s.fragments[p.track])
    BY <1>1, <1>3 DEF IsPlace
  <1>5. /\ m \in Nat /\ m >= 8 /\ d \in Nat
        /\ Len(b) = m + 8 + d
        /\ s.sizes[p.track][p.number] = Len(b)
        /\ SizeAt(b, 0) = m /\ SizeAt(b, m) = 8 + d
        /\ GetAtom(b, 4) = "moof" /\ GetAtom(b, m + 4) = "mdat"
    BY <1>2, <1>4, FragmentFacts
  <1>6. /\ PartOf(s, p) = b /\ KeptOf(s, p) = m + 8
        /\ 0 \in BoxesOf(s, p) /\ m \in BoxesOf(s, p)
    BY <1>1 DEF PartOf, BoxesOf, KeptOf
  <1>7. /\ a + 0 \in P /\ SameBox(f, a, b, 0)
        /\ a + m \in P /\ SameBox(f, a, b, m)
    BY <1>1, <1>6, PartStands
  <1>8. a + (m + 8) <= Len(f) /\ p.number \in 1 .. NumberOf(pl, p.track)
    BY <1>3, <1>6 DEF PlaceIsRight, IsOfItsTrack
  <1>9. MdatAt(s, p) = a + m
    BY DEF MdatAt
  <1> HIDE DEF b, m, d, P, a
  <1>10. a + 0 = a /\ 0 + 4 = 4 /\ a + m + 8 <= Len(f)
    BY <1>2, <1>3, <1>5, <1>8 DEF a
  <1>11. SizeAt(f, a) = m /\ GetAtom(f, a + 4) = "moof" /\ a \in P
    BY <1>5, <1>7, <1>10 DEF SameBox
  <1>12. SizeAt(f, a + m) = 8 + d /\ GetAtom(f, a + m + 4) = "mdat"
    BY <1>5, <1>7 DEF SameBox
  <1> QED
    BY <1>1, <1>3, <1>4, <1>5, <1>6, <1>7, <1>8, <1>9, <1>10, <1>11, <1>12 DEF b, m, d, P, a

LEMMA StepFacts ==
    ASSUME NEW s, NEW f, NEW pl, NEW no, FileIs(s, f, pl, no), NEW o \in StartsOf(s, pl, no)
    PROVE  /\ o \in Nat /\ SizeAt(f, o) \in Nat
           /\ o < o + SizeAt(f, o) /\ o < Len(f)
           /\ o + SizeAt(f, o) \in StartsOf(s, pl, no) \/ o + SizeAt(f, o) >= Len(f)
           /\ \A q \in StartsOf(s, pl, no) : q \in Nat /\ (q < o + SizeAt(f, o) <=> q <= o)
  <1> DEFINE P == StartsOf(s, pl, no)
             n == SizeAt(f, o)
  <1>1. IsChain(f, P) /\ Len(f) \in Nat
    BY FileFacts
  <1>2. IsLink(f, P, o)
    BY <1>1, LinkOfChain
  <1>3. HeadLength(f, o) \in Nat /\ HeadLength(f, o) >= 8
    BY DEF HeadLength
  <1>4. /\ o \in Nat /\ n \in Nat
        /\ HeadLength(f, o) <= n /\ o + HeadLength(f, o) <= Len(f)
        /\ o + n \in P \/ o + n >= Len(f)
        /\ \A q \in P : q <= o \/ o + n <= q
    BY <1>2 DEF IsLink
  <1>5. ASSUME NEW q \in P PROVE q \in Nat
    BY <1>1, LinkOfChain DEF IsLink
  <1> HIDE DEF P, n
  <1>6. o < o + n /\ o < Len(f)
    BY <1>1, <1>3, <1>4
  <1>7. ASSUME NEW q \in P PROVE q \in Nat /\ (q < o + n <=> q <= o)
    BY <1>4, <1>5, <1>6
  <1> QED BY <1>4, <1>6, <1>7 DEF P, n

LEMMA HeaderStands ==
    ASSUME NEW s, NEW f, NEW pl, NEW no, FileIs(s, f, pl, no), pl # <<>>
    PROVE  /\ 1 \in 1 .. Len(pl) /\ pl[1].track = 0 /\ pl[1].at \in Nat
           /\ MoovPlace(s, pl) \in StartsOf(s, pl, no)
           /\ GetAtom(f, MoovPlace(s, pl) + 4) = "moov"
           /\ MoovAt(s) \in BoxesOf(s, pl[1])
           /\ \A k \in FragmentsOf(pl) : pl[1].at + Len(s.header) <= pl[k].at
           /\ \A q \in HeaderBoxes(s.header) : q \in Nat /\ q < Len(s.header)
           /\ pl[1].at + Len(s.header) <= Len(f)
           /\ Len(s.header) \in Nat
  <1>1. s \in Sources /\ Len(pl) \in Nat /\ Len(f) \in Nat
    BY FileFacts
  <1>2. 1 \in 1 .. Len(pl)
    BY <1>1, EmptySeq, FileFacts
  <1>3. pl[1].track = 0 /\ IsPlace(s, pl[1]) /\ pl[1].at \in Nat /\ PlaceIsRight(s, f, pl, 1)
    BY <1>2, PlaceFacts DEF IsPlace, Places
  <1>4. /\ IsSeq(s.header)
        /\ IsBoxes(s.header, HeaderBoxes(s.header))
        /\ MoovAt(s) \in HeaderBoxes(s.header)
        /\ GetAtom(s.header, MoovAt(s) + 4) = "moov"
    BY <1>1, HeaderFacts
  <1>5. PartOf(s, pl[1]) = s.header /\ BoxesOf(s, pl[1]) = HeaderBoxes(s.header)
        /\ KeptOf(s, pl[1]) = Len(s.header)
    BY <1>3 DEF PartOf, BoxesOf, KeptOf
  <1>6. pl[1].at + MoovAt(s) \in StartsOf(s, pl, no) /\ SameBox(f, pl[1].at, s.header, MoovAt(s))
    BY <1>2, <1>4, <1>5, PartStands
  <1>7. GetAtom(f, MoovPlace(s, pl) + 4) = "moov"
    BY <1>4, <1>6 DEF SameBox, MoovPlace
  <1>8. ASSUME NEW k \in FragmentsOf(pl) PROVE pl[1].at + Len(s.header) <= pl[k].at
    <2>1. k \in 1 .. Len(pl) /\ 1 < k
      BY <1>1, <1>3, <1>8 DEF FragmentsOf
    <2>2. IsBefore(s, pl[1], pl[k])
      BY <1>3, <2>1 DEF PlaceIsRight
    <2> QED BY <1>5, <2>2 DEF IsBefore
  <1>9. Len(s.header) \in Nat
    BY <1>4, SeqFacts
  <1>10. ASSUME NEW q \in HeaderBoxes(s.header) PROVE q \in Nat /\ q < Len(s.header)
    <2>1. /\ q \in Nat /\ SizeAt(s.header, q) \in Nat
          /\ HeadLength(s.header, q) <= SizeAt(s.header, q)
          /\ q + SizeAt(s.header, q) <= Len(s.header)
      BY <1>4, BoxFacts
    <2>2. HeadLength(s.header, q) \in Nat /\ HeadLength(s.header, q) >= 8
      BY DEF HeadLength
    <2> QED BY <1>9, <2>1, <2>2
  <1>11. pl[1].at + Len(s.header) <= Len(f)
    BY <1>3, <1>5 DEF PlaceIsRight
  <1> QED BY <1>2, <1>3, <1>4, <1>5, <1>6, <1>7, <1>8, <1>9, <1>10, <1>11 DEF MoovPlace

(* What is known of a box by its name                                        *)
IsFound(s, f, pl, o) ==
    /\ GetAtom(f, o + 4) = "moof" => \E k \in FragmentsOf(pl) : o = pl[k].at
    /\ GetAtom(f, o + 4) = "mdat" =>
        \/ \E k \in FragmentsOf(pl) : o = MdatAt(s, pl[k])
        \/ \A k \in FragmentsOf(pl) : o < pl[k].at
    /\ GetAtom(f, o + 4) = "moov" => o = MoovPlace(s, pl)
    /\ GetAtom(f, o + 4) = "ftyp" => \A k \in FragmentsOf(pl) : o < pl[k].at

LEMMA BoxIsFound ==
    ASSUME NEW s, NEW f, NEW pl, NEW no, FileIs(s, f, pl, no), pl # <<>>,
           NEW o \in StartsOf(s, pl, no)
    PROVE  IsFound(s, f, pl, o)
  <1> DEFINE atom == GetAtom(f, o + 4)
  <1>1. CASE o \in no
    <2>1. NoiseIsOther(f, pl, no)
      BY FileFacts
    <2>2. /\ atom \notin {"ftyp", "moov", "moof"}
          /\ atom = "mdat" => \A k \in FragmentsOf(pl) : o < pl[k].at
      BY <1>1, <2>1 DEF NoiseIsOther, FragmentsOf
    <2> QED BY <2>2 DEF IsFound
  <1>2. CASE \E k \in 1 .. Len(pl) : o \in Shift(BoxesOf(s, pl[k]), pl[k].at)
    <2>1. PICK k \in 1 .. Len(pl) : o \in Shift(BoxesOf(s, pl[k]), pl[k].at)
      BY <1>2
    <2>2. PICK q \in BoxesOf(s, pl[k]) : o = pl[k].at + q
      BY <2>1 DEF Shift
    <2>3. SameBox(f, pl[k].at, PartOf(s, pl[k]), q)
      BY <2>1, <2>2, PartStands
    <2>4. atom = GetAtom(PartOf(s, pl[k]), q + 4)
      BY <2>2, <2>3 DEF SameBox
    <2>5. CASE pl[k].track = 0
      <3>1. s \in Sources /\ Len(pl) \in Nat
        BY FileFacts
      <3>2. k = 1
        BY <2>1, <2>5, PlaceFacts
      <3>3. PartOf(s, pl[k]) = s.header /\ q \in HeaderBoxes(s.header)
        BY <2>2, <2>5 DEF PartOf, BoxesOf
      <3>4. /\ atom \notin {"moof", "mdat"}
            /\ atom = "moov" <=> q = MoovAt(s)
        BY <2>4, <3>1, <3>3, HeaderFacts
      <3>5. ASSUME NEW l \in FragmentsOf(pl) PROVE o < pl[l].at
        <4>1. /\ pl[1].at \in Nat /\ q \in Nat /\ q < Len(s.header) /\ Len(s.header) \in Nat
              /\ pl[1].at + Len(s.header) <= pl[l].at
          BY <3>3, HeaderStands
        <4>2. pl[l].at \in Nat
          BY FragmentStands
        <4> QED BY <2>2, <3>2, <4>1, <4>2
      <3> HIDE DEF atom
      <3>6. atom = "moov" => o = MoovPlace(s, pl)
        BY <2>2, <3>2, <3>4 DEF MoovPlace
      <3> QED BY <3>4, <3>5, <3>6 DEF IsFound, atom
    <2>6. CASE pl[k].track # 0
      <3>1. k \in FragmentsOf(pl)
        BY <2>1, <2>6 DEF FragmentsOf
      <3>2. /\ pl[k].at \in Nat
            /\ GetAtom(f, pl[k].at + 4) = "moof" /\ GetAtom(f, MdatAt(s, pl[k]) + 4) = "mdat"
            /\ MdatAt(s, pl[k]) = pl[k].at + MoofLength(s, pl[k].track, pl[k].number)
        BY <3>1, FragmentStands
      <3>3. q = 0 \/ q = MoofLength(s, pl[k].track, pl[k].number)
        BY <2>2, <2>6 DEF BoxesOf
      <3>4. CASE q = 0
        <4>1. o = pl[k].at
          BY <2>2, <3>2, <3>4
        <4> QED BY <3>1, <3>2, <4>1 DEF IsFound
      <3>5. CASE q = MoofLength(s, pl[k].track, pl[k].number)
        <4>1. o = MdatAt(s, pl[k])
          BY <2>2, <3>2, <3>5
        <4> QED BY <3>1, <3>2, <4>1 DEF IsFound
      <3> QED BY <3>3, <3>4, <3>5
    <2> QED BY <2>5, <2>6
  <1> QED BY <1>1, <1>2, InStarts

LEMMA FragmentOrder ==
    ASSUME NEW s, NEW f, NEW pl, NEW no, FileIs(s, f, pl, no),
           NEW k \in FragmentsOf(pl), NEW l \in FragmentsOf(pl)
    PROVE  /\ pl[k].at \in Nat /\ MdatAt(s, pl[k]) \in Nat
           /\ pl[k].at < MdatAt(s, pl[k])
           /\ k < l => /\ MdatAt(s, pl[k]) < pl[l].at
                       /\ pl[k].track = pl[l].track => pl[k].number < pl[l].number
  <1> DEFINE m == MoofLength(s, pl[k].track, pl[k].number)
             d == Len(s.data[pl[k].track][pl[k].number])
  <1>1. /\ k \in 1 .. Len(pl)
        /\ pl[k].at \in Nat
        /\ m \in Nat /\ m >= 8 /\ d \in Nat
        /\ MdatAt(s, pl[k]) = pl[k].at + m
        /\ Len(PartOf(s, pl[k])) = m + 8 + d
    BY FragmentStands
  <1>2. l \in 1 .. Len(pl) /\ pl[l].at \in Nat
    BY FragmentStands
  <1> HIDE DEF m, d
  <1>3. ASSUME k < l
        PROVE  /\ MdatAt(s, pl[k]) < pl[l].at
               /\ pl[k].track = pl[l].track => pl[k].number < pl[l].number
    <2>1. PlaceIsRight(s, f, pl, k)
      BY <1>1, PlaceFacts
    <2>2. IsBefore(s, pl[k], pl[l])
      BY <1>2, <1>3, <2>1 DEF PlaceIsRight
    <2>3. pl[k].at + (m + 8 + d) <= pl[l].at
      BY <1>1, <2>2 DEF IsBefore
    <2> QED BY <1>1, <1>2, <2>2, <2>3 DEF IsBefore
  <1> QED BY <1>1, <1>3

LEMMA SameFragment ==
    ASSUME NEW s, NEW f, NEW pl, NEW no, FileIs(s, f, pl, no),
           NEW k \in FragmentsOf(pl), NEW l \in FragmentsOf(pl)
    PROVE  /\ pl[k].at = pl[l].at => k = l
           /\ MdatAt(s, pl[k]) = MdatAt(s, pl[l]) => k = l
           /\ pl[k].at # MdatAt(s, pl[l])
           /\ pl[k].track = pl[l].track /\ pl[k].number = pl[l].number => k = l
  <1> DEFINE a == pl[k].at
             b == pl[l].at
             c == MdatAt(s, pl[k])
             d == MdatAt(s, pl[l])
             n == pl[k].number
             o == pl[l].number
  <1>1. k \in 1 .. Len(pl) /\ l \in 1 .. Len(pl) /\ Len(pl) \in Nat
    BY FileFacts DEF FragmentsOf
  <1>2. /\ a \in Nat /\ b \in Nat /\ c \in Nat /\ d \in Nat
        /\ a < c /\ b < d
    BY FragmentOrder
  <1>3. k < l => c < b /\ (pl[k].track = pl[l].track => n < o)
    BY FragmentOrder
  <1>4. l < k => d < a /\ (pl[k].track = pl[l].track => o < n)
    BY FragmentOrder
  <1>5. n \in Nat /\ o \in Nat
    BY FragmentStands
  <1> HIDE DEF a, b, c, d, n, o
  <1>6. /\ a = b => k = l
        /\ c = d => k = l
        /\ a # d
        /\ pl[k].track = pl[l].track /\ n = o => k = l
    <2>1. CASE k < l
      BY <1>1, <1>2, <1>3, <1>5, <2>1
    <2>2. CASE l < k
      BY <1>1, <1>2, <1>4, <1>5, <2>2
    <2>3. CASE k = l
      BY <1>2, <2>3 DEF a, b, c, d
    <2> QED BY <1>1, <2>1, <2>2, <2>3
  <1> QED BY <1>6 DEF a, b, c, d, n, o

LEMMA PlaceInIs ==
    ASSUME NEW s, NEW f, NEW pl, NEW no, FileIs(s, f, pl, no), NEW k \in FragmentsOf(pl)
    PROVE  PlaceIn(pl, pl[k].track, pl[k].number) = pl[k]
  <1> DEFINE p == pl[k]
             q == PlaceIn(pl, p.track, p.number)
  <1>1. DOMAIN pl = 1 .. Len(pl)
    BY FileFacts
  <1>2. k \in 1 .. Len(pl) /\ p.track # 0
    BY DEF FragmentsOf
  <1>3. p \in Range(pl)
    BY <1>1, <1>2 DEF Range
  <1>4. q \in Range(pl) /\ q.track = p.track /\ q.number = p.number
    BY <1>3 DEF PlaceIn
  <1>5. PICK l \in 1 .. Len(pl) : q = pl[l]
    BY <1>1, <1>4 DEF Range
  <1>6. l \in FragmentsOf(pl)
    BY <1>2, <1>4, <1>5 DEF FragmentsOf
  <1>7. l = k
    BY <1>4, <1>5, <1>6, SameFragment
  <1> QED BY <1>5, <1>7

LEMMA PlaceOfNumber ==
    ASSUME NEW s, NEW f, NEW pl, NEW no, FileIs(s, f, pl, no),
           NEW tr \in DOMAIN s.fragments, NEW i \in 1 .. NumberOf(pl, tr)
    PROVE  \E k \in FragmentsOf(pl) :
               pl[k].track = tr /\ pl[k].number = i /\ PlaceIn(pl, tr, i) = pl[k]
  <1>1. s \in Sources /\ NumbersAreUsed(s, pl)
    BY FileFacts
  <1>2. PICK k \in 1 .. Len(pl) : pl[k].track = tr /\ pl[k].number = i
    BY <1>1 DEF NumbersAreUsed
  <1>3. tr # 0
    BY <1>1, TracksAreNumbers
  <1>4. k \in FragmentsOf(pl)
    BY <1>2, <1>3 DEF FragmentsOf
  <1>5. PlaceIn(pl, tr, i) = pl[k]
    BY <1>2, <1>4, PlaceInIs
  <1> QED BY <1>2, <1>4, <1>5

LEMMA SameSeq ==
    ASSUME NEW a, NEW b, IsSeq(a), IsSeq(b), Len(a) = Len(b),
           \A i \in 1 .. Len(a) : a[i] = b[i]
    PROVE  a = b
  <1> DEFINE D == 1 .. Len(a)
  <1>1. /\ a \in [D -> Range(a)]
        /\ b \in [D -> Range(b)]
    BY LenProperties DEF IsSeq
  <1>2. \A i \in D : a[i] = b[i]
    OBVIOUS
  <1> HIDE DEF D
  <1> QED BY <1>1, <1>2, SMT

(* What the parser is given of a box                                         *)
BodyAt(f, o) ==
    SubSeq(f, o + 9, IF o + SizeAt(f, o) > Len(f) THEN Len(f) ELSE o + SizeAt(f, o))

LEMMA BodyThere ==
    ASSUME NEW s, NEW f, NEW pl, NEW no, FileIs(s, f, pl, no), NEW k \in 1 .. Len(pl),
           NEW q \in BoxesOf(s, pl[k]),
           q + SizeAt(PartOf(s, pl[k]), q) <= KeptOf(s, pl[k])
    PROVE  BodyAt(f, pl[k].at + q)
           = SubSeq(PartOf(s, pl[k]), q + 9, q + SizeAt(PartOf(s, pl[k]), q))
  <1> DEFINE x == pl[k]
             d == x.at
             b == PartOf(s, x)
             z == SizeAt(b, q)
             e == KeptOf(s, x)
             g == SubSeq(f, (d + q + 8) + 1, d + q + z)
             h == SubSeq(b, (q + 8) + 1, q + z)
  <1>1. /\ IsPlace(s, x) /\ d \in Nat
        /\ Holds(f, d, b) /\ d + e <= Len(f)
    BY PlaceFacts DEF IsPlace, Places, PlaceIsRight
  <1>2. s \in Sources /\ IsSeq(f) /\ Len(f) \in Nat
    BY FileFacts
  <1>3. /\ IsSeq(b) /\ IsBoxes(b, BoxesOf(s, x)) /\ Len(b) \in Nat
        /\ e \in Nat /\ e <= Len(b)
    BY <1>1, <1>2, PartFacts
  <1>4. q \in Nat /\ z \in Nat /\ HeadLength(b, q) <= z
    BY <1>3, BoxFacts
  <1>5. SameBox(f, d, b, q) /\ q + z <= e
    BY PartStands
  <1>6. HeadLength(b, q) \in Nat /\ HeadLength(b, q) >= 8
    BY DEF HeadLength
  <1>7. SizeAt(f, d + q) = z
    BY <1>5 DEF SameBox
  <1> HIDE DEF b, d, z, e
  <1>8. /\ d + q + 8 \in Nat /\ d + q + z \in Nat /\ d + q + z <= Len(f)
        /\ d + q + 8 <= d + q + z
        /\ q + 8 \in Nat /\ q + z \in Nat /\ q + z <= Len(b)
        /\ q + 8 <= q + z
        /\ (d + q + z) - (d + q + 8) = z - 8 /\ (q + z) - (q + 8) = z - 8
    BY <1>1, <1>2, <1>3, <1>4, <1>5, <1>6
  <1>9. /\ IsSeq(g) /\ Len(g) = z - 8
        /\ \A i \in 1 .. z - 8 : g[i] = f[(d + q + 8) + i]
    <2> DEFINE u == d + q + 8
               v == d + q + z
    <2>1. u \in Nat /\ v \in Nat /\ v <= Len(f) /\ u <= v /\ v - u = z - 8
      BY <1>8
    <2> HIDE DEF u, v
    <2>2. /\ IsSeq(SubSeq(f, u + 1, v))
          /\ Len(SubSeq(f, u + 1, v)) = v - u
          /\ \A i \in 1 .. v - u : SubSeq(f, u + 1, v)[i] = f[u + i]
      BY <1>2, <2>1, SubFacts
    <2> QED BY <2>1, <2>2 DEF u, v
  <1>10. /\ IsSeq(h) /\ Len(h) = z - 8
         /\ \A i \in 1 .. z - 8 : h[i] = b[(q + 8) + i]
    <2> DEFINE u == q + 8
               v == q + z
    <2>1. u \in Nat /\ v \in Nat /\ v <= Len(b) /\ u <= v /\ v - u = z - 8
      BY <1>8
    <2> HIDE DEF u, v
    <2>2. /\ IsSeq(SubSeq(b, u + 1, v))
          /\ Len(SubSeq(b, u + 1, v)) = v - u
          /\ \A i \in 1 .. v - u : SubSeq(b, u + 1, v)[i] = b[u + i]
      BY <1>3, <2>1, SubFacts
    <2> QED BY <2>1, <2>2 DEF u, v
  <1>11. ASSUME NEW i \in 1 .. z - 8 PROVE f[(d + q + 8) + i] = b[(q + 8) + i]
    <2>1. (q + 8) + i \in 1 .. Len(b) /\ d + ((q + 8) + i) <= Len(f)
          /\ d + ((q + 8) + i) = (d + q + 8) + i
      BY <1>1, <1>2, <1>3, <1>4, <1>8
    <2> QED BY <1>1, <2>1 DEF Holds
  <1>12. g = h
    <2> HIDE DEF g, h
    <2> QED BY <1>9, <1>10, <1>11, SameSeq
  <1>13. (d + q + 8) + 1 = d + q + 9 /\ (q + 8) + 1 = q + 9 /\ ~(d + q + z > Len(f))
    BY <1>1, <1>2, <1>4, <1>8
  <1>14. BodyAt(f, d + q) = SubSeq(f, d + q + 9, d + q + z)
    BY <1>7, <1>13 DEF BodyAt
  <1>15. BodyAt(f, d + q) = SubSeq(b, q + 9, q + z)
    BY <1>12, <1>13, <1>14
  <1> QED BY <1>15 DEF b, d, z

LEMMA MoovIsRead ==
    ASSUME NEW s, NEW f, NEW pl, NEW no, FileIs(s, f, pl, no), pl # <<>>
    PROVE  ParseMoov(BodyAt(f, MoovPlace(s, pl))) = s.movie
  <1> DEFINE q == MoovAt(s)
             b == s.header
  <1>1. /\ 1 \in 1 .. Len(pl) /\ pl[1].track = 0
        /\ q \in BoxesOf(s, pl[1])
    BY HeaderStands
  <1>2. s \in Sources
    BY FileFacts
  <1>3. /\ IsBoxes(b, HeaderBoxes(b)) /\ q \in HeaderBoxes(b)
        /\ ParseMoov(SubSeq(b, q + 9, q + SizeAt(b, q))) = s.movie
    BY <1>2, HeaderFacts
  <1>4. q + SizeAt(b, q) <= Len(b)
    BY <1>3, BoxFacts
  <1>5. PartOf(s, pl[1]) = b /\ KeptOf(s, pl[1]) = Len(b)
    BY <1>1 DEF PartOf, KeptOf
  <1>6. BodyAt(f, pl[1].at + q) = SubSeq(b, q + 9, q + SizeAt(b, q))
    BY <1>1, <1>4, <1>5, BodyThere
  <1> QED BY <1>3, <1>6 DEF MoovPlace

LEMMA MoofIsRead ==
    ASSUME NEW s, NEW f, NEW pl, NEW no, FileIs(s, f, pl, no), NEW k \in FragmentsOf(pl)
    PROVE  BodyAt(f, pl[k].at)
           = SubSeq(Recorded(s, pl[k].track, pl[k].number), 9,
                    MoofLength(s, pl[k].track, pl[k].number))
  <1> DEFINE p == pl[k]
             b == Recorded(s, p.track, p.number)
             m == MoofLength(s, p.track, p.number)
  <1>1. /\ k \in 1 .. Len(pl)
        /\ p.track # 0 /\ p.at \in Nat
        /\ p.track \in DOMAIN s.fragments /\ p.number \in 1 .. Len(s.fragments[p.track])
    BY FragmentStands
  <1>2. s \in Sources
    BY FileFacts
  <1>3. m \in Nat /\ SizeAt(b, 0) = m
    BY <1>1, <1>2, FragmentFacts
  <1>4. PartOf(s, p) = b /\ KeptOf(s, p) = m + 8 /\ 0 \in BoxesOf(s, p)
    BY <1>1 DEF PartOf, BoxesOf, KeptOf
  <1> HIDE DEF b, m
  <1>5. 0 + SizeAt(PartOf(s, p), 0) <= KeptOf(s, p) /\ 0 + SizeAt(PartOf(s, p), 0) = m
        /\ p.at + 0 = p.at /\ 0 + 9 = 9
    BY <1>1, <1>3, <1>4
  <1>6. BodyAt(f, p.at + 0) = SubSeq(PartOf(s, p), 0 + 9, 0 + SizeAt(PartOf(s, p), 0))
    BY <1>1, <1>4, <1>5, BodyThere
  <1> QED BY <1>4, <1>5, <1>6 DEF b, m
-----------------------------------------------------------------------------
(* What the parser makes of a box at the offset o, when it goes on after it *)

NextBox(f, o) == o + SizeAt(f, o)

(* Every fragment begins at or after the next box, or at or before this one. *)
LEMMA BeforeNext ==
    ASSUME NEW s, NEW f, NEW pl, NEW no, FileIs(s, f, pl, no), NEW o \in StartsOf(s, pl, no),
           NEW k \in FragmentsOf(pl)
    PROVE  /\ o \in Nat /\ NextBox(f, o) \in Nat /\ o < NextBox(f, o)
           /\ pl[k].at \in Nat /\ MdatAt(s, pl[k]) \in Nat
           /\ pl[k].at < MdatAt(s, pl[k])
           /\ pl[k].at < NextBox(f, o) <=> pl[k].at <= o
           /\ MdatAt(s, pl[k]) < NextBox(f, o) <=> MdatAt(s, pl[k]) <= o
           /\ MdatAt(s, pl[k]) = NextBox(f, o) => pl[k].at = o
  <1> DEFINE P == StartsOf(s, pl, no)
             n == NextBox(f, o)
             a == pl[k].at
             d == MdatAt(s, pl[k])
  <1>1. /\ a \in P /\ d \in P /\ SizeAt(f, a) \in Nat
        /\ d = a + SizeAt(f, a)
    BY FragmentStands
  <1>2. /\ o \in Nat /\ n \in Nat /\ o < n
        /\ \A q \in P : q \in Nat /\ (q < n <=> q <= o)
    BY StepFacts DEF NextBox
  <1>3. \A q \in P : q < d <=> q <= a
    BY <1>1, StepFacts
  <1>4. a \in Nat /\ d \in Nat /\ a < d
    BY FragmentOrder
  <1>5. o \in P
    OBVIOUS
  <1> HIDE DEF P, n, a, d
  <1>6. (a < n <=> a <= o) /\ (d < n <=> d <= o)
    BY <1>1, <1>2
  <1>7. ASSUME d = n PROVE a = o
    <2>1. o < d /\ a < n
      BY <1>2, <1>4, <1>7
    <2>2. o <= a /\ a <= o
      BY <1>3, <1>5, <1>6, <2>1
    <2> QED BY <1>2, <1>4, <2>2
  <1> QED BY <1>2, <1>4, <1>6, <1>7 DEF n, a, d

LEMMA BeforeMoov ==
    ASSUME NEW s, NEW f, NEW pl, NEW no, FileIs(s, f, pl, no), pl # <<>>,
           NEW o \in StartsOf(s, pl, no)
    PROVE  /\ o \in Nat /\ NextBox(f, o) \in Nat /\ MoovPlace(s, pl) \in Nat
           /\ o < NextBox(f, o)
           /\ MoovPlace(s, pl) < NextBox(f, o) <=> MoovPlace(s, pl) <= o
           /\ \A k \in FragmentsOf(pl) : MoovPlace(s, pl) < pl[k].at
  <1>1. /\ MoovPlace(s, pl) \in StartsOf(s, pl, no)
        /\ MoovAt(s) \in HeaderBoxes(s.header)
        /\ pl[1].at \in Nat
        /\ \A k \in FragmentsOf(pl) : pl[1].at + Len(s.header) <= pl[k].at
        /\ MoovAt(s) \in Nat /\ MoovAt(s) < Len(s.header)
        /\ Len(s.header) \in Nat
    BY HeaderStands, HeaderFacts, FileFacts
  <1>2. /\ o \in Nat /\ NextBox(f, o) \in Nat /\ o < NextBox(f, o)
        /\ MoovPlace(s, pl) \in Nat
        /\ MoovPlace(s, pl) < NextBox(f, o) <=> MoovPlace(s, pl) <= o
    BY <1>1, StepFacts DEF NextBox
  <1>3. ASSUME NEW k \in FragmentsOf(pl) PROVE MoovPlace(s, pl) < pl[k].at
    <2>1. pl[k].at \in Nat
      BY FragmentStands
    <2> QED BY <1>1, <2>1 DEF MoovPlace
  <1> QED BY <1>2, <1>3

LEMMA MovieStays ==
    ASSUME NEW s, NEW f, NEW pl, NEW no, FileIs(s, f, pl, no), pl # <<>>,
           NEW o \in StartsOf(s, pl, no), o # MoovPlace(s, pl),
           NEW m, NEW fr, MovieIsRead(s, pl, o, m, fr),
           NEW gr, DOMAIN gr = DOMAIN fr, m = NoMovie => gr = fr
    PROVE  MovieIsRead(s, pl, NextBox(f, o), m, gr)
  <1> DEFINE n == NextBox(f, o)
             x == MoovPlace(s, pl)
  <1>1. o \in Nat /\ n \in Nat /\ x \in Nat /\ o < n /\ (x < n <=> x <= o)
    BY BeforeMoov
  <1> HIDE DEF n, x
  <1>2. CASE o <= x /\ m = NoMovie /\ fr = <<>>
    <2>1. n <= x
      BY <1>1, <1>2 DEF x
    <2> QED BY <1>2, <2>1 DEF MovieIsRead, n, x
  <1>3. CASE o > x /\ m = s.movie /\ DOMAIN fr = DOMAIN s.fragments
    <2>1. n > x
      BY <1>1, <1>3
    <2> QED BY <1>3, <2>1 DEF MovieIsRead, n, x
  <1> QED BY <1>2, <1>3 DEF MovieIsRead, x

LEMMA CurrentStays ==
    ASSUME NEW s, NEW f, NEW pl, NEW no, FileIs(s, f, pl, no), NEW o \in StartsOf(s, pl, no),
           \A k \in FragmentsOf(pl) : o # pl[k].at,
           NEW c, CurrentIsLast(s, pl, o, c)
    PROVE  CurrentIsLast(s, pl, NextBox(f, o), c)
  <1>1. ASSUME NEW k \in 1 .. Len(pl), pl[k].track # 0, MdatAt(s, pl[k]) = NextBox(f, o)
        PROVE  FALSE
    <2>1. k \in FragmentsOf(pl)
      BY <1>1 DEF FragmentsOf
    <2>2. pl[k].at = o
      BY <1>1, <2>1, BeforeNext
    <2> QED BY <2>1, <2>2
  <1>2. ASSUME \A k \in 1 .. Len(pl) : pl[k].track # 0 => NextBox(f, o) <= pl[k].at
        PROVE  c = NoFragment
    <2>1. ASSUME NEW k \in 1 .. Len(pl), pl[k].track # 0 PROVE o <= pl[k].at
      <3>1. k \in FragmentsOf(pl)
        BY <2>1 DEF FragmentsOf
      <3>2. o \in Nat /\ NextBox(f, o) \in Nat /\ o < NextBox(f, o) /\ pl[k].at \in Nat
        BY <3>1, BeforeNext
      <3>3. NextBox(f, o) <= pl[k].at
        BY <1>2, <2>1
      <3> QED BY <3>2, <3>3
    <2> QED BY <2>1 DEF CurrentIsLast
  <1> QED BY <1>1, <1>2 DEF CurrentIsLast

LEMMA CountStays ==
    ASSUME NEW s, NEW f, NEW pl, NEW no, FileIs(s, f, pl, no), NEW o \in StartsOf(s, pl, no),
           \A k \in FragmentsOf(pl) : o # pl[k].at,
           NEW m, NEW fr, FragmentsAreCounted(s, pl, o, m, fr),
           NEW gr, DOMAIN gr = DOMAIN fr,
           \A tr \in DOMAIN fr : IsSeq(gr[tr]) /\ Len(gr[tr]) = Len(fr[tr]),
           m # NoMovie => \A k \in FragmentsOf(pl) : pl[k].track \in DOMAIN fr
    PROVE  FragmentsAreCounted(s, pl, NextBox(f, o), m, gr)
  <1> SUFFICES ASSUME m # NoMovie PROVE FragmentsAreCounted(s, pl, NextBox(f, o), m, gr)
    BY DEF FragmentsAreCounted
  <1>1. ASSUME NEW k \in 1 .. Len(pl), pl[k].track # 0
        PROVE  pl[k].at < NextBox(f, o) <=> pl[k].number <= Len(gr[pl[k].track])
    <2>1. k \in FragmentsOf(pl)
      BY <1>1 DEF FragmentsOf
    <2>2. /\ o \in Nat /\ pl[k].at \in Nat
          /\ pl[k].at < NextBox(f, o) <=> pl[k].at <= o
      BY <2>1, BeforeNext
    <2>3. pl[k].at < NextBox(f, o) <=> pl[k].at < o
      BY <2>1, <2>2
    <2>4. pl[k].at < o <=> pl[k].number <= Len(fr[pl[k].track])
      BY <1>1 DEF FragmentsAreCounted
    <2>5. Len(gr[pl[k].track]) = Len(fr[pl[k].track])
      BY <2>1
    <2> QED BY <2>3, <2>4, <2>5
  <1>2. ASSUME NEW tr \in DOMAIN gr PROVE IsSeq(gr[tr]) /\ Len(gr[tr]) <= NumberOf(pl, tr)
    BY DEF FragmentsAreCounted
  <1> QED BY <1>1, <1>2 DEF FragmentsAreCounted

(* The numbers of the fragments that have been read are used.               *)
LEMMA ReadIsPlaced ==
    ASSUME NEW s, NEW f, NEW pl, NEW no, FileIs(s, f, pl, no), NEW tr \in DOMAIN s.fragments,
           NEW h, IsSeq(h), Len(h) <= NumberOf(pl, tr), NEW i \in DOMAIN h
    PROVE  /\ i \in 1 .. Len(h)
           /\ \E k \in FragmentsOf(pl) :
                  pl[k].track = tr /\ pl[k].number = i /\ PlaceIn(pl, tr, i) = pl[k]
  <1>1. i \in 1 .. Len(h) /\ Len(h) \in Nat
    BY SeqFacts
  <1>2. NumberOf(pl, tr) \in Nat
    <2>1. NumbersAreUsed(s, pl)
      BY FileFacts
    <2>2. NumberOf(pl, tr) \in 0 .. Len(s.fragments[tr])
      BY <2>1 DEF NumbersAreUsed
    <2> QED BY <2>2
  <1>3. i \in 1 .. NumberOf(pl, tr)
    BY <1>1, <1>2
  <1> QED BY <1>1, <1>3, PlaceOfNumber

LEMMA ReadStays ==
    ASSUME NEW s, NEW f, NEW pl, NEW no, FileIs(s, f, pl, no), NEW o \in StartsOf(s, pl, no),
           NEW ml, NEW nl,
           \/ \A k \in FragmentsOf(pl) : o < pl[k].at
           \/ ml = nl /\ \A k \in FragmentsOf(pl) : o # MdatAt(s, pl[k])
           \/ nl = FALSE,
           NEW m, NEW fr, FragmentsAreRead(s, pl, o, ml, m, fr),
           FragmentsAreCounted(s, pl, o, m, fr),
           m # NoMovie => DOMAIN fr = DOMAIN s.fragments
    PROVE  FragmentsAreRead(s, pl, NextBox(f, o), nl, m, fr)
  <1> SUFFICES ASSUME m # NoMovie, NEW tr \in DOMAIN fr, NEW i \in DOMAIN fr[tr]
               PROVE  /\ IsRead(s, pl, tr, i, fr[tr][i])
                      /\ nl /\ MdatAt(s, PlaceIn(pl, tr, i)) < NextBox(f, o)
                             => HasChunk(s, pl, tr, i, fr[tr][i])
    BY DEF FragmentsAreRead
  <1>1. /\ IsRead(s, pl, tr, i, fr[tr][i])
        /\ ml /\ MdatAt(s, PlaceIn(pl, tr, i)) < o => HasChunk(s, pl, tr, i, fr[tr][i])
    BY DEF FragmentsAreRead
  <1>2. IsSeq(fr[tr]) /\ Len(fr[tr]) <= NumberOf(pl, tr) /\ tr \in DOMAIN s.fragments
    BY DEF FragmentsAreCounted
  <1>3. PICK k \in FragmentsOf(pl) : PlaceIn(pl, tr, i) = pl[k]
    BY <1>2, ReadIsPlaced
  <1>4. /\ o \in Nat /\ MdatAt(s, pl[k]) \in Nat /\ pl[k].at \in Nat
        /\ pl[k].at < MdatAt(s, pl[k])
        /\ MdatAt(s, pl[k]) < NextBox(f, o) <=> MdatAt(s, pl[k]) <= o
    BY BeforeNext
  <1>5. CASE \A l \in FragmentsOf(pl) : o < pl[l].at
    <2>1. o < pl[k].at
      BY <1>5
    <2>2. ~(MdatAt(s, pl[k]) < NextBox(f, o))
      BY <1>4, <2>1
    <2> QED BY <1>1, <1>3, <2>2
  <1>6. CASE ml = nl /\ \A l \in FragmentsOf(pl) : o # MdatAt(s, pl[l])
    <2>1. o # MdatAt(s, pl[k])
      BY <1>6
    <2>2. MdatAt(s, pl[k]) < NextBox(f, o) <=> MdatAt(s, pl[k]) < o
      BY <1>4, <2>1
    <2> QED BY <1>1, <1>3, <1>6, <2>2
  <1>7. CASE nl = FALSE
    BY <1>1, <1>7
  <1> QED BY <1>5, <1>6, <1>7

LEMMA MovieKnown ==
    ASSUME NEW s, NEW f, NEW pl, NEW no, FileIs(s, f, pl, no), pl # <<>>,
           NEW o \in Nat, NEW m, NEW fr, MovieIsRead(s, pl, o, m, fr)
    PROVE  /\ m # NoMovie <=> o > MoovPlace(s, pl)
           /\ m # NoMovie => m = s.movie /\ DOMAIN fr = DOMAIN s.fragments
           /\ m = NoMovie => fr = <<>>
  <1>1. s.movie # NoMovie
    BY FileFacts, HeaderFacts
  <1>2. MoovPlace(s, pl) \in Nat
    BY HeaderStands, StepFacts
  <1> QED BY <1>1, <1>2 DEF MovieIsRead

LEMMA PassBox ==
    ASSUME NEW s, NEW f, NEW pl, NEW no, FileIs(s, f, pl, no), pl # <<>>,
           NEW o \in StartsOf(s, pl, no), o # MoovPlace(s, pl),
           \A k \in FragmentsOf(pl) : o # pl[k].at,
           NEW ml, NEW nl \in BOOLEAN,
           \/ \A k \in FragmentsOf(pl) : o < pl[k].at
           \/ ml = nl /\ \A k \in FragmentsOf(pl) : o # MdatAt(s, pl[k])
           \/ nl = FALSE,
           NEW m, NEW fr, NEW c, ReadState(s, pl, o, ml, m, fr, c)
    PROVE  ReadState(s, pl, NextBox(f, o), nl, m, fr, c)
  <1>1. /\ MovieIsRead(s, pl, o, m, fr)
        /\ FragmentsAreCounted(s, pl, o, m, fr)
        /\ FragmentsAreRead(s, pl, o, ml, m, fr)
        /\ CurrentIsLast(s, pl, o, c)
    BY DEF ReadState
  <1>2. o \in Nat
    BY StepFacts
  <1>3. /\ m # NoMovie => m = s.movie /\ DOMAIN fr = DOMAIN s.fragments
        /\ m = NoMovie => fr = <<>>
    BY <1>1, <1>2, MovieKnown
  <1>4. MovieIsRead(s, pl, NextBox(f, o), m, fr)
    BY <1>1, MovieStays
  <1>5. FragmentsAreCounted(s, pl, NextBox(f, o), m, fr)
    <2>1. ASSUME NEW tr \in DOMAIN fr PROVE IsSeq(fr[tr])
      <3>1. m # NoMovie
        BY <1>3
      <3> QED BY <1>1, <3>1 DEF FragmentsAreCounted
    <2>2. m # NoMovie => \A k \in FragmentsOf(pl) : pl[k].track \in DOMAIN fr
      BY <1>3, FragmentStands
    <2> QED BY <1>1, <2>1, <2>2, CountStays
  <1>6. FragmentsAreRead(s, pl, NextBox(f, o), nl, m, fr)
    BY <1>1, <1>3, ReadStays
  <1>7. CurrentIsLast(s, pl, NextBox(f, o), c)
    BY <1>1, CurrentStays
  <1> QED BY <1>4, <1>5, <1>6, <1>7 DEF ReadState

NoFragments(m) == [i \in DOMAIN m.tracks |-> <<>>]

LEMMA PassMoov ==
    ASSUME NEW s, NEW f, NEW pl, NEW no, FileIs(s, f, pl, no), pl # <<>>,
           NEW o \in StartsOf(s, pl, no), o = MoovPlace(s, pl),
           NEW ml, NEW m, NEW fr, NEW c, ReadState(s, pl, o, ml, m, fr, c)
    PROVE  ReadState(s, pl, NextBox(f, o), ml, s.movie, NoFragments(s.movie), c)
  <1> DEFINE gr == NoFragments(s.movie)
             n == NextBox(f, o)
  <1>1. ml \in BOOLEAN /\ CurrentIsLast(s, pl, o, c)
    BY DEF ReadState
  <1>2. s \in Sources
    BY FileFacts
  <1>3. SourceIsKnown(s)
    BY <1>2, SourcesAssumption
  <1>4. DOMAIN gr = DOMAIN s.fragments /\ \A tr \in DOMAIN gr : gr[tr] = <<>>
    BY <1>3 DEF SourceIsKnown, NoFragments
  <1>5. n \in Nat /\ o \in Nat /\ o < n /\ \A k \in FragmentsOf(pl) : o < pl[k].at
    BY BeforeMoov
  <1>6. MovieIsRead(s, pl, n, s.movie, gr)
    BY <1>4, <1>5 DEF MovieIsRead
  <1>7. FragmentsAreCounted(s, pl, n, s.movie, gr)
    <2>1. ASSUME NEW k \in 1 .. Len(pl), pl[k].track # 0
          PROVE  pl[k].at < n <=> pl[k].number <= Len(gr[pl[k].track])
      <3>1. k \in FragmentsOf(pl)
        BY <2>1 DEF FragmentsOf
      <3>2. /\ pl[k].at \in Nat /\ o < pl[k].at
            /\ pl[k].at < n <=> pl[k].at <= o
        BY <1>5, <3>1, BeforeNext
      <3>3. /\ pl[k].track \in DOMAIN s.fragments
            /\ pl[k].number \in 1 .. NumberOf(pl, pl[k].track)
        BY <3>1, FragmentStands
      <3>4. gr[pl[k].track] = <<>>
        BY <1>4, <3>3
      <3>5. Len(gr[pl[k].track]) = 0
        BY <3>4
      <3> HIDE DEF gr, n
      <3> QED BY <1>5, <3>2, <3>3, <3>5
    <2>2. ASSUME NEW tr \in DOMAIN gr PROVE IsSeq(gr[tr]) /\ Len(gr[tr]) <= NumberOf(pl, tr)
      <3>1. gr[tr] = <<>> /\ tr \in DOMAIN s.fragments
        BY <1>4
      <3>2. IsSeq(<<>>) /\ Len(<<>>) = 0
        BY EmptySeq DEF IsSeq
      <3>3. NumberOf(pl, tr) \in 0 .. Len(s.fragments[tr])
        BY <3>1, FileFacts DEF NumbersAreUsed
      <3> QED BY <3>1, <3>2, <3>3
    <2> HIDE DEF gr, n
    <2> QED BY <2>1, <2>2 DEF FragmentsAreCounted
  <1>8. FragmentsAreRead(s, pl, n, ml, s.movie, gr)
    <2>1. \A tr \in DOMAIN gr : DOMAIN gr[tr] = {}
      BY <1>4
    <2> HIDE DEF gr
    <2> QED BY <2>1 DEF FragmentsAreRead
  <1>9. CurrentIsLast(s, pl, n, c)
    <2>1. ASSUME NEW k \in FragmentsOf(pl) PROVE o # pl[k].at
      <3>1. pl[k].at \in Nat /\ o < pl[k].at
        BY <1>5, FragmentStands
      <3> QED BY <1>5, <3>1
    <2> QED BY <1>1, <2>1, CurrentStays
  <1> QED BY <1>1, <1>6, <1>7, <1>8, <1>9 DEF ReadState

(* What is read of a moof, and what the parser adds to it                    *)
ReadOf(f, o) == FixupMoof(ParseMoof(BodyAt(f, o)))

Counted(g, n, o, size) ==
    [g EXCEPT !.index = n, !.duration = MoofDuration(g), !.offset = o, !.moof_size = size]

AddTo(fr, tr, g) == [fr EXCEPT ![tr] = Append(@, g)]

TimingOf(g) ==
    [j \in DOMAIN g.trun.samples |-> <<g.trun.samples[j].duration, g.trun.samples[j].size>>]

LEMMA DurationIs ==
    ASSUME NEW g
    PROVE  MoofDuration(g) = SumOf(TimingOf(g), LAMBDA t : t[1])
  <1> DEFINE x == g.trun.samples
             h == TimingOf(g)
  <1>1. DOMAIN h = DOMAIN x /\ \A j \in DOMAIN x : h[j][1] = x[j].duration
    BY DEF TimingOf
  <1> HIDE DEF h
  <1>2. [j \in DOMAIN h |-> h[j][1]] = [j \in DOMAIN x |-> x[j].duration]
    BY <1>1
  <1>3. MoofDuration(g) = Total([j \in DOMAIN x |-> x[j].duration])
    BY DEF MoofDuration, SumOf
  <1>4. SumOf(h, LAMBDA t : t[1]) = Total([j \in DOMAIN h |-> h[j][1]])
    BY DEF SumOf
  <1> QED BY <1>2, <1>3, <1>4 DEF h

LEMMA CountedFacts ==
    ASSUME NEW g, DOMAIN g = DOMAIN NewFragment, NEW n, NEW o, NEW size
    PROVE  LET h == Counted(g, n, o, size)
           IN  /\ DOMAIN h = DOMAIN NewFragment
               /\ h.index = n /\ h.offset = o /\ h.duration = MoofDuration(g)
               /\ h.moof_size = size
               /\ h.mfhd = g.mfhd /\ h.tfhd = g.tfhd /\ h.trun = g.trun
               /\ h.sample_encryption = g.sample_encryption
  <1>1. {"index", "offset", "duration", "moof_size", "mfhd", "tfhd", "trun",
         "sample_encryption"} \subseteq DOMAIN g
    BY DEF NewFragment
  <1> HIDE DEF NewFragment
  <1> QED BY <1>1 DEF Counted

LEMMA FragmentIsReadAs ==
    ASSUME NEW s, NEW f, NEW pl, NEW no, FileIs(s, f, pl, no), NEW k \in FragmentsOf(pl)
    PROVE  LET g == ReadOf(f, pl[k].at)
               tr == pl[k].track
               n == pl[k].number
           IN  /\ DOMAIN g = DOMAIN NewFragment
               /\ g.tfhd.track_id = s.movie.tracks[tr].tkhd.track_id
               /\ g.mfhd.sequence_number = s.fragments[tr][n].mfhd.sequence_number
               /\ TimingOf(g) = s.timing[tr][n]
               /\ g.trun.sample_count \in 0 .. VectorShift
               /\ DOMAIN g.sample_encryption = DOMAIN SampleEncryption
  <1> DEFINE tr == pl[k].track
             n == pl[k].number
             b == Recorded(s, tr, n)
             m == MoofLength(s, tr, n)
             g == FixupMoof(ParseMoof(SubSeq(b, 9, m)))
  <1>1. tr \in DOMAIN s.fragments /\ n \in 1 .. Len(s.fragments[tr])
    BY FragmentStands
  <1>2. s \in Sources
    BY FileFacts
  <1>3. n \in DOMAIN s.fragments[tr]
    BY <1>1, <1>2, TracksAreNumbers
  <1>4. SourceIsKnown(s)
    BY <1>2, SourcesAssumption
  <1>5. FragmentIsKnown(s, tr, n)
    BY <1>1, <1>3, <1>4 DEF SourceIsKnown
  <1>6. /\ DOMAIN g = DOMAIN NewFragment
        /\ g.tfhd.track_id = s.movie.tracks[tr].tkhd.track_id
        /\ g.mfhd.sequence_number = s.fragments[tr][n].mfhd.sequence_number
        /\ TimingOf(g) = s.timing[tr][n]
        /\ g.trun.sample_count \in 0 .. VectorShift
        /\ DOMAIN g.sample_encryption = DOMAIN SampleEncryption
    BY <1>5, Zenon DEF FragmentIsKnown, TimingOf
  <1>7. ReadOf(f, pl[k].at) = g
    <2>1. BodyAt(f, pl[k].at) = SubSeq(b, 9, m)
      BY MoofIsRead
    <2> QED BY <2>1, Zenon DEF ReadOf
  <1> HIDE DEF g
  <1> QED BY <1>6, <1>7

(* The track of a fragment is found by its id.                              *)
LEMMA TrackIsFound ==
    ASSUME NEW s \in Sources, NEW tr \in DOMAIN s.fragments
    PROVE  {i \in DOMAIN s.movie.tracks :
               s.movie.tracks[i].tkhd.track_id = s.movie.tracks[tr].tkhd.track_id} = {tr}
  <1>1. SourceIsKnown(s)
    BY SourcesAssumption
  <1>2. /\ DOMAIN s.fragments = DOMAIN s.movie.tracks
        /\ \A t, u \in DOMAIN s.movie.tracks :
             s.movie.tracks[t].tkhd.track_id = s.movie.tracks[u].tkhd.track_id => t = u
    BY <1>1 DEF SourceIsKnown
  <1> QED BY <1>2

LEMMA FirstOfOne ==
    ASSUME NEW n \in Nat
    PROVE  FirstOf({n}) = n
  BY DEF FirstOf

(* A fragment that comes next has the next number of its track.             *)
LEMMA NextNumber ==
    ASSUME NEW s, NEW f, NEW pl, NEW no, FileIs(s, f, pl, no), NEW k \in FragmentsOf(pl),
           NEW n \in Nat,
           \A l \in FragmentsOf(pl) : pl[l].track = pl[k].track =>
               (pl[l].at < pl[k].at <=> pl[l].number <= n)
    PROVE  pl[k].number = n + 1
  <1> DEFINE tr == pl[k].track
             a == pl[k].at
             x == pl[k].number
  <1>1. /\ a \in Nat /\ x \in Nat /\ x \in 1 .. NumberOf(pl, tr) /\ tr \in DOMAIN s.fragments
    BY FragmentStands
  <1>2. x > n
    BY <1>1
  <1>3. ASSUME x # n + 1 PROVE FALSE
    <2>1. NumberOf(pl, tr) \in Nat
      <3>1. NumberOf(pl, tr) \in 0 .. Len(s.fragments[tr])
        BY <1>1, FileFacts DEF NumbersAreUsed
      <3> QED BY <3>1
    <2> HIDE DEF tr, a, x
    <2>2. n + 1 \in 1 .. NumberOf(pl, tr) /\ n + 1 < x
      BY <1>1, <1>2, <1>3, <2>1
    <2>3. PICK l \in FragmentsOf(pl) : pl[l].track = tr /\ pl[l].number = n + 1
      BY <1>1, <2>2, PlaceOfNumber
    <2>4. ~(pl[l].at < a)
      BY <2>3 DEF tr, a
    <2>5. k \in 1 .. Len(pl) /\ l \in 1 .. Len(pl) /\ Len(pl) \in Nat
      BY FileFacts DEF FragmentsOf
    <2>6. CASE l < k
      <3>1. pl[l].at \in Nat /\ pl[l].at < MdatAt(s, pl[l]) /\ MdatAt(s, pl[l]) \in Nat
            /\ MdatAt(s, pl[l]) < a
        BY <2>6, FragmentOrder DEF a
      <3> QED BY <1>1, <2>4, <3>1
    <2>7. CASE k < l
      <3>1. x < pl[l].number
        BY <2>3, <2>7, FragmentOrder DEF x, tr
      <3> QED BY <1>1, <2>2, <2>3, <3>1
    <2>8. CASE k = l
      BY <2>2, <2>3, <2>8, <1>1 DEF x
    <2> QED BY <2>5, <2>6, <2>7, <2>8
  <1> QED BY <1>3

LEMMA AddFacts ==
    ASSUME NEW fr, NEW tr \in DOMAIN fr, NEW g, IsSeq(fr[tr])
    PROVE  /\ DOMAIN AddTo(fr, tr, g) = DOMAIN fr
           /\ \A t \in DOMAIN fr : t # tr => AddTo(fr, tr, g)[t] = fr[t]
           /\ AddTo(fr, tr, g)[tr] = Append(fr[tr], g)
           /\ IsSeq(Append(fr[tr], g))
           /\ Len(Append(fr[tr], g)) = Len(fr[tr]) + 1
           /\ \A i \in 1 .. Len(fr[tr]) : Append(fr[tr], g)[i] = fr[tr][i]
           /\ Append(fr[tr], g)[Len(fr[tr]) + 1] = g
  <1> DEFINE h == fr[tr]
             S == Range(h) \cup {g}
  <1>1. Len(h) \in Nat /\ \A i \in 1 .. Len(h) : h[i] \in S
    BY SeqFacts DEF Range
  <1>2. h \in Seq(S)
    BY <1>1, SeqFacts
  <1>3. g \in S
    OBVIOUS
  <1> HIDE DEF h, S
  <1>4. /\ Append(h, g) \in Seq(S)
        /\ Len(Append(h, g)) = Len(h) + 1
        /\ \A i \in 1 .. Len(h) : Append(h, g)[i] = h[i]
        /\ Append(h, g)[Len(h) + 1] = g
    BY <1>2, <1>3, AppendProperties
  <1>5. IsSeq(Append(h, g))
    BY <1>4, SeqOfRange DEF IsSeq
  <1>6. /\ DOMAIN AddTo(fr, tr, g) = DOMAIN fr
        /\ \A t \in DOMAIN fr : t # tr => AddTo(fr, tr, g)[t] = fr[t]
        /\ AddTo(fr, tr, g)[tr] = Append(fr[tr], g)
    BY DEF AddTo
  <1> QED BY <1>4, <1>5, <1>6 DEF h

LEMMA PassMoof ==
    ASSUME NEW s, NEW f, NEW pl, NEW no, FileIs(s, f, pl, no), pl # <<>>,
           NEW k \in FragmentsOf(pl),
           NEW ml, NEW m, NEW fr, NEW c, ReadState(s, pl, pl[k].at, ml, m, fr, c)
    PROVE  LET o == pl[k].at
               tr == pl[k].track
               n == Len(fr[tr])
               g == Counted(ReadOf(f, o), n, o, SizeAt(f, o))
           IN  /\ m = s.movie /\ tr \in DOMAIN fr
               /\ ReadState(s, pl, NextBox(f, o), ml, m, AddTo(fr, tr, g), <<tr, n + 1>>)
  <1> DEFINE o == pl[k].at
             tr == pl[k].track
             n == Len(fr[tr])
             h == ReadOf(f, o)
             g == Counted(h, n, o, SizeAt(f, o))
             gr == AddTo(fr, tr, g)
             z == NextBox(f, o)
  <1>1. /\ ml \in BOOLEAN
        /\ MovieIsRead(s, pl, o, m, fr)
        /\ FragmentsAreCounted(s, pl, o, m, fr)
        /\ FragmentsAreRead(s, pl, o, ml, m, fr)
        /\ CurrentIsLast(s, pl, o, c)
    BY DEF ReadState
  <1>2. /\ o \in StartsOf(s, pl, no) /\ o \in Nat
        /\ tr \in DOMAIN s.fragments /\ tr # 0
        /\ SizeAt(f, o) = MoofLength(s, tr, pl[k].number)
        /\ MdatAt(s, pl[k]) = o + MoofLength(s, tr, pl[k].number)
        /\ k \in 1 .. Len(pl)
        /\ pl[k].number \in 1 .. NumberOf(pl, tr)
    BY FragmentStands
  <1>3. z = MdatAt(s, pl[k]) /\ z \in Nat /\ o < z
    BY <1>2, BeforeNext DEF NextBox
  <1>4. o > MoovPlace(s, pl) /\ o # MoovPlace(s, pl)
    BY <1>2, BeforeMoov
  <1>5. m # NoMovie /\ m = s.movie /\ DOMAIN fr = DOMAIN s.fragments
    BY <1>1, <1>2, <1>4, MovieKnown
  <1>6. tr \in DOMAIN fr /\ \A t \in DOMAIN fr : IsSeq(fr[t]) /\ Len(fr[t]) <= NumberOf(pl, t)
    BY <1>1, <1>2, <1>5 DEF FragmentsAreCounted
  <1>7. n \in Nat
    BY <1>6, SeqFacts
  <1>8. \A l \in FragmentsOf(pl) : pl[l].at < o <=> pl[l].number <= Len(fr[pl[l].track])
    BY <1>1, <1>5 DEF FragmentsAreCounted, FragmentsOf
  <1>9. pl[k].number = n + 1
    <2>1. ASSUME NEW l \in FragmentsOf(pl), pl[l].track = tr
          PROVE  pl[l].at < o <=> pl[l].number <= n
      BY <1>8, <2>1
    <2> QED BY <1>7, <2>1, NextNumber
  <1>10. /\ DOMAIN gr = DOMAIN fr
         /\ \A t \in DOMAIN fr : t # tr => gr[t] = fr[t]
         /\ IsSeq(gr[tr])
         /\ Len(gr[tr]) = n + 1
         /\ \A i \in 1 .. n : gr[tr][i] = fr[tr][i]
         /\ gr[tr][n + 1] = g
    <2>1. IsSeq(fr[tr]) /\ tr \in DOMAIN fr
      BY <1>6
    <2> HIDE DEF g, tr
    <2>2. /\ DOMAIN gr = DOMAIN fr
          /\ \A t \in DOMAIN fr : t # tr => gr[t] = fr[t]
          /\ gr[tr] = Append(fr[tr], g)
      BY <2>1, AddFacts
    <2>3. /\ IsSeq(Append(fr[tr], g))
          /\ Len(Append(fr[tr], g)) = Len(fr[tr]) + 1
          /\ \A i \in 1 .. Len(fr[tr]) : Append(fr[tr], g)[i] = fr[tr][i]
          /\ Append(fr[tr], g)[Len(fr[tr]) + 1] = g
      BY <2>1, AddFacts
    <2> HIDE DEF gr
    <2> QED BY <2>2, <2>3
  <1>11. IsRead(s, pl, tr, n + 1, g)
    <2>1. /\ DOMAIN h = DOMAIN NewFragment
          /\ h.mfhd.sequence_number = s.fragments[tr][n + 1].mfhd.sequence_number
          /\ TimingOf(h) = s.timing[tr][n + 1]
          /\ h.trun.sample_count \in 0 .. VectorShift
          /\ DOMAIN h.sample_encryption = DOMAIN SampleEncryption
      BY <1>9, FragmentIsReadAs
    <2>2. /\ DOMAIN g = DOMAIN NewFragment
          /\ g.index = n /\ g.offset = o /\ g.duration = MoofDuration(h)
          /\ g.mfhd = h.mfhd /\ g.trun = h.trun
          /\ g.sample_encryption = h.sample_encryption
      BY <2>1, CountedFacts
    <2>3. g.duration = SumOf(s.timing[tr][n + 1], LAMBDA t : t[1])
      <3>1. MoofDuration(h) = SumOf(TimingOf(h), LAMBDA t : t[1])
        BY DurationIs
      <3> HIDE DEF g, h
      <3> QED BY <2>1, <2>2, <3>1, Zenon
    <2>4. TimingOf(g) = s.timing[tr][n + 1]
      <3> HIDE DEF g, h
      <3> QED BY <2>1, <2>2, Zenon DEF TimingOf
    <2>5. PlaceIn(pl, tr, n + 1) = pl[k]
      BY <1>9, PlaceInIs
    <2>6. (n + 1) - 1 = n
      BY <1>7
    <2> HIDE DEF g, h, n
    <2> QED BY <2>1, <2>2, <2>3, <2>4, <2>5, <2>6 DEF IsRead, TimingOf
  <1> HIDE DEF g, h, gr
  <1>12. MovieIsRead(s, pl, z, m, gr)
    BY <1>1, <1>2, <1>4, <1>5, <1>10, MovieStays
  <1>13. FragmentsAreCounted(s, pl, z, m, gr)
    <2>1. ASSUME NEW l \in 1 .. Len(pl), pl[l].track # 0
          PROVE  pl[l].at < z <=> pl[l].number <= Len(gr[pl[l].track])
      <3>1. l \in FragmentsOf(pl)
        BY <2>1 DEF FragmentsOf
      <3>2. pl[l].at \in Nat /\ (pl[l].at < z <=> pl[l].at <= o)
        BY <1>2, <3>1, BeforeNext
      <3>3. pl[l].number \in Nat /\ pl[l].track \in DOMAIN fr
        BY <1>5, <3>1, FragmentStands
      <3>4. pl[l].at < o <=> pl[l].number <= Len(fr[pl[l].track])
        BY <1>8, <3>1
      <3>5. CASE l = k
        <4>1. pl[l].at < z
          BY <3>2, <3>5, <1>2
        <4>2. pl[l].number <= Len(gr[pl[l].track])
          BY <1>7, <1>9, <1>10, <3>5
        <4> QED BY <4>1, <4>2
      <3>6. CASE l # k
        <4>1. pl[l].at # o
          BY <3>1, <3>6, SameFragment
        <4>2. pl[l].at < z <=> pl[l].at < o
          BY <1>2, <3>2, <4>1
        <4>3. CASE pl[l].track = tr
          <5>1. pl[l].number # n + 1
            BY <1>9, <3>1, <3>6, <4>3, SameFragment
          <5>2. pl[l].number <= n <=> pl[l].number <= n + 1
            <6> DEFINE a == pl[l].number
            <6>1. a \in Nat /\ n \in Nat /\ a # n + 1
              BY <1>7, <3>3, <5>1
            <6> HIDE DEF a, n
            <6>2. a <= n <=> a <= n + 1
              BY <6>1
            <6> QED BY <6>2 DEF a
          <5>3. pl[l].at < o <=> pl[l].number <= n
            BY <3>4, <4>3
          <5>4. Len(gr[pl[l].track]) = n + 1
            BY <1>10, <4>3
          <5> HIDE DEF n, o, tr, z
          <5> QED BY <4>2, <5>2, <5>3, <5>4
        <4>4. CASE pl[l].track # tr
          <5>1. gr[pl[l].track] = fr[pl[l].track]
            BY <1>10, <3>3, <4>4
          <5> QED BY <3>4, <4>2, <5>1
        <4> QED BY <4>3, <4>4
      <3> QED BY <3>5, <3>6
    <2>2. ASSUME NEW t \in DOMAIN gr PROVE IsSeq(gr[t]) /\ Len(gr[t]) <= NumberOf(pl, t)
      <3>1. CASE t = tr
        <4>1. Len(gr[t]) = n + 1 /\ IsSeq(gr[t]) /\ n + 1 \in 1 .. NumberOf(pl, t)
          BY <1>2, <1>9, <1>10, <3>1
        <4> QED BY <4>1
      <3>2. CASE t # tr
        BY <1>6, <1>10, <3>2
      <3> QED BY <3>1, <3>2
    <2> HIDE DEF z
    <2> QED BY <2>1, <2>2 DEF FragmentsAreCounted
  <1>14. FragmentsAreRead(s, pl, z, ml, m, gr)
    <2>1. \A l \in FragmentsOf(pl) : o # MdatAt(s, pl[l])
      BY SameFragment
    <2>2. FragmentsAreRead(s, pl, z, ml, m, fr)
      BY <1>1, <1>2, <1>5, <2>1, ReadStays
    <2>3. ASSUME NEW t \in DOMAIN gr, NEW i \in DOMAIN gr[t]
          PROVE  /\ IsRead(s, pl, t, i, gr[t][i])
                 /\ ml /\ MdatAt(s, PlaceIn(pl, t, i)) < z => HasChunk(s, pl, t, i, gr[t][i])
      <3>1. t \in DOMAIN fr
        BY <1>10
      <3>2. ASSUME NEW j \in DOMAIN fr[t]
            PROVE  /\ IsRead(s, pl, t, j, fr[t][j])
                   /\ ml /\ MdatAt(s, PlaceIn(pl, t, j)) < z
                         => HasChunk(s, pl, t, j, fr[t][j])
        BY <1>5, <2>2, <3>1 DEF FragmentsAreRead
      <3>3. CASE t # tr
        BY <1>10, <3>1, <3>2, <3>3
      <3>4. CASE t = tr
        <4>1. DOMAIN gr[t] = 1 .. n + 1 /\ DOMAIN fr[t] = 1 .. n
          BY <1>6, <1>10, <3>4, SeqFacts
        <4>2. CASE i = n + 1
          <5>1. PlaceIn(pl, t, i) = pl[k]
            BY <1>9, <3>4, <4>2, PlaceInIs
          <5>2. ~(MdatAt(s, PlaceIn(pl, t, i)) < z)
            BY <1>3, <5>1
          <5> QED BY <1>10, <1>11, <3>4, <4>2, <5>2
        <4>3. CASE i # n + 1
          <5>1. i \in 1 .. n
            BY <1>7, <4>1, <4>3
          <5>2. gr[t][i] = fr[t][i] /\ i \in DOMAIN fr[t]
            BY <1>10, <3>4, <4>1, <5>1
          <5> QED BY <3>2, <5>2
        <4> QED BY <4>2, <4>3
      <3> QED BY <3>3, <3>4
    <2> QED BY <2>3 DEF FragmentsAreRead
  <1>15. CurrentIsLast(s, pl, z, <<tr, n + 1>>)
    <2>1. ASSUME NEW l \in 1 .. Len(pl), pl[l].track # 0, MdatAt(s, pl[l]) = z
          PROVE  <<tr, n + 1>> = <<pl[l].track, pl[l].number>>
      <3>1. l \in FragmentsOf(pl)
        BY <2>1 DEF FragmentsOf
      <3>2. l = k
        BY <1>3, <2>1, <3>1, SameFragment
      <3> QED BY <1>9, <3>2
    <2>2. ~(\A l \in 1 .. Len(pl) : pl[l].track # 0 => z <= pl[l].at)
      <3>1. ~(z <= pl[k].at)
        BY <1>2, <1>3
      <3> QED BY <1>2, <3>1
    <2> QED BY <2>1, <2>2 DEF CurrentIsLast
  <1>16. ReadState(s, pl, z, ml, m, gr, <<tr, n + 1>>)
    BY <1>1, <1>12, <1>13, <1>14, <1>15 DEF ReadState
  <1> QED BY <1>5, <1>6, <1>16 DEF gr, g, h

Chunked(g, o, size) ==
    [g EXCEPT !.mdat_size = size, !.chunks = <<[offset |-> o + 8, size |-> size - 8]>>]

WithChunk(fr, c, o, size) ==
    [fr EXCEPT ![c[1]][c[2]] =
        [@ EXCEPT !.mdat_size = size, !.chunks = <<[offset |-> o + 8, size |-> size - 8]>>]]

SameAs(g, h) ==
    /\ DOMAIN h = DOMAIN g
    /\ h.index = g.index /\ h.offset = g.offset /\ h.duration = g.duration
    /\ h.mfhd = g.mfhd /\ h.trun = g.trun /\ h.tfhd = g.tfhd
    /\ h.sample_encryption = g.sample_encryption

LEMMA IsReadAlike ==
    ASSUME NEW s, NEW pl, NEW tr, NEW i, NEW g, NEW h,
           IsRead(s, pl, tr, i, g), SameAs(g, h)
    PROVE  IsRead(s, pl, tr, i, h)
  BY DEF IsRead, SameAs

LEMMA ChunkedFacts ==
    ASSUME NEW g, DOMAIN g = DOMAIN NewFragment, NEW o, NEW size
    PROVE  /\ SameAs(g, Chunked(g, o, size))
           /\ Chunked(g, o, size).chunks = <<[offset |-> o + 8, size |-> size - 8]>>
           /\ Chunked(g, o, size).mdat_size = size
  <1>1. {"index", "offset", "duration", "moof_size", "mfhd", "tfhd", "trun",
         "mdat_size", "chunks", "sample_encryption"} \subseteq DOMAIN g
    BY DEF NewFragment
  <1> DEFINE x == <<[offset |-> o + 8, size |-> size - 8]>>
  <1>2. Chunked(g, o, size) = [g EXCEPT !.mdat_size = size, !.chunks = x]
    BY Zenon DEF Chunked
  <1> HIDE DEF NewFragment, x
  <1>3. /\ SameAs(g, Chunked(g, o, size))
        /\ Chunked(g, o, size).chunks = x
        /\ Chunked(g, o, size).mdat_size = size
    BY <1>1, <1>2 DEF SameAs
  <1> QED BY <1>3 DEF x

LEMMA WithChunkFacts ==
    ASSUME NEW fr, NEW tr \in DOMAIN fr, IsSeq(fr[tr]), NEW n \in 1 .. Len(fr[tr]),
           NEW o, NEW size
    PROVE  LET gr == WithChunk(fr, <<tr, n>>, o, size)
           IN  /\ DOMAIN gr = DOMAIN fr
               /\ \A t \in DOMAIN fr : t # tr => gr[t] = fr[t]
               /\ IsSeq(gr[tr]) /\ Len(gr[tr]) = Len(fr[tr])
               /\ \A i \in 1 .. Len(fr[tr]) : i # n => gr[tr][i] = fr[tr][i]
               /\ gr[tr][n] = Chunked(fr[tr][n], o, size)
  <1> DEFINE h == fr[tr]
             x == Chunked(h[n], o, size)
             y == [h EXCEPT ![n] = x]
             gr == WithChunk(fr, <<tr, n>>, o, size)
             S == Range(h) \cup {x}
  <1>1. Len(h) \in Nat /\ DOMAIN h = 1 .. Len(h) /\ h \in [1 .. Len(h) -> Range(h)]
    BY SeqFacts, LenProperties DEF IsSeq
  <1>2. gr = [fr EXCEPT ![tr] = y]
    <2> DEFINE c == <<tr, n>>
    <2>1. c[1] = tr /\ c[2] = n
      OBVIOUS
    <2> HIDE DEF c
    <2>2. WithChunk(fr, c, o, size) = [fr EXCEPT ![tr] = y]
      BY <2>1, Zenon DEF WithChunk, Chunked
    <2> QED BY <2>2 DEF c
  <1> HIDE DEF h, x, gr
  <1>3. y \in [1 .. Len(h) -> S]
    BY <1>1
  <1>4. y \in Seq(S) /\ Len(y) = Len(h)
    <2>1. y \in Seq(S)
      BY <1>1, <1>3, SeqDef
    <2>2. DOMAIN y = 1 .. Len(h)
      BY <1>3
    <2>3. DOMAIN y = 1 .. Len(y) /\ Len(y) \in Nat
      BY <2>1, LenProperties
    <2> DEFINE u == Len(y)
               v == Len(h)
    <2>4. u \in Nat /\ v \in Nat /\ 1 .. u = 1 .. v
      BY <1>1, <2>2, <2>3
    <2> HIDE DEF u, v
    <2>5. u = v
      <3>1. u # 0 => u \in 1 .. v
        BY <2>4
      <3>2. v # 0 => v \in 1 .. u
        BY <2>4
      <3> QED BY <2>4, <3>1, <3>2
    <2> QED BY <2>1, <2>5 DEF u, v
  <1>5. /\ \A i \in 1 .. Len(h) : i # n => y[i] = h[i]
        /\ y[n] = x
    BY <1>1 DEF h
  <1>6. IsSeq(y)
    BY <1>4, SeqOfRange DEF IsSeq
  <1> HIDE DEF y
  <1>7. /\ DOMAIN gr = DOMAIN fr
        /\ \A t \in DOMAIN fr : t # tr => gr[t] = fr[t]
        /\ gr[tr] = y
    BY <1>2
  <1> QED BY <1>4, <1>5, <1>6, <1>7 DEF h, x, gr

LEMMA PassMdat ==
    ASSUME NEW s, NEW f, NEW pl, NEW no, FileIs(s, f, pl, no), pl # <<>>,
           NEW k \in FragmentsOf(pl),
           NEW ml, NEW m, NEW fr, NEW c, ReadState(s, pl, MdatAt(s, pl[k]), ml, m, fr, c)
    PROVE  LET o == MdatAt(s, pl[k])
           IN  /\ c = <<pl[k].track, pl[k].number>>
               /\ ReadState(s, pl, NextBox(f, o), ml, m, WithChunk(fr, c, o, SizeAt(f, o)), c)
  <1> DEFINE o == MdatAt(s, pl[k])
             tr == pl[k].track
             n == pl[k].number
             gr == WithChunk(fr, c, o, SizeAt(f, o))
             z == NextBox(f, o)
             size == Len(s.data[tr][n])
  <1>1. /\ ml \in BOOLEAN
        /\ MovieIsRead(s, pl, o, m, fr)
        /\ FragmentsAreCounted(s, pl, o, m, fr)
        /\ FragmentsAreRead(s, pl, o, ml, m, fr)
        /\ CurrentIsLast(s, pl, o, c)
    BY DEF ReadState
  <1>2. /\ k \in 1 .. Len(pl) /\ tr # 0 /\ tr \in DOMAIN s.fragments
        /\ o \in StartsOf(s, pl, no)
        /\ n \in 1 .. NumberOf(pl, tr)
    BY FragmentStands
  <1>3. c = <<tr, n>>
    BY <1>1, <1>2 DEF CurrentIsLast
  <1>4. pl[k].at \in Nat /\ o \in Nat /\ pl[k].at < o /\ z \in Nat /\ o < z
    BY <1>2, BeforeNext
  <1>5. o > MoovPlace(s, pl) /\ o # MoovPlace(s, pl)
    <2>1. MoovPlace(s, pl) \in Nat /\ MoovPlace(s, pl) < pl[k].at
      BY <1>2, BeforeMoov
    <2> HIDE DEF o
    <2> QED BY <1>4, <2>1
  <1>6. m # NoMovie /\ m = s.movie /\ DOMAIN fr = DOMAIN s.fragments
    BY <1>1, <1>4, <1>5, MovieKnown
  <1>7. \A t \in DOMAIN fr : IsSeq(fr[t]) /\ Len(fr[t]) <= NumberOf(pl, t)
    BY <1>1, <1>6 DEF FragmentsAreCounted
  <1>8. tr \in DOMAIN fr /\ n \in 1 .. Len(fr[tr])
    <2>1. n <= Len(fr[tr])
      BY <1>1, <1>2, <1>4, <1>6 DEF FragmentsAreCounted
    <2>2. Len(fr[tr]) \in Nat /\ tr \in DOMAIN fr
      BY <1>2, <1>6, <1>7, SeqFacts
    <2> HIDE DEF n, tr
    <2> QED BY <1>2, <2>1, <2>2
  <1>9. /\ DOMAIN gr = DOMAIN fr
        /\ \A t \in DOMAIN fr : t # tr => gr[t] = fr[t]
        /\ IsSeq(gr[tr]) /\ Len(gr[tr]) = Len(fr[tr])
        /\ \A i \in 1 .. Len(fr[tr]) : i # n => gr[tr][i] = fr[tr][i]
        /\ gr[tr][n] = Chunked(fr[tr][n], o, SizeAt(f, o))
    <2> DEFINE w == SizeAt(f, o)
    <2>1. IsSeq(fr[tr])
      BY <1>7, <1>8
    <2> HIDE DEF o, tr, n, w, gr
    <2>2. LET er == WithChunk(fr, <<tr, n>>, o, w)
          IN  /\ DOMAIN er = DOMAIN fr
              /\ \A t \in DOMAIN fr : t # tr => er[t] = fr[t]
              /\ IsSeq(er[tr]) /\ Len(er[tr]) = Len(fr[tr])
              /\ \A i \in 1 .. Len(fr[tr]) : i # n => er[tr][i] = fr[tr][i]
              /\ er[tr][n] = Chunked(fr[tr][n], o, w)
      BY <1>8, <2>1, WithChunkFacts
    <2>3. gr = WithChunk(fr, <<tr, n>>, o, w)
      BY <1>3 DEF gr, w
    <2> QED BY <2>2, <2>3, Zenon DEF w
  <1>10. MovieIsRead(s, pl, z, m, gr)
    BY <1>1, <1>2, <1>5, <1>6, <1>9, MovieStays
  <1>11. \A l \in FragmentsOf(pl) : o # pl[l].at
    BY SameFragment
  <1>12. FragmentsAreCounted(s, pl, z, m, gr)
    <2>1. ASSUME NEW t \in DOMAIN fr PROVE IsSeq(gr[t]) /\ Len(gr[t]) = Len(fr[t])
      <3>1. CASE t = tr
        BY <1>9, <3>1
      <3>2. CASE t # tr
        BY <1>7, <1>9, <3>2
      <3> QED BY <3>1, <3>2
    <2>2. \A l \in FragmentsOf(pl) : pl[l].track \in DOMAIN fr
      BY <1>6, FragmentStands
    <2> HIDE DEF gr, z, o
    <2> QED BY <1>1, <1>2, <1>9, <1>11, <2>1, <2>2, CountStays DEF z
  <1>13. CurrentIsLast(s, pl, z, c)
    BY <1>1, <1>2, <1>11, CurrentStays
  <1>14. /\ IsRead(s, pl, tr, n, gr[tr][n])
         /\ HasChunk(s, pl, tr, n, gr[tr][n])
    <2> DEFINE g == fr[tr][n]
               h == Chunked(g, o, SizeAt(f, o))
    <2>1. n \in DOMAIN fr[tr]
      BY <1>7, <1>8, SeqFacts
    <2>2. IsRead(s, pl, tr, n, g)
      <3> HIDE DEF tr, n, o
      <3> QED BY <1>1, <1>6, <1>8, <2>1, ZenonT(40) DEF FragmentsAreRead
    <2>3. DOMAIN g = DOMAIN NewFragment
      <3> HIDE DEF g, NewFragment
      <3> QED BY <2>2, Zenon DEF IsRead
    <2> HIDE DEF g, NewFragment
    <2>4. /\ SameAs(g, h)
          /\ h.chunks = <<[offset |-> o + 8, size |-> SizeAt(f, o) - 8]>>
      BY <2>3, ChunkedFacts
    <2>5. IsRead(s, pl, tr, n, h)
      BY <2>2, <2>4, IsReadAlike
    <2>6. PlaceIn(pl, tr, n) = pl[k]
      BY PlaceInIs
    <2>7. o + 8 = (pl[k].at + s.sizes[tr][n]) - size /\ SizeAt(f, o) - 8 = size
      <3> DEFINE u == MoofLength(s, tr, n)
                 v == s.sizes[tr][n]
      <3>1. /\ pl[k].at \in Nat /\ u \in Nat /\ size \in Nat
            /\ o = pl[k].at + u
            /\ v = u + 8 + size
            /\ SizeAt(f, o) = 8 + size
        BY FragmentStands
      <3> HIDE DEF u, v, size, o
      <3>2. o + 8 = (pl[k].at + v) - size /\ SizeAt(f, o) - 8 = size
        BY <3>1
      <3> QED BY <3>2 DEF v
    <2>8. HasChunk(s, pl, tr, n, h)
      <3> DEFINE u == (pl[k].at + s.sizes[tr][n]) - size
      <3>1. h.chunks = <<[offset |-> u, size |-> size]>>
        BY <2>4, <2>7
      <3>2. (PlaceIn(pl, tr, n).at + s.sizes[tr][n]) - size = u
        BY <2>6
      <3> HIDE DEF h, u
      <3>3. h.chunks = <<[offset |-> (PlaceIn(pl, tr, n).at + s.sizes[tr][n]) - size,
                          size |-> size]>>
        BY <3>1, <3>2
      <3> QED BY <3>3, Zenon DEF HasChunk
    <2> QED BY <1>9, <2>5, <2>8 DEF g
  <1>15. FragmentsAreRead(s, pl, z, ml, m, gr)
    <2>1. ASSUME NEW t \in DOMAIN gr, NEW i \in DOMAIN gr[t]
          PROVE  /\ IsRead(s, pl, t, i, gr[t][i])
                 /\ ml /\ MdatAt(s, PlaceIn(pl, t, i)) < z => HasChunk(s, pl, t, i, gr[t][i])
      <3>1. CASE t = tr /\ i = n
        BY <1>14, <3>1
      <3>2. CASE ~(t = tr /\ i = n)
        <4>1. t \in DOMAIN fr /\ IsSeq(fr[t]) /\ t \in DOMAIN s.fragments
              /\ Len(fr[t]) <= NumberOf(pl, t)
          BY <1>6, <1>7, <1>9
        <4>2. DOMAIN gr[t] = DOMAIN fr[t] /\ gr[t][i] = fr[t][i]
          <5>1. CASE t # tr
            BY <1>9, <4>1, <5>1
          <5>2. CASE t = tr
            <6>1. DOMAIN gr[t] = 1 .. Len(fr[t]) /\ DOMAIN fr[t] = 1 .. Len(fr[t])
              BY <1>7, <1>8, <1>9, <5>2, SeqFacts
            <6> QED BY <1>9, <3>2, <5>2, <6>1
          <5> QED BY <5>1, <5>2
        <4>3. /\ IsRead(s, pl, t, i, fr[t][i])
              /\ ml /\ MdatAt(s, PlaceIn(pl, t, i)) < o => HasChunk(s, pl, t, i, fr[t][i])
          BY <1>1, <1>6, <4>1, <4>2 DEF FragmentsAreRead
        <4>4. PICK l \in FragmentsOf(pl) :
                  pl[l].track = t /\ pl[l].number = i /\ PlaceIn(pl, t, i) = pl[l]
          BY <4>1, <4>2, ReadIsPlaced
        <4>5. /\ MdatAt(s, pl[l]) \in Nat
              /\ MdatAt(s, pl[l]) < z <=> MdatAt(s, pl[l]) <= o
          BY <1>2, BeforeNext
        <4>6. MdatAt(s, pl[l]) # o
          BY <3>2, <4>4, SameFragment
        <4>7. MdatAt(s, pl[l]) < z <=> MdatAt(s, pl[l]) < o
          BY <1>4, <4>5, <4>6
        <4> QED BY <4>2, <4>3, <4>4, <4>7
      <3> QED BY <3>1, <3>2
    <2> HIDE DEF gr, z
    <2> QED BY <2>1 DEF FragmentsAreRead
  <1>16. ReadState(s, pl, z, ml, m, gr, c)
    BY <1>1, <1>10, <1>12, <1>13, <1>15 DEF ReadState
  <1> QED BY <1>3, <1>16
-----------------------------------------------------------------------------
(* What has been read in the end                                            *)

LEMMA SeqOfFunction ==
    ASSUME NEW n \in Nat, NEW h, h = [i \in 1 .. n |-> h[i]]
    PROVE  IsSeq(h) /\ Len(h) = n
  <1>1. DOMAIN h = 1 .. n
    BY Zenon
  <1>2. \A i \in 1 .. n : h[i] \in Range(h)
    BY <1>1 DEF Range
  <1> DEFINE S == Range(h)
  <1>3. h \in [1 .. n -> S]
    BY <1>2, Zenon
  <1> HIDE DEF S
  <1>4. h \in Seq(S)
    BY <1>3, SeqDef
  <1>5. DOMAIN h = 1 .. Len(h) /\ Len(h) \in Nat
    BY <1>4, LenProperties
  <1> DEFINE u == Len(h)
  <1>6. u \in Nat /\ 1 .. u = 1 .. n
    BY <1>1, <1>5
  <1> HIDE DEF u
  <1>7. u = n
    <2>1. u # 0 => u \in 1 .. n
      BY <1>6
    <2>2. n # 0 => n \in 1 .. u
      BY <1>6
    <2> QED BY <1>6, <2>1, <2>2
  <1> QED BY <1>4, <1>7 DEF IsSeq, S, u

WithTimes(fr) == [tr \in DOMAIN fr |-> [i \in DOMAIN fr[tr] |-> FixupOne(fr[tr], i)]]

LEMMA SumsAlike ==
    ASSUME NEW a, NEW b, DOMAIN a = DOMAIN b,
           \A j \in DOMAIN a : a[j].duration = SumOf(b[j], LAMBDA t : t[1])
    PROVE  SumOf(a, LAMBDA f : f.duration) = SumOf(b, LAMBDA x : SumOf(x, LAMBDA t : t[1]))
  <1> DEFINE V(x) == SumOf(x, LAMBDA t : t[1])
  <1>1. \A j \in DOMAIN a : a[j].duration = V(b[j])
    BY Zenon
  <1>2. SumOf(b, LAMBDA x : SumOf(x, LAMBDA t : t[1])) = Total([j \in DOMAIN b |-> V(b[j])])
    BY Zenon DEF SumOf
  <1>3. SumOf(a, LAMBDA f : f.duration) = Total([j \in DOMAIN a |-> a[j].duration])
    BY Zenon DEF SumOf
  <1> HIDE DEF V
  <1>4. [j \in DOMAIN b |-> V(b[j])] = [j \in DOMAIN a |-> a[j].duration]
    BY <1>1
  <1> QED BY <1>2, <1>3, <1>4, Zenon

LEMMA TimesAlike ==
    ASSUME NEW g, NEW h, NEW i \in Nat, i > 0,
           \A j \in 1 .. i - 1 : g[j].duration = SumOf(h[j], LAMBDA t : t[1])
    PROVE  SumOf(SubSeq(g, 1, i - 1), LAMBDA f : f.duration) = StartOf(h, i)
  <1> DEFINE a == SubSeq(g, 1, i - 1)
             b == SubSeq(h, 1, i - 1)
             n == i - 1
  <1>1. n \in Nat /\ 1 \in Nat
    OBVIOUS
  <1> HIDE DEF n
  <1>2. /\ DOMAIN SubSeq(g, 1, n) = 1 .. n /\ \A j \in 1 .. n : SubSeq(g, 1, n)[j] = g[j]
        /\ DOMAIN SubSeq(h, 1, n) = 1 .. n /\ \A j \in 1 .. n : SubSeq(h, 1, n)[j] = h[j]
    BY <1>1
  <1>3. DOMAIN a = DOMAIN b /\ \A j \in DOMAIN a : a[j].duration = SumOf(b[j], LAMBDA t : t[1])
    BY <1>2 DEF n
  <1> HIDE DEF a, b
  <1>4. SumOf(a, LAMBDA f : f.duration) = SumOf(b, LAMBDA x : SumOf(x, LAMBDA t : t[1]))
    BY <1>3, SumsAlike
  <1> QED BY <1>4 DEF a, b, StartOf

LEMMA FixupFacts ==
    ASSUME NEW fs, NEW i, DOMAIN fs[i] = DOMAIN NewFragment
    PROVE  /\ SameAs(fs[i], FixupOne(fs, i))
           /\ FixupOne(fs, i).chunks = fs[i].chunks
           /\ FixupOne(fs, i).timestamp = SumOf(SubSeq(fs, 1, i - 1), LAMBDA f : f.duration)
  <1> DEFINE g == fs[i]
             x == SumOf(SubSeq(fs, 1, i - 1), LAMBDA f : f.duration)
  <1>1. {"index", "offset", "duration", "mfhd", "tfhd", "trun", "chunks", "timestamp",
         "sample_encryption"}
           \subseteq DOMAIN g
    BY DEF NewFragment
  <1>2. FixupOne(fs, i) = [g EXCEPT !.timestamp = x]
    BY Zenon DEF FixupOne
  <1> HIDE DEF g, x
  <1>3. /\ SameAs(g, FixupOne(fs, i))
        /\ FixupOne(fs, i).chunks = g.chunks
        /\ FixupOne(fs, i).timestamp = x
    BY <1>1, <1>2 DEF SameAs
  <1> QED BY <1>3 DEF g, x

LEMMA DoneAtEnd ==
    ASSUME NEW s, NEW f, NEW pl, NEW no, FileIs(s, f, pl, no), pl # <<>>,
           NEW o \in Nat, o >= Len(f),
           NEW ml, NEW m, NEW fr, NEW c, ReadState(s, pl, o, ml, m, fr, c)
    PROVE  IsDone(s, pl, ml, m, WithTimes(fr), FALSE)
  <1> DEFINE gr == WithTimes(fr)
  <1>1. /\ ml \in BOOLEAN
        /\ MovieIsRead(s, pl, o, m, fr)
        /\ FragmentsAreCounted(s, pl, o, m, fr)
        /\ FragmentsAreRead(s, pl, o, ml, m, fr)
    BY DEF ReadState
  <1>2. SUFFICES ASSUME m # NoMovie PROVE IsDone(s, pl, ml, m, gr, FALSE)
    BY DEF IsDone
  <1>3. m = s.movie /\ DOMAIN fr = DOMAIN s.fragments
    BY <1>1, <1>2, MovieKnown
  <1>4. Len(f) \in Nat /\ s \in Sources
    BY FileFacts
  <1>5. ASSUME NEW k \in FragmentsOf(pl)
        PROVE  /\ MdatAt(s, pl[k]) < o
               /\ pl[k].number <= Len(fr[pl[k].track])
    <2>1. /\ MdatAt(s, pl[k]) + 8 <= Len(f)
          /\ MdatAt(s, pl[k]) \in Nat /\ pl[k].at \in Nat /\ pl[k].at < MdatAt(s, pl[k])
      BY FragmentStands, FragmentOrder
    <2>2. MdatAt(s, pl[k]) < o /\ pl[k].at < o
      BY <1>4, <2>1
    <2> QED BY <1>1, <1>2, <2>2 DEF FragmentsAreCounted, FragmentsOf
  <1>6. ASSUME NEW tr \in DOMAIN fr
        PROVE  /\ IsSeq(gr[tr]) /\ Len(gr[tr]) = NumberOf(pl, tr)
               /\ DOMAIN gr[tr] = DOMAIN fr[tr] /\ DOMAIN gr[tr] = 1 .. Len(fr[tr])
               /\ Len(fr[tr]) = NumberOf(pl, tr)
               /\ IsSeq(fr[tr]) /\ Len(fr[tr]) \in Nat
               /\ tr \in DOMAIN s.fragments
               /\ \A i \in DOMAIN fr[tr] : gr[tr][i] = FixupOne(fr[tr], i)
    <2>1. IsSeq(fr[tr]) /\ Len(fr[tr]) <= NumberOf(pl, tr)
      BY <1>1, <1>2 DEF FragmentsAreCounted
    <2>2. Len(fr[tr]) \in Nat /\ DOMAIN fr[tr] = 1 .. Len(fr[tr])
      BY <2>1, SeqFacts
    <2>3. NumberOf(pl, tr) \in Nat /\ tr \in DOMAIN s.fragments
      <3>1. NumberOf(pl, tr) \in 0 .. Len(s.fragments[tr])
        BY <1>3, FileFacts DEF NumbersAreUsed
      <3> QED BY <1>3, <3>1
    <2>4. Len(fr[tr]) = NumberOf(pl, tr)
      <3>1. ASSUME Len(fr[tr]) < NumberOf(pl, tr) PROVE FALSE
        <4>1. NumberOf(pl, tr) \in 1 .. NumberOf(pl, tr)
          BY <2>2, <2>3, <3>1
        <4>2. PICK k \in FragmentsOf(pl) : pl[k].track = tr /\ pl[k].number = NumberOf(pl, tr)
          BY <2>3, <4>1, PlaceOfNumber
        <4>3. NumberOf(pl, tr) <= Len(fr[tr])
          BY <1>5, <4>2
        <4> QED BY <2>2, <2>3, <3>1, <4>3
      <3> QED BY <2>1, <2>2, <2>3, <3>1
    <2>5. gr[tr] = [i \in DOMAIN fr[tr] |-> FixupOne(fr[tr], i)]
      BY DEF WithTimes
    <2> DEFINE h == gr[tr]
               n == Len(fr[tr])
    <2>6. /\ DOMAIN h = 1 .. n /\ DOMAIN h = DOMAIN fr[tr]
          /\ \A i \in DOMAIN fr[tr] : h[i] = FixupOne(fr[tr], i)
          /\ h = [i \in 1 .. n |-> h[i]]
      BY <2>2, <2>5
    <2> HIDE DEF h, n
    <2>7. IsSeq(h) /\ Len(h) = n
      BY <2>2, <2>6, SeqOfFunction DEF n
    <2> QED BY <2>1, <2>2, <2>3, <2>4, <2>6, <2>7 DEF h, n
  <1>7. ASSUME NEW tr \in DOMAIN fr, NEW i \in DOMAIN fr[tr]
        PROVE  /\ IsRead(s, pl, tr, i, fr[tr][i])
               /\ ml => HasChunk(s, pl, tr, i, fr[tr][i])
    <2>1. /\ IsRead(s, pl, tr, i, fr[tr][i])
          /\ ml /\ MdatAt(s, PlaceIn(pl, tr, i)) < o => HasChunk(s, pl, tr, i, fr[tr][i])
      BY <1>1, <1>2 DEF FragmentsAreRead
    <2>2. IsSeq(fr[tr]) /\ Len(fr[tr]) <= NumberOf(pl, tr) /\ tr \in DOMAIN s.fragments
      BY <1>1, <1>2, <1>3 DEF FragmentsAreCounted
    <2>3. PICK k \in FragmentsOf(pl) : PlaceIn(pl, tr, i) = pl[k]
      BY <2>2, ReadIsPlaced
    <2>4. MdatAt(s, PlaceIn(pl, tr, i)) < o
      BY <1>5, <2>3
    <2> QED BY <2>1, <2>4
  <1>8. ASSUME NEW tr \in DOMAIN gr, NEW i \in DOMAIN gr[tr]
        PROVE  /\ IsRead(s, pl, tr, i, gr[tr][i])
               /\ gr[tr][i].timestamp = StartOf(s.timing[tr], i)
               /\ ml => HasChunk(s, pl, tr, i, gr[tr][i])
    <2> DEFINE g == fr[tr][i]
               h == gr[tr][i]
    <2>1. tr \in DOMAIN fr
      BY DEF WithTimes
    <2>2. i \in DOMAIN fr[tr] /\ h = FixupOne(fr[tr], i) /\ i \in 1 .. Len(fr[tr])
      BY <1>6, <2>1
    <2>3. IsRead(s, pl, tr, i, g) /\ (ml => HasChunk(s, pl, tr, i, g))
      BY <1>7, <2>1, <2>2
    <2>4. DOMAIN g = DOMAIN NewFragment
      BY <2>3 DEF IsRead
    <2>5. /\ SameAs(g, h)
          /\ h.chunks = g.chunks
          /\ h.timestamp = SumOf(SubSeq(fr[tr], 1, i - 1), LAMBDA x : x.duration)
      <3> HIDE DEF NewFragment, h, gr
      <3> QED BY <2>2, <2>4, FixupFacts
    <2> HIDE DEF h, gr
    <2>6. IsRead(s, pl, tr, i, h)
      BY <2>3, <2>5, IsReadAlike
    <2>7. ml => HasChunk(s, pl, tr, i, h)
      BY <2>3, <2>5, Zenon DEF HasChunk
    <2>8. h.timestamp = StartOf(s.timing[tr], i)
      <3>1. Len(fr[tr]) \in Nat /\ DOMAIN fr[tr] = 1 .. Len(fr[tr])
        BY <1>6, <2>1
      <3>2. i \in Nat /\ i > 0
        BY <2>2, <3>1
      <3>3. ASSUME NEW j \in 1 .. i - 1
            PROVE  fr[tr][j].duration = SumOf(s.timing[tr][j], LAMBDA t : t[1])
        <4>1. j \in DOMAIN fr[tr]
          BY <2>2, <3>1, <3>2
        <4>2. IsRead(s, pl, tr, j, fr[tr][j])
          BY <1>7, <2>1, <4>1
        <4> QED BY <4>2, Zenon DEF IsRead
      <3>4. SumOf(SubSeq(fr[tr], 1, i - 1), LAMBDA x : x.duration) = StartOf(s.timing[tr], i)
        BY <3>2, <3>3, TimesAlike
      <3> QED BY <2>5, <3>4
    <2> QED BY <2>6, <2>7, <2>8 DEF h
  <1>9. DOMAIN gr = DOMAIN fr
    BY DEF WithTimes
  <1> HIDE DEF gr
  <1> QED BY <1>3, <1>6, <1>8, <1>9 DEF IsDone

LEMMA DoneAtError ==
    ASSUME NEW s, NEW f, NEW pl, NEW no, FileIs(s, f, pl, no), pl # <<>>,
           NEW o \in StartsOf(s, pl, no), GetAtom(f, o + 4) = "mdat",
           NEW ml, NEW m, NEW fr, ReadState(s, pl, o, ml, m, fr, NoFragment)
    PROVE  IsDone(s, pl, ml, m, fr, TRUE)
  <1>1. /\ MovieIsRead(s, pl, o, m, fr)
        /\ FragmentsAreCounted(s, pl, o, m, fr)
        /\ CurrentIsLast(s, pl, o, NoFragment)
    BY DEF ReadState
  <1>2. SUFFICES ASSUME m # NoMovie PROVE IsDone(s, pl, ml, m, fr, TRUE)
    BY DEF IsDone
  <1>3. o \in Nat
    BY StepFacts
  <1>4. m = s.movie /\ DOMAIN fr = DOMAIN s.fragments
    BY <1>1, <1>2, <1>3, MovieKnown
  <1>5. \A k \in FragmentsOf(pl) : o < pl[k].at
    <2>1. ASSUME NEW k \in FragmentsOf(pl), o = MdatAt(s, pl[k]) PROVE FALSE
      <3>1. pl[k].track # 0 /\ k \in 1 .. Len(pl)
        BY DEF FragmentsOf
      <3>2. NoFragment = <<pl[k].track, pl[k].number>>
        BY <1>1, <2>1, <3>1 DEF CurrentIsLast
      <3> QED BY <3>1, <3>2 DEF NoFragment
    <2> QED BY <2>1, BoxIsFound DEF IsFound
  <1>6. \A tr \in DOMAIN fr : IsSeq(fr[tr]) /\ Len(fr[tr]) <= NumberOf(pl, tr)
    BY <1>1, <1>2 DEF FragmentsAreCounted
  <1>7. ASSUME NEW tr \in DOMAIN fr, NEW i \in DOMAIN fr[tr] PROVE FALSE
    <2>1. IsSeq(fr[tr]) /\ Len(fr[tr]) <= NumberOf(pl, tr) /\ tr \in DOMAIN s.fragments
      BY <1>4, <1>6
    <2>2. PICK k \in FragmentsOf(pl) : pl[k].track = tr /\ pl[k].number = i
      BY <2>1, ReadIsPlaced
    <2>3. i \in 1 .. Len(fr[tr]) /\ Len(fr[tr]) \in Nat
      BY <2>1, SeqFacts
    <2>4. pl[k].at < o
      BY <1>1, <1>2, <2>2, <2>3 DEF FragmentsAreCounted, FragmentsOf
    <2>5. pl[k].at \in Nat /\ o < pl[k].at
      BY <1>5, FragmentStands
    <2> QED BY <1>3, <2>4, <2>5
  <1> QED BY <1>4, <1>6, <1>7 DEF IsDone
-----------------------------------------------------------------------------
(* The steps                                                                *)

LEMMA ReadNothing ==
    ASSUME NEW s, NEW f, NEW pl, NEW no, FileIs(s, f, pl, no), pl # <<>>
    PROVE  ReadState(s, pl, 0, FALSE, NoMovie, <<>>, NoFragment)
  <1>1. MovieIsRead(s, pl, 0, NoMovie, <<>>)
    <2>1. MoovPlace(s, pl) \in Nat
      BY HeaderStands, StepFacts
    <2> QED BY <2>1 DEF MovieIsRead
  <1>2. CurrentIsLast(s, pl, 0, NoFragment)
    <2>1. ASSUME NEW k \in 1 .. Len(pl), pl[k].track # 0 PROVE MdatAt(s, pl[k]) # 0
      <3>1. k \in FragmentsOf(pl)
        BY <2>1 DEF FragmentsOf
      <3> QED BY <3>1, FragmentOrder
    <2> QED BY <2>1 DEF CurrentIsLast
  <1> QED BY <1>1, <1>2 DEF ReadState, FragmentsAreCounted, FragmentsAreRead

LEMMA InitIsRight == Init => IInv
  <1> SUFFICES ASSUME Init PROVE IInv
    OBVIOUS
  <1>1. /\ source \in Sources /\ file = <<>> /\ places = <<>> /\ noise = {} /\ phase = "write"
        /\ NothingRead
    BY DEF Init, NothingRead
  <1>2. IsSeq(<<>>) /\ <<>> \in Seq(Places) /\ Len(<<>>) = 0
    BY EmptySeq DEF IsSeq
  <1>3. 1 .. Len(<<>>) = {} /\ DOMAIN <<>> = {}
    BY <1>2
  <1>4. NumbersAreUsed(source, <<>>)
    <2>1. ASSUME NEW tr \in DOMAIN source.fragments
          PROVE  NumberOf(<<>>, tr) = 0 /\ Len(source.fragments[tr]) \in Nat
      <3>1. NumberOf(<<>>, tr) = Cardinality({})
        <4>1. {k \in DOMAIN <<>> : <<>>[k].track = tr} = {}
          BY <1>3
        <4> QED BY <4>1, Zenon DEF NumberOf
      <3> QED BY <1>1, <3>1, FS_EmptySet, TracksAreNumbers
    <2> QED BY <2>1 DEF NumbersAreUsed
  <1>5. \A x : x \notin StartsOf(source, <<>>, {})
    BY <1>3, InStarts
  <1>6. IsChain(<<>>, StartsOf(source, <<>>, {}))
    BY <1>5 DEF IsChain
  <1>7. FileIs(source, <<>>, <<>>, {})
    BY <1>1, <1>2, <1>3, <1>4, <1>6, Zenon DEF FileIs, NoiseIsOther, IsSeq
  <1>8. FileIsWhole(source, <<>>, <<>>, {})
    BY <1>3, <1>5 DEF FileIsWhole
  <1> QED BY <1>1, <1>7, <1>8 DEF IInv, FileInv

(* What the recorder does keeps the invariant as long as the file is right. *)
LEMMA StillWriting ==
    ASSUME IInv, phase = "write", phase' = "write",
           FileIs(source', file', places', noise'),
           FileIsWhole(source', file', places', noise'),
           UNCHANGED <<parserVars, load, levels>>
    PROVE  IInv'
  <1>1. NothingRead
    BY DEF IInv
  <1>2. NothingRead'
    BY <1>1 DEF NothingRead, parserVars
  <1> QED BY <1>2 DEF IInv, FileInv

LEMMA HeaderIsWritten == IInv /\ WriteHeader => IInv'
  <1> SUFFICES ASSUME IInv, WriteHeader PROVE IInv'
    OBVIOUS
  <1> DEFINE p == [track |-> 0, number |-> 0, at |-> Len(file)]
  <1>1. /\ phase = "write" /\ phase' = "write" /\ places = <<>>
        /\ places' = <<p>> /\ file' = file \o source.header
        /\ source' = source /\ noise' = noise
        /\ UNCHANGED <<parserVars, load, levels>>
    BY DEF WriteHeader
  <1>2. FileIs(source, file, places, noise) /\ FileIsWhole(source, file, places, noise)
    BY <1>1 DEF IInv, FileInv
  <1>3. Len(file) \in Nat
    BY <1>2, FileFacts
  <1>4. places' = Append(places, p)
    BY <1>1
  <1>5. p.track = 0 /\ p.at = Len(file) /\ p \in Places
    BY <1>3 DEF Places
  <1> HIDE DEF p
  <1>6. IsNext(source, file, places, p)
    BY <1>1, <1>5 DEF IsNext, IsPlace
  <1>7. file' = file \o PartOf(source, p)
    BY <1>1, <1>5 DEF PartOf
  <1>8. /\ FileIs(source, file \o PartOf(source, p), Append(places, p), noise)
        /\ FileIsWhole(source, file \o PartOf(source, p), Append(places, p), noise)
    BY <1>2, <1>6, PartAppended
  <1>9. /\ FileIs(source', file', places', noise')
        /\ FileIsWhole(source', file', places', noise')
    BY <1>1, <1>4, <1>7, <1>8
  <1> QED BY <1>1, <1>9, StillWriting

LEMMA FragmentIsWritten ==
    \A tr \in DOMAIN source.fragments : IInv /\ WriteFragment(tr) => IInv'
  <1> SUFFICES ASSUME NEW tr \in DOMAIN source.fragments, IInv, WriteFragment(tr) PROVE IInv'
    OBVIOUS
  <1> DEFINE n == NumberOf(places, tr) + 1
             p == [track |-> tr, number |-> n, at |-> Len(file)]
  <1>1. /\ phase = "write" /\ phase' = "write" /\ places # <<>>
        /\ n <= Len(source.fragments[tr])
        /\ places' = Append(places, p) /\ file' = file \o Recorded(source, tr, n)
        /\ source' = source /\ noise' = noise
        /\ UNCHANGED <<parserVars, load, levels>>
    BY DEF WriteFragment, WrittenOf, NumberOf
  <1>2. FileIs(source, file, places, noise) /\ FileIsWhole(source, file, places, noise)
    BY <1>1 DEF IInv, FileInv
  <1>3. Len(file) \in Nat /\ source \in Sources /\ NumbersAreUsed(source, places)
    BY <1>2, FileFacts
  <1>4. tr \in Nat /\ tr > 0 /\ Len(source.fragments[tr]) \in Nat
        /\ NumberOf(places, tr) \in Nat
    <2>1. NumberOf(places, tr) \in 0 .. Len(source.fragments[tr])
      BY <1>3 DEF NumbersAreUsed
    <2> QED BY <1>3, <2>1, TracksAreNumbers
  <1>5. p.track = tr /\ p.number = n /\ p.at = Len(file) /\ p \in Places
        /\ p.number \in 1 .. Len(source.fragments[tr])
    BY <1>1, <1>3, <1>4 DEF Places
  <1> HIDE DEF p
  <1>6. IsNext(source, file, places, p)
    BY <1>1, <1>4, <1>5 DEF IsNext, IsPlace
  <1>7. file' = file \o PartOf(source, p)
    BY <1>1, <1>4, <1>5 DEF PartOf
  <1>8. /\ FileIs(source, file \o PartOf(source, p), Append(places, p), noise)
        /\ FileIsWhole(source, file \o PartOf(source, p), Append(places, p), noise)
    BY <1>2, <1>6, PartAppended
  <1>9. /\ FileIs(source', file', places', noise')
        /\ FileIsWhole(source', file', places', noise')
    BY <1>1, <1>7, <1>8
  <1> QED BY <1>1, <1>9, StillWriting

LEMMA NoiseIsWritten == \A b \in Noises : IInv /\ WriteNoise(b) => IInv'
  <1> SUFFICES ASSUME NEW b \in Noises, IInv, WriteNoise(b) PROVE IInv'
    OBVIOUS
  <1>1. /\ phase = "write" /\ phase' = "write"
        /\ GetAtom(b, 4) = "mdat" => Len(places) <= 1
        /\ noise' = noise \cup {Len(file)} /\ file' = file \o b
        /\ source' = source /\ places' = places
        /\ UNCHANGED <<parserVars, load, levels>>
    BY DEF WriteNoise
  <1>2. FileIs(source, file, places, noise) /\ FileIsWhole(source, file, places, noise)
    BY <1>1 DEF IInv, FileInv
  <1>3. /\ FileIs(source, file \o b, places, noise \cup {Len(file)})
        /\ FileIsWhole(source, file \o b, places, noise \cup {Len(file)})
    BY <1>1, <1>2, NoiseAppended
  <1>4. /\ FileIs(source', file', places', noise')
        /\ FileIsWhole(source', file', places', noise')
    BY <1>1, <1>3
  <1> QED BY <1>1, <1>4, StillWriting

LEMMA RecordingStops == \A n \in 0 .. 1 : IInv /\ Stop(n) => IInv'
  <1> SUFFICES ASSUME NEW n \in 0 .. 1, IInv, Stop(n) PROVE IInv'
    OBVIOUS
  <1> DEFINE f == SubSeq(file, 1, Len(file) - n)
  <1>1. /\ phase = "write" /\ phase' = "read" /\ places # <<>>
        /\ file' = f
        /\ source' = source /\ places' = places /\ noise' = noise
        /\ UNCHANGED parserVars
        /\ IsCut(source, file, places, n)
    BY DEF Stop, IsCut
  <1>2. /\ FileIs(source, file, places, noise) /\ FileIsWhole(source, file, places, noise)
        /\ NothingRead
    BY <1>1 DEF IInv, FileInv
  <1>3. FileIs(source, f, places, noise)
    BY <1>1, <1>2, FileIsCut
  <1>4. ReadState(source, places, 0, FALSE, NoMovie, <<>>, NoFragment)
    BY <1>1, <1>3, ReadNothing
  <1>5. 0 \in StartsOf(source, places, noise) \/ 0 >= Len(f)
    BY <1>3 DEF FileIs
  <1> HIDE DEF f
  <1>6. /\ offset' = 0 /\ isIsml' = FALSE /\ movie' = NoMovie /\ frags' = <<>>
        /\ current' = NoFragment /\ error' = FALSE
    BY <1>1, <1>2 DEF NothingRead, parserVars
  <1>7. ReadInv'
    BY <1>1, <1>4, <1>5, <1>6 DEF ReadInv
  <1>8. FileInv'
    BY <1>1, <1>3 DEF FileInv
  <1> QED BY <1>1, <1>7, <1>8 DEF IInv

LEMMA AtBoxFacts ==
    ASSUME IInv, phase = "read", offset < Len(file)
    PROVE  /\ FileIs(source, file, places, noise) /\ places # <<>>
           /\ offset \in StartsOf(source, places, noise) /\ offset \in Nat
           /\ error = FALSE
           /\ isIsml \in BOOLEAN
           /\ ReadState(source, places, offset, isIsml, movie, frags, current)
           /\ IsFound(source, file, places, offset)
           /\ BoxAtom = GetAtom(file, offset + 4)
           /\ BoxBody = BodyAt(file, offset)
           /\ BoxSize = SizeAt(file, offset)
           /\ offset + BoxSize = NextBox(file, offset)
  <1>1. /\ FileIs(source, file, places, noise) /\ places # <<>>
        /\ ReadInv
    BY DEF IInv, FileInv
  <1>2. Len(file) \in Nat
    BY <1>1, FileFacts
  <1>3. /\ offset \in Nat /\ error = FALSE
        /\ ReadState(source, places, offset, isIsml, movie, frags, current)
        /\ offset \in StartsOf(source, places, noise) \/ offset >= Len(file)
    BY <1>1 DEF ReadInv
  <1>4. offset \in StartsOf(source, places, noise)
    BY <1>2, <1>3
  <1>5. IsFound(source, file, places, offset)
    BY <1>1, <1>4, BoxIsFound
  <1>6. isIsml \in BOOLEAN
    BY <1>3 DEF ReadState
  <1>7. /\ BoxAtom = GetAtom(file, offset + 4)
        /\ BoxSize = SizeAt(file, offset)
        /\ offset + BoxSize = NextBox(file, offset)
    BY DEF BoxAtom, BoxSize, NextBox
  <1>8. BoxBody = BodyAt(file, offset)
    BY Zenon DEF BoxBody, BodyAt, AtMostFile, BoxSize
  <1> QED BY <1>1, <1>3, <1>4, <1>5, <1>6, <1>7, <1>8

(* The parser goes on after a box.                                          *)
LEMMA StillReading ==
    ASSUME IInv, phase = "read", offset < Len(file), Unread, error' = error,
           offset' = offset + BoxSize,
           ReadState(source, places, NextBox(file, offset), isIsml', movie', frags', current')
    PROVE  IInv'
  <1>1. /\ FileIs(source, file, places, noise) /\ places # <<>>
        /\ offset \in StartsOf(source, places, noise)
        /\ error = FALSE
        /\ offset' = NextBox(file, offset)
    BY AtBoxFacts
  <1>2. /\ NextBox(file, offset) \in Nat
        /\ NextBox(file, offset) \in StartsOf(source, places, noise)
           \/ NextBox(file, offset) >= Len(file)
    BY <1>1, StepFacts DEF NextBox
  <1>3. /\ source' = source /\ file' = file /\ places' = places /\ noise' = noise
        /\ phase' = "read"
    BY DEF Unread, fileVars
  <1>4. FileInv'
    BY <1>1, <1>3 DEF FileInv
  <1>5. ReadInv'
    BY <1>1, <1>2, <1>3 DEF ReadInv
  <1> QED BY <1>3, <1>4, <1>5 DEF IInv

LEMMA FtypIsRead == IInv /\ ReadFtyp => IInv'
  <1> SUFFICES ASSUME IInv, ReadFtyp PROVE IInv'
    OBVIOUS
  <1>1. /\ phase = "read" /\ offset < Len(file) /\ BoxAtom = "ftyp"
        /\ isIsml' = (isIsml \/ GetAtom(BoxBody, 0) \in {"isml", "dash"})
        /\ offset' = offset + BoxSize
        /\ movie' = movie /\ frags' = frags /\ current' = current /\ error' = error
        /\ Unread
    BY DEF ReadFtyp, AtBox
  <1>2. /\ FileIs(source, file, places, noise) /\ places # <<>>
        /\ offset \in StartsOf(source, places, noise) /\ offset \in Nat
        /\ ReadState(source, places, offset, isIsml, movie, frags, current)
        /\ GetAtom(file, offset + 4) = "ftyp"
        /\ \A k \in FragmentsOf(places) : offset < places[k].at
    BY <1>1, AtBoxFacts DEF IsFound
  <1>3. isIsml' \in BOOLEAN
    BY <1>1
  <1>4. offset # MoovPlace(source, places)
    BY <1>2, HeaderStands
  <1>5. \A k \in FragmentsOf(places) : offset # places[k].at
    BY <1>2, FragmentStands
  <1>6. ReadState(source, places, NextBox(file, offset), isIsml', movie, frags, current)
    BY <1>2, <1>3, <1>4, <1>5, PassBox
  <1> QED BY <1>1, <1>6, StillReading

LEMMA MoovIsTaken == IInv /\ ReadMoov => IInv'
  <1> SUFFICES ASSUME IInv, ReadMoov PROVE IInv'
    OBVIOUS
  <1>1. /\ phase = "read" /\ offset < Len(file) /\ BoxAtom = "moov"
        /\ movie' = ParseMoov(BoxBody)
        /\ frags' = NoFragments(movie')
        /\ offset' = offset + BoxSize
        /\ isIsml' = isIsml /\ current' = current /\ error' = error
        /\ Unread
    BY DEF ReadMoov, AtBox, NoFragments
  <1>2. /\ FileIs(source, file, places, noise) /\ places # <<>>
        /\ offset \in StartsOf(source, places, noise)
        /\ ReadState(source, places, offset, isIsml, movie, frags, current)
        /\ offset = MoovPlace(source, places)
        /\ BoxBody = BodyAt(file, offset)
    BY <1>1, AtBoxFacts DEF IsFound
  <1>3. movie' = source.movie
    BY <1>1, <1>2, MoovIsRead
  <1>4. ReadState(source, places, NextBox(file, offset), isIsml, source.movie,
                  NoFragments(source.movie), current)
    BY <1>2, PassMoov
  <1> QED BY <1>1, <1>3, <1>4, StillReading

LEMMA MoofIsTaken == IInv /\ ReadMoof => IInv'
  <1> SUFFICES ASSUME IInv, ReadMoof PROVE IInv'
    OBVIOUS
  <1> DEFINE f == FixupMoof(ParseMoof(BoxBody))
             tracks == TracksWithId(f.tfhd.track_id)
             u == FirstOf(tracks)
             g == ReadOf(file, offset)
  <1>1. /\ phase = "read" /\ offset < Len(file) /\ BoxAtom = "moof"
        /\ offset' = offset + BoxSize
        /\ isIsml' = isIsml /\ movie' = movie /\ error' = error
        /\ Unread
    BY DEF ReadMoof, AtBox
  <1>2. tracks # {} =>
            /\ current' = <<u, Len(frags[u]) + 1>>
            /\ frags' = AddTo(frags, u, Counted(f, Len(frags[u]), offset, BoxSize))
    BY Zenon DEF ReadMoof, AddTo, Counted
  <1>3. /\ FileIs(source, file, places, noise) /\ places # <<>>
        /\ ReadState(source, places, offset, isIsml, movie, frags, current)
        /\ \E k \in FragmentsOf(places) : offset = places[k].at
        /\ BoxBody = BodyAt(file, offset)
        /\ BoxSize = SizeAt(file, offset)
    BY <1>1, AtBoxFacts DEF IsFound
  <1>4. PICK k \in FragmentsOf(places) : offset = places[k].at
    BY <1>3
  <1> DEFINE tr == places[k].track
  <1>5. f = g
    BY <1>3 DEF ReadOf
  <1>6. g.tfhd.track_id = source.movie.tracks[tr].tkhd.track_id
    BY <1>3, <1>4, FragmentIsReadAs
  <1>7. source \in Sources /\ tr \in DOMAIN source.fragments /\ tr \in Nat
    BY <1>3, <1>4, FileFacts, FragmentStands, TracksAreNumbers
  <1> HIDE DEF g
  <1>8. /\ movie = source.movie
        /\ ReadState(source, places, NextBox(file, offset), isIsml, movie,
                     AddTo(frags, tr, Counted(g, Len(frags[tr]), offset, SizeAt(file, offset))),
                     <<tr, Len(frags[tr]) + 1>>)
    BY <1>3, <1>4, PassMoof DEF g
  <1> HIDE DEF f
  <1>9. tracks = {tr}
    <2>1. f.tfhd.track_id = source.movie.tracks[tr].tkhd.track_id
      BY <1>5, <1>6
    <2>2. movie = source.movie
      BY <1>8
    <2> HIDE DEF tr
    <2>3. TracksWithId(source.movie.tracks[tr].tkhd.track_id) = {tr}
      BY <1>7, <2>2, TrackIsFound, Zenon DEF TracksWithId
    <2> QED BY <2>1, <2>3, Zenon
  <1>10. u = tr
    BY <1>7, <1>9, FirstOfOne
  <1>11. /\ current' = <<tr, Len(frags[tr]) + 1>>
         /\ frags' = AddTo(frags, tr, Counted(g, Len(frags[tr]), offset, SizeAt(file, offset)))
    <2> HIDE DEF tracks, u
    <2> QED BY <1>2, <1>3, <1>5, <1>9, <1>10
  <1>12. ReadState(source, places, NextBox(file, offset), isIsml', movie', frags', current')
    BY <1>1, <1>8, <1>11
  <1> QED BY <1>1, <1>12, StillReading

LEMMA MdatIsTaken == IInv /\ ReadMdat => IInv'
  <1> SUFFICES ASSUME IInv, ReadMdat PROVE IInv'
    OBVIOUS
  <1>1. /\ phase = "read" /\ offset < Len(file) /\ BoxAtom = "mdat"
        /\ ~(isIsml /\ current = NoFragment)
        /\ offset' = offset + BoxSize
        /\ isIsml' = isIsml /\ movie' = movie /\ current' = current /\ error' = error
        /\ Unread
    BY DEF ReadMdat, AtBox
  <1>2. frags' = IF ~isIsml \/ current = Lost THEN frags
                 ELSE WithChunk(frags, current, offset, BoxSize)
    BY Zenon DEF ReadMdat, WithChunk
  <1>3. /\ FileIs(source, file, places, noise) /\ places # <<>>
        /\ offset \in StartsOf(source, places, noise) /\ offset \in Nat
        /\ isIsml \in BOOLEAN
        /\ ReadState(source, places, offset, isIsml, movie, frags, current)
        /\ GetAtom(file, offset + 4) = "mdat"
        /\ BoxSize = SizeAt(file, offset)
        /\ \/ \E k \in FragmentsOf(places) : offset = MdatAt(source, places[k])
           \/ \A k \in FragmentsOf(places) : offset < places[k].at
    BY <1>1, AtBoxFacts DEF IsFound
  <1>4. offset # MoovPlace(source, places)
    BY <1>3, HeaderStands
  <1>5. \A k \in FragmentsOf(places) : offset # places[k].at
    BY <1>3, FragmentStands
  <1>6. CASE isIsml = FALSE
    <2>1. ReadState(source, places, NextBox(file, offset), isIsml, movie, frags, current)
      BY <1>3, <1>4, <1>5, <1>6, PassBox
    <2> QED BY <1>1, <1>2, <1>6, <2>1, StillReading
  <1>7. CASE isIsml = TRUE /\ \E k \in FragmentsOf(places) : offset = MdatAt(source, places[k])
    <2>1. PICK k \in FragmentsOf(places) : offset = MdatAt(source, places[k])
      BY <1>7
    <2>2. /\ current = <<places[k].track, places[k].number>>
          /\ ReadState(source, places, NextBox(file, offset), isIsml, movie,
                       WithChunk(frags, current, offset, SizeAt(file, offset)), current)
      BY <1>3, <2>1, PassMdat
    <2>3. places[k].track # 0
      BY DEF FragmentsOf
    <2>4. current # Lost
      BY <2>2, <2>3 DEF Lost
    <2>5. frags' = WithChunk(frags, current, offset, SizeAt(file, offset))
      BY <1>2, <1>3, <1>7, <2>4
    <2> QED BY <1>1, <2>2, <2>5, StillReading
  <1>8. CASE \A k \in FragmentsOf(places) : offset < places[k].at
    <2>1. current = NoFragment
      <3>1. ASSUME NEW k \in 1 .. Len(places), places[k].track # 0 PROVE offset <= places[k].at
        <4>1. k \in FragmentsOf(places)
          BY <3>1 DEF FragmentsOf
        <4>2. places[k].at \in Nat
          BY <1>3, <4>1, FragmentStands
        <4> QED BY <1>3, <1>8, <4>1, <4>2
      <3>2. CurrentIsLast(source, places, offset, current)
        BY <1>3 DEF ReadState
      <3> QED BY <3>1, <3>2 DEF CurrentIsLast
    <2>2. isIsml = FALSE
      BY <1>1, <1>3, <2>1
    <2> QED BY <1>6, <2>2
  <1> QED BY <1>3, <1>6, <1>7, <1>8

LEMMA MdatIsRefused == IInv /\ RefuseMdat => IInv'
  <1> SUFFICES ASSUME IInv, RefuseMdat PROVE IInv'
    OBVIOUS
  <1>1. /\ phase = "read" /\ offset < Len(file) /\ BoxAtom = "mdat"
        /\ current = NoFragment
        /\ error' = TRUE /\ phase' = "load"
        /\ source' = source /\ file' = file /\ places' = places /\ noise' = noise
        /\ isIsml' = isIsml /\ movie' = movie /\ frags' = frags
    BY DEF RefuseMdat, AtBox, fileVars
  <1>2. /\ FileIs(source, file, places, noise) /\ places # <<>>
        /\ offset \in StartsOf(source, places, noise)
        /\ ReadState(source, places, offset, isIsml, movie, frags, current)
        /\ GetAtom(file, offset + 4) = "mdat"
    BY <1>1, AtBoxFacts
  <1>3. IsDone(source, places, isIsml, movie, frags, TRUE)
    BY <1>1, <1>2, DoneAtError
  <1>4. FileInv'
    BY <1>1, <1>2 DEF FileInv
  <1>5. IsDone(source', places', isIsml', movie', frags', error')
    BY <1>1, <1>3
  <1> QED BY <1>1, <1>4, <1>5 DEF IInv

LEMMA OtherIsRead == IInv /\ ReadOther => IInv'
  <1> SUFFICES ASSUME IInv, ReadOther PROVE IInv'
    OBVIOUS
  <1>1. /\ phase = "read" /\ offset < Len(file)
        /\ BoxAtom \notin {"ftyp", "moov", "moof", "mdat"}
        /\ offset' = offset + BoxSize
        /\ isIsml' = isIsml /\ movie' = movie /\ frags' = frags /\ current' = current
        /\ error' = error
        /\ Unread
    BY DEF ReadOther
  <1>2. /\ FileIs(source, file, places, noise) /\ places # <<>>
        /\ offset \in StartsOf(source, places, noise)
        /\ isIsml \in BOOLEAN
        /\ ReadState(source, places, offset, isIsml, movie, frags, current)
        /\ BoxAtom = GetAtom(file, offset + 4)
    BY <1>1, AtBoxFacts
  <1>3. offset # MoovPlace(source, places)
    BY <1>1, <1>2, HeaderStands
  <1>4. \A k \in FragmentsOf(places) :
            offset # places[k].at /\ offset # MdatAt(source, places[k])
    BY <1>1, <1>2, FragmentStands
  <1>5. ReadState(source, places, NextBox(file, offset), isIsml, movie, frags, current)
    BY <1>2, <1>3, <1>4, PassBox
  <1> QED BY <1>1, <1>5, StillReading

LEMMA FileIsEnded == IInv /\ EndOfFile => IInv'
  <1> SUFFICES ASSUME IInv, EndOfFile PROVE IInv'
    OBVIOUS
  <1>1. /\ phase = "read" /\ offset >= Len(file)
        /\ frags' = WithTimes(frags)
        /\ phase' = "load"
        /\ source' = source /\ file' = file /\ places' = places /\ noise' = noise
        /\ isIsml' = isIsml /\ movie' = movie /\ error' = error
    BY DEF EndOfFile, WithTimes, fileVars
  <1>2. /\ FileIs(source, file, places, noise) /\ places # <<>>
        /\ offset \in Nat /\ error = FALSE
        /\ ReadState(source, places, offset, isIsml, movie, frags, current)
    BY <1>1 DEF IInv, FileInv, ReadInv
  <1>3. IsDone(source, places, isIsml, movie, WithTimes(frags), FALSE)
    BY <1>1, <1>2, DoneAtEnd
  <1>4. FileInv'
    BY <1>1, <1>2 DEF FileInv
  <1>5. IsDone(source', places', isIsml', movie', frags', error')
    BY <1>1, <1>2, <1>3
  <1> QED BY <1>1, <1>4, <1>5 DEF IInv

-----------------------------------------------------------------------------
(* The vectors of what is served                                            *)

LEMMA FirstIsIn ==
    ASSUME NEW S \in SUBSET Nat, S # {}
    PROVE  FirstOf(S) \in S
  <1>1. IsWellFoundedOn(OpToRel(<, Nat), Nat)
    BY NatLessThanWellFounded
  <1>2. PICK x \in S : \A y \in S : <<y, x>> \notin OpToRel(<, Nat)
    BY <1>1, WFMin
  <1>3. \A y \in Nat : y < x => <<y, x>> \in OpToRel(<, Nat)
    BY DEF OpToRel
  <1>4. \A y \in S : ~(y < x)
    BY <1>2, <1>3
  <1>5. \A y \in S : x <= y
    BY <1>4
  <1> QED BY <1>5, Zenon DEF FirstOf

LEMMA ServedAreTracks ==
    ASSUME movie.tracks \in Seq(Range(movie.tracks))
    PROVE  Served \subseteq DOMAIN movie.tracks
  <1> DEFINE D == DOMAIN movie.tracks
             video == {i \in D : IsVideo(movie.tracks[i])}
             audio == {i \in D : IsAudio(movie.tracks[i])}
  <1>1. D \subseteq Nat
    BY LenProperties
  <1> HIDE DEF D
  <1>2. video \subseteq D /\ audio \subseteq D
    OBVIOUS
  <1>3. Served = (IF video = {} THEN {} ELSE {FirstOf(video)})
                 \cup (IF audio = {} THEN {} ELSE {FirstOf(audio)})
    BY DEF Served, VideoTracks, AudioTracks, D
  <1> HIDE DEF video, audio
  <1>4. /\ video # {} => FirstOf(video) \in D
        /\ audio # {} => FirstOf(audio) \in D
    BY <1>1, <1>2, FirstIsIn
  <1> QED BY <1>3, <1>4 DEF D

(* What the worker makes of the vectors is kept by all that follows.        *)
LEMMA SetIvFacts ==
    ASSUME NEW iv, NEW f, NEW v,
           "sample_encryption" \in DOMAIN f, "samples" \in DOMAIN f.sample_encryption
    PROVE  LET vectors == SetupIv(iv, f, v).sample_encryption.samples
           IN  /\ DOMAIN vectors = 1 .. f.trun.sample_count
               /\ \A j \in DOMAIN vectors : vectors[j].iv = Vector(iv, f, j)
               /\ DOMAIN SetupIv(iv, f, v) = DOMAIN f
               /\ DOMAIN SetupIv(iv, f, v).sample_encryption = DOMAIN f.sample_encryption
  <1> DEFINE w == [i \in 1 .. f.trun.sample_count |-> Vector(iv, f, i)]
             Clear(i) == AtMost(IF f.timestamp = 0 /\ i = 1 THEN HeaderBytes ELSE ClearBytes,
                                f.trun.samples[i].size)
             E(i) == IF ~v THEN <<>>
                     ELSE <<[clear |-> Clear(i),
                             encrypted |-> f.trun.samples[i].size - Clear(i)]>>
             x == [i \in DOMAIN w |-> [iv |-> w[i], entries |-> E(i)]]
             n == IF v THEN 2 ELSE 0
             g == SetupIv(iv, f, v)
  <1>1. g = [f EXCEPT !.sample_encryption =
                [@ EXCEPT !.present = TRUE, !.flags = n, !.samples = x]]
    BY Zenon DEF SetupIv, SetSampleEncryption
  <1>2. /\ DOMAIN x = 1 .. f.trun.sample_count
        /\ \A j \in DOMAIN x : x[j].iv = Vector(iv, f, j)
    <2> HIDE DEF E
    <2> QED OBVIOUS
  <1> HIDE DEF g, x, n
  <1>3. /\ DOMAIN g = DOMAIN f
        /\ g.sample_encryption = [f.sample_encryption EXCEPT !.present = TRUE, !.flags = n,
                                                             !.samples = x]
    BY <1>1
  <1>4. /\ g.sample_encryption.samples = x
        /\ DOMAIN g.sample_encryption = DOMAIN f.sample_encryption
    BY <1>3
  <1> QED BY <1>2, <1>3, <1>4 DEF g

VectorsOf(f) == f.sample_encryption.samples

WithTables(g) ==
    [g EXCEPT !.sample_encryption.present = FALSE, !.saiz.present = TRUE,
              !.saio.present = TRUE, !.tfdt.present = TRUE]

LEMMA WithTablesFacts ==
    ASSUME NEW g, {"sample_encryption", "saiz", "saio", "tfdt"} \subseteq DOMAIN g,
           {"samples", "present"} \subseteq DOMAIN g.sample_encryption
    PROVE  /\ DOMAIN WithTables(g) = DOMAIN g
           /\ VectorsOf(WithTables(g)) = VectorsOf(g)
  <1> DEFINE e == [g.sample_encryption EXCEPT !.present = FALSE]
             h == WithTables(g)
  <1>1. DOMAIN h = DOMAIN g /\ h.sample_encryption = e
    BY DEF WithTables
  <1>2. e.samples = g.sample_encryption.samples
    OBVIOUS
  <1> HIDE DEF e, h
  <1>3. VectorsOf(h) = VectorsOf(g)
    BY <1>1, <1>2 DEF VectorsOf
  <1> QED BY <1>1, <1>3 DEF h

LEMMA ProtectedFacts ==
    ASSUME NEW track, NEW f, NEW l, l.drm = "playready",
           DOMAIN f = DOMAIN NewFragment,
           DOMAIN f.sample_encryption = DOMAIN SampleEncryption
    PROVE  LET g == ProtectedFragment(track, f, l)
           IN  /\ DOMAIN g = DOMAIN NewFragment
               /\ DOMAIN VectorsOf(g) = 1 .. f.trun.sample_count
               /\ \A j \in DOMAIN VectorsOf(g) : VectorsOf(g)[j].iv = Vector(LevelIv(track), f, j)
  <1> DEFINE h == SetupIv(LevelIv(track), f, IsVideo(track))
             k == WithTables(h)
             g == ProtectedFragment(track, f, l)
  <1>1. {"sample_encryption", "saiz", "saio", "tfdt"} \subseteq DOMAIN NewFragment
    BY DEF NewFragment
  <1>2. {"samples", "present"} \subseteq DOMAIN SampleEncryption
    BY DEF SampleEncryption
  <1> HIDE DEF h
  <1>3. /\ DOMAIN VectorsOf(h) = 1 .. f.trun.sample_count
        /\ \A j \in DOMAIN VectorsOf(h) : VectorsOf(h)[j].iv = Vector(LevelIv(track), f, j)
        /\ DOMAIN h = DOMAIN f
        /\ DOMAIN h.sample_encryption = DOMAIN f.sample_encryption
    BY <1>1, <1>2, SetIvFacts DEF VectorsOf, h
  <1>4. DOMAIN k = DOMAIN h /\ VectorsOf(k) = VectorsOf(h)
    <2>1. {"sample_encryption", "saiz", "saio", "tfdt"} \subseteq DOMAIN h
      BY <1>1, <1>3
    <2>2. {"samples", "present"} \subseteq DOMAIN h.sample_encryption
      BY <1>2, <1>3
    <2> QED BY <2>1, <2>2, WithTablesFacts
  <1>5. g = h \/ g = k
    BY DEF ProtectedFragment, h, WithTables
  <1> HIDE DEF g, k
  <1> QED BY <1>3, <1>4, <1>5 DEF g

LEMMA SerializedFacts ==
    ASSUME NEW f, DOMAIN f = DOMAIN NewFragment
    PROVE  /\ DOMAIN SerializeFragment(f) = DOMAIN NewFragment
           /\ VectorsOf(SerializeFragment(f)) = VectorsOf(f)
  <1>1. "sample_encryption" \in DOMAIN f
    BY DEF NewFragment
  <1>2. \E a, b, c, d : SerializeFragment(f) =
            [f EXCEPT !.mdat_header = a, !.mdat_header_size = b, !.moof_data = c,
                      !.moof_size = d]
    BY Zenon DEF SerializeFragment
  <1>3. /\ DOMAIN SerializeFragment(f) = DOMAIN f
        /\ SerializeFragment(f).sample_encryption = f.sample_encryption
    BY <1>1, <1>2
  <1> QED BY <1>3 DEF VectorsOf

LEMMA PlacedFacts ==
    ASSUME NEW fs, NEW i \in DOMAIN fs, DOMAIN fs[i] = DOMAIN NewFragment
    PROVE  VectorsOf(PlaceFragments(fs)[i]) = VectorsOf(fs[i])
  <1> DEFINE g == fs[i]
  <1>1. "sample_encryption" \in DOMAIN g
    BY DEF NewFragment
  <1>2. \E x : PlaceFragments(fs)[i] = [g EXCEPT !.offset = x]
    BY Zenon DEF PlaceFragments
  <1> HIDE DEF g
  <1>3. PlaceFragments(fs)[i].sample_encryption = g.sample_encryption
    BY <1>1, <1>2
  <1> QED BY <1>3 DEF VectorsOf, g

LEMMA VectorIs ==
    ASSUME NEW iv \in Nat, NEW f, NEW i \in Nat, f.index = i - 1, NEW j \in Nat
    PROVE  Vector(iv, f, j) = iv + ((i - 1) * VectorShift) + (j - 1)
  <1> DEFINE x == (i - 1) * VectorShift
  <1>1. Vector(iv, f, j) = iv + x + j - 1
    BY DEF Vector
  <1> QED BY <1>1

LEMMA LevelFacts ==
    ASSUME NEW s, NEW f, NEW no, FileIs(s, f, places, no),
           IsDone(s, places, isIsml, movie, frags, error), movie # NoMovie,
           NEW tr \in Served, NEW l, l.drm = "playready"
    PROVE  LET fs == Level(tr, l).fragments
           IN  /\ tr \in DOMAIN s.fragments
               /\ DOMAIN fs \subseteq 1 .. Len(s.fragments[tr])
               /\ \A i \in DOMAIN fs : FragmentHasVectors(s, tr, i, fs[i])
  <1>1. s \in Sources /\ NumbersAreUsed(s, places)
    BY FileFacts
  <1>2. SourceIsKnown(s)
    BY <1>1, SourcesAssumption
  <1>3. /\ movie = s.movie /\ DOMAIN frags = DOMAIN s.fragments
        /\ \A t \in DOMAIN frags :
             /\ IsSeq(frags[t])
             /\ Len(frags[t]) <= NumberOf(places, t)
             /\ \A i \in DOMAIN frags[t] : IsRead(s, places, t, i, frags[t][i])
    BY DEF IsDone
  <1>4. /\ s.movie.tracks \in Seq(Range(s.movie.tracks))
        /\ DOMAIN s.fragments = DOMAIN s.movie.tracks
        /\ \A t \in DOMAIN s.movie.tracks :
             /\ DOMAIN s.movie.tracks[t] = DOMAIN NewTrack
             /\ s.movie.tracks[t].tkhd.track_id \in Nat
    BY <1>2 DEF SourceIsKnown, TrackIsKnown
  <1>5. tr \in DOMAIN s.fragments
    BY <1>3, <1>4, ServedAreTracks
  <1>6. DOMAIN frags[tr] = 1 .. Len(frags[tr]) /\ Len(frags[tr]) \in Nat
    BY <1>3, <1>5, SeqFacts
  <1>7. 1 .. Len(frags[tr]) \subseteq 1 .. Len(s.fragments[tr])
    <2>1. NumberOf(places, tr) \in 0 .. Len(s.fragments[tr])
      BY <1>1, <1>5 DEF NumbersAreUsed
    <2>2. Len(s.fragments[tr]) \in Nat
      BY <1>1, <1>5, TracksAreNumbers
    <2> QED BY <1>3, <1>5, <1>6, <2>1, <2>2
  <1> DEFINE track == [movie.tracks[tr] EXCEPT !.is_encrypted = (l.drm = "playready")]
             P(i) == ProtectedFragment(track, frags[tr][i], l)
             gs == [i \in DOMAIN frags[tr] |-> SerializeFragment(P(i))]
             fs == Level(tr, l).fragments
  <1>8. fs = PlaceFragments(gs)
    BY DEF Level, LevelOf
  <1>9. track.tkhd = s.movie.tracks[tr].tkhd
    <2>1. "tkhd" \in DOMAIN s.movie.tracks[tr]
      BY <1>4, <1>5 DEF NewTrack
    <2> QED BY <1>3, <2>1
  <1>10. LevelIv(track) = LevelIv(s.movie.tracks[tr]) /\ LevelIv(track) \in Nat
    <2> HIDE DEF track
    <2>1. LevelIv(track) = LevelIv(s.movie.tracks[tr])
      BY <1>9 DEF LevelIv
    <2>2. s.movie.tracks[tr].tkhd.track_id \in Nat /\ TrackShift \in Nat
      BY <1>4, <1>5, VectorsAssumption
    <2> QED BY <2>1, <2>2 DEF LevelIv
  <1> HIDE DEF track
  <1>11. DOMAIN gs = DOMAIN frags[tr] /\ DOMAIN PlaceFragments(gs) = DOMAIN gs
    BY DEF PlaceFragments
  <1>12. ASSUME NEW i \in DOMAIN frags[tr]
         PROVE  FragmentHasVectors(s, tr, i, PlaceFragments(gs)[i])
    <2> DEFINE g == frags[tr][i]
               v == VectorsOf(P(i))
    <2>1. IsRead(s, places, tr, i, g)
      BY <1>3, <1>5
    <2>2. /\ DOMAIN g = DOMAIN NewFragment
          /\ DOMAIN g.sample_encryption = DOMAIN SampleEncryption
          /\ g.index = i - 1
          /\ g.trun.sample_count \in 0 .. VectorShift
      BY <2>1 DEF IsRead
    <2>3. VectorShift \in Nat
      BY VectorsAssumption
    <2> HIDE DEF g
    <2>4. /\ DOMAIN P(i) = DOMAIN NewFragment
          /\ DOMAIN v = 1 .. g.trun.sample_count
          /\ \A j \in DOMAIN v : v[j].iv = Vector(LevelIv(track), g, j)
      BY <2>2, ProtectedFacts DEF g
    <2> HIDE DEF v, P
    <2>5. VectorsOf(PlaceFragments(gs)[i]) = v
      <3>1. gs[i] = SerializeFragment(P(i))
        OBVIOUS
      <3>2. DOMAIN gs[i] = DOMAIN NewFragment /\ VectorsOf(gs[i]) = v
        BY <2>4, <3>1, SerializedFacts DEF v
      <3> HIDE DEF gs
      <3> QED BY <1>11, <3>2, PlacedFacts
    <2>6. DOMAIN v \subseteq 1 .. VectorShift
      BY <2>2, <2>3, <2>4
    <2>7. \A j \in DOMAIN v : v[j].iv = VectorOf(s, tr, i, j)
      <3> SUFFICES ASSUME NEW j \in DOMAIN v PROVE v[j].iv = VectorOf(s, tr, i, j)
        OBVIOUS
      <3>1. i \in Nat /\ j \in Nat
        BY <1>6, <2>6
      <3>2. Vector(LevelIv(track), g, j)
            = LevelIv(track) + ((i - 1) * VectorShift) + (j - 1)
        BY <1>10, <2>2, <3>1, VectorIs
      <3>3. VectorOf(s, tr, i, j) = LevelIv(track) + ((i - 1) * VectorShift) + (j - 1)
        BY <1>10, Zenon DEF VectorOf
      <3> QED BY <2>4, <3>2, <3>3
    <2> HIDE DEF gs
    <2>8. PlaceFragments(gs)[i].sample_encryption.samples = v
      BY <2>5 DEF VectorsOf
    <2> QED BY <2>6, <2>7, <2>8 DEF FragmentHasVectors
  <1> HIDE DEF gs, fs
  <1> QED BY <1>5, <1>6, <1>7, <1>8, <1>11, <1>12 DEF fs

LEMMA MovieIsLoaded == \A l \in Loads : IInv /\ Load(l) => IInv'
  <1> SUFFICES ASSUME NEW l \in Loads, IInv, Load(l) PROVE IInv'
    OBVIOUS
  <1>1. /\ phase = "load" /\ phase' = "serve" /\ movie # NoMovie
        /\ load' = l
        /\ levels' = [tr \in Served |-> Level(tr, l)]
        /\ source' = source /\ file' = file /\ places' = places /\ noise' = noise
        /\ isIsml' = isIsml /\ movie' = movie /\ frags' = frags /\ error' = error
    BY DEF Load, NoMovie, fileVars, parserVars
  <1>2. /\ FileIs(source, file, places, noise) /\ places # <<>>
        /\ IsDone(source, places, isIsml, movie, frags, error)
    BY <1>1 DEF IInv, FileInv
  <1>3. FileInv'
    BY <1>1, <1>2 DEF FileInv
  <1>4. IsDone(source', places', isIsml', movie', frags', error')
    BY <1>1, <1>2
  <1>5. ASSUME l.drm = "playready" PROVE VectorsAreSet(source', levels')
    <2> DEFINE lv == [tr \in Served |-> Level(tr, l)]
    <2>1. ASSUME NEW tr \in DOMAIN lv
          PROVE  /\ tr \in DOMAIN source.fragments
                 /\ DOMAIN lv[tr].fragments \subseteq 1 .. Len(source.fragments[tr])
                 /\ \A i \in DOMAIN lv[tr].fragments :
                      FragmentHasVectors(source, tr, i, lv[tr].fragments[i])
      <3>1. tr \in Served /\ lv[tr] = Level(tr, l)
        OBVIOUS
      <3> HIDE DEF lv
      <3>2. LET fs == Level(tr, l).fragments
            IN  /\ tr \in DOMAIN source.fragments
                /\ DOMAIN fs \subseteq 1 .. Len(source.fragments[tr])
                /\ \A i \in DOMAIN fs : FragmentHasVectors(source, tr, i, fs[i])
        BY <1>1, <1>2, <1>5, <3>1, LevelFacts
      <3> QED BY <3>1, <3>2, Zenon
    <2> HIDE DEF lv
    <2>2. VectorsAreSet(source, lv)
      BY <2>1, Zenon DEF VectorsAreSet
    <2> QED BY <1>1, <2>2 DEF lv
  <1> QED BY <1>1, <1>3, <1>4, <1>5 DEF IInv

(* Of a movie that was cut nothing is claimed here but what the file is.    *)
LEMMA MovieIsCut == \A l \in Loads : IInv /\ CutAndLoad(l) => IInv'
  <1> SUFFICES ASSUME NEW l \in Loads, IInv, CutAndLoad(l) PROVE IInv'
    OBVIOUS
  <1>1. /\ phase = "load" /\ phase' = "cut"
        /\ source' = source /\ file' = file /\ places' = places /\ noise' = noise
    BY Zenon DEF CutAndLoad, fileVars
  <1>2. FileInv'
    BY <1>1 DEF IInv, FileInv
  <1> QED BY <1>1, <1>2 DEF IInv

LEMMA Stutter == IInv /\ UNCHANGED vars => IInv'
  <1> SUFFICES ASSUME IInv, UNCHANGED vars PROVE IInv'
    OBVIOUS
  <1>1. /\ source' = source /\ file' = file /\ places' = places /\ noise' = noise
        /\ phase' = phase /\ offset' = offset /\ isIsml' = isIsml /\ movie' = movie
        /\ frags' = frags /\ current' = current /\ error' = error
        /\ load' = load /\ levels' = levels
    BY DEF vars, fileVars, parserVars
  <1>2. FileInv'
    <2>1. FileInv
      BY DEF IInv
    <2> QED BY <1>1, <2>1 DEF FileInv
  <1>3. phase = "write" => NothingRead'
    BY <1>1 DEF IInv, NothingRead
  <1>4. phase = "read" => ReadInv'
    BY <1>1 DEF IInv, ReadInv
  <1>5. phase \in {"load", "serve"} =>
            IsDone(source', places', isIsml', movie', frags', error')
    BY <1>1 DEF IInv
  <1>6. phase = "serve" /\ load.drm = "playready" => VectorsAreSet(source', levels')
    BY <1>1 DEF IInv
  <1> QED BY <1>1, <1>2, <1>3, <1>4, <1>5, <1>6 DEF IInv


-----------------------------------------------------------------------------
(* Vectors are apart                                                        *)

LEMMA SameQuotient ==
    ASSUME NEW d \in Nat, NEW a \in Nat, NEW b \in Nat, NEW r \in 0 .. d - 1,
           NEW q \in 0 .. d - 1, (d * a) + r = (d * b) + q
    PROVE  a = b /\ r = q
  <1>1. ASSUME NEW x \in Nat, NEW y \in Nat, x < y
        PROVE  d * y >= (d * x) + d
    <2>1. PICK c \in Nat : y = x + 1 + c
      <3>1. (y - x) - 1 \in Nat /\ y = x + 1 + ((y - x) - 1)
        BY <1>1
      <3> QED BY <3>1
    <2>2. d * y = (d * x) + d + (d * c)
      BY <2>1
    <2>3. d * c \in Nat /\ d * x \in Nat
      OBVIOUS
    <2> QED BY <2>2, <2>3
  <1> DEFINE u == d * a
             v == d * b
  <1>2. u \in Nat /\ v \in Nat /\ u + r = v + q
    OBVIOUS
  <1>3. a < b => v >= u + d
    BY <1>1
  <1>4. b < a => u >= v + d
    BY <1>1
  <1> HIDE DEF u, v
  <1>5. a = b
    BY <1>2, <1>3, <1>4
  <1>6. u = v
    BY <1>5 DEF u, v
  <1> QED BY <1>2, <1>5, <1>6

(* Where a vector is among those of its track                               *)
PlaceAmong(i, j) == ((i - 1) * VectorShift) + (j - 1)

LEMMA AmongFacts ==
    ASSUME NEW s \in Sources, NEW tr \in DOMAIN s.fragments,
           NEW i \in 1 .. Len(s.fragments[tr]), NEW j \in 1 .. VectorShift
    PROVE  /\ i - 1 \in Nat /\ j - 1 \in 0 .. VectorShift - 1
           /\ PlaceAmong(i, j) = (VectorShift * (i - 1)) + (j - 1)
           /\ PlaceAmong(i, j) \in 0 .. TrackShift - 1
           /\ s.movie.tracks[tr].tkhd.track_id \in Nat
           /\ VectorOf(s, tr, i, j)
              = (TrackShift * s.movie.tracks[tr].tkhd.track_id) + PlaceAmong(i, j)
  <1> DEFINE n == Len(s.fragments[tr])
             id == s.movie.tracks[tr].tkhd.track_id
  <1>1. /\ VectorShift \in Nat /\ TrackShift \in Nat
        /\ n * VectorShift <= TrackShift
    BY VectorsAssumption
  <1>2. n \in Nat
    BY TracksAreNumbers
  <1>3. id \in Nat
    BY SourcesAssumption DEF SourceIsKnown, TrackIsKnown
  <1> HIDE DEF n, id
  <1>4. i \in 1 .. n
    BY DEF n
  <1>5. i - 1 \in Nat /\ j - 1 \in 0 .. VectorShift - 1 /\ n - i \in Nat
    BY <1>1, <1>2, <1>4
  <1> DEFINE x == (i - 1) * VectorShift
             z == (n - i) * VectorShift
  <1>6. x \in Nat /\ z \in Nat /\ n * VectorShift = x + VectorShift + z
    BY <1>1, <1>2, <1>4, <1>5
  <1>7. x = VectorShift * (i - 1)
    BY <1>1, <1>5
  <1> HIDE DEF x, z
  <1>8. x + (j - 1) \in 0 .. TrackShift - 1
    <2> DEFINE w == n * VectorShift
    <2>1. w \in Nat /\ w <= TrackShift /\ w = x + VectorShift + z
      BY <1>1, <1>2, <1>6
    <2> HIDE DEF w
    <2> QED BY <1>1, <1>5, <1>6, <2>1
  <1> DEFINE v == TrackShift * id
  <1>9. v \in Nat
    BY <1>1, <1>3
  <1>10. VectorOf(s, tr, i, j) = v + x + (j - 1)
    BY Zenon DEF VectorOf, LevelIv, x, id
  <1> HIDE DEF v
  <1>11. VectorOf(s, tr, i, j) = v + (x + (j - 1))
    BY <1>1, <1>5, <1>6, <1>9, <1>10
  <1>12. PlaceAmong(i, j) = x + (j - 1)
    BY Zenon DEF PlaceAmong, x
  <1> QED BY <1>3, <1>5, <1>7, <1>8, <1>11, <1>12 DEF v, id

LEMMA VectorsDiffer ==
    ASSUME NEW s \in Sources, NEW tr \in DOMAIN s.fragments, NEW us \in DOMAIN s.fragments,
           NEW i \in 1 .. Len(s.fragments[tr]), NEW j \in 1 .. VectorShift,
           NEW k \in 1 .. Len(s.fragments[us]), NEW l \in 1 .. VectorShift,
           VectorOf(s, tr, i, j) = VectorOf(s, us, k, l)
    PROVE  tr = us /\ i = k /\ j = l
  <1> DEFINE a == s.movie.tracks[tr].tkhd.track_id
             b == s.movie.tracks[us].tkhd.track_id
             x == PlaceAmong(i, j)
             y == PlaceAmong(k, l)
  <1>1. VectorShift \in Nat /\ TrackShift \in Nat
    BY VectorsAssumption
  <1>2. /\ a \in Nat /\ x \in 0 .. TrackShift - 1
        /\ VectorOf(s, tr, i, j) = (TrackShift * a) + x
        /\ i - 1 \in Nat /\ j - 1 \in 0 .. VectorShift - 1
        /\ x = (VectorShift * (i - 1)) + (j - 1)
    BY AmongFacts
  <1>3. /\ b \in Nat /\ y \in 0 .. TrackShift - 1
        /\ VectorOf(s, us, k, l) = (TrackShift * b) + y
        /\ k - 1 \in Nat /\ l - 1 \in 0 .. VectorShift - 1
        /\ y = (VectorShift * (k - 1)) + (l - 1)
    BY AmongFacts
  <1> HIDE DEF a, b, x, y
  <1>4. a = b /\ x = y
    <2>1. (TrackShift * a) + x = (TrackShift * b) + y
      BY <1>2, <1>3
    <2> QED BY <1>1, <1>2, <1>3, <2>1, SameQuotient
  <1>5. tr = us
    <2>1. /\ DOMAIN s.fragments = DOMAIN s.movie.tracks
          /\ \A t, u \in DOMAIN s.movie.tracks :
               s.movie.tracks[t].tkhd.track_id = s.movie.tracks[u].tkhd.track_id => t = u
      BY SourcesAssumption DEF SourceIsKnown
    <2> QED BY <1>4, <2>1 DEF a, b
  <1> DEFINE e == i - 1
             f == j - 1
             g == k - 1
             h == l - 1
  <1>6. e = g /\ f = h
    <2>1. /\ e \in Nat /\ g \in Nat /\ f \in 0 .. VectorShift - 1 /\ h \in 0 .. VectorShift - 1
          /\ (VectorShift * e) + f = (VectorShift * g) + h
      BY <1>2, <1>3, <1>4
    <2> HIDE DEF e, f, g, h
    <2> QED BY <1>1, <2>1, SameQuotient
  <1>7. Len(s.fragments[tr]) \in Nat /\ Len(s.fragments[us]) \in Nat
    BY TracksAreNumbers
  <1>8. i = k /\ j = l
    BY <1>1, <1>6, <1>7
  <1> QED BY <1>5, <1>8
(* The invariant holds of every recording that is read: the parser is at a  *)
(* box of it and has read what was written before that box.                 *)
THEOREM Inductive == Spec => []IInv
  <1>1. IInv /\ [Next]_vars => IInv'
    <2> SUFFICES ASSUME IInv, [Next]_vars PROVE IInv'
      OBVIOUS
    <2>1. ASSUME Next PROVE IInv'
      BY <2>1, HeaderIsWritten, FragmentIsWritten, NoiseIsWritten, RecordingStops, FtypIsRead,
         MoovIsTaken, MoofIsTaken, MdatIsTaken, MdatIsRefused, OtherIsRead, FileIsEnded,
         MovieIsLoaded, MovieIsCut, Zenon DEF Next
    <2> QED BY <2>1, Stutter
  <1> QED BY <1>1, InitIsRight, PTL DEF Spec

(* Whatever is between them, the parser finds in a file the header and the  *)
(* fragments that were written, in order, each with its number, its samples *)
(* and the time at which it starts, and its chunk if the file is one of     *)
(* fragments (gss_isom_parser_parse_file, gss_isom_parser_fixup).           *)
THEOREM FileIsReadRight == Spec => []FileIsRead
  <1>1. IInv => FileIsRead
    <2> SUFFICES ASSUME IInv, phase = "load", movie # NoMovie
                 PROVE  FileIsRead
      BY DEF FileIsRead
    <2>1. IsDone(source, places, isIsml, movie, frags, error)
      BY DEF IInv
    <2>2. movie = source.movie
      BY <2>1 DEF IsDone
    <2>3. ASSUME NEW tr \in DOMAIN frags
          PROVE  /\ ~error => Len(frags[tr]) = WrittenOf(tr)
                 /\ \A i \in DOMAIN frags[tr] :
                      /\ IsRead(source, places, tr, i, frags[tr][i])
                      /\ ~error => frags[tr][i].timestamp = StartOf(source.timing[tr], i)
                      /\ isIsml => HasChunk(source, places, tr, i, frags[tr][i])
      BY <2>1, Zenon DEF IsDone, WrittenOf, NumberOf
    <2>4. \A tr, n : PlaceOf(tr, n) = PlaceIn(places, tr, n)
      BY Zenon DEF PlaceOf, PlaceIn
    <2> QED BY <2>2, <2>3, <2>4, ZenonT(40) DEF FileIsRead, IsRead, HasChunk, StartOf
  <1> QED BY <1>1, Inductive, PTL

(* No two encrypted bytes of what is served for a file are made with the    *)
(* same place of the same key stream (gss_playready_setup_iv): the vectors  *)
(* count the samples of a fragment, the fragments of a track and the        *)
(* tracks, each within the room that is left for it.                        *)
THEOREM VectorsAreFreshRight == Spec => []VectorsAreFresh
  <1>1. IInv => VectorsAreFresh
    <2> DEFINE Of(tr, i) ==
                   LET f == levels[tr].fragments[i]
                       vectors == f.sample_encryption.samples
                   IN  {<<tr, i, j, vectors[j].iv>> : j \in {k \in DOMAIN vectors :
                           EncryptedCount(vectors[k], f.trun.samples[k]) > 0}}
               Uses == UNION {UNION {Of(tr, i) : i \in DOMAIN levels[tr].fragments} :
                                 tr \in DOMAIN levels}
    <2> SUFFICES ASSUME IInv, phase = "serve", load.drm = "playready",
                        NEW u \in Uses, NEW v \in Uses, u[4] = v[4]
                 PROVE  u = v
      BY Zenon DEF VectorsAreFresh
    <2>1. VectorsAreSet(source, levels) /\ source \in Sources
      BY DEF IInv, FileInv, FileIs
    <2>2. ASSUME NEW w \in Uses
          PROVE  \E tr, i, j :
                    /\ tr \in DOMAIN source.fragments
                    /\ i \in 1 .. Len(source.fragments[tr])
                    /\ j \in 1 .. VectorShift
                    /\ w = <<tr, i, j, VectorOf(source, tr, i, j)>>
      <3>1. PICK tr \in DOMAIN levels : w \in UNION {Of(tr, i) : i \in DOMAIN levels[tr].fragments}
        BY Zenon
      <3>2. PICK i \in DOMAIN levels[tr].fragments : w \in Of(tr, i)
        BY <3>1, Zenon
      <3> DEFINE vectors == levels[tr].fragments[i].sample_encryption.samples
      <3>3. PICK j \in DOMAIN vectors : w = <<tr, i, j, vectors[j].iv>>
        BY <3>2, Zenon
      <3> HIDE DEF Uses, Of
      <3>4. /\ tr \in DOMAIN source.fragments
            /\ i \in 1 .. Len(source.fragments[tr])
            /\ FragmentHasVectors(source, tr, i, levels[tr].fragments[i])
        BY <2>1, Zenon DEF VectorsAreSet
      <3>5. j \in 1 .. VectorShift /\ vectors[j].iv = VectorOf(source, tr, i, j)
        BY <3>4, Zenon DEF FragmentHasVectors
      <3> HIDE DEF vectors
      <3> QED BY <3>3, <3>4, <3>5
    <2> HIDE DEF Uses, Of
    <2>3. PICK tr, i, j :
              /\ tr \in DOMAIN source.fragments
              /\ i \in 1 .. Len(source.fragments[tr])
              /\ j \in 1 .. VectorShift
              /\ u = <<tr, i, j, VectorOf(source, tr, i, j)>>
      BY <2>2, Zenon
    <2>4. PICK us, k, l :
              /\ us \in DOMAIN source.fragments
              /\ k \in 1 .. Len(source.fragments[us])
              /\ l \in 1 .. VectorShift
              /\ v = <<us, k, l, VectorOf(source, us, k, l)>>
      BY <2>2, Zenon
    <2>5. VectorOf(source, tr, i, j) = VectorOf(source, us, k, l)
      BY <2>3, <2>4
    <2>6. tr = us /\ i = k /\ j = l
      BY <2>1, <2>3, <2>4, <2>5, VectorsDiffer
    <2> QED BY <2>3, <2>4, <2>6
  <1> QED BY <1>1, Inductive, PTL
-----------------------------------------------------------------------------
(* Induction over numbers, for sets                                         *)

LEMMA Least ==
    ASSUME NEW T \in SUBSET Nat, T # {}
    PROVE  \E x \in T : \A y \in T : x <= y
  <1>1. IsWellFoundedOn(OpToRel(<, Nat), Nat)
    BY NatLessThanWellFounded
  <1>2. PICK x \in T : \A y \in T : <<y, x>> \notin OpToRel(<, Nat)
    BY <1>1, WFMin
  <1>3. \A y \in Nat : y < x => <<y, x>> \in OpToRel(<, Nat)
    BY DEF OpToRel
  <1>4. \A y \in T : ~(y < x)
    BY <1>2, <1>3
  <1> QED BY <1>4

LEMMA SetInduction ==
    ASSUME NEW T, 0 \in T, \A n \in Nat : n \in T => n + 1 \in T
    PROVE  Nat \subseteq T
  <1> SUFFICES ASSUME NEW m \in Nat, m \notin T PROVE FALSE
    OBVIOUS
  <1>1. PICK x \in Nat \ T : \A y \in Nat \ T : x <= y
    BY Least
  <1>2. x # 0 /\ x - 1 \in Nat
    BY <1>1
  <1>3. x - 1 \in T
    BY <1>1, <1>2
  <1> QED BY <1>1, <1>2, <1>3

-----------------------------------------------------------------------------
(* Sequences behind each other                                              *)

AreSeqs(s) == IsSeq(s) /\ \A i \in 1 .. Len(s) : IsSeq(s[i])

IsFlat(g, s, n) == g = [i \in 1 .. n |-> IF i = 1 THEN s[i] ELSE g[i - 1] \o s[i]]

LEMMA FlatExists ==
    ASSUME NEW s, NEW n \in Nat
    PROVE  \E g : IsFlat(g, s, n)
  <1> DEFINE T == {m \in Nat : \E g : IsFlat(g, s, m)}
  <1>1. 0 \in T
    <2> DEFINE g == [i \in 1 .. 0 |-> 0]
    <2>1. 1 .. 0 = {}
      OBVIOUS
    <2>2. IsFlat(g, s, 0)
      BY <2>1 DEF IsFlat
    <2> QED BY <2>2
  <1>2. ASSUME NEW m \in Nat, m \in T PROVE m + 1 \in T
    <2>1. PICK f : IsFlat(f, s, m)
      BY <1>2
    <2> DEFINE last == IF m = 0 THEN s[1] ELSE f[m] \o s[m + 1]
               g == [i \in 1 .. m + 1 |-> IF i \in 1 .. m THEN f[i] ELSE last]
               h == [i \in 1 .. m + 1 |-> IF i = 1 THEN s[i] ELSE g[i - 1] \o s[i]]
    <2>2. \A i \in 1 .. m : f[i] = IF i = 1 THEN s[i] ELSE f[i - 1] \o s[i]
      BY <2>1 DEF IsFlat
    <2>3. ASSUME NEW i \in 1 .. m + 1 PROVE g[i] = h[i]
      <3> HIDE DEF last
      <3>1. CASE i \in 1 .. m /\ i = 1
        BY <2>2, <3>1
      <3>2. CASE i \in 1 .. m /\ i # 1
        <4>1. i - 1 \in 1 .. m /\ i - 1 \in 1 .. m + 1
          BY <3>2
        <4>2. g[i] = f[i] /\ g[i - 1] = f[i - 1]
          BY <3>2, <4>1
        <4> QED BY <2>2, <3>2, <4>2
      <3>3. CASE i = m + 1 /\ m = 0
        BY <3>3 DEF last
      <3>4. CASE i = m + 1 /\ m # 0
        <4>1. i \notin 1 .. m /\ i # 1 /\ i - 1 = m /\ m \in 1 .. m /\ m \in 1 .. m + 1
          BY <3>4
        <4>2. g[i] = last /\ g[m] = f[m]
          BY <4>1
        <4>3. h[i] = g[m] \o s[m + 1]
          BY <3>4, <4>1
        <4> QED BY <3>4, <4>2, <4>3 DEF last
      <3> QED BY <3>1, <3>2, <3>3, <3>4
    <2>4. g = h
      BY <2>3
    <2> HIDE DEF g
    <2>5. IsFlat(g, s, m + 1)
      BY <2>4 DEF IsFlat
    <2> QED BY <2>5
  <1> HIDE DEF T
  <1>3. n \in T
    BY <1>1, <1>2, SetInduction
  <1> QED BY <1>3 DEF T

LEMMA FlatIs ==
    ASSUME NEW s, IsSeq(s), Len(s) # 0
    PROVE  \E g : IsFlat(g, s, Len(s)) /\ FlattenSeq(s) = g[Len(s)]
  <1> DEFINE n == Len(s)
             g == CHOOSE f : IsFlat(f, s, n)
  <1>1. n \in Nat
    BY SeqFacts
  <1> HIDE DEF n
  <1>2. IsFlat(g, s, n)
    BY <1>1, FlatExists
  <1>3. FlattenSeq(s) = g[n]
    BY Zenon DEF FlattenSeq, IsFlat, n
  <1> QED BY <1>2, <1>3 DEF n

LEMMA FlatOne ==
    ASSUME NEW a
    PROVE  FlattenSeq(<<a>>) = a
  <1> DEFINE s == <<a>>
  <1>1. IsSeq(s) /\ Len(s) = 1 /\ s[1] = a
    BY DEF IsSeq, Range
  <1> HIDE DEF s
  <1>2. PICK g : IsFlat(g, s, Len(s)) /\ FlattenSeq(s) = g[Len(s)]
    <2>1. IsSeq(s) /\ Len(s) # 0
      BY <1>1
    <2> QED BY ONLY <2>1, FlatIs
  <1>3. g[1] = s[1]
    BY <1>1, <1>2 DEF IsFlat
  <1>4. FlattenSeq(s) = a
    BY <1>1, <1>2, <1>3
  <1> QED BY <1>4 DEF s

(* Where the sequences stand that are put behind each other: h says where   *)
(* each one begins and, at last, where all end.                             *)
Begins(h, s) ==
    /\ h[1] = 0
    /\ \A i \in 1 .. Len(s) : h[i + 1] = h[i] + Len(s[i])

LEMMA FlatFacts ==
    ASSUME NEW s, AreSeqs(s), NEW h, Begins(h, s)
    PROVE  /\ IsSeq(FlattenSeq(s))
           /\ Len(FlattenSeq(s)) = h[Len(s) + 1]
           /\ \A i \in 1 .. Len(s) : \A x \in 1 .. Len(s[i]) :
                FlattenSeq(s)[h[i] + x] = s[i][x]
  <1> DEFINE n == Len(s)
  <1>1. IsSeq(s) /\ n \in Nat /\ h[1] = 0
    BY SeqFacts DEF AreSeqs, Begins
  <1>2. \A i \in 1 .. n : IsSeq(s[i]) /\ Len(s[i]) \in Nat
    BY SeqFacts DEF AreSeqs
  <1>3. \A i \in 1 .. n : h[i + 1] = h[i] + Len(s[i])
    BY DEF Begins
  <1>4. CASE n = 0
    <2>1. FlattenSeq(s) = s
      BY <1>4 DEF FlattenSeq
    <2> QED BY <1>1, <1>4, <2>1
  <1>5. CASE n # 0
    <2> HIDE DEF n
    <2>1. PICK g : IsFlat(g, s, n) /\ FlattenSeq(s) = g[n]
      BY <1>1, <1>5, FlatIs DEF n
    <2>2. \A i \in 1 .. n : g[i] = IF i = 1 THEN s[i] ELSE g[i - 1] \o s[i]
      BY <2>1 DEF IsFlat
    <2> DEFINE Right(k) == /\ IsSeq(g[k]) /\ Len(g[k]) = h[k + 1] /\ h[k + 1] \in Nat
                           /\ \A i \in 1 .. k : \A x \in 1 .. Len(s[i]) :
                                 g[k][h[i] + x] = s[i][x]
                           /\ \A i \in 1 .. k : h[i] \in Nat /\ h[i] + Len(s[i]) <= h[k + 1]
               T == {k \in Nat : k + 1 <= n => Right(k + 1)}
    <2>3. 0 \in T
      <3>1. 1 \in 1 .. n /\ g[1] = s[1] /\ 0 + 1 = 1
        BY <1>1, <1>5, <2>2
      <3>2. h[1 + 1] = h[1] + Len(s[1]) /\ IsSeq(s[1]) /\ Len(s[1]) \in Nat
        BY <1>2, <1>3, <3>1
      <3>3. Right(1)
        BY <1>1, <3>1, <3>2
      <3> HIDE DEF Right
      <3> QED BY <3>1, <3>3
    <2>4. ASSUME NEW k \in Nat, k \in T PROVE k + 1 \in T
      <3> SUFFICES ASSUME k + 2 <= n PROVE Right(k + 2)
        <4> HIDE DEF Right
        <4> QED BY <1>1
      <3> DEFINE m == k + 1
      <3>1. Right(m) /\ m \in Nat /\ m >= 1 /\ m + 1 <= n
        <4> HIDE DEF Right
        <4> QED BY <1>1, <2>4
      <3>2. k + 2 = m + 1
        OBVIOUS
      <3> HIDE DEF m
      <3>3. m + 1 \in 1 .. n /\ m + 1 # 1 /\ (m + 1) - 1 = m /\ m \in 1 .. m
        BY <1>1, <3>1
      <3>4. g[m + 1] = g[m] \o s[m + 1]
        BY <2>2, <3>3
      <3>5. h[(m + 1) + 1] = h[m + 1] + Len(s[m + 1]) /\ IsSeq(s[m + 1]) /\ Len(s[m + 1]) \in Nat
        BY <1>2, <1>3, <3>3
      <3>6. /\ IsSeq(g[m + 1]) /\ Len(g[m + 1]) = Len(g[m]) + Len(s[m + 1])
            /\ \A x \in 1 .. Len(g[m]) : g[m + 1][x] = g[m][x]
            /\ \A x \in 1 .. Len(s[m + 1]) : g[m + 1][Len(g[m]) + x] = s[m + 1][x]
        <4> DEFINE a == g[m]
                   b == s[m + 1]
        <4>1. IsSeq(a) /\ IsSeq(b) /\ g[m + 1] = a \o b
          BY <3>1, <3>4, <3>5
        <4> HIDE DEF a, b
        <4>2. /\ IsSeq(a \o b) /\ Len(a \o b) = Len(a) + Len(b)
              /\ \A x \in 1 .. Len(a) : (a \o b)[x] = a[x]
              /\ \A x \in 1 .. Len(b) : (a \o b)[Len(a) + x] = b[x]
          BY <4>1, CatFacts
        <4> QED BY <4>1, <4>2, Zenon DEF a, b
      <3>7. ASSUME NEW i \in 1 .. m + 1
            PROVE  /\ h[i] \in Nat /\ h[i] + Len(s[i]) <= h[(m + 1) + 1]
                   /\ \A x \in 1 .. Len(s[i]) : g[m + 1][h[i] + x] = s[i][x]
        <4>1. CASE i \in 1 .. m
          <5>1. /\ h[i] \in Nat /\ h[i] + Len(s[i]) <= h[m + 1] /\ Len(s[i]) \in Nat
                /\ Len(g[m]) = h[m + 1] /\ h[m + 1] \in Nat
            BY <1>2, <3>1, <3>3, <4>1
          <5>2. ASSUME NEW x \in 1 .. Len(s[i]) PROVE g[m + 1][h[i] + x] = s[i][x]
            <6>1. h[i] + x \in 1 .. Len(g[m])
              BY <5>1
            <6> QED BY <3>1, <3>6, <4>1, <6>1
          <5>3. h[i] + Len(s[i]) <= h[(m + 1) + 1]
            BY <3>5, <5>1
          <5> QED BY <5>1, <5>2, <5>3, Zenon
        <4>2. CASE i = m + 1
          BY <3>1, <3>5, <3>6, <4>2
        <4> QED BY <3>1, <4>1, <4>2
      <3>8. h[(m + 1) + 1] \in Nat /\ Len(g[m + 1]) = h[(m + 1) + 1]
        BY <3>1, <3>5, <3>6
      <3>9. Right(m + 1)
        BY <3>6, <3>7, <3>8, Zenon
      <3> HIDE DEF Right
      <3> QED BY <3>2, <3>9
    <2> HIDE DEF Right
    <2>5. n - 1 \in Nat /\ (n - 1) + 1 = n
      BY <1>1, <1>5
    <2> DEFINE j == n - 1
    <2> HIDE DEF T
    <2>6. j \in T
      BY <2>3, <2>4, <2>5, SetInduction
    <2>7. Right(n)
      BY <2>5, <2>6 DEF T
    <2> QED BY <2>1, <2>7 DEF Right, n
  <1> QED BY <1>4, <1>5

LEMMA BeginsExists ==
    ASSUME NEW s, AreSeqs(s)
    PROVE  \E h : Begins(h, s)
  <1> DEFINE n == Len(s)
  <1>1. n \in Nat /\ \A i \in 1 .. n : Len(s[i]) \in Nat
    BY SeqFacts DEF AreSeqs
  <1> HIDE DEF n
  <1> DEFINE B(h, m) == h[1] = 0 /\ \A i \in 1 .. m : h[i + 1] = h[i] + Len(s[i])
             T == {m \in Nat : \E h : B(h, m)}
  <1>2. 0 \in T
    <2>1. B([i \in {1} |-> 0], 0)
      OBVIOUS
    <2> QED BY <2>1
  <1>3. ASSUME NEW m \in Nat, m \in T PROVE m + 1 \in T
    <2>1. PICK f : B(f, m)
      BY <1>3
    <2> DEFINE h == [i \in 1 .. m + 2 |-> IF i = m + 2 THEN f[m + 1] + Len(s[m + 1]) ELSE f[i]]
    <2>2. h[1] = 0
      BY <2>1
    <2>3. ASSUME NEW i \in 1 .. m + 1 PROVE h[i + 1] = h[i] + Len(s[i])
      <3>1. i \in 1 .. m + 2 /\ i + 1 \in 1 .. m + 2 /\ i # m + 2
        OBVIOUS
      <3>2. CASE i = m + 1
        <4>1. i + 1 = m + 2
          BY <3>2
        <4> QED BY <3>1, <3>2, <4>1
      <3>3. CASE i # m + 1
        <4>1. i + 1 # m + 2 /\ i \in 1 .. m
          BY <3>3
        <4>2. h[i + 1] = f[i + 1] /\ h[i] = f[i]
          BY <3>1, <4>1
        <4> QED BY <2>1, <4>1, <4>2
      <3> QED BY <3>2, <3>3
    <2> HIDE DEF h
    <2>4. B(h, m + 1)
      BY <2>2, <2>3
    <2> QED BY <2>4
  <1> HIDE DEF T
  <1>4. n \in T
    BY <1>1, <1>2, <1>3, SetInduction
  <1> QED BY <1>4 DEF T, Begins, n

LEMMA FlatIsSeq ==
    ASSUME NEW s, AreSeqs(s)
    PROVE  IsSeq(FlattenSeq(s))
  BY BeginsExists, FlatFacts

(* An image of a sequence, or of the numbers up to n, is a sequence.        *)
LEMMA ImageIsSeqs ==
    ASSUME NEW n \in Nat, NEW s, s = [i \in 1 .. n |-> s[i]], \A i \in 1 .. n : IsSeq(s[i])
    PROVE  AreSeqs(s) /\ Len(s) = n
  BY SeqOfFunction DEF AreSeqs

-----------------------------------------------------------------------------
(* What is written is a sequence of bytes.                                  *)

LEMMA CatIsSeq ==
    \A a, b : IsSeq(a) /\ IsSeq(b) => IsSeq(a \o b)
  BY CatFacts

LEMMA PutFacts ==
    ASSUME NEW n \in Nat, NEW v
    PROVE  IsSeq(Put(n, v)) /\ Len(Put(n, v)) = n
  <1> DEFINE h == Put(n, v)
  <1>1. h = [i \in 1 .. n |-> h[i]]
    BY DEF Put, Zeros
  <1> HIDE DEF h
  <1> QED BY <1>1, SeqOfFunction DEF h

LEMMA ZerosFacts ==
    ASSUME NEW n \in Nat
    PROVE  IsSeq(Zeros(n)) /\ Len(Zeros(n)) = n
  BY PutFacts DEF Put

LEMMA AtomFacts ==
    ASSUME NEW a
    PROVE  IsSeq(PutAtom(a)) /\ Len(PutAtom(a)) = 4
  <1> DEFINE h == PutAtom(a)
  <1>1. h = [i \in 1 .. 4 |-> h[i]]
    BY DEF PutAtom
  <1> HIDE DEF h
  <1> QED BY <1>1, SeqOfFunction DEF h

(* A number is read as it was written.                                      *)
LEMMA GetPut ==
    ASSUME NEW b, NEW p \in Nat, NEW n \in Nat, n > 0, NEW v \in Int,
           \A i \in 1 .. n : b[p + i] = Put(n, v)[i]
    PROVE  Get(b, p, n) = v
  <1>1. CASE v = 0
    <2>1. ASSUME NEW i \in p + 1 .. p + n PROVE b[i] = ZeroByte
      <3>1. i - p \in 1 .. n /\ p + (i - p) = i
        OBVIOUS
      <3>2. Put(n, v)[i - p] = ZeroByte
        BY <1>1, <3>1 DEF Put, Zeros
      <3> QED BY <3>1, <3>2
    <2> QED BY <1>1, <2>1 DEF Get
  <1>2. CASE v # 0
    <2>1. \A i \in 1 .. n : b[p + i] = <<n, i, v>>
      BY <1>2 DEF Put
    <2>2. p + 1 \in p + 1 .. p + n /\ b[p + 1] # ZeroByte
      BY <1>2, <2>1 DEF ZeroByte
    <2>3. \A i \in 1 .. n : b[p + i][1] = n /\ b[p + i][2] = i /\ b[p + i][3] = v
      BY <2>1
    <2> QED BY <2>2, <2>3 DEF Get
  <1> QED BY <1>1, <1>2

LEMMA GetAtomPut ==
    ASSUME NEW b, NEW p \in Nat, NEW a, \A i \in 1 .. 4 : b[p + i] = PutAtom(a)[i]
    PROVE  GetAtom(b, p) = a
  <1>1. \A i \in 1 .. 4 : b[p + i] = <<0, i, a>>
    BY DEF PutAtom
  <1> QED BY <1>1 DEF GetAtom

LEMMA ThreeParts ==
    ASSUME NEW h, NEW t, NEW s, IsSeq(h), IsSeq(t), IsSeq(s)
    PROVE  /\ IsSeq(h \o t \o s)
           /\ Len(h \o t \o s) = Len(h) + Len(t) + Len(s)
           /\ \A i \in 1 .. Len(h) : (h \o t \o s)[i] = h[i]
           /\ \A i \in 1 .. Len(t) : (h \o t \o s)[Len(h) + i] = t[i]
           /\ \A i \in 1 .. Len(s) : (h \o t \o s)[Len(h) + Len(t) + i] = s[i]
  <1> DEFINE u == h \o t
             b == u \o s
  <1>1. Len(h) \in Nat /\ Len(t) \in Nat /\ Len(s) \in Nat
    BY SeqFacts
  <1>2. /\ IsSeq(u) /\ Len(u) = Len(h) + Len(t)
        /\ \A i \in 1 .. Len(h) : u[i] = h[i]
        /\ \A i \in 1 .. Len(t) : u[Len(h) + i] = t[i]
    BY CatFacts
  <1> HIDE DEF u
  <1>3. /\ IsSeq(b) /\ Len(b) = Len(u) + Len(s)
        /\ \A i \in 1 .. Len(u) : b[i] = u[i]
        /\ \A i \in 1 .. Len(s) : b[Len(u) + i] = s[i]
    BY <1>2, CatFacts
  <1> HIDE DEF b
  <1>4. /\ IsSeq(b) /\ Len(b) = Len(h) + Len(t) + Len(s)
        /\ \A i \in 1 .. Len(h) : b[i] = h[i]
        /\ \A i \in 1 .. Len(t) : b[Len(h) + i] = t[i]
        /\ \A i \in 1 .. Len(s) : b[Len(h) + Len(t) + i] = s[i]
    BY <1>1, <1>2, <1>3
  <1> QED BY <1>4, Zenon DEF b, u

LEMMA BoxWritten ==
    ASSUME NEW a, NEW body, IsSeq(body)
    PROVE  /\ IsSeq(Box(a, body))
           /\ Len(Box(a, body)) = Len(body) + 8
           /\ Get(Box(a, body), 0, 4) = Len(body) + 8
           /\ GetAtom(Box(a, body), 4) = a
           /\ \A x \in 1 .. Len(body) : Box(a, body)[8 + x] = body[x]
  <1> DEFINE n == Len(body) + 8
             b == Box(a, body)
  <1>1. n \in Nat /\ Len(body) \in Nat
    BY SeqFacts
  <1> HIDE DEF n
  <1>2. PICK h, t : h = Put(4, n) /\ t = PutAtom(a)
    OBVIOUS
  <1>3. IsSeq(h) /\ Len(h) = 4 /\ IsSeq(t) /\ Len(t) = 4
    BY <1>1, <1>2, PutFacts, AtomFacts
  <1>4. /\ IsSeq(b)
        /\ Len(b) = Len(h) + Len(t) + Len(body)
        /\ \A i \in 1 .. Len(h) : b[i] = h[i]
        /\ \A i \in 1 .. Len(t) : b[Len(h) + i] = t[i]
        /\ \A i \in 1 .. Len(body) : b[Len(h) + Len(t) + i] = body[i]
    <2> DEFINE c == h \o t \o body
    <2>1. /\ IsSeq(c)
          /\ Len(c) = Len(h) + Len(t) + Len(body)
          /\ \A i \in 1 .. Len(h) : c[i] = h[i]
          /\ \A i \in 1 .. Len(t) : c[Len(h) + i] = t[i]
          /\ \A i \in 1 .. Len(body) : c[Len(h) + Len(t) + i] = body[i]
      <3>1. IsSeq(h) /\ IsSeq(t)
        BY <1>3
      <3> QED BY <3>1, ThreeParts
    <2>2. b = c
      BY <1>2, Zenon DEF Box, n
    <2> HIDE DEF c, b
    <2> QED BY <2>1, <2>2
  <1> HIDE DEF b
  <1>5. /\ Len(b) = 8 + Len(body)
        /\ \A i \in 1 .. Len(body) : b[8 + i] = body[i]
        /\ \A i \in 1 .. 4 : b[0 + i] = h[i] /\ b[4 + i] = t[i]
    BY <1>1, <1>3, <1>4
  <1>6. Get(b, 0, 4) = n
    <2>1. \A i \in 1 .. 4 : b[0 + i] = Put(4, n)[i]
      BY <1>2, <1>5
    <2>2. n \in Int
      BY <1>1
    <2>3. 0 \in Nat /\ 4 \in Nat /\ 4 > 0
      OBVIOUS
    <2> QED BY <2>1, <2>2, <2>3, GetPut, Zenon
  <1>7. GetAtom(b, 4) = a
    BY <1>2, <1>5, GetAtomPut
  <1> QED BY <1>1, <1>4, <1>5, <1>6, <1>7 DEF n, b

LEMMA BoxIsSeq ==
    \A a, body : IsSeq(body) => IsSeq(Box(a, body))
  BY BoxWritten

LEMMA NothingIsSeq == IsSeq(<<>>) /\ Len(<<>>) = 0
  BY DEF IsSeq

IsLayout(layout) == IsSeq(layout) /\ \A i \in 1 .. Len(layout) : layout[i][2] \in Nat

LEMMA FieldFacts ==
    ASSUME NEW box, NEW field, field[2] \in Nat
    PROVE  /\ IsSeq(WriteField(box, field))
           /\ Len(WriteField(box, field)) =
                IF field[1] = "" THEN field[2] ELSE Width(field)
  BY PutFacts, ZerosFacts, AtomFacts DEF WriteField, Width

LEMMA LayoutCat ==
    \A a, b : IsLayout(a) /\ IsLayout(b) => IsLayout(a \o b)
  <1> SUFFICES ASSUME NEW a, NEW b, IsLayout(a), IsLayout(b) PROVE IsLayout(a \o b)
    OBVIOUS
  <1>1. /\ IsSeq(a \o b) /\ Len(a \o b) = Len(a) + Len(b)
        /\ \A i \in 1 .. Len(a) : (a \o b)[i] = a[i]
        /\ \A i \in 1 .. Len(b) : (a \o b)[Len(a) + i] = b[i]
    BY CatFacts DEF IsLayout
  <1>2. Len(a) \in Nat /\ Len(b) \in Nat
    BY SeqFacts DEF IsLayout
  <1>3. ASSUME NEW i \in 1 .. Len(a) + Len(b) PROVE (a \o b)[i][2] \in Nat
    <2>1. CASE i \in 1 .. Len(a)
      BY <1>1, <2>1 DEF IsLayout
    <2>2. CASE i \notin 1 .. Len(a)
      <3>1. i - Len(a) \in 1 .. Len(b) /\ Len(a) + (i - Len(a)) = i
        BY <1>2, <2>2
      <3> QED BY <1>1, <3>1 DEF IsLayout
    <2> QED BY <2>1, <2>2
  <1> QED BY <1>1, <1>3 DEF IsLayout

LEMMA WrittenAre ==
    ASSUME NEW box, NEW layout, IsLayout(layout)
    PROVE  LET s == [i \in DOMAIN layout |-> WriteField(box, layout[i])]
           IN  AreSeqs(s) /\ Len(s) = Len(layout)
  <1> DEFINE s == [i \in DOMAIN layout |-> WriteField(box, layout[i])]
             n == Len(layout)
  <1>1. n \in Nat /\ DOMAIN layout = 1 .. n /\ \A i \in 1 .. n : layout[i][2] \in Nat
    BY SeqFacts DEF IsLayout
  <1> HIDE DEF n
  <1>2. \A i \in 1 .. n : s[i] = WriteField(box, layout[i])
    BY <1>1
  <1>3. \A i \in 1 .. n : IsSeq(s[i])
    BY <1>1, <1>2, FieldFacts
  <1>4. s = [i \in 1 .. n |-> s[i]]
    BY <1>1
  <1> HIDE DEF s
  <1> QED BY <1>1, <1>3, <1>4, ImageIsSeqs DEF s, n

LEMMA WriteIsSeq ==
    ASSUME NEW box, NEW layout, IsLayout(layout)
    PROVE  IsSeq(Write(box, layout))
  BY WrittenAre, FlatIsSeq, Zenon DEF Write

LEMMA TableIsSeq ==
    ASSUME NEW entries, IsSeq(entries), NEW layout, IsLayout(layout)
    PROVE  IsSeq(WriteTable(entries, layout))
  <1> DEFINE s == [i \in DOMAIN entries |-> Write(entries[i], layout)]
             n == Len(entries)
  <1>1. n \in Nat /\ DOMAIN entries = 1 .. n
    BY SeqFacts
  <1> HIDE DEF n
  <1>2. \A i \in 1 .. n : s[i] = Write(entries[i], layout)
    BY <1>1
  <1>3. \A i \in 1 .. n : IsSeq(s[i])
    BY <1>2, WriteIsSeq
  <1>4. s = [i \in 1 .. n |-> s[i]]
    BY <1>1
  <1>5. WriteTable(entries, layout) = FlattenSeq(s)
    BY DEF WriteTable
  <1> HIDE DEF s
  <1> QED BY <1>1, <1>3, <1>4, <1>5, ImageIsSeqs, FlatIsSeq

-----------------------------------------------------------------------------
(* The layouts                                                              *)

LEMMA LayoutOf ==
    ASSUME NEW n \in Nat, NEW h, h = [i \in 1 .. n |-> h[i]], \A i \in 1 .. n : h[i][2] \in Nat
    PROVE  IsLayout(h)
  BY SeqOfFunction DEF IsLayout

LEMMA Layout1 ==
    \A a : a[2] \in Nat => IsLayout(<<a>>)
  <1> SUFFICES ASSUME NEW a, a[2] \in Nat PROVE IsLayout(<<a>>)
    OBVIOUS
  <1> DEFINE h == <<a>>
  <1>1. h = [i \in 1 .. 1 |-> h[i]] /\ \A i \in 1 .. 1 : h[i][2] \in Nat
    OBVIOUS
  <1> HIDE DEF h
  <1> QED BY <1>1, LayoutOf DEF h

LEMMA Layout2 ==
    \A a, b : a[2] \in Nat /\ b[2] \in Nat => IsLayout(<<a, b>>)
  <1> SUFFICES ASSUME NEW a, NEW b, a[2] \in Nat, b[2] \in Nat PROVE IsLayout(<<a, b>>)
    OBVIOUS
  <1> DEFINE h == <<a, b>>
  <1>1. h = [i \in 1 .. 2 |-> h[i]] /\ h[1] = a /\ h[2] = b
    OBVIOUS
  <1> HIDE DEF h
  <1>2. \A i \in 1 .. 2 : h[i][2] \in Nat
    BY <1>1
  <1> QED BY <1>1, <1>2, LayoutOf DEF h

LEMMA Layout3 ==
    \A a, b, c : a[2] \in Nat /\ b[2] \in Nat /\ c[2] \in Nat => IsLayout(<<a, b, c>>)
  <1> SUFFICES ASSUME NEW a, NEW b, NEW c, a[2] \in Nat, b[2] \in Nat, c[2] \in Nat
               PROVE  IsLayout(<<a, b, c>>)
    OBVIOUS
  <1> DEFINE h == <<a, b, c>>
  <1>1. h = [i \in 1 .. 3 |-> h[i]] /\ h[1] = a /\ h[2] = b /\ h[3] = c
    OBVIOUS
  <1> HIDE DEF h
  <1>2. \A i \in 1 .. 3 : h[i][2] \in Nat
    BY <1>1
  <1> QED BY <1>1, <1>2, LayoutOf DEF h

LEMMA Layout5 ==
    \A a, b, c, d, e :
        a[2] \in Nat /\ b[2] \in Nat /\ c[2] \in Nat /\ d[2] \in Nat /\ e[2] \in Nat
        => IsLayout(<<a, b, c, d, e>>)
  <1> SUFFICES ASSUME NEW a, NEW b, NEW c, NEW d, NEW e, a[2] \in Nat, b[2] \in Nat,
                      c[2] \in Nat, d[2] \in Nat, e[2] \in Nat
               PROVE  IsLayout(<<a, b, c, d, e>>)
    OBVIOUS
  <1> DEFINE h == <<a, b, c, d, e>>
  <1>1. /\ h = [i \in 1 .. 5 |-> h[i]]
        /\ h[1] = a /\ h[2] = b /\ h[3] = c /\ h[4] = d /\ h[5] = e
    OBVIOUS
  <1> HIDE DEF h
  <1>2. \A i \in 1 .. 5 : h[i][2] \in Nat
    BY <1>1
  <1> QED BY <1>1, <1>2, LayoutOf DEF h

LEMMA Layout8 ==
    \A a, b, c, d, e, f, g, k :
        /\ a[2] \in Nat /\ b[2] \in Nat /\ c[2] \in Nat /\ d[2] \in Nat
        /\ e[2] \in Nat /\ f[2] \in Nat /\ g[2] \in Nat /\ k[2] \in Nat
        => IsLayout(<<a, b, c, d, e, f, g>>) /\ IsLayout(<<a, b, c, d, e, f, g, k>>)
  <1> SUFFICES ASSUME NEW a, NEW b, NEW c, NEW d, NEW e, NEW f, NEW g, NEW k,
                      a[2] \in Nat, b[2] \in Nat, c[2] \in Nat, d[2] \in Nat,
                      e[2] \in Nat, f[2] \in Nat, g[2] \in Nat, k[2] \in Nat
               PROVE  /\ IsLayout(<<a, b, c, d, e, f, g>>)
                      /\ IsLayout(<<a, b, c, d, e, f, g, k>>)
    OBVIOUS
  <1>1. IsLayout(<<a, b, c, d, e, f, g>>)
    <2> DEFINE h == <<a, b, c, d, e, f, g>>
    <2>1. /\ h = [i \in 1 .. 7 |-> h[i]]
          /\ h[1] = a /\ h[2] = b /\ h[3] = c /\ h[4] = d /\ h[5] = e /\ h[6] = f /\ h[7] = g
      OBVIOUS
    <2> HIDE DEF h
    <2>2. \A i \in 1 .. 7 : h[i][2] \in Nat
      BY <2>1
    <2> QED BY <2>1, <2>2, LayoutOf DEF h
  <1>2. IsLayout(<<a, b, c, d, e, f, g, k>>)
    <2> DEFINE h == <<a, b, c, d, e, f, g, k>>
    <2>1. /\ h = [i \in 1 .. 8 |-> h[i]]
          /\ h[1] = a /\ h[2] = b /\ h[3] = c /\ h[4] = d /\ h[5] = e /\ h[6] = f /\ h[7] = g
          /\ h[8] = k
      OBVIOUS
    <2> HIDE DEF h
    <2>2. \A i \in 1 .. 8 : h[i][2] \in Nat
      BY <2>1
    <2> QED BY <2>1, <2>2, LayoutOf DEF h
  <1> QED BY <1>1, <1>2

LEMMA Widths ==
    /\ \A x : U8(x)[2] \in Nat /\ U16(x)[2] \in Nat /\ U24(x)[2] \in Nat /\ U32(x)[2] \in Nat
              /\ U64(x)[2] \in Nat /\ Fourcc(x)[2] \in Nat
    /\ \A n \in Nat : Pad(n)[2] \in Nat
  BY DEF U8, U16, U24, U32, U64, Fourcc, Pad

LEMMA FullBoxFacts == IsLayout(FullBox)
  BY Layout2, Widths DEF FullBox

LEMMA WhenFacts ==
    \A c, layout : IsLayout(layout) => IsLayout(When(c, layout))
  BY NothingIsSeq DEF When, IsLayout

LEMMA TimesFacts ==
    /\ IsLayout(Times64 \o <<U32("timescale"), U64("duration")>>)
    /\ IsLayout(Times32 \o <<U32("timescale"), U32("duration")>>)
    /\ IsLayout(Times64 \o <<U32("track_id"), Pad(4), U64("duration")>>)
    /\ IsLayout(Times32 \o <<U32("track_id"), Pad(4), U32("duration")>>)
  <1>1. IsLayout(Times64) /\ IsLayout(Times32)
    BY Layout2, Widths DEF Times64, Times32
  <1>2. /\ IsLayout(<<U32("timescale"), U64("duration")>>)
        /\ IsLayout(<<U32("timescale"), U32("duration")>>)
    BY Layout2, Widths
  <1>3. /\ IsLayout(<<U32("track_id"), Pad(4), U64("duration")>>)
        /\ IsLayout(<<U32("track_id"), Pad(4), U32("duration")>>)
    BY Layout3, Widths
  <1> QED BY <1>1, <1>2, <1>3, LayoutCat

LEMMA MvhdIsSeq ==
    ASSUME NEW mvhd
    PROVE  IsSeq(SerializeMvhd(mvhd))
  <1> DEFINE l == FullBox \o (IF mvhd.version = 1
                              THEN Times64 \o <<U32("timescale"), U64("duration")>>
                              ELSE Times32 \o <<U32("timescale"), U32("duration")>>)
             a == Write(mvhd, l)
             b == Write(mvhd, <<U32("next_track_id")>>)
  <1>1. IsLayout(l)
    BY FullBoxFacts, TimesFacts, LayoutCat
  <1>2. IsLayout(<<U32("next_track_id")>>)
    BY Layout1, Widths
  <1> HIDE DEF l
  <1>3. IsSeq(a) /\ IsSeq(b)
    BY <1>1, <1>2, WriteIsSeq
  <1>4. \A v : \A n \in Nat : IsSeq(Put(n, v)) /\ IsSeq(Zeros(n))
    BY PutFacts, ZerosFacts
  <1> HIDE DEF a, b
  <1>5. IsSeq(a \o Put(4, 65536) \o Put(2, 256) \o Zeros(2)
              \o Zeros(8) \o Put(4, 65536) \o Zeros(12) \o Put(4, 65536) \o Zeros(8)
              \o Zeros(4) \o Put(4, 1073741824) \o Zeros(16)
              \o b \o Zeros(4) \o Put(4, 2))
    BY <1>3, <1>4, CatIsSeq
  <1> QED BY <1>5, BoxIsSeq DEF SerializeMvhd, a, b, l

LEMMA TkhdIsSeq ==
    ASSUME NEW tkhd
    PROVE  IsSeq(SerializeTkhd(tkhd))
  <1> DEFINE l == FullBox \o (IF tkhd.version = 1
                              THEN Times64 \o <<U32("track_id"), Pad(4), U64("duration")>>
                              ELSE Times32 \o <<U32("track_id"), Pad(4), U32("duration")>>)
             r == <<Pad(8), U16("layer"), U16("alternate_group"), U16("volume"), Pad(2),
                    <<"matrix", 36>>, U32("width"), U32("height")>>
  <1>1. IsLayout(l)
    BY FullBoxFacts, TimesFacts, LayoutCat
  <1>2. IsLayout(r)
    <2> DEFINE x == <<"matrix", 36>>
    <2>1. x[2] \in Nat
      OBVIOUS
    <2> HIDE DEF x
    <2>2. IsLayout(<<Pad(8), U16("layer"), U16("alternate_group"), U16("volume"), Pad(2),
                     x, U32("width"), U32("height")>>)
      BY <2>1, Layout8, Widths
    <2> QED BY <2>2 DEF x
  <1> HIDE DEF l, r
  <1>3. IsLayout(l \o r)
    BY <1>1, <1>2, LayoutCat
  <1>4. IsSeq(Box("tkhd", Write(tkhd, l \o r)))
    BY <1>3, WriteIsSeq, BoxIsSeq
  <1>5. SerializeTkhd(tkhd) \in {<<>>, Box("tkhd", Write(tkhd, l \o r))}
    BY DEF SerializeTkhd, l, r
  <1> QED BY <1>4, <1>5, NothingIsSeq

LEMMA MdhdIsSeq ==
    ASSUME NEW mdhd
    PROVE  IsSeq(SerializeMdhd(mdhd))
  <1> DEFINE l == FullBox \o (IF mdhd.version = 1
                              THEN Times64 \o <<U32("timescale"), U64("duration")>>
                              ELSE Times32 \o <<U32("timescale"), U32("duration")>>)
             a == Write(mdhd, l)
             b == Put(2, PackLanguageCode(mdhd.language_code))
  <1>1. IsLayout(l)
    BY FullBoxFacts, TimesFacts, LayoutCat
  <1> HIDE DEF l
  <1>2. IsSeq(a) /\ IsSeq(b) /\ IsSeq(Zeros(2))
    BY <1>1, WriteIsSeq, PutFacts, ZerosFacts
  <1> HIDE DEF a, b
  <1>3. IsSeq(Box("mdhd", a \o b \o Zeros(2)))
    BY <1>2, CatIsSeq, BoxIsSeq
  <1> QED BY <1>3 DEF SerializeMdhd, a, b, l

LEMMA StringIsSeq ==
    ASSUME NEW s, IsSeq(s)
    PROVE  IsSeq(PutString(s, TRUE))
  <1> DEFINE n == Len(s)
             h == [i \in DOMAIN s |-> Put(1, s[i])]
  <1>1. n \in Nat /\ DOMAIN s = 1 .. n
    BY SeqFacts
  <1> HIDE DEF n
  <1>2. \A i \in 1 .. n : h[i] = Put(1, s[i])
    BY <1>1
  <1>3. \A i \in 1 .. n : IsSeq(h[i])
    BY <1>2, PutFacts
  <1>4. h = [i \in 1 .. n |-> h[i]]
    BY <1>1
  <1>5. PutString(s, TRUE) = IF s = NoString THEN <<>> ELSE FlattenSeq(h) \o Zeros(1)
    BY DEF PutString
  <1> HIDE DEF h
  <1>6. IsSeq(FlattenSeq(h))
    BY <1>1, <1>3, <1>4, ImageIsSeqs, FlatIsSeq
  <1>7. IsSeq(FlattenSeq(h) \o Zeros(1))
    BY <1>6, ZerosFacts, CatIsSeq
  <1> QED BY <1>5, <1>7, NothingIsSeq

LEMMA HdlrIsSeq ==
    ASSUME NEW hdlr, IsSeq(hdlr.name)
    PROVE  IsSeq(SerializeHdlr(hdlr))
  <1> DEFINE a == Write(hdlr, FullBox)
             b == PutAtom(hdlr.handler_type)
             c == PutString(hdlr.name, TRUE)
  <1>1. IsSeq(a) /\ IsSeq(b) /\ IsSeq(c) /\ IsSeq(Zeros(4)) /\ IsSeq(Zeros(12))
    BY FullBoxFacts, WriteIsSeq, AtomFacts, StringIsSeq, ZerosFacts
  <1> HIDE DEF a, b, c
  <1>2. IsSeq(Box("hdlr", a \o Zeros(4) \o b \o Zeros(12) \o c))
    BY <1>1, CatIsSeq, BoxIsSeq
  <1> QED BY <1>2, NothingIsSeq DEF SerializeHdlr, a, b, c

LEMMA MediaHeadersAreSeqs ==
    ASSUME NEW v, NEW s, NEW h
    PROVE  IsSeq(SerializeVmhd(v)) /\ IsSeq(SerializeSmhd(s)) /\ IsSeq(SerializeHmhd(h))
  <1> DEFINE r == <<U16("maxPDUsize"), U16("avgPDUsize"), U32("maxbitrate"), U32("avgbitrate"),
                    Pad(4)>>
  <1>1. IsLayout(<<Pad(8)>>) /\ IsLayout(<<Pad(4)>>)
    BY Layout1, Widths
  <1>2. IsLayout(r)
    BY Layout5, Widths
  <1> HIDE DEF r
  <1>3. /\ IsSeq(Box("vmhd", Write(v, FullBox \o <<Pad(8)>>)))
        /\ IsSeq(Box("smhd", Write(s, FullBox \o <<Pad(4)>>)))
        /\ IsSeq(Box("hmhd", Write(h, FullBox \o r)))
    BY <1>1, <1>2, FullBoxFacts, LayoutCat, WriteIsSeq, BoxIsSeq
  <1> QED BY <1>3, NothingIsSeq DEF SerializeVmhd, SerializeSmhd, SerializeHmhd, r

(* The first n of anything are a sequence.                                  *)
LEMMA PrefixIsSeq ==
    ASSUME NEW s, NEW n \in Nat
    PROVE  IsSeq(SubSeq(s, 1, n))
  <1> DEFINE h == SubSeq(s, 1, n)
  <1>1. 1 \in Nat
    OBVIOUS
  <1>2. h = [i \in 1 .. n |-> h[i]]
    BY <1>1
  <1> HIDE DEF h
  <1> QED BY <1>2, SeqOfFunction DEF h

LEMMA BoxedTable ==
    ASSUME NEW a, NEW box, NEW head, IsLayout(head), NEW s, NEW n \in Nat,
           NEW entry, IsLayout(entry)
    PROVE  IsSeq(Box(a, Write(box, head) \o WriteTable(SubSeq(s, 1, n), entry)))
  <1> DEFINE x == SubSeq(s, 1, n)
             u == Write(box, head)
             v == WriteTable(x, entry)
  <1>1. IsSeq(x)
    BY PrefixIsSeq
  <1> HIDE DEF x
  <1>2. IsSeq(u) /\ IsSeq(v)
    BY <1>1, WriteIsSeq, TableIsSeq
  <1> HIDE DEF u, v
  <1>3. IsSeq(Box(a, u \o v))
    BY <1>2, CatIsSeq, BoxIsSeq
  <1> QED BY <1>3 DEF u, v, x

LEMMA TableHeadFacts == IsLayout(TableHead)
  <1>1. IsLayout(<<U32("entry_count")>>)
    BY Layout1, Widths
  <1> QED BY <1>1, FullBoxFacts, LayoutCat DEF TableHead

LEMMA TablesAreSeqs ==
    ASSUME NEW table, table.entry_count \in Nat
    PROVE  /\ IsSeq(SerializeStts(table))
           /\ IsSeq(SerializeStsc(table))
           /\ IsSeq(SerializeStco(table))
  <1>1. IsLayout(SttsEntry) /\ IsLayout(StscEntry) /\ IsLayout(StcoEntry)
    BY Layout1, Layout2, Layout3, Widths DEF SttsEntry, StscEntry, StcoEntry
  <1> DEFINE n == table.entry_count
             s == table.entries
  <1>2. /\ IsSeq(Box("stts", Write(table, TableHead) \o WriteTable(SubSeq(s, 1, n), SttsEntry)))
        /\ IsSeq(Box("stsc", Write(table, TableHead) \o WriteTable(SubSeq(s, 1, n), StscEntry)))
        /\ IsSeq(Box("stco", Write(table, TableHead) \o WriteTable(SubSeq(s, 1, n), StcoEntry)))
    BY <1>1, TableHeadFacts, BoxedTable
  <1> QED BY <1>2, Zenon DEF SerializeTable, SerializeStts, SerializeStsc, SerializeStco

LEMMA StszIsSeq ==
    ASSUME NEW stsz, stsz.sample_count \in Nat
    PROVE  IsSeq(SerializeStsz(stsz))
  <1> DEFINE n == stsz.sample_count
             s == stsz.sample_sizes
             u == Write(stsz, StszLayout)
  <1>1. IsLayout(<<U32("sample_size"), U32("sample_count")>>) /\ IsLayout(SizeLayout)
    BY Layout1, Layout2, Widths DEF SizeLayout
  <1>2. IsLayout(StszLayout)
    BY <1>1, FullBoxFacts, LayoutCat DEF StszLayout
  <1>3. IsSeq(Box("stsz", u \o WriteTable(SubSeq(s, 1, n), SizeLayout)))
    BY <1>1, <1>2, BoxedTable
  <1>4. IsSeq(u)
    BY <1>2, WriteIsSeq
  <1> HIDE DEF u
  <1>5. IsSeq(Box("stsz", u \o <<>>))
    BY <1>4, NothingIsSeq, CatIsSeq, BoxIsSeq
  <1>6. CASE stsz.sample_size # 0
    BY <1>5, <1>6, Zenon DEF SerializeStsz, u
  <1>7. CASE stsz.sample_size = 0
    BY <1>3, <1>7, Zenon DEF SerializeStsz, u
  <1> QED BY <1>6, <1>7

(* What a track has to be for its header to be bytes                        *)
IsWritable(track) ==
    /\ IsSeq(track.hdlr.name)
    /\ IsSeq(track.esds_store.data) /\ IsSeq(track.esds.codec_data)
    /\ track.stsd.entry_count \in Nat
    /\ track.stts.entry_count \in Nat /\ track.stsc.entry_count \in Nat
    /\ track.stco.entry_count \in Nat /\ track.stsz.sample_count \in Nat

LEMMA EntryIsSeq ==
    ASSUME NEW track, IsSeq(track.esds_store.data), IsSeq(track.esds.codec_data), NEW atom
    PROVE  IsSeq(SerializeEntry(track, atom))
  <1> DEFINE u == Write(track.mp4a, Mp4aLayout)
             v == Write(track.mp4v, Mp4vLayout)
             x == Box("esds", track.esds_store.data)
             y == Box("avcC", track.esds.codec_data)
  <1>1. IsLayout(Mp4aLayout)
    BY Layout8, Widths DEF Mp4aLayout
  <1>2. IsLayout(Mp4vLayout)
    BY Layout5, Widths DEF Mp4vLayout
  <1>3. IsSeq(u) /\ IsSeq(v) /\ IsSeq(AvcCoding) /\ IsSeq(x) /\ IsSeq(y)
    BY <1>1, <1>2, WriteIsSeq, PutFacts, BoxIsSeq DEF AvcCoding
  <1> HIDE DEF u, v, x, y
  <1>4. IsSeq(u \o x) /\ IsSeq(v \o AvcCoding \o y)
    BY <1>3, CatIsSeq
  <1>5. CASE atom \in AudioEntries
    BY <1>4, <1>5, Zenon DEF SerializeEntry, AudioEntries, VideoEntries, u, v, x, y
  <1>6. CASE atom \in VideoEntries
    <2>1. atom \notin AudioEntries
      BY <1>6 DEF AudioEntries, VideoEntries
    <2> QED BY <1>4, <1>6, <2>1 DEF SerializeEntry, u, v, x, y
  <1>7. CASE atom \notin AudioEntries /\ atom \notin VideoEntries
    BY <1>7, NothingIsSeq DEF SerializeEntry
  <1> QED BY <1>5, <1>6, <1>7

LEMMA StsdIsSeq ==
    ASSUME NEW track, IsWritable(track), track.is_encrypted = FALSE
    PROVE  IsSeq(SerializeStsd(track))
  <1> DEFINE n == track.stsd.entry_count
             E(i) == Box(EntryAtom(track, i), SerializeEntry(track, EntryAtom(track, i)) \o <<>>)
             h == [i \in 1 .. n |-> E(i)]
             u == Write(track.stsd, TableHead)
  <1>1. n \in Nat
    BY DEF IsWritable
  <1>2. \A i \in 1 .. n : IsSeq(E(i))
    BY EntryIsSeq, NothingIsSeq, CatIsSeq, BoxIsSeq DEF IsWritable
  <1> HIDE DEF E
  <1>3. h = [i \in 1 .. n |-> h[i]] /\ \A i \in 1 .. n : h[i] = E(i)
    OBVIOUS
  <1>4. SerializeStsd(track) = Box("stsd", u \o FlattenSeq(h))
    BY Zenon DEF SerializeStsd, E
  <1> HIDE DEF h
  <1>5. IsSeq(FlattenSeq(h))
    BY <1>1, <1>2, <1>3, ImageIsSeqs, FlatIsSeq
  <1>6. IsSeq(u)
    BY TableHeadFacts, WriteIsSeq
  <1> HIDE DEF u
  <1> QED BY <1>4, <1>5, <1>6, CatIsSeq, BoxIsSeq

LEMMA TrackIsSeq ==
    ASSUME NEW track, IsWritable(track), track.is_encrypted = FALSE
    PROVE  IsSeq(SerializeTrack(track))
  <1> DEFINE a == SerializeStsd(track)
             b == SerializeStts(track.stts)
             c == SerializeStsc(track.stsc)
             d == SerializeStco(track.stco)
             e == SerializeStsz(track.stsz)
             p == SerializeVmhd(track.vmhd)
             q == SerializeSmhd(track.smhd)
             r == SerializeHmhd(track.hmhd)
             t == SerializeTkhd(track.tkhd)
             u == SerializeMdhd(track.mdhd)
             v == SerializeHdlr(track.hdlr)
  <1>1. IsSeq(a) /\ IsSeq(b) /\ IsSeq(c) /\ IsSeq(d) /\ IsSeq(e)
    BY StsdIsSeq, TablesAreSeqs, StszIsSeq DEF IsWritable
  <1>2. IsSeq(p) /\ IsSeq(q) /\ IsSeq(r) /\ IsSeq(t) /\ IsSeq(u) /\ IsSeq(v)
    BY MediaHeadersAreSeqs, TkhdIsSeq, MdhdIsSeq, HdlrIsSeq DEF IsWritable
  <1> HIDE DEF a, b, c, d, e, p, q, r, t, u, v
  <1> DEFINE w == Box("stbl", a \o b \o c \o d \o e)
  <1>3. IsSeq(w)
    BY <1>1, CatIsSeq, BoxIsSeq
  <1>4. SerializeStbl(track) = w
    BY DEF SerializeStbl, a, b, c, d, e
  <1> HIDE DEF w
  <1> DEFINE x == Box("minf", w \o p \o q \o r)
  <1>5. IsSeq(x)
    BY <1>2, <1>3, CatIsSeq, BoxIsSeq
  <1> HIDE DEF x
  <1> DEFINE y == Box("mdia", u \o v \o x)
  <1>6. IsSeq(y)
    BY <1>2, <1>5, CatIsSeq, BoxIsSeq
  <1> HIDE DEF y
  <1>7. IsSeq(Box("trak", t \o y))
    BY <1>2, <1>6, CatIsSeq, BoxIsSeq
  <1> QED BY <1>4, <1>7, Zenon DEF SerializeTrack, p, q, r, t, u, v, x, y

-----------------------------------------------------------------------------
(* The boxes in a box                                                       *)

IsWide(b, p) == Get(b, p, 4) = 1 /\ Len(b) - p >= 16
BodyStart(b, p) == IF IsWide(b, p) THEN p + 16 ELSE p + 8
BodyEnd(b, p) ==
    BodyStart(b, p) + (IF IsWide(b, p) THEN Get(b, p + 8, 8) ELSE Get(b, p, 4)) - 8
IsFitting(b, p) == BodyEnd(b, p) \in BodyStart(b, p) .. Len(b)
ChildAt(b, p) ==
    [atom |-> GetAtom(b, p + 4),
     body |-> SubSeq(b, BodyStart(b, p) + 1, IF IsFitting(b, p) THEN BodyEnd(b, p) ELSE Len(b))]
AfterChild(b, p) == IF IsFitting(b, p) THEN BodyEnd(b, p) ELSE BodyStart(b, p)

(* The boxes from each place on                                             *)
IsChildren(g, b) ==
    g = [p \in Nat |-> IF Len(b) - p < 8 THEN <<>>
                       ELSE <<ChildAt(b, p)>> \o g[AfterChild(b, p)]]

(* Only those that start in the last n bytes                                *)
IsTail(g, b, n) ==
    g = [p \in Nat |-> IF p + n < Len(b) \/ Len(b) - p < 8 THEN <<>>
                       ELSE <<ChildAt(b, p)>> \o g[AfterChild(b, p)]]

LEMMA ChildrenExist ==
    ASSUME NEW b, Len(b) \in Nat
    PROVE  \E g : IsChildren(g, b)
  <1> DEFINE m == Len(b)
             T == {n \in Nat : \E g : IsTail(g, b, n)}
             C(p) == <<ChildAt(b, p)>>
             next(p) == AfterChild(b, p)
  <1>1. \A p \in Nat : next(p) \in Nat /\ next(p) > p
    <2> SUFFICES ASSUME NEW p \in Nat PROVE next(p) \in Nat /\ next(p) > p
      OBVIOUS
    <2>1. BodyStart(b, p) \in Nat /\ BodyStart(b, p) > p
      BY DEF BodyStart
    <2>2. CASE IsFitting(b, p)
      <3>1. BodyEnd(b, p) \in BodyStart(b, p) .. Len(b)
        BY <2>2 DEF IsFitting
      <3>2. BodyEnd(b, p) \in Nat /\ BodyEnd(b, p) > p
        BY <2>1, <3>1
      <3> QED BY <2>2, <3>2 DEF AfterChild
    <2>3. CASE ~IsFitting(b, p)
      BY <2>1, <2>3 DEF AfterChild
    <2> QED BY <2>2, <2>3
  <1> HIDE DEF m, C, next
  <1>2. \A g, n : IsTail(g, b, n) <=>
            g = [p \in Nat |-> IF p + n < m \/ m - p < 8 THEN <<>> ELSE C(p) \o g[next(p)]]
    BY Zenon DEF IsTail, m, C, next
  <1>3. m \in Nat
    BY DEF m
  <1>4. 0 \in T
    <2> DEFINE g == [p \in Nat |-> <<>>]
    <2>1. g = [p \in Nat |-> IF p + 0 < m \/ m - p < 8 THEN <<>> ELSE C(p) \o g[next(p)]]
      BY <1>3
    <2> HIDE DEF g
    <2>2. IsTail(g, b, 0)
      BY <1>2, <2>1
    <2> QED BY <2>2
  <1>5. ASSUME NEW n \in Nat, n \in T PROVE n + 1 \in T
    <2>1. PICK f : IsTail(f, b, n)
      BY <1>5
    <2>2. \A p \in Nat : f[p] = IF p + n < m \/ m - p < 8 THEN <<>> ELSE C(p) \o f[next(p)]
      BY <1>2, <2>1
    <2> DEFINE g == [p \in Nat |-> IF p + n < m /\ ~(p + (n + 1) < m) /\ ~(m - p < 8)
                                   THEN C(p) \o f[next(p)] ELSE f[p]]
               h == [p \in Nat |-> IF p + (n + 1) < m \/ m - p < 8 THEN <<>>
                                   ELSE C(p) \o g[next(p)]]
    <2>3. \A p \in Nat : ~(p + (n + 1) < m) => g[next(p)] = f[next(p)]
      BY <1>1, <1>3
    <2>4. ASSUME NEW p \in Nat PROVE g[p] = h[p]
      <3>1. CASE p + (n + 1) < m
        <4>1. p + n < m
          BY <1>3, <3>1
        <4> QED BY <2>2, <3>1, <4>1
      <3>2. CASE ~(p + (n + 1) < m) /\ m - p < 8
        BY <2>2, <3>2
      <3>3. CASE ~(p + (n + 1) < m) /\ ~(m - p < 8) /\ p + n < m
        BY <2>3, <3>3
      <3>4. CASE ~(p + (n + 1) < m) /\ ~(m - p < 8) /\ ~(p + n < m)
        BY <2>2, <2>3, <3>4
      <3> QED BY <3>1, <3>2, <3>3, <3>4
    <2>5. g = h
      BY <2>4, Zenon
    <2> HIDE DEF g
    <2>6. IsTail(g, b, n + 1)
      BY <1>2, <2>5
    <2> QED BY <2>6
  <1> HIDE DEF T
  <1>6. m \in T
    BY <1>3, <1>4, <1>5, SetInduction
  <1>7. PICK g : IsTail(g, b, m)
    BY <1>6 DEF T
  <1>8. \A p \in Nat : ~(p + m < m)
    BY <1>3
  <1>9. g = [p \in Nat |-> IF p + m < m \/ m - p < 8 THEN <<>> ELSE C(p) \o g[next(p)]]
    BY <1>2, <1>7
  <1>10. g = [p \in Nat |-> IF m - p < 8 THEN <<>> ELSE C(p) \o g[next(p)]]
    BY <1>8, <1>9
  <1>11. IsChildren(g, b)
    BY <1>10, Zenon DEF IsChildren, m, C, next
  <1> QED BY <1>11

LEMMA ChildrenFrom ==
    ASSUME NEW b, Len(b) \in Nat
    PROVE  \E g : IsChildren(g, b) /\ Children(b) = g[0]
  <1> DEFINE g == CHOOSE f : IsChildren(f, b)
  <1>1. IsChildren(g, b)
    BY ChildrenExist
  <1>2. Children(b) = g[0]
    BY Zenon DEF Children, IsChildren, ChildAt, AfterChild, IsFitting, BodyEnd, BodyStart, IsWide
  <1> QED BY <1>1, <1>2

LEMMA GetFromStart ==
    ASSUME NEW a, NEW b, NEW p \in Nat, NEW n \in Nat, \A i \in 1 .. n : a[p + i] = b[i]
    PROVE  Get(a, p, n) = Get(b, 0, n)
  <1>1. PICK z \in Nat : z = 0
    OBVIOUS
  <1>2. \A i \in 1 .. n : a[p + z + i] = b[z + i]
    BY <1>1
  <1>3. Get(a, p + z, n) = Get(b, z, n)
    <2>1. SUFFICES ASSUME \A i \in 1 .. n : a[p + z + i] = b[z + i]
                   PROVE  Get(a, p + z, n) = Get(b, z, n)
      BY <1>2
    <2> QED BY ONLY <2>1, GetThere, z \in Nat, p \in Nat, n \in Nat
  <1>4. p + z = p
    BY <1>1
  <1> QED BY <1>1, <1>3, <1>4

(* A box that stands in b at the place p is found there.                    *)
LEMMA BoxAmong ==
    ASSUME NEW b, IsSeq(b), NEW p \in Nat, NEW a, NEW body, IsSeq(body),
           p + Len(Box(a, body)) <= Len(b),
           \A x \in 1 .. Len(Box(a, body)) : b[p + x] = Box(a, body)[x]
    PROVE  /\ Len(b) - p >= 8
           /\ ChildAt(b, p) = [atom |-> a, body |-> body]
           /\ AfterChild(b, p) = p + Len(Box(a, body))
  <1> DEFINE c == Box(a, body)
             n == Len(body)
             m == Len(b)
  <1>1. /\ IsSeq(c) /\ Len(c) = n + 8 /\ n \in Nat /\ m \in Nat
        /\ Get(c, 0, 4) = n + 8 /\ GetAtom(c, 4) = a
        /\ \A x \in 1 .. n : c[8 + x] = body[x]
    BY BoxWritten, SeqFacts
  <1>2. p + n + 8 <= m /\ \A x \in 1 .. n + 8 : b[p + x] = c[x]
    BY <1>1
  <1> HIDE DEF c, m, n
  <1>3. Get(b, p, 4) = n + 8
    <2>1. PICK k \in Nat : k = 4
      OBVIOUS
    <2>2. \A i \in 1 .. k : b[p + i] = c[i]
      BY <1>1, <1>2, <2>1
    <2>3. Get(b, p, k) = Get(c, 0, k)
      BY ONLY <2>2, GetFromStart, p \in Nat, k \in Nat
    <2> QED BY <1>1, <2>1, <2>3
  <1>4. GetAtom(b, p + 4) = a
    <2>1. \A i \in 1 .. 4 : b[p + 4 + i] = c[4 + i]
      BY <1>1, <1>2
    <2>2. GetAtom(b, p + 4) = GetAtom(c, 4)
      BY <2>1, AtomThere
    <2> QED BY <1>1, <2>2
  <1>5. ~IsWide(b, p)
    BY <1>1, <1>3 DEF IsWide
  <1>6. BodyStart(b, p) = p + 8 /\ BodyEnd(b, p) = p + 8 + n
    <2>1. BodyStart(b, p) = p + 8
      BY <1>5 DEF BodyStart
    <2>2. BodyEnd(b, p) = p + 8 + (n + 8) - 8
      BY <1>3, <1>5, <2>1 DEF BodyEnd
    <2> QED BY <1>1, <2>1, <2>2
  <1>7. IsFitting(b, p)
    BY <1>1, <1>2, <1>6 DEF IsFitting, m
  <1>8. AfterChild(b, p) = p + Len(c)
    BY <1>1, <1>6, <1>7 DEF AfterChild
  <1>9. SubSeq(b, p + 8 + 1, p + 8 + n) = body
    <2> DEFINE u == SubSeq(b, p + 8 + 1, p + 8 + n)
    <2>0. n \in Nat
      BY <1>1
    <2>1. p + 8 \in Nat /\ p + 8 + n \in Nat /\ p + 8 + n <= m
          /\ p + 8 <= p + 8 + n /\ (p + 8 + n) - (p + 8) = n
      BY <1>1, <1>2
    <2>2. /\ IsSeq(u) /\ Len(u) = n
          /\ \A i \in 1 .. n : u[i] = b[p + 8 + i]
      <3> DEFINE q == p + 8
                 z == p + 8 + n
      <3>1. q \in Nat /\ z \in Nat /\ z <= Len(b) /\ q <= z /\ z - q = n
        BY <2>1 DEF m
      <3> HIDE DEF q, z
      <3>2. /\ IsSeq(SubSeq(b, q + 1, z)) /\ Len(SubSeq(b, q + 1, z)) = z - q
            /\ \A i \in 1 .. z - q : SubSeq(b, q + 1, z)[i] = b[q + i]
        BY <3>1, SubFacts
      <3> QED BY <3>1, <3>2 DEF q, z
    <2> HIDE DEF u
    <2>3. ASSUME NEW i \in 1 .. n PROVE u[i] = body[i]
      <3>1. 8 + i \in 1 .. n + 8 /\ p + (8 + i) = p + 8 + i
        BY <2>0
      <3>2. b[p + (8 + i)] = c[8 + i] /\ c[8 + i] = body[i] /\ u[i] = b[p + 8 + i]
        BY <1>1, <1>2, <2>2, <3>1
      <3> QED BY <3>1, <3>2
    <2> QED BY <2>2, <2>3, SameSeq DEF n, u
  <1>10. ChildAt(b, p) = [atom |-> a, body |-> body]
    <2>1. ChildAt(b, p) = [atom |-> GetAtom(b, p + 4),
                           body |-> SubSeq(b, p + 8 + 1, p + 8 + n)]
      BY <1>6, <1>7 DEF ChildAt
    <2> QED BY <1>4, <1>9, <2>1
  <1>11. Len(b) - p >= 8
    BY <1>1, <1>2 DEF m
  <1> QED BY <1>8, <1>10, <1>11 DEF c

LEMMA ThreeChildren ==
    ASSUME NEW a1, NEW a2, NEW a3, NEW x1, NEW x2, NEW x3, IsSeq(x1), IsSeq(x2), IsSeq(x3)
    PROVE  Children(Box(a1, x1) \o Box(a2, x2) \o Box(a3, x3)) =
               <<[atom |-> a1, body |-> x1]>>
               \o (<<[atom |-> a2, body |-> x2]>> \o (<<[atom |-> a3, body |-> x3]>> \o <<>>))
  <1> DEFINE c1 == Box(a1, x1)
             c2 == Box(a2, x2)
             c3 == Box(a3, x3)
             b == c1 \o c2 \o c3
             p2 == Len(c1)
             p3 == Len(c1) + Len(c2)
             p4 == Len(c1) + Len(c2) + Len(c3)
  <1>1. IsSeq(c1) /\ IsSeq(c2) /\ IsSeq(c3)
    BY BoxIsSeq
  <1>2. /\ IsSeq(b) /\ Len(b) = Len(c1) + Len(c2) + Len(c3)
        /\ \A i \in 1 .. Len(c1) : b[i] = c1[i]
        /\ \A i \in 1 .. Len(c2) : b[Len(c1) + i] = c2[i]
        /\ \A i \in 1 .. Len(c3) : b[Len(c1) + Len(c2) + i] = c3[i]
    <2> HIDE DEF c1, c2, c3
    <2> QED BY <1>1, ThreeParts
  <1>3. Len(c1) \in Nat /\ Len(c2) \in Nat /\ Len(c3) \in Nat
    BY <1>1, SeqFacts
  <1>4. Len(b) \in Nat
    BY <1>2, SeqFacts
  <1> HIDE DEF b
  <1>12. IsSeq(b)
    BY <1>2
  <1>5. PICK g : IsChildren(g, b) /\ Children(b) = g[0]
    BY <1>4, ChildrenFrom
  <1>6. \A p \in Nat : g[p] = IF Len(b) - p < 8 THEN <<>>
                              ELSE <<ChildAt(b, p)>> \o g[AfterChild(b, p)]
    BY <1>5 DEF IsChildren
  <1>7. g[0] = <<[atom |-> a1, body |-> x1]>> \o g[p2]
    <2> HIDE DEF c1, c2, c3
    <2>1. 0 + Len(c1) <= Len(b) /\ \A i \in 1 .. Len(c1) : b[0 + i] = c1[i]
      BY <1>2, <1>3
    <2>2. /\ Len(b) - 0 >= 8 /\ ChildAt(b, 0) = [atom |-> a1, body |-> x1]
          /\ AfterChild(b, 0) = 0 + Len(c1)
      BY <1>12, <2>1, BoxAmong DEF c1
    <2>3. 0 + Len(c1) = Len(c1) /\ ~(Len(b) - 0 < 8)
      BY <1>3, <1>4, <2>2
    <2> QED BY <1>6, <2>2, <2>3
  <1>8. g[p2] = <<[atom |-> a2, body |-> x2]>> \o g[p3]
    <2> HIDE DEF c1, c2, c3
    <2>1. /\ p2 + Len(c2) <= Len(b) /\ p2 \in Nat
          /\ \A i \in 1 .. Len(c2) : b[p2 + i] = c2[i]
      BY <1>2, <1>3
    <2>2. /\ Len(b) - p2 >= 8 /\ ChildAt(b, p2) = [atom |-> a2, body |-> x2]
          /\ AfterChild(b, p2) = p2 + Len(c2)
      <3> HIDE DEF p2
      <3> QED BY ONLY <1>12, <2>1, BoxAmong, IsSeq(x2) DEF c2
    <2>3. ~(Len(b) - p2 < 8)
      BY <1>3, <1>4, <2>2
    <2> QED BY <1>3, <1>6, <2>2, <2>3
  <1>9. g[p3] = <<[atom |-> a3, body |-> x3]>> \o g[p4]
    <2> HIDE DEF c1, c2, c3
    <2>1. /\ p3 + Len(c3) <= Len(b) /\ p3 \in Nat
          /\ \A i \in 1 .. Len(c3) : b[p3 + i] = c3[i]
      BY <1>2, <1>3
    <2>2. /\ Len(b) - p3 >= 8 /\ ChildAt(b, p3) = [atom |-> a3, body |-> x3]
          /\ AfterChild(b, p3) = p3 + Len(c3)
      BY ONLY <1>12, <2>1, BoxAmong, IsSeq(x3) DEF c3
    <2>3. ~(Len(b) - p3 < 8)
      BY <1>3, <1>4, <2>2
    <2> QED BY <2>1, <1>3, <1>6, <2>2, <2>3
  <1>10. g[p4] = <<>>
    <2> HIDE DEF c1, c2, c3
    <2>1. p4 \in Nat /\ Len(b) - p4 < 8
      BY <1>2, <1>3
    <2> QED BY <1>6, <2>1
  <1> HIDE DEF c1, c2, c3
  <1>11. Children(b) =
               <<[atom |-> a1, body |-> x1]>>
               \o (<<[atom |-> a2, body |-> x2]>> \o (<<[atom |-> a3, body |-> x3]>> \o <<>>))
    BY <1>5, <1>7, <1>8, <1>9, <1>10, Zenon
  <1> QED BY <1>11 DEF b, c1, c2, c3

(* The third of three boxes is found by its atom.                           *)
LEMMA ThirdChild ==
    ASSUME NEW a1, NEW a2, NEW a3, NEW x1, NEW x2, NEW x3, IsSeq(x1), IsSeq(x2), IsSeq(x3),
           a1 # a3, a2 # a3
    PROVE  Child(Box(a1, x1) \o Box(a2, x2) \o Box(a3, x3), a3) = x3
  <1> DEFINE b == Box(a1, x1) \o Box(a2, x2) \o Box(a3, x3)
             r1 == [atom |-> a1, body |-> x1]
             r2 == [atom |-> a2, body |-> x2]
             r3 == [atom |-> a3, body |-> x3]
             h == Children(b)
             S == {i \in DOMAIN h : h[i].atom = a3}
  <1>1. h = <<r1>> \o (<<r2>> \o (<<r3>> \o <<>>))
    BY ThreeChildren
  <1>2. /\ r1.atom = a1 /\ r2.atom = a2 /\ r3.atom = a3 /\ r3.body = x3
    OBVIOUS
  <1> HIDE DEF r1, r2, r3, h, b
  <1>3. DOMAIN h = 1 .. 3 /\ h[1] = r1 /\ h[2] = r2 /\ h[3] = r3
    BY <1>1
  <1>4. S = {3}
    BY <1>2, <1>3
  <1>5. FirstOf(S) = 3
    BY <1>4, FirstOfOne
  <1>6. Child(b, a3) = h[FirstOf(S)].body
    BY Zenon DEF Child, h
  <1> HIDE DEF S
  <1> QED BY <1>2, <1>3, <1>5, <1>6 DEF b

-----------------------------------------------------------------------------
(* The header of a track that is served on demand, and its index            *)

LEMMA MvexIsSeq ==
    ASSUME NEW m, NEW track
    PROVE  IsSeq(SerializeMvex(m, track))
  <1> DEFINE l == FullBox \o (IF m.mehd.version = 0 THEN <<U32("fragment_duration")>>
                              ELSE <<U64("fragment_duration")>>)
             r == <<U32("track_id"), U32("default_sample_description_index"),
                    U32("default_sample_duration"), U32("default_sample_size"),
                    U32("default_sample_flags")>>
             x == SerializeMehd(m.mehd)
             y == SerializeTrex(track.trex)
  <1>1. IsLayout(<<U32("fragment_duration")>>) /\ IsLayout(<<U64("fragment_duration")>>)
    BY Layout1, Widths
  <1>2. IsLayout(l)
    BY <1>1, FullBoxFacts, LayoutCat
  <1>3. IsLayout(r)
    BY Layout5, Widths
  <1> HIDE DEF l, r
  <1>4. IsLayout(FullBox \o r)
    BY <1>3, FullBoxFacts, LayoutCat
  <1>5. IsSeq(Box("mehd", Write(m.mehd, l))) /\ IsSeq(Box("trex", Write(track.trex, FullBox \o r)))
    BY <1>2, <1>4, WriteIsSeq, BoxIsSeq
  <1>6. IsSeq(x) /\ IsSeq(y)
    BY <1>5, Zenon DEF SerializeMehd, SerializeTrex, l, r
  <1> HIDE DEF x, y
  <1>7. IsSeq(Box("mvex", x \o y))
    BY <1>6, CatIsSeq, BoxIsSeq
  <1> QED BY <1>7 DEF SerializeMvex, x, y

LEMMA DashFtypIs ==
    \E x : IsSeq(x) /\ DashFtyp = Box("ftyp", x)
  <1> DEFINE brands == <<"iso6", "mp41">>
             h == [i \in DOMAIN brands |-> PutAtom(brands[i])]
             u == PutAtom("dash")
             v == Put(4, 0)
  <1>1. DOMAIN brands = 1 .. 2
    OBVIOUS
  <1> HIDE DEF brands
  <1>2. \A i \in 1 .. 2 : h[i] = PutAtom(brands[i])
    BY <1>1
  <1>3. h = [i \in 1 .. 2 |-> h[i]]
    BY <1>1
  <1> HIDE DEF h
  <1>4. \A i \in 1 .. 2 : IsSeq(h[i])
    BY <1>2, AtomFacts
  <1>5. IsSeq(FlattenSeq(h))
    BY <1>3, <1>4, ImageIsSeqs, FlatIsSeq
  <1>6. IsSeq(u) /\ IsSeq(v)
    BY AtomFacts, PutFacts
  <1>7. DashFtyp = Box("ftyp", u \o v \o FlattenSeq(h))
    BY Zenon DEF DashFtyp, Ftyp, h, brands, u, v
  <1> HIDE DEF u, v
  <1>8. IsSeq(u \o v \o FlattenSeq(h))
    BY <1>5, <1>6, CatIsSeq
  <1> QED BY <1>7, <1>8

LEMMA DashIs ==
    ASSUME NEW m, ~m.pssh.present,
           NEW track, IsWritable(track), track.is_encrypted = FALSE, NEW fs
    PROVE  \E x, y :
              /\ IsSeq(x) /\ IsSeq(y)
              /\ SerializeTrackDash(m, track, fs).data =
                     Box("ftyp", x) \o Box("moov", y) \o SerializeSidx(CreateSidx(track, fs))
  <1> DEFINE a == SerializeMvhd(m.mvhd)
             b == SerializePssh(m.pssh)
             c == SerializeTrack(track)
             d == SerializeMvex(m, track)
             y == a \o b \o c \o d
             z == SerializeSidx(CreateSidx(track, fs))
  <1>1. PICK x : IsSeq(x) /\ DashFtyp = Box("ftyp", x)
    BY DashFtypIs
  <1>2. SerializeTrackDash(m, track, fs).data = DashFtyp \o Box("moov", y) \o z
    BY DEF SerializeTrackDash
  <1>3. IsSeq(a) /\ IsSeq(b) /\ IsSeq(c) /\ IsSeq(d)
    <2>1. IsSeq(b)
      BY NothingIsSeq DEF SerializePssh
    <2> QED BY <2>1, MvhdIsSeq, TrackIsSeq, MvexIsSeq
  <1> HIDE DEF a, b, c, d, z
  <1>4. IsSeq(y)
    BY <1>3, CatIsSeq
  <1> HIDE DEF y
  <1> QED BY <1>1, <1>2, <1>4 DEF z

(* Two numbers of four bytes behind each other                              *)
LEMMA TwoNumbers ==
    ASSUME NEW box, NEW a, NEW b,
           WriteField(box, U32(a)) = Put(4, box[a]), WriteField(box, U32(b)) = Put(4, box[b])
    PROVE  LET w == Write(box, <<U32(a), U32(b)>>)
           IN  /\ IsSeq(w) /\ Len(w) = 8
               /\ \A i \in 1 .. 4 : w[i] = Put(4, box[a])[i]
  <1> DEFINE l == <<U32(a), U32(b)>>
             s == [i \in DOMAIN l |-> WriteField(box, l[i])]
             w == Write(box, l)
             h == <<0, 4, 8>>
             x == Put(4, box[a])
             y == Put(4, box[b])
  <1>1. IsSeq(x) /\ Len(x) = 4 /\ IsSeq(y) /\ Len(y) = 4
    BY PutFacts
  <1>2. DOMAIN l = 1 .. 2 /\ l[1] = U32(a) /\ l[2] = U32(b)
    OBVIOUS
  <1>3. WriteField(box, U32(a)) = x /\ WriteField(box, U32(b)) = y
    OBVIOUS
  <1> HIDE DEF l, x, y
  <1>4. s = [i \in 1 .. 2 |-> s[i]] /\ s[1] = x /\ s[2] = y
    BY <1>2, <1>3
  <1>5. w = FlattenSeq(s)
    BY Zenon DEF Write
  <1> HIDE DEF s, w
  <1>6. AreSeqs(s) /\ Len(s) = 2
    <2>1. \A i \in 1 .. 2 : IsSeq(s[i])
      BY <1>1, <1>4
    <2> QED BY <1>4, <2>1, ImageIsSeqs
  <1>7. h[1] = 0 /\ h[2] = 4 /\ h[3] = 8
    OBVIOUS
  <1> HIDE DEF h
  <1>8. Begins(h, s)
    <2>1. h[1 + 1] = h[1] + Len(s[1]) /\ h[2 + 1] = h[2] + Len(s[2])
      <3>1. Len(s[1]) = 4 /\ Len(s[2]) = 4
        BY <1>1, <1>4, Zenon
      <3>2. 1 + 1 = 2 /\ 2 + 1 = 3 /\ 0 + 4 = 4 /\ 4 + 4 = 8
        OBVIOUS
      <3> QED BY <1>7, <3>1, <3>2, Zenon
    <2>2. \A i \in 1 .. 2 : i = 1 \/ i = 2
      OBVIOUS
    <2>3. \A i \in 1 .. 2 : h[i + 1] = h[i] + Len(s[i])
      BY <2>1, <2>2, Zenon
    <2> QED BY <1>6, <1>7, <2>3, Zenon DEF Begins
  <1>9. /\ IsSeq(w) /\ Len(w) = h[3]
        /\ \A i \in 1 .. 4 : w[h[1] + i] = x[i]
    <2>1. /\ IsSeq(w) /\ Len(w) = h[Len(s) + 1]
          /\ \A i \in 1 .. Len(s) : \A j \in 1 .. Len(s[i]) : w[h[i] + j] = s[i][j]
      BY <1>5, <1>6, <1>8, FlatFacts
    <2>2. 1 \in 1 .. Len(s) /\ Len(s[1]) = 4 /\ s[1] = x /\ Len(s) + 1 = 3
      BY <1>1, <1>4, <1>6
    <2> QED BY <2>1, <2>2, Zenon
  <1>10. \A i \in 1 .. 4 : w[i] = x[i]
    BY <1>7, <1>9
  <1> QED BY <1>7, <1>9, <1>10 DEF w, x, l

SidxHead == FullBox \o <<U32("reference_id"), U32("timescale")>>
            \o <<U32("earliest_presentation_time"), U32("first_offset")>>

LEMMA SidxHeadFacts ==
    ASSUME NEW box
    PROVE  LET w == Write(box, SidxHead)
           IN  IsSeq(w) /\ Len(w) = 20
  <1> DEFINE l == SidxHead
             s == [i \in DOMAIN l |-> WriteField(box, l[i])]
             w == Write(box, l)
             h == <<0, 1, 4, 8, 12, 16, 20>>
  <1>1. /\ DOMAIN l = 1 .. 6
        /\ l[1] = U8("version") /\ l[2] = U24("flags") /\ l[3] = U32("reference_id")
        /\ l[4] = U32("timescale") /\ l[5] = U32("earliest_presentation_time")
        /\ l[6] = U32("first_offset")
    BY DEF SidxHead, FullBox
  <1>2. /\ WriteField(box, U8("version")) = Put(1, box["version"])
        /\ WriteField(box, U24("flags")) = Put(3, box["flags"])
        /\ WriteField(box, U32("reference_id")) = Put(4, box["reference_id"])
        /\ WriteField(box, U32("timescale")) = Put(4, box["timescale"])
        /\ WriteField(box, U32("earliest_presentation_time"))
           = Put(4, box["earliest_presentation_time"])
        /\ WriteField(box, U32("first_offset")) = Put(4, box["first_offset"])
    <2>1. 1 # 0 /\ 3 # 0 /\ 4 # 0
      OBVIOUS
    <2> QED BY <2>1, Zenon DEF WriteField, U8, U24, U32
  <1> DEFINE Is(x, n) == IsSeq(x) /\ Len(x) = n
  <1>3. \A v : \A n \in Nat : Is(Put(n, v), n)
    BY PutFacts
  <1>4. /\ Is(WriteField(box, U8("version")), 1)
        /\ Is(WriteField(box, U24("flags")), 3)
        /\ Is(WriteField(box, U32("reference_id")), 4)
        /\ Is(WriteField(box, U32("timescale")), 4)
        /\ Is(WriteField(box, U32("earliest_presentation_time")), 4)
        /\ Is(WriteField(box, U32("first_offset")), 4)
    <2>1. 1 \in Nat /\ 3 \in Nat /\ 4 \in Nat
      OBVIOUS
    <2> HIDE DEF Is
    <2> QED BY <1>2, <1>3, <2>1, Zenon
  <1> HIDE DEF l
  <1>5. s = [i \in 1 .. 6 |-> s[i]] /\ \A i \in 1 .. 6 : s[i] = WriteField(box, l[i])
    BY <1>1
  <1>6. /\ Is(s[1], 1) /\ Is(s[2], 3) /\ Is(s[3], 4) /\ Is(s[4], 4) /\ Is(s[5], 4) /\ Is(s[6], 4)
    <2>1. 1 \in 1 .. 6 /\ 2 \in 1 .. 6 /\ 3 \in 1 .. 6 /\ 4 \in 1 .. 6 /\ 5 \in 1 .. 6
          /\ 6 \in 1 .. 6
      OBVIOUS
    <2> HIDE DEF s, Is
    <2> QED BY <1>1, <1>4, <1>5, <2>1, Zenon
  <1>7. w = FlattenSeq(s)
    BY Zenon DEF Write
  <1> HIDE DEF s, w
  <1>8. \A i \in 1 .. 6 : i = 1 \/ i = 2 \/ i = 3 \/ i = 4 \/ i = 5 \/ i = 6
    OBVIOUS
  <1>9. AreSeqs(s) /\ Len(s) = 6
    <2>1. \A i \in 1 .. 6 : IsSeq(s[i])
      BY <1>6, <1>8, Zenon
    <2> QED BY <1>5, <2>1, ImageIsSeqs
  <1>10. h[1] = 0 /\ h[2] = 1 /\ h[3] = 4 /\ h[4] = 8 /\ h[5] = 12 /\ h[6] = 16 /\ h[7] = 20
    OBVIOUS
  <1> HIDE DEF h
  <1>11. Begins(h, s)
    <2>1. 1 + 1 = 2 /\ 2 + 1 = 3 /\ 3 + 1 = 4 /\ 4 + 1 = 5 /\ 5 + 1 = 6 /\ 6 + 1 = 7
          /\ 0 + 1 = 1 /\ 1 + 3 = 4 /\ 4 + 4 = 8 /\ 8 + 4 = 12 /\ 12 + 4 = 16 /\ 16 + 4 = 20
      OBVIOUS
    <2>2. \A i \in 1 .. 6 : h[i + 1] = h[i] + Len(s[i])
      BY <1>6, <1>8, <1>10, <2>1, ZenonT(40)
    <2> QED BY <1>9, <1>10, <2>2, Zenon DEF Begins
  <1>12. IsSeq(w) /\ Len(w) = h[Len(s) + 1]
    BY <1>7, <1>9, <1>11, FlatFacts
  <1>13. Len(s) + 1 = 7
    BY <1>9
  <1> QED BY <1>10, <1>12, <1>13 DEF w, l

LEMMA TwoNumbersOf ==
    \A box, a, b :
        WriteField(box, U32(a)) = Put(4, box[a]) /\ WriteField(box, U32(b)) = Put(4, box[b])
        => /\ IsSeq(Write(box, <<U32(a), U32(b)>>))
           /\ Len(Write(box, <<U32(a), U32(b)>>)) = 8
           /\ \A i \in 1 .. 4 : Write(box, <<U32(a), U32(b)>>)[i] = Put(4, box[a])[i]
  <1> SUFFICES ASSUME NEW box, NEW a, NEW b, WriteField(box, U32(a)) = Put(4, box[a]),
                      WriteField(box, U32(b)) = Put(4, box[b])
               PROVE  /\ IsSeq(Write(box, <<U32(a), U32(b)>>))
                      /\ Len(Write(box, <<U32(a), U32(b)>>)) = 8
                      /\ \A i \in 1 .. 4 :
                           Write(box, <<U32(a), U32(b)>>)[i] = Put(4, box[a])[i]
    OBVIOUS
  <1> QED BY TwoNumbers

LEMMA RowHead ==
    \A e : LET w == Write(e, <<U32("reference_size"), U32("subsegment_duration")>>)
            IN  /\ IsSeq(w) /\ Len(w) = 8
                /\ \A i \in 1 .. 4 : w[i] = Put(4, e.reference_size)[i]
  <1> SUFFICES ASSUME NEW e
               PROVE  LET w == Write(e, <<U32("reference_size"), U32("subsegment_duration")>>)
                      IN  /\ IsSeq(w) /\ Len(w) = 8
                          /\ \A i \in 1 .. 4 : w[i] = Put(4, e.reference_size)[i]
    OBVIOUS
  <1>1. 4 # 0
    OBVIOUS
  <1>2. /\ WriteField(e, U32("reference_size")) = Put(4, e["reference_size"])
        /\ WriteField(e, U32("subsegment_duration")) = Put(4, e["subsegment_duration"])
    BY <1>1, Zenon DEF WriteField, U32
  <1> QED BY <1>2, TwoNumbersOf

(* The first number of row i of the index                                   *)
LEMMA RowsAre ==
    ASSUME NEW es, IsSeq(es)
    PROVE  LET l == <<U32("reference_size"), U32("subsegment_duration")>>
               w == FlattenSeq([i \in DOMAIN es |-> Write(es[i], l) \o Put(4, 1)])
           IN  /\ IsSeq(w)
               /\ \A i \in 1 .. Len(es) : \A j \in 1 .. 4 :
                    /\ (12 * (i - 1)) + j \in 1 .. Len(w)
                    /\ w[(12 * (i - 1)) + j] = Put(4, es[i].reference_size)[j]
  <1> DEFINE n == Len(es)
             l == <<U32("reference_size"), U32("subsegment_duration")>>
             first(i) == Write(es[i], l)
             s == [i \in DOMAIN es |-> first(i) \o Put(4, 1)]
             w == FlattenSeq(s)
             h == [i \in 1 .. n + 1 |-> 12 * (i - 1)]
  <1>1. n \in Nat /\ DOMAIN es = 1 .. n
    BY SeqFacts
  <1>2. ASSUME NEW i \in 1 .. n
        PROVE  /\ IsSeq(first(i)) /\ Len(first(i)) = 8
               /\ \A j \in 1 .. 4 : first(i)[j] = Put(4, es[i].reference_size)[j]
    BY RowHead
  <1> HIDE DEF l
  <1>3. IsSeq(Put(4, 1)) /\ Len(Put(4, 1)) = 4
    BY PutFacts
  <1> DEFINE one == Put(4, 1)
  <1> HIDE DEF first, one
  <1>4. ASSUME NEW i \in 1 .. n
        PROVE  /\ s[i] = first(i) \o one /\ IsSeq(s[i]) /\ Len(s[i]) = 12
               /\ \A j \in 1 .. 4 : s[i][j] = Put(4, es[i].reference_size)[j]
    <2>1. s[i] = first(i) \o one
      BY <1>1 DEF one
    <2>2. IsSeq(first(i)) /\ IsSeq(one) /\ Len(first(i)) = 8 /\ Len(one) = 4
      BY <1>2, <1>3 DEF one
    <2>3. /\ IsSeq(first(i) \o one) /\ Len(first(i) \o one) = 12
          /\ \A j \in 1 .. 4 : (first(i) \o one)[j] = first(i)[j]
      <3> DEFINE f == first(i)
      <3>1. IsSeq(f) /\ IsSeq(one)
        BY <2>2
      <3>2. Len(f) = 8 /\ Len(one) = 4
        BY <2>2
      <3> HIDE DEF f
      <3>3. /\ IsSeq(f \o one) /\ Len(f \o one) = Len(f) + Len(one)
            /\ \A j \in 1 .. Len(f) : (f \o one)[j] = f[j]
        BY ONLY <3>1, CatFacts
      <3>4. Len(f \o one) = 12 /\ \A j \in 1 .. 4 : (f \o one)[j] = f[j]
        BY ONLY <3>2, <3>3
      <3> QED BY <3>3, <3>4 DEF f
    <2> HIDE DEF s
    <2> QED BY <1>2, <2>1, <2>3
  <1>5. s = [i \in 1 .. n |-> s[i]]
    BY <1>1
  <1> HIDE DEF s, n
  <1>6. AreSeqs(s) /\ Len(s) = n
    BY <1>1, <1>4, <1>5, ImageIsSeqs
  <1>7. \A i \in 1 .. n + 1 : h[i] = 12 * (i - 1)
    OBVIOUS
  <1> HIDE DEF h
  <1>8. Begins(h, s)
    <2>1. h[1] = 0
      <3>1. 1 \in 1 .. n + 1 /\ 12 * (1 - 1) = 0
        BY <1>1
      <3> QED BY <1>7, <3>1
    <2>2. ASSUME NEW i \in 1 .. n PROVE h[i + 1] = h[i] + Len(s[i])
      <3>1. i \in 1 .. n + 1 /\ i + 1 \in 1 .. n + 1
        BY <1>1
      <3>2. h[i] = 12 * (i - 1) /\ h[i + 1] = 12 * ((i + 1) - 1) /\ Len(s[i]) = 12
        BY <1>4, <1>7, <3>1
      <3> QED BY <1>1, <3>2
    <2> QED BY <1>6, <2>1, <2>2 DEF Begins
  <1>9. /\ IsSeq(w) /\ Len(w) = h[Len(s) + 1]
        /\ \A i \in 1 .. Len(s) : \A j \in 1 .. Len(s[i]) : w[h[i] + j] = s[i][j]
    BY <1>6, <1>8, FlatFacts
  <1> HIDE DEF w
  <1>10. Len(w) = 12 * n
    <2>1. n + 1 \in 1 .. n + 1 /\ (n + 1) - 1 = n
      BY <1>1
    <2> QED BY <1>6, <1>7, <1>9, <2>1
  <1>11. ASSUME NEW i \in 1 .. n, NEW j \in 1 .. 4
         PROVE  /\ (12 * (i - 1)) + j \in 1 .. Len(w)
                /\ w[(12 * (i - 1)) + j] = Put(4, es[i].reference_size)[j]
    <2>1. i \in 1 .. n + 1 /\ j \in 1 .. 12
      BY <1>1
    <2>2. h[i] = 12 * (i - 1) /\ Len(s[i]) = 12 /\ s[i][j] = Put(4, es[i].reference_size)[j]
      BY <1>4, <1>7, <2>1
    <2>3. w[h[i] + j] = s[i][j]
      BY <1>6, <1>9, <2>1, <2>2
    <2>4. (12 * (i - 1)) + j \in 1 .. 12 * n
      BY <1>1
    <2> QED BY <1>10, <2>2, <2>3, <2>4
  <1> QED BY <1>9, <1>11 DEF w, s, first, l, one, n

LEMMA SidxFacts ==
    ASSUME NEW track, NEW fs
    PROVE  LET sidx == CreateSidx(track, fs)
           IN  /\ sidx.version = 0
               /\ DOMAIN sidx.entries = DOMAIN fs
               /\ \A i \in DOMAIN fs : sidx.entries[i].reference_size =
                      fs[i].moof_size + fs[i].mdat_header_size + fs[i].mdat_size - 8
               /\ sidx.entries = [i \in DOMAIN fs |-> sidx.entries[i]]
  <1> DEFINE es == [i \in DOMAIN fs |->
                 [reference_size |-> fs[i].moof_size + fs[i].mdat_header_size
                                     + fs[i].mdat_size - 8,
                  subsegment_duration |-> IF i < Len(fs) THEN 0 - 30 ELSE 0]]
  <1>1. CreateSidx(track, fs).version = 0 /\ CreateSidx(track, fs).entries = es
    BY DEF CreateSidx, Sidx
  <1>2. DOMAIN es = DOMAIN fs /\ es = [i \in DOMAIN fs |-> es[i]]
    OBVIOUS
  <1>3. \A i \in DOMAIN fs : es[i].reference_size =
            fs[i].moof_size + fs[i].mdat_header_size + fs[i].mdat_size - 8
    OBVIOUS
  <1> HIDE DEF es
  <1> QED BY <1>1, <1>2, <1>3, Zenon

LEMMA SidxIs ==
    ASSUME NEW track, NEW fs, IsSeq(fs)
    PROVE  \E z :
              /\ IsSeq(z)
              /\ SerializeSidx(CreateSidx(track, fs)) = Box("sidx", z)
              /\ \A i \in 1 .. Len(fs) :
                   LET r == fs[i].moof_size + fs[i].mdat_header_size + fs[i].mdat_size - 8
                   IN  r \in Int => Get(z, 24 + (12 * (i - 1)), 4) = r
  <1> DEFINE sidx == CreateSidx(track, fs)
             es == sidx.entries
             n == Len(fs)
             r(i) == fs[i].moof_size + fs[i].mdat_header_size + fs[i].mdat_size - 8
             a == Write(sidx, SidxHead)
             b == Zeros(2)
             c == Put(2, Len(es))
             d == FlattenSeq([i \in DOMAIN es |->
                      Write(es[i], <<U32("reference_size"), U32("subsegment_duration")>>)
                      \o Put(4, 1)])
             z == a \o b \o c \o d
  <1>1. n \in Nat /\ DOMAIN fs = 1 .. n
    BY SeqFacts
  <1>2. /\ sidx.version = 0
        /\ DOMAIN es = DOMAIN fs
        /\ \A i \in DOMAIN fs : es[i].reference_size = r(i)
        /\ es = [i \in DOMAIN fs |-> es[i]]
    BY SidxFacts, Zenon
  <1>3. SerializeSidx(sidx) = Box("sidx", z)
    <2> HIDE DEF sidx
    <2> QED BY <1>2, Zenon DEF SerializeSidx, SidxHead
  <1> HIDE DEF sidx, es, n
  <1>4. IsSeq(es) /\ Len(es) = n
    BY <1>1, <1>2, SeqOfFunction
  <1>5. IsSeq(a) /\ Len(a) = 20
    BY SidxHeadFacts
  <1>6. IsSeq(b) /\ Len(b) = 2 /\ IsSeq(c) /\ Len(c) = 2
    BY ZerosFacts, PutFacts
  <1>7. /\ IsSeq(d)
        /\ \A i \in 1 .. n : \A j \in 1 .. 4 :
             /\ (12 * (i - 1)) + j \in 1 .. Len(d)
             /\ d[(12 * (i - 1)) + j] = Put(4, es[i].reference_size)[j]
    BY <1>4, RowsAre
  <1> HIDE DEF a, b, c, d, r
  <1> DEFINE e == a \o b \o c
  <1>8. IsSeq(e) /\ Len(e) = 24
    <2>1. IsSeq(a) /\ IsSeq(b) /\ IsSeq(c)
      BY <1>5, <1>6
    <2>2. Len(a) = 20 /\ Len(b) = 2 /\ Len(c) = 2
      BY <1>5, <1>6
    <2>3. IsSeq(a \o b \o c) /\ Len(a \o b \o c) = Len(a) + Len(b) + Len(c)
      BY ONLY <2>1, ThreeParts
    <2>4. 20 + 2 + 2 = 24
      OBVIOUS
    <2> QED BY <2>2, <2>3, <2>4, Zenon
  <1> HIDE DEF e
  <1>9. /\ IsSeq(e \o d)
        /\ \A x \in 1 .. Len(d) : (e \o d)[24 + x] = d[x]
    <2>1. IsSeq(e) /\ IsSeq(d)
      BY <1>7, <1>8
    <2>2. /\ IsSeq(e \o d)
          /\ \A x \in 1 .. Len(d) : (e \o d)[Len(e) + x] = d[x]
      BY ONLY <2>1, CatFacts
    <2> QED BY <1>8, <2>2, Zenon
  <1>10. z = e \o d
    BY DEF e
  <1> HIDE DEF z
  <1>11. ASSUME NEW i \in 1 .. n, r(i) \in Int
         PROVE  Get(z, 24 + (12 * (i - 1)), 4) = r(i)
    <2> DEFINE p == 24 + (12 * (i - 1))
    <2>1. p \in Nat
      BY <1>1
    <2>2. es[i].reference_size = r(i)
      BY <1>1, <1>2
    <2>3. ASSUME NEW j \in 1 .. 4 PROVE z[p + j] = Put(4, r(i))[j]
      <3> DEFINE x == (12 * (i - 1)) + j
      <3>1. x \in 1 .. Len(d) /\ d[x] = Put(4, r(i))[j]
        BY <1>7, <2>2
      <3>2. p + j = 24 + x
        BY <1>1
      <3> HIDE DEF x, p
      <3> QED BY <1>9, <1>10, <3>1, <3>2
    <2> HIDE DEF p
    <2>4. 4 \in Nat /\ 4 > 0
      OBVIOUS
    <2>5. Get(z, p, 4) = r(i)
      BY ONLY <1>11, <2>1, <2>3, <2>4, GetPut
    <2> QED BY <2>5 DEF p
  <1>12. /\ IsSeq(z)
         /\ SerializeSidx(CreateSidx(track, fs)) = Box("sidx", z)
         /\ \A i \in 1 .. Len(fs) : r(i) \in Int => Get(z, 24 + (12 * (i - 1)), 4) = r(i)
    BY <1>3, <1>9, <1>10, <1>11 DEF sidx, n
  <1> QED BY <1>12, Zenon DEF r

-----------------------------------------------------------------------------
(* What is written of a fragment                                            *)

CanBeWritten(f) ==
    /\ f.saiz.present = FALSE /\ f.mdat_header = <<>>
    /\ f.trun.sample_count \in Nat
    /\ IsSeq(f.trun.samples)
    /\ IsSeq(f.sample_encryption.samples)
    /\ \A i \in 1 .. Len(f.sample_encryption.samples) :
        IsSeq(f.sample_encryption.samples[i].entries)

LEMMA FragmentLayouts ==
    \A flags : /\ IsLayout(MfhdLayout) /\ IsLayout(TfhdLayout(flags))
               /\ IsLayout(TrunLayout(flags)) /\ IsLayout(TrunEntry(flags))
  <1> SUFFICES ASSUME NEW flags
               PROVE  /\ IsLayout(MfhdLayout) /\ IsLayout(TfhdLayout(flags))
                      /\ IsLayout(TrunLayout(flags)) /\ IsLayout(TrunEntry(flags))
    OBVIOUS
  <1>1. /\ IsLayout(<<U32("sequence_number")>>) /\ IsLayout(<<U32("track_id")>>)
        /\ IsLayout(<<U32("default_sample_duration")>>)
        /\ IsLayout(<<U32("default_sample_size")>>)
        /\ IsLayout(<<U32("default_sample_flags")>>)
    BY Layout1, Widths
  <1>2. /\ IsLayout(<<U32("sample_count")>>) /\ IsLayout(<<U32("data_offset")>>)
        /\ IsLayout(<<U32("first_sample_flags")>>)
    BY Layout1, Widths
  <1>3. /\ IsLayout(<<U32("duration")>>) /\ IsLayout(<<U32("size")>>)
        /\ IsLayout(<<U32("flags")>>) /\ IsLayout(<<U32("composition_time_offset")>>)
    BY Layout1, Widths
  <1>4. IsLayout(<<Pad(4)>>)
    <2>1. 4 \in Nat
      OBVIOUS
    <2> QED BY <2>1, Layout1, Widths
  <1>5. IsLayout(MfhdLayout)
    BY <1>1, FullBoxFacts, LayoutCat DEF MfhdLayout
  <1>6. IsLayout(TfhdLayout(flags))
    BY <1>1, <1>4, FullBoxFacts, LayoutCat, WhenFacts DEF TfhdLayout
  <1>7. IsLayout(TrunLayout(flags))
    BY <1>2, FullBoxFacts, LayoutCat, WhenFacts DEF TrunLayout
  <1>8. IsLayout(TrunEntry(flags))
    BY <1>3, LayoutCat, WhenFacts DEF TrunEntry
  <1> QED BY <1>5, <1>6, <1>7, <1>8

LEMMA HeadsAreSeqs ==
    ASSUME NEW mfhd, NEW tfhd, NEW tfdt
    PROVE  /\ IsSeq(SerializeMfhd(mfhd)) /\ IsSeq(SerializeTfhd(tfhd))
           /\ IsSeq(SerializeTfdt(tfdt))
  <1>1. IsSeq(SerializeMfhd(mfhd))
    BY FragmentLayouts, WriteIsSeq, BoxIsSeq DEF SerializeMfhd
  <1>2. IsSeq(SerializeTfhd(tfhd))
    BY FragmentLayouts, WriteIsSeq, BoxIsSeq DEF SerializeTfhd
  <1>3. IsSeq(SerializeTfdt(tfdt))
    <2> DEFINE l == FullBox \o (IF tfdt.version = 1 THEN <<U64("start_time")>>
                                ELSE <<U32("start_time")>>)
    <2>1. IsLayout(<<U64("start_time")>>) /\ IsLayout(<<U32("start_time")>>)
      BY Layout1, Widths
    <2>2. IsLayout(l)
      BY <2>1, FullBoxFacts, LayoutCat
    <2> HIDE DEF l
    <2>3. IsSeq(Box("tfdt", Write(tfdt, l)))
      BY <2>2, WriteIsSeq, BoxIsSeq
    <2> QED BY <2>3, NothingIsSeq DEF SerializeTfdt, l
  <1> QED BY <1>1, <1>2, <1>3

LEMMA TrunIsSeq ==
    ASSUME NEW trun, IsSeq(trun.samples)
    PROVE  IsSeq(SerializeTrun(trun))
  <1> DEFINE x == [trun EXCEPT !.data_offset = 0]
             u == Write(x, TrunLayout(trun.flags))
             v == WriteTable(trun.samples, TrunEntry(trun.flags))
  <1> HIDE DEF x
  <1>1. IsSeq(u) /\ IsSeq(v)
    BY FragmentLayouts, WriteIsSeq, TableIsSeq
  <1> HIDE DEF u, v
  <1>2. IsSeq(Box("trun", u \o v))
    BY <1>1, CatIsSeq, BoxIsSeq
  <1> QED BY <1>2 DEF SerializeTrun, u, v, x

LEMMA SdtpIsSeq ==
    ASSUME NEW sdtp, NEW n \in Nat
    PROVE  IsSeq(SerializeSdtp(sdtp, n))
  <1> DEFINE h == [i \in 1 .. n |-> Put(1, sdtp.sample_flags[i])]
             u == Write(sdtp, FullBox)
             v == FlattenSeq(h)
  <1>1. \A i \in 1 .. n : h[i] = Put(1, sdtp.sample_flags[i])
    OBVIOUS
  <1>2. \A i \in 1 .. n : IsSeq(h[i])
    BY <1>1, PutFacts
  <1>3. h = [i \in 1 .. n |-> h[i]]
    OBVIOUS
  <1> HIDE DEF h
  <1>4. IsSeq(v)
    BY <1>2, <1>3, ImageIsSeqs, FlatIsSeq
  <1>5. IsSeq(u)
    BY FullBoxFacts, WriteIsSeq
  <1> HIDE DEF u, v
  <1>6. IsSeq(Box("sdtp", u \o v))
    BY <1>4, <1>5, CatIsSeq, BoxIsSeq
  <1> QED BY <1>6, NothingIsSeq DEF SerializeSdtp, u, v, h

LEMMA RowIsSeq ==
    ASSUME NEW flags, NEW sample, IsSeq(sample.entries)
    PROVE  IsSeq(VectorRow(flags, sample))
  <1> DEFINE l == <<U16("clear"), U32("encrypted")>>
             a == Put(8, sample.iv)
             b == Put(2, Len(sample.entries))
             c == WriteTable(sample.entries, l)
  <1>1. IsLayout(l)
    BY Layout2, Widths
  <1> HIDE DEF l
  <1>2. IsSeq(a) /\ IsSeq(b) /\ IsSeq(c)
    BY <1>1, PutFacts, TableIsSeq
  <1> HIDE DEF a, b, c
  <1>3. IsSeq(b \o c)
    BY <1>2, CatIsSeq
  <1>4. IsSeq(a \o <<>>) /\ IsSeq(a \o (b \o c))
    BY <1>2, <1>3, NothingIsSeq, CatIsSeq
  <1> QED BY <1>4 DEF VectorRow, a, b, c, l

LEMMA VectorsAreSeqs ==
    ASSUME NEW se, IsSeq(se.samples), \A i \in 1 .. Len(se.samples) : IsSeq(se.samples[i].entries)
    PROVE  IsSeq(SerializeSampleEncryption(se))
  <1> DEFINE n == Len(se.samples)
             h == [i \in DOMAIN se.samples |-> VectorRow(se.flags, se.samples[i])]
             l == <<U24("algorithm_id"), U8("iv_size")>>
             a == Put(16, SampleEncryptionUuid)
             b == Write(se, FullBox)
             x == Write(se, l) \o Zeros(16)
             c == IF Has(se.flags, 1) THEN x ELSE <<>>
             d == Put(4, n)
             e == FlattenSeq(h)
  <1>1. n \in Nat /\ DOMAIN se.samples = 1 .. n
    BY SeqFacts
  <1>2. \A i \in 1 .. n : h[i] = VectorRow(se.flags, se.samples[i])
    BY <1>1
  <1>3. h = [i \in 1 .. n |-> h[i]]
    BY <1>1
  <1>4. \A i \in 1 .. n : IsSeq(h[i])
    BY <1>2, RowIsSeq
  <1> HIDE DEF h
  <1>5. IsSeq(e)
    BY <1>1, <1>3, <1>4, ImageIsSeqs, FlatIsSeq
  <1>6. IsLayout(l)
    BY Layout2, Widths
  <1> HIDE DEF l
  <1>7. IsSeq(a) /\ IsSeq(b) /\ IsSeq(d)
    BY FullBoxFacts, WriteIsSeq, PutFacts
  <1>8. IsSeq(x)
    BY <1>6, WriteIsSeq, ZerosFacts, CatIsSeq
  <1> HIDE DEF x
  <1>9. IsSeq(c)
    BY <1>8, NothingIsSeq
  <1> HIDE DEF a, b, c, d, e
  <1>10. IsSeq(Box("uuid", a \o b \o c \o d \o e))
    BY <1>5, <1>7, <1>9, CatIsSeq, BoxIsSeq
  <1> QED BY <1>10, NothingIsSeq DEF SerializeSampleEncryption, a, b, c, d, e, x, l, h, n

LEMMA TrafIsSeq ==
    ASSUME NEW f, CanBeWritten(f), NEW p
    PROVE  IsSeq(SerializeTraf(f, p))
  <1> DEFINE a == SerializeTfhd(f.tfhd)
             b == SerializeTfdt(f.tfdt)
             c == SerializeTrun(f.trun)
             d == SerializeSdtp(f.sdtp, f.trun.sample_count)
             e == SerializeSampleEncryption(f.sample_encryption)
             boxes == a \o b \o c \o d \o e
  <1>1. IsSeq(a) /\ IsSeq(b)
    BY HeadsAreSeqs
  <1>2. IsSeq(c) /\ IsSeq(d)
    BY TrunIsSeq, SdtpIsSeq DEF CanBeWritten
  <1>3. IsSeq(e)
    BY VectorsAreSeqs DEF CanBeWritten
  <1>4. SerializeTraf(f, p) = Box("traf", boxes)
    <2> HIDE DEF a, b, c, d, e
    <2> QED BY Zenon DEF SerializeTraf, CanBeWritten, a, b, c, d, e
  <1> HIDE DEF a, b, c, d, e
  <1>5. IsSeq(boxes)
    BY <1>1, <1>2, <1>3, CatIsSeq
  <1> HIDE DEF boxes
  <1> QED BY <1>4, <1>5, BoxIsSeq

LEMMA OverwriteIsSeq ==
    ASSUME NEW b, IsSeq(b), NEW p, NEW bytes
    PROVE  IsSeq(Overwrite(b, p, bytes))
  <1> DEFINE n == Len(b)
             g == [i \in DOMAIN b |-> IF i \in p + 1 .. p + Len(bytes) THEN bytes[i - p] ELSE b[i]]
  <1>1. n \in Nat /\ DOMAIN b = 1 .. n
    BY SeqFacts
  <1> HIDE DEF n
  <1>2. g = [i \in 1 .. n |-> g[i]]
    BY <1>1, Zenon
  <1>3. Overwrite(b, p, bytes) = g
    BY DEF Overwrite
  <1> HIDE DEF g
  <1>4. IsSeq(g)
    BY <1>1, <1>2, SeqOfFunction
  <1> QED BY <1>3, <1>4

(* In the clear there is no header before the samples.                      *)
LEMMA FragmentIsWrittenAs ==
    ASSUME NEW f, DOMAIN f = DOMAIN NewFragment, CanBeWritten(f)
    PROVE  LET g == SerializeFragment(f)
           IN  /\ DOMAIN g = DOMAIN NewFragment
               /\ IsSeq(g.moof_data)
               /\ g.moof_size = Len(g.moof_data)
               /\ g.mdat_header_size = 0
               /\ g.mdat_size = f.mdat_size
               /\ g.chunks = f.chunks
  <1> DEFINE mfhd == SerializeMfhd(f.mfhd)
             traf == SerializeTraf(f, 8 + Len(mfhd))
             moof == Box("moof", mfhd \o traf)
             header == f.mdat_header
             fixed == Overwrite(moof, OffsetPlace(f), Put(4, DataPosition(moof, header)))
             size == Put(4, Len(header) + f.mdat_size)
             data == fixed \o size \o PutAtom("mdat") \o header
             g == [f EXCEPT !.mdat_header = header, !.mdat_header_size = Len(header),
                            !.moof_data = data, !.moof_size = Len(data)]
  <1>1. SerializeFragment(f) = g
    <2> HIDE DEF mfhd
    <2> QED BY Zenon DEF SerializeFragment, CanBeWritten, mfhd
  <1>2. IsSeq(mfhd) /\ IsSeq(traf)
    BY HeadsAreSeqs, TrafIsSeq
  <1> HIDE DEF mfhd, traf
  <1>3. IsSeq(mfhd \o traf)
    BY <1>2, CatIsSeq
  <1>4. IsSeq(moof)
    BY <1>3, BoxIsSeq
  <1> HIDE DEF moof
  <1>5. IsSeq(fixed)
    BY <1>4, OverwriteIsSeq
  <1>6. header = <<>> /\ IsSeq(header) /\ Len(header) = 0
    BY NothingIsSeq DEF CanBeWritten
  <1>7. IsSeq(size) /\ IsSeq(PutAtom("mdat"))
    BY PutFacts, AtomFacts
  <1> HIDE DEF header, fixed, size
  <1>8. IsSeq(data)
    BY <1>5, <1>6, <1>7, CatIsSeq
  <1> HIDE DEF data
  <1>9. {"mdat_header", "mdat_header_size", "moof_data", "moof_size", "mdat_size", "chunks"}
        \subseteq DOMAIN f
    BY DEF NewFragment
  <1>10. /\ DOMAIN g = DOMAIN f /\ g.moof_data = data /\ g.moof_size = Len(data)
         /\ g.mdat_header_size = Len(header)
         /\ g.mdat_size = f.mdat_size /\ g.chunks = f.chunks
    BY <1>9
  <1> HIDE DEF g
  <1> QED BY <1>1, <1>6, <1>8, <1>10

-----------------------------------------------------------------------------
(* What has been read can be written again                                  *)

FragmentIsSound(f) ==
    /\ DOMAIN f = DOMAIN NewFragment
    /\ CanBeWritten(f)
    /\ f.chunks # <<>> => f.mdat_size \in Nat /\ f.chunks[1].size = f.mdat_size - 8

FragsAreSound(fr) ==
    \A tr \in DOMAIN fr : IsSeq(fr[tr]) /\ \A i \in 1 .. Len(fr[tr]) : FragmentIsSound(fr[tr][i])

(* What is served was made of it, unless the movie was cut.                 *)
SoundInv ==
    /\ phase # "cut" => FragsAreSound(frags)
    /\ phase = "serve" => movie # NoMovie /\ levels = [tr \in Served |-> Level(tr, load)]

LEMMA AllInRange ==
    ASSUME NEW s, IsSeq(s)
    PROVE  \A i \in 1 .. Len(s) : s[i] \in Range(s)
  BY SeqFacts DEF Range

LEMMA ReadIsSound ==
    ASSUME NEW s, NEW f, NEW pl, NEW no, FileIs(s, f, pl, no), NEW k \in FragmentsOf(pl)
    PROVE  FragmentIsSound(ReadOf(f, pl[k].at))
  <1> DEFINE tr == pl[k].track
             n == pl[k].number
             b == Recorded(s, tr, n)
             m == MoofLength(s, tr, n)
             g == FixupMoof(ParseMoof(SubSeq(b, 9, m)))
             v == g.sample_encryption.samples
  <1>1. tr \in DOMAIN s.fragments /\ n \in 1 .. Len(s.fragments[tr])
    BY FragmentStands
  <1>2. s \in Sources
    BY FileFacts
  <1>3. n \in DOMAIN s.fragments[tr]
    BY <1>1, <1>2, TracksAreNumbers
  <1>4. SourceIsKnown(s)
    BY <1>2, SourcesAssumption
  <1>5. FragmentIsKnown(s, tr, n)
    BY <1>1, <1>3, <1>4 DEF SourceIsKnown
  <1>6. /\ DOMAIN g = DOMAIN NewFragment
        /\ g.trun.sample_count \in 0 .. VectorShift
        /\ IsSeq(g.trun.samples)
        /\ IsSeq(v) /\ \A x \in Range(v) : IsSeq(x.entries)
        /\ g.saiz = Aux /\ g.mdat_header = <<>> /\ g.chunks = <<>>
    BY <1>5, Zenon DEF FragmentIsKnown, IsSeq
  <1>7. ReadOf(f, pl[k].at) = g
    <2>1. BodyAt(f, pl[k].at) = SubSeq(b, 9, m)
      BY MoofIsRead
    <2> QED BY <2>1, Zenon DEF ReadOf
  <1>8. g.trun.sample_count \in Nat
    <2>1. VectorShift \in Nat
      BY VectorsAssumption
    <2> HIDE DEF g
    <2> QED BY <1>6, <2>1
  <1>9. \A i \in 1 .. Len(v) : IsSeq(v[i].entries)
    <2> HIDE DEF v
    <2> QED BY <1>6, AllInRange
  <1>10. g.saiz.present = FALSE
    <2> HIDE DEF g
    <2> QED BY <1>6 DEF Aux
  <1>11. FragmentIsSound(g)
    <2> HIDE DEF g
    <2> QED BY <1>6, <1>8, <1>9, <1>10, Zenon DEF FragmentIsSound, CanBeWritten, v
  <1> QED BY <1>7, <1>11

LEMMA CountedIsSound ==
    ASSUME NEW g, FragmentIsSound(g), NEW n, NEW o, NEW size
    PROVE  FragmentIsSound(Counted(g, n, o, size))
  <1> DEFINE h == Counted(g, n, o, size)
             d == MoofDuration(g)
  <1>1. {"saiz", "mdat_header", "trun", "sample_encryption", "chunks", "mdat_size"}
        \subseteq DOMAIN g
    BY DEF FragmentIsSound, NewFragment
  <1>2. h = [g EXCEPT !.index = n, !.duration = d, !.offset = o, !.moof_size = size]
    BY DEF Counted
  <1> HIDE DEF d, h
  <1>3. /\ DOMAIN h = DOMAIN g
        /\ h.saiz = g.saiz /\ h.mdat_header = g.mdat_header /\ h.trun = g.trun
        /\ h.sample_encryption = g.sample_encryption
        /\ h.chunks = g.chunks /\ h.mdat_size = g.mdat_size
    BY <1>1, <1>2
  <1>4. FragmentIsSound(h)
    BY <1>3, Zenon DEF FragmentIsSound, CanBeWritten
  <1> QED BY <1>4 DEF h

LEMMA ChunkedIsSound ==
    ASSUME NEW g, FragmentIsSound(g), NEW o, NEW size \in Nat
    PROVE  FragmentIsSound(Chunked(g, o, size))
  <1> DEFINE h == Chunked(g, o, size)
             x == <<[offset |-> o + 8, size |-> size - 8]>>
  <1>1. {"saiz", "mdat_header", "trun", "sample_encryption", "chunks", "mdat_size"}
        \subseteq DOMAIN g
    BY DEF FragmentIsSound, NewFragment
  <1>2. h = [g EXCEPT !.mdat_size = size, !.chunks = x]
    BY Zenon DEF Chunked
  <1>3. x[1].size = size - 8
    OBVIOUS
  <1> HIDE DEF x, h
  <1>4. /\ DOMAIN h = DOMAIN g
        /\ h.saiz = g.saiz /\ h.mdat_header = g.mdat_header /\ h.trun = g.trun
        /\ h.sample_encryption = g.sample_encryption
        /\ h.chunks = x /\ h.mdat_size = size
    BY <1>1, <1>2
  <1>5. FragmentIsSound(h)
    BY <1>3, <1>4, Zenon DEF FragmentIsSound, CanBeWritten
  <1> QED BY <1>5 DEF h

LEMMA FixedIsSound ==
    ASSUME NEW fs, NEW i, FragmentIsSound(fs[i])
    PROVE  FragmentIsSound(FixupOne(fs, i))
  <1> DEFINE g == fs[i]
             h == FixupOne(fs, i)
             x == SumOf(SubSeq(fs, 1, i - 1), LAMBDA f : f.duration)
  <1>1. {"saiz", "mdat_header", "trun", "sample_encryption", "chunks", "mdat_size"}
        \subseteq DOMAIN g
    BY DEF FragmentIsSound, NewFragment
  <1>2. h = [g EXCEPT !.timestamp = x]
    BY Zenon DEF FixupOne
  <1>3. FragmentIsSound(g)
    OBVIOUS
  <1> HIDE DEF x, h, g
  <1>4. /\ DOMAIN h = DOMAIN g
        /\ h.saiz = g.saiz /\ h.mdat_header = g.mdat_header /\ h.trun = g.trun
        /\ h.sample_encryption = g.sample_encryption
        /\ h.chunks = g.chunks /\ h.mdat_size = g.mdat_size
    BY <1>1, <1>2
  <1>5. FragmentIsSound(h)
    BY <1>3, <1>4, Zenon DEF FragmentIsSound, CanBeWritten
  <1> QED BY <1>5 DEF h

LEMMA SoundIfAdded ==
    ASSUME NEW fr, FragsAreSound(fr), NEW tr, NEW g, FragmentIsSound(g)
    PROVE  FragsAreSound(AddTo(fr, tr, g))
  <1> DEFINE gr == AddTo(fr, tr, g)
  <1>1. CASE tr \notin DOMAIN fr
    <2>1. DOMAIN gr = DOMAIN fr /\ \A t \in DOMAIN fr : gr[t] = fr[t]
      BY <1>1 DEF AddTo
    <2> HIDE DEF gr
    <2>2. FragsAreSound(gr)
      BY <2>1, Zenon DEF FragsAreSound
    <2> QED BY <2>2 DEF gr
  <1>2. CASE tr \in DOMAIN fr
    <2> DEFINE x == fr[tr]
               y == Append(fr[tr], g)
    <2>1. IsSeq(x) /\ \A i \in 1 .. Len(x) : FragmentIsSound(x[i])
      BY <1>2 DEF FragsAreSound
    <2>2. /\ DOMAIN gr = DOMAIN fr
          /\ \A t \in DOMAIN fr : t # tr => gr[t] = fr[t]
          /\ gr[tr] = y /\ IsSeq(y) /\ Len(y) = Len(x) + 1
          /\ \A i \in 1 .. Len(x) : y[i] = x[i]
          /\ y[Len(x) + 1] = g
      BY <1>2, <2>1, AddFacts
    <2>3. Len(x) \in Nat
      BY <2>1, SeqFacts
    <2> HIDE DEF gr, y, x
    <2>4. ASSUME NEW i \in 1 .. Len(y) PROVE FragmentIsSound(y[i])
      <3>1. i \in 1 .. Len(x) \/ i = Len(x) + 1
        BY <2>2, <2>3
      <3> QED BY <2>1, <2>2, <3>1, Zenon
    <2>5. ASSUME NEW t \in DOMAIN gr
          PROVE  IsSeq(gr[t]) /\ \A i \in 1 .. Len(gr[t]) : FragmentIsSound(gr[t][i])
      <3>1. CASE t = tr
        BY <2>2, <2>4, <3>1, Zenon
      <3>2. CASE t # tr
        BY <2>2, <3>2, Zenon DEF FragsAreSound
      <3> QED BY <3>1, <3>2
    <2>6. FragsAreSound(gr)
      BY <2>5, Zenon DEF FragsAreSound
    <2> QED BY <2>6 DEF gr
  <1> QED BY <1>1, <1>2

LEMMA SoundAtEnd ==
    ASSUME NEW fr, FragsAreSound(fr)
    PROVE  FragsAreSound(WithTimes(fr))
  <1> DEFINE gr == WithTimes(fr)
  <1>1. ASSUME NEW t \in DOMAIN gr
        PROVE  IsSeq(gr[t]) /\ \A i \in 1 .. Len(gr[t]) : FragmentIsSound(gr[t][i])
    <2>1. t \in DOMAIN fr /\ gr[t] = [i \in DOMAIN fr[t] |-> FixupOne(fr[t], i)]
      BY Zenon DEF WithTimes
    <2> DEFINE x == fr[t]
               n == Len(x)
               y == [i \in DOMAIN x |-> FixupOne(x, i)]
    <2>2. IsSeq(x) /\ \A i \in 1 .. n : FragmentIsSound(x[i])
      BY <2>1 DEF FragsAreSound
    <2>3. n \in Nat /\ DOMAIN x = 1 .. n
      BY <2>2, SeqFacts
    <2> HIDE DEF n
    <2>4. y = [i \in 1 .. n |-> y[i]] /\ \A i \in 1 .. n : y[i] = FixupOne(x, i)
      BY <2>3
    <2>5. gr[t] = y
      BY <2>1
    <2> HIDE DEF gr, y, x
    <2>6. IsSeq(y) /\ Len(y) = n
      BY <2>3, <2>4, SeqOfFunction
    <2>7. \A i \in 1 .. n : FragmentIsSound(y[i])
      BY <2>2, <2>4, FixedIsSound
    <2> QED BY <2>5, <2>6, <2>7, Zenon
  <1> HIDE DEF gr
  <1>2. FragsAreSound(gr)
    BY <1>1, Zenon DEF FragsAreSound
  <1> QED BY <1>2 DEF gr

LEMMA NoneAreSound ==
    /\ FragsAreSound(<<>>)
    /\ \A m : FragsAreSound(NoFragments(m))
  <1>1. FragsAreSound(<<>>)
    BY DEF FragsAreSound
  <1>2. ASSUME NEW m PROVE FragsAreSound(NoFragments(m))
    <2> DEFINE gr == NoFragments(m)
    <2>1. \A t \in DOMAIN gr : gr[t] = <<>>
      BY DEF NoFragments
    <2> HIDE DEF gr
    <2>2. IsSeq(<<>>) /\ 1 .. Len(<<>>) = {}
      <3>1. IsSeq(<<>>) /\ Len(<<>>) = 0
        BY NothingIsSeq
      <3> QED BY <3>1
    <2>3. FragsAreSound(gr)
      BY <2>1, <2>2 DEF FragsAreSound
    <2> QED BY <2>3 DEF gr
  <1> QED BY <1>1, <1>2

LEMMA SoundIfAnyChunked ==
    ASSUME NEW fr, FragsAreSound(fr), NEW c, NEW o, NEW size \in Nat
    PROVE  FragsAreSound(WithChunk(fr, c, o, size))
  <1> DEFINE tr == c[1]
             n == c[2]
             h == fr[tr]
             x == Chunked(h[n], o, size)
             y == [h EXCEPT ![n] = x]
             gr == WithChunk(fr, c, o, size)
  <1>1. gr = [fr EXCEPT ![tr] = y]
    BY Zenon DEF WithChunk, Chunked
  <1>2. \A t \in DOMAIN fr :
            IsSeq(fr[t]) /\ \A i \in 1 .. Len(fr[t]) : FragmentIsSound(fr[t][i])
    BY Zenon DEF FragsAreSound
  <1> HIDE DEF x, gr
  <1>3. CASE tr \notin DOMAIN fr
    <2> HIDE DEF tr, y
    <2>1. DOMAIN gr = DOMAIN fr /\ \A t \in DOMAIN fr : gr[t] = fr[t]
      BY <1>1, <1>3
    <2>2. FragsAreSound(gr)
      BY <1>2, <2>1, Zenon DEF FragsAreSound
    <2> QED BY <2>2 DEF gr
  <1>4. CASE tr \in DOMAIN fr
    <2>1. IsSeq(h) /\ Len(h) \in Nat /\ DOMAIN h = 1 .. Len(h)
      BY <1>2, <1>4, SeqFacts
    <2>2. n \in 1 .. Len(h)
          => /\ IsSeq(y) /\ Len(y) = Len(h)
             /\ \A i \in 1 .. Len(h) : y[i] = IF i = n THEN x ELSE h[i]
      <3> DEFINE k == Len(h)
      <3> HIDE DEF n, h
      <3>1. y = [i \in 1 .. k |-> IF i = n THEN x ELSE h[i]]
        BY <2>1
      <3>2. y = [i \in 1 .. k |-> y[i]]
        BY <3>1
      <3>3. k \in Nat
        BY <2>1
      <3> HIDE DEF y, k
      <3>4. IsSeq(y) /\ Len(y) = k
        BY <3>2, <3>3, SeqOfFunction
      <3> QED BY <3>1, <3>4 DEF k
    <2>3. n \notin 1 .. Len(h)
          => IsSeq(y) /\ Len(y) = Len(h) /\ \A i \in 1 .. Len(h) : y[i] = h[i]
      <3> DEFINE k == Len(h)
      <3> HIDE DEF n, h
      <3> SUFFICES ASSUME n \notin 1 .. k
                   PROVE  IsSeq(y) /\ Len(y) = k /\ \A i \in 1 .. k : y[i] = h[i]
        OBVIOUS
      <3>1. y = [i \in 1 .. k |-> h[i]]
        BY <2>1
      <3>2. y = [i \in 1 .. k |-> y[i]]
        BY <3>1
      <3>3. k \in Nat
        BY <2>1
      <3> HIDE DEF y, k
      <3>4. IsSeq(y) /\ Len(y) = k
        BY <3>2, <3>3, SeqOfFunction
      <3> QED BY <3>1, <3>4
    <2>4. \A i \in 1 .. Len(h) : FragmentIsSound(h[i])
      BY <1>2, <1>4
    <2>5. n \in 1 .. Len(h) => FragmentIsSound(x)
      BY <2>4, ChunkedIsSound DEF x
    <2> HIDE DEF y, n
    <2>6. IsSeq(y) /\ \A i \in 1 .. Len(y) : FragmentIsSound(y[i])
      <3>1. CASE n \in 1 .. Len(h)
        <4>1. ASSUME NEW i \in 1 .. Len(y) PROVE FragmentIsSound(y[i])
          <5>1. i \in 1 .. Len(h) /\ y[i] = IF i = n THEN x ELSE h[i]
            BY <2>2, <3>1, Zenon
          <5>2. CASE i = n
            BY <2>5, <3>1, <5>1, <5>2, Zenon
          <5>3. CASE i # n
            BY <2>4, <5>1, <5>3, Zenon
          <5> QED BY <5>2, <5>3
        <4> QED BY <2>2, <3>1, <4>1, Zenon
      <3>2. CASE n \notin 1 .. Len(h)
        BY <2>3, <2>4, <3>2, Zenon
      <3> QED BY <3>1, <3>2
    <2> HIDE DEF h, tr
    <2>7. /\ DOMAIN gr = DOMAIN fr /\ gr[tr] = y
          /\ \A t \in DOMAIN fr : t # tr => gr[t] = fr[t]
      BY <1>1, <1>4
    <2>8. ASSUME NEW t \in DOMAIN gr
          PROVE  IsSeq(gr[t]) /\ \A i \in 1 .. Len(gr[t]) : FragmentIsSound(gr[t][i])
      <3>1. CASE t = tr
        BY <2>6, <2>7, <3>1, Zenon
      <3>2. CASE t # tr
        BY <1>2, <2>7, <3>2, Zenon
      <3> QED BY <3>1, <3>2
    <2>9. FragsAreSound(gr)
      BY <2>8, Zenon DEF FragsAreSound
    <2> QED BY <2>9 DEF gr
  <1> QED BY <1>3, <1>4

LEMMA LevelsStay ==
    ASSUME movie' = movie, frags' = frags
    PROVE  \A tr, l : Level(tr, l)' = Level(tr, l)
  <1>1. \A tr, l : Level(tr, l) = LevelOf(movie, frags, tr, l)
    BY Zenon DEF Level, LevelOf
  <1>2. \A tr, l : Level(tr, l)' = LevelOf(movie', frags', tr, l)
    BY Zenon DEF Level, LevelOf
  <1> QED BY <1>1, <1>2, Zenon

LEMMA SoundAtInit == Init => SoundInv
  <1> SUFFICES ASSUME Init PROVE SoundInv
    OBVIOUS
  <1>1. frags = <<>> /\ phase = "write"
    BY DEF Init
  <1> QED BY <1>1, NoneAreSound DEF SoundInv

LEMMA SoundIfKept ==
    ASSUME SoundInv, frags' = frags, phase # "cut", phase' # "serve"
    PROVE  SoundInv'
  BY DEF SoundInv

LEMMA MoofIsSound == IInv /\ SoundInv /\ ReadMoof => SoundInv'
  <1> SUFFICES ASSUME IInv, SoundInv, ReadMoof PROVE SoundInv'
    OBVIOUS
  <1> DEFINE f == FixupMoof(ParseMoof(BoxBody))
             tracks == TracksWithId(f.tfhd.track_id)
             u == FirstOf(tracks)
             g == Counted(f, Len(frags[u]), offset, BoxSize)
  <1>1. phase = "read" /\ offset < Len(file) /\ BoxAtom = "moof" /\ phase' = phase
    BY DEF ReadMoof, AtBox, Unread
  <1>2. frags' = frags \/ frags' = AddTo(frags, u, g)
    BY Zenon DEF ReadMoof, AddTo, Counted
  <1>3. /\ FileIs(source, file, places, noise)
        /\ \E k \in FragmentsOf(places) : offset = places[k].at
        /\ BoxBody = BodyAt(file, offset)
    BY <1>1, AtBoxFacts DEF IsFound
  <1>4. PICK k \in FragmentsOf(places) : offset = places[k].at
    BY <1>3
  <1>5. f = ReadOf(file, places[k].at)
    BY <1>3, <1>4 DEF ReadOf
  <1> HIDE DEF f, u
  <1>6. FragmentIsSound(f)
    BY <1>3, <1>5, ReadIsSound
  <1>7. FragmentIsSound(g)
    BY <1>6, CountedIsSound
  <1> HIDE DEF g
  <1>8. FragsAreSound(frags)
    BY <1>1 DEF SoundInv
  <1>9. FragsAreSound(AddTo(frags, u, g))
    BY <1>7, <1>8, SoundIfAdded
  <1>10. FragsAreSound(frags')
    BY <1>2, <1>8, <1>9
  <1> QED BY <1>1, <1>10 DEF SoundInv

LEMMA MdatIsSound == IInv /\ SoundInv /\ ReadMdat => SoundInv'
  <1> SUFFICES ASSUME IInv, SoundInv, ReadMdat PROVE SoundInv'
    OBVIOUS
  <1>1. phase = "read" /\ offset < Len(file) /\ phase' = phase
    BY DEF ReadMdat, AtBox, Unread
  <1>2. frags' = frags \/ frags' = WithChunk(frags, current, offset, BoxSize)
    BY Zenon DEF ReadMdat, WithChunk
  <1>3. BoxSize \in Nat
    <2>1. /\ FileIs(source, file, places, noise) /\ offset \in StartsOf(source, places, noise)
          /\ BoxSize = SizeAt(file, offset)
      BY <1>1, AtBoxFacts
    <2> QED BY <2>1, StepFacts
  <1>4. FragsAreSound(frags)
    BY <1>1 DEF SoundInv
  <1>5. FragsAreSound(WithChunk(frags, current, offset, BoxSize))
    BY <1>3, <1>4, SoundIfAnyChunked
  <1>6. FragsAreSound(frags')
    BY <1>2, <1>4, <1>5
  <1> QED BY <1>1, <1>6 DEF SoundInv

LEMMA SoundLater == IInv /\ SoundInv /\ [Next]_vars => SoundInv'
  <1> SUFFICES ASSUME IInv, SoundInv, [Next]_vars PROVE SoundInv'
    OBVIOUS
  <1>1. phase # "cut" => FragsAreSound(frags)
    BY DEF SoundInv
  <1>2. CASE WriteHeader
    BY <1>2, SoundIfKept DEF WriteHeader, parserVars
  <1>3. CASE \E tr \in DOMAIN source.fragments : WriteFragment(tr)
    BY <1>3, SoundIfKept DEF WriteFragment, parserVars
  <1>4. CASE \E b \in Noises : WriteNoise(b)
    BY <1>4, SoundIfKept DEF WriteNoise, parserVars
  <1>5. CASE \E n \in 0 .. 1 : Stop(n)
    BY <1>5, SoundIfKept DEF Stop, parserVars
  <1>6. CASE ReadFtyp
    BY <1>6, SoundIfKept DEF ReadFtyp, AtBox, Unread
  <1>7. CASE ReadMoov
    <2>1. frags' = NoFragments(movie') /\ phase' = "read"
      BY <1>7 DEF ReadMoov, AtBox, Unread, NoFragments
    <2> QED BY <2>1, NoneAreSound DEF SoundInv
  <1>8. CASE ReadMoof
    BY <1>8, MoofIsSound
  <1>9. CASE ReadMdat
    BY <1>9, MdatIsSound
  <1>10. CASE RefuseMdat
    BY <1>10, SoundIfKept DEF RefuseMdat, AtBox
  <1>11. CASE ReadOther
    BY <1>11, SoundIfKept DEF ReadOther, Unread
  <1>12. CASE EndOfFile
    <2>1. frags' = WithTimes(frags) /\ phase = "read" /\ phase' = "load"
      BY <1>12 DEF EndOfFile, WithTimes
    <2> QED BY <1>1, <2>1, SoundAtEnd DEF SoundInv
  <1>13. ASSUME movie' = movie, frags' = frags
         PROVE  Served' = Served /\ \A tr, l : Level(tr, l)' = Level(tr, l)
    <2>1. Served' = Served
      BY <1>13 DEF Served, VideoTracks, AudioTracks
    <2>2. \A tr, l : Level(tr, l)' = Level(tr, l)
      BY <1>13, LevelsStay
    <2> QED BY <2>1, <2>2
  <1>14. CASE \E l \in Loads : Load(l)
    <2>1. PICK l \in Loads : Load(l)
      BY <1>14
    <2>2. /\ movie' = movie /\ frags' = frags /\ movie # NoMovie /\ load' = l
          /\ phase = "load" /\ phase' = "serve"
          /\ levels' = [tr \in Served |-> Level(tr, l)]
      BY <2>1 DEF Load, NoMovie, parserVars
    <2>3. Served' = Served /\ \A tr : Level(tr, l)' = Level(tr, l)
      BY <1>13, <2>2
    <2>4. levels' = [tr \in Served' |-> Level(tr, l)']
      BY <2>2, <2>3
    <2>5. [tr \in Served |-> Level(tr, load)]' = [tr \in Served' |-> Level(tr, l)']
      BY <2>2, Zenon DEF Level
    <2> QED BY <1>1, <2>2, <2>4, <2>5 DEF SoundInv
  <1>15. CASE UNCHANGED vars
    <2>1. /\ movie' = movie /\ frags' = frags /\ load' = load /\ levels' = levels
          /\ phase' = phase
      BY <1>15 DEF vars, parserVars
    <2>2. Served' = Served /\ \A tr, l : Level(tr, l)' = Level(tr, l)
      BY <1>13, <2>1
    <2>3. [tr \in Served |-> Level(tr, load)]' = [tr \in Served' |-> Level(tr, load)']
      BY Zenon
    <2>4. \A tr : Level(tr, load)' = Level(tr, load)
      <3>1. \A tr : Level(tr, load) = LevelOf(movie, frags, tr, load)
        BY Zenon DEF Level, LevelOf
      <3>2. \A tr : Level(tr, load)' = LevelOf(movie', frags', tr, load')
        BY Zenon DEF Level, LevelOf
      <3> QED BY <2>1, <3>1, <3>2, Zenon
    <2>5. [tr \in Served' |-> Level(tr, load)'] = [tr \in Served |-> Level(tr, load)]
      BY <2>2, <2>4
    <2> QED BY <2>1, <2>3, <2>5 DEF SoundInv
  <1>16. CASE \E l \in Loads : CutAndLoad(l)
    <2>1. phase' = "cut"
      BY <1>16, Zenon DEF CutAndLoad
    <2> QED BY <2>1 DEF SoundInv
  <1> QED BY <1>2, <1>3, <1>4, <1>5, <1>6, <1>7, <1>8, <1>9, <1>10, <1>11, <1>12, <1>14, <1>15,
             <1>16, Zenon DEF Next

-----------------------------------------------------------------------------
(* The index of what is served on demand in the clear                       *)

(* The place of a fragment is all that is set once it is written.           *)
LEMMA PlacedIs ==
    ASSUME NEW gs, NEW i \in DOMAIN gs, DOMAIN gs[i] = DOMAIN NewFragment
    PROVE  LET f == PlaceFragments(gs)[i]
           IN  /\ f.moof_data = gs[i].moof_data /\ f.moof_size = gs[i].moof_size
               /\ f.mdat_header_size = gs[i].mdat_header_size
               /\ f.mdat_size = gs[i].mdat_size /\ f.chunks = gs[i].chunks
  <1> DEFINE g == gs[i]
             f == PlaceFragments(gs)[i]
  <1>1. PICK x : f = [g EXCEPT !.offset = x]
    BY Zenon DEF PlaceFragments
  <1>2. {"moof_data", "moof_size", "mdat_header_size", "mdat_size", "chunks"} \subseteq DOMAIN g
    BY DEF NewFragment
  <1> HIDE DEF g, f
  <1>3. /\ f.moof_data = g.moof_data /\ f.moof_size = g.moof_size
        /\ f.mdat_header_size = g.mdat_header_size
        /\ f.mdat_size = g.mdat_size /\ f.chunks = g.chunks
    BY <1>1, <1>2
  <1> QED BY <1>3 DEF f, g

(* The track as it is described in the clear                                *)
InTheClear(track) == [track EXCEPT !.is_encrypted = FALSE]

LEMMA ClearLevel ==
    ASSUME SoundInv, phase # "cut", NEW tr \in DOMAIN frags, NEW l,
           l.drm = "clear", l.stream # "ism",
           DOMAIN movie.tracks[tr] = DOMAIN NewTrack
    PROVE  LET fs == Level(tr, l).fragments
           IN  /\ IsSeq(fs) /\ Len(fs) = Len(frags[tr])
               /\ Level(tr, l).header =
                      SerializeTrackDash(movie, InTheClear(movie.tracks[tr]), fs).data
               /\ \A i \in 1 .. Len(fs) :
                    LET f == fs[i]
                        g == frags[tr][i]
                    IN  /\ IsSeq(f.moof_data) /\ f.moof_size = Len(f.moof_data)
                        /\ f.mdat_header_size = 0
                        /\ f.mdat_size = g.mdat_size /\ f.chunks = g.chunks
  <1> DEFINE n == Len(frags[tr])
             protected == (l.drm = "playready")
             track == [movie.tracks[tr] EXCEPT !.is_encrypted = protected]
             P(i) == ProtectedFragment(track, frags[tr][i], l)
             gs == [i \in DOMAIN frags[tr] |-> SerializeFragment(P(i))]
             fs == Level(tr, l).fragments
  <1>1. IsSeq(frags[tr]) /\ \A i \in 1 .. n : FragmentIsSound(frags[tr][i])
    BY Zenon DEF SoundInv, FragsAreSound
  <1>2. n \in Nat /\ DOMAIN frags[tr] = 1 .. n
    BY <1>1, SeqFacts
  <1>3. fs = PlaceFragments(gs)
    BY DEF Level, LevelOf
  <1>4. Level(tr, l).header = SerializeTrackDash(movie, track, fs).data
    BY DEF Level, LevelOf
  <1>5. protected = FALSE
    OBVIOUS
  <1> HIDE DEF protected
  <1>6. \A i \in 1 .. n : gs[i] = SerializeFragment(frags[tr][i])
    BY <1>2, Zenon DEF ProtectedFragment
  <1>7. DOMAIN gs = 1 .. n
    BY <1>2
  <1> HIDE DEF n, gs, fs
  <1>8. fs = [i \in 1 .. n |-> fs[i]]
    BY <1>3, <1>7, Zenon DEF PlaceFragments
  <1>9. IsSeq(fs) /\ Len(fs) = n
    BY <1>2, <1>8, SeqOfFunction
  <1>10. ASSUME NEW i \in 1 .. n
         PROVE  /\ IsSeq(fs[i].moof_data) /\ fs[i].moof_size = Len(fs[i].moof_data)
                /\ fs[i].mdat_header_size = 0
                /\ fs[i].mdat_size = frags[tr][i].mdat_size
                /\ fs[i].chunks = frags[tr][i].chunks
    <2> DEFINE g == frags[tr][i]
    <2>1. DOMAIN g = DOMAIN NewFragment /\ CanBeWritten(g)
      BY <1>1, Zenon DEF FragmentIsSound
    <2>2. gs[i] = SerializeFragment(g)
      BY <1>6
    <2> HIDE DEF g
    <2>3. /\ DOMAIN gs[i] = DOMAIN NewFragment
          /\ IsSeq(gs[i].moof_data)
          /\ gs[i].moof_size = Len(gs[i].moof_data)
          /\ gs[i].mdat_header_size = 0
          /\ gs[i].mdat_size = g.mdat_size
          /\ gs[i].chunks = g.chunks
      BY <2>1, <2>2, FragmentIsWrittenAs
    <2>4. /\ fs[i].moof_data = gs[i].moof_data /\ fs[i].moof_size = gs[i].moof_size
          /\ fs[i].mdat_header_size = gs[i].mdat_header_size
          /\ fs[i].mdat_size = gs[i].mdat_size /\ fs[i].chunks = gs[i].chunks
      <3>1. i \in DOMAIN gs /\ DOMAIN gs[i] = DOMAIN NewFragment
        BY <1>7, <2>3
      <3>2. LET f == PlaceFragments(gs)[i]
            IN  /\ f.moof_data = gs[i].moof_data /\ f.moof_size = gs[i].moof_size
                /\ f.mdat_header_size = gs[i].mdat_header_size
                /\ f.mdat_size = gs[i].mdat_size /\ f.chunks = gs[i].chunks
        BY ONLY <3>1, PlacedIs
      <3> QED BY <1>3, <3>2, Zenon
    <2> QED BY <2>3, <2>4 DEF g
  <1> QED BY <1>4, <1>5, <1>9, <1>10 DEF n, fs, InTheClear

LEMMA KnownIsWritable ==
    ASSUME NEW known, TrackIsKnown(known)
    PROVE  IsWritable(InTheClear(known)) /\ InTheClear(known).is_encrypted = FALSE
  <1> DEFINE track == InTheClear(known)
  <1>1. {"is_encrypted", "hdlr", "esds_store", "esds", "stsd", "stts", "stsc", "stco", "stsz"}
        \subseteq DOMAIN known
    BY DEF TrackIsKnown, NewTrack
  <1>2. /\ track.is_encrypted = FALSE
        /\ track.hdlr = known.hdlr /\ track.esds_store = known.esds_store
        /\ track.esds = known.esds /\ track.stsd = known.stsd /\ track.stts = known.stts
        /\ track.stsc = known.stsc /\ track.stco = known.stco /\ track.stsz = known.stsz
    BY <1>1 DEF InTheClear
  <1>3. /\ IsSeq(known.hdlr.name)
        /\ IsSeq(known.esds_store.data) /\ IsSeq(known.esds.codec_data)
    BY DEF TrackIsKnown, IsSeq
  <1>4. /\ known.stsd.entry_count \in Nat
        /\ known.stts.entry_count \in Nat /\ known.stsc.entry_count \in Nat
        /\ known.stco.entry_count \in Nat /\ known.stsz.sample_count \in Nat
    BY DEF TrackIsKnown
  <1> HIDE DEF track
  <1>5. IsWritable(track)
    BY <1>2, <1>3, <1>4, Zenon DEF IsWritable
  <1> QED BY <1>2, <1>5 DEF track

LEMMA IndexIsFound ==
    ASSUME NEW m, ~m.pssh.present, NEW known, TrackIsKnown(known), NEW fs, IsSeq(fs),
           NEW i \in 1 .. Len(fs)
    PROVE  LET sidx == Child(SerializeTrackDash(m, InTheClear(known), fs).data, "sidx")
               r == fs[i].moof_size + fs[i].mdat_header_size + fs[i].mdat_size - 8
           IN  r \in Int => Get(sidx, 24 + (12 * (i - 1)), 4) = r
  <1> DEFINE track == InTheClear(known)
             d == SerializeTrackDash(m, track, fs).data
             r == fs[i].moof_size + fs[i].mdat_header_size + fs[i].mdat_size - 8
  <1>1. IsWritable(track) /\ track.is_encrypted = FALSE
    BY KnownIsWritable
  <1> HIDE DEF track
  <1>2. PICK z :
          /\ IsSeq(z)
          /\ SerializeSidx(CreateSidx(track, fs)) = Box("sidx", z)
          /\ r \in Int => Get(z, 24 + (12 * (i - 1)), 4) = r
    <2>1. \E z :
            /\ IsSeq(z)
            /\ SerializeSidx(CreateSidx(track, fs)) = Box("sidx", z)
            /\ \A j \in 1 .. Len(fs) :
                 LET q == fs[j].moof_size + fs[j].mdat_header_size + fs[j].mdat_size - 8
                 IN  q \in Int => Get(z, 24 + (12 * (j - 1)), 4) = q
      BY SidxIs
    <2> QED BY <2>1
  <1>3. PICK x, y :
          /\ IsSeq(x) /\ IsSeq(y)
          /\ d = Box("ftyp", x) \o Box("moov", y) \o SerializeSidx(CreateSidx(track, fs))
    BY <1>1, DashIs
  <1> HIDE DEF d
  <1>4. d = Box("ftyp", x) \o Box("moov", y) \o Box("sidx", z)
    BY <1>2, <1>3, Zenon
  <1>5. "ftyp" # "sidx" /\ "moov" # "sidx"
    OBVIOUS
  <1>6. Child(d, "sidx") = z
    <2>1. IsSeq(x) /\ IsSeq(y) /\ IsSeq(z)
      BY <1>2, <1>3
    <2>2. Child(Box("ftyp", x) \o Box("moov", y) \o Box("sidx", z), "sidx") = z
      BY ONLY <1>5, <2>1, ThirdChild
    <2> QED BY <1>4, <2>2, Zenon
  <1> HIDE DEF r
  <1>7. r \in Int => Get(Child(d, "sidx"), 24 + (12 * (i - 1)), 4) = r
    BY <1>2, <1>6
  <1> QED BY <1>7 DEF d, r, track

LEMMA ChunkIsKnown ==
    ASSUME NEW s, NEW f, NEW pl, NEW no, FileIs(s, f, pl, no), NEW tr \in DOMAIN s.fragments,
           NEW i \in 1 .. NumberOf(pl, tr), NEW g, HasChunk(s, pl, tr, i, g)
    PROVE  \E o, n \in Nat : g.chunks = <<[offset |-> o, size |-> n]>>
  <1>1. PICK k \in FragmentsOf(pl) :
           pl[k].track = tr /\ pl[k].number = i /\ PlaceIn(pl, tr, i) = pl[k]
    BY PlaceOfNumber
  <1> DEFINE at == PlaceIn(pl, tr, i).at
             m == MoofLength(s, tr, i)
             d == Len(s.data[tr][i])
             o == (at + s.sizes[tr][i]) - d
  <1>2. at \in Nat /\ m \in Nat /\ d \in Nat /\ s.sizes[tr][i] = m + 8 + d
    <2>1. LET p == pl[k]
              x == MoofLength(s, p.track, p.number)
              y == Len(s.data[p.track][p.number])
          IN  p.at \in Nat /\ x \in Nat /\ y \in Nat /\ s.sizes[p.track][p.number] = x + 8 + y
      BY FragmentStands
    <2> QED BY <1>1, <2>1, Zenon
  <1>3. g.chunks = <<[offset |-> o, size |-> d]>>
    BY Zenon DEF HasChunk
  <1> HIDE DEF at, m, d
  <1>4. o \in Nat
    BY <1>2
  <1> QED BY <1>2, <1>3, <1>4, Zenon

(* What is served for a whole fragment in the clear                         *)
LEMMA AnswerIs ==
    ASSUME IsSeq(file), load.drm = "clear", load.stream # "ism",
           NEW f, IsSeq(f.moof_data), NEW o \in Nat, NEW n \in Nat,
           f.chunks = <<[offset |-> o, size |-> n]>>, o + n <= Len(file)
    PROVE  Len(Answer(f)) = Len(f.moof_data) + n /\ Len(f.moof_data) \in Nat
  <1> DEFINE d == SubSeq(file, o + 1, o + n)
  <1>1. f.chunks[1].offset = o /\ f.chunks[1].size = n
    OBVIOUS
  <1>2. ServedData(f) = d
    <2> DEFINE s == [i \in DOMAIN f.chunks |->
                       SubSeq(file, f.chunks[i].offset + 1, f.chunks[i].offset + f.chunks[i].size)]
    <2>1. s = <<d>>
      BY <1>1
    <2>2. ServedData(f) = FlattenSeq(s)
      BY Zenon DEF ServedData, LoadChunks
    <2> HIDE DEF s, d
    <2> QED BY <2>1, <2>2, FlatOne
  <1>3. IsSeq(d) /\ Len(d) = n
    <2>1. o + n \in Nat /\ o <= o + n /\ (o + n) - o = n
      OBVIOUS
    <2>2. IsSeq(d) /\ Len(d) = IF o <= o + n THEN (o + n) - o ELSE 0
      BY <2>1, SubFacts
    <2> QED BY <2>1, <2>2, Zenon
  <1> HIDE DEF d
  <1>4. Answer(f) = f.moof_data \o d
    BY <1>2, Zenon DEF Answer
  <1>5. Len(f.moof_data \o d) = Len(f.moof_data) + Len(d) /\ Len(f.moof_data) \in Nat
    <2> DEFINE moof == f.moof_data
    <2>1. IsSeq(moof) /\ IsSeq(d)
      BY <1>3
    <2> HIDE DEF moof
    <2>2. Len(moof \o d) = Len(moof) + Len(d) /\ Len(moof) \in Nat
      BY ONLY <2>1, CatFacts, SeqFacts
    <2> QED BY <2>2 DEF moof
  <1> QED BY <1>3, <1>4, <1>5

LEMMA IndexIsRightIn ==
    ASSUME IInv, SoundInv, phase = "serve", isIsml, load.stream = "ondemand",
           load.drm = "clear", NEW tr \in DOMAIN levels,
           NEW i \in DOMAIN levels[tr].fragments, IsWhole(levels[tr].fragments[i])
    PROVE  Get(Child(levels[tr].header, "sidx"), 24 + (12 * (i - 1)), 4)
           = Len(Answer(levels[tr].fragments[i]))
  <1> DEFINE fs == levels[tr].fragments
             f == fs[i]
             g == frags[tr][i]
             known == movie.tracks[tr]
             track == InTheClear(known)
  <1>1. tr \in Served /\ levels[tr] = Level(tr, load) /\ movie # NoMovie
    BY DEF SoundInv
  <1>2. /\ FileIs(source, file, places, noise)
        /\ IsDone(source, places, isIsml, movie, frags, error)
    BY DEF IInv, FileInv
  <1>3. /\ movie = source.movie /\ DOMAIN frags = DOMAIN source.fragments
        /\ \A t \in DOMAIN frags :
             /\ IsSeq(frags[t])
             /\ Len(frags[t]) <= NumberOf(places, t)
             /\ \A j \in DOMAIN frags[t] : HasChunk(source, places, t, j, frags[t][j])
    BY <1>1, <1>2 DEF IsDone
  <1>4. source \in Sources /\ NumbersAreUsed(source, places) /\ IsSeq(file) /\ Len(file) \in Nat
    BY <1>2, FileFacts
  <1>5. SourceIsKnown(source)
    BY <1>4, SourcesAssumption
  <1>6. /\ ~movie.pssh.present
        /\ movie.tracks \in Seq(Range(movie.tracks))
        /\ DOMAIN source.fragments = DOMAIN movie.tracks
        /\ \A t \in DOMAIN movie.tracks : TrackIsKnown(movie.tracks[t])
    BY <1>3, <1>5 DEF SourceIsKnown
  <1>7. tr \in DOMAIN frags /\ TrackIsKnown(known)
    BY <1>1, <1>3, <1>6, ServedAreTracks
  <1>8. load.stream # "ism"
    OBVIOUS
  <1>9. DOMAIN known = DOMAIN NewTrack
    BY <1>7 DEF TrackIsKnown
  <1>10. /\ IsSeq(fs) /\ Len(fs) = Len(frags[tr])
         /\ levels[tr].header = SerializeTrackDash(movie, track, fs).data
         /\ \A j \in 1 .. Len(fs) :
              /\ IsSeq(fs[j].moof_data) /\ fs[j].moof_size = Len(fs[j].moof_data)
              /\ fs[j].mdat_header_size = 0
              /\ fs[j].mdat_size = frags[tr][j].mdat_size
              /\ fs[j].chunks = frags[tr][j].chunks
    <2> DEFINE hs == Level(tr, load).fragments
    <2>1. /\ SoundInv /\ phase # "cut" /\ tr \in DOMAIN frags
          /\ load.drm = "clear" /\ load.stream # "ism"
          /\ DOMAIN movie.tracks[tr] = DOMAIN NewTrack
      BY <1>7, <1>8, <1>9
    <2>2. /\ IsSeq(hs) /\ Len(hs) = Len(frags[tr])
          /\ Level(tr, load).header = SerializeTrackDash(movie, track, hs).data
          /\ \A j \in 1 .. Len(hs) :
               /\ IsSeq(hs[j].moof_data) /\ hs[j].moof_size = Len(hs[j].moof_data)
               /\ hs[j].mdat_header_size = 0
               /\ hs[j].mdat_size = frags[tr][j].mdat_size
               /\ hs[j].chunks = frags[tr][j].chunks
      BY ONLY <2>1, ClearLevel
    <2>3. fs = hs
      BY <1>1
    <2> HIDE DEF hs, fs, track
    <2> QED BY <1>1, <2>2, <2>3
  <1>11. i \in 1 .. Len(fs)
    BY <1>10, SeqFacts
  <1> HIDE DEF fs
  <1>12. /\ IsSeq(f.moof_data) /\ f.moof_size = Len(f.moof_data)
         /\ f.mdat_header_size = 0 /\ f.mdat_size = g.mdat_size /\ f.chunks = g.chunks
    BY <1>10, <1>11
  <1>13. PICK o, n \in Nat : g.chunks = <<[offset |-> o, size |-> n]>>
    <2>1. i \in 1 .. Len(frags[tr]) /\ Len(frags[tr]) \in Nat
      BY <1>3, <1>7, <1>10, <1>11, SeqFacts
    <2>2. HasChunk(source, places, tr, i, g)
      BY <1>3, <1>7, <2>1, SeqFacts
    <2>3. i \in 1 .. NumberOf(places, tr) /\ tr \in DOMAIN source.fragments
      <3>1. tr \in DOMAIN source.fragments
        BY <1>3, <1>7
      <3>2. NumberOf(places, tr) \in 0 .. Len(source.fragments[tr])
        BY <1>4, <3>1 DEF NumbersAreUsed
      <3> QED BY <1>3, <1>7, <2>1, <3>1, <3>2
    <2> HIDE DEF g
    <2> QED BY <1>2, <2>2, <2>3, ChunkIsKnown
  <1>14. f.chunks[1].offset = o /\ f.chunks[1].size = n /\ f.chunks # <<>>
    BY <1>12, <1>13
  <1>15. o + n <= Len(file)
    <2>1. 1 \in DOMAIN f.chunks
      BY <1>12, <1>13
    <2>2. IsWhole(f)
      BY DEF fs
    <2> HIDE DEF f
    <2> QED BY <1>14, <2>1, <2>2 DEF IsWhole
  <1>16. g.mdat_size \in Nat /\ n = g.mdat_size - 8
    <2>1. FragmentIsSound(g)
      BY <1>7, <1>10, <1>11, Zenon DEF SoundInv, FragsAreSound
    <2> HIDE DEF f, g
    <2> QED BY <1>12, <1>14, <2>1, Zenon DEF FragmentIsSound
  <1>17. Len(Answer(f)) = Len(f.moof_data) + n /\ Len(f.moof_data) \in Nat
    <2> HIDE DEF f
    <2> QED BY <1>4, <1>8, <1>12, <1>13, <1>15, AnswerIs
  <1> DEFINE r == f.moof_size + f.mdat_header_size + f.mdat_size - 8
  <1>18. r \in Int /\ r = Len(Answer(f))
    <2> HIDE DEF f, g
    <2> QED BY <1>12, <1>13, <1>16, <1>17
  <1>19. r \in Int
         => Get(Child(SerializeTrackDash(movie, track, fs).data, "sidx"),
                24 + (12 * (i - 1)), 4) = r
    <2>1. ~movie.pssh.present /\ TrackIsKnown(known) /\ IsSeq(fs) /\ i \in 1 .. Len(fs)
      BY <1>6, <1>7, <1>10, <1>11
    <2> HIDE DEF known
    <2> QED BY ONLY <2>1, IndexIsFound
  <1> HIDE DEF r, track, f
  <1>20. Get(Child(levels[tr].header, "sidx"), 24 + (12 * (i - 1)), 4) = Len(Answer(f))
    BY <1>10, <1>18, <1>19, Zenon
  <1> QED BY <1>20 DEF f, fs

(* All that has been read of a recording can be written again, and the size *)
(* that is kept for the samples of a fragment is that of its chunk with the *)
(* header of its mdat.  What is served was made of what had been read       *)
(* (gss_isom_parser_parse_file, gss_level_from_track).                      *)
THEOREM ReadCanBeWritten == Spec => []SoundInv
  BY Inductive, SoundAtInit, SoundLater, PTL DEF Spec

(* In the clear, the index of an on-demand file gives each whole fragment   *)
(* the size that is served for it, whatever the recording, its tracks and   *)
(* their fragments are (create_sidx, convert_isoff_ondemand).               *)
THEOREM IndexIsRightAlways == Spec => []IndexIsRight
  <1>1. IInv /\ SoundInv => IndexIsRight
    BY IndexIsRightIn, Zenon DEF IndexIsRight
  <1> QED BY <1>1, Inductive, ReadCanBeWritten, PTL
=============================================================================
