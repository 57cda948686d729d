---------------------------- MODULE SampleTables ----------------------------
(***************************************************************************)
(* The tables of a track (gss-isom.c): stts says how long samples last,    *)
(* stsc how many are in each chunk, stsz their sizes, stss which samples   *)
(* of video are sync samples.  Here is the iterator, which walks them a    *)
(* sample at a time, the lookup of a sample by time, and what the tables   *)
(* mean.                                                                   *)
(*                                                                         *)
(* Samples are counted from 0 and the entries of tables from 1.  A track   *)
(* whose samples all have one size is not walked: get_sample asserts that  *)
(* stsz lists their sizes.                                                 *)
(***************************************************************************)
EXTENDS Integers, SequencesExt

Total(s) ==
    LET sum[i \in 0 .. Len(s)] == IF i = 0 THEN 0 ELSE sum[i - 1] + s[i]
    IN sum[Len(s)]

NumSamples(t) == Len(t.size)
EntryStart(t, i) == Total([j \in 1 .. i - 1 |-> t.stts[j].count])
EntryTime(t, i) == Total([j \in 1 .. i - 1 |-> t.stts[j].count * t.stts[j].delta])

(* What a file has to have in its tables: a time for each sample, a chunk  *)
(* for each, and of video a sync sample to begin with.                     *)
IsTrack(t) ==
    /\ t.size \in Seq(Nat)
    /\ t.timescale \in Nat \ {0}
    /\ t.stts \in Seq([count : Nat \ {0}, delta : Nat])
    /\ EntryStart(t, Len(t.stts) + 1) = NumSamples(t)
    /\ t.stsc \in Seq([first : Nat \ {0}, per : Nat \ {0}]) \ {<<>>}
    /\ t.stsc[1].first = 1
    /\ \A i, j \in DOMAIN t.stsc : i < j => t.stsc[i].first < t.stsc[j].first

HasSync(t) ==
    /\ t.stss \in Seq(1 .. NumSamples(t)) \ {<<>>}
    /\ t.stss[1] = 1
    /\ \A i, j \in DOMAIN t.stss : i < j => t.stss[i] < t.stss[j]

-----------------------------------------------------------------------------
(* gss_isom_sample_iter_init                                               *)
FirstSample == [sample |-> 0, stts |-> 1, inStts |-> 0, stsc |-> 1,
                chunk |-> 0, inChunk |-> 0, offset |-> 0]

(* gst_util_uint64_scale_int                                               *)
ScaleInt(n, num, denom) == (n * num) \div denom

IndexWithoutBase(t, at) ==  \* a mutant: the time before the entry is not subtracted
    LET later == {i \in DOMAIN t.stts : at < EntryTime(t, i + 1)}
        i == CHOOSE j \in later : \A k \in later : j <= k
    IN IF later = {} THEN NumSamples(t)
       ELSE EntryStart(t, i) + at \div t.stts[i].delta

(* gss_isom_track_get_index_from_timestamp                                 *)
IndexFromTimestamp(t, at) ==
    LET later == {i \in DOMAIN t.stts : at < EntryTime(t, i + 1)}
        i == CHOOSE j \in later : \A k \in later : j <= k
    IN IF later = {} THEN NumSamples(t)
       ELSE EntryStart(t, i) + (at - EntryTime(t, i)) \div t.stts[i].delta

(* gss_isom_sample_iter_get_sample                                         *)
Sample(t, it) == [size |-> t.size[it.sample + 1], delta |-> t.stts[it.stts].delta,
                  chunk |-> it.chunk, offset |-> it.offset]

(* gss_isom_sample_iter_iterate.  It walks ctts as it walks stts: module    *)
(* IsomCut takes the walk over ctts from here too.                          *)
Iterate(t, it) ==
    LET endOfEntry == it.inStts + 1 >= t.stts[it.stts].count
        endOfChunk == it.inChunk + 1 >= t.stsc[it.stsc].per
        chunk == IF endOfChunk THEN it.chunk + 1 ELSE it.chunk
    IN [sample |-> it.sample + 1,
        stts |-> IF endOfEntry THEN it.stts + 1 ELSE it.stts,
        inStts |-> IF endOfEntry THEN 0 ELSE it.inStts + 1,
        chunk |-> chunk,
        inChunk |-> IF endOfChunk THEN 0 ELSE it.inChunk + 1,
        offset |-> IF endOfChunk THEN 0 ELSE it.offset + t.size[it.sample + 1],
        stsc |-> IF it.stsc < Len(t.stsc) /\ chunk >= t.stsc[it.stsc + 1].first - 1
                 THEN it.stsc + 1 ELSE it.stsc]

-----------------------------------------------------------------------------
(* What the tables mean, an entry and a chunk at a time                    *)

DeltaOf(t, k) ==
    t.stts[CHOOSE i \in DOMAIN t.stts : EntryStart(t, i) <= k /\ k < EntryStart(t, i + 1)].delta

(* How many samples chunk c has.                                           *)
PerChunk(t, c) ==
    LET now == {i \in DOMAIN t.stsc : t.stsc[i].first - 1 <= c}
    IN t.stsc[CHOOSE i \in now : \A j \in now : j <= i].per

ChunkStart(t, c) == Total([d \in 1 .. c |-> PerChunk(t, d - 1)])
ChunkOf(t, k) ==
    CHOOSE c \in 0 .. k : ChunkStart(t, c) <= k /\ k < ChunkStart(t, c + 1)
OffsetOf(t, k) == Total(SubSeq(t.size, ChunkStart(t, ChunkOf(t, k)) + 1, k))

TicksBefore(t, k) == Total([j \in 1 .. k |-> DeltaOf(t, j - 1)])
=============================================================================
