----------------------------- MODULE DashRange ------------------------------
(***************************************************************************)
(* Byte ranges of a fragmented file (gss-adaptive.c), as DASH players ask  *)
(* for them.                                                               *)
(*                                                                         *)
(* A track is served as one file that is never written: a header with the  *)
(* index (sidx) of the fragments, and then for each fragment the moof data *)
(* and the samples.  The moof data of a fragment ends with the header of   *)
(* the mdat box and, in an encrypted file, a table in front of the samples.*)
(* Where each part is in the file is computed when the file is loaded, the *)
(* bytes are put together when a range is asked for.                       *)
(*                                                                         *)
(* A byte is a tuple that says which one it is; sizes are scaled down.     *)
(***************************************************************************)
EXTENDS Fragmentizer

CONSTANTS Header,   \* track->dash_header_and_sidx_size
          MoofBox,  \* size of a moof box
          MdatBox,  \* the 8 bytes of an mdat header
          Prefix    \* fragment->mdat_header_size: 0 unless encrypted

ASSUME SizeAssumption == {Header, MoofBox, MdatBox, Prefix} \subseteq Nat

VARIABLES asked,  \* the track a player has asked for, or "none"
          last,   \* the last range it asked for
          body,   \* the answer to it
          got,    \* all answers so far, one after the other
          wild    \* the list of a fragment without samples has been used

dashVars == <<asked, last, body, got, wild>>
vars == <<fragVars, dashVars>>

DashInit ==
    /\ asked = "none"
    /\ last = [start |-> 0, end |-> 0]
    /\ body = <<>>
    /\ got = <<>>
    /\ wild = FALSE

Init == FragInit /\ DashInit

-----------------------------------------------------------------------------
(* The sizes of a fragment as its parts set them: gss_isom_fragment_serial-*)
(* ize counts the mdat header in the moof, the fragmentizer in the mdat.   *)
DataSize(f) == Total([k \in DOMAIN f.samples |-> f.samples[k].of.size])
MoofSize(f) == MoofBox + MdatBox + Prefix
MdatSize(f) == MdatBox + DataSize(f)

(* gss_adaptive_convert_isoff_ondemand: fragment->offset, track->dash_size *)
SizeInFile(f) == MoofSize(f) + Prefix + MdatSize(f)
OffsetInFile(tr, i) == Total([j \in 1 .. i - 1 |-> SizeInFile(frags[tr][j])])
DashSize(tr) == Header + OffsetInFile(tr, Len(frags[tr]) + 1)

(* The bytes of each part                                                  *)
HeaderBytes == [j \in 1 .. Header |-> <<"header", j>>]
MoofBytes(f, i) == [j \in 1 .. MoofSize(f) |-> <<"moof", i, j>>]
DataBytes(f, i) == [j \in 1 .. DataSize(f) |-> <<"data", i, j>>]

ClipToo(bytes, at, r) ==  \* a mutant: the end of a range is taken to be in it
    LET from == IF r.start > at THEN r.start - at ELSE 0
        to == IF r.end + 1 < at + Len(bytes) THEN r.end + 1 - at ELSE Len(bytes)
    IN SubSeq(bytes, from + 1, to)

(* gss_soup_message_body_append_clipped                                    *)
Clip(bytes, at, r) ==
    LET from == IF r.start > at THEN r.start - at ELSE 0
        to == IF r.end < at + Len(bytes) THEN r.end - at ELSE Len(bytes)
    IN SubSeq(bytes, from + 1, to)

(* gss_adaptive_dash_range_async                                           *)
Body(tr, r) ==
    LET Part(i) == LET f == frags[tr][i]
                       at == Header + OffsetInFile(tr, i)
                   IN Clip(MoofBytes(f, i), at, r)
                         \o Clip(DataBytes(f, i), at + MoofSize(f), r)
    IN Clip(HeaderBytes, 0, r) \o FlattenSeq([i \in DOMAIN frags[tr] |-> Part(i)])

(* gss_sglist_new makes no list for a fragment that has no samples, and the*)
(* worker does not look whether there is one.                              *)
MeetsNoList(tr, r) ==
    \E i \in DOMAIN frags[tr] :
        LET f == frags[tr][i]
            at == Header + OffsetInFile(tr, i) + MoofSize(f)
        IN f.samples = <<>> /\ r.start < at + MdatSize(f) /\ at < r.end

-----------------------------------------------------------------------------
(* A player asks for a range of a track: the first or the next one.        *)
GetRange(tr, end) ==
    /\ track = "none" /\ ~wild
    /\ asked \in {"none", tr}
    /\ asked' = tr
    /\ last' = [start |-> last.end, end |-> end]
    /\ wild' = MeetsNoList(tr, last')
    /\ body' = IF wild' THEN <<>> ELSE Body(tr, last')
    /\ got' = got \o body'
    /\ UNCHANGED fragVars

Next ==
    \/ FragNext /\ UNCHANGED dashVars
    \/ \E tr \in Tracks : \E end \in last.end + 1 .. DashSize(tr) : GetRange(tr, end)

Spec == Init /\ [][Next]_vars

-----------------------------------------------------------------------------
(* The file that the ranges are ranges of                                  *)
File(tr) == HeaderBytes \o
    FlattenSeq([i \in DOMAIN frags[tr] |->
                   MoofBytes(frags[tr][i], i) \o DataBytes(frags[tr][i], i)])

TypeOK ==
    /\ movie \in Movies
    /\ track \in {"video", "audio", "none"}
    /\ iter \in [sample : Nat, stts : Nat, inStts : Nat, stsc : Nat,
                 chunk : Nat, inChunk : Nat, offset : Nat]
    /\ {ticks, time, left} \subseteq Nat
    /\ DOMAIN frags = {"video", "audio"}
    /\ asked \in {"video", "audio", "none"}
    /\ last \in [start : Nat, end : Nat]
    /\ last.start <= last.end
    /\ wild \in BOOLEAN

(* The fragments that the ranges are cut from.                             *)
FragmentsAreSound == TypeOK /\ SamplesAreRight /\ TimesDoNotDrift

(* A player that fetches a track in adjacent ranges, however it cuts them, *)
(* gets the bytes of the file in order, each once, and when it has asked   *)
(* for dash_size bytes it has the whole file.                              *)
RangesFitTogether ==
    asked # "none" /\ ~wild =>
        /\ IsPrefix(got, File(asked))
        /\ last.end = DashSize(asked) => got = File(asked)

(* An answer is as long as the range that its Content-Range states.  The   *)
(* mdat header is "at end of moof_data" (gss-adaptive.c), but the offsets  *)
(* count it there and in the mdat too.                                     *)
AnswerFillsRange == wild \/ Len(body) = last.end - last.start
=============================================================================
