------------------------------ MODULE IsomFile ------------------------------
(***************************************************************************)
(* A file of fragments from one server to the next.  A recorder writes the  *)
(* header and the fragments that a stream consists of, with boxes of other  *)
(* kinds between them, and may be cut off in the last fragment.  The parser *)
(* reads the file a box at a time (gss_isom_parser_parse_file), and the     *)
(* movie is loaded to be served again (load_file, gss-adaptive.c), in the   *)
(* clear or encrypted.  A movie without fragments is cut into some first.   *)
(***************************************************************************)
EXTENDS IsomCut

CONSTANTS Sources,    \* the movies that are recorded: what their header is, what is
                      \* read from it, and the fragments and samples of each track
          Noises,     \* boxes of other kinds
          MaxNoise,   \* how many of them there are (bound)
          Loads,      \* the streams and kinds of protection that are asked for
          TrackShift  \* how far the vectors of two tracks are apart

VARIABLES source,     \* the movie that is recorded
          file,       \* its bytes
          places,     \* where the fragments were written
          noise,      \* where the boxes of other kinds were written
          phase,      \* "write", "read", "load", and then "serve", or "cut" when
                      \* what is served are the fragments it was cut into
          offset,     \* parser->offset
          isIsml,     \* parser->is_isml
          movie,      \* parser->movie
          frags,      \* the fragments of its tracks
          current,    \* parser->current_fragment
          error,      \* parser->error
          load,       \* adaptive->stream_type and drm_type
          levels      \* what is served, for each track

fileVars == <<source, file, places, noise>>
parserVars == <<offset, isIsml, movie, frags, current, error>>
vars == <<fileVars, phase, parserVars, load, levels>>

NoMovie == [tracks |-> <<>>]  \* parser->movie is NULL

-----------------------------------------------------------------------------
(* What is recorded, box by box                                             *)

(* The size of a box is in its header, in 32 or 64 bits, or 0 in the last   *)
(* box.                                                                     *)
SizeAt(b, p) ==
    IF Get(b, p, 4) = 1 THEN Get(b, p + 8, 8)
    ELSE IF Get(b, p, 4) = 0 THEN Len(b) - p
    ELSE Get(b, p, 4)

HeadLength(b, p) == IF Get(b, p, 4) = 1 THEN 16 ELSE 8

(* b is boxes one after another, which start at the places in P and whose   *)
(* sizes are known when they are written.                                   *)
IsBoxes(b, P) ==
    /\ b \in Seq(Range(b))
    /\ 0 \in P
    /\ \A p \in P :
        LET next == p + SizeAt(b, p)
        IN  /\ p \in Nat /\ SizeAt(b, p) \in Nat
            /\ Get(b, p, 4) # 0
            /\ p + HeadLength(b, p) <= next /\ next <= Len(b)
            /\ next \in P \cup {Len(b)}
            /\ \A q \in P : q <= p \/ next <= q

HeaderBoxes(b) ==
    LET boxes == Children(b)
    IN  {SumOf(SubSeq(boxes, 1, i - 1), LAMBDA box : 8 + Len(box.body)) : i \in DOMAIN boxes}

(* The fragment of a track as it is written, with its samples                *)
Recorded(s, tr, n) == SerializeFragment(s.fragments[tr][n]).moof_data \o s.data[tr][n]

MoofLength(s, tr, n) == s.sizes[tr][n] - Len(s.data[tr][n]) - 8

(* The header of a recording, by itself, is one moov and boxes that are not  *)
(* those of fragments.                                                      *)
HeaderIsKnown(s) ==
    LET b == s.header
        P == HeaderBoxes(b)
    IN  /\ IsBoxes(b, P)
        /\ \A p \in P : GetAtom(b, p + 4) \notin {"moof", "mdat"}
        /\ s.movie # NoMovie
        /\ \E m \in P :
            /\ \A p \in P : GetAtom(b, p + 4) = "moov" <=> p = m
            /\ ParseMoov(SubSeq(b, m + 9, m + SizeAt(b, m))) = s.movie

(* A fragment of it, by itself, is a moof and an mdat, and is read as what   *)
(* the recording says of it.                                                *)
FragmentIsKnown(s, tr, n) ==
    LET b == Recorded(s, tr, n)
        m == MoofLength(s, tr, n)
        f == FixupMoof(ParseMoof(SubSeq(b, 9, m)))
    IN  /\ IsBoxes(b, {0, m})
        /\ s.sizes[tr][n] = Len(b)
        /\ s.data[tr][n] \in Seq(Range(s.data[tr][n]))
        /\ m > 0
        /\ GetAtom(b, 4) = "moof" /\ GetAtom(b, m + 4) = "mdat"
        /\ HeadLength(b, 0) = 8 /\ HeadLength(b, m) = 8
        /\ DOMAIN f = DOMAIN NewFragment
        /\ f.tfhd.track_id = s.movie.tracks[tr].tkhd.track_id
        /\ f.mfhd.sequence_number = s.fragments[tr][n].mfhd.sequence_number
        /\ [j \in DOMAIN f.trun.samples |-> <<f.trun.samples[j].duration, f.trun.samples[j].size>>]
           = s.timing[tr][n]
        /\ f.trun.sample_count \in 0 .. VectorShift
        /\ f.trun.samples \in Seq(Range(f.trun.samples))
        /\ DOMAIN f.sample_encryption = DOMAIN SampleEncryption
        /\ LET vectors == f.sample_encryption.samples
           IN  /\ vectors \in Seq(Range(vectors))
               /\ \A v \in Range(vectors) : v.entries \in Seq(Range(v.entries))
        /\ f.saiz = Aux /\ f.mdat_header = <<>> /\ f.chunks = <<>>

(* Names and data of a track are bytes, and its tables are counted.          *)
TrackIsKnown(track) ==
    /\ DOMAIN track = DOMAIN NewTrack
    /\ track.tkhd.track_id \in Nat
    /\ \A b \in {track.hdlr.name, track.esds_store.data, track.esds.codec_data} :
        b \in Seq(Range(b))
    /\ {track.stsd.entry_count, track.stts.entry_count, track.stsc.entry_count,
        track.stco.entry_count, track.stsz.sample_count} \subseteq Nat

SourceIsKnown(s) ==
    /\ HeaderIsKnown(s)
    /\ ~s.movie.pssh.present
    /\ s.movie.tracks \in Seq(Range(s.movie.tracks))
    /\ DOMAIN s.fragments = DOMAIN s.movie.tracks
    /\ \A tr \in DOMAIN s.movie.tracks : TrackIsKnown(s.movie.tracks[tr])
    /\ \A tr, u \in DOMAIN s.movie.tracks :
        s.movie.tracks[tr].tkhd.track_id = s.movie.tracks[u].tkhd.track_id => tr = u
    /\ \A tr \in DOMAIN s.fragments :
        /\ s.fragments[tr] \in Seq(Range(s.fragments[tr]))
        /\ \A n \in DOMAIN s.fragments[tr] : FragmentIsKnown(s, tr, n)

ASSUME SourcesAssumption == \A s \in Sources : SourceIsKnown(s)

(* The vectors of a track end before those of the next one begin, as those  *)
(* of a fragment do.                                                        *)
ASSUME VectorsAssumption ==
    /\ VectorShift \in Nat
    /\ TrackShift \in Nat
    /\ \A s \in Sources : \A tr \in DOMAIN s.fragments :
        Len(s.fragments[tr]) * VectorShift <= TrackShift

(* A box of another kind is none of those the parser makes something of;    *)
(* samples without a fragment are.                                          *)
ASSUME NoisesAssumption ==
    \A b \in Noises : IsBoxes(b, {0}) /\ GetAtom(b, 4) \notin {"ftyp", "moov", "moof"}

-----------------------------------------------------------------------------
NoFragment == <<0, 0>>  \* no current fragment
Lost == <<0, 1>>        \* one of no track

Init ==
    /\ source \in Sources
    /\ file = <<>>
    /\ places = <<>>
    /\ noise = {}
    /\ phase = "write"
    /\ offset = 0
    /\ isIsml = FALSE
    /\ movie = NoMovie
    /\ frags = <<>>
    /\ current = NoFragment
    /\ error = FALSE
    /\ load = "none"
    /\ levels = <<>>

-----------------------------------------------------------------------------
(* The recorder                                                             *)

WriteHeader ==
    /\ phase = "write"
    /\ places = <<>>
    /\ places' = <<[track |-> 0, number |-> 0, at |-> Len(file)]>>
    /\ file' = file \o source.header
    /\ UNCHANGED <<source, noise, phase, parserVars, load, levels>>

WrittenOf(tr) == Cardinality({i \in DOMAIN places : places[i].track = tr})

WriteFragment(tr) ==
    /\ phase = "write"
    /\ places # <<>>
    /\ LET n == WrittenOf(tr) + 1
       IN  /\ n <= Len(source.fragments[tr])
           /\ places' = Append(places, [track |-> tr, number |-> n, at |-> Len(file)])
           /\ file' = file \o Recorded(source, tr, n)
    /\ UNCHANGED <<source, noise, phase, parserVars, load, levels>>

(* Samples that belong to no fragment come before all fragments.            *)
WriteNoise(b) ==
    /\ phase = "write"
    /\ Cardinality(noise) < MaxNoise
    /\ GetAtom(b, 4) = "mdat" => Len(places) <= 1
    /\ noise' = noise \cup {Len(file)}
    /\ file' = file \o b
    /\ UNCHANGED <<source, places, phase, parserVars, load, levels>>

(* The recording ends, n bytes before the end of the last samples.          *)
Stop(n) ==
    /\ phase = "write"
    /\ places # <<>>
    /\ phase' = "read"
    /\ LET last == places[Len(places)]
           whole == last.track # 0 /\ Len(file) = last.at + source.sizes[last.track][last.number]
       IN  n # 0 => whole /\ n < Len(source.data[last.track][last.number])
    /\ file' = SubSeq(file, 1, Len(file) - n)
    /\ UNCHANGED <<source, places, noise, parserVars, load, levels>>

-----------------------------------------------------------------------------
(* The parser                                                               *)
BoxAtom == GetAtom(file, offset + 4)
BoxSize == SizeAt(file, offset)
AtMostFile(n) == IF n > Len(file) THEN Len(file) ELSE n

(* What file_read finds of the box after its header                         *)
BoxBody == SubSeq(file, offset + 9, AtMostFile(offset + BoxSize))

AtBox(atom) == phase = "read" /\ ~error /\ offset < Len(file) /\ BoxAtom = atom

Unread == UNCHANGED <<fileVars, phase, load, levels>>

ReadFtyp ==
    /\ AtBox("ftyp")
    /\ isIsml' = (isIsml \/ GetAtom(BoxBody, 0) \in {"isml", "dash"})
    /\ offset' = offset + BoxSize
    /\ UNCHANGED <<movie, frags, current, error>> /\ Unread

(* A second moov replaces the first one.                                    *)
ReadMoov ==
    /\ AtBox("moov")
    /\ movie' = ParseMoov(BoxBody)
    /\ frags' = [i \in DOMAIN movie'.tracks |-> <<>>]
    /\ offset' = offset + BoxSize
    /\ UNCHANGED <<isIsml, current, error>> /\ Unread

(* gss_isom_movie_get_track_by_id                                           *)
TracksWithId(id) == {i \in DOMAIN movie.tracks : movie.tracks[i].tkhd.track_id = id}

ReadMoof ==
    /\ AtBox("moof")
    /\ LET f == FixupMoof(ParseMoof(BoxBody))
           tracks == TracksWithId(f.tfhd.track_id)
           tr == FirstOf(tracks)
       IN  IF tracks = {} THEN current' = Lost /\ UNCHANGED frags
           ELSE /\ current' = <<tr, Len(frags[tr]) + 1>>
                /\ frags' = [frags EXCEPT ![tr] =
                       Append(@, [f EXCEPT !.index = Len(frags[tr]),
                                           !.duration = MoofDuration(f),
                                           !.offset = offset,
                                           !.moof_size = BoxSize])]
    /\ offset' = offset + BoxSize
    /\ UNCHANGED <<isIsml, movie, error>> /\ Unread

ReadMdatOfNext ==  \* a mutant: the samples are given to the first fragment of the track
    /\ AtBox("mdat")
    /\ ~(isIsml /\ current = NoFragment)
    /\ frags' = IF ~isIsml \/ current = Lost THEN frags
                ELSE [frags EXCEPT ![current[1]][1] =
                         [@ EXCEPT !.mdat_size = BoxSize,
                                   !.chunks = <<[offset |-> offset + 8, size |-> BoxSize - 8]>>]]
    /\ offset' = offset + BoxSize
    /\ UNCHANGED <<isIsml, movie, current, error>> /\ Unread

(* The samples of a fragment are one chunk, wherever they are.              *)
ReadMdat ==
    /\ AtBox("mdat")
    /\ ~(isIsml /\ current = NoFragment)
    /\ frags' = IF ~isIsml \/ current = Lost THEN frags
                ELSE [frags EXCEPT ![current[1]][current[2]] =
                         [@ EXCEPT !.mdat_size = BoxSize,
                                   !.chunks = <<[offset |-> offset + 8, size |-> BoxSize - 8]>>]]
    /\ offset' = offset + BoxSize
    /\ UNCHANGED <<isIsml, movie, current, error>> /\ Unread

(* "mdat with no moof, broken file"                                         *)
RefuseMdat ==
    /\ AtBox("mdat")
    /\ isIsml /\ current = NoFragment
    /\ error' = TRUE
    /\ phase' = "load"
    /\ UNCHANGED <<fileVars, offset, isIsml, movie, frags, current, load, levels>>

ReadOther ==
    /\ phase = "read" /\ ~error /\ offset < Len(file)
    /\ BoxAtom \notin {"ftyp", "moov", "moof", "mdat"}
    /\ offset' = offset + BoxSize
    /\ UNCHANGED <<isIsml, movie, frags, current, error>> /\ Unread

FixupOne(fs, i) ==
    [fs[i] EXCEPT !.timestamp = SumOf(SubSeq(fs, 1, i - 1), LAMBDA f : f.duration)]

(* gss_isom_parser_fixup                                                    *)
EndOfFile ==
    /\ phase = "read" /\ ~error /\ offset >= Len(file)
    /\ frags' = [tr \in DOMAIN frags |-> [i \in DOMAIN frags[tr] |-> FixupOne(frags[tr], i)]]
    /\ phase' = "load"
    /\ UNCHANGED <<fileVars, offset, isIsml, movie, current, error, load, levels>>

-----------------------------------------------------------------------------
(* Serving it again                                                         *)

(* generate_iv: a hash of the name of the file and the id of the track      *)
LevelIv(track) == TrackShift * track.tkhd.track_id

(* gss_level_from_track: the vectors of each fragment.  On demand they are  *)
(* told in saiz and saio, and in a table before the samples.                *)
ProtectedFragment(track, f, l) ==
    LET g == SetupIv(LevelIv(track), f, IsVideo(track))
    IN  IF l.drm = "clear" THEN f
        ELSE IF l.stream # "ondemand" THEN g
        ELSE [g EXCEPT !.sample_encryption.present = FALSE, !.saiz.present = TRUE,
                       !.saio.present = TRUE, !.tfdt.present = TRUE]

(* fragment->offset in what is served: the sum of what is counted for those *)
(* before it                                                                *)
PlaceFragments(fs) ==
    [i \in DOMAIN fs |-> [fs[i] EXCEPT !.offset =
        SumOf(SubSeq(fs, 1, i - 1),
              LAMBDA f : f.moof_size + f.mdat_header_size + f.mdat_size)]]

(* gss_adaptive_convert_ism, gss_adaptive_convert_isoff_ondemand            *)
LevelOf(m, read, tr, l) ==
    LET track == [m.tracks[tr] EXCEPT !.is_encrypted = (l.drm = "playready")]
        fs == PlaceFragments([i \in DOMAIN read[tr] |->
                  SerializeFragment(ProtectedFragment(track, read[tr][i], l))])
        withHeader == IF l.drm = "clear" THEN m
                      ELSE [m EXCEPT !.pssh = [@ EXCEPT !.present = TRUE, !.uuid = 9]]
    IN  [of |-> tr, fragments |-> fs,
         header |-> IF l.stream = "ism" THEN SerializeTrackCcff(m, track)
                    ELSE SerializeTrackDash(withHeader, track, fs).data]

Level(tr, l) == LevelOf(movie, frags, tr, l)

(* gss_isom_movie_get_video_track, gss_isom_movie_get_audio_track           *)
Served == LET video == VideoTracks(movie)
              audio == AudioTracks(movie)
          IN  (IF video = {} THEN {} ELSE {FirstOf(video)})
              \cup (IF audio = {} THEN {} ELSE {FirstOf(audio)})

(* Whether gss_isom_parser_fragmentize is called and does something         *)
IsToBeCut == frags[1] = <<>> /\ IsCuttable(movie)

(* load_file does not look at what the parser returned.  Without a movie,   *)
(* or a track in it, it does not get this far.                              *)
Load(l) ==
    /\ phase = "load"
    /\ movie.tracks # <<>> /\ ~IsToBeCut
    /\ phase' = "serve"
    /\ load' = l
    /\ levels' = [tr \in Served |-> Level(tr, l)]
    /\ UNCHANGED <<fileVars, parserVars>>

(* load_file, of a movie whose first track has no fragments                 *)
CutAndLoad(l) ==
    /\ phase = "load"
    /\ movie.tracks # <<>> /\ IsToBeCut /\ CanBeCut(movie)
    /\ phase' = "cut"
    /\ load' = l
    /\ LET cut == CutMovie(movie, frags, l.stream # "ism")
       IN  /\ movie' = cut.movie
           /\ frags' = cut.frags
           /\ levels' = [tr \in Served |-> LevelOf(cut.movie, cut.frags, tr, l)]
    /\ UNCHANGED <<fileVars, offset, isIsml, current, error>>

Next ==
    \/ WriteHeader
    \/ \E tr \in DOMAIN source.fragments : WriteFragment(tr)
    \/ \E b \in Noises : WriteNoise(b)
    \/ \E n \in 0 .. 1 : Stop(n)
    \/ ReadFtyp \/ ReadMoov \/ ReadMoof \/ ReadMdat \/ RefuseMdat \/ ReadOther \/ EndOfFile
    \/ \E l \in Loads : Load(l) \/ CutAndLoad(l)

Spec == Init /\ [][Next]_vars

-----------------------------------------------------------------------------
(* What a player gets and what it makes of it                               *)

(* The chunks that are loaded for a fragment are in the file to their ends. *)
IsWhole(f) ==
    /\ f.chunks # <<>>
    /\ \A i \in DOMAIN f.chunks : f.chunks[i].offset + f.chunks[i].size <= Len(file)

(* gss_sglist_load                                                          *)
LoadChunks(chunks) ==
    FlattenSeq([i \in DOMAIN chunks |->
        SubSeq(file, chunks[i].offset + 1, chunks[i].offset + chunks[i].size)])

(* gss_adaptive_assemble_chunk, without the header of the mdat, and what    *)
(* the workers do to it                                                     *)
ServedData(f) ==
    IF load.drm = "clear" THEN LoadChunks(f.chunks)
    ELSE EncryptSamples(f, LoadChunks(f.chunks))

(* The answer to a request for a fragment: gss_adaptive_async_assemble_     *)
(* chunk_finish takes the header of the mdat off and the chunk brings one.  *)
Answer(f) ==
    IF load.stream = "ism"
    THEN SubSeq(f.moof_data, 1, f.moof_size - 8) \o Put(4, f.mdat_size) \o PutAtom("mdat")
         \o ServedData(f)
    ELSE f.moof_data \o ServedData(f)

Child(b, atom) == LET S == {i \in DOMAIN Children(b) : Children(b)[i].atom = atom}
                  IN  Children(b)[FirstOf(S)].body

(* The vectors of n samples, at the given place with the sizes of saiz       *)
VectorsAt(answer, n, at, saiz) ==
    LET size(i) == IF Get(saiz, 4, 1) # 0 THEN Get(saiz, 4, 1) ELSE Get(saiz, 8 + i, 1)
        start[i \in Nat] == IF i <= 1 THEN at ELSE start[i - 1] + size(i - 1)
        entry == <<U16("clear"), U32("encrypted")>>
    IN  [i \in 1 .. n |->
            [iv |-> Get(answer, start[i], 8),
             entries |-> IF size(i) = 8 THEN <<>>
                         ELSE ReadTable(Blank(entry), answer, start[i] + 10,
                                        Get(answer, start[i] + 8, 2), entry)]]

(* saio counts from the moof on.                                            *)
PointedVectors(answer, n, traf) ==
    VectorsAt(answer, n, Get(Child(traf, "saio"), 8, 4), Child(traf, "saiz"))

ToldVectors(answer, f) ==
    IF load.drm = "clear" THEN <<>>
    ELSE IF load.stream = "ism" THEN f.sample_encryption.samples
    ELSE PointedVectors(answer, f.trun.sample_count, Child(Child(answer, "moof"), "traf"))

(* The samples of an answer, taken from where its trun says they are and    *)
(* decrypted with the vectors that come with them                           *)
PlayedWith(answer, trun, vectors) ==
    LET start[i \in Nat] == IF i <= 1 THEN trun.data_offset
                            ELSE start[i - 1] + trun.samples[i - 1].size
        Byte(i, byte, p) ==
            LET c == IF vectors = <<>> THEN 0 ELSE Counter(vectors[i].iv, vectors[i].entries, p)
            IN  IF c = 0 THEN byte ELSE Decrypted(vectors[i].iv, c, byte)
    IN  FlattenSeq([i \in 1 .. trun.sample_count |->
            [p \in 1 .. trun.samples[i].size |-> Byte(i, answer[start[i] + p], p)]])

ReadFragment(answer) == FixupMoof(ParseMoof(Child(answer, "moof")))
PlayedFragment(answer, f) == PlayedWith(answer, f.trun, ToldVectors(answer, f))
Played(answer) == PlayedFragment(answer, ReadFragment(answer))

(* The one track of the header that is served for a level                   *)
ServedTrack(level) == ParseMoov(Child(level.header, "moov")).tracks[1]

(* What a header says of a track, whichever boxes it is written in          *)
Description(track) ==
    <<track.tkhd, track.mdhd, track.hdlr, track.vmhd, track.smhd, track.hmhd,
      track.mp4v, track.mp4a, track.esds.codec_data>>

PlaceOf(tr, n) == CHOOSE p \in Range(places) : p.track = tr /\ p.number = n

(* Whatever is between them, the parser finds in a file the header and the  *)
(* fragments that were written, in order, each with its number, its samples *)
(* and, once the whole file is read, the time at which it starts; in a file *)
(* of fragments each one has the chunk that was written after it            *)
(* (gss_isom_parser_parse_file, gss_isom_parser_fixup).                     *)
FileIsRead ==
    phase = "load" /\ movie # NoMovie =>
        /\ movie = source.movie
        /\ \A tr \in DOMAIN frags :
            /\ ~error => Len(frags[tr]) = WrittenOf(tr)
            /\ \A i \in DOMAIN frags[tr] :
                LET f == frags[tr][i]
                    g == source.fragments[tr][i]
                    p == PlaceOf(tr, i)
                    end == p.at + source.sizes[tr][i]
                    size == Len(source.data[tr][i])
                IN  /\ f.index = i - 1
                    /\ f.offset = p.at
                    /\ f.mfhd.sequence_number = g.mfhd.sequence_number
                    /\ [j \in DOMAIN f.trun.samples |->
                           <<f.trun.samples[j].duration, f.trun.samples[j].size>>]
                       = source.timing[tr][i]
                    /\ ~error => f.timestamp =
                           SumOf(SubSeq(source.timing[tr], 1, i - 1),
                                 LAMBDA h : SumOf(h, LAMBDA s : s[1]))
                    /\ isIsml => f.chunks = <<[offset |-> end - size, size |-> size]>>

(* What cutting a movie changes of a track: the number of the track, and    *)
(* with sound its times                                                     *)
CutOf(track, tr) ==
    LET numbered == [track EXCEPT !.tkhd.track_id = IF IsVideo(track) THEN 1 ELSE 2]
    IN  IF AudioTracks(source.movie) = {} THEN numbered
        ELSE [numbered EXCEPT !.tkhd.duration = 0,
                              !.mdhd = [@ EXCEPT !.version = 1, !.timescale = 10000000,
                                                 !.duration = 0]]

(* The header that is served for a track says of it what the header of the  *)
(* recording said: sizes, rates, codec data, times and names survive being  *)
(* parsed, stored in structs and serialized by another set of functions,    *)
(* encrypted or not (gss_isom_movie_serialize_track_ccff and _dash).  Of a  *)
(* movie that was cut, all but the number of the track and, with sound, its *)
(* times survive (gss_isom_parser_fragmentize).                             *)
HeaderSurvives ==
    \A tr \in DOMAIN levels :
        LET track == source.movie.tracks[tr]
        IN  Description(ServedTrack(levels[tr]))
            = Description(IF phase = "cut" THEN CutOf(track, tr) ELSE track)

(* What the tables of a track mean: the bytes of sample k, counted from 0,  *)
(* and its composition offset                                               *)
SampleOf(track, k) ==
    LET t == Tables(track)
        at == track.stco.entries[Samples!ChunkOf(t, k) + 1].chunk_offset + Samples!OffsetOf(t, k)
    IN  SubSeq(file, at + 1, at + t.size[k + 1])

CompositionOf(track, k) ==
    IF ~IsVideo(track) \/ ~track.ctts.present THEN 0
    ELSE Samples!ScaleInt(Samples!DeltaOf(Compositions(track), k), Scale, track.mdhd.timescale)

(* A player that follows the offset of the data and the sizes of the        *)
(* samples in what it is served, and decrypts with the vectors that are     *)
(* told it (in the uuid box, or where saio points), gets the samples that   *)
(* were recorded, whatever is in the moof before them                       *)
(* (gss_isom_fragment_serialize, gss_playready_encrypt_samples).  Of a      *)
(* movie that was cut it gets those that the tables give, fragment after    *)
(* fragment, with their composition offsets (gss_isom_parser_fragmentize).  *)
SamplesAreFound ==
    \A tr \in DOMAIN levels :
        LET fs == levels[tr].fragments
            track == source.movie.tracks[tr]
            Before(i) == SumOf(SubSeq(fs, 1, i - 1), LAMBDA f : f.trun.sample_count)
        IN  \A i \in DOMAIN fs : IsWhole(fs[i]) =>
                LET answer == Answer(fs[i])
                    n == fs[i].trun.sample_count
                    told == ReadFragment(answer).trun.samples
                IN  /\ phase = "serve" /\ isIsml => Played(answer) = source.data[tr][i]
                    /\ phase = "cut" =>
                        /\ Played(answer) = FlattenSeq([j \in 1 .. n |->
                               SampleOf(track, Before(i) + j - 1)])
                        /\ [j \in 1 .. n |-> told[j].composition_time_offset]
                           = [j \in 1 .. n |-> CompositionOf(track, Before(i) + j - 1)]

(* In the clear, the index of an on-demand file gives each fragment the     *)
(* size that is served for it, so that the ranges of a player that adds     *)
(* them up begin with a fragment (create_sidx, convert_isoff_ondemand).     *)
IndexIsRight ==
    phase = "serve" /\ isIsml /\ load.stream = "ondemand" /\ load.drm = "clear" =>
        \A tr \in DOMAIN levels :
            LET fs == levels[tr].fragments
                sidx == Child(levels[tr].header, "sidx")
            IN  \A i \in DOMAIN fs : IsWhole(fs[i]) =>
                    Get(sidx, 24 + (12 * (i - 1)), 4) = Len(Answer(fs[i]))

EncryptedCount(s, sample) ==
    IF s.entries = <<>> THEN sample.size
    ELSE SumOf(s.entries, LAMBDA e : e.encrypted)

(* No two encrypted bytes of what is served for a file are made with the    *)
(* same place of the same key stream, in whichever tracks, fragments and    *)
(* samples they are (generate_iv, gss_playready_setup_iv).                  *)
VectorsAreFresh ==
    phase = "serve" /\ load.drm = "playready" =>
        LET Of(tr, i) ==
                LET f == levels[tr].fragments[i]
                    vectors == f.sample_encryption.samples
                IN  {<<tr, i, j, vectors[j].iv>> : j \in {k \in DOMAIN vectors :
                        EncryptedCount(vectors[k], f.trun.samples[k]) > 0}}
            Uses == UNION {UNION {Of(tr, i) : i \in DOMAIN levels[tr].fragments} :
                              tr \in DOMAIN levels}
        IN  \A u, v \in Uses : u[4] = v[4] => u = v
=============================================================================
