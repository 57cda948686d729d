------------------------------ MODULE IsomCut -------------------------------
(***************************************************************************)
(* A movie that has no fragments is cut into some when it is loaded         *)
(* (gss_isom_parser_fragmentize, gss-isom.c): here as one function of the   *)
(* movie.  Module Fragmentizer has the loops a step at a time.              *)
(***************************************************************************)
EXTENDS IsomFragments

Samples == INSTANCE SampleTables

FirstOf(S) == CHOOSE i \in S : \A j \in S : i <= j

VideoTracks(movie) == {i \in DOMAIN movie.tracks : IsVideo(movie.tracks[i])}
AudioTracks(movie) == {i \in DOMAIN movie.tracks : IsAudio(movie.tracks[i])}

Scale == 10000000

(* The tables of a track as the iterator walks them, from the entries that  *)
(* their counts leave                                                       *)
Entries(table) == SubSeq(table.entries, 1, table.entry_count)
Tables(track) ==
    LET times == Entries(track.stts)
        chunks == Entries(track.stsc)
        syncs == Entries(track.stss)
    IN  [timescale |-> track.mdhd.timescale,
         size |-> [k \in 1 .. track.stsz.sample_count |-> track.stsz.sample_sizes[k].size],
         stts |-> [i \in DOMAIN times |-> [count |-> times[i].sample_count,
                                           delta |-> times[i].sample_delta]],
         stsc |-> [i \in DOMAIN chunks |-> [first |-> chunks[i].first_chunk,
                                            per |-> chunks[i].samples_per_chunk]],
         stss |-> [i \in DOMAIN syncs |-> syncs[i].sample_number]]

(* ctts is walked as stts is.                                               *)
Compositions(track) ==
    LET offsets == Entries(track.ctts)
    IN  [Tables(track) EXCEPT !.stts = [i \in DOMAIN offsets |->
            [count |-> offsets[i].sample_count, delta |-> offsets[i].sample_offset]]]

(* What a track has to have in its tables: entries that are missing are     *)
(* read from memory after the table.                                        *)
TablesFit(track) ==
    /\ track.stsz.sample_size = 0
    /\ Samples!IsTrack(Tables(track))
    /\ track.ctts.present => Samples!IsTrack(Compositions(track))
    /\ \A k \in 1 .. track.stsz.sample_count :
          Samples!ChunkOf(Tables(track), k - 1) < track.stco.entry_count

-----------------------------------------------------------------------------
(* The samples of a track, in the order in which the iterator comes to them *)
Walked(t) ==
    LET at[k \in Nat] == IF k <= 1 THEN Samples!FirstSample ELSE Samples!Iterate(t, at[k - 1])
    IN  [k \in 1 .. Samples!NumSamples(t) |-> Samples!Sample(t, at[k])]

(* When sample k of them begins, counted from 1, in units of Scale          *)
TimeOf(samples, k, timescale) ==
    Samples!ScaleInt(SumOf(SubSeq(samples, 1, k - 1), LAMBDA s : s.delta), Scale, timescale)

(* A fragment that gets the samples after the first n, to the last-th.      *)
(* Defaults of its tfhd are not written, as its flags are 0.                *)
CutFragment(track, i, n, last, isDash) ==
    LET t == Tables(track)
        all == Walked(t)
        offsets == IF track.ctts.present THEN Walked(Compositions(track))
                   ELSE [k \in DOMAIN all |-> [delta |-> 0]]
        Composition(k) == IF IsVideo(track)
                          THEN Samples!ScaleInt(offsets[k].delta, Scale, t.timescale)
                          ELSE offsets[k].delta
        Begin(k) == TimeOf(all, k, t.timescale)
        sample == [j \in 1 .. last - n |-> all[n + j]]
    IN  [NewFragment EXCEPT
            !.index = i - 1,
            !.mfhd.sequence_number = i - 1,
            !.tfhd.track_id = track.tkhd.track_id,
            !.tfdt = [@ EXCEPT !.present = isDash, !.start_time = Begin(n + 1),
                               !.version = IF IsVideo(track) THEN 1 ELSE 0],
            !.trun = [@ EXCEPT
                !.version = 1,
                !.flags = SampleDuration + SampleSize + DataOffset
                          + IF IsVideo(track) THEN CompositionTimeOffsets ELSE 0,
                !.sample_count = last - n,
                !.samples = [j \in DOMAIN sample |->
                    [TrunSample EXCEPT !.duration = Begin(n + j + 1) - Begin(n + j),
                                       !.size = sample[j].size,
                                       !.composition_time_offset = Composition(n + j)]]],
            !.sdtp = [@ EXCEPT
                !.present = TRUE,
                !.sample_flags = [j \in DOMAIN sample |->
                    IF ~IsVideo(track) THEN 0 ELSE IF j = 1 THEN 20 ELSE 28]],
            !.mdat_size = 8 + SumOf(sample, LAMBDA s : s.size),
            !.timestamp = Begin(n + 1),
            !.duration = Begin(last + 1) - Begin(n + 1),
            !.chunks = [j \in DOMAIN sample |->
                [offset |-> track.stco.entries[sample[j].chunk + 1].chunk_offset
                            + sample[j].offset,
                 size |-> sample[j].size]]]

(* The fragments of a track, each of which ends with the sample that ends   *)
(* names for it                                                             *)
CutTrack(track, ends, isDash) ==
    [i \in DOMAIN ends |->
        CutFragment(track, i, IF i = 1 THEN 0 ELSE ends[i - 1], ends[i], isDash)]

(* gss_isom_parser_fragmentize_track_video: up to the next sync sample      *)
VideoEnds(track) ==
    LET syncs == Tables(track).stss
    IN  [i \in DOMAIN syncs |-> IF i = Len(syncs) THEN track.stsz.sample_count
                                ELSE syncs[i + 1] - 1]

(* gss_isom_parser_fragmentize_track_audio: up to the end of the fragment   *)
(* of video                                                                 *)
AudioEnds(track, videoFrags) ==
    [i \in DOMAIN videoFrags |->
        Samples!IndexFromTimestamp(Tables(track),
            Samples!ScaleInt(videoFrags[i].timestamp + videoFrags[i].duration,
                       track.mdhd.timescale, Scale))]

-----------------------------------------------------------------------------
(* What gss_isom_parser_fragmentize returns without: video, its samples,    *)
(* and a table of its sync samples                                          *)
IsCuttable(movie) ==
    /\ VideoTracks(movie) # {}
    /\ LET video == movie.tracks[FirstOf(VideoTracks(movie))]
       IN  video.stsz.sample_count # 0 /\ video.stss.present

CanBeCut(movie) ==
    LET video == movie.tracks[FirstOf(VideoTracks(movie))]
    IN  /\ TablesFit(video) /\ Samples!HasSync(Tables(video))
        /\ AudioTracks(movie) # {} => TablesFit(movie.tracks[FirstOf(AudioTracks(movie))])

Numbered(track, id) ==
    [track EXCEPT !.tkhd.track_id = id,
                  !.trex = [@ EXCEPT !.track_id = id, !.default_sample_description_index = 1]]

(* What is made of a movie and its fragments.  Without sound the times of   *)
(* the header stay those of the tables.                                     *)
CutMovie(movie, frags, isDash) ==
    LET v == FirstOf(VideoTracks(movie))
        a == FirstOf(AudioTracks(movie))
        video == Numbered(movie.tracks[v], 1)
        audio == Numbered(movie.tracks[a], 2)
        videoFrags == CutTrack(video, VideoEnds(video), isDash)
        last == videoFrags[Len(videoFrags)]
        end == last.timestamp + last.duration
    IN  IF AudioTracks(movie) = {}
        THEN [movie |-> [movie EXCEPT !.tracks[v] = video],
              frags |-> [frags EXCEPT ![v] = videoFrags]]
        ELSE [movie |-> [movie EXCEPT
                  !.tracks = [@ EXCEPT ![v] = FixupTrack(video), ![a] = FixupTrack(audio)],
                  !.mvhd = [@ EXCEPT !.timescale = Scale, !.duration = end],
                  !.mehd = [@ EXCEPT !.version = 1, !.fragment_duration = end]],
              frags |-> [frags EXCEPT ![v] = videoFrags,
                             ![a] = CutTrack(audio, AudioEnds(audio, videoFrags), isDash)]]
=============================================================================
