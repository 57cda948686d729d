----------------------------- MODULE MCIsomFile -----------------------------
(***************************************************************************)
(* Instances of IsomFile for TLC: recordings of the server's own making, of *)
(* one or two tracks, one whose header has boxes that the server reads but  *)
(* does not write, and a movie without fragments, whose tables give the     *)
(* samples in an mdat that may follow its header.  Samples have one to      *)
(* three bytes.                                                             *)
(***************************************************************************)
EXTENDS IsomFile

Present(box) == [box EXCEPT !.present = TRUE]

AvcConfig == Put(1, 1) \o Put(1, 77) \o Put(1, 64) \o Put(1, 31)
AacConfig == Put(1, 18) \o Put(1, 16)

(* An elementary stream descriptor; long lengths have four bytes            *)
Tag(tag, n, long) == Put(1, tag) \o (IF long THEN Put(1, 128) \o Put(1, 128) \o Put(1, 128)
                                     ELSE <<>>) \o Put(1, n)
EsdsBody(long) ==
    Zeros(4) \o Tag(3, 25, long) \o Put(2, 1) \o Zeros(1)
    \o Tag(4, 17, long) \o Put(1, 64) \o Put(1, 21) \o Put(3, 7) \o Put(4, 128) \o Put(4, 96)
    \o Tag(5, 2, long) \o AacConfig \o Tag(6, 1, long) \o Put(1, 2)
AacEsds == [es_id |-> 1, es_flags |-> 0, type_indication |-> 64, stream_type |-> 21,
            buffer_size_db |-> 7, max_bitrate |-> 128, avg_bitrate |-> 96,
            codec_data |-> AacConfig]

Common(id, handler, name) ==
    [NewTrack EXCEPT
        !.tkhd = [Present(Tkhd) EXCEPT !.flags = 7, !.track_id = id, !.matrix = 5],
        !.mdhd = [Present(Mdhd) EXCEPT !.version = 1, !.timescale = 10000000,
                                       !.language_code = <<21, 14, 4>>],
        !.hdlr = [Present(Hdlr) EXCEPT !.handler_type = handler, !.name = name],
        !.stts = Present(Table), !.stsc = Present(Table), !.stco = Present(Table),
        !.stsz = Present(Stsz)]

VideoTrack ==
    [Common(1, "vide", <<86, 73>>) EXCEPT
        !.tkhd.width = 640, !.tkhd.height = 360,
        !.vmhd = [Present(Vmhd) EXCEPT !.flags = 1],
        !.stsd = [Present(Table) EXCEPT !.entry_count = 1, !.entries = <<"avc1">>],
        !.mp4v = [Present(Mp4v) EXCEPT !.data_reference_index = 1, !.width = 640,
                                       !.height = 360],
        !.esds.codec_data = AvcConfig]

AudioTrack(id) ==
    [Common(id, "soun", <<83>>) EXCEPT
        !.tkhd.volume = 256, !.smhd = Present(Smhd),
        !.stsd = [Present(Table) EXCEPT !.entry_count = 1, !.entries = <<"mp4a">>],
        !.mp4a = [Present(Mp4a) EXCEPT !.data_reference_index = 1, !.channel_count = 2,
                                       !.sample_size = 16, !.sample_rate = 48000],
        !.esds = AacEsds, !.esds_store = ParseStore(EsdsBody(FALSE))]

OwnMovie(tracks) ==
    [NewMovie EXCEPT !.mvhd = [Mvhd EXCEPT !.version = 1, !.timescale = 1000, !.duration = 9,
                                           !.next_track_id = 3],
                     !.tracks = tracks]
WithMvex(m, data) == [m EXCEPT !.mvex = ParseStore(data)]

-----------------------------------------------------------------------------
(* A header of another program                                              *)

ForeignEntry == Box("mp4v", Write([data_reference_index |-> 1, width |-> 320, height |-> 240],
                                  Mp4vLayout) \o AvcCoding \o Box("esds", EsdsBody(TRUE)))

TableBox(atom, rows, layout) ==
    Box(atom, Zeros(4) \o Put(4, Len(rows)) \o WriteTable(rows, layout))
TableOf(rows) == [Present(Table) EXCEPT !.entry_count = Len(rows), !.entries = rows]

SttsRows == <<[sample_count |-> 2, sample_delta |-> 5]>>
CttsRows == <<[sample_count |-> 1, sample_offset |-> 3], [sample_count |-> 1, sample_offset |-> 0]>>
StscRows == <<[first_chunk |-> 1, samples_per_chunk |-> 2, sample_description_index |-> 1]>>
Co64Rows == <<[chunk_offset |-> 4242]>>
StssRows == <<[sample_number |-> 1], [sample_number |-> 2]>>
StshRows == <<[shadowed_sample_number |-> 2, sync_sample_number |-> 1]>>
ElstRows == <<[segment_duration |-> 10, media_time |-> 3, media_rate |-> 65536]>>
Sizes == <<[size |-> 4], [size |-> 6]>>
Priorities == <<[priority |-> 1], [priority |-> 2]>>

ForeignTrack ==
    [VideoTrack EXCEPT
        !.tkhd.version = 1, !.tkhd.duration = 10, !.tref = TRUE, !.elst = TableOf(ElstRows),
        !.mdhd.version = 0, !.mdhd.timescale = 90000, !.hdlr.name = <<70, 79, 79>>,
        !.hmhd = [Present(Hmhd) EXCEPT !.maxPDUsize = 1500, !.maxbitrate = 64],
        !.dref = [Present(Dref) EXCEPT !.entry_count = 1, !.atom = "url "],
        !.stts = TableOf(SttsRows), !.ctts = TableOf(CttsRows), !.stss = TableOf(StssRows),
        !.stsc = TableOf(StscRows), !.stco = TableOf(Co64Rows), !.stsh = TableOf(StshRows),
        !.stsz = [Present(Stsz) EXCEPT !.sample_count = 2, !.sample_sizes = Sizes],
        !.stdp = [Present(Stdp) EXCEPT !.priorities = Priorities],
        !.stsd.entries = <<"mp4v">>, !.mp4v.width = 320, !.mp4v.height = 240,
        !.esds = AacEsds, !.esds_store = ParseStore(EsdsBody(TRUE))]

ForeignTrak ==
    LET t == ForeignTrack
        hdlr == Box("hdlr", Zeros(8) \o PutAtom("vide") \o Zeros(12)
                            \o PutString(t.hdlr.name, FALSE))
        stbl == Box("stbl",
            TableBox("stts", SttsRows, SttsEntry) \o TableBox("ctts", CttsRows, CttsEntry)
            \o Box("stsd", Zeros(4) \o Put(4, 1) \o ForeignEntry) \o SerializeStsz(t.stsz)
            \o TableBox("stsc", StscRows, StscEntry) \o TableBox("co64", Co64Rows, Co64Entry)
            \o TableBox("stss", StssRows, StssEntry) \o TableBox("stsh", StshRows, StshEntry)
            \o Box("stdp", Zeros(4) \o WriteTable(Priorities, PriorityLayout)))
        dinf == Box("dinf", Box("dref", Zeros(4) \o Put(4, 1) \o Box("url ", Zeros(4))))
    IN  Box("trak", Box("tref", Zeros(4)) \o SerializeTkhd(t.tkhd)
            \o Box("edts", TableBox("elst", ElstRows, ElstEntry(0)))
            \o Box("mdia", hdlr \o SerializeMdhd(t.mdhd)
                   \o Box("minf", SerializeVmhd(t.vmhd) \o SerializeHmhd(t.hmhd) \o dinf \o stbl)))

Text(n) == Put(4, n)
ForeignMovie ==
    [OwnMovie(<<ForeignTrack>>) EXCEPT
        !.meta = ParseStore(Text(1)), !.hdlr = ParseStore(Text(2)), !.ilst = ParseStore(<<>>),
        !.xtra = ParseStore(Text(3)), !.iods = ParseStore(Text(4)), !.ainf = ParseStore(Text(5)),
        !.mvex = ParseStore(Text(6)),
        !.pssh = [Pssh EXCEPT !.uuid = 9, !.data = Text(8)]]
ForeignHeader ==
    Ftyp("isml", 1, <<"isml">>)
    \o Box("moov",
           Box("iods", Text(4)) \o SerializeMvhd(ForeignMovie.mvhd) \o ForeignTrak
           \o Box("ainf", Text(5)) \o Box("mvex", Text(6)) \o Box("meta", Text(1))
           \o Box("udta", Box("meta", Zeros(4) \o Box("hdlr", Text(2)) \o Box("ilst", <<>>))
                          \o Box("Xtra", Text(3)))
           \o SerializePssh(Present(ForeignMovie.pssh)))

-----------------------------------------------------------------------------
(* A movie without fragments: five samples of video and sound in turns, in  *)
(* two chunks of each.  The second fragment of video begins within a chunk. *)

WholeSamples == Put(8, 77)

WithTables(track, timescale, stts, stsc, offsets, sizes) ==
    [track EXCEPT
        !.tkhd.duration = 4, !.mdhd.timescale = timescale, !.mdhd.duration = 4,
        !.stts = TableOf([i \in DOMAIN stts |->
                             [sample_count |-> stts[i][1], sample_delta |-> stts[i][2]]]),
        !.stsc = TableOf([i \in DOMAIN stsc |->
                             [first_chunk |-> stsc[i][1], samples_per_chunk |-> stsc[i][2],
                              sample_description_index |-> 1]]),
        !.stco = TableOf([i \in DOMAIN offsets |-> [chunk_offset |-> offsets[i]]]),
        !.stsz.sample_count = Len(sizes),
        !.stsz.sample_sizes = [i \in DOMAIN sizes |-> [size |-> sizes[i]]]]

WholeStss == <<[sample_number |-> 1], [sample_number |-> 3]>>
WholeCtts == <<[sample_count |-> 2, sample_offset |-> 1],
               [sample_count |-> 1, sample_offset |-> 3]>>

WholeMovie(at) ==
    LET video == WithTables(VideoTrack, 4, <<<<2, 1>>, <<1, 2>>>>, <<<<1, 1>>, <<2, 2>>>>,
                            <<at, at + 3>>, <<2, 3, 1>>)
    IN  OwnMovie(<<[video EXCEPT !.stss = TableOf(WholeStss), !.ctts = TableOf(WholeCtts)],
                   WithTables(AudioTrack(4), 2, <<<<2, 1>>>>, <<<<1, 1>>>>,
                              <<at + 2, at + 7>>, <<1, 1>>)>>)

WholeHeader(m) ==
    LET v == m.tracks[1]
        stbl == Box("stbl", After(SerializeStbl(v), 8) \o TableBox("stss", WholeStss, StssEntry)
                            \o TableBox("ctts", WholeCtts, CttsEntry))
        trak == Box("trak", SerializeTkhd(v.tkhd)
                    \o Box("mdia", SerializeMdhd(v.mdhd) \o SerializeHdlr(v.hdlr)
                           \o Box("minf", stbl \o SerializeVmhd(v.vmhd))))
    IN  Ftyp("mp42", 0, <<>>)
        \o Box("moov", SerializeMvhd(m.mvhd) \o trak \o SerializeTrack(m.tracks[2]))

Whole == WholeMovie(Len(WholeHeader(WholeMovie(0))) + 8)

-----------------------------------------------------------------------------
(* Fragments: what their samples are is a sequence of <<duration, size>>    *)

Fragment(id, number, timing, flags) ==
    LET size == SumOf(timing, LAMBDA s : s[2])
    IN  [NewFragment EXCEPT
            !.mfhd.sequence_number = number, !.tfhd.track_id = id,
            !.tfhd.flags = IF Has(flags, SampleDuration) THEN DefaultSampleFlags
                           ELSE DefaultDuration,
            !.tfhd.default_sample_duration = timing[1][1],
            !.trun = [Trun EXCEPT !.flags = flags, !.sample_count = Len(timing),
                        !.samples = [i \in DOMAIN timing |->
                            [TrunSample EXCEPT !.duration = timing[i][1], !.size = timing[i][2],
                                               !.composition_time_offset = i]]],
            !.sdtp = [Present(Sdtp) EXCEPT !.sample_flags = [i \in DOMAIN timing |-> 16 + i]],
            !.mdat_size = 8 + size]

VideoFlags == DataOffset + SampleDuration + SampleSize + CompositionTimeOffsets
AudioFlags == DataOffset + SampleDuration + SampleSize
ForeignFlags == DataOffset + SampleSize

Source(header, m, timing, flags) ==
    LET F(tr, i) == Fragment(m.tracks[tr].tkhd.track_id, 10 * tr + i, timing[tr][i], flags[tr])
        D(tr, i) == [p \in 1 .. SumOf(timing[tr][i], LAMBDA s : s[2]) |-> <<99, 10 * tr + i, p>>]
    IN  [header |-> header, movie |-> m, timing |-> timing,
         fragments |-> [tr \in DOMAIN timing |-> [i \in DOMAIN timing[tr] |-> F(tr, i)]],
         data |-> [tr \in DOMAIN timing |-> [i \in DOMAIN timing[tr] |-> D(tr, i)]],
         sizes |-> [tr \in DOMAIN timing |-> [i \in DOMAIN timing[tr] |->
                       Len(SerializeFragment(F(tr, i)).moof_data) + Len(D(tr, i))]]]

VideoTiming == <<<<<<2, 3>>, <<3, 1>>>>, <<<<4, 2>>>>>>
AudioTiming == <<<<<<5, 1>>, <<5, 2>>>>>>
ForeignTiming == <<<<<<2, 3>>, <<2, 2>>>>, <<<<2, 2>>, <<2, 1>>>>>>

TwoTracks == OwnMovie(<<VideoTrack, AudioTrack(2)>>)

(* The tracks of a movie as they are when it has been cut into fragments:   *)
(* what is written of them is read as a track without samples               *)
Tabled(track) ==
    [track EXCEPT !.tkhd.duration = 10, !.mdhd.version = 0, !.mdhd.timescale = 48000,
                  !.mdhd.duration = 10, !.stts = TableOf(SttsRows), !.stsc = TableOf(StscRows),
                  !.stco = TableOf(<<[chunk_offset |-> 40]>>),
                  !.stsz.sample_count = 2, !.stsz.sample_sizes = Sizes]
Cut == OwnMovie(<<FixupTrack(Tabled(VideoTrack)), FixupTrack(Tabled(AudioTrack(2)))>>)

OneTrack == OwnMovie(<<AudioTrack(4)>>)
TrexOf(id) == SerializeTrex([Trex EXCEPT !.track_id = id,
                                         !.default_sample_description_index = 1])

MCSources ==
    {Source(SerializeMovie(Cut), WithMvex(TwoTracks, TrexOf(1) \o TrexOf(2)),
            <<VideoTiming, AudioTiming>>, <<VideoFlags, AudioFlags>>),
     Source(SerializeTrackDash(OneTrack, AudioTrack(4), <<>>).data,
            WithMvex(OneTrack, SerializeMehd(Mehd) \o SerializeTrex(Trex)),
            <<AudioTiming>>, <<AudioFlags>>),
     Source(SerializeTrackCcff(OneTrack, AudioTrack(4)),
            WithMvex(OneTrack, SerializeMehd(Mehd) \o SerializeTrex(Trex)),
            <<AudioTiming>>, <<AudioFlags>>),
     Source(ForeignHeader, ForeignMovie, <<ForeignTiming>>, <<ForeignFlags>>),
     Source(WholeHeader(Whole), Whole, <<<<>>, <<>>>>, <<VideoFlags, AudioFlags>>)}

MCNoises ==
    {Box("free", <<>>), Box("uuid", Put(16, 8)), Box("mdat", WholeSamples),
     Put(4, 1) \o PutAtom("free") \o Put(8, 20) \o Zeros(4)}

MCLoads == [stream : {"ism", "ondemand"}, drm : {"clear", "playready"}]
=============================================================================
