----------------------------- MODULE IsomBoxes ------------------------------
(***************************************************************************)
(* The boxes inside moov (gss-isom-boxes.h): for each one what a new struct *)
(* holds, what the parser reads into it and what the serializer writes      *)
(* from it (gss-isom.c).                                                    *)
(*                                                                         *)
(* Reader and writer of a box are two functions that share nothing in the   *)
(* code; here they share a layout only where both spell out the same one.   *)
(* Times and sizes are small numbers, a matrix is one value of 36 bytes.    *)
(* What is parsed and neither used nor written again is the kind of atom.   *)
(***************************************************************************)
EXTENDS IsomBytes, FiniteSets

Mvhd == [version |-> 0, flags |-> 0, creation_time |-> 0, modification_time |-> 0,
         timescale |-> 0, duration |-> 0, next_track_id |-> 0]

Times64 == <<U64("creation_time"), U64("modification_time")>>
Times32 == <<U32("creation_time"), U32("modification_time")>>

(* gss_isom_parse_mvhd: of a box of version 0 the duration is not kept      *)
ParseMvhd(b) ==
    Read(Mvhd, b, FullBox \o (IF VersionOf(b) = 1
                           THEN Times64 \o <<U32("timescale"), U64("duration")>>
                           ELSE Times32 \o <<U32("timescale"), Pad(4)>>)
                       \o <<Pad(4), Pad(2), Pad(2), Pad(36), Pad(24), U32("next_track_id")>>)

SerializeMvhd(mvhd) ==
    Box("mvhd", Write(mvhd, FullBox \o (IF mvhd.version = 1
                                     THEN Times64 \o <<U32("timescale"), U64("duration")>>
                                     ELSE Times32 \o <<U32("timescale"), U32("duration")>>))
                \o Put(4, 65536) \o Put(2, 256) \o Zeros(2)
                \o Zeros(8) \o Put(4, 65536) \o Zeros(12) \o Put(4, 65536) \o Zeros(8)
                \o Zeros(4) \o Put(4, 1073741824) \o Zeros(16)
                \o Write(mvhd, <<U32("next_track_id")>>) \o Zeros(4) \o Put(4, 2))

-----------------------------------------------------------------------------
Tkhd == [present |-> FALSE, version |-> 0, flags |-> 0, creation_time |-> 0,
         modification_time |-> 0, track_id |-> 0, duration |-> 0, layer |-> 0,
         alternate_group |-> 0, volume |-> 0, matrix |-> 0, width |-> 0, height |-> 0]

ParseTkhd(b) ==
    [Read(Tkhd, b, FullBox \o (IF VersionOf(b) = 1
                            THEN Times64 \o <<U32("track_id"), Pad(4), U64("duration")>>
                            ELSE Times32 \o <<U32("track_id"), Pad(4), U32("duration")>>)
                        \o <<Pad(4), Pad(4), U16("layer"), U16("alternate_group"),
                             U16("volume"), Pad(2), <<"matrix", 36>>,
                             U32("width"), U32("height")>>)
     EXCEPT !.present = TRUE]

SerializeTkhd(tkhd) ==
    IF ~tkhd.present THEN <<>>
    ELSE Box("tkhd", Write(tkhd,
           FullBox \o (IF tkhd.version = 1
                    THEN Times64 \o <<U32("track_id"), Pad(4), U64("duration")>>
                    ELSE Times32 \o <<U32("track_id"), Pad(4), U32("duration")>>)
                \o <<Pad(8), U16("layer"), U16("alternate_group"), U16("volume"), Pad(2),
                     <<"matrix", 36>>, U32("width"), U32("height")>>))

-----------------------------------------------------------------------------
Mdhd == [present |-> FALSE, version |-> 0, flags |-> 0, creation_time |-> 0,
         modification_time |-> 0, timescale |-> 0, duration |-> 0,
         language_code |-> <<0, 0, 0>>]

(* pack_language_code, unpack_language_code: three letters of 5 bits        *)
PackLanguageCode(l) == l[1] * 1024 + l[2] * 32 + l[3]
UnpackLanguageCode(c) == <<(c \div 1024) % 32, (c \div 32) % 32, c % 32>>

ParseMdhd(b) ==
    LET mdhd == Read([Mdhd EXCEPT !.language_code = 0], b, FullBox \o (IF VersionOf(b) = 1
                                       THEN Times64 \o <<U32("timescale"), U64("duration")>>
                                       ELSE Times32 \o <<U32("timescale"), U32("duration")>>)
                                   \o <<U16("language_code"), Pad(2)>>)
    IN  [mdhd EXCEPT !.present = TRUE,
                     !.language_code = UnpackLanguageCode(@)]

SerializeMdhd(mdhd) ==
    Box("mdhd", Write(mdhd, FullBox \o (IF mdhd.version = 1
                                     THEN Times64 \o <<U32("timescale"), U64("duration")>>
                                     ELSE Times32 \o <<U32("timescale"), U32("duration")>>))
                \o Put(2, PackLanguageCode(mdhd.language_code)) \o Zeros(2))

-----------------------------------------------------------------------------
Hdlr == [present |-> FALSE, version |-> 0, flags |-> 0, handler_type |-> NoAtom,
         name |-> NoString]

(* get_string: a first byte that counts all the others makes it a pascal    *)
(* string, whatever the brands of the file say                              *)
GetString(b) ==
    LET nuls == {i \in DOMAIN b : b[i] = ZeroByte}
    IN  IF b # <<>> /\ Get(b, 0, 1) = Len(b) - 1 THEN [i \in 1 .. Len(b) - 1 |-> b[i + 1][3]]
        ELSE IF nuls = {} THEN NoString
        ELSE [i \in 1 .. (CHOOSE n \in nuls : \A m \in nuls : n <= m) - 1 |-> b[i][3]]

(* put_string                                                               *)
PutString(s, nulTerminated) ==
    LET chars == FlattenSeq([i \in DOMAIN s |-> Put(1, s[i])])
    IN  IF s = NoString THEN <<>>
        ELSE IF nulTerminated THEN chars \o Zeros(1)
        ELSE Put(1, Len(s)) \o chars

HdlrLayout == FullBox \o <<Pad(4), Fourcc("handler_type"), Pad(12)>>

ParseHdlr(b) ==
    [Read(Hdlr, b, HdlrLayout) EXCEPT !.present = TRUE,
                                      !.name = GetString(After(b, WidthOf(HdlrLayout)))]

SerializeHdlr(hdlr) ==
    IF ~hdlr.present THEN <<>>
    ELSE Box("hdlr", Write(hdlr, FullBox) \o Zeros(4) \o PutAtom(hdlr.handler_type) \o Zeros(12)
                     \o PutString(hdlr.name, TRUE))

-----------------------------------------------------------------------------
Vmhd == [present |-> FALSE, version |-> 0, flags |-> 0]
Smhd == [present |-> FALSE, version |-> 0, flags |-> 0]
Hmhd == [present |-> FALSE, version |-> 0, flags |-> 0, maxPDUsize |-> 0, avgPDUsize |-> 0,
         maxbitrate |-> 0, avgbitrate |-> 0]

ParseVmhd(b) == [Read(Vmhd, b, FullBox \o <<Pad(8)>>) EXCEPT !.present = TRUE]
ParseSmhd(b) == [Read(Smhd, b, FullBox \o <<Pad(4)>>) EXCEPT !.present = TRUE]
ParseHmhd(b) ==
    [Read(Hmhd, b, FullBox \o <<U16("maxPDUsize"), U16("avgPDUsize"),
                             U32("maxbitrate"), U32("avgbitrate"), Pad(4)>>)
     EXCEPT !.present = TRUE]

SerializeVmhd(vmhd) ==
    IF vmhd.present THEN Box("vmhd", Write(vmhd, FullBox \o <<Pad(8)>>)) ELSE <<>>
SerializeSmhd(smhd) ==
    IF smhd.present THEN Box("smhd", Write(smhd, FullBox \o <<Pad(4)>>)) ELSE <<>>
SerializeHmhd(hmhd) ==
    IF ~hmhd.present THEN <<>>
    ELSE Box("hmhd", Write(hmhd, FullBox \o <<U16("maxPDUsize"), U16("avgPDUsize"),
                                           U32("maxbitrate"), U32("avgbitrate"), Pad(4)>>))

-----------------------------------------------------------------------------
(* The boxes that hold a table: a count, then that many entries.  The count *)
(* can be set to 0 later, with the entries still there (fixup_track).       *)
Table == [present |-> FALSE, version |-> 0, flags |-> 0, entry_count |-> 0,
          entries |-> <<>>]
TableHead == FullBox \o <<U32("entry_count")>>
Blank(layout) == [name \in {layout[i][1] : i \in DOMAIN layout} |-> 0]

ParseTable(b, layout) ==
    [Read(Table, b, TableHead)
     EXCEPT !.present = TRUE,
            !.entries = ReadTable(Blank(layout), b, 8, CountAt(b, 4), layout)]

SerializeTable(atom, table, layout) ==
    Box(atom, Write(table, TableHead)
              \o WriteTable(SubSeq(table.entries, 1, table.entry_count), layout))

SttsEntry == <<U32("sample_count"), U32("sample_delta")>>
CttsEntry == <<U32("sample_count"), U32("sample_offset")>>
StscEntry == <<U32("first_chunk"), U32("samples_per_chunk"), U32("sample_description_index")>>
StcoEntry == <<U32("chunk_offset")>>
Co64Entry == <<U64("chunk_offset")>>
StssEntry == <<U32("sample_number")>>
StshEntry == <<U32("shadowed_sample_number"), U32("sync_sample_number")>>
ElstEntry(version) ==
    IF version = 0 THEN <<U32("segment_duration"), U32("media_time"), U32("media_rate")>>
    ELSE <<U64("segment_duration"), U64("media_time"), U32("media_rate")>>

ParseStts(b) == ParseTable(b, SttsEntry)
ParseCtts(b) == ParseTable(b, CttsEntry)
ParseStsc(b) == ParseTable(b, StscEntry)
ParseStco(b) == ParseTable(b, StcoEntry)
ParseCo64(b) == ParseTable(b, Co64Entry)
ParseStss(b) == ParseTable(b, StssEntry)
ParseStsh(b) == ParseTable(b, StshEntry)
ParseElst(b) == ParseTable(b, ElstEntry(VersionOf(b)))

SerializeStts(stts) == SerializeTable("stts", stts, SttsEntry)
SerializeStsc(stsc) == SerializeTable("stsc", stsc, StscEntry)
SerializeStco(stco) == SerializeTable("stco", stco, StcoEntry)

-----------------------------------------------------------------------------
Stsz == [present |-> FALSE, version |-> 0, flags |-> 0, sample_size |-> 0,
         sample_count |-> 0, sample_sizes |-> <<>>]
StszLayout == FullBox \o <<U32("sample_size"), U32("sample_count")>>
SizeLayout == <<U32("size")>>

ParseStsz(b) ==
    LET stsz == [Read(Stsz, b, StszLayout) EXCEPT !.present = TRUE]
    IN  IF stsz.sample_size # 0 THEN stsz
        ELSE [stsz EXCEPT !.sample_sizes =
                 ReadTable(Blank(SizeLayout), b, 12, stsz.sample_count, SizeLayout)]

SerializeStsz(stsz) ==
    Box("stsz", Write(stsz, StszLayout)
                \o IF stsz.sample_size # 0 THEN <<>>
                   ELSE WriteTable(SubSeq(stsz.sample_sizes, 1, stsz.sample_count), SizeLayout))

(* Priorities have no count of their own: a stdp before the stsz is empty.  *)
Stdp == [present |-> FALSE, version |-> 0, flags |-> 0, priorities |-> <<>>]
PriorityLayout == <<U16("priority")>>
ParseStdp(stsz, b) ==
    [Read(Stdp, b, FullBox)
     EXCEPT !.present = TRUE,
            !.priorities =
                ReadTable(Blank(PriorityLayout), b, 4, stsz.sample_count, PriorityLayout)]

(* gss_isom_parse_dref puts the atom of every entry into the first one.     *)
Dref == [present |-> FALSE, version |-> 0, flags |-> 0, entry_count |-> 0, atom |-> NoAtom]
ParseDref(b) ==
    LET dref == [Read(Dref, b, TableHead) EXCEPT !.present = TRUE]
        boxes == Children(After(b, 8))
    IN  IF dref.entry_count \in DOMAIN boxes
        THEN [dref EXCEPT !.atom = boxes[dref.entry_count].atom]
        ELSE dref

-----------------------------------------------------------------------------
(* Sample descriptions                                                      *)
Esds == [es_id |-> 0, es_flags |-> 0, type_indication |-> 0, stream_type |-> 0,
         buffer_size_db |-> 0, max_bitrate |-> 0, avg_bitrate |-> 0, codec_data |-> <<>>]
DecoderConfig == <<U8("type_indication"), U8("stream_type"), U24("buffer_size_db"),
                   U32("max_bitrate"), U32("avg_bitrate")>>

(* The tags after the first p bytes of b: 7 bits of length in each byte, of *)
(* which all but the last have the high bit; what is inside a tag 3 or 4    *)
(* is read as if it came after it.                                          *)
Descriptors(b) ==
    LET last[p \in Nat] == IF p < Len(b) /\ Get(b, p, 1) >= 128 THEN last[p + 1] ELSE p
        length[p \in Nat, q \in Nat] ==
            IF q < p \/ q >= Len(b) THEN 0 ELSE 128 * length[p, q - 1] + (Get(b, q, 1) % 128)
        from[p \in Nat] ==
            IF p >= Len(b) THEN <<>>
            ELSE LET tag == Get(b, p, 1)
                     at == last[p + 1] + 1
                     len == length[p + 1, at - 1]
                     flags == IF Len(b) < at + 3 THEN 0 ELSE Get(b, at + 2, 1)
                     optional == 2 * Cardinality({bit \in {32, 64, 128} : Has(flags, bit)})
                 IN  <<[tag |-> tag, at |-> at, len |-> len]>>
                     \o from[at + CASE tag = 3 -> 3 + optional
                                    [] tag = 4 -> WidthOf(DecoderConfig)
                                    [] OTHER -> len]
    IN  from[4]

ParseEsds(old, b) ==
    LET Describe(esds, d) ==
            CASE d.tag = 3 -> Read(esds, After(b, d.at), <<U16("es_id"), U8("es_flags")>>)
              [] d.tag = 4 -> Read(esds, After(b, d.at), DecoderConfig)
              [] d.tag = 5 -> [esds EXCEPT !.codec_data =
                                  IF d.at + d.len > Len(b) THEN <<>>
                                  ELSE SubSeq(b, d.at + 1, d.at + d.len)]
              [] OTHER -> esds
    IN  FoldLeft(Describe, old, Descriptors(b))

Store == [present |-> FALSE, data |-> <<>>]
ParseStore(b) == [present |-> TRUE, data |-> b]

Mp4a == [present |-> FALSE, data_reference_index |-> 0, channel_count |-> 0,
         sample_size |-> 0, sample_rate |-> 0]
Mp4v == [present |-> FALSE, data_reference_index |-> 0, width |-> 0, height |-> 0]
Mp4aLayout == <<Pad(6), U16("data_reference_index"), Pad(8), U16("channel_count"),
                U16("sample_size"), Pad(4), U32("sample_rate")>>
Mp4vLayout == <<Pad(6), U16("data_reference_index"), Pad(16), U16("width"), U16("height")>>
AvcCoding == Put(50, 1)  \* resolution, the name "AVC Coding" and depth

AudioEntries == {"mp4a", "enca"}
VideoEntries == {"avc1", "encv", "mp4v"}

(* stsd_atoms; sinf and btrt are ignored                                    *)
StsdBox(track, box) ==
    CASE box.atom = "avcC" -> [track EXCEPT !.esds.codec_data = box.body]
      [] box.atom = "esds" -> [track EXCEPT !.esds = ParseEsds(track.esds, box.body),
                                            !.esds_store = ParseStore(box.body)]
      [] OTHER -> track

StsdEntry(track, box) ==
    CASE box.atom \in AudioEntries ->
           FoldLeft(StsdBox,
               [track EXCEPT !.mp4a = [Read(Mp4a, box.body, Mp4aLayout) EXCEPT !.present = TRUE]],
               Children(After(box.body, WidthOf(Mp4aLayout))))
      [] box.atom \in VideoEntries ->
           FoldLeft(StsdBox,
               [track EXCEPT !.mp4v = [Read(Mp4v, box.body, Mp4vLayout) EXCEPT !.present = TRUE]],
               Children(After(box.body, WidthOf(Mp4vLayout) + 50)))
      [] OTHER -> track

ParseStsd(track, b) ==
    LET boxes == Children(After(b, 8))
        stsd == Read(Table, b, TableHead)
        entries == SubSeq(boxes, 1, IF stsd.entry_count \in DOMAIN boxes THEN stsd.entry_count
                                    ELSE Len(boxes))
        atoms == [i \in DOMAIN entries |-> entries[i].atom]
    IN  FoldLeft(StsdEntry,
                 [track EXCEPT !.stsd = [stsd EXCEPT !.present = TRUE, !.entries = atoms]],
                 entries)

IsVideo(track) == track.hdlr.handler_type = "vide"
IsAudio(track) == track.hdlr.handler_type = "soun"

(* The key id of tenc is a constant of 16 bytes.                            *)
SerializeSinf(track) ==
    Box("sinf", Box("frma", PutAtom(track.stsd.entries[1]))
                \o Box("schm", Zeros(4) \o PutAtom("cenc") \o Put(4, 65536))
                \o Box("schi", Box("tenc", Zeros(6) \o Put(1, 1) \o Put(1, 8) \o Put(16, 1))))

EntryAlwaysVideo(track, i) ==  \* a mutant: the kind of the track is not asked
    IF track.is_encrypted THEN "encv" ELSE track.stsd.entries[i]

EntryAtom(track, i) ==
    IF ~track.is_encrypted THEN track.stsd.entries[i]
    ELSE IF IsVideo(track) THEN "encv"
    ELSE "enca"

SerializeEntry(track, atom) ==
    CASE atom \in AudioEntries ->
           Write(track.mp4a, Mp4aLayout) \o Box("esds", track.esds_store.data)
      [] atom \in VideoEntries ->
           Write(track.mp4v, Mp4vLayout) \o AvcCoding \o Box("avcC", track.esds.codec_data)
      [] OTHER -> <<>>

SerializeStsd(track) ==
    Box("stsd", Write(track.stsd, TableHead)
                \o FlattenSeq([i \in 1 .. track.stsd.entry_count |->
                       Box(EntryAtom(track, i),
                           SerializeEntry(track, EntryAtom(track, i))
                           \o IF track.is_encrypted THEN SerializeSinf(track) ELSE <<>>)]))

-----------------------------------------------------------------------------
(* Tracks and the movie                                                     *)
Trex == [version |-> 0, flags |-> 0, track_id |-> 0, default_sample_description_index |-> 0,
         default_sample_duration |-> 0, default_sample_size |-> 0, default_sample_flags |-> 0]
Mehd == [version |-> 0, flags |-> 0, fragment_duration |-> 0]
Pssh == [present |-> FALSE, version |-> 0, flags |-> 0, uuid |-> 0, data |-> <<>>]

NewTrack == [tkhd |-> Tkhd, tref |-> FALSE, elst |-> Table, mdhd |-> Mdhd, hdlr |-> Hdlr,
             vmhd |-> Vmhd, smhd |-> Smhd, hmhd |-> Hmhd, dref |-> Dref,
             stts |-> Table, ctts |-> Table, stss |-> Table, stsd |-> Table, stsz |-> Stsz,
             stsc |-> Table, stco |-> Table, stsh |-> Table, stdp |-> Stdp,
             mp4v |-> Mp4v, mp4a |-> Mp4a, esds |-> Esds, esds_store |-> Store,
             trex |-> Trex, is_encrypted |-> FALSE]

NewMovie == [tracks |-> <<>>, mvhd |-> Mvhd, meta |-> Store, hdlr |-> Store, ilst |-> Store,
             xtra |-> Store, iods |-> Store, mvex |-> Store, ainf |-> Store,
             mehd |-> Mehd, pssh |-> Pssh]

StblBox(track, box) ==
    CASE box.atom = "stts" -> [track EXCEPT !.stts = ParseStts(box.body)]
      [] box.atom = "ctts" -> [track EXCEPT !.ctts = ParseCtts(box.body)]
      [] box.atom = "stss" -> [track EXCEPT !.stss = ParseStss(box.body)]
      [] box.atom = "stsd" -> ParseStsd(track, box.body)
      [] box.atom = "stsz" -> [track EXCEPT !.stsz = ParseStsz(box.body)]
      [] box.atom = "stsc" -> [track EXCEPT !.stsc = ParseStsc(box.body)]
      [] box.atom = "stco" -> [track EXCEPT !.stco = ParseStco(box.body)]
      [] box.atom = "co64" -> [track EXCEPT !.stco = ParseCo64(box.body)]
      [] box.atom = "stsh" -> [track EXCEPT !.stsh = ParseStsh(box.body)]
      [] box.atom = "stdp" -> [track EXCEPT !.stdp = ParseStdp(track.stsz, box.body)]
      [] OTHER -> track

DinfBox(track, box) ==
    IF box.atom = "dref" THEN [track EXCEPT !.dref = ParseDref(box.body)] ELSE track

MinfBox(track, box) ==
    CASE box.atom = "vmhd" -> [track EXCEPT !.vmhd = ParseVmhd(box.body)]
      [] box.atom = "smhd" -> [track EXCEPT !.smhd = ParseSmhd(box.body)]
      [] box.atom = "hmhd" -> [track EXCEPT !.hmhd = ParseHmhd(box.body)]
      [] box.atom = "dinf" -> FoldLeft(DinfBox, track, Children(box.body))
      [] box.atom = "stbl" -> FoldLeft(StblBox, track, Children(box.body))
      [] OTHER -> track

MdiaBox(track, box) ==
    CASE box.atom = "mdhd" -> [track EXCEPT !.mdhd = ParseMdhd(box.body)]
      [] box.atom = "hdlr" -> [track EXCEPT !.hdlr = ParseHdlr(box.body)]
      [] box.atom = "minf" -> FoldLeft(MinfBox, track, Children(box.body))
      [] OTHER -> track

EdtsBox(track, box) ==
    IF box.atom = "elst" THEN [track EXCEPT !.elst = ParseElst(box.body)] ELSE track

TrakBox(track, box) ==
    CASE box.atom = "tkhd" -> [track EXCEPT !.tkhd = ParseTkhd(box.body)]
      [] box.atom = "tref" -> [track EXCEPT !.tref = TRUE]
      [] box.atom = "edts" -> FoldLeft(EdtsBox, track, Children(box.body))
      [] box.atom = "mdia" -> FoldLeft(MdiaBox, track, Children(box.body))
      [] OTHER -> track

UdtaMetaBox(movie, box) ==
    CASE box.atom = "hdlr" -> [movie EXCEPT !.hdlr = ParseStore(box.body)]
      [] box.atom = "ilst" -> [movie EXCEPT !.ilst = ParseStore(box.body)]
      [] OTHER -> movie

(* gss_isom_parse_udta_meta takes off the version before the boxes inside.  *)
UdtaBox(movie, box) ==
    CASE box.atom = "meta" -> FoldLeft(UdtaMetaBox, movie, Children(After(box.body, 4)))
      [] box.atom = "Xtra" -> [movie EXCEPT !.xtra = ParseStore(box.body)]
      [] OTHER -> movie

(* A pssh that is read is not present for the serializer.                   *)
ParsePssh(b) ==
    LET pssh == Read(Pssh, b, FullBox \o <<<<"uuid", 16>>>>)
        len == CountAt(b, 20)
    IN  IF Len(b) < 24 + len THEN pssh ELSE [pssh EXCEPT !.data = SubSeq(b, 25, 24 + len)]

MoovBox(movie, box) ==
    CASE box.atom = "mvhd" -> [movie EXCEPT !.mvhd = ParseMvhd(box.body)]
      [] box.atom = "trak" ->
           [movie EXCEPT !.tracks = Append(@, FoldLeft(TrakBox, NewTrack, Children(box.body)))]
      [] box.atom = "udta" -> FoldLeft(UdtaBox, movie, Children(box.body))
      [] box.atom = "mvex" -> [movie EXCEPT !.mvex = ParseStore(box.body)]
      [] box.atom = "meta" -> [movie EXCEPT !.meta = ParseStore(box.body)]
      [] box.atom = "iods" -> [movie EXCEPT !.iods = ParseStore(box.body)]
      [] box.atom = "ainf" -> [movie EXCEPT !.ainf = ParseStore(box.body)]
      [] box.atom = "pssh" -> [movie EXCEPT !.pssh = ParsePssh(box.body)]
      [] OTHER -> movie

ParseMoov(b) == FoldLeft(MoovBox, NewMovie, Children(b))

-----------------------------------------------------------------------------
SerializePssh(pssh) ==
    IF ~pssh.present THEN <<>>
    ELSE Box("pssh", Write(pssh, FullBox \o <<<<"uuid", 16>>>>)
                     \o Put(4, Len(pssh.data)) \o pssh.data)

SerializeMehd(mehd) ==
    Box("mehd", Write(mehd, FullBox \o (IF mehd.version = 0 THEN <<U32("fragment_duration")>>
                                      ELSE <<U64("fragment_duration")>>)))

SerializeTrex(trex) ==
    Box("trex", Write(trex, FullBox \o <<U32("track_id"), U32("default_sample_description_index"),
                                       U32("default_sample_duration"), U32("default_sample_size"),
                                       U32("default_sample_flags")>>))

SerializeStbl(track) ==
    Box("stbl", SerializeStsd(track) \o SerializeStts(track.stts) \o SerializeStsc(track.stsc)
                \o SerializeStco(track.stco) \o SerializeStsz(track.stsz))

SerializeTrack(track) ==
    Box("trak", SerializeTkhd(track.tkhd)
        \o Box("mdia", SerializeMdhd(track.mdhd) \o SerializeHdlr(track.hdlr)
               \o Box("minf", SerializeStbl(track) \o SerializeVmhd(track.vmhd)
                              \o SerializeSmhd(track.smhd) \o SerializeHmhd(track.hmhd))))

(* The second mvex, of a movie that had one when it was read, is written    *)
(* from mehd and trex structs that are not the ones it had.                 *)
SerializeMoov(movie) ==
    LET Each(Op(_)) == FlattenSeq([i \in DOMAIN movie.tracks |-> Op(movie.tracks[i])])
        NewTrex(track) == SerializeTrex([Trex EXCEPT !.track_id = track.tkhd.track_id,
                                                     !.default_sample_description_index = 1])
        OldTrex(track) == SerializeTrex(track.trex)
    IN  Box("moov", SerializeMvhd(movie.mvhd) \o SerializePssh(movie.pssh)
                    \o Box("mvex", Each(NewTrex)) \o Each(SerializeTrack)
                    \o IF movie.mvex.present
                        THEN Box("mvex", SerializeMehd(movie.mehd) \o Each(OldTrex))
                        ELSE <<>>)

Ftyp(brand, version, compatible) ==
    Box("ftyp", PutAtom(brand) \o Put(4, version)
                \o FlattenSeq([i \in DOMAIN compatible |-> PutAtom(compatible[i])]))
DashFtyp == Ftyp("dash", 0, <<"iso6", "mp41">>)
CcffFtyp == Ftyp("ccff", 1, <<"iso6">>)

-----------------------------------------------------------------------------
(* The index of a file of one track                                         *)
Sidx == [version |-> 0, flags |-> 0, reference_id |-> 0, timescale |-> 0,
         earliest_presentation_time |-> 0, first_offset |-> 0, entries |-> <<>>]

SidxHeaderTwice(track, fragments) ==  \* a mutant: the header of each mdat is counted again
    [Sidx EXCEPT !.reference_id = track.tkhd.track_id, !.timescale = track.mdhd.timescale,
        !.entries = [i \in DOMAIN fragments |->
            [reference_size |-> fragments[i].moof_size + fragments[i].mdat_header_size
                                + fragments[i].mdat_size,
             subsegment_duration |-> IF i < Len(fragments) THEN 0 - 30 ELSE 0]]]

(* create_sidx; a duration of -30 stands for 30 less than 2^32              *)
CreateSidx(track, fragments) ==
    [Sidx EXCEPT !.reference_id = track.tkhd.track_id, !.timescale = track.mdhd.timescale,
        !.entries = [i \in DOMAIN fragments |->
            [reference_size |-> fragments[i].moof_size + fragments[i].mdat_header_size
                                + fragments[i].mdat_size - 8,
             subsegment_duration |-> IF i < Len(fragments) THEN 0 - 30 ELSE 0]]]

(* The third word has starts_with_sap, sap_type and sap_delta_time, which   *)
(* are the same for each entry.                                             *)
SerializeSidx(sidx) ==
    Box("sidx", Write(sidx, FullBox \o <<U32("reference_id"), U32("timescale")>>
                       \o IF sidx.version = 0
                          THEN <<U32("earliest_presentation_time"), U32("first_offset")>>
                          ELSE <<U64("earliest_presentation_time"), U64("first_offset")>>)
                \o Zeros(2) \o Put(2, Len(sidx.entries))
                \o FlattenSeq([i \in DOMAIN sidx.entries |->
                       Write(sidx.entries[i], <<U32("reference_size"), U32("subsegment_duration")>>)
                       \o Put(4, 1)]))

(* gss_isom_movie_serialize: its index is never filled                      *)
SerializeMovie(movie) == DashFtyp \o SerializeMoov(movie) \o SerializeSidx(Sidx)

SerializeMvex(movie, track) == Box("mvex", SerializeMehd(movie.mehd) \o SerializeTrex(track.trex))

(* gss_isom_movie_serialize_track_ccff                                      *)
SerializeTrackCcff(movie, track) ==
    CcffFtyp \o Box("moov", SerializeMvhd(movie.mvhd) \o SerializeTrack(track)
                            \o SerializeMvex(movie, track))

(* gss_isom_movie_serialize_track_dash                                      *)
SerializeTrackDash(movie, track, fragments) ==
    LET header == DashFtyp \o Box("moov", SerializeMvhd(movie.mvhd) \o SerializePssh(movie.pssh)
                                          \o SerializeTrack(track) \o SerializeMvex(movie, track))
    IN  [header_size |-> Len(header),
         data |-> header \o SerializeSidx(CreateSidx(track, fragments))]

(* fixup_track: what is left of a track once it is cut into fragments.  The *)
(* tables keep their entries.                                               *)
FixupTrack(track) ==
    [track EXCEPT !.tkhd.duration = 0,
                  !.mdhd.version = 1, !.mdhd.timescale = 10000000, !.mdhd.duration = 0,
                  !.stsz.sample_count = 0, !.stsc.entry_count = 0,
                  !.stco.entry_count = 0, !.stts.entry_count = 0]
=============================================================================
