--------------------------- MODULE IsomFragments ----------------------------
(***************************************************************************)
(* Fragments: the boxes inside moof, how they are read and written          *)
(* (gss-isom.c), and how their samples are encrypted (gss-playready.c).     *)
(***************************************************************************)
EXTENDS IsomBoxes

CONSTANTS ClearBytes,   \* 48: bytes of a video sample that stay clear
          HeaderBytes,  \* 1000: those of the first one
          VectorShift   \* 2^32: how far the vectors of two fragments are apart

SampleEncryptionUuid == 7
DataOffset == 1            \* TR_DATA_OFFSET
FirstSampleFlags == 4
SampleDuration == 256
SampleSize == 512
SampleFlags == 1024
CompositionTimeOffsets == 2048
DescriptionIndex == 2      \* TF_SAMPLE_DESCRIPTION_INDEX
DefaultDuration == 8
DefaultSize == 16
DefaultSampleFlags == 32

-----------------------------------------------------------------------------
Mfhd == [version |-> 0, flags |-> 0, sequence_number |-> 0]
Tfhd == [version |-> 0, flags |-> 0, track_id |-> 0, default_sample_duration |-> 0,
         default_sample_size |-> 0, default_sample_flags |-> 0]
Tfdt == [present |-> FALSE, version |-> 0, flags |-> 0, start_time |-> 0]
TrunSample == [duration |-> 0, size |-> 0, flags |-> 0, composition_time_offset |-> 0]
Trun == [version |-> 0, flags |-> 0, sample_count |-> 0, data_offset |-> 0,
         first_sample_flags |-> 0, samples |-> <<>>]
Sdtp == [present |-> FALSE, version |-> 0, flags |-> 0, sample_flags |-> <<>>]
SampleEncryption == [present |-> FALSE, version |-> 0, flags |-> 0, algorithm_id |-> 0,
                     iv_size |-> 0, samples |-> <<>>]
Aux == [present |-> FALSE, version |-> 0, flags |-> 0]  \* GssBoxSaiz and GssBoxSaio

NewFragment ==
    [track_id |-> 0, offset |-> 0, moof_data |-> <<>>, moof_size |-> 0, mdat_size |-> 0,
     mdat_header |-> <<>>, mdat_header_size |-> 0, timestamp |-> 0, duration |-> 0,
     index |-> 0, chunks |-> <<>>, mfhd |-> Mfhd, tfhd |-> Tfhd, tfdt |-> Tfdt,
     trun |-> Trun, sdtp |-> Sdtp, sample_encryption |-> SampleEncryption,
     saiz |-> Aux, saio |-> Aux]

MfhdLayout == FullBox \o <<U32("sequence_number")>>

TfhdLayout(flags) ==
    FullBox \o <<U32("track_id")>>
    \o When(Has(flags, DescriptionIndex), <<Pad(4)>>)
    \o When(Has(flags, DefaultDuration), <<U32("default_sample_duration")>>)
    \o When(Has(flags, DefaultSize), <<U32("default_sample_size")>>)
    \o When(Has(flags, DefaultSampleFlags), <<U32("default_sample_flags")>>)

TrunLayout(flags) ==
    FullBox \o <<U32("sample_count")>>
    \o When(Has(flags, DataOffset), <<U32("data_offset")>>)
    \o When(Has(flags, FirstSampleFlags), <<U32("first_sample_flags")>>)

TrunEntry(flags) ==
    When(Has(flags, SampleDuration), <<U32("duration")>>)
    \o When(Has(flags, SampleSize), <<U32("size")>>)
    \o When(Has(flags, SampleFlags), <<U32("flags")>>)
    \o When(Has(flags, CompositionTimeOffsets), <<U32("composition_time_offset")>>)

ParseMfhd(b) == Read(Mfhd, b, MfhdLayout)
ParseTfhd(b) == Read(Tfhd, b, TfhdLayout(FlagsOf(b)))

ParseTrun(b) ==
    LET layout == TrunLayout(FlagsOf(b))
    IN  [Read(Trun, b, layout) EXCEPT
            !.samples = ReadTable(TrunSample, b, WidthOf(layout), CountAt(b, 4),
                                  TrunEntry(FlagsOf(b)))]

(* As many flags as the trun before it has samples; present stays FALSE.    *)
ParseSdtp(trun, b) ==
    LET flags == ReadTable([flag |-> 0], b, 4, trun.sample_count, <<U8("flag")>>)
    IN  [Read(Sdtp, b, FullBox) EXCEPT !.sample_flags = [i \in DOMAIN flags |-> flags[i].flag]]

(* gss_isom_parse_tfdt reads the time into a variable of its own.           *)
ParseTfdt(b) == Read(Tfdt, b, FullBox)

ParseSampleEncryption(b) ==
    LET head == FullBox \o When(Has(FlagsOf(b), 1), <<U24("algorithm_id"), U8("iv_size"), Pad(16)>>)
        n == CountAt(b, WidthOf(head))
        entryLayout == <<U16("clear"), U32("encrypted")>>
        EntriesAt(p) ==
            IF ~Has(FlagsOf(b), 2) \/ Len(b) < p + 10 THEN <<>>
            ELSE ReadTable(Blank(entryLayout), b, p + 10, Get(b, p + 8, 2), entryLayout)
        start[i \in Nat] ==
            IF i <= 1 THEN WidthOf(head) + 4
            ELSE start[i - 1] + 8 + (IF Has(FlagsOf(b), 2) THEN 2 ELSE 0)
                 + 6 * Len(EntriesAt(start[i - 1]))
    IN  [Read(SampleEncryption, b, head) EXCEPT
            !.present = TRUE,
            !.samples = [i \in 1 .. n |->
                [iv |-> Read([iv |-> 0], After(b, start[i]), <<U64("iv")>>).iv,
                 entries |-> EntriesAt(start[i])]]]

TrafBox(f, box) ==
    CASE box.atom = "tfhd" -> [f EXCEPT !.tfhd = ParseTfhd(box.body)]
      [] box.atom = "trun" -> [f EXCEPT !.trun = ParseTrun(box.body)]
      [] box.atom = "sdtp" -> [f EXCEPT !.sdtp = ParseSdtp(f.trun, box.body)]
      [] box.atom = "tfdt" -> [f EXCEPT !.tfdt = ParseTfdt(box.body)]
      [] box.atom = "uuid" /\ Get(box.body, 0, 16) = SampleEncryptionUuid ->
           [f EXCEPT !.sample_encryption = ParseSampleEncryption(After(box.body, 16))]
      [] OTHER -> f

MoofBox(f, box) ==
    CASE box.atom = "mfhd" -> [f EXCEPT !.mfhd = ParseMfhd(box.body)]
      [] box.atom = "traf" -> FoldLeft(TrafBox, f, Children(box.body))
      [] OTHER -> f

ParseMoof(b) == FoldLeft(MoofBox, NewFragment, Children(b))

(* gss_isom_fixup_moof: what the trun does not say comes from the tfhd; the *)
(* flags come from its default duration.                                    *)
FixupMoof(f) ==
    [f EXCEPT !.trun.samples = [i \in DOMAIN @ |->
        [@[i] EXCEPT !.duration = IF Has(f.trun.flags, SampleDuration) THEN @
                                  ELSE f.tfhd.default_sample_duration,
                     !.flags = IF Has(f.trun.flags, SampleFlags) THEN @
                               ELSE f.tfhd.default_sample_duration]]]

Total(ns) ==
    LET sum[i \in 0 .. Len(ns)] == IF i = 0 THEN 0 ELSE sum[i - 1] + ns[i]
    IN  sum[Len(ns)]
SumOf(samples, Value(_)) == Total([i \in DOMAIN samples |-> Value(samples[i])])

(* gss_isom_moof_get_duration                                               *)
MoofDuration(f) == SumOf(f.trun.samples, LAMBDA s : s.duration)

-----------------------------------------------------------------------------
(* Encryption: fragment, level and sample give each sample its vector.      *)

VectorPerFragment(iv, f, i) ==  \* a mutant: the sample does not count
    iv + f.index * VectorShift

(* gss_playready_setup_iv: level->iv + (index << 32) + i                    *)
Vector(iv, f, i) == iv + f.index * VectorShift + i - 1

AtMost(n, m) == IF n < m THEN n ELSE m

(* gss_isom_fragment_set_sample_encryption.  Of video the beginning of each *)
(* sample stays clear, and more of it in the first sample at time 0.        *)
SetSampleEncryption(f, vectors, isVideo) ==
    LET Clear(i) == AtMost(IF f.timestamp = 0 /\ i = 1 THEN HeaderBytes ELSE ClearBytes,
                           f.trun.samples[i].size)
    IN  [f EXCEPT !.sample_encryption =
            [@ EXCEPT !.present = TRUE,
                      !.flags = IF isVideo THEN 2 ELSE 0,
                      !.samples = [i \in DOMAIN vectors |->
                          [iv |-> vectors[i],
                           entries |-> IF ~isVideo THEN <<>>
                               ELSE <<[clear |-> Clear(i),
                                       encrypted |-> f.trun.samples[i].size - Clear(i)]>>]]]]

SetupIv(iv, f, isVideo) ==
    SetSampleEncryption(f, [i \in 1 .. f.trun.sample_count |-> Vector(iv, f, i)], isVideo)

(* The byte that AES in counter mode makes of a byte, and back again        *)
Encrypted(iv, n, byte) == <<200, <<iv, n>>, byte>>
Decrypted(iv, n, byte) == IF byte[1] = 200 /\ byte[2] = <<iv, n>> THEN byte[3] ELSE ZeroByte

(* Where byte p of a sample is in the stream of its key, or 0 if it is      *)
(* clear.  The stream goes on from one entry to the next.                   *)
Counter(iv, entries, p) ==
    LET from[j \in Nat, at \in Nat, n \in Nat] ==
          IF j > Len(entries) THEN 0
          ELSE LET clearEnd == at + entries[j].clear
                   end == clearEnd + entries[j].encrypted
               IN  CASE p <= clearEnd -> 0
                     [] clearEnd < p /\ p <= end -> n + p - clearEnd
                     [] OTHER -> from[j + 1, end, n + entries[j].encrypted]
    IN  IF entries = <<>> THEN p ELSE from[1, 0, 0]

(* gss_playready_encrypt_samples, on the samples one after another          *)
EncryptSamples(f, data) ==
    LET start[i \in Nat] == IF i <= 1 THEN 0 ELSE start[i - 1] + f.trun.samples[i - 1].size
        SampleOf(p) == CHOOSE i \in 1 .. f.trun.sample_count :
                           start[i] < p /\ p <= start[i] + f.trun.samples[i].size
        One(p) == LET s == f.sample_encryption.samples[SampleOf(p)]
                      n == Counter(s.iv, s.entries, p - start[SampleOf(p)])
                  IN  IF n = 0 THEN data[p] ELSE Encrypted(s.iv, n, data[p])
    IN  [p \in DOMAIN data |-> One(p)]

-----------------------------------------------------------------------------
SerializeMfhd(mfhd) == Box("mfhd", Write(mfhd, MfhdLayout))
SerializeTfhd(tfhd) == Box("tfhd", Write(tfhd, TfhdLayout(tfhd.flags)))

SerializeTfdt(tfdt) ==
    IF ~tfdt.present THEN <<>>
    ELSE Box("tfdt", Write(tfdt, FullBox \o (IF tfdt.version = 1 THEN <<U64("start_time")>>
                                             ELSE <<U32("start_time")>>)))

(* The offset of the data is not known yet.                                 *)
SerializeTrun(trun) ==
    Box("trun", Write([trun EXCEPT !.data_offset = 0], TrunLayout(trun.flags))
                \o WriteTable(trun.samples, TrunEntry(trun.flags)))

SerializeSdtp(sdtp, n) ==
    IF ~sdtp.present THEN <<>>
    ELSE Box("sdtp", Write(sdtp, FullBox)
                     \o FlattenSeq([i \in 1 .. n |-> Put(1, sdtp.sample_flags[i])]))

(* One row of the tables of a sample encryption box or before the samples   *)
VectorRow(flags, sample) ==
    Put(8, sample.iv)
    \o IF ~Has(flags, 2) THEN <<>>
       ELSE Put(2, Len(sample.entries))
            \o WriteTable(sample.entries, <<U16("clear"), U32("encrypted")>>)

SerializeSampleEncryption(se) ==
    IF ~se.present THEN <<>>
    ELSE Box("uuid", Put(16, SampleEncryptionUuid) \o Write(se, FullBox)
             \o (IF Has(se.flags, 1)
                 THEN Write(se, <<U24("algorithm_id"), U8("iv_size")>>) \o Zeros(16) ELSE <<>>)
             \o Put(4, Len(se.samples))
             \o FlattenSeq([i \in DOMAIN se.samples |-> VectorRow(se.flags, se.samples[i])]))

(* gss_isom_serialize_custom_encryption_tables                              *)
EncryptionTable(se) == [i \in DOMAIN se.samples |-> VectorRow(se.flags, se.samples[i])]

(* Of rows of one size the count is written as 1.                           *)
SerializeSaiz(saiz, rows) ==
    Box("saiz", Write(saiz, FullBox)
                \o IF \A i \in DOMAIN rows : Len(rows[i]) = Len(rows[1])
                   THEN Put(1, Len(rows[1])) \o Put(4, 1)
                   ELSE Zeros(1) \o Put(4, Len(rows))
                        \o FlattenSeq([i \in DOMAIN rows |-> Put(1, Len(rows[i]))]))

SerializeSaio(saio, offset) ==
    IF ~saio.present THEN <<>>
    ELSE Box("saio", Write(saio, FullBox) \o Put(4, 1) \o Put(4, offset))

TableAtEndOfMoof(position) == position + 20  \* a mutant: the mdat has no header

(* Where the table is, from the start of the moof: after the saio, of 20    *)
(* bytes, and the header of the mdat                                        *)
TableOffset(position) == position + 28

(* gss_isom_traf_serialize, whose box starts after the first p bytes        *)
SerializeTraf(f, p) ==
    LET boxes == SerializeTfhd(f.tfhd) \o SerializeTfdt(f.tfdt) \o SerializeTrun(f.trun)
                 \o SerializeSdtp(f.sdtp, f.trun.sample_count)
                 \o SerializeSampleEncryption(f.sample_encryption)
        saiz == SerializeSaiz(f.saiz, EncryptionTable(f.sample_encryption))
    IN  Box("traf", IF ~f.saiz.present THEN boxes
                    ELSE boxes \o saiz
                         \o SerializeSaio(f.saio, TableOffset(p + 8 + Len(boxes) + Len(saiz))))

(* Where gss_isom_trun_serialize left room for the offset of the data: at   *)
(* the beginning of the moof if it did not                                  *)
OffsetPlace(f) ==
    IF ~Has(f.trun.flags, DataOffset) THEN 0
    ELSE 8 + Len(SerializeMfhd(f.mfhd)) + 8 + Len(SerializeTfhd(f.tfhd))
         + Len(SerializeTfdt(f.tfdt)) + 16

Overwrite(b, p, bytes) ==
    [i \in DOMAIN b |-> IF i \in p + 1 .. p + Len(bytes) THEN bytes[i - p] ELSE b[i]]

(* The offset of the first sample from the start of the moof                *)
DataPosition(moof, header) == Len(moof) + 8 + Len(header)

(* gss_isom_fragment_serialize: the moof, the header of the mdat and the    *)
(* encryption table                                                         *)
SerializeFragment(f) ==
    LET mfhd == SerializeMfhd(f.mfhd)
        moof == Box("moof", mfhd \o SerializeTraf(f, 8 + Len(mfhd)))
        header == IF f.saiz.present THEN FlattenSeq(EncryptionTable(f.sample_encryption))
                  ELSE f.mdat_header
        fixed == Overwrite(moof, OffsetPlace(f), Put(4, DataPosition(moof, header)))
        data == fixed \o Put(4, Len(header) + f.mdat_size) \o PutAtom("mdat") \o header
    IN  [f EXCEPT !.mdat_header = header, !.mdat_header_size = Len(header),
                  !.moof_data = data, !.moof_size = Len(data)]
=============================================================================
