----------------------------- MODULE IsomBytes ------------------------------
(***************************************************************************)
(* Bytes of an ISO media file, and the byte reader and writer that          *)
(* gss-isom.c uses.                                                         *)
(*                                                                         *)
(* A byte is <<width, place, value>>: the place-th byte, from the most      *)
(* significant, of a number that was written in width bytes.  What is read  *)
(* with another width, or from another place, is Garbled: some number that  *)
(* means nothing.  Fourccs are written in the other byte order and have     *)
(* width 0.  All bytes of a zero are alike, as they are in the file.        *)
(***************************************************************************)
EXTENDS Integers, SequencesExt

Garbled == -1
NoAtom == "????"
NoString == <<0>>  \* the NULL of a string that was not read

ZeroByte == <<1, 1, 0>>
Zeros(n) == [i \in 1 .. n |-> ZeroByte]

(* gst_byte_writer_put_uint*_be, and GST_MAKE_FOURCC with put_uint32_le     *)
Put(n, v) == IF v = 0 THEN Zeros(n) ELSE [i \in 1 .. n |-> <<n, i, v>>]
PutAtom(a) == [i \in 1 .. 4 |-> <<0, i, a>>]

(* gst_byte_reader_get_uint*, n bytes after the first p of b                *)
Get(b, p, n) ==
    IF \A i \in p + 1 .. p + n : b[i] = ZeroByte THEN 0
    ELSE IF \A i \in 1 .. n : b[p + i][1] = n /\ b[p + i][2] = i THEN b[p + 1][3]
    ELSE Garbled

GetAtom(b, p) ==
    IF \A i \in 1 .. 4 : b[p + i][1] = 0 /\ b[p + i][2] = i
    THEN b[p + 1][3] ELSE NoAtom

After(b, p) == SubSeq(b, p + 1, Len(b))

-----------------------------------------------------------------------------
(* A layout is a sequence of fields <<name, width>> of a struct; a field    *)
(* without a name is skipped by the reader and zero for the writer.         *)
U8(name) == <<name, 1>>
U16(name) == <<name, 2>>
U24(name) == <<name, 3>>
U32(name) == <<name, 4>>
U64(name) == <<name, 8>>
Fourcc(name) == <<name, 0>>
Pad(n) == <<"", n>>
FullBox == <<U8("version"), U24("flags")>>

Width(field) == IF field[2] = 0 THEN 4 ELSE field[2]
WidthOf(layout) == FoldLeft(LAMBDA n, f : n + Width(f), 0, layout)

(* A get that finds too few bytes leaves the field and the position alone.  *)
ReadField(b, st, field) ==
    LET next == st.at + Width(field)
        value == IF field[2] = 0 THEN GetAtom(b, st.at) ELSE Get(b, st.at, field[2])
    IN  IF next > Len(b) THEN st
        ELSE [at |-> next,
              box |-> IF field[1] = "" THEN st.box
                      ELSE [st.box EXCEPT ![field[1]] = value]]

Read(box, b, layout) ==
    FoldLeft(LAMBDA st, f : ReadField(b, st, f), [at |-> 0, box |-> box], layout).box

(* A table of n entries after the first p bytes of b                        *)
ReadTable(entry, b, p, n, layout) ==
    [i \in 1 .. n |-> Read(entry, After(b, p + (i - 1) * WidthOf(layout)), layout)]

WriteField(box, field) ==
    IF field[1] = "" THEN Zeros(field[2])
    ELSE IF field[2] = 0 THEN PutAtom(box[field[1]])
    ELSE Put(field[2], box[field[1]])

Write(box, layout) == FlattenSeq([i \in DOMAIN layout |-> WriteField(box, layout[i])])

WriteTable(entries, layout) ==
    FlattenSeq([i \in DOMAIN entries |-> Write(entries[i], layout)])

VersionOf(b) == IF Len(b) < 1 THEN 0 ELSE Get(b, 0, 1)
FlagsOf(b) == IF Len(b) < 4 THEN 0 ELSE Get(b, 1, 3)
CountAt(b, p) == IF Len(b) < p + 4 THEN 0 ELSE Get(b, p, 4)

Has(flags, bit) == (flags \div bit) % 2 = 1
When(cond, layout) == IF cond THEN layout ELSE <<>>

-----------------------------------------------------------------------------
(* BOX_INIT ... BOX_FINISH                                                  *)
Box(atom, body) == Put(4, Len(body) + 8) \o PutAtom(atom) \o body

(* The loop of gss_isom_parse_container and its likes.  A size of 1 stands  *)
(* for one of 64 bits, whose 8 bytes are not taken off the size.  A box     *)
(* that ends after its parent is not skipped, only its header is.           *)
Children(b) ==
    LET from[p \in Nat] ==
          IF Len(b) - p < 8 THEN <<>>
          ELSE LET wide == Get(b, p, 4) = 1 /\ Len(b) - p >= 16
                   start == IF wide THEN p + 16 ELSE p + 8
                   end == start + (IF wide THEN Get(b, p + 8, 8) ELSE Get(b, p, 4)) - 8
                   fits == end \in start .. Len(b)
               IN  <<[atom |-> GetAtom(b, p + 4),
                      body |-> SubSeq(b, start + 1, IF fits THEN end ELSE Len(b))]>>
                   \o from[IF fits THEN end ELSE start]
    IN  from[0]
=============================================================================
