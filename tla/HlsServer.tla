----------------------------- MODULE HlsServer ------------------------------
(***************************************************************************)
(* Live HTTP streaming (gss-hls-server.c) of one program with any number   *)
(* of MPEG-TS streams.                                                     *)
(*                                                                         *)
(* Two kinds of thread meet here.  The pad probe of each stream runs in    *)
(* the streaming thread of its pipeline, collects buffers in the stream's  *)
(* adapter and hands complete chunks to the main loop with g_idle_add.     *)
(* The main loop publishes a chunk in a ring of Ring slots, evicting the   *)
(* oldest one and its URL, and answers the players' requests for the       *)
(* variant playlist, for the index playlist of a stream, which is cached,  *)
(* and for segments.                                                       *)
(***************************************************************************)
EXTENDS Integers, Sequences, FiniteSets

CONSTANTS Streams,    \* program->streams
          Key,        \* Key[s]: the part of a URL that names stream s
          Rated,      \* the streams whose bitrate property is not 0
          Ring,       \* GSS_STREAM_HLS_CHUNKS
          Window,     \* how far an index playlist reaches back
          MinUnits,   \* the least a chunk holds (188 * 100 bytes), in buffers
          MaxBuffers  \* bound: buffers that a sink receives

ASSUME RingAssumption == Ring \in Nat \ {0}
ASSUME WindowAssumption == Window \in 1 .. Ring
ASSUME MinUnitsAssumption == MinUnits \in Nat \ {0}
ASSUME BoundAssumption == MaxBuffers \in Nat
(* URLs carry the size, the bitrate in kbps and the type of their stream;  *)
(* a program whose streams agree in all of them gives them the same URLs.  *)
ASSUME KeyAssumption == \A s, t \in Streams : Key[s] = Key[t] => s = t

VARIABLES isHls,        \* stream->is_hls
          received,     \* buffers that have passed the probe of the stream
          adapter,      \* stream->adapter: first buffer held, starts at a RAP?
          idle,         \* pending gss_program_add_hls_chunk_callback sources
          chunks,       \* stream->chunks
          nChunks,      \* stream->n_chunks
          nHlsChunks,   \* program->n_hls_chunks
          resources,    \* server->resources, the entries for segments
          needUpdate,   \* stream->hls.need_index_update
          index,        \* stream->hls.index_buffer
          variant       \* program->hls.variant_buffer: the streams it names

vars == <<isHls, received, adapter, idle, chunks, nChunks, nHlsChunks,
          resources, needUpdate, index, variant>>

-----------------------------------------------------------------------------
Slots == 0 .. Ring - 1
Chunk == [from : Nat, to : Nat, rap : BOOLEAN]
Segment == [used : BOOLEAN, index : Nat, data : Chunk]
NoSegment == [used |-> FALSE, index |-> 0,
              data |-> [from |-> 0, to |-> 0, rap |-> FALSE]]
NoIndex == [built |-> FALSE, seq |-> 0, end |-> 0, loc |-> [i \in {} |-> 0]]

Location(s, n) == <<Key[s], n>>
Resource(s, n) == [loc |-> Location(s, n), stream |-> s, slot |-> n % Ring]

(* The streams that a variant playlist written now would name.             *)
Playable(hls, n) == {s \in Streams \cap Rated : hls[s] /\ n[s] # 0}

Init ==
    /\ isHls = [s \in Streams |-> FALSE]
    /\ received = [s \in Streams |-> 0]
    /\ adapter = [s \in Streams |-> [from |-> 0, rap |-> FALSE]]
    /\ idle = <<>>
    /\ chunks = [s \in Streams |-> [k \in Slots |-> NoSegment]]
    /\ nChunks = [s \in Streams |-> 0]
    /\ nHlsChunks = 0
    /\ resources = {}
    /\ needUpdate = [s \in Streams |-> FALSE]
    /\ index = [s \in Streams |-> NoIndex]
    /\ variant = {}

-----------------------------------------------------------------------------
(* gss_stream_set_sink on an MPEG-TS stream: the probe is installed, the   *)
(* playlists get their URLs and the variant playlist is rewritten.         *)
AddHls(s) ==
    /\ ~isHls[s]
    /\ isHls' = [isHls EXCEPT ![s] = TRUE]
    /\ variant' = Playable(isHls', nChunks)
    /\ UNCHANGED <<received, adapter, idle, chunks, nChunks, nHlsChunks,
                   resources, needUpdate, index>>

Available(s) == received[s] - adapter[s].from

CutChunkAfterBuffer(s) ==  \* a mutant: the buffer is pushed, then dropped
    /\ isHls[s]
    /\ received[s] < MaxBuffers
    /\ Available(s) >= MinUnits
    /\ idle' = Append(idle, [stream |-> s,
                             data |-> [from |-> adapter[s].from,
                                       to |-> received[s],
                                       rap |-> adapter[s].rap]])
    /\ adapter' = [adapter EXCEPT ![s] = [from |-> received[s] + 1, rap |-> TRUE]]
    /\ received' = [received EXCEPT ![s] = @ + 1]
    /\ UNCHANGED <<isHls, chunks, nChunks, nHlsChunks, resources, needUpdate,
                   index, variant>>

(* The probe sees a buffer that starts at a random access point and enough *)
(* is collected: everything collected becomes a chunk for the main loop,   *)
(* and the buffer is the first of the next one.                            *)
CutChunk(s) ==
    /\ isHls[s]
    /\ received[s] < MaxBuffers
    /\ Available(s) >= MinUnits
    /\ idle' = Append(idle, [stream |-> s,
                             data |-> [from |-> adapter[s].from,
                                       to |-> received[s],
                                       rap |-> adapter[s].rap]])
    /\ adapter' = [adapter EXCEPT ![s] = [from |-> received[s], rap |-> TRUE]]
    /\ received' = [received EXCEPT ![s] = @ + 1]
    /\ UNCHANGED <<isHls, chunks, nChunks, nHlsChunks, resources, needUpdate,
                   index, variant>>

(* The probe sees any other buffer: one that does not start at a random    *)
(* access point (rap), or that comes too early.                            *)
Collect(s, rap) ==
    /\ isHls[s]
    /\ received[s] < MaxBuffers
    /\ rap => Available(s) < MinUnits
    /\ adapter' = IF Available(s) = 0
                  THEN [adapter EXCEPT ![s] = [from |-> received[s], rap |-> rap]]
                  ELSE adapter
    /\ received' = [received EXCEPT ![s] = @ + 1]
    /\ UNCHANGED <<isHls, idle, chunks, nChunks, nHlsChunks, resources,
                   needUpdate, index, variant>>

EvictedNothing(s, old) == resources  \* a mutant: its URL is left behind

(* gss_server_remove_resource of the segment that leaves its slot          *)
Evicted(s, old) ==
    IF old.used THEN {r \in resources : r.loc # Location(s, old.index)}
                ELSE resources

SecondChunk(n) == n = 2  \* a mutant of FirstChunk: off by one

(* The chunk just counted is the first one of its stream.                  *)
FirstChunk(n) == n = 1

(* gss_program_add_hls_chunk, run by the oldest idle source.               *)
AddChunk ==
    /\ idle # <<>>
    /\ LET s == Head(idle).stream
           n == nChunks[s]
           slot == n % Ring
       IN /\ chunks' = [chunks EXCEPT ![s][slot] =
                          [used |-> TRUE, index |-> n, data |-> Head(idle).data]]
          /\ resources' = {r \in Evicted(s, chunks[s][slot]) :
                                r.loc # Location(s, n)} \cup {Resource(s, n)}
          /\ needUpdate' = [needUpdate EXCEPT ![s] = TRUE]
          /\ nChunks' = [nChunks EXCEPT ![s] = n + 1]
          /\ nHlsChunks' = n + 1
          /\ variant' = IF FirstChunk(n + 1) THEN Playable(isHls, nChunks') ELSE variant
    /\ idle' = Tail(idle)
    /\ UNCHANGED <<isHls, received, adapter, index>>

SeqNumUnclamped == nHlsChunks - Window  \* a mutant: no lower bound
SeqNumWide ==  \* a mutant: one segment more than the window
    IF nHlsChunks > Window + 1 THEN nHlsChunks - Window - 1 ELSE 0
SeqNumLate ==  \* a mutant: the newest segment is left for the next playlist
    IF nHlsChunks >= Window THEN nHlsChunks - Window + 1 ELSE 0

(* gss_hls_update_index: the playlist counts from the program's counter to *)
(* the stream's own.                                                       *)
SeqNum == IF nHlsChunks > Window THEN nHlsChunks - Window ELSE 0
IndexShifted(s) ==  \* a mutant: entries off by one slot
    [built |-> TRUE, seq |-> SeqNum, end |-> nChunks[s],
     loc |-> [i \in SeqNum .. nChunks[s] - 1 |-> chunks[s][(i + 1) % Ring].index]]
Index(s) == [built |-> TRUE, seq |-> SeqNum, end |-> nChunks[s],
             loc |-> [i \in SeqNum .. nChunks[s] - 1 |->
                        chunks[s][i % Ring].index]]

(* A player asks for the index playlist of a stream: index[s] is what it   *)
(* is sent.                                                                *)
GetIndex(s) ==
    /\ isHls[s]
    /\ index' = IF ~index[s].built \/ needUpdate[s]
                THEN [index EXCEPT ![s] = Index(s)]
                ELSE index
    /\ needUpdate' = [needUpdate EXCEPT ![s] = FALSE]
    /\ UNCHANGED <<isHls, received, adapter, idle, chunks, nChunks, nHlsChunks,
                   resources, variant>>

Next ==
    \/ \E s \in Streams : AddHls(s)
    \/ \E s \in Streams : CutChunk(s)
    \/ \E s \in Streams, rap \in BOOLEAN : Collect(s, rap)
    \/ AddChunk
    \/ \E s \in Streams : GetIndex(s)

Spec == Init /\ [][Next]_vars

(* The main loop dispatches pending idle sources when it is not saturated, *)
(* and players keep polling.                                               *)
Fairness == WF_vars(AddChunk) /\ \A s \in Streams : WF_vars(GetIndex(s))

FairSpec == Spec /\ Fairness

-----------------------------------------------------------------------------
(* Answers to requests for segments (gss_hls_handle_ts_chunk)              *)
Found(s, n) == \E r \in resources : r.loc = Location(s, n)
Served(r) == chunks[r.stream][r.slot]
Live(s) == {i \in 0 .. nChunks[s] - 1 : nChunks[s] - i <= Ring}

TypeOK ==
    /\ isHls \in [Streams -> BOOLEAN]
    /\ received \in [Streams -> Nat]
    /\ adapter \in [Streams -> [from : Nat, rap : BOOLEAN]]
    /\ idle \in Seq([stream : Streams, data : Chunk])
    /\ chunks \in [Streams -> [Slots -> Segment]]
    /\ nChunks \in [Streams -> Nat]
    /\ nHlsChunks \in Nat
    /\ resources \subseteq [loc : {Key[s] : s \in Streams} \X Nat,
                             stream : Streams, slot : Slots]
    /\ needUpdate \in [Streams -> BOOLEAN]
    /\ \A s \in Streams :
          /\ index[s].built \in BOOLEAN
          /\ index[s].seq \in Nat
          /\ index[s].end \in Nat
          /\ index[s].loc \in [index[s].seq .. index[s].end - 1 -> Nat]
    /\ DOMAIN index = Streams
    /\ variant \subseteq Streams

(* The URLs of a stream that answer are those of its Ring newest segments: *)
(* eviction removes exactly the URL of the chunk that lost its slot.       *)
UrlsAreTheLiveOnes ==
    \A s \in Streams : \A n \in 0 .. nChunks[s] : Found(s, n) <=> n \in Live(s)

(* A URL never serves the data of another segment, although the slot its   *)
(* resource points to is reused every Ring chunks.                         *)
UrlServesItsOwnChunk ==
    \A r \in resources : Served(r).used /\ r.loc = Location(r.stream, Served(r).index)

(* Segments follow each other without a gap or an overlap in the media,    *)
(* every one after the first starts at a random access point, and none is  *)
(* shorter than the probe's minimum, whatever the interleaving of the      *)
(* streaming threads with the main loop.                                   *)
SegmentsAreContiguous ==
    \A s \in Streams : \A i \in Live(s) :
        LET here == chunks[s][i % Ring].data
        IN /\ here.to - here.from >= MinUnits
           /\ i > 0 => here.rap
           /\ i + 1 \in Live(s) => chunks[s][(i + 1) % Ring].data.from = here.to

(* What answers, and with what: see the two properties.                    *)
RingIsServed == UrlsAreTheLiveOnes /\ UrlServesItsOwnChunk

(* A playlist that was served stays good: as long as a segment has not     *)
(* been pushed out of the ring, its entry in the last served playlist      *)
(* names it by its own number and the URL still serves it.                 *)
ListedSegmentsAreServed ==
    \A s \in Streams : \A i \in index[s].seq .. index[s].end - 1 :
        i \in Live(s) => /\ index[s].loc[i] = i
                         /\ Found(s, i)
                         /\ chunks[s][i % Ring].index = i

(* The cached index is never served stale: unless it is marked for update  *)
(* it ends with the newest segment of its stream and every URL in it       *)
(* answers at this moment.                                                 *)
CachedIndexIsFresh ==
    \A s \in Streams : index[s].built /\ ~needUpdate[s] =>
        /\ index[s].end = nChunks[s]
        /\ \A i \in index[s].seq .. index[s].end - 1 : Found(s, index[s].loc[i])

(* What players were told, and what they would be told now.                *)
PlaylistsAreGood == ListedSegmentsAreServed /\ CachedIndexIsFresh

(* The cached variant playlist names exactly the streams a player can play *)
(* now, although it is rewritten only at two places.                       *)
VariantIsFresh == variant = Playable(isHls, nChunks)

(* With one stream: a player that got a playlist can fetch each segment in *)
(* it until Ring - Window more segments have been published, because the   *)
(* ring is deeper than the window.                                         *)
WindowGrace ==
    \A s \in Streams : \A i \in index[s].seq .. index[s].end - 1 :
        nChunks[s] - index[s].end <= Ring - Window =>
            index[s].loc[i] = i /\ Found(s, i)

Captured(s) == nChunks[s] + Cardinality({j \in DOMAIN idle : idle[j].stream = s})

Listed(s) == index[s].seq .. index[s].end - 1

(* Window newer chunks of its own stream were there when the index was     *)
(* written that ends past the chunk.                                       *)
Overtaken(s, n) == n + Window < index[s].end

(* The index ends past the chunk, but starts too late for it, at a counter *)
(* that was ahead of the stream and that another stream has come to.       *)
SkippedByCounter(s, n) ==
    LET counter == index[s].seq + Window
    IN  /\ n < index[s].end /\ index[s].end < counter
        /\ \E t \in Streams \ {s} : counter <= nChunks[t]

(* Every chunk the probe cuts comes to be listed in an index playlist that *)
(* a player is sent, unless Window newer chunks of its own stream overtake *)
(* it before a player asks, or the counter that the streams of a program   *)
(* share has run ahead of the stream when a player asks.                   *)
CapturedIsListed ==
    \A s \in Streams : \A n \in 0 .. MaxBuffers - 1 :
        Captured(s) > n ~> n \in Listed(s) \/ Overtaken(s, n) \/ SkippedByCounter(s, n)
=============================================================================
