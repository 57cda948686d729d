# Verification of gst-streaming-server

TLA+ modules, TLC configurations and TLAPS proofs for the C program in
`src/gst-streaming-server/` and `src/tools/gst-streaming-server.c`. Paths below
are relative to `src/gst-streaming-server/` unless they start with `src/`.

The server takes live video from sources (HTTP PUT, Icecast, or a pull from
another server), re-streams it to players as continuous HTTP streams and as
HLS, and serves files as DASH and Smooth Streaming. It is one process: a GLib
main loop that runs all HTTP handlers, timers and bus messages; the streaming
threads of the GStreamer pipelines; and a worker thread for slow requests.

## 1. Inventory

For each part: its state, its operations, whom it talks to, what is hard about
it and what makes it correct.

**HLS server** (`gss-hls-server.c`). State: per stream an adapter that collects
buffers, a ring of 20 segments, a counter, a cached index playlist; per program
a cached variant playlist and the counter `n_hls_chunks` that all its streams
write. Operations: the pad probe (streaming thread) cuts chunks and adds idle
sources; the idle callback (main loop) publishes a chunk, evicts the oldest and
edits the resource table; handlers serve playlists and segments. Hard: two
threads, reuse of slots, caches. Correct when each URL serves its own segment,
playlists are fresh, and what a playlist names can be fetched.

**Transactions** (`gss-transaction.c`). State: a queue, workers, paused HTTP
messages. Operations: pause and push, pop, process, finish in an idle source,
free on "finished", shutdown by poison and join. Hard: bare pointers passed
between threads, the order of shutdown. Correct when every message is answered
once, completely, and nothing freed is used.

**Continuous streams and metrics** (`gss-stream.c`, `gss-metrics.c`). State:
counters of clients and bitrate of stream, program and server; a process-wide
table from descriptors to sockets; the clients of each `multifdsink`. Operations:
admission (main loop), hand-over when the headers are written, removal
(streaming threads). Hard: no locks; descriptors are reused; check and count are
apart. Correct when counters count, limits hold, and no socket but that of the
dropped player is closed.

**Programs and push sources** (`gss-program.c`, `gss-push.c`, the timer in
`gss-server.c`). State: enabled, the state machine STOPPED / STARTING / RUNNING /
STOPPING, the restart delay, the source that pushes, the stream and its pipeline.
Operations: enable, disable, PUT, Icecast, headers written, disconnect, bus
messages, timer. Hard: callbacks in any order on objects that may have been
replaced. **Pull programs** (`gss-pull.c`) share the state machine and differ in
how streams are made and released.

**Sessions** (`gss-session.c`, the resource callback of `gss-server.c`). State:
a list of sessions with time, rights, reference count. Operations: login,
verified assertions, lookup with its sweep, invalidation, logout, posts of
administrators. Hard: expiry, references, permanent sessions that survive a
restart. Correct when rights end, an exposed session is dead, and nothing freed
is listed.

**Users and groups** (`gss-user.c`). State: a table of user informations to
which sessions point; the same as a property in the configuration file. Hard:
pointers into the table, rights copied into sessions, crash and restart.

**Resource table and one-time resources** (`gss-server.c`, `gss-resource.c`, and
the entries that `gss-stream.c` makes). State: a hash table from URLs to entries,
pointers to entries kept by streams and by one-time entries, timers. Hard: an
entry is freed when it is replaced or removed. Correct when URLs answer with the
right data and no kept pointer dangles.

**Configuration file** (`gss-config.c`). State: an XML file and the objects
attached to it. Operations: load and attach, save after each post. Hard: crash,
what a save leaves out.

**Video on demand and adaptive streaming** (`gss-vod.c`, `gss-adaptive.c`). State: a
cache of opened recordings by key, version, protection and stream type; per
recording the parsed files, the levels with their fragments, the content key.
Operations: a request looks the recording up or loads it, answers manifests and
headers in the main loop and hands chunks and ranges to the worker; the
administrator posts properties. Hard: the worker has bare pointers into the
cache and reads files that others replace; a recording stays as it was opened
while the configuration goes on. Correct when a request gets data of the
recording and the protection its URL names, and what a manifest announces is
served.

**ISO files** (`gss-isom.c`, `gss-isom-boxes.h`). State: the position of the parser, the
movie with its boxes, the fragments of each track and the current one.
Operations: parse a file a box at a time, cut a file into fragments, write
headers, fragments and indices. Hard: reader and writer of a box are two
functions; offsets are filled in with sizes that other functions count; files
end anywhere. Correct when a player that follows the offsets it is told gets
the samples that were recorded.

**PlayReady** (`gss-playready.c`). State: the key seed, the license URL, whether clear
streaming is allowed. Operations: the post of these, keys from seed and
recording, vectors, encryption. Correct when the key a manifest names is the
one chunks are encrypted with, and no two samples share a key stream.

**Scatter-gather lists** (`gss-sglist.c`): the pieces of a fragment in its file.

**WebSocket** (`gss-websocket.c`): framing, a library that the server does not
call. **RTSP** (`gss-rtsp.c`): thin. **Managers, modules, objects, HTML, log,
soup, utils**: plumbing and formatting. **Tools**: `gss-transcoder`, `vts-server`,
`gss-info`, `gss-isom-tool`.

How they interact: the probe hands chunks to the main loop through idle sources;
the main loop hands requests to workers through an asynchronous queue and gets
them back through idle sources; streaming threads call into `gss-stream.c` and
the metrics directly; programs, streams and HLS all edit the one resource table;
sessions point into users; users and sessions are saved through the
configuration.

## 2. Plan

In the order of importance of the behaviour:

| module | composition and abstract specification | status |
|---|---|---|
| `HlsServer` | implements `LivePlaylist` for one stream | modelled, checked, proved |
| `Transactions` | | modelled, checked, safety proved; liveness checked |
| `StreamClients` | | modelled, checked, proved |
| `PushProgram` | | modelled, checked, proved |
| `Sessions`, `UserGroups` | share the life of a session | modelled, checked, proved |
| `Resources` | | modelled, checked, proved |
| `SampleTables`, `Fragmentizer`, `DashRange` | each extends the one before; a range is a part of the file | modelled, checked, proved |
| `IsomBytes`, `IsomBoxes`, `IsomFragments`, `IsomCut`, `IsomFile` | each extends the one before, `IsomCut` has an instance of `SampleTables`; recorder, parser, server and player are composed | modelled, checked; `FileIsRead`, `VectorsAreFresh` and `IndexIsRight` proved |
| `VideoOnDemand` | extends `Transactions`: the same workers, with what they work on | modelled, checked, proved |
| composition of `HlsServer` with `Resources` | streams that go while idle sources are pending | not begun |
| `Config` | order of loading, attach and detach | not begun |

Theorem still worth proving: that the composition of `HlsServer` with `Resources`, once
modelled, keeps the invariants of both. What cannot be proved here is in section 7.

## 3. Modules and code

Names of actions and variables are those of the code where TLA+ allows. Each
definition is mapped to its lines in `PROJECT.json`. Mutants, named as such in
a comment, are plausible bugs of one definition; each shows that a property
depends on the code it is about.

A flag `wild` (`usedFreed` in `PushProgram`) says that freed memory has been used. The
code may do anything from there, so the module does no further step, and
properties say under which conditions this state is not reached.

**`HlsServer`** (`gss-hls-server.c`). The probe is two actions: `CutChunk`, when the
buffer starts at a random access point and enough is collected, and `Collect`.
A buffer is a number, a chunk an interval of buffers. `CutChunk` appends to `idle`, the
pending idle sources, in the streaming thread; `AddChunk` is the callback in the
main loop (`gss_program_add_hls_chunk`) with the eviction, the new URL, the
counters and the rewriting of the variant playlist; `GetIndex` is the handler
with its cache (`gss_hls_update_index` when needed); `AddHls` is
`gss_program_add_hls_stream` as `gss_stream_set_sink` calls it. The program's
counter `nHlsChunks` is written by all streams, as in the code. URLs are pairs
of the `Key` of a stream and a number. **`LivePlaylist`** is what a player of one stream can
rely on, without ring, table or cache.

**`Transactions`** (`gss-transaction.c` with its use in `gss-adaptive.c` and the end of
`main()`). `Request` pauses and pushes in the main loop, `Pop` and `Process` run in a
worker, `Finish` is the idle source, `Finished` the signal that frees,
`ReleaseServer`, `Cleanup` and `Joined` the last lines of `main()`. The code has one
worker (`ASYNC_THREADS` is 1); the module has any number, and the properties
hold for any number.

**`StreamClients`** (`gss-stream.c`, `gss-metrics.c`). `Accept` ... `WroteHeaders` run in the main
loop, `Drop`, `Close` and `Clear` in the streaming thread of a stream. An update of
a counter is a `Load` and a `Store`, because no lock protects it. `overlap` records
which races have happened, so that properties can say exactly which ones cost
something. Descriptors are reused as the kernel does.

**`PushProgram`** (`gss-program.c`, `gss-push.c`, `periodic_timer`). One action per callback:
`Enable` and `Disable` (the property), `FirstPut`, `FirstIcecast`, `LaterIcecast` (requests),
`WroteHeaders` (the signal an Icecast request waits for), `Disconnect`, `Playing` and `Ends`
(bus messages), `LeakedEnds` (messages of a pipeline whose stream has a newer one),
`RestartTick`. `Stop` and `Started` are what `gss_program_stop` and `gss_program_start` do,
with their early returns.

**`Sessions`** (`gss-session.c`, `gss_server_resource_callback`, the part of `gss-user.c`
that saves permanent sessions). The list is a sequence, newest first. `Swept` is
what a lookup invalidates on its way; it is part of every action that looks up.
What is left of a list when some go is `Sublist`, which says at which places the
rest was and not how to walk there, so that it can be reasoned about.
Posts of administrators include the lookup of their own session and the save.
A session is not its id: `Id` gives one to each, and two may have the same. Random
ids are fresh (`Create`), those in a post of the property are not: `ReplacePermanent` is
`gss_user_set_permanent_sessions`, which makes a session for each id of the posted
string, in use, exposed and repeated ones included. `excused` records the
sessions that came to have an exposed id in one of the ways that the code has:
beside the one that was found, by such a post, or from the file.

**`UserGroups`** (`gss-user.c`). A pointer into the table is the number of informations
allocated when it was taken, so that a replaced entry shows as `Dangling`.

**`Resources`** (`gss-resource.c`, `gss-stream.c`, `gss-program.c`). Pointers to entries are
numbers in the same way; `urls` has the table and what each stream keeps of it.
`AddAllResources` is the loop of `gss_program_start`.

**`SampleTables`** (the sample iterator of `gss-isom.c`) has the tables of a track as pure
operators. `Iterate` and `Sample` are the iterator over stts, stsc and stsz, and
`IndexFromTimestamp` the lookup by time; `DeltaOf`, `ChunkOf` and `OffsetOf` define what
the tables mean without walking them. **`Fragmentizer`** (`gss_isom_parser_fragmentize`)
has the loops as the actions `BeginFragment`, `AddSample`, `NextTrack`; its properties
compare what they make of the iterator with the meaning of the tables. ctts is left out there: it is
walked like stts, and `IsomCut` has it. **`DashRange`** (`gss-adaptive.c`) has the offsets as
`gss_adaptive_convert_isoff_ondemand` computes them and an answer as
`gss_adaptive_dash_range_async` assembles it; a byte is a tuple that says which
one it is, so that a wrong or repeated byte is seen.

**`IsomBytes`** is the byte reader and writer that `gss-isom.c` uses (external). A byte
says of which number it is and which place it has in it, so that a number that
is read with another width or from another place is `Garbled`. A layout is a
sequence of fields and widths. **`IsomBoxes`** has, for each box inside moov, the
struct, the parser and the serializer; the two share a layout only where both
functions spell out the same one. **`IsomFragments`** has the boxes inside moof, the
serializer of a fragment with the offsets it fills in afterwards, and the
vectors and the encryption of `gss-playready.c`. **`IsomCut`** is `gss_isom_parser_fragmentize`
once more, as one function of a movie with all its boxes: `CutFragment` is what the
loops of `Fragmentizer` make of a fragment, with its composition offsets from ctts
(`Compositions`) and a chunk for each sample, and `CutMovie` what is made of the header:
tracks are numbered 1 and 2 and, if there is sound, times are rewritten
(`FixupTrack`). **`IsomFile`** is a state machine over
these operators: a recorder writes a header and fragments (`WriteHeader`,
`WriteFragment`) with boxes of other kinds between them (`WriteNoise`) and stops or is
cut off (`Stop`); the parser takes one box at a time (`ReadFtyp`, `ReadMoov`, `ReadMoof`,
`ReadMdat`, `RefuseMdat`, `ReadOther`, `EndOfFile`: the branches of
`gss_isom_parser_parse_file`); `Load` is `load_file` with the conversion to Smooth
Streaming or to an on-demand file, and `CutAndLoad` its branch for a movie whose first track
has no fragments, which cuts it first (`IsToBeCut`; then `phase` is "cut" and not "serve"). `Recorded` is a fragment as it is written, and
`SourceIsKnown` says of a recording what is known of its header and fragments each
by itself: which boxes they are, and what is read from them. What the parser makes
of the file they are joined to is then the subject of the module. Vectors of
tracks are `TrackShift` apart, those of fragments `VectorShift`. The properties are about a player: `Played`
is what it makes of an answer by following offsets, sizes and vectors, `ServedTrack`
what it reads in a header.

**`VideoOnDemand`** (`gss-vod.c`, `gss-adaptive.c`, `gss-playready.c`) extends `Transactions`. A
request is one of `GetRefused` (wrong protection or stream type, clear data that is
not allowed, nothing to load), `GetNow` (manifests, headers, not found),
`GetChunk` (with `Request` of `Transactions`) and `GetBreaks` (see `broken`); the first three
look the recording up in the cache or open it (`Found`, `Keep`). `Assemble` is the
worker (with `Process`): it opens the files by name and reads them as they are then, at the offsets it
knows; if they were replaced, they may be too short. `FinishChunk` is the idle
source (with `Finish`). `asked`, `query` and `answer` are tables by request: its URL and
what had been answered before it, the `GssAdaptiveQuery` it got, and the body it
was sent. `PostPlayready` and `PostVod` are the posts of the
administrator, `ReplaceFiles` and `RemoveFiles` what others do to the archive, `Release` the
end of the server object. An opened recording is a record with the number of
its allocation, the generation of its files and its content key. The flag `broken`
says that a NULL pointer or freed memory has been used or an assertion has
failed, and the module does no further step. A level is its bitrate, its size
and its fragments; the query limits of a manifest are one limit.

## 4. Runs

| run | what it shows | bounds, and why they are enough |
|---|---|---|
| `hls_single` | `WindowGrace`: a listed segment stays for Ring - Window more; `ImplementsLivePlaylist` | one stream, ring 3, window 2, 14 buffers in chunks of two or more: up to 6 segments, the ring is filled and wraps once |
| `hls_pair` | `RingIsServed`, `SegmentsAreContiguous`, `PlaylistsAreGood`, `VariantIsFresh`; under fairness `CapturedIsListed` | two streams, ring 2, window 1, 4 buffers each: up to 3 segments of a stream, so that a slot is reused, and either stream may lead the shared counter |
| `transactions` | `OneCompleteAnswer`, `FreedIsNotUsed`; under fairness `EveryRequestIsAnswered`, `ShutdownReturns` | 4 requests, 2 workers: requests are queued, held, finishing and freed at the same time, shutdown at any point |
| `clients` | `ClientsAreSound` (types, `CountersAreRight`, `SocketsAreRight`), `LimitHolds` | 2 players of 2 streams, 2 descriptors, limit 1: the main loop and both streaming threads interleave at every load and store, and a descriptor is reused |
| `push` | `PartsBelongTogether`, `RestartTimerIsIdle`, `CleanSourceIsStopped`, `StoppingIsLeftByPlaying` | 3 sources, 3 streams, delay 2: a program is stopped and its source replaced twice, with a pipeline left from each |
| `sessions` | `ListIsSound` (types, `ListedIsReferenced`), `RightsEnd`, `ExposedIsDead`, `PermanentIsSaved` | 3 sessions with 2 ids, timeout 1, time 0..2, 2 references, one assertion pending, posts of at most 2 ids: expired, valid and permanent sessions in every order of the list, two with one id among them, and posts of new, used, exposed and repeated ids |
| `users` | `PointersAreSound` (types, `PrivIsCurrent`), `GrantsAreKept`, `RightsOutliveTheGroupBriefly` | one user with two sessions, groups admin and user, 3 informations: both sessions older than the account, and one of each |
| `resources` | `TableIsSound` (types, `StreamsMatchUrls`, `TimersHaveUrls`), `OneTimesStayGood` | 3 streams, 2 one-time URLs, expiry 2: an index is given out again after a removal in the middle |
| `dash` | `FragmentsAreSound` (types, `SamplesAreRight`, `TimesDoNotDrift`), `AudioEndsWithVideo`, `RangesFitTogether` | 234 movies of 3 video and at most 3 audio samples, tables of one or two entries that end at different samples, and a time scale that does not divide 10; all ways to cut a track in ranges. Prefix is 1, so that an encrypted file is covered |
| `dash_length` | violation, see section 6 | the same movies, not encrypted |
| `isom` | `FileIsRead`, `HeaderSurvives`, `SamplesAreFound`, `IndexIsRight`, `VectorsAreFresh` | five recordings: two tracks of the server's own making, one track with the header of an on-demand file and with that of Smooth Streaming, one with all boxes that the parser knows, from another program, and a movie of two tracks without fragments, whose samples lie in turns in an mdat behind its header or are missing; fragments of one or two samples of 1 to 3 bytes in every order of the tracks; one box of another kind (with a body or without, 64-bit size, samples) anywhere; cut off or not; each served in both forms, clear and encrypted. 2 and 1 bytes stay clear in place of 1000 and 48, so that samples are clear in part or altogether, and vectors of fragments are 100 apart in place of 2^32, those of tracks 1000 |
| `vod` | `UsedIsKept`, `AnswersFitTheUrl`, `AnnouncedIsServed` | 2 requests for any of 20 URLs, one worker, 2 changes of configuration or archive at any time: a manifest, a change, and a chunk from it; or two chunks at once with the cache, the queue and the end of the server. Five versions: two levels; two of one bitrate with other times; no video; no files; more files than parsers |

`TypeOK` is checked in every passing run but `hls_single`, `isom` and `vod`, by itself or in the
conjunction the table names. Deadlock is not checked in any: each module
has behaviours that end when its bounds are used up, or when the server has
stopped; that nobody waits forever is what `EveryRequestIsAnswered`, `ShutdownReturns`
and `CapturedIsListed` say.

Symmetry is used in `push`, `sessions`, `users` and `vod`, where sources, the two sessions with one id,
users and requests are interchangeable and no liveness is checked.

Properties that hold only up to a known weakness name it: `LimitHolds` excepts
players admitted before the headers of another were written (the test in
`gss-stream.c:410` and the count are apart); `CountersAreRight` excepts overlapping
updates; `PrivIsCurrent` excepts a table that was set anew and an account requested
twice; `StreamsMatchUrls` excepts a stream removed from before another;
`AnnouncedIsServed` excepts manifests that cannot describe the recording because two
levels have the same estimated bitrate, a bitrate of 0, or other times than the
first, clear streaming that was switched off in between, and, for which files the bytes are of,
files that the archive has replaced (`IsReplaced`);
`CapturedIsListed` excepts chunks that Window newer ones of their stream overtake, and those that are
skipped because the counter that streams share is ahead of theirs (`SkippedByCounter`);
`ExposedIsDead` excepts sessions with the same id beside the one that was found, and
those made later under that id by a post or from the file (`excused`);
`HeaderSurvives` excepts, of a movie that was cut, the numbers of its tracks and, with
sound, their times;
`IndexIsRight` speaks of files in the clear, because in an encrypted one the header
of the samples is counted twice; `SamplesAreFound` and `IndexIsRight` except a fragment
whose samples were cut off; `CleanSourceIsStopped` covers only sources that came to a program that could start;
`RestartTimerIsIdle` says that the timer never restarts anything. The exceptions are
themselves statements about the code: TLC reaches each of them.

## 5. Fairness

`HlsServer`: weak fairness of `AddChunk`, because GLib dispatches a pending idle
source once nothing more urgent is ready, and of `GetIndex`, because a player
polls the playlist. Nothing is assumed of sources: `CutChunk` and `Collect` are not fair.
`Transactions`: weak fairness of each worker (a thread blocked in
`g_async_queue_pop` is woken by a push), of `Finish` (an idle source), and of the
straight-line code at the end of `main()`. No fairness is assumed of clients or of
the shutdown. All other runs check safety only.

## 6. Where the code does not do what it says

- `dash_length`: the header of the mdat box is at the end of the moof data
  (`gss-adaptive.c:817`), but offsets and sizes count it in the mdat as well.
  Each fragment in a range makes the answer 8 bytes shorter than its
  Content-Range says. Ranges still fit together (`RangesFitTogether`): the file is
  right, its stated size is not.

The following were met while modelling. The modules have them as the code does;
no run is devoted to them.

- `gss-server.c:378` describes max-rate with "0 is unlimited", but `stream_resource`
  refuses when the rate in use is `>= max_rate * 8000`, so with 0 every player is
  refused (`gss-stream.c:411`, `Full` in `StreamClients`).
- An audio track shorter than the video gets fragments without samples
  (`gss-isom.c:3702`), for which `gss_sglist_new` ("n_chunks > 0") returns NULL, which is
  then loaded (`MeetsNoList` in `DashRange`).
- `cache-size` ("Number of streams to hold in memory.", `gss-vod.c:95`) is never
  looked at (`gss-vod.c:401`, `Keep` in `VideoOnDemand`).
- `dir-levels` may be 4, for which the switch at `gss-vod.c:372` has no case but
  `g_assert_not_reached` (`LoadBreaks`).
- A worker that cannot read its file sets the status to not found
  (`gss-adaptive.c:106`), but the missing buffer is then encrypted or, in the clear,
  sent with status 200 (`gss-adaptive.c:816`): `broken`.
- A file that cannot be parsed is used all the same (`gss-adaptive.c:1292`), and
  more than 20 files of a version run over the array of parsers (`LoadBreaks`).
- A manifest of Smooth Streaming or of the live profile looks at the first video
  and the first audio level of a recording that may lack one (`ManifestBreaks`), and
  gives all levels the times of the first.
- For the live profile nothing makes the moof of a fragment; the answer would begin
  8 bytes before an absent buffer ends (`FinishChunk`).
- A level that an on-demand file does not have is answered with status 200 and no
  body (`Empty`).
- The fields that are lost between parser and serializer: the duration of a version 0 mvhd
  (`gss-isom.c:1011`), all entries of dref but the first, the format of encrypted
  entries. `FileIsRead` compares with what the struct holds then.
- In an encrypted on-demand file the header of the samples is counted twice in
  offsets and in the index (`gss-isom.c:3352`, `gss-adaptive.c:1175`).

## 7. Proofs

All theorems hold for every value of the constants that the named assumptions
allow, and say of each variable and each step what the module says. The
assumptions state what the code has:

- `HlsServer`: a ring of at least one slot (`RingAssumption`), a window not larger
  than it (`WindowAssumption`: 5 and 20), chunks of at least one buffer
  (`MinUnitsAssumption`), and streams of a program with different URLs
  (`KeyAssumption`; see `gss-hls-server.c:250` under hazards).
- `Resources` and `Transactions`: finitely many streams and workers
  (`StreamsAssumption`, `WorkersAssumption`).
- `StreamClients`: a player asks for one stream (`WantAssumption`), and streams have
  other names than counters (`NamesAssumption`).
- `UserGroups`: there is a group of administrators (`GroupsAssumption`). `Sessions`: the lack of an
  id is not an id (`NoIdAssumption`); random ids are those that no session has had (`Create`).
- `VideoOnDemand`: the archive holds each recording in at least one generation, and
  what the parser makes of its files is what `Fragmentizer` makes: fragments with
  times that are natural numbers and leave no gaps (`RecordingsAssumption`); a URL names
  a recording that the archive has or once had (`UrlsAssumption`); parameters that
  are absent or bad are no numbers (`ParametersAssumption`).
- `Fragmentizer`: the tables of a movie fit together (`MoviesAssumption`), as ISO/IEC
  14496-12 demands and the code takes for granted: stts has a time for each
  sample, runs of stsc have samples and begin with chunk 1 in increasing order, stss
  is increasing. Durations and sizes may be 0. A file without stss is refused
  (`gss-isom.c:3616`); that video begins with a sync sample is what encoders write,
  not what the standard demands (see section 8).
- `IsomFile`: a recording is known by itself (`SourcesAssumption`): its header is boxes
  one after another, one of them the moov and none a moof or mdat; each fragment is a moof and an
  mdat and is read, by itself, as the fragment that it was written from, without a saiz, as
  recordings in the clear are; tracks have different ids, names and codec data are bytes and
  tables have a count (`TrackIsKnown`); a pssh that is read is not one the serializer
  writes. It is a statement about single boxes, and TLC evaluates it for the recordings of
  the instance, which are all that the serializers can produce there. Boxes between fragments are of
  other kinds (`NoisesAssumption`). Vectors leave room (`VectorsAssumption`): a fragment has
  at most 2^32 samples (`VectorShift`), a track not more fragments than fit before the
  vectors of the next, which a hash of file and track id sets apart (`TrackShift`).
- `PushProgram`: the bound on streams is a number (`MadeAssumption`).
- Everywhere: times and bounds are natural numbers, and values that stand for
  "none" are not members of the sets they are added to.

A property is seldom inductive. Each module of proofs has the invariant that
is, `IInv` or a name that says more, a conjunction of named parts; TLC checked it on the instances of
section 4 before it was proved. Then there is a lemma for each action, and the
theorems combine them.

**`HlsServer_proofs`** proves `TypeOK`, `RingIsServed`, `PlaylistsAreGood` and
`VariantIsFresh`. That eviction removes the right URL needs to know which segment is
in which slot. `IInv` has, beside `TypeOK`: the slot of each live number holds its
segment (`RingHoldsLive`); a used slot holds only a live one (`SlotsHoldOnlyLive`); slots are
used once the stream has come to them (`PastSlotsUsed`); the table has exactly the
URLs of live segments (`TableIsLive`); a served playlist does not reach past its
stream (`IndexIsPast`), names live segments by their numbers (`IndexIsRight`), and, if not
marked for update, is complete (`IndexIsLive`). The step that matters is `AddChunk`:
numbers less than Ring apart fall in different slots (`ModApart`), the new one in
that of the oldest (`ModStep`), so the evicted segment is the one that stops being
live.

`SegmentsAreContiguous` needs to follow the media from the adapter of the streaming
thread through the idle sources into the ring, in that order and without a hole
(`MediaInv`): the pending chunks of a stream continue each other
(`PendingIsContiguous`), each has enough buffers (`PendingIsLong`), the first continues the
ring (`PendingFollowsRing`), and the adapter continues the last (`AdapterFollows`). `Newest` is the
last chunk that was cut, wherever it is.

With one stream the server implements `LivePlaylist` (`Refinement`): Init maps to Init,
`AddChunk` to `Publish`, a rebuilt playlist to `Serve`, everything else to a stutter. It
needs `IInv` for the store, and that the program's counter is the stream's
(`OneCounter`), which two streams would break. `WindowGrace` follows with it, because a
playlist then has at most Window segments (`ServedIsWindow`) and so the first of
them is live for Ring - Window more.

**`VideoOnDemand_proofs`** is about `Transactions` first, then about what is built on it.
It proves `OneCompleteAnswer` and `FreedIsNotUsed`. The properties count places with cardinalities; `IInv` says the same with sets that
have at most one element and exclude each other (`PlacesAreDistinct`), that freed
means done (`DoneIsFreed`), and that what is in an idle source has its body
(`BodyIsFilled`). `AppendAt` and `TailAt` say where elements of a queue are after a push and
a pop. The properties are claimed while the server runs: after its release closed
connections free transactions that workers may still hold
(`src/tools/gst-streaming-server.c:211`).

Of `VideoOnDemand` it proves `UsedIsKept`, `AnswersFitTheUrl` and `AnnouncedIsServed`. Each
step is one of `Transactions` or leaves that alone (`StepOfWorkers`), so `IInv` holds here
too, and tells where requests are. `ServedFromCache` adds what they carry: the cache has a recording at the
key made of that recording (`CacheIsKeyed`); what a request has found fits its URL
(`QueriesFit`) and is in the cache while the server runs (`FoundIsCached`), so that two
requests with one key have found the same recording (`OneRecording`); who waits for a
worker has asked for a chunk (`PlacedIsAsked`), and what comes back is a chunk of the
recording under its key (`FinishedIsAssembled`, `AnswersAreRight`). `AnnouncedIsServed` then is
about one recording: times and bitrates of a level in a manifest are enough to
find the fragment again, because fragments leave no gap. Which files its bytes are of
follows from a second invariant: generations only grow (`GenerationsGrow`), so what a worker
read for a recording lies between the files it was opened with and those there are
now, and is the former unless they were replaced.

**`StreamClients_proofs`** proves `ClientsAreSound` and `LimitHolds`. `SocketInv` says who
has which socket: players hold their descriptors alone (`SocketsAreHeld`) until the
streaming thread that drops them closes it (`DroppedHaveSockets`), and the table names
the player or nobody (`TableNamesPlayers`), so the socket that a thread closes is the
one it has to (`DroppedIsClosed`). `CountInv` says what a counter is in the middle of
updates: its value and what the main loop still has to add are what it counts
and what streaming threads still have to subtract (`CountsAddUp`); as long as updates
do not overlap, what a thread has loaded is the counter (`LoadedIsCurrent`).
`RoomForPending` is why one test before the headers are written is enough for one
player, and not for two.

The second part of **`Resources_proofs`** is about `PushProgram` (its invariant is `PushInv`) and
proves the four properties and the types. The types need that
client and stream go together; `CleanSourceIsStopped` needs that the program is then
in a state that stop accepts (`CleanIsStoppable`), which in turn needs that STARTING
implies enabled (`EnabledIsStarted`).

**`Sessions_proofs`** proves `ListIsSound`, `RightsEnd`, `ExposedIsDead` and `PermanentIsSaved`.
The last is not inductive: a save writes the list backwards and a restart turns it
around once more, so that the file and the list must agree not only on the
permanent sessions but on their order (`FileIsInOrder`), and what the file still has
and the list has not was seen over plain HTTP. It holds of any sessions and any ids, alike
or not: that an id which a login or "add-session" makes is new (`UnusedIsNowhere`) is the
assumption that random ids do not repeat; a post may bring back whatever it names,
and `ExposedIsDead` says which sessions that are. The first part of the module is
about lists: sublists keep order (`Ranks`), and a list without repetition is
given by its elements and which precedes which.

**`UserGroups_proofs`** proves `PointersAreSound`, `GrantsAreKept` and
`RightsOutliveTheGroupBriefly`. What was granted must be in the file as well as in the
table, because a restart makes one from the other (`GrantsAreSaved`); a session
that is still an administrator's is older than the moment its user lost the right
(`RightsAreOlder`), and none is younger than the clock (`BornIsPast`).

**`Resources_proofs`** proves `TableIsSound` and `OneTimesStayGood`. An entry in the table is
that of a listed stream, which knows it and its index (`Owned`): otherwise the
removal of a stream could leave its entry behind. Indices get smaller as streams before
one are removed, so that the URL of a stream is at its place in the list or
behind it (`Behind`). This is why `gss_program_start` can enter the streams one
after the other: each takes the URL of its place, removes the entry at an index
that is not smaller, and so never that of a stream entered before it
(`AddAllServes`, by induction over the list). If no stream was removed from before
another, streams have the URLs of their places (`Served`), and the URL of a new one is
free, which is `OneTimesStayGood`.

**`DashRange_proofs`** proves `FragmentsAreSound`, `AudioEndsWithVideo` and `RangesFitTogether`,
for every movie whose tables fit together. The first part says what the sums in the
model are (`TotalIs`, `SumStep`), and from that what the tables mean: each sample is in one
entry of stts (`EntryOf`) and one chunk (`ChunkIs`). The iterator walks all tables at once;
`IsAt` says that it is in each of them where its sample is, and `IterateIsAt` that a step
keeps it there, whichever of entry, chunk and run of chunks end together. The
invariant `FragInv` has two parts. A finished fragment (`IsCut`) begins where the one before
it had to end (`Goal`), is timed by the ticks before it, rounded once and not sample by
sample (`TimeAt`), and has its samples in place. The track that is being cut
(`Cutting`) has the iterator behind its last fragment, and what is left leads exactly to
where that has to end. For audio this end is the index of a time that was scaled
twice; `IndexIs` and `QuotientBound` show that rounding down twice does not lose a sample.
For ranges, `CutAt` says that bytes from one address to another are cut at a third:
this holds for a clipped part (`PieceIsCut`), and for two parts behind each other if for
each (`CutsJoin`), and so, fragment by fragment, for the whole answer (`BodyIsCut`). A player
that has asked up to an address has what one range up to it would have been
(`DashInv`), and a range up to dash_size is the file (`BodyIsFile`).

**`IsomFile_proofs`** proves `FileIsRead`, `VectorsAreFresh` and `IndexIsRight`, for any recordings that are
known by themselves, any boxes between their fragments, any order of the tracks and any end within the last
samples. Of a movie that is cut when it is loaded the invariant keeps what the file is; `VectorsAreFresh` and
`IndexIsRight` are about fragments that were read. Its
first part is about sequences of bytes: reading a number, a header or a body of a part that stands at a
place of a file gives what it gives in the part alone. `FileIs` says what the recorder has
written: a chain of boxes without a gap (`IsChain` of the places in `StartsOf`), with each part
where it was put (`PlaceIsRight`), and the fragments of a track with the numbers 1, 2 and so on
(`NumbersAreUsed`). Cutting the file off touches nothing but the bytes of the last samples, whose box
then reaches past the end. The parser is always at a box of the chain, or at the end, and `ReadState` says what it has made of
those before it: the moov, if it has passed it (`MovieIsRead`), and of each track as many fragments as
begin before it (`FragmentsAreCounted`), each read from its own place and with its own chunk
once its mdat is passed (`FragmentsAreRead`); the fragment that is waiting for a chunk is the last
one before the parser (`CurrentIsLast`), and so an mdat is given to the fragment it was written after.
What a step reads follows from the box at its place being one of the recording's
or of another kind (`IsFound`). Times are added up at the end (`IsDone`): they are sums of sums, as the
property has them. For `VectorsAreFresh`, `VectorsAreSet` says which vector each sample has, and `SameQuotient` that
numbers of tracks, fragments and samples can be read off it, as long as they leave each other room.

`IndexIsRight` is about bytes that the server writes, so the second half of the module says
what they are. Boxes, tables and headers are sequences whose lengths are the sums of those of their
parts (`FlatFacts`; `TrackIsSeq`, `TrafIsSeq` and so on down to single fields). A header on demand is three boxes
(`DashIs`), the third is found by its atom behind the other two (`ThreeChildren`, `ThirdChild`), and
row i of its index is 12 bytes long and begins 24 + 12 (i - 1) bytes from the start (`RowsAre`, `SidxIs`),
where the number is read that was written (`GetPut`). The number is the size of the moof, with the
header of the mdat, and of the mdat without it. That this is what is served needs two facts
that hold only along a run. `SoundInv` has them: the `mdat_size` of a fragment is 8 more than its chunk,
whichever mdat came last, and what has been read can be written again (`CanBeWritten`, so that the
length of `moof_data` is what it is taken to be); a level is made of just this and of nothing later.
With `IInv`, which gives the chunk its place in the file, the answer has the length in the index.

Only model-checked:

- Liveness (`CapturedIsListed`, `EveryRequestIsAnswered`, `ShutdownReturns`): fairness and
  ENABLED are outside what the prover handles.
- `HeaderSurvives` and `SamplesAreFound`, and with them all that is said of a movie that is cut when it is
  loaded as a file: they compare what is parsed from bytes
  with what was serialized, box by box and field by field, over layouts and nested
  boxes of any length. For the index, one box of a header and one column of its rows, this
  is proved (`IndexIsRight`); here it is every box and every field, the encryption included,
  and the parsers are folds over them.
- The disagreement of section 6.

The library's induction theorems take an operator as a parameter, which the
provers cannot instantiate. `Resources_proofs`, `DashRange_proofs` and `IsomFile_proofs` have an
induction over sets instead (`SetInduction`, from the well-foundedness of the natural numbers); it is
enough for a recursive function whose result is described without recursion.

## 8. Not modelled

- Texts: MPEG-TS packets, the wording of playlists and manifests, HTML and JSON
  pages, the player pages.
- Serializers of boxes that nothing calls (ctts, stss, dref, elst and others),
  `gss_isom_track_get_sample` and `gss_sglist_merge`, which nothing but tests call.
- Files that end elsewhere than in the last samples: a box header that is cut
  off is read from memory that was never written.
- ctts in `Fragmentizer` (`IsomCut` has its walk, and `SamplesAreFound` checks the composition
  offsets of a movie that is cut), and tracks whose samples all have one size: the iterator
  stops with an assertion at the first of them (`gss-isom.c:4050`).
- Movies without fragments whose tables do not fit together (`CanBeCut`): the code reads
  entries that are not there. The index and the vectors of a movie that is cut as it is loaded
  are in no property.
- Box sizes of 64 bits inside containers, fragments whose trun has no data offset,
  and base data offsets in tfhd: the server writes none of them.
- Change of the endpoint or of the archive directory: the resource keeps the prefix
  it was made with.
- `estimate_bitrate` and the limits of manifest queries one by one: bitrates and
  sizes are data of the instance.
- Movies whose first sync sample is not the first sample: the instances have
  none, and the code would shift the fragments of video.
- Streams that are removed while their chunks are pending, programs that are
  destroyed, and programs whose streams share URLs.
- Pull programs: the state machine is that of `PushProgram`.
- Ciphers and checksums, which are injective functions here; the license proxy,
  RTSP, the object system, logging, WebSocket frames, and the four tools except
  the shutdown of the server's `main()`.

`PROJECT.json` lists every component with its status and every hazard with the
properties that cover it or the reason why none does.
