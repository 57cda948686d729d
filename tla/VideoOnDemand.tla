---------------------------- MODULE VideoOnDemand ----------------------------
(***************************************************************************)
(* Recordings served from the archive (gss-vod.c, gss-adaptive.c,          *)
(* gss-playready.c), on top of the worker threads of Transactions.         *)
(*                                                                         *)
(* The main loop looks a URL up in the cache of opened recordings, loads   *)
(* what is not there, and answers manifests and headers itself.  A chunk   *)
(* is left to a worker, which is given bare pointers into the recording    *)
(* and reads the file later, whatever the administrator and the archive    *)
(* have done in between.                                                   *)
(***************************************************************************)
EXTENDS Transactions, SequencesExt

CONSTANTS Recordings,    \* Recordings[key][g][version]: the files of generation g of a recording
          Urls,          \* the URLs that can be asked for
          HomeLevels,    \* the dir-levels the archive is laid out by
          MaxParsers,    \* length of adaptive->parsers
          MaxChanges,    \* bound on changes to the configuration and the archive
          Absent, Bad,   \* a parameter that is not there, one that is not a number
          InitTime,      \* start_time=init
          None           \* NULL

(* The parser and the fragmentizer start a fragment where the last ended.  *)
IsContiguous(level) ==
    \A i \in DOMAIN level.fragments :
        level.fragments[i].timestamp =
            SumFunction([j \in 1 .. i - 1 |-> level.fragments[j].duration])

(* One level per file and track; a file may lack one of the two.           *)
LevelsOf(files, kind) ==
    SelectSeq([i \in DOMAIN files |-> files[i][kind]], LAMBDA l : l # None)

(* What the parser and the archive make of a file                          *)
IsLevel(level) ==
    /\ IsContiguous(level)
    /\ level.bitrate \in Nat
    /\ \A i \in DOMAIN level.fragments : level.fragments[i].timestamp \in Nat

ASSUME RecordingsAssumption ==
    \A k \in DOMAIN Recordings :
        /\ Len(Recordings[k]) \in Nat \ {0} /\ DOMAIN Recordings[k] = 1 .. Len(Recordings[k])
        /\ \A g \in DOMAIN Recordings[k] : \A v \in DOMAIN Recordings[k][g] :
              \A kind \in {"video", "audio"} :
                 LET levels == LevelsOf(Recordings[k][g][v], kind)
                 IN  \A i \in DOMAIN levels : IsLevel(levels[i])
ASSUME UrlsAssumption == \A u \in Urls : u.key \in DOMAIN Recordings
ASSUME ParametersAssumption == {Absent, Bad, InitTime} \cap Nat = {}

VARIABLES disk,     \* what the archive holds of each recording
          conf,     \* properties of GssPlayready and GssVod
          cache,    \* vod->cache
          loads,    \* recordings opened so far: the next one's address
          changes,  \* changes made so far
          asked,    \* what each request has asked for, and when
          query,    \* what each request has found: its GssAdaptiveQuery
          answer,   \* what each request has been answered
          broken    \* a NULL pointer or freed memory was used, or the program has aborted

confVars == <<disk, conf, changes>>
vodVars == <<confVars, cache, loads, asked, query, answer, broken>>
allVars == <<vars, vodVars>>

(* gss_vod_init, gss_playready_init: clear streaming is off by default.    *)
VodInit ==
    /\ disk = [k \in DOMAIN Recordings |-> [gen |-> 1, left |-> "all"]]
    /\ conf = [allow_clear |-> FALSE, key_seed |-> 0, dir_levels |-> HomeLevels]
    /\ cache = <<>>
    /\ loads = 0
    /\ changes = 0
    /\ asked = <<>>
    /\ query = <<>>
    /\ answer = <<>>
    /\ broken = FALSE

-----------------------------------------------------------------------------
(* The recording behind a URL.                                             *)
DrmTypes == {"pr", "clear"}                            \* gss_drm_get_drm_type
StreamTypes == {"ism", "isoff-live", "isoff-ondemand"} \* gss_adaptive_get_stream_type

HashKeyOfFile(u) == <<u.key, u.version, "", u.stream>>  \* a mutant: without the drm
HashKey(u) == <<u.key, u.version, u.drm, u.stream>>

(* SHA checksums, taken to be injective: create_key_id makes the id of the *)
(* key from the name of the recording, and the key comes from id and seed. *)
KeyId(key) == <<"kid", key>>
GenerateKey(seed, kid) == <<seed, kid>>
Checksum(kid, content_key) == <<"checksum", kid, content_key>>

(* A recording opened for a URL, at the address of its own, in the state   *)
(* the archive and the configuration are in at that time.                  *)
Adaptive(u) == [n |-> loads, key |-> u.key, version |-> u.version, drm |-> u.drm,
                stream |-> u.stream, gen |-> disk[u.key].gen,
                content_key |-> GenerateKey(conf.key_seed, KeyId(u.key))]

FilesOf(a) == Recordings[a.key][a.gen][a.version]

Levels(a, kind) == LevelsOf(FilesOf(a), kind)

(* The manifest of the archive is read, and has files for the version.     *)
HasManifest(u) == conf.dir_levels = HomeLevels /\ disk[u.key].left # "nothing"
HasVersion(u) ==
    LET versions == Recordings[u.key][disk[u.key].gen]
    IN  u.version \in DOMAIN versions /\ versions[u.version] # <<>>

IsCached(u) == HashKey(u) \in DOMAIN cache
IsLoadable(u) == HasManifest(u) /\ HasVersion(u)

(* The default of the switch on dir_levels; a file of the manifest that    *)
(* cannot be read, whose tracks load_file looks at; more files than there  *)
(* are parsers.                                                            *)
LoadBreaks(u) ==
    /\ ~IsCached(u)
    /\ \/ conf.dir_levels = 4
       \/ IsLoadable(u) /\ (disk[u.key].left # "all" \/ Len(FilesOf(Adaptive(u))) > MaxParsers)

Refused(u) ==
    \/ u.drm \notin DrmTypes
    \/ u.drm = "clear" /\ ~conf.allow_clear
    \/ u.stream \notin StreamTypes
    \/ ~IsCached(u) /\ conf.dir_levels # 4 /\ ~IsLoadable(u)

FoundBySeed(u) ==  \* a mutant: a recording opened with another seed is opened again
    IF IsCached(u) /\ (cache[HashKey(u)].content_key = Adaptive(u).content_key \/ ~IsLoadable(u))
    THEN cache[HashKey(u)]
    ELSE Adaptive(u)
(* gss_vod_get_adaptive of a URL that is not refused.                      *)
Found(u) == IF IsCached(u) THEN cache[HashKey(u)] ELSE Adaptive(u)

(* A table with a new entry                                                *)
With(f, x, y) == [z \in DOMAIN f \cup {x} |-> IF z = x THEN y ELSE f[z]]

KeepOne(u, a) == With(<<>>, HashKey(u), a)  \* a mutant: room for one recording
Keep(u, a) == With(cache, HashKey(u), a)

Open(u) ==
    /\ cache' = Keep(u, Found(u))
    /\ loads' = IF Found(u).n = loads THEN loads + 1 ELSE loads

-----------------------------------------------------------------------------
(* What a manifest announces.  max stands for the six limits of a query.   *)
CheckVideo(q, level) == q.max = Absent \/ level.size <= q.max

Shown(levels, q) == {i \in DOMAIN levels : CheckVideo(q, levels[i])}

(* The times of a manifest are sums of durations, those of the first level *)
StartTimes(level) ==
    {SumFunction([j \in 1 .. i - 1 |-> level.fragments[j].duration]) : i \in DOMAIN level.fragments}

Chunks(levels, shown, kind) ==
    {[kind |-> kind, bitrate |-> levels[i].bitrate, time |-> t] :
        i \in shown, t \in StartTimes(levels[1])}

ListedIsm(a, q) ==
    LET video == Levels(a, "video")
    IN  Chunks(video, Shown(video, q), "video") \cup Chunks(Levels(a, "audio"), {1}, "audio")

ListedLive(a, q) ==
    LET video == Levels(a, "video")
        audio == Levels(a, "audio")
    IN  Chunks(video, Shown(video, q), "video") \cup Chunks(audio, DOMAIN audio, "audio")

ListedOnDemand(a, q) ==
    {[kind |-> "video", index |-> i] : i \in Shown(Levels(a, "video"), q)} \cup
    {[kind |-> "audio", index |-> i] : i \in DOMAIN Levels(a, "audio") \cap {1}}

(* gss_playready_get_protection_header: id and checksum of the key.        *)
ProtectionHeader(a) ==
    IF a.drm = "clear" THEN None
    ELSE [kid |-> KeyId(a.key), checksum |-> Checksum(KeyId(a.key), a.content_key)]

Manifest(a, q) ==
    [what |-> "manifest", of |-> a, protection |-> ProtectionHeader(a),
     lists |-> CASE a.stream = "ism" -> ListedIsm(a, q)
                 [] a.stream = "isoff-live" -> ListedLive(a, q)
                 [] a.stream = "isoff-ondemand" -> ListedOnDemand(a, q)]

(* The smooth streaming and live manifests look at the first level of each *)
(* kind whether there is one or not.                                       *)
ManifestBreaks(a) ==
    a.stream # "isoff-ondemand" /\ (Levels(a, "video") = <<>> \/ Levels(a, "audio") = <<>>)

NotFound == [what |-> "not found"]
Empty == [what |-> "empty"]  \* status 200 without a body
Header(a, kind, i) == [what |-> "header", of |-> a, kind |-> kind, level |-> i]

-----------------------------------------------------------------------------
(* Which level and fragments a content URL names.                          *)
LowestOf(S) == CHOOSE i \in S : \A j \in S \ {i} : i < j

WithBitrate(a, q) ==  \* gss_adaptive_get_level
    {i \in DOMAIN Levels(a, q.stream) : Levels(a, q.stream)[i].bitrate = q.bitrate}

IsNumber(parameter) == parameter \notin {Absent, Bad}  \* parse_guint64

IsComplete(q) ==
    /\ q.stream \in {"audio", "video"}
    /\ IsNumber(q.bitrate) /\ q.bitrate # 0
    /\ q.start_time = InitTime \/ IsNumber(q.start_time)

LevelAt(a, q) == LowestOf(WithBitrate(a, q))

WithTime(a, q) ==  \* gss_isom_track_get_fragment_by_timestamp
    LET fragments == Levels(a, q.stream)[LevelAt(a, q)].fragments
    IN  {i \in DOMAIN fragments : fragments[i].timestamp = q.start_time}

HasLevel(a, q) == IsComplete(q) /\ WithBitrate(a, q) # {}
NamesFragment(a, q) == HasLevel(a, q) /\ q.start_time # InitTime /\ WithTime(a, q) # {}

(* A range of an on-demand file; DashRange says which bytes of it go out.  *)
NamesRange(a, q) == q.index \in DOMAIN Levels(a, q.kind)
InRange(a, q) == q.range \cap DOMAIN Levels(a, q.kind)[q.index].fragments

ByQuery(a, u) == u.path = "content" /\ a.stream # "isoff-ondemand"
ByRange(a, u) == u.path = "content/" /\ a.stream = "isoff-ondemand"
ByManifest(a, u) == u.path = IF a.stream = "ism" THEN "Manifest" ELSE "manifest.mpd"

NeedsWorker(a, u) ==
    \/ ByQuery(a, u) /\ NamesFragment(a, u.q)
    \/ ByRange(a, u) /\ NamesRange(a, u.q) /\ ~u.q.head

Target(a, u) ==
    IF ByQuery(a, u)
    THEN [kind |-> u.q.stream, level |-> LevelAt(a, u.q), chunks |-> {LowestOf(WithTime(a, u.q))}]
    ELSE [kind |-> u.q.kind, level |-> u.q.index, chunks |-> InRange(a, u.q)]

(* gss_adaptive_get_resource for what the main loop answers by itself.     *)
AnswerNow(a, u) ==
    CASE ByManifest(a, u) -> Manifest(a, u.q)
      [] ByQuery(a, u) /\ HasLevel(a, u.q) /\ u.q.start_time = InitTime ->
            IF a.stream = "ism" THEN Header(a, u.q.stream, LevelAt(a, u.q)) ELSE Empty
      [] ByRange(a, u) -> Empty  \* HEAD, or a level that is not there
      [] OTHER -> NotFound

-----------------------------------------------------------------------------
IsNew(r) == main = "running" /\ msg[r] = "new" /\ r \notin DOMAIN asked

Asks(r, u) ==
    asked' = With(asked, r, [url |-> u, allowed |-> conf.allow_clear, seen |-> DOMAIN answer])
Queries(r, a) == query' = With(query, r, [adaptive |-> a, data |-> None])
Answers(r, x) == answer' = With(answer, r, x)

(* Requests that end in the handler of the resource.                       *)
GetRefused(r, u) ==
    /\ IsNew(r)
    /\ Refused(u)
    /\ Asks(r, u)
    /\ Answers(r, NotFound)
    /\ UNCHANGED <<vars, confVars, cache, loads, query, broken>>

GetNow(r, u) ==
    /\ IsNew(r)
    /\ ~Refused(u) /\ ~LoadBreaks(u)
    /\ ~NeedsWorker(Found(u), u)
    /\ ~(ByManifest(Found(u), u) /\ ManifestBreaks(Found(u)))
    /\ Open(u)
    /\ Asks(r, u)
    /\ Queries(r, Found(u))
    /\ Answers(r, AnswerNow(Found(u), u))
    /\ UNCHANGED <<vars, confVars, broken>>

GetBreaks(r, u) ==
    /\ IsNew(r)
    /\ ~Refused(u)
    /\ \/ LoadBreaks(u)
       \/ ~LoadBreaks(u) /\ ByManifest(Found(u), u) /\ ManifestBreaks(Found(u))
    /\ broken' = TRUE
    /\ UNCHANGED <<vars, confVars, cache, loads, asked, query, answer>>

(* Requests for chunks: paused, and handed to a worker with their query.   *)
GetChunk(r, u) ==
    /\ IsNew(r)
    /\ ~Refused(u) /\ ~LoadBreaks(u)
    /\ NeedsWorker(Found(u), u)
    /\ Open(u)
    /\ Asks(r, u)
    /\ Queries(r, Found(u))
    /\ Request(r)
    /\ UNCHANGED <<confVars, answer, broken>>

IsLive(a) == \E h \in DOMAIN cache : cache[h] = a

Assembled(a, u) ==
    [what |-> "chunk", of |-> a, key |-> IF a.drm = "clear" THEN None ELSE a.content_key,
     target |-> Target(a, u), gen |-> disk[u.key].gen]

(* gss_adaptive_async_assemble_chunk, gss_adaptive_dash_range_async: the   *)
(* file is opened by its name and read now, at the offsets of the          *)
(* recording that was opened.  If it cannot be, because it is gone or the  *)
(* one in its place is too short, there is no buffer to encrypt in, to     *)
(* copy from or to send.                                                   *)
Assemble(w) ==
    /\ worker[w] \in Requests
    /\ Process(w)
    /\ LET r == worker[w]
           a == query[r].adaptive
           u == asked[r].url
           replaced == disk[u.key].gen # a.gen
       IN  /\ query' = [query EXCEPT ![r].data = Assembled(a, u)]
           /\ \E short \in {FALSE, replaced} :
                 broken' = \/ ~IsLive(a)
                           \/ (disk[u.key].left # "all" \/ short) /\ Target(a, u).chunks # {}
    /\ UNCHANGED <<confVars, cache, loads, asked, answer>>

(* gss_adaptive_async_assemble_chunk_finish: nothing has made a moof for a *)
(* live stream, and the answer would begin with it.                        *)
FinishChunk ==
    /\ Finish
    /\ Answers(Head(idle), query[Head(idle)].data)
    /\ broken' = (asked[Head(idle)].url.stream = "isoff-live")
    /\ UNCHANGED <<confVars, cache, loads, asked, query>>

-----------------------------------------------------------------------------
Change == main = "running" /\ changes < MaxChanges /\ changes' = changes + 1
OnlyConf == UNCHANGED <<vars, disk, cache, loads, asked, query, answer, broken>>

(* gss_playready_set_key_seed_hex passes over a seed that is not one.      *)
SetKeySeed(old, seed) == IF seed = Bad THEN old ELSE seed

PostPlayready(allow, seed) ==
    /\ Change
    /\ conf' = [conf EXCEPT !.allow_clear = allow,
                            !.key_seed = SetKeySeed(@, seed)]
    /\ conf' # conf
    /\ OnlyConf

(* gss_vod_post_resource: the cache is not looked at.                      *)
PostVod(levels) ==
    /\ Change
    /\ conf' = [conf EXCEPT !.dir_levels = levels]
    /\ OnlyConf

(* The archive is not the server's: files are replaced and removed under it *)
ChangeFiles(k, d) ==
    /\ Change
    /\ disk' = [disk EXCEPT ![k] = d]
    /\ UNCHANGED <<vars, conf, cache, loads, asked, query, answer, broken>>

ReplaceFiles(k) ==
    /\ disk[k].gen < Len(Recordings[k])
    /\ ChangeFiles(k, [gen |-> disk[k].gen + 1, left |-> "all"])

RemoveFiles(k, left) ==
    /\ disk[k].left = "all"
    /\ ChangeFiles(k, [disk[k] EXCEPT !.left = left])

(* gss_vod_finalize, with the server: every recording is freed, while the  *)
(* workers, which Transactions joins afterwards, go on with their queue.   *)
Release ==
    /\ ReleaseServer
    /\ cache' = <<>>
    /\ UNCHANGED <<confVars, loads, asked, query, answer, broken>>

VodNext ==
    /\ ~wild /\ ~broken
    /\ \/ \E r \in Requests, u \in Urls : GetRefused(r, u)
       \/ \E r \in Requests, u \in Urls : GetNow(r, u)
       \/ \E r \in Requests, u \in Urls : GetBreaks(r, u)
       \/ \E r \in Requests, u \in Urls : GetChunk(r, u)
       \/ \E w \in Workers : Pop(w) /\ UNCHANGED vodVars
       \/ \E w \in Workers : Assemble(w)
       \/ FinishChunk
       \/ \E r \in Requests : Finished(r) /\ UNCHANGED vodVars
       \/ \E allow \in BOOLEAN, seed \in {1, Bad} : PostPlayready(allow, seed)
       \/ \E levels \in {HomeLevels + 1, 4} : PostVod(levels)
       \/ \E k \in DOMAIN disk : ReplaceFiles(k)
       \/ \E k \in DOMAIN disk, left \in {"manifest", "nothing"} : RemoveFiles(k, left)
       \/ Release

VodSpec == Init /\ VodInit /\ [][VodNext]_allVars

-----------------------------------------------------------------------------
(* While the server runs, the recording, the level and the fragment that a *)
(* queued or running request points to have not been freed: the query      *)
(* holds bare pointers, and nothing but the cache keeps a recording.       *)
UsedIsKept ==
    main = "running" =>
        \A r \in Requests : Places(r) > 0 =>
            r \in DOMAIN query /\ IsLive(query[r].adaptive)

HasData(r) == answer[r].what \in {"manifest", "header", "chunk"}

(* What goes out belongs to the URL: it is of the recording, version and   *)
(* stream type named there, and data in the clear goes only to a request   *)
(* that asked for it while clear streaming was allowed, whatever has been  *)
(* opened and cached for other URLs before.                                *)
AnswersFitTheUrl ==
    \A r \in DOMAIN answer : HasData(r) =>
        /\ HashKey(answer[r].of) = HashKey(asked[r].url)
        /\ answer[r].of.drm = "clear" => asked[r].allowed

(* The requests q of u that item of a manifest announces.                  *)
Fetches(item, u) ==
    \/ /\ u.path = "content" /\ u.stream # "isoff-ondemand"
       /\ u.q.stream = item.kind /\ u.q.bitrate = item.bitrate /\ u.q.start_time = item.time
    \/ /\ u.path = "content/" /\ u.stream = "isoff-ondemand"
       /\ u.q.kind = item.kind /\ u.q.index = item.index

(* The protection header is that of the key the chunk is encrypted with.   *)
Opens(protection, key) ==
    \/ protection = None /\ key = None
    \/ protection.checksum = Checksum(protection.kid, key)

(* The bitrate is not 0 and names one level, and that is cut where the     *)
(* first level is: without that a manifest of this form cannot describe    *)
(* the recording.                                                          *)
IsUnambiguous(a, item) ==
    a.stream = "isoff-ondemand" \/
    LET levels == Levels(a, item.kind)
    IN  /\ item.bitrate # 0
        /\ \E i \in DOMAIN levels :
              /\ {j \in DOMAIN levels : levels[j].bitrate = item.bitrate} = {i}
              /\ levels[i].fragments = levels[1].fragments

(* The archive has replaced the files of a recording since it was opened.  *)
IsReplaced(a) == disk[a.key].gen # a.gen

(* A player keeps what a manifest told it.  Every chunk that the manifest  *)
(* announced is found in the recording the manifest was made of, however   *)
(* the configuration, the key seed and the archive have changed since, and *)
(* goes out under the key of the manifest's protection header.  Its bytes  *)
(* are of the files the manifest was made of, unless the archive has       *)
(* replaced them since the recording was opened: then the worker may have  *)
(* read the new files at the offsets of the old ones, as nothing compares  *)
(* the two, and what it sends is not what was announced.                   *)
AnnouncedIsServed ==
    \A m, r \in DOMAIN answer :
        /\ answer[m].what = "manifest"
        /\ m \in asked[r].seen
        /\ HashKey(asked[r].url) = HashKey(asked[m].url)
        /\ asked[r].url.drm = "clear" => asked[r].allowed
        => \A item \in answer[m].lists :
              Fetches(item, asked[r].url) /\ IsUnambiguous(answer[m].of, item) =>
                  \/ answer[r] = Empty /\ asked[r].url.q.head
                  \/ /\ answer[r].what = "chunk" /\ answer[r].of = answer[m].of
                     /\ Opens(answer[m].protection, answer[r].key)
                     /\ answer[r].gen = answer[m].of.gen \/ IsReplaced(answer[m].of)
=============================================================================
