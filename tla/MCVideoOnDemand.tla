--------------------------- MODULE MCVideoOnDemand ---------------------------
(* One recording in two generations, and URLs of each kind for it.         *)
EXTENDS VideoOnDemand

CONSTANTS r1, r2

MCRequests == {r1, r2}

Fragments(durations) ==
    [i \in DOMAIN durations |->
        [timestamp |-> SumFunction([j \in 1 .. i - 1 |-> durations[j]]),
         duration |-> durations[i]]]
MCLevel(bitrate, size, durations) ==
    [bitrate |-> bitrate, size |-> size, fragments |-> Fragments(durations)]
Audio(durations) == MCLevel(60, 0, durations)
File(video, audio) == [video |-> video, audio |-> audio]
Low == File(MCLevel(500, 1, <<2, 2>>), Audio(<<2, 2>>))
High == File(MCLevel(900, 2, <<2, 2>>), Audio(<<2, 2>>))
Shifted == File(MCLevel(500, 2, <<1, 3>>), Audio(<<2, 2>>))
NewCut == File(MCLevel(500, 1, <<3, 1>>), Audio(<<3, 1>>))
OnlyAudio == File(None, Audio(<<2, 2>>))

(* Versions: two levels; two of one bitrate and other times; no video; no  *)
(* files; more files than parsers.                                         *)
MCRecordings ==
    "film" :> << ("0" :> <<Low, High>>) @@ ("1" :> <<Low, Shifted>>) @@ ("2" :> <<OnlyAudio>>)
                     @@ ("3" :> <<>>) @@ ("4" :> <<Low, High, Low>>),
                 ("0" :> <<NewCut>>) >>

Url(version, drm, stream, path, q) ==
    [key |-> "film", version |-> version, drm |-> drm, stream |-> stream, path |-> path, q |-> q]
Limit(n) == [max |-> n]
Chunk(kind, bitrate, time) == [stream |-> kind, bitrate |-> bitrate, start_time |-> time]
Part(kind, index, range, head) ==
    [kind |-> kind, index |-> index, range |-> range, head |-> head]

MCUrls == {
    Url("0", "pr", "ism", "Manifest", Limit(Absent)),
    Url("0", "pr", "ism", "Manifest", Limit(1)),
    Url("0", "pr", "ism", "content", Chunk("video", 500, 2)),
    Url("0", "pr", "ism", "content", Chunk("audio", 60, 2)),
    Url("0", "pr", "ism", "content", Chunk("video", 900, InitTime)),
    Url("0", "pr", "ism", "content", Chunk("video", Bad, 0)),
    Url("0", "clear", "ism", "Manifest", Limit(Absent)),
    Url("0", "clear", "ism", "content", Chunk("video", 500, 2)),
    Url("0", "pr", "isoff-ondemand", "manifest.mpd", Limit(Absent)),
    Url("0", "pr", "isoff-ondemand", "content/", Part("video", 2, {1, 2}, FALSE)),
    Url("0", "pr", "isoff-ondemand", "content/", Part("video", 2, {}, TRUE)),
    Url("0", "pr", "isoff-live", "manifest.mpd", Limit(Absent)),
    Url("0", "pr", "isoff-live", "content", Chunk("video", 500, 0)),
    Url("0", "pr", "isoff-live", "content", Chunk("video", 500, InitTime)),
    Url("1", "pr", "ism", "Manifest", Limit(Absent)),
    Url("1", "pr", "ism", "content", Chunk("video", 500, 2)),
    Url("2", "pr", "ism", "Manifest", Limit(Absent)),
    Url("3", "pr", "ism", "Manifest", Limit(Absent)),
    Url("4", "pr", "ism", "Manifest", Limit(Absent)),
    Url("0", "cenc", "hls", "Manifest", Limit(Absent))}

Symmetry == Permutations(Requests)
=============================================================================
