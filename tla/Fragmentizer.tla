---------------------------- MODULE Fragmentizer ----------------------------
(***************************************************************************)
(* How a file becomes fragments (gss_isom_parser_fragmentize, gss-isom.c). *)
(*                                                                         *)
(* A fragment of video starts at each sync sample; a fragment of audio     *)
(* ends where that of video does.  An iterator walks the tables of a track,*)
(* a sample at a time.                                                     *)
(***************************************************************************)
EXTENDS SampleTables

CONSTANTS Movies,  \* the movies that can be loaded (bound)
          NoTrack, \* what a movie without sound has for an audio track
          Scale    \* the 10000000 ticks of a second in fragments

ASSUME ScaleAssumption == Scale \in Nat \ {0}

ASSUME MoviesAssumption ==
    \A m \in Movies :
        /\ IsTrack(m.video) /\ HasSync(m.video)
        /\ m.audio # NoTrack => IsTrack(m.audio)

VARIABLES movie,   \* the tracks of the file
          track,   \* the track that is being cut, or "none" in the end
          iter,    \* the GssIsomSampleIterator
          ticks,   \* *_timescale_ts: time in the units of the track
          time,    \* *_timestamp: the same in units of Scale
          left,    \* samples that the last fragment still gets
          frags    \* track->fragments

fragVars == <<movie, track, iter, ticks, time, left, frags>>

FragInit ==
    /\ movie \in Movies
    /\ track = "video"
    /\ iter = FirstSample
    /\ ticks = 0
    /\ time = 0
    /\ left = 0
    /\ frags = [video |-> <<>>, audio |-> <<>>]

-----------------------------------------------------------------------------
NumFragments == Len(movie.video.stss)
End(f) == f.timestamp + f.duration

(* How many samples fragment i of video gets: up to the next sync sample.  *)
VideoCount(i) ==
    LET from == movie.video.stss[i] - 1
    IN IF i = NumFragments THEN NumSamples(movie.video) - from
       ELSE movie.video.stss[i + 1] - 1 - from

(* ... and of audio: up to the end of fragment i of video.  audio_index is *)
(* the number of samples taken so far.                                     *)
AudioCount(i) ==
    IndexFromTimestamp(movie.audio, ScaleInt(End(frags.video[i]), movie.audio.timescale, Scale))
        - iter.sample

BeginFragment ==
    /\ track # "none"
    /\ left = 0
    /\ Len(frags[track]) < NumFragments
    /\ LET i == Len(frags[track]) + 1
       IN left' = IF track = "video" THEN VideoCount(i) ELSE AudioCount(i)
    /\ frags' = [frags EXCEPT ![track] =
                    Append(@, [timestamp |-> time, duration |-> 0, samples |-> <<>>])]
    /\ UNCHANGED <<movie, track, iter, ticks, time>>

AddSampleRounding ==  \* a mutant: durations are scaled one by one
    /\ left > 0
    /\ left' = left - 1
    /\ LET s == Sample(movie[track], iter)
           n == Len(frags[track])
           d == ScaleInt(s.delta, Scale, movie[track].timescale)
       IN /\ ticks' = ticks + s.delta
          /\ time' = time + d
          /\ frags' = [frags EXCEPT ![track][n].duration = time' - frags[track][n].timestamp,
                                    ![track][n].samples = Append(@, [of |-> s, duration |-> d])]
    /\ iter' = Iterate(movie[track], iter)
    /\ UNCHANGED <<movie, track>>

(* The body of the inner loop                                              *)
AddSample ==
    /\ left > 0
    /\ left' = left - 1
    /\ LET s == Sample(movie[track], iter)
           n == Len(frags[track])
       IN /\ ticks' = ticks + s.delta
          /\ time' = ScaleInt(ticks', Scale, movie[track].timescale)
          /\ frags' = [frags EXCEPT
                ![track][n].duration = time' - frags[track][n].timestamp,
                ![track][n].samples = Append(@, [of |-> s, duration |-> time' - time])]
    /\ iter' = Iterate(movie[track], iter)
    /\ UNCHANGED <<movie, track>>

NextTrack ==
    /\ track # "none"
    /\ left = 0
    /\ Len(frags[track]) = NumFragments
    /\ track' = IF track = "video" /\ movie.audio # NoTrack THEN "audio" ELSE "none"
    /\ iter' = FirstSample
    /\ ticks' = 0
    /\ time' = 0
    /\ UNCHANGED <<movie, left, frags>>

FragNext == BeginFragment \/ AddSample \/ NextTrack

-----------------------------------------------------------------------------
(* How many samples are in the fragments before fragment i.                *)
Before(tr, i) == Total([j \in 1 .. i - 1 |-> Len(frags[tr][j].samples)])
Tracks == {tr \in {"video", "audio"} : movie[tr] # NoTrack}

(* Fragment i of track tr has all the samples it will get.                 *)
Complete(tr, i) == i < Len(frags[tr]) \/ (i = Len(frags[tr]) /\ (tr = track => left = 0))

(* Each sample goes to the fragments once, in its order and with its own   *)
(* size, duration, chunk and offset: the iterator, which walks stts, stsc  *)
(* and stsz at once, agrees with what they mean.                           *)
SamplesAreInPlace ==
    \A tr \in Tracks : \A i \in DOMAIN frags[tr] : \A j \in DOMAIN frags[tr][i].samples :
        LET s == frags[tr][i].samples[j].of
            t == movie[tr]
            k == Before(tr, i) + j - 1
        IN /\ s.size = t.size[k + 1]
           /\ s.delta = DeltaOf(t, k)
           /\ s.chunk = ChunkOf(t, k)
           /\ s.offset = OffsetOf(t, k)

(* Fragments of video start with sync samples and leave no sample out.     *)
VideoIsCutAtSync ==
    /\ \A i \in DOMAIN frags.video : frags.video[i].samples # <<>> =>
          Before("video", i) + 1 = movie.video.stss[i]
    /\ track # "video" => Before("video", NumFragments + 1) = NumSamples(movie.video)

(* The fragments of a movie are its samples, cut at the right places.      *)
SamplesAreRight == SamplesAreInPlace /\ VideoIsCutAtSync

(* Timestamps do not drift: whatever the time scale of the track, every    *)
(* fragment and every sample starts less than a tick from its true time,   *)
(* and durations leave no gap.                                             *)
TimesDoNotDrift ==
    \A tr \in Tracks : \A i \in DOMAIN frags[tr] :
        LET f == frags[tr][i]
            exact == TicksBefore(movie[tr], Before(tr, i)) * Scale
        IN /\ f.timestamp * movie[tr].timescale <= exact
           /\ exact < (f.timestamp + 1) * movie[tr].timescale
           /\ f.duration = Total([j \in DOMAIN f.samples |-> f.samples[j].duration])
           /\ i > 1 => f.timestamp = End(frags[tr][i - 1])

(* A fragment of audio ends with the last sample that is over when the     *)
(* fragment of video with its number ends, or with the last one there is.  *)
AudioEndsWithVideo ==
    movie.audio # NoTrack =>
        \A i \in DOMAIN frags.audio : Complete("audio", i) =>
            LET n == Before("audio", i + 1)
                end == End(frags.video[i]) * movie.audio.timescale
            IN /\ TicksBefore(movie.audio, n) * Scale <= end
               /\ n < NumSamples(movie.audio) =>
                     end < TicksBefore(movie.audio, n + 1) * Scale
=============================================================================
