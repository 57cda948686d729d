----------------------------- MODULE MCDashRange ----------------------------
(***************************************************************************)
(* Instances of DashRange for TLC: movies of three video samples and up to *)
(* three audio samples, described by tables of one or two entries.         *)
(***************************************************************************)
EXTENDS DashRange

Layouts == {<<[first |-> 1, per |-> 2]>>,
            <<[first |-> 1, per |-> 1], [first |-> 2, per |-> 2]>>,
            <<[first |-> 1, per |-> 2], [first |-> 2, per |-> 1]>>}
Times == {<<[count |-> 3, delta |-> 2]>>,
          <<[count |-> 1, delta |-> 1], [count |-> 2, delta |-> 3]>>}

Videos == [size : {<<1, 2, 1>>}, stts : Times, stsc : Layouts,
           stss : {<<1>>, <<1, 3>>, <<1, 2, 3>>}, timescale : {3}]
Audios == [size : {<<2, 1, 1>>}, stts : Times, stsc : Layouts,
           timescale : {2, 3}]

MCMovies == [video : Videos, audio : Audios \cup {NoTrack}]
=============================================================================
