---------------------------- MODULE LivePlaylist ----------------------------
(***************************************************************************)
(* What a live HLS stream promises to a player: segments are numbered 0,   *)
(* 1, 2, ... as they are published; the last Depth of them can be fetched; *)
(* a playlist that is served is the window of the Window newest segments.  *)
(* HlsServer implements this specification for a program with one stream:  *)
(* the ring of segments, the resource table and the cached index file are  *)
(* not visible through it.                                                 *)
(***************************************************************************)
EXTENDS Integers

CONSTANTS Depth,   \* how many segments stay available
          Window   \* how many of them a playlist names

VARIABLES produced,   \* number of segments published so far
          store,      \* numbers of the segments that can be fetched
          playlist    \* the last playlist served: segments lo .. hi - 1

vars == <<produced, store, playlist>>

Newest(n, k) == {i \in 0 .. n - 1 : n - i <= k}

Init ==
    /\ produced = 0
    /\ store = {}
    /\ playlist = [lo |-> 0, hi |-> 0]

Publish ==
    /\ produced' = produced + 1
    /\ store' = Newest(produced', Depth)
    /\ UNCHANGED playlist

Serve ==
    /\ playlist' = [lo |-> IF produced > Window THEN produced - Window ELSE 0,
                    hi |-> produced]
    /\ UNCHANGED <<produced, store>>

Next == Publish \/ Serve

Spec == Init /\ [][Next]_vars
=============================================================================
