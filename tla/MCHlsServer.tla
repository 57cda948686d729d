---------------------------- MODULE MCHlsServer -----------------------------
(***************************************************************************)
(* Instances of HlsServer for TLC.  The ring is scaled from 20 slots to 3  *)
(* or 2 and the window from 5 segments to 2 or 1, which keeps the ring     *)
(* deeper than the window, and MaxBuffers is chosen so that slots are      *)
(* reused.                                                                 *)
(***************************************************************************)
EXTENDS HlsServer

CONSTANTS s1, s2

MCKey == [s \in Streams |-> s]

(* With one stream, the program implements a live playlist.                *)
Feed == INSTANCE LivePlaylist WITH
            Depth <- Ring,
            produced <- nChunks[s1],
            store <- {n \in 0 .. nChunks[s1] : Found(s1, n)},
            playlist <- [lo |-> index[s1].seq, hi |-> index[s1].end]

(* The segments a player can fetch and the playlists it is served are      *)
(* those of LivePlaylist, each served playlist being computed from the     *)
(* present state: the ring, the resource table and the cached index file   *)
(* do not show.                                                            *)
ImplementsLivePlaylist == Feed!Spec
=============================================================================
