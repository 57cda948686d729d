------------------------------ MODULE Resources -----------------------------
(***************************************************************************)
(* The table of URLs of the server (gss-server.c), the entries of the      *)
(* streams of one program (gss-stream.c, gss-program.c), and one-time      *)
(* resources (gss-resource.c).  The second entry of a stream, for its      *)
(* playlist, is made and removed with the first and is left out.           *)
(*                                                                         *)
(* A stream is entered at a URL that holds its index in the list of the    *)
(* program, and keeps a pointer to the entry.  An entry that is replaced   *)
(* or removed is freed.  The data of a stream is sent over plain HTTP      *)
(* only: a request for it over HTTPS is redirected to a one-time URL, an   *)
(* entry with a pointer to that of the stream, which is removed when it    *)
(* has been used or after Expiry.  All of it runs in the main loop.        *)
(*                                                                         *)
(* A pointer to an entry is the number of entries made when it was, or 0.  *)
(***************************************************************************)
EXTENDS Integers, SequencesExt

CONSTANTS Streams,     \* streams that get made (bound)
          Expiry,      \* the delay of onetime_expire
          MaxOneTimes  \* bound: one-time URLs that get made

ASSUME BoundAssumption == {Expiry, MaxOneTimes} \subseteq Nat
ASSUME StreamsAssumption == IsFiniteSet(Streams)

VARIABLES streams,  \* program->streams
          fresh,    \* streams that have not been made
          started,  \* gss_program_start has left the state STOPPED
          urls,     \* server->resources, and what the streams keep of it
          onetime,  \* the one-time entries of server->resources
          timers,   \* the sources of onetime_expire: what they point to
          ids,      \* how many one-time URLs have been made
          moved,    \* a stream has been removed that was not the last one
          wild      \* freed memory has been used: anything may follow

vars == <<streams, fresh, started, urls, onetime, timers, ids, moved, wild>>

Count == Cardinality(Streams)
Indices == 0 .. Count - 1

(* urls.at: the entry at the URL with each index; urls.entry and urls.index*)
(* of a stream: stream->resource and the index in stream->location;        *)
(* urls.stream: the stream of each entry that was made; urls.bad: a stream *)
(* has looked at the URL in an entry that was freed.                       *)
NoUrls == [at |-> [i \in Indices |-> 0], entry |-> [s \in Streams |-> 0],
           index |-> [s \in Streams |-> 0], stream |-> <<>>, bad |-> FALSE]

Init ==
    /\ streams = <<>>
    /\ fresh = Streams
    /\ started = FALSE
    /\ urls = NoUrls
    /\ onetime = {}
    /\ timers = {}
    /\ ids = 0
    /\ moved = FALSE
    /\ wild = FALSE

-----------------------------------------------------------------------------
IsFreed(u, e) == \A i \in Indices : u.at[i] # e

RemoveNothing(u, s) == u  \* a mutant: the entry stays

(* gss_stream_remove_resources: stream->resource is not reset.             *)
RemoveResources(u, s) ==
    IF u.entry[s] = 0 THEN u
    ELSE [u EXCEPT !.at[u.index[s]] = 0, !.bad = @ \/ IsFreed(u, u.entry[s])]

(* gss_stream_add_resources of the stream with index i: whatever is at the *)
(* URL is replaced.                                                        *)
AddResources(u, s, i) ==
    LET n == Len(u.stream) + 1
    IN [RemoveResources(u, s) EXCEPT
           !.at[i] = n, !.entry[s] = n, !.index[s] = i, !.stream = Append(@, s)]

(* gss_stream_add_resources of each stream of a list in turn               *)
AddAllResources(u, q) ==
    LET added[k \in 0 .. Len(q)] ==
            IF k = 0 THEN u ELSE AddResources(added[k - 1], q[k], k - 1)
    IN added[Len(q)]

AddStreamAnew(s) ==  \* a mutant: all streams are entered again
    /\ s \in fresh
    /\ fresh' = fresh \ {s}
    /\ streams' = Append(streams, s)
    /\ urls' = AddAllResources(urls, streams')
    /\ wild' = urls'.bad
    /\ UNCHANGED <<started, onetime, timers, ids, moved>>

(* gss_program_add_stream                                                  *)
AddStream(s) ==
    /\ s \in fresh
    /\ fresh' = fresh \ {s}
    /\ streams' = Append(streams, s)
    /\ urls' = AddResources(urls, s, Len(streams))
    /\ wild' = urls'.bad
    /\ UNCHANGED <<started, onetime, timers, ids, moved>>

(* g_list_remove: only the first occurrence goes.                          *)
Without(q, s) ==
    [j \in 1 .. Len(q) - 1 |-> IF \E k \in 1 .. j : q[k] = s THEN q[j + 1] ELSE q[j]]

(* gss_program_remove_stream, which also frees the stream                  *)
RemoveStream(s) ==
    /\ Contains(streams, s)
    /\ streams' = Without(streams, s)
    /\ urls' = RemoveResources(urls, s)
    /\ moved' = (moved \/ s # Last(streams))
    /\ wild' = urls'.bad
    /\ UNCHANGED <<fresh, started, onetime, timers, ids>>

(* gss_program_start enters the streams again, which also gives them URLs  *)
(* with their present indices.  It does so once: the state never returns   *)
(* to STOPPED.                                                             *)
Start ==
    /\ ~started
    /\ started' = TRUE
    /\ urls' = AddAllResources(urls, streams)
    /\ wild' = urls'.bad
    /\ moved' = FALSE
    /\ UNCHANGED <<streams, fresh, onetime, timers, ids>>

-----------------------------------------------------------------------------
(* A request for a stream over HTTPS                                       *)
Redirect(i) ==
    /\ urls.at[i] # 0
    /\ ids < MaxOneTimes
    /\ ids' = ids + 1
    /\ onetime' = onetime \cup {[id |-> ids + 1, under |-> urls.at[i]]}
    /\ timers' = timers \cup {[id |-> ids + 1, left |-> Expiry]}
    /\ UNCHANGED <<streams, fresh, started, urls, moved, wild>>

(* onetime_destroy: the entry goes, and its timer with it.                 *)
Destroy(o) ==
    /\ onetime' = onetime \ {o}
    /\ timers' = {t \in timers : t.id # o.id}

(* gss_resource_onetime: the handler of the entry it points to is called.  *)
Follow(o) ==
    /\ o \in onetime
    /\ wild' = IsFreed(urls, o.under)
    /\ Destroy(o)
    /\ UNCHANGED <<streams, fresh, started, urls, ids, moved>>

(* A second passes.                                                        *)
Tick ==
    /\ \E t \in timers : t.left > 0
    /\ timers' = {[t EXCEPT !.left = IF @ > 0 THEN @ - 1 ELSE 0] : t \in timers}
    /\ UNCHANGED <<streams, fresh, started, urls, onetime, ids, moved, wild>>

(* onetime_expire, when the main loop comes to it                          *)
Expire(t) ==
    /\ t \in timers
    /\ t.left = 0
    /\ IF \E o \in onetime : o.id = t.id
       THEN /\ \E o \in onetime : o.id = t.id /\ Destroy(o)
            /\ UNCHANGED wild
       ELSE /\ wild' = TRUE
            /\ timers' = timers \ {t}
            /\ UNCHANGED onetime
    /\ UNCHANGED <<streams, fresh, started, urls, ids, moved>>

Next ==
    /\ ~wild
    /\ \/ \E s \in Streams : AddStream(s) \/ RemoveStream(s)
       \/ Start
       \/ \E i \in Indices : Redirect(i)
       \/ \E o \in onetime : Follow(o)
       \/ Tick
       \/ \E t \in timers : Expire(t)

Spec == Init /\ [][Next]_vars

-----------------------------------------------------------------------------
TypeOK ==
    /\ streams \in Seq(Streams)
    /\ fresh \subseteq Streams
    /\ started \in BOOLEAN
    /\ urls.at \in [Indices -> 0 .. Len(urls.stream)]
    /\ urls.entry \in [Streams -> 0 .. Len(urls.stream)]
    /\ urls.index \in [Streams -> Indices]
    /\ urls.stream \in Seq(Streams)
    /\ onetime \subseteq [id : 1 .. MaxOneTimes, under : 1 .. Len(urls.stream)]
    /\ timers \subseteq [id : 1 .. MaxOneTimes, left : 0 .. Expiry]
    /\ ids \in 0 .. MaxOneTimes
    /\ moved \in BOOLEAN
    /\ wild \in BOOLEAN

Alive(e) == e # 0 /\ ~IsFreed(urls, e)

(* Every stream of the program answers at the URL it advertises, with its  *)
(* own data, and its pointer to the entry is good, as long as no stream    *)
(* has been removed from before another since the indices were given out.  *)
StreamsAreServed ==
    ~moved => \A s \in ToSet(streams) :
        /\ urls.at[urls.index[s]] = urls.entry[s]
        /\ Alive(urls.entry[s])
        /\ urls.stream[urls.entry[s]] = s

(* A URL answers only with the data of a stream that still exists.         *)
UrlsHaveStreams ==
    ~wild => \A i \in Indices :
        urls.at[i] # 0 => Contains(streams, urls.stream[urls.at[i]])

(* Streams and URLs belong together, in both directions.                   *)
StreamsMatchUrls == StreamsAreServed /\ UrlsHaveStreams

(* A timer never outlives its one-time URL, nor a URL its timer: whoever   *)
(* comes first, the follower or the timer, stops the other.                *)
TimersHaveUrls == {t.id : t \in timers} = {o.id : o \in onetime}

(* The table of resources agrees with the streams and with the timers.     *)
TableIsSound == TypeOK /\ StreamsMatchUrls /\ TimersHaveUrls

(* A one-time URL that has been given out keeps its pointer good until a  *)
(* stream is removed or the program is started: neither new streams nor    *)
(* other one-time URLs disturb it (unless indices are wrong already).      *)
OneTimesStayGood ==
    [][\A o \in onetime : Alive(o.under) /\ ~Alive(o.under)' =>
          Len(streams') < Len(streams) \/ started' # started \/ moved]_vars

=============================================================================
