----------------------------- MODULE PushProgram ----------------------------
(***************************************************************************)
(* The life of a program that sources push to (gss-program.c, gss-push.c,  *)
(* the restart timer of gss-server.c).                                     *)
(*                                                                         *)
(* A source sends PUT requests, or one Icecast request whose socket the    *)
(* pipeline reads from the moment the response headers are written.  The   *)
(* first request makes the stream of the program; the pipeline reports     *)
(* that it plays, fails or ends through its bus; an operator enables and   *)
(* disables the program; a timer restarts failed programs.  All of it runs *)
(* in the main loop, in any order.                                         *)
(***************************************************************************)
EXTENDS Integers

CONSTANTS Sources,      \* connections that push (bound)
          None,         \* no connection
          RestartDelay, \* seconds set by an error
          MaxStreams    \* bound: streams that get made

ASSUME NoneAssumption == None \notin Sources
ASSUME DelayAssumption == RestartDelay \in Nat \ {0}
ASSUME MadeAssumption == MaxStreams \in Nat

VARIABLES enabled,       \* program->enabled
          state,         \* program->state
          restartDelay,  \* program->restart_delay
          method,        \* push->push_method
          client,        \* push->push_client
          stream,        \* program->streams: the number of its stream, or 0
          made,          \* how many streams have been made
          pipe,          \* stream->pipeline
          leaked,        \* streams a pipeline of which has been overwritten
          pending,       \* Icecast requests whose headers are not written yet
          gone,          \* connections that have been closed
          clean,         \* the stream was made by a program that could start
          usedFreed      \* freed memory has been used: anything may follow

pushVars == <<enabled, state, restartDelay, method, client, stream, made, pipe,
              leaked, pending, gone, clean, usedFreed>>

PushInit ==
    /\ enabled = FALSE
    /\ state = "stopped"
    /\ restartDelay = 0
    /\ method = "put"
    /\ client = None
    /\ stream = 0
    /\ made = 0
    /\ pipe = "none"
    /\ leaked = {}
    /\ pending = {}
    /\ gone = {}
    /\ clean = TRUE
    /\ usedFreed = FALSE

-----------------------------------------------------------------------------
StartedFromAny(st, en) == IF en THEN "starting" ELSE st  \* a mutant: no test of the state

(* The state gss_program_start leaves: gss_push_start does nothing more.   *)
Started(st, en) == IF st = "stopped" /\ en THEN "starting" ELSE st

StopsRunning == state = "running"  \* a mutant: a program that is starting is left alone

(* gss_program_stop does something.                                        *)
Stops == state \notin {"stopped", "stopping"}

AfterStopStopped == "stopped"  \* a mutant: the state reaches "stopped"

(* The state gss_program_stop leaves; nothing ever sets "stopped".         *)
AfterStop == "stopping"

StopKeepingClient ==  \* a mutant: push_client is not reset
    IF Stops THEN /\ state' = AfterStop
                  /\ stream' = 0
                  /\ pipe' = "none"
                  /\ UNCHANGED client
             ELSE UNCHANGED <<state, client, stream, pipe>>

(* gss_program_stop with gss_push_stop: the stream is removed and freed,   *)
(* and its pipeline with it.                                               *)
Stop ==
    IF Stops THEN /\ state' = AfterStop
                  /\ client' = None
                  /\ stream' = 0
                  /\ pipe' = "none"
             ELSE UNCHANGED <<state, client, stream, pipe>>

Enable ==
    /\ ~enabled
    /\ enabled' = TRUE
    /\ state' = Started(state, TRUE)
    /\ UNCHANGED <<restartDelay, method, client, stream, made, pipe, leaked,
                   pending, gone, clean, usedFreed>>

Disable ==
    /\ enabled
    /\ enabled' = FALSE
    /\ Stop
    /\ UNCHANGED <<restartDelay, method, made, leaked, pending, gone, clean, usedFreed>>

-----------------------------------------------------------------------------
Busy == client # None /\ method = "icecast"

(* What a first request does whichever way it pushes: the stream is made,  *)
(* and the program is started if it can be.                                *)
FirstRequest(s) ==
    /\ client = None
    /\ made < MaxStreams
    /\ stream = 0
    /\ made' = made + 1
    /\ stream' = made + 1
    /\ state' = Started(state, enabled)
    /\ clean' = (state' \in {"starting", "running"})
    /\ client' = s

(* The first PUT also makes the pipeline.                                  *)
FirstPut(s) ==
    /\ s \notin gone
    /\ FirstRequest(s)
    /\ method' = "put"
    /\ pipe' = "starting"
    /\ UNCHANGED <<enabled, restartDelay, leaked, pending, gone, usedFreed>>

FirstIcecast(s) ==
    /\ s \notin gone
    /\ FirstRequest(s)
    /\ method' = "icecast"
    /\ pipe' = "none"
    /\ pending' = pending \cup {[source |-> s, stream |-> made + 1]}
    /\ UNCHANGED <<enabled, restartDelay, leaked, gone, usedFreed>>

(* An Icecast request for a program that is fed by PUT requests is not     *)
(* refused: it joins the stream there is.                                  *)
LaterIcecast(s) ==
    /\ s \notin gone
    /\ client # None
    /\ ~Busy
    /\ pending' = pending \cup {[source |-> s, stream |-> stream]}
    /\ UNCHANGED <<enabled, state, restartDelay, method, client, stream, made,
                   pipe, leaked, gone, clean, usedFreed>>

(* push_wrote_headers: the socket of push_client, whoever that is, becomes *)
(* the source of a new pipeline of the stream.                             *)
WroteHeaders(h) ==
    /\ h \in pending
    /\ pending' = pending \ {h}
    /\ IF h.stream # stream \/ client \in gone
       THEN usedFreed' = TRUE /\ UNCHANGED <<pipe, leaked>>
       ELSE /\ pipe' = "starting"
            /\ leaked' = IF pipe = "none" THEN leaked ELSE leaked \cup {stream}
            /\ UNCHANGED usedFreed
    /\ UNCHANGED <<enabled, state, restartDelay, method, client, stream, made,
                   gone, clean>>

(* A connection is closed; its callbacks are not called any more.          *)
Disconnect(s) ==
    /\ s \notin gone
    /\ gone' = gone \cup {s}
    /\ pending' = {h \in pending : h.source # s}
    /\ UNCHANGED <<enabled, state, restartDelay, method, client, stream, made,
                   pipe, leaked, clean, usedFreed>>

-----------------------------------------------------------------------------
(* Messages on the bus of the pipeline (handle_pipeline_message)           *)

Playing ==
    /\ pipe = "starting"
    /\ pipe' = "playing"
    /\ state' = "running"
    /\ UNCHANGED <<enabled, restartDelay, method, client, stream, made, leaked,
                   pending, gone, clean, usedFreed>>

(* An error asks the timer for a restart, the end of the stream does not.  *)
(* When gss_program_stop returns early the dead pipeline stays.            *)
Ends(error) ==
    /\ pipe \in {"starting", "playing"}
    /\ restartDelay' = IF error THEN RestartDelay ELSE restartDelay
    /\ IF Stops THEN Stop
                ELSE pipe' = "dead" /\ UNCHANGED <<state, client, stream>>
    /\ UNCHANGED <<enabled, method, made, leaked, pending, gone, clean, usedFreed>>

(* The same from a pipeline that is no longer the one of its stream.       *)
LeakedEnds(s, error) ==
    /\ s \in leaked
    /\ leaked' = leaked \ {s}
    /\ IF s # stream
       THEN usedFreed' = TRUE /\ UNCHANGED <<restartDelay, state, client, stream, pipe>>
       ELSE /\ restartDelay' = IF error THEN RestartDelay ELSE restartDelay
            /\ Stop
            /\ UNCHANGED usedFreed
    /\ UNCHANGED <<enabled, method, made, pending, gone, clean>>

RestartTickBelowZero ==  \* a mutant: the delay is not tested
    /\ restartDelay' = restartDelay - 1
    /\ state' = IF restartDelay = 1 THEN Started(state, enabled) ELSE state
    /\ UNCHANGED <<enabled, method, client, stream, made, pipe, leaked, pending,
                   gone, clean, usedFreed>>

(* periodic_timer, once a second                                           *)
RestartTick ==
    /\ restartDelay > 0
    /\ restartDelay' = restartDelay - 1
    /\ state' = IF restartDelay = 1 THEN Started(state, enabled) ELSE state
    /\ UNCHANGED <<enabled, method, client, stream, made, pipe, leaked, pending,
                   gone, clean, usedFreed>>

PushNext ==
    /\ ~usedFreed
    /\ \/ Enable
       \/ Disable
       \/ \E s \in Sources : FirstPut(s)
       \/ \E s \in Sources : FirstIcecast(s)
       \/ \E s \in Sources : LaterIcecast(s)
       \/ \E h \in pending : WroteHeaders(h)
       \/ \E s \in Sources : Disconnect(s)
       \/ Playing
       \/ \E error \in BOOLEAN : Ends(error)
       \/ \E s \in 1 .. MaxStreams, error \in BOOLEAN : LeakedEnds(s, error)
       \/ RestartTick

PushSpec == PushInit /\ [][PushNext]_pushVars

-----------------------------------------------------------------------------
PushTypeOK ==
    /\ enabled \in BOOLEAN
    /\ state \in {"stopped", "starting", "running", "stopping"}
    /\ restartDelay \in 0 .. RestartDelay
    /\ method \in {"put", "icecast"}
    /\ client \in Sources \cup {None}
    /\ stream \in 0 .. MaxStreams
    /\ made \in 0 .. MaxStreams
    /\ pipe \in {"none", "starting", "playing", "dead"}
    /\ leaked \subseteq 1 .. MaxStreams
    /\ pending \subseteq [source : Sources, stream : 1 .. MaxStreams]
    /\ gone \subseteq Sources
    /\ clean \in BOOLEAN
    /\ usedFreed \in BOOLEAN

(* A source holds the program exactly while the program has a stream: a    *)
(* PUT never finds a client without a stream to push to, and no stream is  *)
(* left behind when the source is let go.                                  *)
ClientHasStream == (client # None) <=> (stream # 0)

(* A program that players are told is running has a stream with a          *)
(* pipeline, after any sequence of stops, failures and late messages.      *)
RunningHasPipeline == state = "running" => stream # 0 /\ pipe # "none"

(* Source, stream and pipeline come and go together.                       *)
PartsBelongTogether == ClientHasStream /\ RunningHasPipeline

(* The restart timer restarts nothing: whenever it is set, the program is  *)
(* in a state that gss_program_start refuses, because no code ever takes   *)
(* a program from STOPPING back to STOPPED.                                *)
RestartTimerIsIdle == restartDelay > 0 => ~(state = "stopped" /\ enabled)

(* Disabling a program stops its source, and a pipeline that fails or ends *)
(* releases it, if the program could start when the source came.  A source *)
(* that came while the program was STOPPING or disabled is not stopped.    *)
CleanSourceIsStopped == stream # 0 /\ clean => enabled /\ pipe # "dead"

(* A program that has been stopped once never returns to STOPPED or to     *)
(* STARTING: only the pipeline of a new source takes it out of STOPPING.   *)
StoppingIsLeftByPlaying ==
    [][state = "stopping" /\ state' # "stopping" =>
          state' = "running" /\ pipe' = "playing" /\ stream # 0]_pushVars
=============================================================================
