---------------------------- MODULE StreamClients ---------------------------
(***************************************************************************)
(* Players of continuous streams (gss-stream.c, gss-metrics.c).            *)
(*                                                                         *)
(* The main loop admits a player, and when its headers are written hands   *)
(* the file descriptor of its socket to the multifdsink of the stream and  *)
(* counts it.  The streaming thread of a stream drops a player that is     *)
(* gone or too slow: it uncounts it, disconnects the socket that the table *)
(* of descriptors names, and clears the table entry.  No lock protects the *)
(* counters or the table.                                                  *)
(***************************************************************************)
EXTENDS Integers, Sequences, FiniteSets

CONSTANTS Players,         \* the connections that can be made (bound)
          Streams,         \* running streams, each with a streaming thread
          Fds,             \* file descriptors (bound)
          None,            \* no player
          MaxConnections,  \* server->max_connections
          MaxRate,         \* server->max_rate * 8000, in bitrates of a stream
          Want             \* Want[p]: the stream that player p asks for

ASSUME NoneAssumption == None \notin Players
ASSUME LimitAssumption == MaxConnections \in Nat /\ MaxRate \in Nat
ASSUME WantAssumption == Want \in [Players -> Streams]
ASSUME NamesAssumption == Streams \cap {"main", "program", "server", "rate"} = {}

VARIABLES phase,   \* how far each player is
          fd,      \* the descriptor of its socket
          owner,   \* which player's socket has a descriptor open
          table,   \* gss_stream_fd_table: the socket each descriptor names
          sink,    \* the players in the multifdsink of each stream
          count,   \* n_clients of each metrics, and the server's bitrate
          task,    \* the update each thread is in the middle of
          overlap  \* what has overlapped so far (a record for the properties)

vars == <<phase, fd, owner, table, sink, count, task, overlap>>

-----------------------------------------------------------------------------
Threads == Streams \cup {"main"}

(* The counters that one player changes, in the order of the code; the     *)
(* bitrate of the server is the one that stream_resource looks at.         *)
Counters(s) == <<s, "program", "server", "rate">>
AllCounters == Streams \cup {"program", "server", "rate"}

NoTask == [does |-> "nothing", player |-> None, at |-> 0, loaded |-> FALSE, value |-> 0]
Counting(does, p) ==
    [does |-> does, player |-> p, at |-> 1, loaded |-> FALSE, value |-> 0]
Counter(t) == Counters(Want[task[t].player])[task[t].at]
IsCounting(t) == task[t].does \in {"add", "remove"}

Init ==
    /\ phase = [p \in Players |-> "new"]
    /\ fd = [p \in Players |-> None]
    /\ owner = [d \in Fds |-> None]
    /\ table = [d \in Fds |-> None]
    /\ sink = [s \in Streams |-> {}]
    /\ count = [c \in AllCounters |-> 0]
    /\ task = [t \in Threads |-> NoTask]
    /\ overlap = {}

-----------------------------------------------------------------------------
(* A socket is accepted: the kernel gives it a descriptor that is free.    *)
Accept(p) ==
    /\ task["main"] = NoTask
    /\ phase[p] = "new"
    /\ \E d \in Fds :
          /\ owner[d] = None
          /\ owner' = [owner EXCEPT ![d] = p]
          /\ fd' = [fd EXCEPT ![p] = d]
    /\ phase' = [phase EXCEPT ![p] = "connected"]
    /\ UNCHANGED <<table, sink, count, task, overlap>>

Pending == {p \in Players : phase[p] = "admitted"}

FullOffByOne == count["server"] > MaxConnections \/ count["rate"] + 1 >= MaxRate  \* a mutant

(* The limits as stream_resource tests them.                               *)
Full == count["server"] >= MaxConnections \/ count["rate"] + 1 >= MaxRate

(* stream_resource lets a player in; nothing is counted yet.               *)
Admit(p) ==
    /\ task["main"] = NoTask
    /\ phase[p] = "connected"
    /\ ~Full
    /\ phase' = [phase EXCEPT ![p] = "admitted"]
    /\ overlap' = overlap \cup (IF Pending # {} THEN {"admission"} ELSE {})
    /\ UNCHANGED <<fd, owner, table, sink, count, task>>

(* stream_resource answers 503; the connection is closed in the end.       *)
Refuse(p) ==
    /\ task["main"] = NoTask
    /\ phase[p] = "connected"
    /\ Full
    /\ phase' = [phase EXCEPT ![p] = "refused"]
    /\ owner' = [owner EXCEPT ![fd[p]] = None]
    /\ UNCHANGED <<fd, table, sink, count, task, overlap>>

(* The player leaves before its headers are written.                       *)
Leave(p) ==
    /\ task["main"] = NoTask
    /\ phase[p] \in {"connected", "admitted"}
    /\ phase' = [phase EXCEPT ![p] = "gone"]
    /\ owner' = [owner EXCEPT ![fd[p]] = None]
    /\ UNCHANGED <<fd, table, sink, count, task, overlap>>

WroteHeadersUncounted(p) ==  \* a mutant: the player is not counted
    /\ task["main"] = NoTask
    /\ phase[p] = "admitted"
    /\ phase' = [phase EXCEPT ![p] = "playing"]
    /\ table' = [table EXCEPT ![fd[p]] = p]
    /\ sink' = [sink EXCEPT ![Want[p]] = @ \cup {p}]
    /\ UNCHANGED <<fd, owner, count, task, overlap>>

(* msg_wrote_headers: gss_stream_add_fd, then the counters.                *)
WroteHeaders(p) ==
    /\ task["main"] = NoTask
    /\ phase[p] = "admitted"
    /\ phase' = [phase EXCEPT ![p] = "playing"]
    /\ table' = [table EXCEPT ![fd[p]] = p]
    /\ sink' = [sink EXCEPT ![Want[p]] = @ \cup {p}]
    /\ task' = [task EXCEPT !["main"] = Counting("add", p)]
    /\ UNCHANGED <<fd, owner, count, overlap>>

(* multifdsink drops a player and emits client-removed in its thread.      *)
Drop(s, p) ==
    /\ task[s] = NoTask
    /\ p \in sink[s]
    /\ sink' = [sink EXCEPT ![s] = @ \ {p}]
    /\ task' = [task EXCEPT ![s] = Counting("remove", p)]
    /\ UNCHANGED <<phase, fd, owner, table, count, overlap>>

(* An update of a counter is a load and a store; two threads may overlap.  *)
Load(t) ==
    /\ IsCounting(t)
    /\ ~task[t].loaded
    /\ task' = [task EXCEPT ![t] = [@ EXCEPT !.loaded = TRUE, !.value = count[Counter(t)]]]
    /\ UNCHANGED <<phase, fd, owner, table, sink, count, overlap>>

(* Where a thread goes from the update of a counter.                       *)
NextTask(k) ==
    IF k.at < 4 THEN [k EXCEPT !.at = @ + 1, !.loaded = FALSE, !.value = 0]
    ELSE IF k.does = "add" THEN NoTask
    ELSE [NoTask EXCEPT !.does = "close", !.player = k.player]

Store(t) ==
    /\ IsCounting(t)
    /\ task[t].loaded
    /\ count' = [count EXCEPT ![Counter(t)] =
                    task[t].value + IF task[t].does = "add" THEN 1 ELSE -1]
    /\ task' = [task EXCEPT ![t] = NextTask(@)]
    /\ overlap' = overlap \cup
           IF \E u \in Threads \ {t} : /\ IsCounting(u)
                                       /\ task[u].loaded
                                       /\ Counter(u) = Counter(t)
           THEN {"counter"} ELSE {}
    /\ UNCHANGED <<phase, fd, owner, table, sink>>

(* client-fd-removed: the socket that the table names is disconnected,     *)
(* which frees its descriptor; nothing is closed when the entry is clear.  *)
Close(s) ==
    /\ task[s].does = "close"
    /\ LET d == fd[task[s].player]
       IN IF table[d] = None THEN UNCHANGED <<phase, owner>>
          ELSE /\ phase' = [phase EXCEPT ![table[d]] = "gone"]
               /\ owner' = [owner EXCEPT ![fd[table[d]]] = None]
    /\ task' = [task EXCEPT ![s].does = "clear"]
    /\ UNCHANGED <<fd, table, sink, count, overlap>>

(* ... and the entry is cleared, whoever has it by now.                    *)
Clear(s) ==
    /\ task[s].does = "clear"
    /\ LET d == fd[task[s].player]
       IN /\ table' = [table EXCEPT ![d] = None]
          /\ overlap' = overlap \cup
                IF table[d] \notin {None, task[s].player} THEN {"table"} ELSE {}
    /\ task' = [task EXCEPT ![s] = NoTask]
    /\ UNCHANGED <<phase, fd, owner, sink, count>>

Next ==
    \/ \E p \in Players : Accept(p) \/ Admit(p) \/ Refuse(p) \/ Leave(p)
    \/ \E p \in Players : WroteHeaders(p)
    \/ \E s \in Streams, p \in Players : Drop(s, p)
    \/ \E t \in Threads : Load(t) \/ Store(t)
    \/ \E s \in Streams : Close(s) \/ Clear(s)

Spec == Init /\ [][Next]_vars

-----------------------------------------------------------------------------
Playing == UNION {sink[s] : s \in Streams}

(* The players that a counter should count once no thread is updating.     *)
Counted(c) == IF c \in Streams THEN sink[c] ELSE Playing

Task == [does : {"nothing", "add", "remove", "close", "clear"},
         player : Players \cup {None}, at : 0 .. 4, loaded : BOOLEAN, value : Int]

TypeOK ==
    /\ phase \in [Players -> {"new", "connected", "admitted", "refused", "playing", "gone"}]
    /\ fd \in [Players -> Fds \cup {None}]
    /\ owner \in [Fds -> Players \cup {None}]
    /\ table \in [Fds -> Players \cup {None}]
    /\ sink \in [Streams -> SUBSET Players]
    /\ count \in [AllCounters -> Int]
    /\ task \in [Threads -> Task]
    /\ overlap \subseteq {"admission", "counter", "table"}

(* Once the threads are quiet every counter counts the players that are in *)
(* the sinks, unless two updates of a counter have overlapped: a player    *)
(* dropped while the main loop is still adding it costs nothing.           *)
CountersAreRight ==
    "counter" \notin overlap /\ (\A t \in Threads : ~IsCounting(t)) =>
        \A c \in AllCounters : count[c] = Cardinality(Counted(c))

(* The socket that a streaming thread disconnects is the one of the player *)
(* it drops, although it looks it up by a descriptor that can be reused.   *)
ClosesItsOwnSocket ==
    \A s \in Streams : task[s].does = "close" =>
        table[fd[task[s].player]] \in {task[s].player, None}

(* A dropped player's socket is left open only when a table entry has been *)
(* cleared under a new owner of its descriptor.                            *)
DroppedIsClosed ==
    "table" \notin overlap =>
        \A p \in Players : phase[p] = "playing" =>
            \/ \E s \in Streams : p \in sink[s]
            \/ \E s \in Streams : task[s].player = p

(* What becomes of the sockets of players that are dropped.                *)
SocketsAreRight == ClosesItsOwnSocket /\ DroppedIsClosed

(* What the server has written down about its players.                     *)
ClientsAreSound == TypeOK /\ CountersAreRight /\ SocketsAreRight

(* No more than MaxConnections players are in the sinks unless one was     *)
(* admitted before the headers of another were written, or a counter is    *)
(* wrong already.                                                          *)
LimitHolds ==
    overlap \cap {"admission", "counter"} = {} =>
        Cardinality(Playing) <= MaxConnections
=============================================================================
