------------------------ MODULE StreamClients_proofs -------------------------
(***************************************************************************)
(* Proofs about StreamClients, for any number of players, streams and      *)
(* descriptors and any limit.                                              *)
(*                                                                         *)
(* Two arguments that need each other only for what is in the sinks.  The  *)
(* first is about sockets: a descriptor belongs to one player until the    *)
(* streaming thread closes it, so the entry of the table that the thread   *)
(* looks at is that player's or clear.  The second is about numbers: a     *)
(* counter plus what the main loop still has to add is what it should be   *)
(* plus what streaming threads still have to subtract, and a counter that  *)
(* has been loaded is still the same, until two updates overlap.           *)
(***************************************************************************)
EXTENDS StreamClients, FiniteSetTheorems, TLAPS

-----------------------------------------------------------------------------
(* The inductive invariant                                                 *)

(* Which thread does what, and for whom                                    *)
TasksFit ==
    \A t \in Threads :
        /\ task[t].does = "add" => t = "main"
        /\ task[t].does \in {"remove", "close", "clear"} => t \in Streams
        /\ task[t].does # "nothing" => task[t].player \in Players
        /\ IsCounting(t) => task[t].at \in 1 .. 4

(* The players in a sink asked for its stream and have a socket.           *)
SinksHaveTheirOwn ==
    \A s \in Streams : \A p \in sink[s] : Want[p] = s /\ phase[p] = "playing"

(* A player that is not done has its descriptor to itself.                 *)
SocketsAreHeld ==
    \A p \in Players : phase[p] \in {"connected", "admitted", "playing"} =>
        fd[p] \in Fds /\ owner[fd[p]] = p

(* A player that a streaming thread drops is out of the sink.  Its socket  *)
(* is open until the thread closes it, and afterwards only if a table      *)
(* entry has been cleared under a new owner.                               *)
DroppedHaveSockets ==
    \A s \in Streams : task[s].does \in {"remove", "close", "clear"} =>
        LET p == task[s].player
        IN /\ Want[p] = s /\ p \notin sink[s]
           /\ fd[p] \in Fds
           /\ phase[p] \in {"playing", "gone"}
           /\ task[s].does # "clear" => phase[p] = "playing"
           /\ task[s].does = "clear" /\ "table" \notin overlap => phase[p] = "gone"

(* The entry for the descriptor of a player names it, or nobody.           *)
TableNamesPlayers ==
    \A p \in Players : phase[p] = "playing" =>
        /\ table[fd[p]] \in {p, None}
        /\ "table" \notin overlap => table[fd[p]] = p

(* A counter that has been loaded for an update is as it was.              *)
LoadedIsCurrent ==
    "counter" \notin overlap =>
        \A t \in Threads : IsCounting(t) /\ task[t].loaded =>
            task[t].value = count[Counter(t)]

(* A thread in the middle of k still has to update counter c.              *)
Owes(k, c) ==
    k.does \in {"add", "remove"} /\ \E i \in k.at .. 4 : Counters(Want[k.player])[i] = c
Owing(c) == {s \in Streams : Owes(task[s], c)}

SetsAreFinite ==
    /\ IsFiniteSet(Playing)
    /\ \A s \in Streams : IsFiniteSet(sink[s])
    /\ \A c \in AllCounters : IsFiniteSet(Owing(c))

(* A counter is right but for the updates that are under way.              *)
CountsAddUp ==
    "counter" \notin overlap => \A c \in AllCounters :
        count[c] + (IF Owes(task["main"], c) THEN 1 ELSE 0)
            = Cardinality(Counted(c)) + Cardinality(Owing(c))

(* There is room for the one player whose headers are not written.         *)
RoomForPending ==
    overlap \cap {"admission", "counter"} = {} =>
        /\ Cardinality(Playing) <= MaxConnections
        /\ \A p, q \in Pending : p = q
        /\ Pending # {} => Cardinality(Playing) < MaxConnections

(* Who has which socket                                                    *)
SocketInv ==
    /\ TypeOK
    /\ TasksFit
    /\ SinksHaveTheirOwn
    /\ SocketsAreHeld
    /\ DroppedHaveSockets
    /\ TableNamesPlayers
    /\ DroppedIsClosed

(* What the counters count                                                 *)
CountInv ==
    /\ LoadedIsCurrent
    /\ SetsAreFinite
    /\ CountsAddUp
    /\ RoomForPending

IInv == SocketInv /\ CountInv

-----------------------------------------------------------------------------
(* Tasks of threads                                                        *)
LEMMA TaskTypes ==
    /\ NoTask \in Task /\ NoTask.does = "nothing" /\ NoTask.player = None
    /\ \A does \in {"add", "remove"}, p \in Players :
          LET k == Counting(does, p)
          IN k \in Task /\ k.does = does /\ k.player = p /\ k.at = 1 /\ k.loaded = FALSE
  BY DEF NoTask, Counting, Task

LEMMA TaskWith ==
    ASSUME NEW k \in Task, NEW at \in 0 .. 4, NEW value \in Int
    PROVE  [k EXCEPT !.at = at, !.loaded = FALSE, !.value = value] \in Task
  BY DEF Task

LEMMA TaskLoaded ==
    ASSUME NEW k \in Task, NEW value \in Int
    PROVE  LET l == [k EXCEPT !.loaded = TRUE, !.value = value]
           IN /\ l \in Task /\ l.does = k.does /\ l.player = k.player /\ l.at = k.at
              /\ l.loaded = TRUE /\ l.value = value
  BY DEF Task

(* What a thread has after the update of one counter                       *)
LEMMA NextTaskIs ==
    ASSUME NEW k \in Task, k.does \in {"add", "remove"}, k.at \in 1 .. 4
    PROVE  /\ NextTask(k) \in Task
           /\ NextTask(k).loaded = FALSE
           /\ k.at < 4 => /\ NextTask(k).does = k.does
                          /\ NextTask(k).player = k.player
                          /\ NextTask(k).at = k.at + 1
           /\ ~(k.at < 4) /\ k.does = "add" => NextTask(k) = NoTask
           /\ ~(k.at < 4) /\ k.does = "remove" =>
                 NextTask(k).does = "close" /\ NextTask(k).player = k.player
  <1>1. CASE k.at < 4
    <2> DEFINE n == [k EXCEPT !.at = k.at + 1, !.loaded = FALSE, !.value = 0]
    <2>1. NextTask(k) = n
      BY <1>1 DEF NextTask
    <2>2. /\ n.loaded = FALSE /\ n.does = k.does /\ n.player = k.player
          /\ n.at = k.at + 1
      BY DEF Task
    <2>3. k.at + 1 \in 0 .. 4
      BY <1>1
    <2>4. n \in Task
      <3>1. \A at \in 0 .. 4, value \in Int :
               [k EXCEPT !.at = at, !.loaded = FALSE, !.value = value] \in Task
        BY TaskWith
      <3>2. 0 \in Int
        OBVIOUS
      <3> QED BY ONLY <2>3, <3>1, <3>2, Zenon
    <2> QED BY <1>1, <2>1, <2>2, <2>4
  <1>2. CASE ~(k.at < 4) /\ k.does = "add"
    BY <1>2, TaskTypes DEF NextTask, NoTask
  <1>3. CASE ~(k.at < 4) /\ k.does = "remove"
    BY <1>3, TaskTypes DEF NextTask, NoTask, Task
  <1> QED BY <1>1, <1>2, <1>3

LEMMA ThreadsAre ==
    /\ "main" \in Threads /\ "main" \notin Streams
    /\ Streams \subseteq Threads
    /\ \A t \in Threads : t # "main" => t \in Streams
  BY NamesAssumption DEF Threads

-----------------------------------------------------------------------------
(* The counters of a stream are four different ones.                       *)
LEMMA CountersAre ==
    ASSUME NEW s \in Streams
    PROVE  /\ \A i \in 1 .. 4 : Counters(s)[i] \in AllCounters
           /\ \A i, j \in 1 .. 4 : Counters(s)[i] = Counters(s)[j] => i = j
           /\ \A c \in AllCounters :
                 (\E i \in 1 .. 4 : Counters(s)[i] = c) <=> (c \in Streams => c = s)
  <1>1. s \notin {"program", "server", "rate"}
    BY NamesAssumption
  <1>2. /\ Counters(s)[1] = s /\ Counters(s)[2] = "program"
        /\ Counters(s)[3] = "server" /\ Counters(s)[4] = "rate"
    BY DEF Counters
  <1>3. \A i \in 1 .. 4 : i = 1 \/ i = 2 \/ i = 3 \/ i = 4
    OBVIOUS
  <1>4. /\ \A i \in 1 .. 4 : Counters(s)[i] \in AllCounters
        /\ \A i, j \in 1 .. 4 : Counters(s)[i] = Counters(s)[j] => i = j
    BY <1>1, <1>2, <1>3 DEF AllCounters
  <1>5. \A c \in AllCounters :
           (\E i \in 1 .. 4 : Counters(s)[i] = c) <=> (c \in Streams => c = s)
    <2>1. {"program", "server", "rate"} \cap Streams = {}
      BY NamesAssumption
    <2>2. 1 \in 1 .. 4 /\ 2 \in 1 .. 4 /\ 3 \in 1 .. 4 /\ 4 \in 1 .. 4
      OBVIOUS
    <2> QED BY <1>2, <1>3, <2>1, <2>2 DEF AllCounters
  <1> QED BY <1>4, <1>5

LEMMA OwesNothing ==
    ASSUME NEW k, k.does \notin {"add", "remove"}, NEW c
    PROVE  ~Owes(k, c)
  BY DEF Owes

(* A thread that begins owes all counters of its player's stream.          *)
LEMMA OwesAtFirst ==
    ASSUME NEW does \in {"add", "remove"}, NEW p \in Players, NEW c \in AllCounters
    PROVE  Owes(Counting(does, p), c) <=> (c \in Streams => c = Want[p])
  <1>1. Want[p] \in Streams
    BY WantAssumption
  <1> QED BY <1>1, CountersAre, TaskTypes DEF Owes

(* With an update it has paid that counter and owes the others as before.  *)
LEMMA OwesNext ==
    ASSUME NEW k \in Task, k.does \in {"add", "remove"}, k.at \in 1 .. 4,
           k.player \in Players, NEW c \in AllCounters
    PROVE  LET d == Counters(Want[k.player])[k.at]
           IN /\ d \in AllCounters
              /\ Owes(k, d)
              /\ ~Owes(NextTask(k), d)
              /\ c # d => (Owes(NextTask(k), c) <=> Owes(k, c))
  <1> DEFINE s == Want[k.player]
             d == Counters(s)[k.at]
  <1>1. s \in Streams
    BY WantAssumption
  <1>2. d \in AllCounters /\ \A i, j \in 1 .. 4 : Counters(s)[i] = Counters(s)[j] => i = j
    BY <1>1, CountersAre
  <1>3. Owes(k, d)
    BY DEF Owes
  <1>4. CASE k.at < 4
    <2>1. /\ NextTask(k).does = k.does /\ NextTask(k).player = k.player
          /\ NextTask(k).at = k.at + 1
      BY <1>4, NextTaskIs
    <2>2. \A i \in k.at + 1 .. 4 : i \in 1 .. 4 /\ i # k.at /\ i \in k.at .. 4
      OBVIOUS
    <2>3. \A i \in k.at .. 4 : i = k.at \/ i \in k.at + 1 .. 4
      OBVIOUS
    <2> QED BY <1>2, <1>3, <2>1, <2>2, <2>3 DEF Owes
  <1>5. CASE ~(k.at < 4)
    <2>1. NextTask(k).does \notin {"add", "remove"}
      BY <1>5, NextTaskIs, TaskTypes
    <2>2. ~Owes(NextTask(k), c) /\ ~Owes(NextTask(k), d)
      BY <2>1, OwesNothing
    <2>3. \A i \in k.at .. 4 : i = k.at
      BY <1>5
    <2> QED BY <1>2, <1>3, <2>2, <2>3 DEF Owes
  <1> QED BY <1>4, <1>5

-----------------------------------------------------------------------------
(* Types                                                                   *)

LEMMA LoadIs ==
    ASSUME TypeOK, TasksFit, NEW t \in Threads, Load(t)
    PROVE  /\ task[t] \in Task /\ task[t].does \in {"add", "remove"}
           /\ task'[t] \in Task
           /\ task'[t].does = task[t].does /\ task'[t].player = task[t].player
           /\ task'[t].at = task[t].at
           /\ task'[t].loaded = TRUE /\ task'[t].value = count[Counter(t)]
           /\ \A u \in Threads \ {t} : task'[u] = task[u]
           /\ task' \in [Threads -> Task]
           /\ Counter(t) \in AllCounters
           /\ Counter(t)' = Counter(t)
           /\ UNCHANGED <<phase, fd, owner, table, sink, count, overlap>>
  <1>1. /\ task \in [Threads -> Task] /\ task[t] \in Task
        /\ task[t].does \in {"add", "remove"}
        /\ task[t].player \in Players /\ task[t].at \in 1 .. 4
    BY DEF TypeOK, TasksFit, Load, IsCounting
  <1>2. Want[task[t].player] \in Streams
    BY <1>1, WantAssumption
  <1>3. Counter(t) \in AllCounters
    BY <1>1, <1>2, CountersAre DEF Counter
  <1>4. count[Counter(t)] \in Int
    BY <1>3 DEF TypeOK
  <1> DEFINE l == [task[t] EXCEPT !.loaded = TRUE, !.value = count[Counter(t)]]
  <1>5. /\ l \in Task /\ l.does = task[t].does /\ l.player = task[t].player
        /\ l.at = task[t].at /\ l.loaded = TRUE /\ l.value = count[Counter(t)]
    BY <1>1, <1>4, TaskLoaded
  <1>6. task' = [task EXCEPT ![t] = l]
    BY DEF Load
  <1> HIDE DEF l
  <1>7. task'[t] = l /\ task' \in [Threads -> Task]
        /\ \A u \in Threads \ {t} : task'[u] = task[u]
    BY <1>1, <1>5, <1>6
  <1>8. Counter(t)' = Counter(t)
    BY <1>5, <1>7 DEF Counter
  <1> QED BY <1>1, <1>3, <1>5, <1>7, <1>8 DEF Load

LEMMA StoreIs ==
    ASSUME TypeOK, TasksFit, NEW t \in Threads, Store(t)
    PROVE  LET k == task[t]
               c == Counter(t)
           IN /\ k \in Task /\ k.does \in {"add", "remove"} /\ k.loaded
              /\ k.player \in Players /\ k.at \in 1 .. 4
              /\ c = Counters(Want[k.player])[k.at] /\ c \in AllCounters
              /\ NextTask(k) \in Task
              /\ task'[t] = NextTask(k)
              /\ \A u \in Threads \ {t} : task'[u] = task[u]
              /\ task' \in [Threads -> Task]
              /\ k.value \in Int
              /\ count'[c] = k.value + (IF k.does = "add" THEN 1 ELSE -1)
              /\ \A d \in AllCounters \ {c} : count'[d] = count[d]
              /\ count' \in [AllCounters -> Int]
  <1> DEFINE k == task[t]
             c == Counter(t)
             v == k.value + (IF k.does = "add" THEN 1 ELSE -1)
  <1>1. /\ task \in [Threads -> Task] /\ k \in Task
        /\ k.does \in {"add", "remove"} /\ k.loaded
        /\ k.player \in Players /\ k.at \in 1 .. 4
        /\ count \in [AllCounters -> Int]
    BY DEF TypeOK, TasksFit, Store, IsCounting
  <1>2. Want[k.player] \in Streams
    BY <1>1, WantAssumption
  <1>3. c = Counters(Want[k.player])[k.at] /\ c \in AllCounters
    BY <1>1, <1>2, CountersAre DEF Counter
  <1>4. NextTask(k) \in Task
    BY <1>1, NextTaskIs
  <1>5. k.value \in Int /\ v \in Int
    BY <1>1 DEF Task
  <1>6. task' = [task EXCEPT ![t] = NextTask(k)] /\ count' = [count EXCEPT ![c] = v]
    BY DEF Store
  <1> HIDE DEF c, v
  <1>7. /\ task'[t] = NextTask(k) /\ task' \in [Threads -> Task]
        /\ \A u \in Threads \ {t} : task'[u] = task[u]
    BY <1>1, <1>4, <1>6
  <1>8. /\ count'[c] = v /\ count' \in [AllCounters -> Int]
        /\ \A d \in AllCounters \ {c} : count'[d] = count[d]
    BY <1>1, <1>3, <1>5, <1>6
  <1> QED BY <1>1, <1>3, <1>4, <1>5, <1>7, <1>8 DEF c, v

LEMMA TypesAtStart == Init => TypeOK
  BY TaskTypes DEF Init, TypeOK

LEMMA TypesKept ==
    ASSUME TypeOK, TasksFit, [Next]_vars
    PROVE  TypeOK'
  <1>1. ASSUME NEW p \in Players, Accept(p) PROVE TypeOK'
    BY <1>1 DEF Accept, TypeOK
  <1>2. ASSUME NEW p \in Players, Admit(p) PROVE TypeOK'
    BY <1>2 DEF Admit, TypeOK
  <1>3. ASSUME NEW p \in Players, Refuse(p) PROVE TypeOK'
    BY <1>3 DEF Refuse, TypeOK
  <1>4. ASSUME NEW p \in Players, Leave(p) PROVE TypeOK'
    BY <1>4 DEF Leave, TypeOK
  <1>5. ASSUME NEW p \in Players, WroteHeaders(p) PROVE TypeOK'
    <2>1. Counting("add", p) \in Task
      BY TaskTypes
    <2>2. /\ task' = [task EXCEPT !["main"] = Counting("add", p)]
          /\ sink' = [sink EXCEPT ![Want[p]] = @ \cup {p}]
          /\ table' = [table EXCEPT ![fd[p]] = p]
          /\ phase' = [phase EXCEPT ![p] = "playing"]
          /\ UNCHANGED <<fd, owner, count, overlap>>
      BY <1>5 DEF WroteHeaders
    <2>3. task' \in [Threads -> Task]
      BY <2>1, <2>2 DEF TypeOK
    <2>4. sink' \in [Streams -> SUBSET Players] /\ table' \in [Fds -> Players \cup {None}]
      BY <2>2 DEF TypeOK
    <2> QED BY <2>2, <2>3, <2>4 DEF TypeOK
  <1>6. ASSUME NEW s \in Streams, NEW p \in Players, Drop(s, p) PROVE TypeOK'
    <2>1. Counting("remove", p) \in Task
      BY TaskTypes
    <2>2. /\ task' = [task EXCEPT ![s] = Counting("remove", p)]
          /\ sink' = [sink EXCEPT ![s] = @ \ {p}]
          /\ UNCHANGED <<phase, fd, owner, table, count, overlap>>
      BY <1>6 DEF Drop
    <2>3. task' \in [Threads -> Task]
      BY <2>1, <2>2 DEF TypeOK
    <2>4. sink' \in [Streams -> SUBSET Players]
      BY <2>2 DEF TypeOK
    <2> QED BY <2>2, <2>3, <2>4 DEF TypeOK
  <1>7. ASSUME NEW t \in Threads, Load(t) PROVE TypeOK'
    BY <1>7, LoadIs DEF TypeOK
  <1>8. ASSUME NEW t \in Threads, Store(t) PROVE TypeOK'
    <2>1. task' \in [Threads -> Task] /\ count' \in [AllCounters -> Int]
      BY <1>8, StoreIs
    <2>2. overlap' \subseteq {"admission", "counter", "table"}
      BY <1>8 DEF Store, TypeOK
    <2> QED BY <1>8, <2>1, <2>2 DEF Store, TypeOK
  <1>9. ASSUME NEW s \in Streams, Close(s) PROVE TypeOK'
    <2>1. task[s] \in Task /\ s \in Threads
      BY ThreadsAre DEF TypeOK
    <2>2. [task[s] EXCEPT !.does = "clear"] \in Task
      BY <2>1 DEF Task
    <2>3. task' = [task EXCEPT ![s] = [task[s] EXCEPT !.does = "clear"]]
      BY <1>9 DEF Close, TypeOK
    <2>4. task' \in [Threads -> Task]
      BY <2>2, <2>3 DEF TypeOK
    <2>5. /\ phase' \in [Players -> {"new", "connected", "admitted", "refused", "playing", "gone"}]
          /\ owner' \in [Fds -> Players \cup {None}]
      BY <1>9 DEF Close, TypeOK
    <2> QED BY <1>9, <2>4, <2>5 DEF Close, TypeOK
  <1>10. ASSUME NEW s \in Streams, Clear(s) PROVE TypeOK'
    <2>1. task' = [task EXCEPT ![s] = NoTask] /\ UNCHANGED <<phase, fd, owner, sink, count>>
      BY <1>10 DEF Clear
    <2>2. task' \in [Threads -> Task]
      BY <2>1, TaskTypes DEF TypeOK
    <2>3. table' \in [Fds -> Players \cup {None}]
      BY <1>10 DEF Clear, TypeOK
    <2>4. overlap' \subseteq {"admission", "counter", "table"}
      BY <1>10 DEF Clear, TypeOK
    <2> QED BY <2>1, <2>2, <2>3, <2>4 DEF TypeOK
  <1>11. CASE UNCHANGED vars
    BY <1>11 DEF vars, TypeOK
  <1> QED BY <1>1, <1>2, <1>3, <1>4, <1>5, <1>6, <1>7, <1>8, <1>9, <1>10, <1>11 DEF Next

-----------------------------------------------------------------------------
(* Sockets                                                                 *)

LEMMA SocketsAtStart == Init => SocketInv
  <1>1. ASSUME Init PROVE SocketInv
    <2>1. TypeOK
      BY <1>1, TypesAtStart
    <2>2. \A t \in Threads : task[t].does = "nothing"
      BY <1>1, TaskTypes DEF Init
    <2>3. TasksFit
      BY <2>2 DEF TasksFit, IsCounting
    <2>4. \A s \in Streams : task[s].does = "nothing"
      BY <2>2, ThreadsAre
    <2>5. SinksHaveTheirOwn /\ SocketsAreHeld /\ TableNamesPlayers /\ DroppedIsClosed
      BY <1>1 DEF Init, SinksHaveTheirOwn, SocketsAreHeld, TableNamesPlayers,
                  DroppedIsClosed
    <2> QED BY <2>1, <2>3, <2>4, <2>5 DEF SocketInv, DroppedHaveSockets
  <1> QED BY <1>1

(* Before a player plays, and when it leaves before that, the sockets of   *)
(* the others stay as they are.                                            *)
LEMMA NewcomerKeeps ==
    ASSUME SocketInv, TypeOK', NEW p \in Players,
           phase[p] \notin {"playing", "gone"}, phase'[p] # "playing",
           \A q \in Players \ {p} : phase'[q] = phase[q] /\ fd'[q] = fd[q],
           \A q \in Players \ {p} :
              phase[q] \in {"connected", "admitted", "playing"} => owner'[fd[q]] = q,
           phase'[p] \in {"connected", "admitted"} => fd'[p] \in Fds /\ owner'[fd'[p]] = p,
           UNCHANGED <<table, sink, task>>,
           "table" \in overlap' <=> "table" \in overlap
    PROVE  SocketInv'
  <1>1. TasksFit'
    BY DEF SocketInv, TasksFit, IsCounting
  <1>2. SinksHaveTheirOwn'
    BY DEF SocketInv, SinksHaveTheirOwn, TypeOK
  <1>3. SocketsAreHeld'
    BY DEF SocketInv, SocketsAreHeld
  <1>4. DroppedHaveSockets'
    <2> SUFFICES ASSUME NEW s \in Streams, task[s].does \in {"remove", "close", "clear"}
                 PROVE  LET q == task[s].player
                        IN /\ Want[q] = s /\ q \notin sink[s]
                           /\ fd'[q] \in Fds
                           /\ phase'[q] \in {"playing", "gone"}
                           /\ task[s].does # "clear" => phase'[q] = "playing"
                           /\ task[s].does = "clear" /\ "table" \notin overlap'
                                => phase'[q] = "gone"
      BY DEF DroppedHaveSockets
    <2>1. task[s].player \in Players
      BY ThreadsAre DEF SocketInv, TasksFit
    <2>2. task[s].player # p
      BY DEF SocketInv, DroppedHaveSockets
    <2> QED BY <2>1, <2>2 DEF SocketInv, DroppedHaveSockets
  <1>5. TableNamesPlayers' /\ DroppedIsClosed'
    BY DEF SocketInv, TableNamesPlayers, DroppedIsClosed
  <1> QED BY <1>1, <1>2, <1>3, <1>4, <1>5 DEF SocketInv

LEMMA AcceptSockets ==
    ASSUME SocketInv, TypeOK', NEW p \in Players, Accept(p)
    PROVE  SocketInv'
  <1>1. PICK d \in Fds : /\ owner[d] = None
                         /\ owner' = [owner EXCEPT ![d] = p]
                         /\ fd' = [fd EXCEPT ![p] = d]
    BY DEF Accept
  <1>2. /\ phase[p] = "new" /\ phase' = [phase EXCEPT ![p] = "connected"]
        /\ UNCHANGED <<table, sink, task, overlap>>
    BY DEF Accept
  <1>3. \A q \in Players \ {p} : phase'[q] = phase[q] /\ fd'[q] = fd[q]
    BY <1>1, <1>2 DEF SocketInv, TypeOK
  <1>4. \A q \in Players \ {p} :
           phase[q] \in {"connected", "admitted", "playing"} => owner'[fd[q]] = q
    BY <1>1, NoneAssumption DEF SocketInv, SocketsAreHeld, TypeOK
  <1>5. fd'[p] = d /\ owner'[d] = p /\ phase'[p] = "connected"
    BY <1>1, <1>2 DEF SocketInv, TypeOK
  <1> QED BY <1>1, <1>2, <1>3, <1>4, <1>5, NewcomerKeeps

LEMMA AdmitSockets ==
    ASSUME SocketInv, TypeOK', NEW p \in Players, Admit(p)
    PROVE  SocketInv'
  <1>1. /\ phase[p] = "connected" /\ phase' = [phase EXCEPT ![p] = "admitted"]
        /\ UNCHANGED <<fd, owner, table, sink, task>>
        /\ "table" \in overlap' <=> "table" \in overlap
    BY DEF Admit
  <1>2. /\ \A q \in Players \ {p} : phase'[q] = phase[q] /\ fd'[q] = fd[q]
        /\ phase'[p] = "admitted"
    BY <1>1 DEF SocketInv, TypeOK
  <1>3. \A q \in Players : phase[q] \in {"connected", "admitted", "playing"} =>
           fd'[q] \in Fds /\ owner'[fd'[q]] = q
    BY <1>1 DEF SocketInv, SocketsAreHeld
  <1> QED BY <1>1, <1>2, <1>3, NewcomerKeeps

(* A player that is refused or leaves gives its descriptor back.           *)
LEMMA EndSockets ==
    ASSUME SocketInv, TypeOK', NEW p \in Players, Refuse(p) \/ Leave(p)
    PROVE  SocketInv'
  <1>1. /\ phase[p] \in {"connected", "admitted"}
        /\ \E end \in {"refused", "gone"} : phase' = [phase EXCEPT ![p] = end]
        /\ owner' = [owner EXCEPT ![fd[p]] = None]
        /\ UNCHANGED <<fd, table, sink, task, overlap>>
    BY DEF Refuse, Leave
  <1>2. /\ \A q \in Players \ {p} : phase'[q] = phase[q] /\ fd'[q] = fd[q]
        /\ phase'[p] \in {"refused", "gone"}
    BY <1>1 DEF SocketInv, TypeOK
  <1>3. fd[p] \in Fds /\ owner[fd[p]] = p
    BY <1>1 DEF SocketInv, SocketsAreHeld
  <1>4. ASSUME NEW q \in Players \ {p}, phase[q] \in {"connected", "admitted", "playing"}
        PROVE  owner'[fd[q]] = q
    <2>1. fd[q] \in Fds /\ owner[fd[q]] = q
      BY <1>4 DEF SocketInv, SocketsAreHeld
    <2> QED BY <1>1, <1>3, <2>1 DEF SocketInv, TypeOK
  <1> QED BY <1>1, <1>2, <1>4, NewcomerKeeps

(* The entry of the table is that of the player whose socket it is.        *)
LEMMA WroteHeadersSockets ==
    ASSUME SocketInv, TypeOK', NEW p \in Players, WroteHeaders(p)
    PROVE  SocketInv'
  <1>1. /\ phase[p] = "admitted" /\ phase' = [phase EXCEPT ![p] = "playing"]
        /\ table' = [table EXCEPT ![fd[p]] = p]
        /\ sink' = [sink EXCEPT ![Want[p]] = @ \cup {p}]
        /\ task' = [task EXCEPT !["main"] = Counting("add", p)]
        /\ UNCHANGED <<fd, owner, count, overlap>>
    BY DEF WroteHeaders
  <1>2. fd[p] \in Fds /\ owner[fd[p]] = p /\ Want[p] \in Streams
    BY <1>1, WantAssumption DEF SocketInv, SocketsAreHeld
  <1>3. /\ \A q \in Players \ {p} : phase'[q] = phase[q]
        /\ phase'[p] = "playing"
        /\ table'[fd[p]] = p
        /\ \A d \in Fds \ {fd[p]} : table'[d] = table[d]
        /\ \A s \in Streams : sink'[s] = IF s = Want[p] THEN sink[s] \cup {p} ELSE sink[s]
        /\ \A t \in Threads \ {"main"} : task'[t] = task[t]
        /\ task'["main"] = Counting("add", p)
    <2>1. /\ \A q \in Players \ {p} : phase'[q] = phase[q]
          /\ phase'[p] = "playing"
      BY <1>1 DEF SocketInv, TypeOK
    <2>2. /\ table'[fd[p]] = p
          /\ \A d \in Fds \ {fd[p]} : table'[d] = table[d]
      BY <1>1, <1>2 DEF SocketInv, TypeOK
    <2>3. \A s \in Streams : sink'[s] = IF s = Want[p] THEN sink[s] \cup {p} ELSE sink[s]
      BY <1>1, <1>2 DEF SocketInv, TypeOK
    <2>4. /\ \A t \in Threads \ {"main"} : task'[t] = task[t]
          /\ task'["main"] = Counting("add", p)
      BY <1>1, ThreadsAre DEF SocketInv, TypeOK
    <2> QED BY <2>1, <2>2, <2>3, <2>4
  <1>4. \A s \in Streams : task'[s] = task[s] /\ s \in Threads
    BY <1>3, ThreadsAre
  <1>5. TasksFit'
    BY <1>3, TaskTypes, ThreadsAre DEF SocketInv, TasksFit, IsCounting
  <1>6. SinksHaveTheirOwn'
    BY <1>2, <1>3 DEF SocketInv, SinksHaveTheirOwn, TypeOK
  <1>7. SocketsAreHeld'
    BY <1>1, <1>3 DEF SocketInv, SocketsAreHeld
  <1>8. DroppedHaveSockets'
    <2> SUFFICES ASSUME NEW s \in Streams, task[s].does \in {"remove", "close", "clear"}
                 PROVE  LET q == task[s].player
                        IN /\ Want[q] = s /\ q \notin sink'[s]
                           /\ fd[q] \in Fds
                           /\ phase'[q] \in {"playing", "gone"}
                           /\ task[s].does # "clear" => phase'[q] = "playing"
                           /\ task[s].does = "clear" /\ "table" \notin overlap
                                => phase'[q] = "gone"
      BY <1>1, <1>4 DEF DroppedHaveSockets
    <2>1. task[s].player \in Players
      BY <1>4 DEF SocketInv, TasksFit
    <2>2. task[s].player # p
      BY <1>1 DEF SocketInv, DroppedHaveSockets
    <2>3. phase'[task[s].player] = phase[task[s].player]
      BY <1>3, <2>1, <2>2
    <2>4. task[s].player \in sink'[s] => task[s].player \in sink[s]
      BY <1>3, <2>2
    <2> QED BY <2>3, <2>4 DEF SocketInv, DroppedHaveSockets
  <1>9. TableNamesPlayers'
    <2> SUFFICES ASSUME NEW q \in Players, phase'[q] = "playing"
                 PROVE  /\ table'[fd[q]] \in {q, None}
                        /\ "table" \notin overlap => table'[fd[q]] = q
      BY <1>1 DEF TableNamesPlayers
    <2>1. CASE q = p
      BY <1>3, <2>1
    <2>2. CASE q # p
      <3>1. phase[q] = "playing" /\ fd[q] \in Fds /\ owner[fd[q]] = q
        BY <1>3, <2>2 DEF SocketInv, SocketsAreHeld
      <3>2. table'[fd[q]] = table[fd[q]]
        BY <1>2, <1>3, <2>2, <3>1
      <3> QED BY <3>1, <3>2 DEF SocketInv, TableNamesPlayers
    <2> QED BY <2>1, <2>2
  <1>10. DroppedIsClosed'
    <2> SUFFICES ASSUME NEW q \in Players, phase'[q] = "playing", "table" \notin overlap
                 PROVE  \/ \E s \in Streams : q \in sink'[s]
                        \/ \E s \in Streams : task'[s].player = q
      BY <1>1 DEF DroppedIsClosed
    <2>1. CASE q = p
      BY <1>2, <1>3, <2>1
    <2>2. CASE q # p
      <3>1. \/ \E s \in Streams : q \in sink[s]
            \/ \E s \in Streams : task[s].player = q
        BY <1>3, <2>2 DEF SocketInv, DroppedIsClosed
      <3> QED BY <1>3, <1>4, <3>1
    <2> QED BY <2>1, <2>2
  <1> QED BY <1>5, <1>6, <1>7, <1>8, <1>9, <1>10 DEF SocketInv

LEMMA DropSockets ==
    ASSUME SocketInv, TypeOK', NEW s \in Streams, NEW p \in Players, Drop(s, p)
    PROVE  SocketInv'
  <1>1. /\ task[s] = NoTask /\ p \in sink[s]
        /\ sink' = [sink EXCEPT ![s] = @ \ {p}]
        /\ task' = [task EXCEPT ![s] = Counting("remove", p)]
        /\ UNCHANGED <<phase, fd, owner, table, count, overlap>>
    BY DEF Drop
  <1>2. /\ Want[p] = s /\ phase[p] = "playing" /\ fd[p] \in Fds
        /\ s \in Threads /\ s # "main"
    BY <1>1, ThreadsAre DEF SocketInv, SinksHaveTheirOwn, SocketsAreHeld
  <1>3. /\ \A r \in Streams : sink'[r] = IF r = s THEN sink[r] \ {p} ELSE sink[r]
        /\ \A t \in Threads \ {s} : task'[t] = task[t]
        /\ task'[s] = Counting("remove", p)
    BY <1>1, <1>2 DEF SocketInv, TypeOK
  <1>4. /\ task'[s].does = "remove" /\ task'[s].player = p /\ task'[s].at = 1
        /\ task[s].player = None
    BY <1>1, <1>3, TaskTypes
  <1>5. TasksFit'
    BY <1>3, <1>4 DEF SocketInv, TasksFit, IsCounting
  <1>6. SinksHaveTheirOwn' /\ SocketsAreHeld' /\ TableNamesPlayers'
    BY <1>1, <1>3 DEF SocketInv, SinksHaveTheirOwn, SocketsAreHeld, TableNamesPlayers
  <1>7. DroppedHaveSockets'
    <2> SUFFICES ASSUME NEW r \in Streams, task'[r].does \in {"remove", "close", "clear"}
                 PROVE  LET q == task'[r].player
                        IN /\ Want[q] = r /\ q \notin sink'[r]
                           /\ fd[q] \in Fds
                           /\ phase[q] \in {"playing", "gone"}
                           /\ task'[r].does # "clear" => phase[q] = "playing"
                           /\ task'[r].does = "clear" /\ "table" \notin overlap
                                => phase[q] = "gone"
      BY <1>1 DEF DroppedHaveSockets
    <2>1. CASE r = s
      BY <1>2, <1>3, <1>4, <2>1
    <2>2. CASE r # s
      <3>1. task'[r] = task[r] /\ sink'[r] = sink[r]
        BY <1>3, <2>2, ThreadsAre
      <3> QED BY <3>1 DEF SocketInv, DroppedHaveSockets
    <2> QED BY <2>1, <2>2
  <1>8. DroppedIsClosed'
    <2> SUFFICES ASSUME NEW q \in Players, phase[q] = "playing", "table" \notin overlap
                 PROVE  \/ \E r \in Streams : q \in sink'[r]
                        \/ \E r \in Streams : task'[r].player = q
      BY <1>1 DEF DroppedIsClosed
    <2>1. CASE q = p
      BY <1>4, <2>1
    <2>2. CASE q # p
      <3>1. CASE \E r \in Streams : q \in sink[r]
        BY <1>3, <2>2, <3>1
      <3>2. CASE \E r \in Streams : task[r].player = q
        <4>1. PICK r \in Streams : task[r].player = q
          BY <3>2
        <4>2. r # s
          BY <1>4, <4>1, NoneAssumption
        <4> QED BY <1>3, <4>1, <4>2, ThreadsAre
      <3> QED BY <3>1, <3>2 DEF SocketInv, DroppedIsClosed
    <2> QED BY <2>1, <2>2
  <1> QED BY <1>5, <1>6, <1>7, <1>8 DEF SocketInv

(* Updates of counters do not touch the sockets.                           *)
LEMMA CountingSockets ==
    ASSUME SocketInv, TypeOK', NEW t \in Threads, task[t].does \in {"add", "remove"},
           \A u \in Threads \ {t} : task'[u] = task[u],
           \/ task'[t].does = task[t].does /\ task'[t].player = task[t].player
              /\ task'[t].at \in 1 .. 4
           \/ task[t].does = "add" /\ task'[t] = NoTask
           \/ task[t].does = "remove" /\ task'[t].does = "close"
              /\ task'[t].player = task[t].player,
           UNCHANGED <<phase, fd, owner, table, sink>>,
           "table" \in overlap' <=> "table" \in overlap
    PROVE  SocketInv'
  <1>1. task[t].player \in Players /\ (task[t].does = "remove" => t \in Streams)
        /\ (task[t].does = "add" => t = "main")
    BY DEF SocketInv, TasksFit
  <1>2. TasksFit'
    <2> SUFFICES ASSUME NEW u \in Threads
                 PROVE  /\ task'[u].does = "add" => u = "main"
                        /\ task'[u].does \in {"remove", "close", "clear"} => u \in Streams
                        /\ task'[u].does # "nothing" => task'[u].player \in Players
                        /\ task'[u].does \in {"add", "remove"} => task'[u].at \in 1 .. 4
      BY DEF TasksFit, IsCounting
    <2>1. CASE u # t
      BY <2>1 DEF SocketInv, TasksFit, IsCounting
    <2>2. CASE u = t
      BY <1>1, <2>2, TaskTypes
    <2> QED BY <2>1, <2>2
  <1>3. SinksHaveTheirOwn' /\ SocketsAreHeld' /\ TableNamesPlayers'
    BY DEF SocketInv, SinksHaveTheirOwn, SocketsAreHeld, TableNamesPlayers
  <1>4. ASSUME NEW s \in Streams
        PROVE  \/ task'[s] = task[s]
               \/ task[s].does = "remove" /\ task'[s].does \in {"remove", "close"}
                  /\ task'[s].player = task[s].player
    BY <1>1, ThreadsAre
  <1>5. DroppedHaveSockets'
    <2> SUFFICES ASSUME NEW r \in Streams, task'[r].does \in {"remove", "close", "clear"}
                 PROVE  LET q == task'[r].player
                        IN /\ Want[q] = r /\ q \notin sink[r]
                           /\ fd[q] \in Fds
                           /\ phase[q] \in {"playing", "gone"}
                           /\ task'[r].does # "clear" => phase[q] = "playing"
                           /\ task'[r].does = "clear" /\ "table" \notin overlap
                                => phase[q] = "gone"
      BY DEF DroppedHaveSockets
    <2>1. CASE task'[r] = task[r]
      BY <2>1 DEF SocketInv, DroppedHaveSockets
    <2>2. CASE /\ task[r].does = "remove" /\ task'[r].does \in {"remove", "close"}
               /\ task'[r].player = task[r].player
      BY <2>2 DEF SocketInv, DroppedHaveSockets
    <2> QED BY <1>4, <2>1, <2>2
  <1>6. DroppedIsClosed'
    <2>1. \A s \in Streams : task'[s].player = task[s].player
      BY <1>4
    <2> QED BY <2>1 DEF SocketInv, DroppedIsClosed
  <1> QED BY <1>2, <1>3, <1>5, <1>6 DEF SocketInv

(* The streaming thread closes the socket of the player it has dropped, or *)
(* none when the entry was cleared.                                        *)
LEMMA CloseSockets ==
    ASSUME SocketInv, TypeOK', NEW s \in Streams, Close(s)
    PROVE  SocketInv'
  <1> DEFINE p == task[s].player
  <1>1. /\ task[s].does = "close" /\ s \in Threads /\ s # "main"
        /\ task' = [task EXCEPT ![s].does = "clear"]
        /\ UNCHANGED <<fd, table, sink, count, overlap>>
    BY ThreadsAre DEF Close
  <1>2. /\ p \in Players /\ Want[p] = s /\ p \notin sink[s] /\ fd[p] \in Fds
        /\ phase[p] = "playing"
    BY <1>1 DEF SocketInv, TasksFit, DroppedHaveSockets
  <1>3. /\ table[fd[p]] \in {p, None} /\ ("table" \notin overlap => table[fd[p]] = p)
        /\ owner[fd[p]] = p
    BY <1>2 DEF SocketInv, TableNamesPlayers, SocketsAreHeld
  <1>4. /\ \A t \in Threads \ {s} : task'[t] = task[t]
        /\ task'[s].does = "clear" /\ task'[s].player = p
    BY <1>1 DEF SocketInv, TypeOK, Task
  <1>5. \/ /\ table[fd[p]] = None /\ "table" \in overlap
           /\ UNCHANGED <<phase, owner>>
        \/ /\ phase' = [phase EXCEPT ![p] = "gone"]
           /\ owner' = [owner EXCEPT ![fd[p]] = None]
    BY <1>2, <1>3, NoneAssumption DEF Close
  <1> HIDE DEF p
  <1>6. TasksFit'
    BY <1>1, <1>2, <1>4 DEF SocketInv, TasksFit, IsCounting
  <1>7. \A q \in Players \ {p} : phase'[q] = phase[q]
    BY <1>5 DEF SocketInv, TypeOK
  <1>8. phase'[p] = "gone" \/ ("table" \in overlap /\ phase'[p] = "playing")
    BY <1>2, <1>5 DEF SocketInv, TypeOK
  <1>9. SinksHaveTheirOwn'
    <2> SUFFICES ASSUME NEW r \in Streams, NEW q \in sink[r]
                 PROVE  Want[q] = r /\ phase'[q] = "playing"
      BY <1>1 DEF SinksHaveTheirOwn
    <2>1. Want[q] = r /\ phase[q] = "playing" /\ q \in Players
      BY DEF SocketInv, SinksHaveTheirOwn, TypeOK
    <2>2. q # p
      BY <1>2, <2>1
    <2> QED BY <1>7, <2>1, <2>2
  <1>10. SocketsAreHeld'
    <2> SUFFICES ASSUME NEW q \in Players,
                        phase'[q] \in {"connected", "admitted", "playing"}
                 PROVE  fd[q] \in Fds /\ owner'[fd[q]] = q
      BY <1>1 DEF SocketsAreHeld
    <2>1. fd[q] \in Fds /\ owner[fd[q]] = q
      BY <1>2, <1>3, <1>7 DEF SocketInv, SocketsAreHeld
    <2>2. CASE q = p
      BY <1>3, <1>5, <2>1, <2>2, <1>2 DEF SocketInv, TypeOK
    <2>3. CASE q # p
      BY <1>3, <1>5, <2>1, <2>3 DEF SocketInv, TypeOK
    <2> QED BY <2>2, <2>3
  <1>11. DroppedHaveSockets'
    <2> SUFFICES ASSUME NEW r \in Streams, task'[r].does \in {"remove", "close", "clear"}
                 PROVE  LET q == task'[r].player
                        IN /\ Want[q] = r /\ q \notin sink[r]
                           /\ fd[q] \in Fds
                           /\ phase'[q] \in {"playing", "gone"}
                           /\ task'[r].does # "clear" => phase'[q] = "playing"
                           /\ task'[r].does = "clear" /\ "table" \notin overlap
                                => phase'[q] = "gone"
      BY <1>1 DEF DroppedHaveSockets
    <2>1. CASE r = s
      BY <1>2, <1>4, <1>8, <2>1
    <2>2. CASE r # s
      <3>1. task'[r] = task[r] /\ task[r].player \in Players
        BY <1>4, <2>2, ThreadsAre DEF SocketInv, TasksFit
      <3>2. task[r].player # p
        BY <1>2, <2>2, <3>1 DEF SocketInv, DroppedHaveSockets
      <3>3. phase'[task[r].player] = phase[task[r].player]
        BY <1>7, <3>1, <3>2
      <3> QED BY <3>1, <3>3 DEF SocketInv, DroppedHaveSockets
    <2> QED BY <2>1, <2>2
  <1>12. TableNamesPlayers' /\ DroppedIsClosed'
    <2>1. \A q \in Players : phase'[q] = "playing" => phase[q] = "playing"
      BY <1>2, <1>7
    <2>2. \A r \in Streams : task'[r].player = task[r].player
      BY <1>4, ThreadsAre DEF p
    <2> QED BY <1>1, <2>1, <2>2 DEF SocketInv, TableNamesPlayers, DroppedIsClosed
  <1> QED BY <1>6, <1>9, <1>10, <1>11, <1>12 DEF SocketInv

(* Clearing the entry hurts only a player that has the descriptor by then, *)
(* which is recorded.                                                      *)
LEMMA ClearSockets ==
    ASSUME SocketInv, TypeOK', NEW s \in Streams, Clear(s)
    PROVE  SocketInv'
  <1> DEFINE p == task[s].player
  <1>1. /\ task[s].does = "clear" /\ s \in Threads /\ s # "main"
        /\ task' = [task EXCEPT ![s] = NoTask]
        /\ table' = [table EXCEPT ![fd[p]] = None]
        /\ UNCHANGED <<phase, fd, owner, sink, count>>
        /\ overlap \subseteq overlap'
        /\ "table" \notin overlap' => table[fd[p]] \in {None, p}
    BY ThreadsAre DEF Clear
  <1>2. /\ p \in Players /\ fd[p] \in Fds
        /\ "table" \notin overlap' => phase[p] = "gone"
    BY <1>1 DEF SocketInv, TasksFit, DroppedHaveSockets
  <1>3. /\ \A t \in Threads \ {s} : task'[t] = task[t]
        /\ task'[s] = NoTask
        /\ table'[fd[p]] = None
        /\ \A d \in Fds \ {fd[p]} : table'[d] = table[d]
    <2>1. /\ \A t \in Threads \ {s} : task'[t] = task[t]
          /\ task'[s] = NoTask
      BY <1>1 DEF SocketInv, TypeOK
    <2>2. /\ table'[fd[p]] = None
          /\ \A d \in Fds \ {fd[p]} : table'[d] = table[d]
      BY <1>1, <1>2 DEF SocketInv, TypeOK
    <2> QED BY <2>1, <2>2
  <1> HIDE DEF p
  <1>4. TasksFit'
    BY <1>3, TaskTypes DEF SocketInv, TasksFit, IsCounting
  <1>5. SinksHaveTheirOwn' /\ SocketsAreHeld'
    BY <1>1 DEF SocketInv, SinksHaveTheirOwn, SocketsAreHeld
  <1>6. DroppedHaveSockets'
    <2> SUFFICES ASSUME NEW r \in Streams, task'[r].does \in {"remove", "close", "clear"}
                 PROVE  LET q == task'[r].player
                        IN /\ Want[q] = r /\ q \notin sink[r]
                           /\ fd[q] \in Fds
                           /\ phase[q] \in {"playing", "gone"}
                           /\ task'[r].does # "clear" => phase[q] = "playing"
                           /\ task'[r].does = "clear" /\ "table" \notin overlap'
                                => phase[q] = "gone"
      BY <1>1 DEF DroppedHaveSockets
    <2>1. r # s
      BY <1>3, TaskTypes
    <2>2. task'[r] = task[r]
      BY <1>3, <2>1, ThreadsAre
    <2> QED BY <1>1, <2>2 DEF SocketInv, DroppedHaveSockets
  <1>7. TableNamesPlayers'
    <2> SUFFICES ASSUME NEW q \in Players, phase[q] = "playing"
                 PROVE  /\ table'[fd[q]] \in {q, None}
                        /\ "table" \notin overlap' => table'[fd[q]] = q
      BY <1>1 DEF TableNamesPlayers
    <2>1. /\ table[fd[q]] \in {q, None} /\ fd[q] \in Fds
          /\ "table" \notin overlap => table[fd[q]] = q
      BY DEF SocketInv, TableNamesPlayers, SocketsAreHeld
    <2>2. CASE fd[q] # fd[p]
      BY <1>1, <1>3, <2>1, <2>2
    <2>3. CASE fd[q] = fd[p]
      BY <1>1, <1>2, <1>3, <2>1, <2>3, NoneAssumption
    <2> QED BY <2>2, <2>3
  <1>8. DroppedIsClosed'
    <2> SUFFICES ASSUME NEW q \in Players, phase[q] = "playing", "table" \notin overlap'
                 PROVE  \/ \E r \in Streams : q \in sink[r]
                        \/ \E r \in Streams : task'[r].player = q
      BY <1>1 DEF DroppedIsClosed
    <2>1. \/ \E r \in Streams : q \in sink[r]
          \/ \E r \in Streams : task[r].player = q
      BY <1>1 DEF SocketInv, DroppedIsClosed
    <2>2. ASSUME NEW r \in Streams, task[r].player = q
          PROVE  task'[r].player = q
      <3>1. r # s
        BY <1>2, <2>2 DEF p
      <3> QED BY <1>3, <2>2, <3>1, ThreadsAre
    <2> QED BY <2>1, <2>2
  <1> QED BY <1>4, <1>5, <1>6, <1>7, <1>8 DEF SocketInv

LEMMA SocketsKept ==
    ASSUME SocketInv, [Next]_vars
    PROVE  SocketInv'
  <1>1. TypeOK'
    BY TypesKept DEF SocketInv
  <1>2. ASSUME NEW p \in Players, Accept(p) \/ Admit(p) \/ Refuse(p) \/ Leave(p)
        PROVE  SocketInv'
    BY <1>1, <1>2, AcceptSockets, AdmitSockets, EndSockets
  <1>3. ASSUME NEW p \in Players, WroteHeaders(p) PROVE SocketInv'
    BY <1>1, <1>3, WroteHeadersSockets
  <1>4. ASSUME NEW s \in Streams, NEW p \in Players, Drop(s, p) PROVE SocketInv'
    BY <1>1, <1>4, DropSockets
  <1>5. ASSUME NEW t \in Threads, Load(t) PROVE SocketInv'
    <2>1. task[t].at \in 1 .. 4
      BY <1>5, LoadIs DEF SocketInv, TasksFit, IsCounting
    <2> QED BY <1>1, <1>5, <2>1, LoadIs, CountingSockets DEF SocketInv
  <1>6. ASSUME NEW t \in Threads, Store(t) PROVE SocketInv'
    <2> DEFINE k == task[t]
    <2>1. /\ k \in Task /\ k.does \in {"add", "remove"} /\ k.at \in 1 .. 4
          /\ task'[t] = NextTask(k)
          /\ \A u \in Threads \ {t} : task'[u] = task[u]
      BY <1>6, StoreIs DEF SocketInv
    <2>2. \/ task'[t].does = k.does /\ task'[t].player = k.player /\ task'[t].at \in 1 .. 4
          \/ k.does = "add" /\ task'[t] = NoTask
          \/ k.does = "remove" /\ task'[t].does = "close" /\ task'[t].player = k.player
      <3>1. k.at < 4 => k.at + 1 \in 1 .. 4
        BY <2>1
      <3> HIDE DEF k
      <3> QED BY <2>1, <3>1, NextTaskIs
    <2>3. UNCHANGED <<phase, fd, owner, table, sink>>
          /\ ("table" \in overlap' <=> "table" \in overlap)
      BY <1>6 DEF Store
    <2> QED BY <1>1, <2>1, <2>2, <2>3, CountingSockets
  <1>7. ASSUME NEW s \in Streams, Close(s) \/ Clear(s) PROVE SocketInv'
    BY <1>1, <1>7, CloseSockets, ClearSockets
  <1>8. CASE UNCHANGED vars
    <2>1. TasksFit' /\ SinksHaveTheirOwn' /\ SocketsAreHeld'
      BY <1>8 DEF SocketInv, vars, TasksFit, IsCounting, SinksHaveTheirOwn, SocketsAreHeld
    <2>2. DroppedHaveSockets' /\ TableNamesPlayers' /\ DroppedIsClosed'
      BY <1>8 DEF SocketInv, vars, DroppedHaveSockets, TableNamesPlayers, DroppedIsClosed
    <2> QED BY <1>1, <2>1, <2>2 DEF SocketInv
  <1> QED BY <1>2, <1>3, <1>4, <1>5, <1>6, <1>7, <1>8 DEF Next

-----------------------------------------------------------------------------
(* Counters                                                                *)

LEMMA CountsAtStart == Init => CountInv
  <1>1. ASSUME Init PROVE CountInv
    <2>1. \A t \in Threads : task[t].does = "nothing"
      BY <1>1, TaskTypes DEF Init
    <2>2. LoadedIsCurrent
      BY <2>1 DEF LoadedIsCurrent, IsCounting
    <2>3. /\ Playing = {} /\ \A s \in Streams : sink[s] = {}
          /\ \A c \in AllCounters : Counted(c) = {}
      BY <1>1 DEF Init, Playing, Counted
    <2>4. \A c \in AllCounters : Owing(c) = {} /\ ~Owes(task["main"], c)
      BY <2>1, OwesNothing, ThreadsAre DEF Owing
    <2>5. SetsAreFinite
      BY <2>3, <2>4, FS_EmptySet DEF SetsAreFinite
    <2>6. \A c \in AllCounters : count[c] = 0
      BY <1>1 DEF Init
    <2>7. CountsAddUp
      BY <2>3, <2>4, <2>6, FS_EmptySet DEF CountsAddUp
    <2>8. RoomForPending
      BY <1>1, <2>3, FS_EmptySet, LimitAssumption DEF RoomForPending, Pending, Init
    <2> QED BY <2>2, <2>5, <2>7, <2>8 DEF CountInv
  <1> QED BY <1>1

(* Steps that touch no sink, no task and no counter                        *)
LEMMA IdleCounts ==
    ASSUME CountInv, UNCHANGED <<sink, task, count>>,
           "counter" \in overlap => "counter" \in overlap'
    PROVE  /\ LoadedIsCurrent' /\ SetsAreFinite' /\ CountsAddUp'
           /\ Playing' = Playing
  <1>1. /\ Playing' = Playing /\ \A c : Counted(c)' = Counted(c)
        /\ \A c : Owing(c)' = Owing(c)
    BY DEF Playing, Counted, Owing
  <1>2. LoadedIsCurrent'
    BY DEF CountInv, LoadedIsCurrent, IsCounting, Counter
  <1>3. SetsAreFinite' /\ CountsAddUp'
    BY <1>1 DEF CountInv, SetsAreFinite, CountsAddUp
  <1> QED BY <1>1, <1>2, <1>3

(* When the main loop is not adding, the server's counter counts at least  *)
(* the players in the sinks.                                               *)
LEMMA ServerCounts ==
    ASSUME TypeOK, CountInv, task["main"] = NoTask, "counter" \notin overlap
    PROVE  Cardinality(Playing) <= count["server"]
  <1>1. "server" \in AllCounters /\ "server" \notin Streams
    BY NamesAssumption DEF AllCounters
  <1>2. ~Owes(task["main"], "server")
    BY TaskTypes, OwesNothing
  <1>3. count["server"] + 0 = Cardinality(Counted("server")) + Cardinality(Owing("server"))
    BY <1>1, <1>2 DEF CountInv, CountsAddUp
  <1>4. Counted("server") = Playing
    BY <1>1 DEF Counted
  <1>5. Cardinality(Playing) \in Nat /\ Cardinality(Owing("server")) \in Nat
    BY <1>1, FS_CardinalityType DEF CountInv, SetsAreFinite
  <1>6. count["server"] + 0 = Cardinality(Playing) + Cardinality(Owing("server"))
    BY <1>3, <1>4
  <1>7. count["server"] \in Int
    BY <1>1 DEF TypeOK
  <1> QED BY <1>5, <1>6, <1>7

LEMMA AcceptCounts ==
    ASSUME TypeOK, CountInv, NEW p \in Players, Accept(p) \/ Refuse(p) \/ Leave(p)
    PROVE  CountInv'
  <1>1. /\ UNCHANGED <<sink, task, count, overlap>>
        /\ \E n \in {"connected", "refused", "gone"} : phase' = [phase EXCEPT ![p] = n]
    BY DEF Accept, Refuse, Leave
  <1>2. Pending' \subseteq Pending
    BY <1>1 DEF Pending, TypeOK
  <1>3. RoomForPending'
    BY <1>1, <1>2, IdleCounts DEF CountInv, RoomForPending
  <1> QED BY <1>1, <1>3, IdleCounts DEF CountInv

(* A player is admitted under the limit, and is the only one whose headers *)
(* are not written, or the overlap is recorded.                            *)
LEMMA AdmitCounts ==
    ASSUME TypeOK, CountInv, NEW p \in Players, Admit(p)
    PROVE  CountInv'
  <1>1. /\ UNCHANGED <<sink, task, count>> /\ task["main"] = NoTask
        /\ phase' = [phase EXCEPT ![p] = "admitted"]
        /\ overlap' = overlap \cup (IF Pending # {} THEN {"admission"} ELSE {})
        /\ ~(count["server"] >= MaxConnections)
    BY DEF Admit, Full
  <1>2. Pending' = Pending \cup {p}
    BY <1>1 DEF Pending, TypeOK
  <1>3. LoadedIsCurrent' /\ SetsAreFinite' /\ CountsAddUp' /\ Playing' = Playing
    BY <1>1, IdleCounts
  <1>4. ASSUME overlap' \cap {"admission", "counter"} = {}
        PROVE  /\ Cardinality(Playing) <= MaxConnections
               /\ \A q, r \in Pending' : q = r
               /\ Cardinality(Playing) < MaxConnections
    <2>1. Pending = {} /\ "counter" \notin overlap
      BY <1>1, <1>4
    <2>2. Cardinality(Playing) <= count["server"]
      BY <1>1, <2>1, ServerCounts
    <2>3. /\ Cardinality(Playing) \in Nat /\ count["server"] \in Int
          /\ MaxConnections \in Nat
      BY FS_CardinalityType, LimitAssumption
         DEF CountInv, SetsAreFinite, TypeOK, AllCounters
    <2> QED BY <1>1, <1>2, <2>1, <2>2, <2>3
  <1>5. RoomForPending'
    BY <1>3, <1>4 DEF RoomForPending
  <1> QED BY <1>3, <1>5 DEF CountInv

(* A player whose headers are written is in a sink, and the main loop owes *)
(* it to each of its counters.                                             *)
LEMMA WroteHeadersCounts ==
    ASSUME SocketInv, CountInv, NEW p \in Players, WroteHeaders(p)
    PROVE  CountInv'
  <1> DEFINE k == Counting("add", p)
             s == Want[p]
  <1>1. /\ task["main"] = NoTask /\ phase[p] = "admitted"
        /\ phase' = [phase EXCEPT ![p] = "playing"]
        /\ sink' = [sink EXCEPT ![s] = @ \cup {p}]
        /\ task' = [task EXCEPT !["main"] = k]
        /\ UNCHANGED <<fd, owner, count, overlap>>
    BY DEF WroteHeaders
  <1>2. s \in Streams
    BY WantAssumption
  <1>3. /\ \A r \in Streams : sink'[r] = IF r = s THEN sink[r] \cup {p} ELSE sink[r]
        /\ \A t \in Threads \ {"main"} : task'[t] = task[t]
        /\ task'["main"] = k
    BY <1>1, <1>2, ThreadsAre DEF SocketInv, TypeOK
  <1>4. Playing' = Playing \cup {p} /\ p \notin Playing /\ \A r \in Streams : p \notin sink[r]
    <2>1. \A r \in Streams : p \notin sink[r]
      BY <1>1 DEF SocketInv, SinksHaveTheirOwn
    <2>2. \A q : q \in Playing <=> \E r \in Streams : q \in sink[r]
      BY DEF Playing
    <2>3. \A q : q \in Playing' <=> \E r \in Streams : q \in sink'[r]
      BY DEF Playing
    <2>4. \A q : q \in Playing' <=> q \in Playing \/ q = p
      <3> HIDE DEF s
      <3>1. ASSUME NEW q, q \in Playing' PROVE q \in Playing \/ q = p
        <4>1. PICK r \in Streams : q \in sink'[r]
          BY <2>3, <3>1
        <4>2. q \in sink[r] \/ q = p
          BY <1>3, <4>1
        <4> QED BY <2>2, <4>2
      <3>2. ASSUME NEW q, q \in Playing \/ q = p PROVE q \in Playing'
        <4>1. p \in sink'[s]
          BY <1>2, <1>3
        <4>2. ASSUME NEW r \in Streams PROVE sink[r] \subseteq sink'[r]
          BY <1>3
        <4> QED BY <1>2, <2>2, <2>3, <3>2, <4>1, <4>2
      <3> QED BY <3>1, <3>2
    <2> QED BY <2>1, <2>2, <2>4
  <1>5. \A c \in AllCounters : /\ Owing(c)' = Owing(c)
                               /\ ~Owes(task["main"], c)
                               /\ Owes(task'["main"], c) <=> (c \in Streams => c = s)
    BY <1>1, <1>3, ThreadsAre, TaskTypes, OwesNothing, OwesAtFirst DEF Owing
  <1>6. \A c \in AllCounters :
           /\ p \notin Counted(c)
           /\ Counted(c)' = IF c \in Streams => c = s THEN Counted(c) \cup {p} ELSE Counted(c)
    BY <1>2, <1>3, <1>4 DEF Counted
  <1>7. \A c \in AllCounters : IsFiniteSet(Counted(c))
    BY DEF Counted, CountInv, SetsAreFinite
  <1>8. SetsAreFinite'
    <2>1. IsFiniteSet(Playing')
      BY <1>4, FS_AddElement DEF CountInv, SetsAreFinite
    <2>2. \A r \in Streams : IsFiniteSet(sink'[r])
      <3> SUFFICES ASSUME NEW r \in Streams PROVE IsFiniteSet(sink'[r])
        OBVIOUS
      <3>1. IsFiniteSet(sink[r])
        BY DEF CountInv, SetsAreFinite
      <3>2. IsFiniteSet(sink[r] \cup {p})
        BY <3>1, FS_AddElement
      <3> QED BY <1>3, <3>1, <3>2
    <2> QED BY <1>5, <2>1, <2>2 DEF CountInv, SetsAreFinite
  <1>9. CountsAddUp'
    <2> SUFFICES ASSUME "counter" \notin overlap, NEW c \in AllCounters
                 PROVE  count[c] + (IF Owes(task'["main"], c) THEN 1 ELSE 0)
                            = Cardinality(Counted(c)') + Cardinality(Owing(c)')
      BY <1>1 DEF CountsAddUp
    <2>1. count[c] + 0 = Cardinality(Counted(c)) + Cardinality(Owing(c))
      BY <1>5 DEF CountInv, CountsAddUp
    <2>2. /\ Cardinality(Counted(c)) \in Nat /\ Cardinality(Owing(c)) \in Nat
          /\ count[c] \in Int
      BY <1>7, FS_CardinalityType DEF CountInv, SetsAreFinite, SocketInv, TypeOK
    <2>3. CASE c \in Streams => c = s
      <3>1. Cardinality(Counted(c)') = Cardinality(Counted(c)) + 1
        BY <1>6, <1>7, <2>3, FS_AddElement
      <3> QED BY <1>5, <2>1, <2>2, <2>3, <3>1
    <2>4. CASE ~(c \in Streams => c = s)
      <3>1. Counted(c)' = Counted(c)
        BY <1>6, <2>4
      <3> QED BY <1>5, <2>1, <2>2, <2>4, <3>1
    <2> QED BY <2>3, <2>4
  <1>10. LoadedIsCurrent'
    <2> SUFFICES ASSUME "counter" \notin overlap, NEW t \in Threads,
                        task'[t].does \in {"add", "remove"}, task'[t].loaded
                 PROVE  task'[t].value = count[Counter(t)']
      BY <1>1 DEF LoadedIsCurrent, IsCounting
    <2>1. t # "main"
      BY <1>3, TaskTypes
    <2>2. task'[t] = task[t] /\ Counter(t)' = Counter(t)
      BY <1>3, <2>1 DEF Counter
    <2> QED BY <2>2 DEF CountInv, LoadedIsCurrent, IsCounting
  <1>11. RoomForPending'
    <2> SUFFICES ASSUME overlap \cap {"admission", "counter"} = {}
                 PROVE  /\ Cardinality(Playing') <= MaxConnections
                        /\ \A q, r \in Pending' : q = r
                        /\ Pending' # {} => Cardinality(Playing') < MaxConnections
      BY <1>1 DEF RoomForPending
    <2>1. p \in Pending /\ Pending' = Pending \ {p}
      BY <1>1 DEF Pending, SocketInv, TypeOK
    <2>2. /\ \A q, r \in Pending : q = r
          /\ Cardinality(Playing) < MaxConnections
      BY <2>1 DEF CountInv, RoomForPending
    <2>3. /\ Cardinality(Playing) \in Nat /\ MaxConnections \in Nat
          /\ Cardinality(Playing') = Cardinality(Playing) + 1
      BY <1>4, FS_AddElement, FS_CardinalityType, LimitAssumption DEF CountInv, SetsAreFinite
    <2> QED BY <2>1, <2>2, <2>3
  <1> QED BY <1>8, <1>9, <1>10, <1>11 DEF CountInv

(* A player that is dropped is out of the sink, and the streaming thread   *)
(* owes it to each of its counters.                                        *)
LEMMA DropCounts ==
    ASSUME SocketInv, CountInv, NEW s \in Streams, NEW p \in Players, Drop(s, p)
    PROVE  CountInv'
  <1> DEFINE k == Counting("remove", p)
  <1>1. /\ task[s] = NoTask /\ p \in sink[s]
        /\ sink' = [sink EXCEPT ![s] = @ \ {p}]
        /\ task' = [task EXCEPT ![s] = k]
        /\ UNCHANGED <<phase, fd, owner, table, count, overlap>>
    BY DEF Drop
  <1>2. s \in Threads /\ s # "main" /\ Want[p] = s
    BY <1>1, ThreadsAre DEF SocketInv, SinksHaveTheirOwn
  <1>3. /\ \A r \in Streams : sink'[r] = IF r = s THEN sink[r] \ {p} ELSE sink[r]
        /\ \A t \in Threads \ {s} : task'[t] = task[t]
        /\ task'[s] = k
    BY <1>1, <1>2 DEF SocketInv, TypeOK
  <1>4. /\ Playing' = Playing \ {p} /\ p \in Playing
        /\ \A r \in Streams \ {s} : p \notin sink[r]
    <2>1. \A r \in Streams \ {s} : p \notin sink[r]
      BY <1>2 DEF SocketInv, SinksHaveTheirOwn
    <2> QED BY <1>1, <1>3, <2>1 DEF Playing
  <1>5. \A c \in AllCounters :
           /\ Owing(c)' = IF c \in Streams => c = s THEN Owing(c) \cup {s} ELSE Owing(c)
           /\ s \notin Owing(c)
           /\ Owes(task'["main"], c) = Owes(task["main"], c)
    <2>1. \A c \in AllCounters : /\ ~Owes(task[s], c)
                                 /\ Owes(task'[s], c) <=> (c \in Streams => c = s)
      BY <1>1, <1>2, <1>3, TaskTypes, OwesNothing, OwesAtFirst
    <2>2. task'["main"] = task["main"] /\ \A r \in Streams \ {s} : task'[r] = task[r]
      BY <1>2, <1>3, ThreadsAre
    <2> QED BY <2>1, <2>2 DEF Owing
  <1>6. \A c \in AllCounters :
           /\ (c \in Streams => c = s) => p \in Counted(c) /\ Counted(c)' = Counted(c) \ {p}
           /\ ~(c \in Streams => c = s) => Counted(c)' = Counted(c)
    BY <1>1, <1>3, <1>4 DEF Counted
  <1>7. \A c \in AllCounters : IsFiniteSet(Counted(c)) /\ IsFiniteSet(Owing(c))
    BY DEF Counted, CountInv, SetsAreFinite
  <1>8. SetsAreFinite'
    <2>1. IsFiniteSet(Playing')
      BY <1>4, FS_RemoveElement DEF CountInv, SetsAreFinite
    <2>2. \A r \in Streams : IsFiniteSet(sink'[r])
      <3> SUFFICES ASSUME NEW r \in Streams PROVE IsFiniteSet(sink'[r])
        OBVIOUS
      <3>1. IsFiniteSet(sink[r])
        BY DEF CountInv, SetsAreFinite
      <3>2. IsFiniteSet(sink[r] \ {p})
        BY <3>1, FS_RemoveElement
      <3> QED BY <1>3, <3>1, <3>2
    <2>3. \A c \in AllCounters : IsFiniteSet(Owing(c)')
      BY <1>5, <1>7, FS_AddElement
    <2> QED BY <2>1, <2>2, <2>3 DEF SetsAreFinite
  <1>9. CountsAddUp'
    <2> SUFFICES ASSUME "counter" \notin overlap, NEW c \in AllCounters
                 PROVE  count[c] + (IF Owes(task'["main"], c) THEN 1 ELSE 0)
                            = Cardinality(Counted(c)') + Cardinality(Owing(c)')
      BY <1>1 DEF CountsAddUp
    <2>1. count[c] + (IF Owes(task'["main"], c) THEN 1 ELSE 0)
             = Cardinality(Counted(c)) + Cardinality(Owing(c))
      BY <1>5 DEF CountInv, CountsAddUp
    <2>2. Cardinality(Counted(c)) \in Nat /\ Cardinality(Owing(c)) \in Nat
      BY <1>7, FS_CardinalityType
    <2>3. CASE c \in Streams => c = s
      <3>1. Cardinality(Counted(c)') = Cardinality(Counted(c)) - 1
        BY <1>6, <1>7, <2>3, FS_RemoveElement
      <3>2. Cardinality(Owing(c)') = Cardinality(Owing(c)) + 1
        BY <1>5, <1>7, <2>3, FS_AddElement
      <3> QED BY <2>1, <2>2, <3>1, <3>2
    <2>4. CASE ~(c \in Streams => c = s)
      <3>1. Counted(c)' = Counted(c) /\ Owing(c)' = Owing(c)
        BY <1>5, <1>6, <2>4
      <3> QED BY <2>1, <3>1
    <2> QED BY <2>3, <2>4
  <1>10. LoadedIsCurrent'
    <2> SUFFICES ASSUME "counter" \notin overlap, NEW t \in Threads,
                        task'[t].does \in {"add", "remove"}, task'[t].loaded
                 PROVE  task'[t].value = count[Counter(t)']
      BY <1>1 DEF LoadedIsCurrent, IsCounting
    <2>1. t # s
      BY <1>3, TaskTypes
    <2>2. task'[t] = task[t] /\ Counter(t)' = Counter(t)
      BY <1>3, <2>1 DEF Counter
    <2> QED BY <2>2 DEF CountInv, LoadedIsCurrent, IsCounting
  <1>11. RoomForPending'
    <2>1. Pending' = Pending
      BY <1>1 DEF Pending
    <2>2. /\ Cardinality(Playing) \in Nat /\ MaxConnections \in Nat
          /\ Cardinality(Playing') = Cardinality(Playing) - 1
      BY <1>4, FS_RemoveElement, FS_CardinalityType, LimitAssumption
         DEF CountInv, SetsAreFinite
    <2>3. Cardinality(Playing') < Cardinality(Playing)
      BY <2>2
    <2>4. Cardinality(Playing') \in Int
      BY <2>2
    <2> QED BY <1>1, <2>1, <2>2, <2>3, <2>4 DEF CountInv, RoomForPending
  <1> QED BY <1>8, <1>9, <1>10, <1>11 DEF CountInv

LEMMA LoadCounts ==
    ASSUME SocketInv, CountInv, NEW t \in Threads, Load(t)
    PROVE  CountInv'
  <1>1. /\ task'[t].does = task[t].does /\ task'[t].player = task[t].player
        /\ task'[t].at = task[t].at
        /\ task'[t].value = count[Counter(t)] /\ Counter(t)' = Counter(t)
        /\ \A u \in Threads \ {t} : task'[u] = task[u]
        /\ UNCHANGED <<phase, sink, count, overlap>>
    BY LoadIs DEF SocketInv
  <1>2. \A u \in Threads : \A c : Owes(task'[u], c) <=> Owes(task[u], c)
    BY <1>1 DEF Owes
  <1>3. \A c : Owing(c)' = Owing(c) /\ (Owes(task["main"], c)' <=> Owes(task["main"], c))
    BY <1>2, ThreadsAre DEF Owing
  <1>4. Playing' = Playing /\ (\A c : Counted(c)' = Counted(c)) /\ Pending' = Pending
    BY <1>1 DEF Playing, Counted, Pending
  <1>5. SetsAreFinite' /\ CountsAddUp' /\ RoomForPending'
    BY <1>1, <1>3, <1>4 DEF CountInv, SetsAreFinite, CountsAddUp, RoomForPending
  <1>6. LoadedIsCurrent'
    <2> SUFFICES ASSUME "counter" \notin overlap, NEW u \in Threads,
                        task'[u].does \in {"add", "remove"}, task'[u].loaded
                 PROVE  task'[u].value = count[Counter(u)']
      BY <1>1 DEF LoadedIsCurrent, IsCounting
    <2>1. CASE u = t
      BY <1>1, <2>1
    <2>2. CASE u # t
      <3>1. task'[u] = task[u] /\ Counter(u)' = Counter(u)
        BY <1>1, <2>2 DEF Counter
      <3> QED BY <3>1 DEF CountInv, LoadedIsCurrent, IsCounting
    <2> QED BY <2>1, <2>2
  <1> QED BY <1>5, <1>6 DEF CountInv

(* A store pays one counter, rightly if it was loaded and stored without   *)
(* another thread between.                                                 *)
LEMMA StoreCounts ==
    ASSUME SocketInv, CountInv, NEW t \in Threads, Store(t)
    PROVE  CountInv'
  <1> DEFINE k == task[t]
             d == Counter(t)
  <1>1. /\ k \in Task /\ k.does \in {"add", "remove"} /\ k.loaded
        /\ k.player \in Players /\ k.at \in 1 .. 4
        /\ d = Counters(Want[k.player])[k.at] /\ d \in AllCounters
        /\ task'[t] = NextTask(k)
        /\ \A u \in Threads \ {t} : task'[u] = task[u]
        /\ count'[d] = k.value + (IF k.does = "add" THEN 1 ELSE -1)
        /\ \A c \in AllCounters \ {d} : count'[c] = count[c]
    BY StoreIs DEF SocketInv
  <1>2. /\ UNCHANGED <<phase, fd, owner, table, sink>>
        /\ overlap \subseteq overlap'
        /\ "admission" \in overlap' <=> "admission" \in overlap
        /\ "counter" \notin overlap' =>
              \A u \in Threads \ {t} : IsCounting(u) /\ task[u].loaded => Counter(u) # d
    BY DEF Store
  <1>3. \/ t = "main" /\ k.does = "add"
        \/ t \in Streams /\ t # "main" /\ k.does = "remove"
    <2>1. k.does = "add" => t = "main"
      BY DEF SocketInv, TasksFit
    <2>2. k.does = "remove" => t \in Streams
      BY DEF SocketInv, TasksFit
    <2>3. k.does = "add" \/ k.does = "remove"
      BY <1>1
    <2>4. t \in Streams => t # "main"
      BY ThreadsAre
    <2> HIDE DEF k
    <2> QED BY <2>1, <2>2, <2>3, <2>4
  <1>4. ASSUME NEW c \in AllCounters
        PROVE  /\ Owes(k, d) /\ ~Owes(NextTask(k), d)
               /\ c # d => (Owes(NextTask(k), c) <=> Owes(k, c))
    BY <1>1, OwesNext
  <1>5. NextTask(k).loaded = FALSE
    BY <1>1, NextTaskIs
  <1>6. /\ Playing' = Playing /\ Pending' = Pending
        /\ \A c \in AllCounters : Counted(c)' = Counted(c)
    BY <1>2 DEF Playing, Pending, Counted
  <1>7. \A c \in AllCounters : IsFiniteSet(Counted(c)) /\ IsFiniteSet(Owing(c))
    BY DEF Counted, CountInv, SetsAreFinite
  <1>8. LoadedIsCurrent'
    <2> SUFFICES ASSUME "counter" \notin overlap', NEW u \in Threads,
                        task'[u].does \in {"add", "remove"}, task'[u].loaded
                 PROVE  task'[u].value = count'[Counter(u)']
      BY DEF LoadedIsCurrent, IsCounting
    <2>1. u # t
      BY <1>1, <1>5
    <2>2. task'[u] = task[u] /\ Counter(u)' = Counter(u)
      BY <1>1, <2>1 DEF Counter
    <2>3. Counter(u) # d /\ "counter" \notin overlap
      BY <1>2, <2>1, <2>2 DEF IsCounting
    <2>4. task[u].value = count[Counter(u)]
      BY <2>2, <2>3 DEF CountInv, LoadedIsCurrent, IsCounting
    <2>5. Counter(u) \in AllCounters
      <3>1. task[u].player \in Players /\ task[u].at \in 1 .. 4
        BY <2>2 DEF SocketInv, TasksFit, IsCounting
      <3> QED BY <3>1, CountersAre, WantAssumption DEF Counter
    <2> QED BY <1>1, <2>2, <2>3, <2>4, <2>5
  <1> HIDE DEF d
  <1>9. CASE t = "main" /\ k.does = "add"
    <2>1. \A c \in AllCounters : Owing(c)' = Owing(c)
      <3>1. \A r \in Streams : task'[r] = task[r]
        BY <1>1, <1>9, ThreadsAre
      <3> QED BY <3>1 DEF Owing
    <2>2. SetsAreFinite'
      BY <1>2, <1>6, <2>1 DEF CountInv, SetsAreFinite
    <2>3. CountsAddUp'
      <3> SUFFICES ASSUME "counter" \notin overlap', NEW c \in AllCounters
                   PROVE  count'[c] + (IF Owes(task'["main"], c) THEN 1 ELSE 0)
                              = Cardinality(Counted(c)) + Cardinality(Owing(c))
        BY <1>6, <2>1 DEF CountsAddUp
      <3>1. /\ "counter" \notin overlap
            /\ count[c] + (IF Owes(task["main"], c) THEN 1 ELSE 0)
                 = Cardinality(Counted(c)) + Cardinality(Owing(c))
        BY <1>2 DEF CountInv, CountsAddUp
      <3>2. CASE c = d
        <4>1. k.value = count[d] /\ count[d] \in Int
          BY <1>1, <3>1 DEF CountInv, LoadedIsCurrent, IsCounting, d, SocketInv, TypeOK
        <4>2. count'[c] = count[c] + 1
          BY <1>1, <1>9, <3>2, <4>1
        <4>3. Owes(task["main"], c) /\ ~Owes(task'["main"], c)
          BY <1>1, <1>4, <1>9, <3>2
        <4> QED BY <3>1, <3>2, <4>1, <4>2, <4>3
      <3>3. CASE c # d
        BY <1>1, <1>4, <1>9, <3>1, <3>3
      <3> QED BY <3>2, <3>3
    <2> QED BY <1>2, <1>6, <1>8, <2>2, <2>3 DEF CountInv, RoomForPending
  <1>10. CASE t \in Streams /\ t # "main" /\ k.does = "remove"
    <2>1. \A c \in AllCounters : Owing(c)' = IF c = d THEN Owing(c) \ {t} ELSE Owing(c)
      <3>1. \A r \in Streams \ {t} : task'[r] = task[r]
        BY <1>1, ThreadsAre
      <3> QED BY <1>1, <1>4, <1>10, <3>1 DEF Owing
    <2>2. t \in Owing(d) /\ task'["main"] = task["main"]
      BY <1>1, <1>4, <1>10, ThreadsAre DEF Owing
    <2>3. SetsAreFinite'
      <3>1. \A c \in AllCounters : IsFiniteSet(Owing(c)')
        BY <1>7, <2>1, FS_RemoveElement
      <3> QED BY <1>2, <1>6, <3>1 DEF CountInv, SetsAreFinite
    <2>4. CountsAddUp'
      <3> SUFFICES ASSUME "counter" \notin overlap', NEW c \in AllCounters
                   PROVE  count'[c] + (IF Owes(task["main"], c) THEN 1 ELSE 0)
                              = Cardinality(Counted(c)) + Cardinality(Owing(c)')
        BY <1>6, <2>2 DEF CountsAddUp
      <3>1. /\ "counter" \notin overlap
            /\ count[c] + (IF Owes(task["main"], c) THEN 1 ELSE 0)
                 = Cardinality(Counted(c)) + Cardinality(Owing(c))
        BY <1>2 DEF CountInv, CountsAddUp
      <3>2. CASE c = d
        <4>1. k.value = count[d] /\ count[d] \in Int
          BY <1>1, <3>1 DEF CountInv, LoadedIsCurrent, IsCounting, d, SocketInv, TypeOK
        <4>2. count'[c] = count[c] - 1
          BY <1>1, <1>10, <3>2, <4>1
        <4>3. /\ Cardinality(Owing(c)') = Cardinality(Owing(c)) - 1
              /\ Cardinality(Owing(c)) \in Nat /\ Cardinality(Counted(c)) \in Nat
          BY <1>7, <2>1, <2>2, <3>2, FS_RemoveElement, FS_CardinalityType
        <4> DEFINE x == IF Owes(task["main"], c) THEN 1 ELSE 0
        <4>4. x \in Int /\ count[c] \in Int
          BY <3>2, <4>1
        <4>5. count[c] + x = Cardinality(Counted(c)) + Cardinality(Owing(c))
          BY <3>1
        <4>6. count'[c] + x = Cardinality(Counted(c)) + Cardinality(Owing(c)')
          <5> HIDE DEF x
          <5> QED BY ONLY <4>2, <4>3, <4>4, <4>5
        <4> QED BY <4>6
      <3>3. CASE c # d
        BY <1>1, <2>1, <3>1, <3>3
      <3> QED BY <3>2, <3>3
    <2> QED BY <1>2, <1>6, <1>8, <2>3, <2>4 DEF CountInv, RoomForPending
  <1> QED BY <1>3, <1>9, <1>10

(* Closing and clearing come after the counters.                           *)
LEMMA CloseCounts ==
    ASSUME SocketInv, CountInv, NEW s \in Streams, Close(s) \/ Clear(s)
    PROVE  CountInv'
  <1>1. /\ task[s].does \in {"close", "clear"} /\ s \in Threads /\ s # "main"
        /\ UNCHANGED <<fd, sink, count>>
        /\ "admission" \in overlap' <=> "admission" \in overlap
        /\ "counter" \in overlap' <=> "counter" \in overlap
    BY ThreadsAre DEF Close, Clear
  <1>2. /\ \A u \in Threads \ {s} : task'[u] = task[u]
        /\ task'[s].does \in {"clear", "nothing"}
    BY <1>1, TaskTypes DEF Close, Clear, SocketInv, TypeOK, Task
  <1>3. task'["main"] = task["main"] /\ \A r \in Streams \ {s} : task'[r] = task[r]
    BY <1>1, <1>2, ThreadsAre
  <1>4. \A c : Owing(c)' = Owing(c)
    BY <1>1, <1>2, <1>3, OwesNothing DEF Owing
  <1>5. Playing' = Playing /\ \A c : Counted(c)' = Counted(c)
    BY <1>1 DEF Playing, Counted
  <1>6. SetsAreFinite' /\ CountsAddUp'
    BY <1>1, <1>3, <1>4, <1>5 DEF CountInv, SetsAreFinite, CountsAddUp
  <1>7. LoadedIsCurrent'
    <2> SUFFICES ASSUME "counter" \notin overlap, NEW u \in Threads,
                        task'[u].does \in {"add", "remove"}, task'[u].loaded
                 PROVE  task'[u].value = count[Counter(u)']
      BY <1>1 DEF LoadedIsCurrent, IsCounting
    <2>1. u # s
      BY <1>2
    <2>2. task'[u] = task[u] /\ Counter(u)' = Counter(u)
      BY <1>2, <2>1 DEF Counter
    <2> QED BY <2>2 DEF CountInv, LoadedIsCurrent, IsCounting
  <1>8. Pending' \subseteq Pending
    <2> SUFFICES ASSUME NEW q \in Players, phase'[q] = "admitted"
                 PROVE  phase[q] = "admitted"
      BY DEF Pending
    <2> QED BY DEF Close, Clear, SocketInv, TypeOK
  <1>9. RoomForPending'
    BY <1>1, <1>5, <1>8 DEF CountInv, RoomForPending
  <1> QED BY <1>6, <1>7, <1>9 DEF CountInv

LEMMA CountsKept ==
    ASSUME SocketInv, CountInv, [Next]_vars
    PROVE  CountInv'
  <1>1. TypeOK
    BY DEF SocketInv
  <1>2. ASSUME NEW p \in Players, Accept(p) \/ Admit(p) \/ Refuse(p) \/ Leave(p)
        PROVE  CountInv'
    BY <1>1, <1>2, AcceptCounts, AdmitCounts
  <1>3. ASSUME NEW p \in Players, WroteHeaders(p) PROVE CountInv'
    BY <1>3, WroteHeadersCounts
  <1>4. ASSUME NEW s \in Streams, NEW p \in Players, Drop(s, p) PROVE CountInv'
    BY <1>4, DropCounts
  <1>5. ASSUME NEW t \in Threads, Load(t) \/ Store(t) PROVE CountInv'
    BY <1>5, LoadCounts, StoreCounts
  <1>6. ASSUME NEW s \in Streams, Close(s) \/ Clear(s) PROVE CountInv'
    BY <1>6, CloseCounts
  <1>7. CASE UNCHANGED vars
    <2>1. UNCHANGED <<sink, task, count, overlap>> /\ Pending' = Pending
      BY <1>7 DEF vars, Pending
    <2> QED BY <2>1, IdleCounts DEF CountInv, RoomForPending
  <1> QED BY <1>2, <1>3, <1>4, <1>5, <1>6, <1>7 DEF Next

-----------------------------------------------------------------------------
(* Sockets, counters and tasks agree after every step of the main loop and *)
(* of the streaming threads.                                               *)
THEOREM Inductive == Spec => []IInv
  <1>1. Init => IInv
    BY SocketsAtStart, CountsAtStart DEF IInv
  <1>2. IInv /\ [Next]_vars => IInv'
    BY SocketsKept, CountsKept DEF IInv
  <1> QED BY <1>1, <1>2, PTL DEF Spec

(* The streaming thread disconnects no socket but that of the player it    *)
(* drops (gss_stream_fd_table), and a counter counts the players in the    *)
(* sinks when no update is under way (msg_wrote_headers, client_removed),  *)
(* but for the two races that are recorded.                                *)
THEOREM ClientsCorrect == Spec => []ClientsAreSound
  <1>1. IInv => ClientsAreSound
    <2> SUFFICES ASSUME IInv PROVE ClientsAreSound
      OBVIOUS
    <2>1. TypeOK /\ DroppedIsClosed
      BY DEF IInv, SocketInv
    <2>2. CountersAreRight
      <3> SUFFICES ASSUME "counter" \notin overlap, \A t \in Threads : ~IsCounting(t),
                          NEW c \in AllCounters
                   PROVE  count[c] = Cardinality(Counted(c))
        BY DEF CountersAreRight
      <3>1. Owing(c) = {} /\ ~Owes(task["main"], c)
        BY ThreadsAre DEF Owing, Owes, IsCounting
      <3>2. count[c] + 0 = Cardinality(Counted(c)) + 0
        BY <3>1, FS_EmptySet DEF IInv, CountInv, CountsAddUp
      <3>3. IsFiniteSet(Counted(c)) /\ count[c] \in Int
        BY <2>1 DEF Counted, IInv, CountInv, SetsAreFinite, TypeOK
      <3> QED BY <3>2, <3>3, FS_CardinalityType
    <2>3. ClosesItsOwnSocket
      BY ThreadsAre DEF IInv, SocketInv, TasksFit, DroppedHaveSockets, TableNamesPlayers,
                        ClosesItsOwnSocket
    <2> QED BY <2>1, <2>2, <2>3 DEF ClientsAreSound, SocketsAreRight
  <1> QED BY <1>1, Inductive, PTL

(* No more players than max_connections are in the sinks, unless one was   *)
(* admitted before the headers of another were written (stream_resource).  *)
THEOREM LimitCorrect == Spec => []LimitHolds
  <1>1. IInv => LimitHolds
    BY DEF IInv, CountInv, RoomForPending, LimitHolds
  <1> QED BY <1>1, Inductive, PTL
=============================================================================
