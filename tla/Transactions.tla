---------------------------- MODULE Transactions ----------------------------
(***************************************************************************)
(* Requests answered by a worker thread (gss-transaction.c), as the        *)
(* adaptive streaming handlers use it (gss-adaptive.c).                    *)
(*                                                                         *)
(* The handler of a request runs in the main loop: it pauses the message   *)
(* and pushes the transaction on the queue.  A worker pops it, fills the   *)
(* body and adds an idle source; the idle source, in the main loop again,  *)
(* completes and unpauses the message.  The transaction is freed when the  *)
(* message has been sent.  At the end of main() the server object goes     *)
(* away first and the workers are stopped after it.                        *)
(***************************************************************************)
EXTENDS Integers, Sequences, FiniteSets

CONSTANTS Requests,  \* the requests that can be made (bound)
          Workers,   \* the worker threads: ASYNC_THREADS of them
          Waiting,   \* a worker in g_async_queue_pop
          Exited,    \* a worker that has called g_thread_exit
          Poison     \* the fake transaction without a server

ASSUME WorkersAssumption == IsFiniteSet(Workers) /\ Workers # {}
ASSUME ValuesAssumption == /\ {Waiting, Exited, Poison} \cap Requests = {}
                           /\ Waiting # Exited

VARIABLES main,    \* where main() is
          msg,     \* state of each SoupMessage
          freed,   \* transactions that gss_transaction_free has released
          queue,   \* async_queue
          worker,  \* what each worker holds
          idle,    \* pending gss_transaction_async_finish sources
          body,    \* requests whose response body has been filled in
          wild     \* freed memory has been used: anything may follow

vars == <<main, msg, freed, queue, worker, idle, body, wild>>

Init ==
    /\ main = "running"
    /\ msg = [r \in Requests |-> "new"]
    /\ freed = {}
    /\ queue = <<>>
    /\ worker = [w \in Workers |-> Waiting]
    /\ idle = <<>>
    /\ body = {}
    /\ wild = FALSE

-----------------------------------------------------------------------------
RequestUnpaused(r) ==  \* a mutant: soup_server_pause_message is forgotten
    /\ main = "running"
    /\ msg[r] = "new"
    /\ msg' = [msg EXCEPT ![r] = "sending"]
    /\ queue' = Append(queue, r)
    /\ UNCHANGED <<main, freed, worker, idle, body, wild>>

(* A handler that needs the worker: pause, gss_transaction_process_async.  *)
Request(r) ==
    /\ main = "running"
    /\ msg[r] = "new"
    /\ msg' = [msg EXCEPT ![r] = "paused"]
    /\ queue' = Append(queue, r)
    /\ UNCHANGED <<main, freed, worker, idle, body, wild>>

PopBlind(w) ==  \* a mutant: t->server is not looked at
    /\ worker[w] = Waiting
    /\ queue # <<>>
    /\ queue' = Tail(queue)
    /\ worker' = [worker EXCEPT ![w] = Head(queue)]
    /\ wild' = (Head(queue) \in freed)
    /\ UNCHANGED <<main, msg, freed, idle, body>>

(* A worker pops a transaction and looks at its server.                    *)
Pop(w) ==
    /\ worker[w] = Waiting
    /\ queue # <<>>
    /\ queue' = Tail(queue)
    /\ worker' = [worker EXCEPT ![w] = IF Head(queue) = Poison THEN Exited
                                                               ELSE Head(queue)]
    /\ wild' = (Head(queue) \in freed)
    /\ UNCHANGED <<main, msg, freed, idle, body>>

ProcessSilently(w) ==  \* a mutant: no idle source is added
    /\ worker[w] \in Requests
    /\ worker' = [worker EXCEPT ![w] = Waiting]
    /\ body' = body \cup {worker[w]}
    /\ wild' = (worker[w] \in freed)
    /\ UNCHANGED <<main, msg, freed, queue, idle>>

(* t->process has filled the body; the main loop shall finish.             *)
Process(w) ==
    /\ worker[w] \in Requests
    /\ worker' = [worker EXCEPT ![w] = Waiting]
    /\ body' = body \cup {worker[w]}
    /\ idle' = Append(idle, worker[w])
    /\ wild' = (worker[w] \in freed)
    /\ UNCHANGED <<main, msg, freed, queue>>

FinishAgain ==  \* a mutant: the idle callback returns TRUE
    /\ main = "running"
    /\ idle # <<>>
    /\ msg' = [msg EXCEPT ![Head(idle)] = "sending"]
    /\ wild' = (Head(idle) \in freed)
    /\ UNCHANGED <<main, freed, queue, worker, idle, body>>

(* gss_transaction_async_finish: t->finish unpauses the message.           *)
Finish ==
    /\ main = "running"
    /\ idle # <<>>
    /\ idle' = Tail(idle)
    /\ msg' = [msg EXCEPT ![Head(idle)] = "sending"]
    /\ wild' = (Head(idle) \in freed)
    /\ UNCHANGED <<main, freed, queue, worker, body>>

(* The "finished" signal: the message has been sent, or its connection was *)
(* found closed.  libsoup does no I/O on a message while it is paused.     *)
Finished(r) ==
    /\ main = "running"
    /\ msg[r] = "sending"
    /\ msg' = [msg EXCEPT ![r] = "done"]
    /\ freed' = freed \cup {r}
    /\ UNCHANGED <<main, queue, worker, idle, body, wild>>

(* The main loop has quit and the server object is released: connections   *)
(* that are still open may be closed, which finishes their messages.       *)
ReleaseServer ==
    /\ main = "running"
    /\ main' = "released"
    /\ \E closed \in SUBSET {r \in Requests : msg[r] \in {"paused", "sending"}} :
          /\ msg' = [r \in Requests |-> IF r \in closed THEN "done" ELSE msg[r]]
          /\ freed' = freed \cup closed
    /\ UNCHANGED <<queue, worker, idle, body, wild>>

Poisons == [i \in 1 .. Cardinality(Workers) |-> Poison]

CleanupOne ==  \* a mutant: one poison whatever the number of workers
    /\ main = "released"
    /\ main' = "joining"
    /\ queue' = Append(queue, Poison)
    /\ UNCHANGED <<msg, freed, worker, idle, body, wild>>

(* _priv_gss_transaction_cleanup: one poison per worker, then join.        *)
Cleanup ==
    /\ main = "released"
    /\ main' = "joining"
    /\ queue' = queue \o Poisons
    /\ UNCHANGED <<msg, freed, worker, idle, body, wild>>

Joined ==
    /\ main = "joining"
    /\ \A w \in Workers : worker[w] = Exited
    /\ main' = "stopped"
    /\ UNCHANGED <<msg, freed, queue, worker, idle, body, wild>>

Next ==
    /\ ~wild
    /\ \/ \E r \in Requests : Request(r)
       \/ \E w \in Workers : Pop(w)
       \/ \E w \in Workers : Process(w)
       \/ Finish
       \/ \E r \in Requests : Finished(r)
       \/ ReleaseServer
       \/ Cleanup
       \/ Joined

Spec == Init /\ [][Next]_vars

(* Threads are scheduled and the main loop dispatches its idle sources;    *)
(* main() does not stop between the calls at its end.                      *)
Fairness ==
    /\ \A w \in Workers : WF_vars(~wild /\ Pop(w)) /\ WF_vars(~wild /\ Process(w))
    /\ WF_vars(~wild /\ Finish)
    /\ WF_vars(~wild /\ (Cleanup \/ Joined))

FairSpec == Spec /\ Fairness

-----------------------------------------------------------------------------
InQueue(r) == {i \in DOMAIN queue : queue[i] = r}
InIdle(r) == {i \in DOMAIN idle : idle[i] = r}
InHand(r) == {w \in Workers : worker[w] = r}
Places(r) == Cardinality(InQueue(r)) + Cardinality(InIdle(r)) + Cardinality(InHand(r))

TypeOK ==
    /\ main \in {"running", "released", "joining", "stopped"}
    /\ msg \in [Requests -> {"new", "paused", "sending", "done"}]
    /\ freed \subseteq Requests
    /\ queue \in Seq(Requests \cup {Poison})
    /\ worker \in [Workers -> Requests \cup {Waiting, Exited}]
    /\ idle \in Seq(Requests)
    /\ body \subseteq Requests
    /\ wild \in BOOLEAN

(* While the server runs, a paused message is in exactly one place: in the *)
(* queue, in the hands of one worker, or in one idle source.  None is lost *)
(* and none is finished twice.                                             *)
PausedIsInOnePlace ==
    main = "running" =>
        \A r \in Requests : Places(r) = IF msg[r] = "paused" THEN 1 ELSE 0

(* While the server runs nobody uses a transaction that has been freed:    *)
(* the worker holds a bare pointer and takes no reference.                 *)
FreedIsNotUsed ==
    main = "running" =>
        /\ ~wild
        /\ \A r \in freed : Places(r) = 0

(* What the player receives is complete: no message goes out before the    *)
(* worker has filled its body.                                             *)
AnswersAreComplete ==
    main = "running" =>
        \A r \in Requests : msg[r] \in {"sending", "done"} => r \in body

(* Each request is answered once, with all of its body.                    *)
OneCompleteAnswer == PausedIsInOnePlace /\ AnswersAreComplete

(* Every request handed to the workers is answered unless the server stops.*)
EveryRequestIsAnswered ==
    \A r \in Requests : msg[r] = "paused" ~> msg[r] = "sending" \/ main # "running"

(* The join at the end of main() returns.                                  *)
ShutdownReturns == main = "released" ~> main = "stopped" \/ wild
=============================================================================
