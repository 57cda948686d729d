------------------------ MODULE VideoOnDemand_proofs ------------------------
(***************************************************************************)
(* Proofs about Transactions and about VideoOnDemand, which extends it.    *)
(*                                                                         *)
(* Transactions, for any set of requests and any finite set of workers:    *)
(* what the properties say with cardinalities follows from an inductive    *)
(* invariant that says it with sets of places.                             *)
(*                                                                         *)
(* VideoOnDemand, for any archive, any set of URLs, any requests and       *)
(* workers: every step is one of Transactions or leaves it alone, so its   *)
(* invariant holds here too; to it come what the cache keeps, what         *)
(* requests have found in it, and what they have been answered.            *)
(***************************************************************************)
EXTENDS VideoOnDemand, FiniteSetTheorems, SequenceTheorems, TLAPS

-----------------------------------------------------------------------------
(* Requests and workers                                                    *)

(* Where an element is in a sequence                                       *)
At(q, r) == {i \in DOMAIN q : q[i] = r}
AtMostOne(S) == \A x, y \in S : x = y

(* A request is in at most one place, and in one exactly if it is paused.  *)
HasItsPlace(r) ==
    /\ AtMostOne(At(queue, r))
    /\ AtMostOne(At(idle, r))
    /\ AtMostOne(InHand(r))
    /\ At(queue, r) = {} \/ At(idle, r) = {}
    /\ At(queue, r) = {} \/ InHand(r) = {}
    /\ At(idle, r) = {} \/ InHand(r) = {}
    /\ msg[r] = "paused" <=>
          ~(At(queue, r) = {} /\ At(idle, r) = {} /\ InHand(r) = {})

PlacesAreDistinct == main = "running" => \A r \in Requests : HasItsPlace(r)

(* Exactly the transactions of finished messages are freed.                *)
DoneIsFreed ==
    main = "running" => ~wild /\ \A r \in Requests : r \in freed <=> msg[r] = "done"

(* The body is there from the moment the idle source is added.             *)
BodyIsFilled ==
    main = "running" => \A r \in Requests :
        At(idle, r) # {} \/ msg[r] \in {"sending", "done"} => r \in body

IInv == TypeOK /\ PlacesAreDistinct /\ DoneIsFreed /\ BodyIsFilled

-----------------------------------------------------------------------------
(* Where an element is after another one has been appended.                *)
LEMMA AppendAt ==
    ASSUME NEW S, NEW q \in Seq(S), NEW e \in S, NEW r
    PROVE  /\ e # r => At(Append(q, e), r) = At(q, r)
           /\ e = r => At(Append(q, e), r) = At(q, r) \cup {Len(q) + 1}
  <1>1. /\ DOMAIN Append(q, e) = 1 .. Len(q) + 1
        /\ DOMAIN q = 1 .. Len(q)
        /\ Len(q) \in Nat
        /\ \A i \in 1 .. Len(q) : Append(q, e)[i] = q[i]
        /\ Append(q, e)[Len(q) + 1] = e
    BY AppendProperties, LenProperties
  <1> QED BY <1>1 DEF At

(* Where an element is after the first one has been taken away.            *)
LEMMA TailAt ==
    ASSUME NEW S, NEW q \in Seq(S), q # <<>>, NEW r
    PROVE  /\ AtMostOne(At(q, r)) => AtMostOne(At(Tail(q), r))
           /\ At(q, r) = {} => At(Tail(q), r) = {}
           /\ Head(q) = r /\ AtMostOne(At(q, r)) => At(Tail(q), r) = {}
           /\ Head(q) # r => (At(Tail(q), r) = {} <=> At(q, r) = {})
           /\ Head(q) = r => At(q, r) # {}
  <1>1. /\ DOMAIN q = 1 .. Len(q)
        /\ Len(q) \in Nat \ {0}
        /\ Head(q) = q[1]
        /\ DOMAIN Tail(q) = 1 .. Len(q) - 1
        /\ \A i \in 1 .. Len(q) - 1 : Tail(q)[i] = q[i + 1]
    BY HeadTailProperties, LenProperties, EmptySeq
  <1>2. \A i \in At(Tail(q), r) : i \in Nat \ {0} /\ i + 1 \in At(q, r)
    BY <1>1 DEF At
  <1>3. \A i \in At(q, r) : i = 1 \/ (i \in Nat \ {0, 1} /\ i - 1 \in At(Tail(q), r))
    BY <1>1 DEF At
  <1>4. Head(q) = r <=> 1 \in At(q, r)
    BY <1>1 DEF At
  <1>5. AtMostOne(At(q, r)) => AtMostOne(At(Tail(q), r))
    BY <1>2 DEF AtMostOne
  <1>6. At(q, r) = {} => At(Tail(q), r) = {}
    BY <1>2
  <1>7. Head(q) = r /\ AtMostOne(At(q, r)) => At(Tail(q), r) = {}
    BY <1>2, <1>4 DEF AtMostOne
  <1>8. Head(q) # r => (At(Tail(q), r) = {} <=> At(q, r) = {})
    BY <1>2, <1>3, <1>4
  <1> QED BY <1>4, <1>5, <1>6, <1>7, <1>8

-----------------------------------------------------------------------------
LEMMA TypesAtStart == Init => TypeOK
  <1> SUFFICES ASSUME Init PROVE TypeOK
    OBVIOUS
  <1>1. queue \in Seq(Requests \cup {Poison}) /\ idle \in Seq(Requests)
    BY DEF Init
  <1>2. worker \in [Workers -> Requests \cup {Waiting, Exited}]
    BY DEF Init
  <1>3. msg \in [Requests -> {"new", "paused", "sending", "done"}]
    BY DEF Init
  <1> QED BY <1>1, <1>2, <1>3 DEF Init, TypeOK

(* Cleanup only adds poison to the queue.                                  *)
LEMMA PoisonsType == Poisons \in Seq(Requests \cup {Poison})
  <1>1. Cardinality(Workers) \in Nat
    BY WorkersAssumption, FS_CardinalityType
  <1> QED BY <1>1 DEF Poisons

LEMMA TypesKept == TypeOK /\ [Next]_vars => TypeOK'
  <1> SUFFICES ASSUME TypeOK, [Next]_vars PROVE TypeOK'
    OBVIOUS
  <1> USE DEF TypeOK
  <1>1. CASE UNCHANGED vars
    BY <1>1 DEF vars
  <1>2. ASSUME NEW r \in Requests, Request(r) PROVE TypeOK'
    BY <1>2 DEF Request
  <1>3. ASSUME NEW w \in Workers, Pop(w) PROVE TypeOK'
    <2>1. /\ Head(queue) \in Requests \cup {Poison}
          /\ Tail(queue) \in Seq(Requests \cup {Poison})
      BY <1>3, HeadTailProperties DEF Pop
    <2> QED BY <1>3, <2>1 DEF Pop
  <1>4. ASSUME NEW w \in Workers, Process(w) PROVE TypeOK'
    BY <1>4 DEF Process
  <1>5. CASE Finish
    <2>1. Head(idle) \in Requests /\ Tail(idle) \in Seq(Requests)
      BY <1>5, HeadTailProperties DEF Finish
    <2> QED BY <1>5, <2>1 DEF Finish
  <1>6. ASSUME NEW r \in Requests, Finished(r) PROVE TypeOK'
    BY <1>6 DEF Finished
  <1>7. CASE ReleaseServer
    BY <1>7 DEF ReleaseServer
  <1>8. CASE Cleanup
    BY <1>8, PoisonsType, ConcatProperties DEF Cleanup
  <1>9. CASE Joined
    BY <1>9 DEF Joined
  <1> QED BY <1>1, <1>2, <1>3, <1>4, <1>5, <1>6, <1>7, <1>8, <1>9 DEF Next

(* Every reachable state is type correct.                                  *)
THEOREM TypeCorrect == Spec => []TypeOK
  BY TypesAtStart, TypesKept, PTL DEF Spec

-----------------------------------------------------------------------------
LEMMA InvariantAtStart == Init => IInv
  <1> SUFFICES ASSUME Init PROVE IInv
    OBVIOUS
  <1>1. TypeOK
    BY TypesAtStart
  <1>2. \A r : At(queue, r) = {} /\ At(idle, r) = {}
    BY DEF Init, At
  <1>3. \A r \in Requests : InHand(r) = {}
    BY ValuesAssumption DEF Init, InHand
  <1> QED
    BY <1>1, <1>2, <1>3
       DEF IInv, Init, PlacesAreDistinct, DoneIsFreed, BodyIsFilled, AtMostOne, HasItsPlace

(* A handler puts a new request into the queue.                            *)
LEMMA RequestKeeps ==
    ASSUME IInv, NEW r \in Requests, Request(r)
    PROVE  PlacesAreDistinct' /\ DoneIsFreed' /\ BodyIsFilled'
  <1> USE DEF IInv, TypeOK
  <1>1. /\ main = "running" /\ main' = main /\ msg[r] = "new"
        /\ msg' = [msg EXCEPT ![r] = "paused"]
        /\ UNCHANGED <<freed, worker, idle, body, wild>>
    BY DEF Request
  <1>2. /\ At(queue, r) = {} /\ At(idle, r) = {} /\ InHand(r) = {}
    BY <1>1 DEF PlacesAreDistinct, HasItsPlace
  <1>3. /\ At(queue', r) = {Len(queue) + 1}
        /\ \A q \in Requests \ {r} : At(queue', q) = At(queue, q)
    <2> DEFINE S == Requests \cup {Poison}
    <2>1. queue \in Seq(S) /\ r \in S /\ queue' = Append(queue, r)
      BY DEF Request
    <2> HIDE DEF S
    <2>2. \A q : /\ r # q => At(queue', q) = At(queue, q)
                 /\ r = q => At(queue', q) = At(queue, q) \cup {Len(queue) + 1}
      BY ONLY <2>1, AppendAt
    <2> QED BY <1>2, <2>2
  <1>4. \A q \in Requests : InHand(q)' = InHand(q) /\ At(idle', q) = At(idle, q)
    BY <1>1 DEF InHand
  <1>5. PlacesAreDistinct'
    <2> SUFFICES ASSUME NEW q \in Requests
                 PROVE  HasItsPlace(q)'
      BY DEF PlacesAreDistinct
    <2>1. CASE q = r
      BY <2>1, <1>1, <1>2, <1>3, <1>4 DEF AtMostOne, HasItsPlace
    <2>2. CASE q # r
      BY <2>2, <1>1, <1>3, <1>4 DEF PlacesAreDistinct, HasItsPlace
    <2> QED BY <2>1, <2>2
  <1>6. DoneIsFreed' /\ BodyIsFilled'
    BY <1>1, <1>4 DEF DoneIsFreed, BodyIsFilled
  <1> QED BY <1>5, <1>6

(* A worker takes the oldest request out of the queue.                     *)
LEMMA PopKeeps ==
    ASSUME IInv, NEW w \in Workers, Pop(w)
    PROVE  PlacesAreDistinct' /\ DoneIsFreed' /\ BodyIsFilled'
  <1> SUFFICES ASSUME main = "running"
               PROVE  PlacesAreDistinct' /\ DoneIsFreed' /\ BodyIsFilled'
    BY DEF Pop, PlacesAreDistinct, DoneIsFreed, BodyIsFilled
  <1> DEFINE h == Head(queue)
             S == Requests \cup {Poison}
  <1>1. /\ worker \in [Workers -> Requests \cup {Waiting, Exited}]
        /\ queue \in Seq(S) /\ queue # <<>> /\ queue' = Tail(queue)
        /\ worker[w] = Waiting
        /\ worker' = [worker EXCEPT ![w] = IF h = Poison THEN Exited ELSE h]
        /\ wild' = (h \in freed)
        /\ UNCHANGED <<main, msg, freed, idle, body>>
    BY DEF Pop, IInv, TypeOK
  <1>2. h \in S
    BY <1>1, HeadTailProperties
  <1> HIDE DEF h, S
  <1>3. \A q : /\ AtMostOne(At(queue, q)) => AtMostOne(At(queue', q))
               /\ At(queue, q) = {} => At(queue', q) = {}
               /\ h = q /\ AtMostOne(At(queue, q)) => At(queue', q) = {}
               /\ h # q => (At(queue', q) = {} <=> At(queue, q) = {})
               /\ h = q => At(queue, q) # {}
    BY ONLY <1>1, TailAt DEF h
  <1>4. \A q : At(idle', q) = At(idle, q)
    BY <1>1
  <1>5. \A q \in Requests : InHand(q)' = IF q = h THEN InHand(q) \cup {w} ELSE InHand(q)
    BY <1>1, <1>2, ValuesAssumption DEF InHand, S
  <1>6. PlacesAreDistinct'
    <2> SUFFICES ASSUME NEW q \in Requests
                 PROVE  HasItsPlace(q)'
      BY DEF PlacesAreDistinct
    <2>1. HasItsPlace(q)
      BY DEF IInv, PlacesAreDistinct
    <2>2. CASE q = h
      <3>1. InHand(q) = {} /\ InHand(q)' = {w} /\ At(queue', q) = {}
        BY <2>1, <2>2, <1>3, <1>5 DEF HasItsPlace
      <3> QED BY <2>1, <2>2, <3>1, <1>1, <1>3, <1>4 DEF AtMostOne, HasItsPlace
    <2>3. CASE q # h
      BY <2>1, <2>3, <1>1, <1>3, <1>4, <1>5 DEF HasItsPlace
    <2> QED BY <2>2, <2>3
  <1>7. ~wild'
    <2>1. SUFFICES ASSUME h \in freed PROVE FALSE
      BY <1>1
    <2>2. h \in Requests /\ msg[h] = "done"
      BY <2>1 DEF IInv, TypeOK, DoneIsFreed
    <2>3. At(queue, h) # {}
      BY <1>3
    <2> QED BY <2>2, <2>3 DEF IInv, PlacesAreDistinct, HasItsPlace
  <1>8. DoneIsFreed' /\ BodyIsFilled'
    BY <1>1, <1>4, <1>7 DEF IInv, DoneIsFreed, BodyIsFilled
  <1> QED BY <1>6, <1>8

(* A worker has filled the body: the request goes to an idle source.       *)
LEMMA ProcessKeeps ==
    ASSUME IInv, NEW w \in Workers, Process(w)
    PROVE  PlacesAreDistinct' /\ DoneIsFreed' /\ BodyIsFilled'
  <1> SUFFICES ASSUME main = "running"
               PROVE  PlacesAreDistinct' /\ DoneIsFreed' /\ BodyIsFilled'
    BY DEF Process, PlacesAreDistinct, DoneIsFreed, BodyIsFilled
  <1> DEFINE r == worker[w]
  <1>1. /\ worker \in [Workers -> Requests \cup {Waiting, Exited}]
        /\ idle \in Seq(Requests) /\ r \in Requests /\ idle' = Append(idle, r)
        /\ worker' = [worker EXCEPT ![w] = Waiting]
        /\ body' = body \cup {r}
        /\ wild' = (r \in freed)
        /\ UNCHANGED <<main, msg, freed, queue>>
    BY DEF Process, IInv, TypeOK
  <1>2. w \in InHand(r)
    BY DEF InHand
  <1>3. \A q \in Requests : InHand(q)' = IF q = r THEN InHand(q) \ {w} ELSE InHand(q)
    BY <1>1, ValuesAssumption DEF InHand
  <1> HIDE DEF r
  <1>4. \A q : /\ r # q => At(idle', q) = At(idle, q)
               /\ r = q => At(idle', q) = At(idle, q) \cup {Len(idle) + 1}
    BY ONLY <1>1, AppendAt
  <1>5. \A q : At(queue', q) = At(queue, q)
    BY <1>1
  <1>6. PlacesAreDistinct'
    <2> SUFFICES ASSUME NEW q \in Requests
                 PROVE  HasItsPlace(q)'
      BY DEF PlacesAreDistinct
    <2>1. HasItsPlace(q)
      BY DEF IInv, PlacesAreDistinct
    <2>2. CASE q = r
      <3>1. /\ InHand(q)' = {} /\ At(queue', q) = {}
            /\ At(idle', q) = {Len(idle) + 1}
        BY <2>1, <2>2, <1>2, <1>3, <1>4, <1>5 DEF AtMostOne, HasItsPlace
      <3> QED BY <2>1, <2>2, <3>1, <1>1, <1>2 DEF AtMostOne, HasItsPlace
    <2>3. CASE q # r
      BY <2>1, <2>3, <1>1, <1>3, <1>4, <1>5 DEF HasItsPlace
    <2> QED BY <2>2, <2>3
  <1>7. ~wild'
    BY <1>1, <1>2 DEF IInv, DoneIsFreed, PlacesAreDistinct, HasItsPlace
  <1>8. DoneIsFreed' /\ BodyIsFilled'
    BY <1>1, <1>4, <1>7 DEF IInv, DoneIsFreed, BodyIsFilled
  <1> QED BY <1>6, <1>8

(* The main loop runs the oldest idle source.                              *)
LEMMA FinishKeeps ==
    ASSUME IInv, Finish
    PROVE  PlacesAreDistinct' /\ DoneIsFreed' /\ BodyIsFilled'
  <1> DEFINE r == Head(idle)
  <1>1. /\ main = "running" /\ main' = main
        /\ idle \in Seq(Requests) /\ idle # <<>> /\ idle' = Tail(idle)
        /\ msg \in [Requests -> {"new", "paused", "sending", "done"}]
        /\ msg' = [msg EXCEPT ![r] = "sending"]
        /\ wild' = (r \in freed)
        /\ UNCHANGED <<freed, queue, worker, body>>
    BY DEF Finish, IInv, TypeOK
  <1>2. r \in Requests
    BY <1>1, HeadTailProperties
  <1> HIDE DEF r
  <1>3. \A q : /\ AtMostOne(At(idle, q)) => AtMostOne(At(idle', q))
               /\ At(idle, q) = {} => At(idle', q) = {}
               /\ r = q /\ AtMostOne(At(idle, q)) => At(idle', q) = {}
               /\ r # q => (At(idle', q) = {} <=> At(idle, q) = {})
               /\ r = q => At(idle, q) # {}
    BY ONLY <1>1, TailAt DEF r
  <1>4. \A q \in Requests : At(queue', q) = At(queue, q) /\ InHand(q)' = InHand(q)
    BY <1>1 DEF InHand
  <1>5. PlacesAreDistinct'
    <2> SUFFICES ASSUME NEW q \in Requests
                 PROVE  HasItsPlace(q)'
      BY DEF PlacesAreDistinct
    <2>1. HasItsPlace(q)
      BY <1>1 DEF IInv, PlacesAreDistinct
    <2>2. CASE q = r
      <3>1. InHand(q)' = {} /\ At(queue', q) = {} /\ At(idle', q) = {}
        BY <2>1, <2>2, <1>3, <1>4 DEF HasItsPlace
      <3> QED BY <2>2, <3>1, <1>1 DEF AtMostOne, HasItsPlace
    <2>3. CASE q # r
      BY <2>1, <2>3, <1>1, <1>3, <1>4 DEF HasItsPlace
    <2> QED BY <2>2, <2>3
  <1>6. msg[r] = "paused"
    BY <1>1, <1>2, <1>3 DEF IInv, PlacesAreDistinct, HasItsPlace
  <1>7. DoneIsFreed'
    BY <1>1, <1>2, <1>6 DEF IInv, DoneIsFreed
  <1>8. BodyIsFilled'
    BY <1>1, <1>2, <1>3 DEF IInv, BodyIsFilled
  <1> QED BY <1>5, <1>7, <1>8

(* A message has been sent: its transaction is freed.                      *)
LEMMA FinishedKeeps ==
    ASSUME IInv, NEW r \in Requests, Finished(r)
    PROVE  PlacesAreDistinct' /\ DoneIsFreed' /\ BodyIsFilled'
  <1>1. /\ main = "running" /\ main' = main
        /\ msg \in [Requests -> {"new", "paused", "sending", "done"}]
        /\ msg[r] = "sending" /\ msg' = [msg EXCEPT ![r] = "done"]
        /\ freed' = freed \cup {r}
        /\ UNCHANGED <<queue, worker, idle, body, wild>>
    BY DEF Finished, IInv, TypeOK
  <1>2. \A q \in Requests : msg'[q] = "paused" <=> msg[q] = "paused"
    BY <1>1
  <1>3. PlacesAreDistinct'
    BY <1>1, <1>2 DEF IInv, PlacesAreDistinct, InHand, HasItsPlace
  <1>4. DoneIsFreed' /\ BodyIsFilled'
    BY <1>1 DEF IInv, DoneIsFreed, BodyIsFilled
  <1> QED BY <1>3, <1>4

LEMMA InvariantKept == IInv /\ [Next]_vars => IInv'
  <1> SUFFICES ASSUME IInv, [Next]_vars PROVE IInv'
    OBVIOUS
  <1>1. TypeOK'
    BY TypesKept DEF IInv
  <1>2. PlacesAreDistinct' /\ DoneIsFreed' /\ BodyIsFilled'
    <2>1. CASE UNCHANGED vars
      BY <2>1
         DEF vars, IInv, PlacesAreDistinct, DoneIsFreed, BodyIsFilled, InHand, HasItsPlace
    <2>2. ASSUME NEW r \in Requests, Request(r)
          PROVE  PlacesAreDistinct' /\ DoneIsFreed' /\ BodyIsFilled'
      BY <2>2, RequestKeeps
    <2>3. ASSUME NEW w \in Workers, Pop(w)
          PROVE  PlacesAreDistinct' /\ DoneIsFreed' /\ BodyIsFilled'
      BY <2>3, PopKeeps
    <2>4. ASSUME NEW w \in Workers, Process(w)
          PROVE  PlacesAreDistinct' /\ DoneIsFreed' /\ BodyIsFilled'
      BY <2>4, ProcessKeeps
    <2>5. CASE Finish
      BY <2>5, FinishKeeps
    <2>6. ASSUME NEW r \in Requests, Finished(r)
          PROVE  PlacesAreDistinct' /\ DoneIsFreed' /\ BodyIsFilled'
      BY <2>6, FinishedKeeps
    <2>7. CASE ReleaseServer \/ Cleanup \/ Joined
      <3>1. main' # "running"
        BY <2>7 DEF ReleaseServer, Cleanup, Joined
      <3> QED BY <3>1 DEF PlacesAreDistinct, DoneIsFreed, BodyIsFilled
    <2> QED BY <2>1, <2>2, <2>3, <2>4, <2>5, <2>6, <2>7 DEF Next
  <1> QED BY <1>1, <1>2 DEF IInv

(* The invariant of the queue, the workers and the idle sources.           *)
THEOREM Inductive == Spec => []IInv
  BY InvariantAtStart, InvariantKept, PTL DEF Spec

-----------------------------------------------------------------------------
LEMMA OneOrNone ==
    ASSUME NEW S, AtMostOne(S)
    PROVE  Cardinality(S) = IF S = {} THEN 0 ELSE 1
  <1>1. CASE S = {}
    BY <1>1, FS_EmptySet
  <1>2. ASSUME NEW x \in S PROVE Cardinality(S) = 1
    <2>1. S = {x}
      BY DEF AtMostOne
    <2> QED BY <2>1, FS_Singleton
  <1> QED BY <1>1, <1>2

LEMMA PlacesFollow == IInv => PausedIsInOnePlace
  <1> SUFFICES ASSUME IInv, main = "running", NEW r \in Requests
               PROVE  Places(r) = IF msg[r] = "paused" THEN 1 ELSE 0
    BY DEF PausedIsInOnePlace
  <1>1. InQueue(r) = At(queue, r) /\ InIdle(r) = At(idle, r)
    BY DEF InQueue, InIdle, At
  <1>2. /\ Cardinality(InQueue(r)) = IF At(queue, r) = {} THEN 0 ELSE 1
        /\ Cardinality(InIdle(r)) = IF At(idle, r) = {} THEN 0 ELSE 1
        /\ Cardinality(InHand(r)) = IF InHand(r) = {} THEN 0 ELSE 1
    BY <1>1, OneOrNone DEF IInv, PlacesAreDistinct, HasItsPlace
  <1> QED BY <1>2 DEF Places, IInv, PlacesAreDistinct, HasItsPlace

(* A paused message is in one place, and no answer goes out before the     *)
(* worker has filled it: for any number of requests and workers.           *)
THEOREM OneAnswerCorrect == Spec => []OneCompleteAnswer
  <1>1. IInv => OneCompleteAnswer
    <2>1. IInv => AnswersAreComplete
      BY DEF IInv, BodyIsFilled, AnswersAreComplete
    <2> QED BY <2>1, PlacesFollow DEF OneCompleteAnswer
  <1> QED BY <1>1, Inductive, PTL

(* No thread uses a transaction after it was freed, as long as the main    *)
(* loop runs.                                                              *)
THEOREM FreedCorrect == Spec => []FreedIsNotUsed
  <1>1. IInv => FreedIsNotUsed
    <2>1. SUFFICES ASSUME IInv, main = "running", NEW r \in freed
                   PROVE  Places(r) = 0
      BY DEF FreedIsNotUsed, IInv, DoneIsFreed
    <2>2. r \in Requests /\ msg[r] = "done"
      BY <2>1 DEF IInv, TypeOK, DoneIsFreed
    <2> QED BY <2>1, <2>2, PlacesFollow DEF PausedIsInOnePlace
  <1> QED BY <1>1, Inductive, PTL

-----------------------------------------------------------------------------
(* The archive and the cache                                               *)

(* A recording that the archive has, or has had                            *)
IsRecording(a) ==
    /\ a.key \in DOMAIN Recordings
    /\ a.gen \in DOMAIN Recordings[a.key]
    /\ a.version \in DOMAIN Recordings[a.key][a.gen]

ArchiveIsTyped ==
    /\ disk \in [DOMAIN Recordings -> [gen : Nat, left : {"all", "manifest", "nothing"}]]
    /\ \A k \in DOMAIN Recordings : disk[k].gen \in DOMAIN Recordings[k]

CacheIsKeyed ==
    \A h \in DOMAIN cache : HashKey(cache[h]) = h /\ IsRecording(cache[h])

(* A request asks before it finds, and before it is answered.              *)
AskedFirst ==
    DOMAIN asked \subseteq Requests /\ DOMAIN query \cup DOMAIN answer \subseteq DOMAIN asked

(* A request has found a recording that fits its URL, and was let to.      *)
FitsIts(a, u, allowed) ==
    /\ IsRecording(a)
    /\ HashKey(a) = HashKey(u)
    /\ u.drm \in DrmTypes /\ u.stream \in StreamTypes
    /\ u.drm = "clear" => allowed

QueriesFit ==
    \A r \in DOMAIN query :
        /\ query[r] = [adaptive |-> query[r].adaptive, data |-> query[r].data]
        /\ FitsIts(query[r].adaptive, asked[r].url, asked[r].allowed)

(* Two requests for the same have found the same recording; it is the one  *)
(* in the cache as long as there is a cache.                               *)
OneRecording ==
    \A m, r \in DOMAIN query :
        HashKey(asked[m].url) = HashKey(asked[r].url) => query[m].adaptive = query[r].adaptive

HasAs(table, u, a) == HashKey(u) \in DOMAIN table /\ table[HashKey(u)] = a

FoundIsCached ==
    main = "running" =>
        \A r \in DOMAIN query : HasAs(cache, asked[r].url, query[r].adaptive)

(* What is queued, in the hands of a worker or in an idle source           *)
Placed(r) == At(queue, r) # {} \/ At(idle, r) # {} \/ InHand(r) # {}

PlacedIsAsked ==
    \A r \in Requests : Placed(r) =>
        /\ r \in DOMAIN query
        /\ NeedsWorker(query[r].adaptive, asked[r].url)
        /\ main = "running" => r \notin DOMAIN answer

IsChunkOf(data, a) ==
    /\ data.what = "chunk" /\ data.of = a
    /\ data.key = IF a.drm = "clear" THEN None ELSE a.content_key

FinishedIsAssembled ==
    \A r \in Requests : At(idle, r) # {} => IsChunkOf(query[r].data, query[r].adaptive)

(* The answer to a request is that of the recording it has found.          *)
IsAnswerTo(x, a, u) ==
    IF NeedsWorker(a, u) THEN IsChunkOf(x, a) ELSE x = AnswerNow(a, u)

AnswersAreRight ==
    \A r \in DOMAIN answer :
        IF r \in DOMAIN query THEN IsAnswerTo(answer[r], query[r].adaptive, asked[r].url)
        ELSE answer[r] = NotFound

(* What has been found before is found again.                              *)
SeenIsFound ==
    \A r \in DOMAIN asked : \A m \in asked[r].seen :
        /\ m \in DOMAIN answer
        /\ m \in DOMAIN query /\ HashKey(asked[r].url) = HashKey(asked[m].url)
           /\ (asked[r].url.drm = "clear" => asked[r].allowed) => r \in DOMAIN query

ServedFromCache ==
    /\ ArchiveIsTyped
    /\ CacheIsKeyed
    /\ AskedFirst
    /\ QueriesFit
    /\ OneRecording
    /\ FoundIsCached
    /\ PlacedIsAsked
    /\ FinishedIsAssembled
    /\ AnswersAreRight
    /\ SeenIsFound

VodIInv == IInv /\ ServedFromCache

-----------------------------------------------------------------------------
(* Every step is a step of the workers or leaves them alone.               *)
LEMMA StepOfWorkers == [VodNext]_allVars => [Next]_vars
  <1> SUFFICES ASSUME VodNext \/ UNCHANGED allVars PROVE Next \/ UNCHANGED vars
    OBVIOUS
  <1>1. CASE UNCHANGED allVars
    BY <1>1 DEF allVars
  <1>2. ASSUME NEW r \in Requests, NEW u \in Urls,
               GetRefused(r, u) \/ GetNow(r, u) \/ GetBreaks(r, u)
        PROVE  UNCHANGED vars
    BY <1>2 DEF GetRefused, GetNow, GetBreaks
  <1>3. ASSUME NEW r \in Requests, NEW u \in Urls, ~wild, GetChunk(r, u) PROVE Next
    <2>1. Request(r)
      BY <1>3 DEF GetChunk
    <2> QED BY <1>3, <2>1 DEF Next
  <1>4. ASSUME NEW w \in Workers, ~wild, Pop(w) \/ Assemble(w) PROVE Next
    <2>1. Pop(w) \/ Process(w)
      BY <1>4 DEF Assemble
    <2> QED BY <1>4, <2>1 DEF Next
  <1>5. ASSUME NEW r \in Requests, ~wild, FinishChunk \/ Finished(r) \/ Release PROVE Next
    <2>1. Finish \/ Finished(r) \/ ReleaseServer
      BY <1>5 DEF FinishChunk, Release
    <2> QED BY <1>5, <2>1 DEF Next
  <1>6. ASSUME ~wild, FinishChunk \/ Release PROVE Next
    <2>1. Finish \/ ReleaseServer
      BY <1>6 DEF FinishChunk, Release
    <2> QED BY <1>6, <2>1 DEF Next
  <1>7. ASSUME NEW allow \in BOOLEAN, NEW seed, PostPlayready(allow, seed) PROVE UNCHANGED vars
    BY <1>7 DEF PostPlayready, OnlyConf
  <1>8. ASSUME NEW levels, PostVod(levels) PROVE UNCHANGED vars
    BY <1>8 DEF PostVod, OnlyConf
  <1>9. ASSUME NEW k, NEW left, ReplaceFiles(k) \/ RemoveFiles(k, left) PROVE UNCHANGED vars
    BY <1>9 DEF ReplaceFiles, RemoveFiles, ChangeFiles
  <1> QED BY <1>1, <1>2, <1>3, <1>4, <1>5, <1>6, <1>7, <1>8, <1>9 DEF VodNext

(* Where requests are after a step of the workers                          *)
LEMMA WhereTheyAre ==
    ASSUME IInv
    PROVE  /\ UNCHANGED vars => \A q \in Requests :
                (Placed(q)' <=> Placed(q)) /\ At(idle', q) = At(idle, q)
           /\ \A r \in Requests : Finished(r) \/ ReleaseServer => \A q \in Requests :
                (Placed(q)' <=> Placed(q)) /\ At(idle', q) = At(idle, q)
           /\ \A r \in Requests : Request(r) => \A q \in Requests :
                (Placed(q)' => Placed(q) \/ q = r) /\ At(idle', q) = At(idle, q)
           /\ \A w \in Workers : Pop(w) => \A q \in Requests :
                (Placed(q)' => Placed(q)) /\ At(idle', q) = At(idle, q)
           /\ \A w \in Workers : Process(w) => Placed(worker[w]) /\ \A q \in Requests :
                /\ Placed(q)' => Placed(q)
                /\ At(idle', q) # {} => At(idle, q) # {} \/ q = worker[w]
           /\ Finish => At(idle, Head(idle)) # {} /\ Head(idle) \in Requests /\
                \A q \in Requests :
                   /\ Placed(q)' => Placed(q) /\ q # Head(idle)
                   /\ At(idle', q) # {} => At(idle, q) # {}
  <1> DEFINE S == Requests \cup {Poison}
  <1>1. queue \in Seq(S) /\ idle \in Seq(Requests) /\ Requests \subseteq S
    BY DEF IInv, TypeOK
  <1>2. worker \in [Workers -> Requests \cup {Waiting, Exited}]
    BY DEF IInv, TypeOK
  <1> HIDE DEF S
  <1>3. ASSUME UNCHANGED <<queue, idle, worker>>
        PROVE  \A q \in Requests : (Placed(q)' <=> Placed(q)) /\ At(idle', q) = At(idle, q)
    BY <1>3 DEF Placed, InHand
  <1>4. ASSUME NEW r \in Requests, Request(r), NEW q \in Requests
        PROVE  (Placed(q)' => Placed(q) \/ q = r) /\ At(idle', q) = At(idle, q)
    <2>1. queue' = Append(queue, r) /\ idle' = idle /\ worker' = worker
      BY <1>4 DEF Request
    <2>2. q # r => At(queue', q) = At(queue, q)
      BY <1>1, <1>4, <2>1, AppendAt
    <2> QED BY <2>1, <2>2 DEF Placed, InHand
  <1>5. ASSUME NEW w \in Workers, Pop(w), NEW q \in Requests
        PROVE  (Placed(q)' => Placed(q)) /\ At(idle', q) = At(idle, q)
    <2>1. /\ queue # <<>> /\ queue' = Tail(queue) /\ idle' = idle /\ worker[w] = Waiting
          /\ worker' = [worker EXCEPT ![w] = IF Head(queue) = Poison THEN Exited ELSE Head(queue)]
      BY <1>5 DEF Pop
    <2>2. /\ At(queue, q) = {} => At(queue', q) = {}
          /\ Head(queue) = q => At(queue, q) # {}
      BY <1>1, <2>1, TailAt
    <2>3. InHand(q)' # {} => InHand(q) # {} \/ q = Head(queue)
      BY <1>2, <2>1, ValuesAssumption DEF InHand
    <2> QED BY <2>1, <2>2, <2>3 DEF Placed
  <1>6. ASSUME NEW w \in Workers, Process(w)
        PROVE  Placed(worker[w]) /\ \A q \in Requests :
                /\ Placed(q)' => Placed(q)
                /\ At(idle', q) # {} => At(idle, q) # {} \/ q = worker[w]
    <2>1. /\ worker[w] \in Requests /\ worker' = [worker EXCEPT ![w] = Waiting]
          /\ idle' = Append(idle, worker[w]) /\ queue' = queue
      BY <1>6 DEF Process
    <2>2. w \in InHand(worker[w])
      BY DEF InHand
    <2>3. ASSUME NEW q \in Requests
          PROVE  /\ At(idle', q) # {} => At(idle, q) # {} \/ q = worker[w]
                 /\ InHand(q)' # {} => InHand(q) # {}
      <3>1. q # worker[w] => At(idle', q) = At(idle, q)
        BY <1>1, <2>1, AppendAt
      <3>2. InHand(q)' # {} => InHand(q) # {}
        BY <1>2, <2>1, ValuesAssumption DEF InHand
      <3> QED BY <3>1, <3>2
    <2> QED BY <2>1, <2>2, <2>3 DEF Placed
  <1>7. ASSUME Finish
        PROVE  At(idle, Head(idle)) # {} /\ Head(idle) \in Requests /\
                \A q \in Requests :
                   /\ Placed(q)' => Placed(q) /\ q # Head(idle)
                   /\ At(idle', q) # {} => At(idle, q) # {}
    <2>1. /\ idle # <<>> /\ idle' = Tail(idle) /\ queue' = queue /\ worker' = worker
          /\ main = "running"
      BY <1>7 DEF Finish
    <2>2. Head(idle) \in Requests
      BY <1>1, <2>1, HeadTailProperties
    <2>3. \A q : /\ At(idle, q) = {} => At(idle', q) = {}
                 /\ Head(idle) = q => At(idle, q) # {}
                 /\ Head(idle) = q /\ AtMostOne(At(idle, q)) => At(idle', q) = {}
      BY <1>1, <2>1, TailAt
    <2>4. ASSUME NEW q \in Requests, Placed(q)' PROVE Placed(q) /\ q # Head(idle)
      <3>1. HasItsPlace(q)
        BY <2>1 DEF IInv, PlacesAreDistinct
      <3>2. InHand(q)' = InHand(q)
        BY <2>1 DEF InHand
      <3> QED BY <2>1, <2>3, <2>4, <3>1, <3>2 DEF Placed, HasItsPlace
    <2> QED BY <2>2, <2>3, <2>4
  <1>8. UNCHANGED vars => UNCHANGED <<queue, idle, worker>>
    BY DEF vars
  <1>9. \A r \in Requests : Finished(r) \/ ReleaseServer => UNCHANGED <<queue, idle, worker>>
    BY DEF Finished, ReleaseServer
  <1> QED BY <1>3, <1>4, <1>5, <1>6, <1>7, <1>8, <1>9

-----------------------------------------------------------------------------
LEMMA VodInvariantAtStart == Init /\ VodInit => VodIInv
  <1> SUFFICES ASSUME Init, VodInit PROVE VodIInv
    OBVIOUS
  <1>1. IInv
    BY InvariantAtStart
  <1>2. DOMAIN cache = {} /\ DOMAIN asked = {} /\ DOMAIN query = {} /\ DOMAIN answer = {}
    <2>1. DOMAIN <<>> = {}
      OBVIOUS
    <2> QED BY <2>1 DEF VodInit
  <1>3. ArchiveIsTyped
    BY RecordingsAssumption DEF VodInit, ArchiveIsTyped
  <1>4. \A r \in Requests : ~Placed(r) /\ At(idle, r) = {}
    BY ValuesAssumption DEF Init, Placed, At, InHand
  <1> QED
    BY <1>1, <1>2, <1>3, <1>4
       DEF VodIInv, ServedFromCache, CacheIsKeyed, AskedFirst, QueriesFit, OneRecording,
           FoundIsCached, PlacedIsAsked, FinishedIsAssembled, AnswersAreRight, SeenIsFound

(* What a URL that is not refused finds fits it, stays in the cache, and   *)
(* is what was found for it before.                                        *)
LEMMA FoundFits ==
    ASSUME ServedFromCache, NEW u \in Urls, ~Refused(u), ~LoadBreaks(u), Open(u)
    PROVE  /\ FitsIts(Found(u), u, conf.allow_clear)
           /\ CacheIsKeyed'
           /\ HasAs(cache', u, Found(u))
           /\ \A v, a : HasAs(cache, v, a) => HasAs(cache', v, a)
           /\ \A v, a : HasAs(cache, v, a) /\ HashKey(v) = HashKey(u) => a = Found(u)
  <1> DEFINE a == Found(u)
             h == HashKey(u)
  <1>1. cache' = With(cache, h, a)
    BY DEF Open, Keep
  <1>2. HashKey(a) = h /\ IsRecording(a)
    <2>1. CASE IsCached(u)
      BY <2>1 DEF ServedFromCache, CacheIsKeyed, IsCached, Found
    <2>2. CASE ~IsCached(u)
      <3>1. a = Adaptive(u)
        BY <2>2 DEF Found
      <3>2. IsLoadable(u)
        BY <2>2 DEF Refused, LoadBreaks
      <3>3. u.key \in DOMAIN Recordings /\ disk[u.key].gen \in DOMAIN Recordings[u.key]
        BY UrlsAssumption DEF ServedFromCache, ArchiveIsTyped
      <3>4. u.version \in DOMAIN Recordings[u.key][disk[u.key].gen]
        BY <3>2 DEF IsLoadable, HasVersion
      <3>5. /\ a.key = u.key /\ a.version = u.version /\ a.drm = u.drm /\ a.stream = u.stream
            /\ a.gen = disk[u.key].gen
        BY <3>1 DEF Adaptive
      <3> QED BY <3>3, <3>4, <3>5 DEF HashKey, IsRecording
    <2> QED BY <2>1, <2>2
  <1>3. FitsIts(a, u, conf.allow_clear)
    BY <1>2 DEF FitsIts, Refused
  <1> HIDE DEF h
  <1>4. IsCached(u) => h \in DOMAIN cache /\ cache[h] = a
    BY DEF IsCached, Found, h
  <1> HIDE DEF a
  <1>5. /\ DOMAIN cache' = DOMAIN cache \cup {h} /\ cache'[h] = a
        /\ \A g \in DOMAIN cache : cache'[g] = cache[g]
    <2>1. /\ DOMAIN cache' = DOMAIN cache \cup {h} /\ cache'[h] = a
          /\ \A g \in DOMAIN cache : g # h => cache'[g] = cache[g]
      BY <1>1 DEF With
    <2>2. h \in DOMAIN cache => cache[h] = a
      BY <1>4 DEF IsCached, h
    <2> QED BY <2>1, <2>2
  <1>6. CacheIsKeyed'
    BY <1>2, <1>5 DEF ServedFromCache, CacheIsKeyed
  <1>7. \A v, b : HasAs(cache, v, b) => HasAs(cache', v, b)
    BY <1>5 DEF HasAs
  <1>8. \A v, b : HasAs(cache, v, b) /\ HashKey(v) = h => b = a
    BY <1>4 DEF HasAs, IsCached, h
  <1>9. HasAs(cache', u, a)
    BY <1>5 DEF HasAs, h
  <1> QED BY <1>3, <1>6, <1>7, <1>8, <1>9 DEF a, h

(* A new request finds its recording.                                      *)
LEMMA FindingKeeps ==
    ASSUME ServedFromCache, NEW r \in Requests, NEW u \in Urls,
           IsNew(r), ~Refused(u), ~LoadBreaks(u),
           Open(u), Asks(r, u), Queries(r, Found(u)),
           UNCHANGED confVars, main' = main,
           DOMAIN answer \subseteq DOMAIN answer', DOMAIN answer' \subseteq DOMAIN answer \cup {r}
    PROVE  /\ r \notin DOMAIN answer /\ r \notin DOMAIN query
           /\ DOMAIN query' = DOMAIN query \cup {r}
           /\ asked'[r].url = u /\ query'[r].adaptive = Found(u)
           /\ \A q \in DOMAIN query : query'[q] = query[q]
           /\ \A q \in DOMAIN asked : asked'[q] = asked[q]
           /\ ArchiveIsTyped' /\ CacheIsKeyed' /\ AskedFirst' /\ QueriesFit'
           /\ OneRecording' /\ FoundIsCached' /\ SeenIsFound'
  <1> DEFINE a == Found(u)
  <1>1. /\ FitsIts(a, u, conf.allow_clear) /\ CacheIsKeyed' /\ HasAs(cache', u, a)
        /\ \A v, b : HasAs(cache, v, b) => HasAs(cache', v, b)
        /\ \A v, b : HasAs(cache, v, b) /\ HashKey(v) = HashKey(u) => b = a
    BY FoundFits
  <1> HIDE DEF a
  <1>2. /\ r \notin DOMAIN asked /\ r \notin DOMAIN query /\ r \notin DOMAIN answer
        /\ main = "running" /\ DOMAIN query \subseteq DOMAIN asked
        /\ DOMAIN answer \subseteq DOMAIN asked /\ DOMAIN asked \subseteq Requests
    BY DEF IsNew, ServedFromCache, AskedFirst
  <1>3. /\ DOMAIN asked' = DOMAIN asked \cup {r}
        /\ asked'[r] = [url |-> u, allowed |-> conf.allow_clear, seen |-> DOMAIN answer]
        /\ \A q \in DOMAIN asked : asked'[q] = asked[q]
    BY <1>2 DEF Asks, With
  <1>4. /\ DOMAIN query' = DOMAIN query \cup {r}
        /\ query'[r] = [adaptive |-> a, data |-> None]
        /\ \A q \in DOMAIN query : query'[q] = query[q]
    BY <1>2 DEF Queries, With, a
  <1>5. /\ asked'[r].url = u /\ asked'[r].allowed = conf.allow_clear
        /\ asked'[r].seen = DOMAIN answer /\ query'[r].adaptive = a
        /\ query'[r] = [adaptive |-> query'[r].adaptive, data |-> query'[r].data]
    BY <1>3, <1>4
  <1>6. ArchiveIsTyped'
    BY DEF ServedFromCache, ArchiveIsTyped, confVars
  <1>7. AskedFirst'
    BY <1>2, <1>3, <1>4 DEF AskedFirst
  <1>8. QueriesFit'
    <2>1. ASSUME NEW q \in DOMAIN query
          PROVE  asked'[q] = asked[q] /\ query'[q] = query[q]
      BY <1>2, <1>3, <1>4
    <2> QED BY <1>1, <1>4, <1>5, <2>1 DEF ServedFromCache, QueriesFit
  <1>9. \A q \in DOMAIN query : HasAs(cache, asked[q].url, query[q].adaptive)
    BY <1>2 DEF ServedFromCache, FoundIsCached
  <1>10. FoundIsCached'
    BY <1>1, <1>2, <1>3, <1>4, <1>5, <1>9 DEF FoundIsCached
  <1>11. OneRecording'
    <2>1. ASSUME NEW q \in DOMAIN query, HashKey(asked[q].url) = HashKey(u)
          PROVE  query[q].adaptive = a
      BY <1>1, <1>9, <2>1
    <2> QED BY <1>2, <1>3, <1>4, <1>5, <2>1 DEF ServedFromCache, OneRecording
  <1>12. SeenIsFound'
    <2> SUFFICES ASSUME NEW q \in DOMAIN asked', NEW m \in asked'[q].seen
                 PROVE  /\ m \in DOMAIN answer'
                        /\ m \in DOMAIN query' /\ HashKey(asked'[q].url) = HashKey(asked'[m].url)
                           /\ (asked'[q].url.drm = "clear" => asked'[q].allowed)
                           => q \in DOMAIN query'
      BY DEF SeenIsFound
    <2>1. CASE q = r
      BY <1>4, <1>5, <2>1
    <2>2. CASE q # r
      <3>1. q \in DOMAIN asked /\ asked'[q] = asked[q] /\ m \in asked[q].seen
        BY <1>3, <2>2
      <3>2. m \in DOMAIN answer /\ m # r /\ asked'[m] = asked[m]
        BY <1>2, <1>3, <3>1 DEF ServedFromCache, SeenIsFound
      <3> QED BY <1>4, <3>1, <3>2 DEF ServedFromCache, SeenIsFound
    <2> QED BY <2>1, <2>2
  <1> QED BY <1>1, <1>2, <1>3, <1>4, <1>5, <1>6, <1>7, <1>8, <1>10, <1>11, <1>12 DEF a

-----------------------------------------------------------------------------
LEMMA RefusalKeeps ==
    ASSUME VodIInv, NEW r \in Requests, NEW u \in Urls, GetRefused(r, u)
    PROVE  ServedFromCache'
  <1>1. /\ main = "running" /\ r \notin DOMAIN asked /\ Refused(u)
        /\ asked' = With(asked, r, [url |-> u, allowed |-> conf.allow_clear,
                                    seen |-> DOMAIN answer])
        /\ answer' = With(answer, r, NotFound)
        /\ UNCHANGED <<vars, confVars, cache, loads, query>>
    BY DEF GetRefused, IsNew, Asks, Answers
  <1>2. /\ DOMAIN query \subseteq DOMAIN asked
        /\ DOMAIN answer \subseteq DOMAIN asked /\ DOMAIN asked \subseteq Requests
    BY DEF VodIInv, ServedFromCache, AskedFirst
  <1>3. /\ DOMAIN asked' = DOMAIN asked \cup {r}
        /\ asked'[r].url = u /\ asked'[r].allowed = conf.allow_clear
        /\ asked'[r].seen = DOMAIN answer
        /\ \A q \in DOMAIN asked : asked'[q] = asked[q]
    BY <1>1 DEF With
  <1>4. /\ DOMAIN answer' = DOMAIN answer \cup {r} /\ answer'[r] = NotFound
        /\ \A q \in DOMAIN answer : answer'[q] = answer[q]
    BY <1>1, <1>2 DEF With
  <1>5. /\ query' = query /\ cache' = cache /\ disk' = disk /\ conf' = conf /\ main' = main
        /\ UNCHANGED vars
    BY <1>1 DEF vars, confVars
  <1>6. ArchiveIsTyped' /\ CacheIsKeyed'
    BY <1>5 DEF VodIInv, ServedFromCache, ArchiveIsTyped, CacheIsKeyed
  <1>7. AskedFirst'
    BY <1>2, <1>3, <1>4, <1>5 DEF AskedFirst
  <1>8. \A q \in DOMAIN query : q # r /\ query'[q] = query[q] /\ asked'[q] = asked[q]
    BY <1>1, <1>2, <1>3, <1>5
  <1>9. QueriesFit' /\ OneRecording' /\ FoundIsCached'
    BY <1>5, <1>8 DEF VodIInv, ServedFromCache, QueriesFit, OneRecording, FoundIsCached
  <1>10. PlacedIsAsked' /\ FinishedIsAssembled'
    <2>1. \A q \in Requests : (Placed(q)' <=> Placed(q)) /\ At(idle', q) = At(idle, q)
      BY <1>5, WhereTheyAre DEF VodIInv
    <2>2. PlacedIsAsked'
      BY <1>4, <1>5, <1>8, <2>1 DEF VodIInv, ServedFromCache, PlacedIsAsked
    <2>3. FinishedIsAssembled'
      BY <1>5, <2>1 DEF VodIInv, ServedFromCache, FinishedIsAssembled
    <2> QED BY <2>2, <2>3
  <1>11. AnswersAreRight'
    BY <1>1, <1>2, <1>4, <1>5, <1>8 DEF VodIInv, ServedFromCache, AnswersAreRight
  <1>12. SeenIsFound'
    <2> SUFFICES ASSUME NEW q \in DOMAIN asked', NEW m \in asked'[q].seen
                 PROVE  /\ m \in DOMAIN answer'
                        /\ m \in DOMAIN query' /\ HashKey(asked'[q].url) = HashKey(asked'[m].url)
                           /\ (asked'[q].url.drm = "clear" => asked'[q].allowed)
                           => q \in DOMAIN query'
      BY DEF SeenIsFound
    <2>1. CASE q = r
      <3>1. m \in DOMAIN answer /\ m \in DOMAIN asked /\ asked'[m] = asked[m]
        BY <1>2, <1>3, <2>1
      <3>2. SUFFICES ASSUME m \in DOMAIN query, HashKey(u) = HashKey(asked[m].url),
                            u.drm = "clear" => conf.allow_clear
                     PROVE  FALSE
        BY <1>3, <1>4, <1>5, <2>1, <3>1
      <3>3. HasAs(cache, asked[m].url, query[m].adaptive)
        BY <1>1, <3>2 DEF VodIInv, ServedFromCache, FoundIsCached
      <3>4. asked[m].url.drm \in DrmTypes /\ asked[m].url.stream \in StreamTypes
        BY <3>2 DEF VodIInv, ServedFromCache, QueriesFit, FitsIts
      <3>5. IsCached(u) /\ u.drm \in DrmTypes /\ u.stream \in StreamTypes
        <4>1. u.drm = asked[m].url.drm /\ u.stream = asked[m].url.stream
          BY <3>2 DEF HashKey
        <4>2. IsCached(u)
          BY <3>2, <3>3 DEF HasAs, IsCached
        <4> QED BY <3>4, <4>1, <4>2
      <3> QED BY <1>1, <3>2, <3>5 DEF Refused
    <2>2. CASE q # r
      <3>1. q \in DOMAIN asked /\ asked'[q] = asked[q] /\ m \in asked[q].seen
        BY <1>3, <2>2
      <3>2. m \in DOMAIN answer /\ asked'[m] = asked[m]
        BY <1>2, <1>3, <3>1 DEF VodIInv, ServedFromCache, SeenIsFound
      <3> QED BY <1>4, <1>5, <3>1, <3>2 DEF VodIInv, ServedFromCache, SeenIsFound
    <2> QED BY <2>1, <2>2
  <1> QED BY <1>6, <1>7, <1>9, <1>10, <1>11, <1>12 DEF ServedFromCache

LEMMA AnswerNowKeeps ==
    ASSUME VodIInv, NEW r \in Requests, NEW u \in Urls, GetNow(r, u)
    PROVE  ServedFromCache'
  <1> DEFINE a == Found(u)
             x == AnswerNow(a, u)
  <1>1. /\ ServedFromCache /\ IsNew(r) /\ ~Refused(u) /\ ~LoadBreaks(u) /\ ~NeedsWorker(a, u)
        /\ Open(u) /\ Asks(r, u) /\ Queries(r, a) /\ answer' = With(answer, r, x)
        /\ UNCHANGED vars /\ UNCHANGED confVars /\ main' = main
    BY DEF GetNow, VodIInv, Answers, vars
  <1> HIDE DEF a, x
  <1>2. /\ DOMAIN answer' = DOMAIN answer \cup {r} /\ answer'[r] = x
        /\ \A q \in DOMAIN answer : q # r => answer'[q] = answer[q]
    BY <1>1 DEF With
  <1>3. /\ r \notin DOMAIN answer /\ r \notin DOMAIN query
        /\ DOMAIN query' = DOMAIN query \cup {r}
        /\ asked'[r].url = u /\ query'[r].adaptive = a
        /\ \A q \in DOMAIN query : query'[q] = query[q]
        /\ \A q \in DOMAIN asked : asked'[q] = asked[q]
        /\ ArchiveIsTyped' /\ CacheIsKeyed' /\ AskedFirst' /\ QueriesFit'
        /\ OneRecording' /\ FoundIsCached' /\ SeenIsFound'
    BY <1>1, <1>2, FindingKeeps DEF a
  <1>4. DOMAIN query \subseteq DOMAIN asked /\ DOMAIN answer \subseteq DOMAIN asked
    BY <1>1 DEF ServedFromCache, AskedFirst
  <1>5. \A q \in Requests : (Placed(q)' <=> Placed(q)) /\ At(idle', q) = At(idle, q)
    BY <1>1, WhereTheyAre DEF VodIInv
  <1>6. PlacedIsAsked'
    <2> SUFFICES ASSUME NEW q \in Requests, Placed(q)
                 PROVE  /\ q \in DOMAIN query'
                        /\ NeedsWorker(query'[q].adaptive, asked'[q].url)
                        /\ main' = "running" => q \notin DOMAIN answer'
      BY <1>5 DEF PlacedIsAsked
    <2>1. /\ q \in DOMAIN query /\ NeedsWorker(query[q].adaptive, asked[q].url)
          /\ main = "running" => q \notin DOMAIN answer
      BY <1>1 DEF ServedFromCache, PlacedIsAsked
    <2>2. q # r /\ query'[q] = query[q] /\ asked'[q] = asked[q]
      BY <1>3, <1>4, <2>1
    <2> QED BY <1>1, <1>2, <1>3, <2>1, <2>2
  <1>7. FinishedIsAssembled'
    <2> SUFFICES ASSUME NEW q \in Requests, At(idle, q) # {}
                 PROVE  IsChunkOf(query'[q].data, query'[q].adaptive)
      BY <1>5 DEF FinishedIsAssembled, IsChunkOf
    <2>1. q \in DOMAIN query /\ IsChunkOf(query[q].data, query[q].adaptive)
      BY <1>1 DEF ServedFromCache, PlacedIsAsked, FinishedIsAssembled, Placed
    <2> QED BY <1>3, <2>1
  <1>8. AnswersAreRight'
    <2> SUFFICES ASSUME NEW q \in DOMAIN answer'
                 PROVE  IF q \in DOMAIN query'
                        THEN IsAnswerTo(answer'[q], query'[q].adaptive, asked'[q].url)
                        ELSE answer'[q] = NotFound
      BY DEF AnswersAreRight, IsAnswerTo, IsChunkOf
    <2>1. CASE q = r
      BY <1>1, <1>2, <1>3, <2>1 DEF IsAnswerTo, x
    <2>2. CASE q # r
      <3>1. q \in DOMAIN answer /\ answer'[q] = answer[q] /\ asked'[q] = asked[q]
        BY <1>2, <1>3, <1>4, <2>2
      <3> QED BY <1>1, <1>3, <2>2, <3>1 DEF ServedFromCache, AnswersAreRight
    <2> QED BY <2>1, <2>2
  <1> QED BY <1>3, <1>6, <1>7, <1>8 DEF ServedFromCache

LEMMA ChunkRequestKeeps ==
    ASSUME VodIInv, NEW r \in Requests, NEW u \in Urls, GetChunk(r, u)
    PROVE  ServedFromCache'
  <1> DEFINE a == Found(u)
  <1>1. /\ ServedFromCache /\ IsNew(r) /\ ~Refused(u) /\ ~LoadBreaks(u) /\ NeedsWorker(a, u)
        /\ Open(u) /\ Asks(r, u) /\ Queries(r, a) /\ answer' = answer
        /\ Request(r) /\ UNCHANGED confVars /\ main' = main
    BY DEF GetChunk, VodIInv, Request
  <1> HIDE DEF a
  <1>3. /\ r \notin DOMAIN answer /\ r \notin DOMAIN query
        /\ DOMAIN query' = DOMAIN query \cup {r}
        /\ asked'[r].url = u /\ query'[r].adaptive = a
        /\ \A q \in DOMAIN query : query'[q] = query[q]
        /\ \A q \in DOMAIN asked : asked'[q] = asked[q]
        /\ ArchiveIsTyped' /\ CacheIsKeyed' /\ AskedFirst' /\ QueriesFit'
        /\ OneRecording' /\ FoundIsCached' /\ SeenIsFound'
    BY <1>1, FindingKeeps DEF a
  <1>4. DOMAIN query \subseteq DOMAIN asked /\ DOMAIN answer \subseteq DOMAIN asked
    BY <1>1 DEF ServedFromCache, AskedFirst
  <1>5. \A q \in Requests : (Placed(q)' => Placed(q) \/ q = r) /\ At(idle', q) = At(idle, q)
    BY <1>1, WhereTheyAre DEF VodIInv
  <1>6. PlacedIsAsked'
    <2> SUFFICES ASSUME NEW q \in Requests, Placed(q) \/ q = r
                 PROVE  /\ q \in DOMAIN query'
                        /\ NeedsWorker(query'[q].adaptive, asked'[q].url)
                        /\ main' = "running" => q \notin DOMAIN answer'
      BY <1>5 DEF PlacedIsAsked
    <2>1. CASE q = r
      BY <1>1, <1>3, <2>1
    <2>2. CASE q # r
      <3>1. /\ q \in DOMAIN query /\ NeedsWorker(query[q].adaptive, asked[q].url)
            /\ main = "running" => q \notin DOMAIN answer
        BY <1>1, <2>2 DEF ServedFromCache, PlacedIsAsked
      <3>2. query'[q] = query[q] /\ asked'[q] = asked[q]
        BY <1>3, <1>4, <3>1
      <3> QED BY <1>1, <1>3, <3>1, <3>2
    <2> QED BY <2>1, <2>2
  <1>7. FinishedIsAssembled'
    <2> SUFFICES ASSUME NEW q \in Requests, At(idle, q) # {}
                 PROVE  IsChunkOf(query'[q].data, query'[q].adaptive)
      BY <1>5 DEF FinishedIsAssembled, IsChunkOf
    <2>1. q \in DOMAIN query /\ IsChunkOf(query[q].data, query[q].adaptive)
      BY <1>1 DEF ServedFromCache, PlacedIsAsked, FinishedIsAssembled, Placed
    <2> QED BY <1>3, <2>1
  <1>8. AnswersAreRight'
    <2> SUFFICES ASSUME NEW q \in DOMAIN answer
                 PROVE  IF q \in DOMAIN query'
                        THEN IsAnswerTo(answer[q], query'[q].adaptive, asked'[q].url)
                        ELSE answer[q] = NotFound
      BY <1>1 DEF AnswersAreRight, IsAnswerTo, IsChunkOf
    <2>1. q # r /\ asked'[q] = asked[q]
      BY <1>3, <1>4
    <2> QED BY <1>1, <1>3, <2>1 DEF ServedFromCache, AnswersAreRight
  <1> QED BY <1>3, <1>6, <1>7, <1>8 DEF ServedFromCache

(* The worker puts the data of a chunk into its query, whatever has become *)
(* of the server meanwhile.                                                *)
LEMMA AssemblyKeeps ==
    ASSUME VodIInv, NEW w \in Workers, Assemble(w)
    PROVE  ServedFromCache'
  <1> DEFINE r == worker[w]
             a == query[r].adaptive
             x == Assembled(a, asked[r].url)
  <1>1. /\ r \in Requests /\ Process(w)
        /\ query' = [query EXCEPT ![r].data = x]
        /\ UNCHANGED confVars /\ cache' = cache /\ asked' = asked /\ answer' = answer
        /\ main' = main
    BY DEF Assemble, Process
  <1>2. IsChunkOf(x, a)
    BY DEF Assembled, IsChunkOf
  <1>3. /\ Placed(r)
        /\ \A q \in Requests : /\ Placed(q)' => Placed(q)
                               /\ At(idle', q) # {} => At(idle, q) # {} \/ q = r
    BY <1>1, WhereTheyAre DEF VodIInv
  <1>4. r \in DOMAIN query /\ query[r] = [adaptive |-> query[r].adaptive, data |-> query[r].data]
    BY <1>1, <1>3 DEF VodIInv, ServedFromCache, PlacedIsAsked, QueriesFit
  <1> HIDE DEF r, x
  <1>5. /\ DOMAIN query' = DOMAIN query
        /\ \A q \in DOMAIN query : q # r => query'[q] = query[q]
        /\ query'[r] = [query[r] EXCEPT !.data = x]
    BY <1>1, <1>4
  <1>6. query'[r] = [adaptive |-> a, data |-> x]
    BY <1>4, <1>5
  <1>7. \A q \in DOMAIN query :
            /\ query'[q].adaptive = query[q].adaptive
            /\ query'[q] = [adaptive |-> query'[q].adaptive, data |-> query'[q].data]
    <2> SUFFICES ASSUME NEW q \in DOMAIN query
                 PROVE  /\ query'[q].adaptive = query[q].adaptive
                        /\ query'[q] = [adaptive |-> query'[q].adaptive, data |-> query'[q].data]
      OBVIOUS
    <2>1. CASE q = r
      BY <1>6, <2>1
    <2>2. CASE q # r
      BY <1>5, <2>2 DEF VodIInv, ServedFromCache, QueriesFit
    <2> QED BY <2>1, <2>2
  <1>8. ArchiveIsTyped' /\ CacheIsKeyed' /\ AskedFirst'
    BY <1>1, <1>5
       DEF VodIInv, ServedFromCache, ArchiveIsTyped, CacheIsKeyed, AskedFirst, confVars
  <1>9. QueriesFit' /\ OneRecording' /\ FoundIsCached'
    BY <1>1, <1>5, <1>7
       DEF VodIInv, ServedFromCache, QueriesFit, OneRecording, FoundIsCached
  <1>10. PlacedIsAsked'
    BY <1>1, <1>3, <1>5, <1>7 DEF VodIInv, ServedFromCache, PlacedIsAsked
  <1>11. FinishedIsAssembled'
    <2> SUFFICES ASSUME NEW q \in Requests, At(idle', q) # {}
                 PROVE  IsChunkOf(query'[q].data, query'[q].adaptive)
      BY DEF FinishedIsAssembled, IsChunkOf
    <2>1. CASE q = r
      BY <1>2, <1>6, <2>1
    <2>2. CASE q # r
      <3>1. At(idle, q) # {} /\ q \in DOMAIN query
        BY <1>3, <2>2 DEF VodIInv, ServedFromCache, PlacedIsAsked, Placed
      <3> QED BY <1>5, <2>2, <3>1 DEF VodIInv, ServedFromCache, FinishedIsAssembled
    <2> QED BY <2>1, <2>2
  <1>12. AnswersAreRight'
    BY <1>1, <1>5, <1>7 DEF VodIInv, ServedFromCache, AnswersAreRight, IsAnswerTo, IsChunkOf
  <1>13. SeenIsFound'
    BY <1>1, <1>5 DEF VodIInv, ServedFromCache, SeenIsFound
  <1> QED BY <1>8, <1>9, <1>10, <1>11, <1>12, <1>13 DEF ServedFromCache

(* The main loop sends what the worker has put there.                      *)
LEMMA FinishingKeeps ==
    ASSUME VodIInv, FinishChunk
    PROVE  ServedFromCache'
  <1> DEFINE r == Head(idle)
             x == query[r].data
  <1>1. /\ Finish /\ answer' = With(answer, r, x) /\ main' = main
        /\ UNCHANGED <<disk, conf, changes, cache, asked, query>>
    BY DEF FinishChunk, Finish, Answers, confVars
  <1>2. /\ At(idle, r) # {} /\ r \in Requests /\ Placed(r)
        /\ \A q \in Requests : /\ Placed(q)' => Placed(q) /\ q # r
                               /\ At(idle', q) # {} => At(idle, q) # {}
    BY <1>1, WhereTheyAre DEF VodIInv, Placed
  <1> HIDE DEF r, x
  <1>3. /\ r \in DOMAIN query /\ NeedsWorker(query[r].adaptive, asked[r].url)
        /\ IsChunkOf(x, query[r].adaptive)
    BY <1>2 DEF VodIInv, ServedFromCache, PlacedIsAsked, FinishedIsAssembled, x
  <1>4. /\ DOMAIN answer' = DOMAIN answer \cup {r} /\ answer'[r] = x
        /\ \A q \in DOMAIN answer : q # r => answer'[q] = answer[q]
    BY <1>1 DEF With
  <1>5. ArchiveIsTyped' /\ CacheIsKeyed' /\ AskedFirst'
    BY <1>1, <1>3, <1>4
       DEF VodIInv, ServedFromCache, ArchiveIsTyped, CacheIsKeyed, AskedFirst
  <1>6. QueriesFit' /\ OneRecording' /\ FoundIsCached'
    BY <1>1 DEF VodIInv, ServedFromCache, QueriesFit, OneRecording, FoundIsCached
  <1>7. PlacedIsAsked'
    BY <1>1, <1>2, <1>4 DEF VodIInv, ServedFromCache, PlacedIsAsked
  <1>8. FinishedIsAssembled'
    BY <1>1, <1>2 DEF VodIInv, ServedFromCache, FinishedIsAssembled
  <1>9. AnswersAreRight'
    <2> SUFFICES ASSUME NEW q \in DOMAIN answer'
                 PROVE  IF q \in DOMAIN query
                        THEN IsAnswerTo(answer'[q], query[q].adaptive, asked[q].url)
                        ELSE answer'[q] = NotFound
      BY <1>1 DEF AnswersAreRight, IsAnswerTo, IsChunkOf
    <2>1. CASE q = r
      BY <1>3, <1>4, <2>1 DEF IsAnswerTo
    <2>2. CASE q # r
      BY <1>4, <2>2 DEF VodIInv, ServedFromCache, AnswersAreRight
    <2> QED BY <2>1, <2>2
  <1>10. SeenIsFound'
    BY <1>1, <1>4 DEF VodIInv, ServedFromCache, SeenIsFound
  <1> QED BY <1>5, <1>6, <1>7, <1>8, <1>9, <1>10 DEF ServedFromCache

(* Steps that neither ask nor answer: of the workers, the connections, the *)
(* administrator, the archive, and the end of the server.                  *)
LEMMA OthersKeep ==
    ASSUME VodIInv, ArchiveIsTyped', UNCHANGED <<asked, query, answer>>,
           (cache' = cache /\ main' = main) \/ (cache' = <<>> /\ main' # "running"),
           \A q \in Requests : (Placed(q)' => Placed(q)) /\ At(idle', q) = At(idle, q)
    PROVE  ServedFromCache'
  <1>1. asked' = asked /\ query' = query /\ answer' = answer
        /\ (main' = "running" => main = "running" /\ cache' = cache)
    OBVIOUS
  <1>2. CacheIsKeyed'
    <2>1. CASE cache' = cache
      BY <2>1 DEF VodIInv, ServedFromCache, CacheIsKeyed
    <2>2. CASE cache' = <<>>
      <3>1. DOMAIN <<>> = {}
        OBVIOUS
      <3>2. DOMAIN cache' = {}
        BY <2>2, <3>1
      <3> QED BY <3>2 DEF CacheIsKeyed
    <2> QED BY <2>1, <2>2
  <1>3. AskedFirst' /\ QueriesFit' /\ OneRecording' /\ SeenIsFound'
    BY <1>1 DEF VodIInv, ServedFromCache, AskedFirst, QueriesFit, OneRecording, SeenIsFound
  <1>4. FoundIsCached'
    BY <1>1 DEF VodIInv, ServedFromCache, FoundIsCached
  <1>5. PlacedIsAsked'
    BY <1>1 DEF VodIInv, ServedFromCache, PlacedIsAsked
  <1>6. FinishedIsAssembled' /\ AnswersAreRight'
    BY <1>1
       DEF VodIInv, ServedFromCache, FinishedIsAssembled, AnswersAreRight, IsAnswerTo, IsChunkOf
  <1> QED BY <1>2, <1>3, <1>4, <1>5, <1>6 DEF ServedFromCache

(* Steps of the workers and the connections, and the end of the server     *)
LEMMA WorkersKeep ==
    ASSUME VodIInv,
           \/ \E w \in Workers : Pop(w) /\ UNCHANGED vodVars
           \/ \E r \in Requests : Finished(r) /\ UNCHANGED vodVars
           \/ Release
           \/ \E r \in Requests, u \in Urls : GetBreaks(r, u)
           \/ UNCHANGED allVars
    PROVE  ServedFromCache'
  <1>1. /\ UNCHANGED <<disk, asked, query, answer>>
        /\ (cache' = cache /\ main' = main) \/ (cache' = <<>> /\ main' # "running")
    BY DEF Pop, Finished, Release, ReleaseServer, GetBreaks, allVars, vars, vodVars, confVars
  <1>2. \A q \in Requests : (Placed(q)' => Placed(q)) /\ At(idle', q) = At(idle, q)
    <2>1. \/ \E w \in Workers : Pop(w)
          \/ \E r \in Requests : Finished(r)
          \/ ReleaseServer
          \/ UNCHANGED vars
      BY DEF Release, GetBreaks, allVars
    <2>2. CASE ReleaseServer /\ Requests = {}
      BY <2>2
    <2> QED BY <2>1, <2>2, WhereTheyAre DEF VodIInv
  <1>3. ArchiveIsTyped'
    BY <1>1 DEF VodIInv, ServedFromCache, ArchiveIsTyped
  <1> QED BY <1>1, <1>2, <1>3, OthersKeep

(* Changes of the configuration and the archive                            *)
LEMMA ChangesKeep ==
    ASSUME VodIInv,
           \/ \E allow \in BOOLEAN, seed \in {1, Bad} : PostPlayready(allow, seed)
           \/ \E levels \in {HomeLevels + 1, 4} : PostVod(levels)
           \/ \E k \in DOMAIN disk : ReplaceFiles(k)
           \/ \E k \in DOMAIN disk, left \in {"manifest", "nothing"} : RemoveFiles(k, left)
    PROVE  ServedFromCache'
  <1>1. UNCHANGED vars /\ UNCHANGED <<cache, asked, query, answer>>
    BY DEF PostPlayready, PostVod, OnlyConf, ReplaceFiles, RemoveFiles, ChangeFiles
  <1>2. /\ disk \in [DOMAIN Recordings -> [gen : Nat, left : {"all", "manifest", "nothing"}]]
        /\ \A k \in DOMAIN Recordings : disk[k].gen \in DOMAIN Recordings[k]
    BY DEF VodIInv, ServedFromCache, ArchiveIsTyped
  <1>3. ArchiveIsTyped'
    <2>1. CASE disk' = disk
      BY <1>2, <2>1 DEF ArchiveIsTyped
    <2>2. ASSUME NEW k \in DOMAIN disk, ReplaceFiles(k) PROVE ArchiveIsTyped'
      <3>1. /\ disk' = [disk EXCEPT ![k] = [gen |-> disk[k].gen + 1, left |-> "all"]]
            /\ disk[k].gen < Len(Recordings[k]) /\ k \in DOMAIN Recordings
        BY <1>2, <2>2 DEF ReplaceFiles, ChangeFiles
      <3>2. disk[k].gen + 1 \in Nat /\ disk[k].gen + 1 \in DOMAIN Recordings[k]
        BY <1>2, <3>1, RecordingsAssumption
      <3> QED BY <1>2, <3>1, <3>2 DEF ArchiveIsTyped
    <2>3. ASSUME NEW k \in DOMAIN disk, NEW left \in {"manifest", "nothing"}, RemoveFiles(k, left)
          PROVE  ArchiveIsTyped'
      <3>1. disk' = [disk EXCEPT ![k] = [disk[k] EXCEPT !.left = left]] /\ k \in DOMAIN Recordings
        BY <1>2, <2>3 DEF RemoveFiles, ChangeFiles
      <3>2. /\ [disk[k] EXCEPT !.left = left] \in [gen : Nat, left : {"all", "manifest", "nothing"}]
            /\ [disk[k] EXCEPT !.left = left].gen = disk[k].gen
        BY <1>2, <3>1
      <3> QED BY <1>2, <3>1, <3>2 DEF ArchiveIsTyped
    <2> QED BY <2>1, <2>2, <2>3 DEF PostPlayready, PostVod, OnlyConf
  <1>4. \A q \in Requests : (Placed(q)' => Placed(q)) /\ At(idle', q) = At(idle, q)
    BY <1>1, WhereTheyAre DEF VodIInv
  <1> QED BY <1>1, <1>3, <1>4, OthersKeep DEF vars

(* The invariant of the cache, the requests and the answers                *)
THEOREM VodInductive == VodSpec => []VodIInv
  <1>1. ASSUME VodIInv, [VodNext]_allVars PROVE VodIInv'
    <2>1. IInv'
      BY <1>1, StepOfWorkers, InvariantKept DEF VodIInv
    <2>2. ServedFromCache'
      <3>1. CASE UNCHANGED allVars
        BY <1>1, <3>1, WorkersKeep
      <3>2. CASE VodNext
        BY <1>1, <3>2, RefusalKeeps, AnswerNowKeeps, ChunkRequestKeeps, AssemblyKeeps,
           FinishingKeeps, WorkersKeep, ChangesKeep DEF VodNext
      <3> QED BY <1>1, <3>1, <3>2
    <2> QED BY <2>1, <2>2 DEF VodIInv
  <1> QED BY <1>1, VodInvariantAtStart, PTL DEF VodSpec

-----------------------------------------------------------------------------
(* While the server runs, the recording that a request in the queue, in    *)
(* the hands of a worker or in an idle source points to is one of the      *)
(* cache: gss_adaptive_free is called for none of them.                    *)
THEOREM UsedCorrect == VodSpec => []UsedIsKept
  <1>1. ASSUME VodIInv PROVE UsedIsKept
    <2> SUFFICES ASSUME main = "running", NEW r \in Requests, Places(r) > 0
                 PROVE  r \in DOMAIN query /\ IsLive(query[r].adaptive)
      BY DEF UsedIsKept
    <2>1. msg[r] = "paused"
      BY <1>1, PlacesFollow DEF VodIInv, PausedIsInOnePlace
    <2>2. Placed(r)
      BY <1>1, <2>1 DEF VodIInv, IInv, PlacesAreDistinct, HasItsPlace, Placed
    <2>3. r \in DOMAIN query
      BY <1>1, <2>2 DEF VodIInv, ServedFromCache, PlacedIsAsked
    <2> QED BY <1>1, <2>3 DEF VodIInv, ServedFromCache, FoundIsCached, HasAs, IsLive
  <1> QED BY <1>1, VodInductive, PTL

(* What the main loop answers with data is of the recording.               *)
LEMMA DataIsOf ==
    ASSUME NEW a, NEW u, AnswerNow(a, u).what \in {"manifest", "header", "chunk"}
    PROVE  AnswerNow(a, u).of = a
  <1>1. CASE ByManifest(a, u)
    <2>1. u.path # "content" /\ u.path # "content/"
      BY <1>1 DEF ByManifest
    <2>2. AnswerNow(a, u) = Manifest(a, u.q)
      BY <1>1, <2>1 DEF AnswerNow, ByQuery, ByRange
    <2> QED BY <2>2 DEF Manifest
  <1>2. CASE ~ByManifest(a, u)
    BY <1>2 DEF AnswerNow, Header, Empty, NotFound, ByQuery, ByRange
  <1> QED BY <1>1, <1>2

(* What goes out is of the recording, version, protection and stream type  *)
(* that the URL names, and in the clear only if that was allowed when it   *)
(* was asked for (gss_vod_get_adaptive_resource).                          *)
THEOREM AnswersCorrect == VodSpec => []AnswersFitTheUrl
  <1>1. ASSUME VodIInv PROVE AnswersFitTheUrl
    <2> SUFFICES ASSUME NEW r \in DOMAIN answer, HasData(r)
                 PROVE  /\ HashKey(answer[r].of) = HashKey(asked[r].url)
                        /\ answer[r].of.drm = "clear" => asked[r].allowed
      BY DEF AnswersFitTheUrl
    <2>1. r \in DOMAIN query
      <3>1. answer[r] # NotFound
        <4>1. NotFound.what = "not found"
          BY DEF NotFound
        <4> QED BY <4>1 DEF HasData
      <3> QED BY <1>1, <3>1 DEF VodIInv, ServedFromCache, AnswersAreRight
    <2>2. answer[r].of = query[r].adaptive
      <3>1. IsAnswerTo(answer[r], query[r].adaptive, asked[r].url)
        BY <1>1, <2>1 DEF VodIInv, ServedFromCache, AnswersAreRight
      <3> QED BY <3>1, DataIsOf DEF IsAnswerTo, IsChunkOf, HasData
    <2>3. FitsIts(query[r].adaptive, asked[r].url, asked[r].allowed)
      BY <1>1, <2>1 DEF VodIInv, ServedFromCache, QueriesFit
    <2>4. query[r].adaptive.drm = asked[r].url.drm
      BY <2>3 DEF FitsIts, HashKey
    <2> QED BY <2>2, <2>3, <2>4 DEF FitsIts
  <1> QED BY <1>1, VodInductive, PTL

(* What a manifest lists                                                   *)
LEMMA ManifestLists ==
    ASSUME NEW a, NEW q, a.stream \in StreamTypes, NEW item \in Manifest(a, q).lists
    PROVE  /\ item.kind \in {"video", "audio"}
           /\ a.stream = "isoff-ondemand" => item.index \in DOMAIN Levels(a, item.kind)
           /\ a.stream # "isoff-ondemand" =>
                 item.time \in StartTimes(Levels(a, item.kind)[1])
  <1> DEFINE video == Levels(a, "video")
             audio == Levels(a, "audio")
  <1>1. Manifest(a, q).lists = CASE a.stream = "ism" -> ListedIsm(a, q)
                 [] a.stream = "isoff-live" -> ListedLive(a, q)
                 [] a.stream = "isoff-ondemand" -> ListedOnDemand(a, q)
    BY DEF Manifest
  <1> HIDE DEF video, audio
  <1>2. ASSUME NEW levels, NEW shown, NEW kind, item \in Chunks(levels, shown, kind)
        PROVE  item.kind = kind /\ item.time \in StartTimes(levels[1])
    <2>1. PICK i \in shown, s \in StartTimes(levels[1]) :
              item = [kind |-> kind, bitrate |-> levels[i].bitrate, time |-> s]
      BY <1>2 DEF Chunks
    <2> QED BY <2>1
  <1>3. CASE a.stream = "isoff-ondemand"
    <2>1. item \in ListedOnDemand(a, q)
      BY <1>1, <1>3
    <2>2. CASE \E i \in Shown(video, q) : item = [kind |-> "video", index |-> i]
      BY <1>3, <2>2 DEF Shown, video
    <2>3. CASE \E i \in DOMAIN audio \cap {1} : item = [kind |-> "audio", index |-> i]
      BY <1>3, <2>3 DEF audio
    <2> QED BY <2>1, <2>2, <2>3 DEF ListedOnDemand, video, audio
  <1>4. CASE a.stream = "ism"
    <2>1. item \in ListedIsm(a, q)
      BY <1>1, <1>4
    <2>2. \/ item \in Chunks(video, Shown(video, q), "video")
          \/ item \in Chunks(audio, {1}, "audio")
      BY <2>1 DEF ListedIsm, video, audio
    <2> QED BY <1>2, <1>4, <2>2 DEF video, audio
  <1>5. CASE a.stream = "isoff-live"
    <2>1. item \in ListedLive(a, q)
      BY <1>1, <1>5
    <2>2. \/ item \in Chunks(video, Shown(video, q), "video")
          \/ item \in Chunks(audio, DOMAIN audio, "audio")
      BY <2>1 DEF ListedLive, video, audio
    <2> QED BY <1>2, <1>5, <2>2 DEF video, audio
  <1> QED BY <1>3, <1>4, <1>5 DEF StreamTypes

(* A player that asks for what a manifest of the recording lists gets to   *)
(* the worker, or asks for the head of a range only.                       *)
LEMMA ListedIsNamed ==
    ASSUME NEW a, IsRecording(a), a.stream \in StreamTypes,
           NEW q, NEW item \in Manifest(a, q).lists,
           NEW u, u.stream = a.stream, Fetches(item, u), IsUnambiguous(a, item)
    PROVE  NeedsWorker(a, u) \/ (AnswerNow(a, u) = Empty /\ u.q.head)
  <1>1. /\ item.kind \in {"video", "audio"}
        /\ a.stream = "isoff-ondemand" => item.index \in DOMAIN Levels(a, item.kind)
        /\ a.stream # "isoff-ondemand" => item.time \in StartTimes(Levels(a, item.kind)[1])
    BY ManifestLists
  <1>2. CASE a.stream = "isoff-ondemand"
    <2>1. u.path = "content/" /\ u.q.kind = item.kind /\ u.q.index = item.index
      BY <1>2 DEF Fetches
    <2>2. ByRange(a, u) /\ NamesRange(a, u.q)
      BY <1>1, <1>2, <2>1 DEF ByRange, NamesRange
    <2>3. ~ByManifest(a, u) /\ ~ByQuery(a, u)
      BY <1>2, <2>1 DEF ByManifest, ByQuery
    <2>4. AnswerNow(a, u) = Empty
      BY <2>2, <2>3 DEF AnswerNow
    <2> QED BY <2>2, <2>4 DEF NeedsWorker
  <1>3. CASE a.stream # "isoff-ondemand"
    <2> DEFINE levels == Levels(a, item.kind)
    <2>1. /\ u.path = "content" /\ u.q.stream = item.kind
          /\ u.q.bitrate = item.bitrate /\ u.q.start_time = item.time
      BY <1>3 DEF Fetches
    <2>2. \A j \in DOMAIN levels : IsLevel(levels[j])
      BY <1>1, RecordingsAssumption DEF IsRecording, Levels, FilesOf
    <2>3. PICK i \in DOMAIN levels :
              /\ {j \in DOMAIN levels : levels[j].bitrate = item.bitrate} = {i}
              /\ levels[i].fragments = levels[1].fragments /\ item.bitrate # 0
      BY <1>3 DEF IsUnambiguous
    <2>4. levels[i].bitrate = item.bitrate
      BY <2>3
    <2>5. PICK n \in DOMAIN levels[i].fragments : levels[i].fragments[n].timestamp = item.time
      <3>1. PICK n \in DOMAIN levels[1].fragments :
                item.time = SumFunction([j \in 1 .. n - 1 |-> levels[1].fragments[j].duration])
        BY <1>1, <1>3 DEF StartTimes
      <3>2. n \in DOMAIN levels[i].fragments
            /\ item.time = SumFunction([j \in 1 .. n - 1 |-> levels[i].fragments[j].duration])
        BY <2>3, <3>1
      <3>3. levels[i].fragments[n].timestamp
                = SumFunction([j \in 1 .. n - 1 |-> levels[i].fragments[j].duration])
        BY <2>2, <3>2 DEF IsLevel, IsContiguous
      <3> QED BY <3>2, <3>3
    <2>6. item.bitrate \in Nat /\ item.time \in Nat
      BY <2>2, <2>4, <2>5 DEF IsLevel
    <2> HIDE DEF levels
    <2>7. IsComplete(u.q) /\ u.q.start_time # InitTime
      BY <1>1, <2>1, <2>3, <2>6, ParametersAssumption DEF IsComplete, IsNumber
    <2>8. WithBitrate(a, u.q) = {i}
      BY <2>1, <2>3 DEF WithBitrate, levels
    <2>9. LevelAt(a, u.q) = i
      BY <2>8 DEF LevelAt, LowestOf
    <2>10. n \in WithTime(a, u.q)
      BY <2>1, <2>5, <2>9 DEF WithTime, levels
    <2>11. NamesFragment(a, u.q)
      BY <2>7, <2>8, <2>10 DEF NamesFragment, HasLevel
    <2> QED BY <1>3, <2>1, <2>11 DEF NeedsWorker, ByQuery
  <1> QED BY <1>2, <1>3

LEMMA ManifestIsOf ==
    ASSUME NEW a, NEW u, AnswerNow(a, u).what = "manifest"
    PROVE  AnswerNow(a, u) = Manifest(a, u.q)
  <1>1. CASE ByManifest(a, u)
    <2>1. u.path # "content" /\ u.path # "content/"
      BY <1>1 DEF ByManifest
    <2> QED BY <1>1, <2>1 DEF AnswerNow, ByQuery, ByRange
  <1>2. CASE ~ByManifest(a, u)
    BY <1>2 DEF AnswerNow, Header, Empty, NotFound, ByQuery, ByRange
  <1> QED BY <1>1, <1>2

-----------------------------------------------------------------------------
(* Generations of files: those of the archive only grow, so what was read  *)
(* for a recording lies between those it was opened with and those now.    *)
IsBetween(g, a) ==
    /\ a.key \in DOMAIN Recordings
    /\ g \in Nat /\ a.gen \in Nat
    /\ a.gen <= g /\ g <= disk[a.key].gen

CachedIsPast == \A h \in DOMAIN cache : IsBetween(cache[h].gen, cache[h])

FoundIsPast == \A r \in DOMAIN query : IsBetween(query[r].adaptive.gen, query[r].adaptive)

ReadIsPast ==
    \A r \in Requests : At(idle, r) # {} => IsBetween(query[r].data.gen, query[r].adaptive)

SentIsPast ==
    \A r \in DOMAIN answer :
        answer[r].what = "chunk" => IsBetween(answer[r].gen, answer[r].of)

GenerationsGrow == CachedIsPast /\ FoundIsPast /\ ReadIsPast /\ SentIsPast

LEMMA OlderStaysPast ==
    ASSUME VodIInv, VodIInv',
           \A k \in DOMAIN Recordings : disk[k].gen <= disk'[k].gen,
           NEW g, NEW a, IsBetween(g, a)
    PROVE  IsBetween(g, a)'
  <1>1. /\ a.key \in DOMAIN Recordings /\ g \in Nat /\ a.gen \in Nat
        /\ a.gen <= g /\ g <= disk[a.key].gen
    BY DEF IsBetween
  <1>2. disk[a.key].gen \in Nat /\ disk'[a.key].gen \in Nat
    BY <1>1 DEF VodIInv, ServedFromCache, ArchiveIsTyped
  <1>3. disk[a.key].gen <= disk'[a.key].gen
    BY <1>1
  <1>4. g <= disk'[a.key].gen
    BY <1>1, <1>2, <1>3
  <1> QED BY <1>1, <1>4 DEF IsBetween

LEMMA ArchiveGrows ==
    ASSUME VodIInv, [VodNext]_allVars, NEW k \in DOMAIN Recordings
    PROVE  disk[k].gen <= disk'[k].gen
  <1>1. /\ disk \in [DOMAIN Recordings -> [gen : Nat, left : {"all", "manifest", "nothing"}]]
        /\ disk[k].gen \in Nat
    BY DEF VodIInv, ServedFromCache, ArchiveIsTyped
  <1>2. CASE disk' = disk
    BY <1>1, <1>2
  <1>3. ASSUME NEW l \in DOMAIN disk, ReplaceFiles(l) PROVE disk[k].gen <= disk'[k].gen
    <2>1. disk' = [disk EXCEPT ![l] = [gen |-> disk[l].gen + 1, left |-> "all"]]
      BY <1>3 DEF ReplaceFiles, ChangeFiles
    <2>2. CASE k = l
      <3>1. disk'[k].gen = disk[k].gen + 1
        BY <1>1, <2>1, <2>2
      <3> QED BY <1>1, <3>1
    <2>3. CASE k # l
      BY <1>1, <2>1, <2>3
    <2> QED BY <2>2, <2>3
  <1>4. ASSUME NEW l \in DOMAIN disk, NEW left, RemoveFiles(l, left)
        PROVE  disk[k].gen <= disk'[k].gen
    <2>1. disk' = [disk EXCEPT ![l] = [disk[l] EXCEPT !.left = left]]
      BY <1>4 DEF RemoveFiles, ChangeFiles
    <2>2. disk'[k].gen = disk[k].gen
      BY <1>1, <2>1
    <2> QED BY <1>1, <2>2
  <1>5. \/ disk' = disk
        \/ \E l \in DOMAIN disk : ReplaceFiles(l)
        \/ \E l \in DOMAIN disk, left \in {"manifest", "nothing"} : RemoveFiles(l, left)
    <2>1. UNCHANGED allVars \/ VodNext
      OBVIOUS
    <2>2. UNCHANGED confVars \/ UNCHANGED vodVars \/ UNCHANGED allVars => disk' = disk
      BY DEF confVars, vodVars, allVars
    <2>3. (\E allow, seed : PostPlayready(allow, seed)) \/ (\E l : PostVod(l)) => disk' = disk
      BY DEF PostPlayready, PostVod, OnlyConf
    <2>4. \/ \E r, u : GetRefused(r, u) \/ GetNow(r, u) \/ GetBreaks(r, u) \/ GetChunk(r, u)
          \/ \E w : Assemble(w)
          \/ FinishChunk \/ Release
          => UNCHANGED confVars
      BY DEF GetRefused, GetNow, GetBreaks, GetChunk, Assemble, FinishChunk, Release
    <2> HIDE DEF allVars
    <2> QED BY <2>1, <2>2, <2>3, <2>4 DEF VodNext
  <1> QED BY <1>2, <1>3, <1>4, <1>5

(* Steps that open nothing, read nothing and answer nothing                *)
LEMMA OthersKeepPast ==
    ASSUME VodIInv, VodIInv', GenerationsGrow,
           \A k \in DOMAIN Recordings : disk[k].gen <= disk'[k].gen,
           UNCHANGED <<query, answer>>, cache' = cache \/ cache' = <<>>,
           \A q \in Requests : At(idle', q) = At(idle, q)
    PROVE  GenerationsGrow'
  <1>1. query' = query /\ answer' = answer
    OBVIOUS
  <1>2. \A g, a : IsBetween(g, a) => IsBetween(g, a)'
    BY OlderStaysPast
  <1>3. CachedIsPast'
    <2>1. DOMAIN <<>> = {}
      OBVIOUS
    <2>2. \A h \in DOMAIN cache' : h \in DOMAIN cache /\ cache'[h] = cache[h]
      BY <2>1
    <2>3. ASSUME NEW h \in DOMAIN cache', NEW b, b = cache'[h] PROVE IsBetween(b.gen, b)'
      <3>1. IsBetween(b.gen, b)
        BY <2>2, <2>3 DEF GenerationsGrow, CachedIsPast
      <3> QED BY <1>2, <3>1
    <2> QED BY <2>3 DEF CachedIsPast, IsBetween
  <1>4. FoundIsPast'
    BY <1>1, <1>2 DEF GenerationsGrow, FoundIsPast
  <1>5. ReadIsPast'
    BY <1>1, <1>2 DEF GenerationsGrow, ReadIsPast
  <1>6. SentIsPast'
    BY <1>1, <1>2 DEF GenerationsGrow, SentIsPast
  <1> QED BY <1>3, <1>4, <1>5, <1>6 DEF GenerationsGrow

(* What is opened is as old as the archive is now.                         *)
LEMMA OpeningKeepsPast ==
    ASSUME VodIInv, GenerationsGrow, NEW r \in Requests, NEW u \in Urls,
           IsNew(r), ~Refused(u), ~LoadBreaks(u), Open(u), Queries(r, Found(u)),
           disk' = disk, idle' = idle
    PROVE  CachedIsPast' /\ FoundIsPast' /\ ReadIsPast'
  <1> DEFINE a == Found(u)
  <1>1. IsBetween(a.gen, a)
    <2>1. CASE IsCached(u)
      BY <2>1 DEF IsCached, Found, GenerationsGrow, CachedIsPast
    <2>2. CASE ~IsCached(u)
      <3>1. a.key = u.key /\ a.gen = disk[u.key].gen
        BY <2>2 DEF Found, Adaptive
      <3>2. u.key \in DOMAIN Recordings /\ disk[u.key].gen \in Nat
        BY UrlsAssumption DEF VodIInv, ServedFromCache, ArchiveIsTyped
      <3> QED BY <3>1, <3>2 DEF IsBetween
    <2> QED BY <2>1, <2>2
  <1> HIDE DEF a
  <1>2. \A g, b : IsBetween(g, b)' <=> IsBetween(g, b)
    BY DEF IsBetween
  <1>3. /\ cache' = With(cache, HashKey(u), a)
        /\ query' = With(query, r, [adaptive |-> a, data |-> None])
    BY DEF Open, Keep, Queries, a
  <1>4. CachedIsPast'
    <2> SUFFICES ASSUME NEW h \in DOMAIN cache', NEW b, b = cache'[h] PROVE IsBetween(b.gen, b)
      BY <1>2 DEF CachedIsPast, IsBetween
    <2>1. b = a \/ (h \in DOMAIN cache /\ b = cache[h])
      BY <1>3 DEF With
    <2> QED BY <1>1, <2>1 DEF GenerationsGrow, CachedIsPast
  <1>5. ASSUME NEW q \in DOMAIN query'
        PROVE  IF q = r THEN query'[q] = [adaptive |-> a, data |-> None]
               ELSE q \in DOMAIN query /\ query'[q] = query[q]
    BY <1>3, <1>5 DEF With
  <1>6. FoundIsPast'
    <2> SUFFICES ASSUME NEW q \in DOMAIN query', NEW b, b = query'[q].adaptive
                 PROVE  IsBetween(b.gen, b)
      BY <1>2 DEF FoundIsPast, IsBetween
    <2>1. b = a \/ (q \in DOMAIN query /\ b = query[q].adaptive)
      BY <1>5
    <2> QED BY <1>1, <2>1 DEF GenerationsGrow, FoundIsPast
  <1>7. r \notin DOMAIN query
    BY DEF IsNew, VodIInv, ServedFromCache, AskedFirst
  <1>8. ReadIsPast'
    <2> SUFFICES ASSUME NEW q \in Requests, At(idle, q) # {},
                        NEW d, d = query'[q], NEW b, b = d.adaptive, NEW g, g = d.data.gen
                 PROVE  IsBetween(g, b)
      BY <1>2 DEF ReadIsPast, IsBetween
    <2>1. q \in DOMAIN query
      BY DEF VodIInv, ServedFromCache, PlacedIsAsked, Placed
    <2>2. d = query[q]
      BY <1>3, <1>7, <2>1 DEF With
    <2> QED BY <2>2 DEF GenerationsGrow, ReadIsPast
  <1> QED BY <1>4, <1>6, <1>8

LEMMA AskingKeepsPast ==
    ASSUME VodIInv, GenerationsGrow, NEW r \in Requests, NEW u \in Urls,
           GetRefused(r, u) \/ GetNow(r, u) \/ GetChunk(r, u)
    PROVE  GenerationsGrow'
  <1>1. disk' = disk /\ idle' = idle
    BY DEF GetRefused, GetNow, GetChunk, Request, confVars, vars
  <1>2. \A g, b : IsBetween(g, b)' <=> IsBetween(g, b)
    BY <1>1 DEF IsBetween
  <1>3. CachedIsPast' /\ FoundIsPast' /\ ReadIsPast'
    <2>1. CASE GetRefused(r, u)
      <3>1. cache' = cache /\ query' = query
        BY <2>1 DEF GetRefused
      <3> QED BY <1>1, <3>1
             DEF GenerationsGrow, CachedIsPast, FoundIsPast, ReadIsPast, IsBetween
    <2>2. CASE GetNow(r, u) \/ GetChunk(r, u)
      <3>1. /\ IsNew(r) /\ ~Refused(u) /\ ~LoadBreaks(u) /\ Open(u)
            /\ Queries(r, Found(u))
        BY <2>2 DEF GetNow, GetChunk
      <3> QED BY <1>1, <3>1, OpeningKeepsPast
    <2> QED BY <2>1, <2>2
  <1>4. \/ answer' = answer
        \/ \E x : answer' = With(answer, r, x) /\ x.what # "chunk"
    <2>1. NotFound.what # "chunk" /\ AnswerNow(Found(u), u).what # "chunk"
      <3>1. NotFound.what # "chunk"
        BY DEF NotFound
      <3>2. AnswerNow(Found(u), u).what # "chunk"
        BY DEF AnswerNow, Header, Empty, NotFound, Manifest
      <3> QED BY <3>1, <3>2
    <2> QED BY <2>1 DEF GetRefused, GetNow, GetChunk, Answers
  <1>5. SentIsPast'
    <2> SUFFICES ASSUME NEW q \in DOMAIN answer', NEW x, x = answer'[q], x.what = "chunk"
                 PROVE  IsBetween(x.gen, x.of)
      BY <1>2 DEF SentIsPast, IsBetween
    <2>1. q \in DOMAIN answer /\ x = answer[q]
      BY <1>4 DEF With
    <2> QED BY <2>1 DEF GenerationsGrow, SentIsPast
  <1> QED BY <1>3, <1>5 DEF GenerationsGrow

(* A worker reads the files as they are now.                               *)
LEMMA ReadingKeepsPast ==
    ASSUME VodIInv, GenerationsGrow, NEW w \in Workers, Assemble(w)
    PROVE  GenerationsGrow'
  <1> DEFINE r == worker[w]
             a == query[r].adaptive
             x == Assembled(a, asked[r].url)
  <1>1. /\ r \in Requests /\ Process(w) /\ query' = [query EXCEPT ![r].data = x]
        /\ disk' = disk /\ cache' = cache /\ answer' = answer
    BY DEF Assemble, confVars
  <1>2. \A g, b : IsBetween(g, b)' <=> IsBetween(g, b)
    BY <1>1 DEF IsBetween
  <1>3. /\ Placed(r)
        /\ \A q \in Requests : At(idle', q) # {} => At(idle, q) # {} \/ q = r
    BY <1>1, WhereTheyAre DEF VodIInv
  <1>4. /\ r \in DOMAIN query /\ query[r] = [adaptive |-> query[r].adaptive, data |-> query[r].data]
        /\ FitsIts(a, asked[r].url, asked[r].allowed)
    BY <1>1, <1>3 DEF VodIInv, ServedFromCache, PlacedIsAsked, QueriesFit
  <1>5. IsBetween(x.gen, a)
    <2>1. IsBetween(a.gen, a)
      BY <1>4 DEF GenerationsGrow, FoundIsPast
    <2>2. a.key = asked[r].url.key
      BY <1>4 DEF FitsIts, HashKey
    <2>3. x.gen = disk[a.key].gen
      BY <2>2 DEF Assembled
    <2>4. disk[a.key].gen \in Nat
      BY <2>1 DEF IsBetween, VodIInv, ServedFromCache, ArchiveIsTyped
    <2> QED BY <2>1, <2>3, <2>4 DEF IsBetween
  <1> HIDE DEF r, x
  <1>6. /\ DOMAIN query' = DOMAIN query
        /\ \A q \in DOMAIN query : q # r => query'[q] = query[q]
        /\ query'[r] = [query[r] EXCEPT !.data = x]
    BY <1>1, <1>4
  <1>7. query'[r].adaptive = a /\ query'[r].data = x
    BY <1>4, <1>6
  <1> HIDE DEF a
  <1>8. CachedIsPast' /\ SentIsPast'
    BY <1>1 DEF GenerationsGrow, CachedIsPast, SentIsPast, IsBetween
  <1>9. FoundIsPast'
    <2> SUFFICES ASSUME NEW q \in DOMAIN query', NEW b, b = query'[q].adaptive
                 PROVE  IsBetween(b.gen, b)
      BY <1>2 DEF FoundIsPast, IsBetween
    <2>1. q \in DOMAIN query /\ b = query[q].adaptive
      BY <1>6, <1>7 DEF a
    <2> QED BY <2>1 DEF GenerationsGrow, FoundIsPast
  <1>10. ReadIsPast'
    <2> SUFFICES ASSUME NEW q \in Requests, At(idle', q) # {},
                        NEW d, d = query'[q], NEW b, b = d.adaptive, NEW g, g = d.data.gen
                 PROVE  IsBetween(g, b)
      BY <1>2 DEF ReadIsPast, IsBetween
    <2>1. CASE q = r
      BY <1>5, <1>7, <2>1
    <2>2. CASE q # r
      <3>1. At(idle, q) # {} /\ q \in DOMAIN query
        BY <1>3, <2>2 DEF VodIInv, ServedFromCache, PlacedIsAsked, Placed
      <3>2. d = query[q]
        BY <1>6, <2>2, <3>1
      <3> QED BY <3>1, <3>2 DEF GenerationsGrow, ReadIsPast
    <2> QED BY <2>1, <2>2
  <1> QED BY <1>8, <1>9, <1>10 DEF GenerationsGrow

LEMMA SendingKeepsPast ==
    ASSUME VodIInv, GenerationsGrow, FinishChunk
    PROVE  GenerationsGrow'
  <1> DEFINE r == Head(idle)
             x == query[r].data
  <1>1. /\ Finish /\ answer' = With(answer, r, x)
        /\ disk' = disk /\ cache' = cache /\ query' = query
    BY DEF FinishChunk, Answers, confVars
  <1>2. \A g, b : IsBetween(g, b)' <=> IsBetween(g, b)
    BY <1>1 DEF IsBetween
  <1>3. /\ At(idle, r) # {} /\ r \in Requests
        /\ \A q \in Requests : At(idle', q) # {} => At(idle, q) # {}
    BY <1>1, WhereTheyAre DEF VodIInv
  <1>4. IsBetween(x.gen, x.of)
    BY <1>3
       DEF GenerationsGrow, ReadIsPast, VodIInv, ServedFromCache, FinishedIsAssembled, IsChunkOf
  <1> HIDE DEF r, x
  <1>5. CachedIsPast' /\ FoundIsPast'
    BY <1>1 DEF GenerationsGrow, CachedIsPast, FoundIsPast, IsBetween
  <1>6. ReadIsPast'
    BY <1>1, <1>3 DEF GenerationsGrow, ReadIsPast, IsBetween
  <1>7. SentIsPast'
    <2> SUFFICES ASSUME NEW q \in DOMAIN answer', NEW y, y = answer'[q], y.what = "chunk"
                 PROVE  IsBetween(y.gen, y.of)
      BY <1>2 DEF SentIsPast, IsBetween
    <2>1. y = x \/ (q \in DOMAIN answer /\ y = answer[q])
      BY <1>1 DEF With
    <2> QED BY <1>4, <2>1 DEF GenerationsGrow, SentIsPast
  <1> QED BY <1>5, <1>6, <1>7 DEF GenerationsGrow

(* The invariant of the generations                                        *)
THEOREM PastInductive == VodSpec => [](VodIInv /\ GenerationsGrow)
  <1>1. ASSUME VodIInv, VodIInv', GenerationsGrow, [VodNext]_allVars PROVE GenerationsGrow'
    <2>1. \A k \in DOMAIN Recordings : disk[k].gen <= disk'[k].gen
      BY <1>1, ArchiveGrows
    <2>2. ASSUME \/ UNCHANGED allVars
                 \/ \E r \in Requests, u \in Urls : GetBreaks(r, u)
                 \/ \E w \in Workers : Pop(w) /\ UNCHANGED vodVars
                 \/ \E r \in Requests : Finished(r) /\ UNCHANGED vodVars
                 \/ \E allow, seed : PostPlayready(allow, seed)
                 \/ \E levels : PostVod(levels)
                 \/ \E k : ReplaceFiles(k)
                 \/ \E k, left : RemoveFiles(k, left)
                 \/ Release
          PROVE  GenerationsGrow'
      <3>1. UNCHANGED <<query, answer>> /\ (cache' = cache \/ cache' = <<>>)
        BY <2>2 DEF allVars, vodVars, GetBreaks, PostPlayready, PostVod, OnlyConf,
                    ReplaceFiles, RemoveFiles, ChangeFiles, Release
      <3>2. \/ UNCHANGED vars
            \/ \E w \in Workers : Pop(w)
            \/ \E r \in Requests : Finished(r)
            \/ ReleaseServer
        BY <2>2 DEF allVars, GetBreaks, PostPlayready, PostVod, OnlyConf,
                    ReplaceFiles, RemoveFiles, ChangeFiles, Release
      <3>3. \A q \in Requests : At(idle', q) = At(idle, q)
        BY <1>1, <3>2, WhereTheyAre DEF VodIInv
      <3> QED BY <1>1, <2>1, <3>1, <3>3, OthersKeepPast
    <2>3. CASE \E r \in Requests, u \in Urls : GetRefused(r, u) \/ GetNow(r, u) \/ GetChunk(r, u)
      BY <1>1, <2>3, AskingKeepsPast
    <2>4. CASE \E w \in Workers : Assemble(w)
      BY <1>1, <2>4, ReadingKeepsPast
    <2>5. CASE FinishChunk
      BY <1>1, <2>5, SendingKeepsPast
    <2> QED BY <1>1, <2>2, <2>3, <2>4, <2>5 DEF VodNext
  <1>2. Init /\ VodInit => GenerationsGrow
    <2> SUFFICES ASSUME Init, VodInit PROVE GenerationsGrow
      OBVIOUS
    <2>1. DOMAIN cache = {} /\ DOMAIN query = {} /\ DOMAIN answer = {}
      <3>1. DOMAIN <<>> = {}
        OBVIOUS
      <3> QED BY <3>1 DEF VodInit
    <2>2. \A r \in Requests : At(idle, r) = {}
      BY DEF Init, At
    <2> QED BY <2>1, <2>2 DEF GenerationsGrow, CachedIsPast, FoundIsPast, ReadIsPast, SentIsPast
  <1> QED BY <1>1, <1>2, VodInductive, PTL DEF VodSpec

(* Every chunk that a manifest has announced is found in the recording the *)
(* manifest was made of, under the key of its protection header, whatever  *)
(* was posted and replaced in between; and its bytes are of the files the  *)
(* manifest was made of, unless those were replaced in between.            *)
THEOREM AnnouncedCorrect == VodSpec => []AnnouncedIsServed
  <1>1. ASSUME VodIInv, GenerationsGrow PROVE AnnouncedIsServed
    <2> SUFFICES ASSUME NEW m \in DOMAIN answer, NEW r \in DOMAIN answer,
                        answer[m].what = "manifest", m \in asked[r].seen,
                        HashKey(asked[r].url) = HashKey(asked[m].url),
                        asked[r].url.drm = "clear" => asked[r].allowed,
                        NEW item \in answer[m].lists,
                        Fetches(item, asked[r].url), IsUnambiguous(answer[m].of, item)
                 PROVE  \/ answer[r] = Empty /\ asked[r].url.q.head
                        \/ /\ answer[r].what = "chunk" /\ answer[r].of = answer[m].of
                           /\ Opens(answer[m].protection, answer[r].key)
                           /\ answer[r].gen = answer[m].of.gen \/ IsReplaced(answer[m].of)
      BY DEF AnnouncedIsServed
    <2> DEFINE a == query[m].adaptive
               u == asked[r].url
    <2>1. m \in DOMAIN query
      <3>1. answer[m] # NotFound
        <4>1. NotFound.what = "not found"
          BY DEF NotFound
        <4> QED BY <4>1
      <3> QED BY <1>1, <3>1 DEF VodIInv, ServedFromCache, AnswersAreRight
    <2>2. r \in DOMAIN query /\ r \in DOMAIN asked
      BY <1>1, <2>1 DEF VodIInv, ServedFromCache, AskedFirst, SeenIsFound
    <2>3. query[r].adaptive = a
      BY <1>1, <2>1, <2>2 DEF VodIInv, ServedFromCache, OneRecording
    <2>4. IsAnswerTo(answer[m], a, asked[m].url) /\ IsAnswerTo(answer[r], a, u)
      BY <1>1, <2>1, <2>2, <2>3 DEF VodIInv, ServedFromCache, AnswersAreRight
    <2>5. FitsIts(a, u, asked[r].allowed)
      BY <1>1, <2>2, <2>3 DEF VodIInv, ServedFromCache, QueriesFit
    <2> HIDE DEF a, u
    <2>6. answer[m] = Manifest(a, asked[m].url.q)
      <3>1. answer[m] = AnswerNow(a, asked[m].url)
        BY <2>4 DEF IsAnswerTo, IsChunkOf
      <3> QED BY <3>1, ManifestIsOf
    <2>7. answer[m].of = a /\ answer[m].protection = ProtectionHeader(a)
      BY <2>6 DEF Manifest
    <2>8. IsRecording(a) /\ u.stream = a.stream /\ a.stream \in StreamTypes
      BY <2>5 DEF FitsIts, HashKey
    <2>9. NeedsWorker(a, u) \/ (AnswerNow(a, u) = Empty /\ u.q.head)
      <3>1. item \in Manifest(a, asked[m].url.q).lists
        BY <2>6
      <3>2. Fetches(item, u) /\ IsUnambiguous(a, item)
        BY <2>7 DEF u
      <3> QED BY <2>8, <3>1, <3>2, ListedIsNamed
    <2>10. CASE NeedsWorker(a, u)
      <3>1. /\ answer[r].what = "chunk" /\ answer[r].of = a
            /\ answer[r].key = IF a.drm = "clear" THEN None ELSE a.content_key
        BY <2>4, <2>10 DEF IsAnswerTo, IsChunkOf
      <3>2. Opens(ProtectionHeader(a), answer[r].key)
        BY <3>1 DEF Opens, ProtectionHeader
      <3>3. IsBetween(answer[r].gen, a)
        BY <1>1, <3>1 DEF GenerationsGrow, SentIsPast
      <3>4. answer[r].gen = a.gen \/ IsReplaced(a)
        <4>1. disk[a.key].gen \in Nat
          BY <1>1, <3>3 DEF IsBetween, VodIInv, ServedFromCache, ArchiveIsTyped
        <4> QED BY <3>3, <4>1 DEF IsBetween, IsReplaced
      <3> QED BY <2>7, <3>1, <3>2, <3>4
    <2>11. CASE ~NeedsWorker(a, u)
      BY <2>4, <2>9, <2>11 DEF IsAnswerTo, u
    <2> QED BY <2>10, <2>11
  <1> QED BY <1>1, PastInductive, PTL
=============================================================================
