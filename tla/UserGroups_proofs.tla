-------------------------- MODULE UserGroups_proofs --------------------------
(***************************************************************************)
(* Proofs about UserGroups, for every set of users, of sessions and of     *)
(* groups, and every timeout.                                              *)
(*                                                                         *)
(* What the properties say of the present follows from what the table, the *)
(* sessions and the configuration file owe to each other: a session is not *)
(* born in the future, a user without information has been granted nothing,*)
(* and what was granted is in the file as well as in the table.            *)
(***************************************************************************)
EXTENDS UserGroups, TLAPS

(* No session is younger than the clock.                                   *)
BornIsPast ==
    \A s \in Ids : session[s] # None => session[s].born <= clock

(* What was granted is in the file too, and only to users in the table.    *)
GrantsAreSaved ==
    "again" \notin stale => \A u \in Users :
        /\ granted[u] \subseteq groups[u]
        /\ granted[u] \subseteq saved[u]
        /\ users[u] = 0 => granted[u] = {}

(* A session with the right of an administrator was created before its     *)
(* user left the group.                                                    *)
RightsAreOlder ==
    \A s \in Ids : session[s] # None /\ session[s].admin /\ ~IsAdmin(session[s].user) =>
        session[s].born <= lost[session[s].user]

IInv == TypeOK /\ BornIsPast /\ PrivIsCurrent /\ GrantsAreSaved /\ RightsAreOlder

Record == [user : Users, born : 0 .. MaxTime, admin : BOOLEAN, priv : 0 .. MaxInfos]

-----------------------------------------------------------------------------
(* A session that has been created has a user.                             *)
LEMMA SessionType ==
    ASSUME TypeOK, NEW s \in Ids, session[s] # None
    PROVE  session[s] \in Record
  BY DEF TypeOK, Record

LEMMA LostNowType == ASSUME TypeOK PROVE LostNow \in [Users -> 0 .. MaxTime]
  BY DEF TypeOK, LostNow

LEMMA AccountsType == ASSUME TypeOK PROVE Accounts \in [Users -> (SUBSET Groups) \cup {Absent}]
  BY DEF TypeOK, Accounts

LEMMA TypesAtStart == Init => TypeOK
  <1> SUFFICES ASSUME Init PROVE TypeOK
    OBVIOUS
  <1>1. 0 \in 0 .. MaxTime /\ 0 \in 0 .. MaxInfos
    BY BoundAssumption
  <1>2. /\ users \in [Users -> 0 .. MaxInfos] /\ made \in [Users -> 0 .. MaxInfos]
        /\ lost \in [Users -> 0 .. MaxTime]
    BY <1>1 DEF Init
  <1>3. saved \in [Users -> (SUBSET Groups) \cup {Absent}]
    BY DEF Init
  <1> QED BY <1>1, <1>2, <1>3 DEF Init, TypeOK

LEMMA TypesKept == TypeOK /\ [Next]_vars => TypeOK'
  <1> SUFFICES ASSUME TypeOK, [Next]_vars PROVE TypeOK'
    OBVIOUS
  <1>0. Timeout \in Nat /\ MaxTime \in Nat /\ MaxInfos \in Nat \ {0}
    BY BoundAssumption
  <1>1. CASE UNCHANGED vars
    BY <1>1 DEF vars, TypeOK
  <1>2. ASSUME NEW s \in Ids, NEW u \in Users, LogIn(s, u) PROVE TypeOK'
    BY <1>2 DEF LogIn, TypeOK, IsAdmin
  <1>3. ASSUME NEW s \in Ids, LogOut(s) PROVE TypeOK'
    BY <1>3 DEF LogOut, TypeOK
  <1>4. CASE Tick
    BY <1>0, <1>4 DEF Tick, TypeOK
  <1>5. ASSUME NEW s \in Ids, RequestAccount(s) PROVE TypeOK'
    <2> DEFINE u == session[s].user
    <2>1. /\ session[s] \in Record
          /\ u \in Users /\ made[u] \in 0 .. MaxInfos /\ made[u] < MaxInfos
      BY <1>5, SessionType DEF RequestAccount, Live, TypeOK, Record
    <2>2. made' \in [Users -> 0 .. MaxInfos] /\ made'[u] \in 0 .. MaxInfos
      BY <1>0, <1>5, <2>1 DEF RequestAccount, TypeOK
    <2>3. users' \in [Users -> 0 .. MaxInfos] /\ groups' \in [Users -> SUBSET Groups]
      BY <1>5, <2>2 DEF RequestAccount, TypeOK
    <2>4. [session[s] EXCEPT !.priv = made'[u]] \in Record
      BY <2>1, <2>2 DEF Record
    <2>5. session' \in [Ids -> {None} \cup Record]
      BY <1>5, <2>4 DEF RequestAccount, TypeOK, Record
    <2>6. stale' \subseteq {"again", "reload"} /\ lost' \in [Users -> 0 .. MaxTime]
      BY <1>5, LostNowType DEF RequestAccount, TypeOK
    <2> QED BY <1>5, <2>2, <2>3, <2>5, <2>6 DEF RequestAccount, TypeOK, Record
  <1>6. ASSUME NEW s \in Ids, ViewProfile(s) PROVE TypeOK'
    BY <1>6 DEF ViewProfile, Dangling, TypeOK
  <1>7. ASSUME NEW u \in Users, NEW g \in Groups, Grant(u, g) PROVE TypeOK'
    <2>1. groups' \in [Users -> SUBSET Groups] /\ granted' \in [Users -> SUBSET Groups]
      BY <1>7 DEF Grant, TypeOK
    <2>2. saved' \in [Users -> (SUBSET Groups) \cup {Absent}]
      BY <1>7, <2>1 DEF Grant, Accounts, TypeOK
    <2> QED BY <1>7, <2>1, <2>2 DEF Grant, TypeOK
  <1>8. ASSUME NEW u \in Users, NEW g \in Groups, Revoke(u, g) PROVE TypeOK'
    <2>1. groups' \in [Users -> SUBSET Groups] /\ granted' \in [Users -> SUBSET Groups]
      BY <1>8 DEF Revoke, TypeOK
    <2>2. saved' \in [Users -> (SUBSET Groups) \cup {Absent}]
      BY <1>8, <2>1 DEF Revoke, Accounts, TypeOK
    <2>3. lost' \in [Users -> 0 .. MaxTime]
      BY <1>8, LostNowType DEF Revoke
    <2> QED BY <1>8, <2>1, <2>2, <2>3 DEF Revoke, TypeOK
  <1>9. CASE SaveConfig
    BY <1>9, AccountsType DEF SaveConfig, TypeOK
  <1>10. ASSUME NEW accounts \in [Users -> (SUBSET Groups) \cup {Absent}], SetUsers(accounts)
         PROVE  TypeOK'
    <2>1. made' \in [Users -> 0 .. MaxInfos] /\ users' \in [Users -> 0 .. MaxInfos]
      BY <1>0, <1>10 DEF SetUsers, TypeOK
    <2>2. \A u \in Users : accounts[u] \ Absent \in SUBSET Groups
      BY <1>10 DEF Absent
    <2>3. groups' \in [Users -> SUBSET Groups] /\ granted' = groups'
      BY <1>10, <2>2 DEF SetUsers
    <2>4. lost' \in [Users -> 0 .. MaxTime] /\ saved' = accounts
      BY <1>10, LostNowType DEF SetUsers
    <2> QED BY <1>10, <2>1, <2>3, <2>4 DEF SetUsers, TypeOK
  <1>11. CASE Restart
    <2>1. \A u \in Users : saved[u] = Absent \/ (saved[u] \subseteq Groups /\ made[u] <= MaxInfos)
      BY <1>0 DEF TypeOK
    <2>2. made' \in [Users -> 0 .. MaxInfos]
      BY <1>0, <1>11 DEF Restart, TypeOK
    <2>3. groups' \in [Users -> SUBSET Groups]
      BY <1>11, <2>1 DEF Restart
    <2>4. users' = made' /\ lost' \in [Users -> 0 .. MaxTime]
      BY <1>0, <1>11 DEF Restart
    <2>5. session' \in [Ids -> {None} \cup Record]
      BY <1>11 DEF Restart
    <2> QED BY <1>11, <2>2, <2>3, <2>4, <2>5 DEF Restart, TypeOK, Record
  <1> QED
    BY <1>1, <1>2, <1>3, <1>4, <1>5, <1>6, <1>7, <1>8, <1>9, <1>10, <1>11 DEF Next

-----------------------------------------------------------------------------
LEMMA InvariantAtStart == Init => IInv
  <1> SUFFICES ASSUME Init PROVE IInv
    OBVIOUS
  <1>1. TypeOK
    BY TypesAtStart
  <1>2. \A s \in Ids : session[s] = None
    BY DEF Init
  <1>3. BornIsPast /\ PrivIsCurrent /\ RightsAreOlder
    BY <1>2 DEF Init, BornIsPast, PrivIsCurrent, RightsAreOlder
  <1>4. GrantsAreSaved
    BY DEF Init, GrantsAreSaved
  <1> QED BY <1>1, <1>3, <1>4 DEF IInv

(* When somebody ceases to be an administrator, that is written down.      *)
LEMMA LostNowIsClock ==
    ASSUME TypeOK, NEW u \in Users, lost' = LostNow, ~IsAdmin(u)'
    PROVE  lost'[u] = IF IsAdmin(u) THEN clock ELSE lost[u]
  BY DEF TypeOK, LostNow

(* Steps that leave the sessions alone, and the clock.                     *)
LEMMA SessionsKept ==
    ASSUME IInv, UNCHANGED <<clock, session>>,
           \/ lost' = LostNow
           \/ lost' = lost /\ \A u \in Users : IsAdmin(u) => IsAdmin(u)'
    PROVE  BornIsPast' /\ RightsAreOlder'
  <1>1. BornIsPast'
    BY DEF IInv, BornIsPast
  <1>2. ASSUME NEW s \in Ids, session[s] # None, session[s].admin,
               ~IsAdmin(session[s].user)'
        PROVE  session[s].born <= lost'[session[s].user]
    <2> DEFINE u == session[s].user
    <2>1. session[s] \in Record /\ u \in Users
      BY <1>2, SessionType DEF IInv, Record
    <2>2. CASE IsAdmin(u)
      <3>1. lost'[u] = clock
        BY <1>2, <2>1, <2>2, LostNowIsClock DEF IInv
      <3> QED BY <1>2, <3>1 DEF IInv, BornIsPast
    <2>3. CASE ~IsAdmin(u)
      <3>1. lost'[u] = lost[u]
        BY <1>2, <2>1, <2>3, LostNowIsClock DEF IInv
      <3> QED BY <1>2, <2>3, <3>1 DEF IInv, RightsAreOlder
    <2> QED BY <2>2, <2>3
  <1>3. RightsAreOlder'
    BY <1>2 DEF RightsAreOlder
  <1> QED BY <1>1, <1>3

(* A session is created.                                                   *)
LEMMA LogInKeeps ==
    ASSUME IInv, NEW s \in Ids, NEW u \in Users, LogIn(s, u)
    PROVE  BornIsPast' /\ PrivIsCurrent' /\ GrantsAreSaved' /\ RightsAreOlder'
  <1> DEFINE new == [user |-> u, born |-> clock, admin |-> IsAdmin(u), priv |-> users[u]]
  <1>1. /\ session' = [session EXCEPT ![s] = new]
        /\ session \in [Ids -> {None} \cup Record]
        /\ UNCHANGED <<clock, users, groups, made, saved, granted, lost, stale, wild>>
    BY DEF LogIn, IInv, TypeOK, Record
  <1>2. /\ session'[s] = new
        /\ \A t \in Ids \ {s} : session'[t] = session[t]
    BY <1>1
  <1>3. clock \in Nat
    BY BoundAssumption DEF IInv, TypeOK
  <1>4. \A v : IsAdmin(v)' = IsAdmin(v)
    BY <1>1 DEF IsAdmin
  <1>5. BornIsPast'
    BY <1>1, <1>2, <1>3 DEF IInv, BornIsPast
  <1>6. RightsAreOlder'
    BY <1>1, <1>2, <1>4 DEF IInv, RightsAreOlder
  <1>7. PrivIsCurrent'
    BY <1>1, <1>2 DEF IInv, PrivIsCurrent, Dangling
  <1>8. GrantsAreSaved'
    BY <1>1 DEF IInv, GrantsAreSaved
  <1> QED BY <1>5, <1>6, <1>7, <1>8

(* A user without information asks for an account: the information that    *)
(* the user may have by now is replaced.                                   *)
LEMMA RequestAccountKeeps ==
    ASSUME IInv, NEW s \in Ids, RequestAccount(s)
    PROVE  BornIsPast' /\ PrivIsCurrent' /\ GrantsAreSaved' /\ RightsAreOlder'
  <1> DEFINE u == session[s].user
             n == made'[u]
  <1>1. /\ session[s] \in Record /\ session[s] # None
        /\ session[s].priv = 0 /\ u \in Users
    BY SessionType DEF RequestAccount, Live, IInv, Record
  <1>2. /\ users' = [users EXCEPT ![u] = n]
        /\ groups' = [groups EXCEPT ![u] = {}]
        /\ session' = [session EXCEPT ![s].priv = n]
        /\ stale' = stale \cup (IF users[u] = 0 THEN {} ELSE {"again"})
        /\ lost' = LostNow
        /\ UNCHANGED <<clock, saved, granted, wild>>
    BY DEF RequestAccount
  <1>3. n \in Nat /\ n # 0
    BY <1>1, BoundAssumption DEF RequestAccount, IInv, TypeOK
  <1>4. /\ session \in [Ids -> {None} \cup Record] /\ users \in [Users -> 0 .. MaxInfos]
        /\ groups \in [Users -> SUBSET Groups]
    BY DEF IInv, TypeOK, Record
  <1> HIDE DEF u, n
  <1>5. /\ session'[s].user = session[s].user /\ session'[s].born = session[s].born
        /\ session'[s].admin = session[s].admin /\ session'[s].priv = n
        /\ \A t \in Ids \ {s} : session'[t] = session[t]
    BY <1>1, <1>2, <1>4 DEF Record
  <1>6. BornIsPast'
    BY <1>1, <1>2, <1>5 DEF IInv, BornIsPast
  <1>7. ASSUME NEW t \in Ids, session'[t] # None, session'[t].admin,
               ~IsAdmin(session[t].user)'
        PROVE  session'[t].born <= lost'[session'[t].user]
    <2> DEFINE v == session[t].user
    <2>1. /\ session[t] # None /\ session[t].admin
          /\ session'[t].user = v /\ session'[t].born = session[t].born
      BY <1>1, <1>5, <1>7
    <2>2. v \in Users
      BY <2>1, SessionType DEF IInv, Record
    <2>5. ~IsAdmin(v)'
      BY <1>7, <2>1 DEF IsAdmin
    <2>3. lost'[v] = IF IsAdmin(v) THEN clock ELSE lost[v]
      BY <1>2, <2>2, <2>5, LostNowIsClock DEF IInv
    <2>4. IF IsAdmin(v) THEN session[t].born <= clock ELSE session[t].born <= lost[v]
      BY <2>1 DEF IInv, BornIsPast, RightsAreOlder
    <2> QED BY <2>1, <2>3, <2>4
  <1>8. RightsAreOlder'
    BY <1>7 DEF RightsAreOlder
  <1>9. PrivIsCurrent'
    <2>1. SUFFICES ASSUME stale' = {}
                   PROVE  ~wild' /\ \A t \in Ids : session'[t] # None => ~Dangling(t)'
      BY DEF PrivIsCurrent
    <2>2. stale = {} /\ users[u] = 0
      BY <1>2, <2>1
    <2>3. ~wild /\ \A t \in Ids : session[t] # None => ~Dangling(t)
      BY <2>2 DEF IInv, PrivIsCurrent
    <2>4. ~Dangling(s)'
      BY <1>1, <1>2, <1>4, <1>5 DEF Dangling, u
    <2>5. ASSUME NEW t \in Ids \ {s}, session'[t] # None PROVE ~Dangling(t)'
      <3>1. session[t].priv \in {0, users[session[t].user]} /\ session'[t] = session[t]
        BY <1>5, <2>3, <2>5 DEF Dangling
      <3>2. session[t].user \in Users
        BY <1>5, <2>5, SessionType DEF IInv, Record
      <3>3. session[t].user = u => session[t].priv = 0
        BY <2>2, <3>1
      <3> QED BY <1>2, <1>4, <3>1, <3>2, <3>3 DEF Dangling
    <2> QED BY <1>2, <2>3, <2>4, <2>5
  <1>10. GrantsAreSaved'
    <2>1. SUFFICES ASSUME "again" \notin stale', NEW v \in Users
                   PROVE  /\ granted[v] \subseteq groups'[v]
                          /\ granted[v] \subseteq saved[v]
                          /\ users'[v] = 0 => granted[v] = {}
      BY <1>2 DEF GrantsAreSaved
    <2>2. "again" \notin stale /\ users[u] = 0
      BY <1>2, <2>1
    <2>3. /\ granted[v] \subseteq groups[v] /\ granted[v] \subseteq saved[v]
          /\ users[v] = 0 => granted[v] = {}
      BY <2>2 DEF IInv, GrantsAreSaved
    <2> QED BY <1>2, <1>3, <1>4, <2>2, <2>3
  <1> QED BY <1>6, <1>8, <1>9, <1>10

(* What an administrator does to one user's groups.                        *)
LEMMA GrantKeeps ==
    ASSUME IInv, NEW u \in Users, NEW g \in Groups, Grant(u, g) \/ Revoke(u, g)
    PROVE  BornIsPast' /\ PrivIsCurrent' /\ GrantsAreSaved' /\ RightsAreOlder'
  <1>1. /\ users[u] # 0
        /\ UNCHANGED <<clock, users, session, stale, wild>>
        /\ saved' = Accounts'
    BY DEF Grant, Revoke
  <1>2. /\ users \in [Users -> 0 .. MaxInfos] /\ groups \in [Users -> SUBSET Groups]
        /\ granted \in [Users -> SUBSET Groups]
    BY DEF IInv, TypeOK
  <1>3. \/ lost' = LostNow
        \/ lost' = lost /\ \A v \in Users : IsAdmin(v) => IsAdmin(v)'
    BY <1>2 DEF Grant, Revoke, IsAdmin
  <1>4. BornIsPast' /\ RightsAreOlder'
    BY <1>1, <1>3, SessionsKept
  <1>5. PrivIsCurrent'
    BY <1>1 DEF IInv, PrivIsCurrent, Dangling
  <1>6. GrantsAreSaved'
    <2>1. SUFFICES ASSUME "again" \notin stale, NEW v \in Users
                   PROVE  /\ granted'[v] \subseteq groups'[v]
                          /\ granted'[v] \subseteq saved'[v]
                          /\ users[v] = 0 => granted'[v] = {}
      BY <1>1 DEF GrantsAreSaved
    <2>2. granted[v] \subseteq groups[v] /\ (users[v] = 0 => granted[v] = {})
      BY <2>1 DEF IInv, GrantsAreSaved
    <2>3. granted'[v] \subseteq groups'[v] /\ (users[v] = 0 => granted'[v] = {})
      BY <1>1, <1>2, <2>2 DEF Grant, Revoke
    <2>4. saved'[v] = IF users[v] = 0 THEN Absent ELSE groups'[v]
      BY <1>1 DEF Accounts
    <2> QED BY <2>3, <2>4
  <1> QED BY <1>4, <1>5, <1>6

(* The table is emptied and filled again.                                  *)
LEMMA SetUsersKeeps ==
    ASSUME IInv, NEW accounts \in [Users -> (SUBSET Groups) \cup {Absent}],
           SetUsers(accounts)
    PROVE  BornIsPast' /\ PrivIsCurrent' /\ GrantsAreSaved' /\ RightsAreOlder'
  <1>1. BornIsPast' /\ RightsAreOlder'
    BY SessionsKept DEF SetUsers
  <1>2. PrivIsCurrent'
    BY DEF SetUsers, PrivIsCurrent
  <1>3. ASSUME NEW v \in Users
        PROVE  /\ granted'[v] = groups'[v] /\ granted'[v] \subseteq saved'[v]
               /\ users'[v] = 0 => granted'[v] = {}
    <2>1. /\ granted'[v] = accounts[v] \ Absent /\ groups'[v] = accounts[v] \ Absent
          /\ saved'[v] = accounts[v]
          /\ users'[v] = IF accounts[v] = Absent THEN 0 ELSE made[v] + 1
      BY DEF SetUsers
    <2>2. made[v] \in Nat
      BY BoundAssumption DEF IInv, TypeOK
    <2> QED BY <2>1, <2>2
  <1>4. GrantsAreSaved'
    BY <1>3 DEF GrantsAreSaved
  <1> QED BY <1>1, <1>2, <1>4

(* The process starts again, with the table in the file and no session.    *)
LEMMA RestartKeeps ==
    ASSUME IInv, Restart
    PROVE  BornIsPast' /\ PrivIsCurrent' /\ GrantsAreSaved' /\ RightsAreOlder'
  <1>1. \A s \in Ids : session'[s] = None
    BY DEF Restart
  <1>2. BornIsPast' /\ RightsAreOlder'
    BY <1>1 DEF BornIsPast, RightsAreOlder
  <1>3. PrivIsCurrent'
    BY <1>1 DEF Restart, IInv, PrivIsCurrent
  <1>4. ASSUME "again" \notin stale, NEW v \in Users
        PROVE  /\ granted[v] \subseteq groups'[v] /\ granted[v] \subseteq saved[v]
               /\ users'[v] = 0 => granted[v] = {}
    <2>1. /\ groups'[v] = saved[v] \ Absent
          /\ users'[v] = IF saved[v] = Absent THEN 0 ELSE 1
      BY DEF Restart
    <2>2. granted[v] \subseteq saved[v] /\ granted[v] \subseteq Groups
      BY <1>4 DEF IInv, TypeOK, GrantsAreSaved
    <2>3. granted[v] \cap Absent = {}
      BY <2>2, GroupsAssumption DEF Absent
    <2> QED BY <2>1, <2>2, <2>3
  <1>5. GrantsAreSaved'
    BY <1>4 DEF Restart, GrantsAreSaved
  <1> QED BY <1>2, <1>3, <1>5

LEMMA InvariantKept == IInv /\ [Next]_vars => IInv'
  <1> SUFFICES ASSUME IInv, [Next]_vars
               PROVE  BornIsPast' /\ PrivIsCurrent' /\ GrantsAreSaved' /\ RightsAreOlder'
    BY TypesKept DEF IInv
  <1> DEFINE Goal == BornIsPast' /\ PrivIsCurrent' /\ GrantsAreSaved' /\ RightsAreOlder'
  <1>1. CASE UNCHANGED vars
    BY <1>1
       DEF vars, IInv, BornIsPast, PrivIsCurrent, GrantsAreSaved, RightsAreOlder, IsAdmin,
           Dangling
  <1>2. ASSUME NEW s \in Ids, NEW u \in Users, LogIn(s, u) PROVE Goal
    BY <1>2, LogInKeeps
  <1>3. ASSUME NEW s \in Ids, LogOut(s) PROVE Goal
    <2>1. \A t \in Ids : session'[t] = None \/ session'[t] = session[t]
      BY <1>3 DEF LogOut, IInv, TypeOK
    <2>2. /\ UNCHANGED <<clock, users, groups, made, saved, granted, lost, stale, wild>>
          /\ \A v : IsAdmin(v)' = IsAdmin(v)
      BY <1>3 DEF LogOut, IsAdmin
    <2>3. BornIsPast' /\ RightsAreOlder'
      BY <2>1, <2>2 DEF IInv, BornIsPast, RightsAreOlder
    <2>4. PrivIsCurrent'
      BY <2>1, <2>2 DEF IInv, PrivIsCurrent, Dangling
    <2>5. GrantsAreSaved'
      BY <2>2 DEF IInv, GrantsAreSaved
    <2> QED BY <2>3, <2>4, <2>5
  <1>4. CASE Tick
    <2>1. /\ clock \in Nat /\ clock' = clock + 1
          /\ UNCHANGED <<users, groups, session, saved, granted, lost, stale, wild>>
          /\ \A v : IsAdmin(v)' = IsAdmin(v)
      BY <1>4, BoundAssumption DEF Tick, IInv, TypeOK, IsAdmin
    <2>2. BornIsPast'
      <3>1. ASSUME NEW s \in Ids, session[s] # None PROVE session[s].born <= clock + 1
        <4>1. session[s].born \in Nat /\ session[s].born <= clock
          BY <3>1, SessionType, BoundAssumption DEF IInv, BornIsPast, Record
        <4> QED BY <2>1, <4>1
      <3> QED BY <2>1, <3>1 DEF BornIsPast
    <2>3. RightsAreOlder'
      BY <2>1 DEF IInv, RightsAreOlder
    <2>4. PrivIsCurrent' /\ GrantsAreSaved'
      BY <2>1 DEF IInv, PrivIsCurrent, Dangling, GrantsAreSaved
    <2> QED BY <2>2, <2>3, <2>4
  <1>5. ASSUME NEW s \in Ids, RequestAccount(s) PROVE Goal
    BY <1>5, RequestAccountKeeps
  <1>6. ASSUME NEW s \in Ids, ViewProfile(s) PROVE Goal
    <2>1. UNCHANGED <<clock, users, groups, session, saved, granted, lost, stale>>
      BY <1>6 DEF ViewProfile
    <2>2. BornIsPast' /\ RightsAreOlder' /\ GrantsAreSaved'
      BY <2>1 DEF IInv, BornIsPast, RightsAreOlder, GrantsAreSaved, IsAdmin
    <2>3. PrivIsCurrent'
      BY <1>6, <2>1 DEF ViewProfile, Live, IInv, PrivIsCurrent, Dangling
    <2> QED BY <2>2, <2>3
  <1>7. ASSUME NEW u \in Users, NEW g \in Groups, Grant(u, g) \/ Revoke(u, g) PROVE Goal
    BY <1>7, GrantKeeps
  <1>8. CASE SaveConfig
    <2>1. /\ UNCHANGED <<clock, users, groups, session, granted, lost, stale, wild>>
          /\ saved' = Accounts
      BY <1>8 DEF SaveConfig
    <2>2. BornIsPast' /\ RightsAreOlder' /\ PrivIsCurrent'
      BY <2>1 DEF IInv, BornIsPast, RightsAreOlder, IsAdmin, PrivIsCurrent, Dangling
    <2>3. GrantsAreSaved'
      BY <2>1 DEF IInv, GrantsAreSaved, Accounts
    <2> QED BY <2>2, <2>3
  <1>9. ASSUME NEW accounts \in [Users -> (SUBSET Groups) \cup {Absent}], SetUsers(accounts)
        PROVE  Goal
    BY <1>9, SetUsersKeeps
  <1>10. CASE Restart
    BY <1>10, RestartKeeps
  <1> QED BY <1>1, <1>2, <1>3, <1>4, <1>5, <1>6, <1>7, <1>8, <1>9, <1>10 DEF Next

(* What the table, the sessions and the file owe to each other holds       *)
(* always.                                                                 *)
THEOREM Inductive == Spec => []IInv
  BY InvariantAtStart, InvariantKept, PTL DEF Spec

-----------------------------------------------------------------------------
(* What the sessions point to (priv of gss_session_new) can be used, but   *)
(* for the two ways that stale records.                                    *)
THEOREM PointersCorrect == Spec => []PointersAreSound
  <1>1. IInv => PointersAreSound
    BY DEF IInv, PointersAreSound
  <1> QED BY <1>1, Inductive, PTL

(* What an administrator grants is not lost by any order of posts, account *)
(* requests, crashes and restarts.                                         *)
THEOREM GrantsCorrect == Spec => []GrantsAreKept
  <1>1. IInv => GrantsAreKept
    BY DEF IInv, GrantsAreSaved, GrantsAreKept
  <1> QED BY <1>1, Inductive, PTL

(* The right that _gss_user_authorize gave to a session ends, whatever the *)
(* timeout is, no later than that after its user left the group.           *)
THEOREM RightsCorrect == Spec => []RightsOutliveTheGroupBriefly
  <1>1. IInv => RightsOutliveTheGroupBriefly
    <2>1. SUFFICES ASSUME IInv, NEW s \in Ids, Live(s), session[s].admin,
                          ~IsAdmin(session[s].user)
                   PROVE  clock <= lost[session[s].user] + Timeout
      BY DEF RightsOutliveTheGroupBriefly
    <2>2. /\ session[s] \in Record /\ clock <= session[s].born + Timeout
          /\ session[s].born <= lost[session[s].user]
      BY <2>1, SessionType DEF Live, IInv, RightsAreOlder
    <2>3. /\ session[s].born \in Nat /\ lost[session[s].user] \in Nat
          /\ clock \in Nat /\ Timeout \in Nat
      BY <2>1, <2>2, BoundAssumption DEF IInv, TypeOK, Record
    <2> QED BY <2>2, <2>3
  <1> QED BY <1>1, Inductive, PTL
=============================================================================
