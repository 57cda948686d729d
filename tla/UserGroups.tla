----------------------------- MODULE UserGroups -----------------------------
(***************************************************************************)
(* Users and their groups (gss-user.c) as the sessions see them.           *)
(*                                                                         *)
(* The module keeps a table from user names to their information, in which *)
(* an administrator grants and takes away groups.  A session looks its     *)
(* user up once, when it is created: it keeps a pointer to the information *)
(* it found, or none, and the right of an administrator for as long as it  *)
(* lives.  A user who has no information asks for an account through the   *)
(* profile page of a session.  The table is written to the configuration   *)
(* file by the posts of an administrator, not by those of a user.          *)
(*                                                                         *)
(* A pointer to an information is a number: how many had been allocated    *)
(* for its user when it was, or 0.  All but the last of a user are freed.  *)
(***************************************************************************)
EXTENDS Integers

CONSTANTS Users,     \* user names other than "admin" (bound)
          Ids,       \* sessions that get created (bound)
          Groups,    \* the names of groups, "admin" among them
          Timeout,   \* SESSION_TIMEOUT
          MaxTime,   \* bound on the clock
          MaxInfos   \* bound on the informations allocated for a user

ASSUME GroupsAssumption == "admin" \in Groups /\ "no account" \notin Groups
ASSUME BoundAssumption == {Timeout, MaxTime} \subseteq Nat /\ MaxInfos \in Nat \ {0}

VARIABLES clock,    \* time (NULL)
          users,    \* user->users: the information of each user, or 0
          groups,   \* ui->groups of that information
          made,     \* how many informations have been allocated
          session,  \* the sessions: user, last_time, is_admin and priv
          saved,    \* the property "users" in the configuration file
          granted,  \* what administrators have granted and not taken away
          lost,     \* when each user last ceased to be in group "admin"
          stale,    \* how informations came to be freed, so far
          wild      \* freed memory has been used: anything may follow

vars == <<clock, users, groups, made, session, saved, granted, lost, stale, wild>>

None == [user |-> "", born |-> 0, admin |-> FALSE, priv |-> 0]
Absent == {"no account"}

Init ==
    /\ clock = 0
    /\ users = [u \in Users |-> 0]
    /\ groups = [u \in Users |-> {}]
    /\ made = [u \in Users |-> 0]
    /\ session = [s \in Ids |-> None]
    /\ saved = [u \in Users |-> Absent]
    /\ granted = [u \in Users |-> {}]
    /\ lost = [u \in Users |-> 0]
    /\ stale = {}
    /\ wild = FALSE

-----------------------------------------------------------------------------
IsAdmin(u) == users[u] # 0 /\ "admin" \in groups[u]

LiveForever(s) == session[s] # None  \* a mutant: sessions do not expire

(* A request can be made with the session.                                 *)
Live(s) == session[s] # None /\ clock <= session[s].born + Timeout

(* What gss_user_get_string makes of the table                             *)
Accounts == [u \in Users |-> IF users[u] = 0 THEN Absent ELSE groups[u]]

(* When users last ceased to be in group "admin", after a step             *)
LostNow == [u \in Users |-> IF IsAdmin(u) /\ ~IsAdmin(u)' THEN clock ELSE lost[u]]

(* gss_session_new with _gss_user_authorize                                *)
LogIn(s, u) ==
    /\ session[s] = None
    /\ session' = [session EXCEPT ![s] =
                      [user |-> u, born |-> clock, admin |-> IsAdmin(u),
                       priv |-> users[u]]]
    /\ UNCHANGED <<clock, users, groups, made, saved, granted, lost, stale, wild>>

(* The session is logged out or otherwise invalidated.                     *)
LogOut(s) ==
    /\ session[s] # None
    /\ session' = [session EXCEPT ![s] = None]
    /\ UNCHANGED <<clock, users, groups, made, saved, granted, lost, stale, wild>>

Tick ==
    /\ clock < MaxTime
    /\ clock' = clock + 1
    /\ UNCHANGED <<users, groups, made, session, saved, granted, lost, stale, wild>>

-----------------------------------------------------------------------------
(* The profile page                                                        *)

(* A session whose user had no information when it was created asks for an *)
(* account.  The information that the user may have by now is replaced.    *)
RequestAccount(s) ==
    /\ Live(s)
    /\ session[s].priv = 0
    /\ LET u == session[s].user
       IN /\ made[u] < MaxInfos
          /\ made' = [made EXCEPT ![u] = @ + 1]
          /\ users' = [users EXCEPT ![u] = made'[u]]
          /\ groups' = [groups EXCEPT ![u] = {}]
          /\ session' = [session EXCEPT ![s].priv = made'[u]]
          /\ stale' = stale \cup (IF users[u] = 0 THEN {} ELSE {"again"})
    /\ lost' = LostNow
    /\ UNCHANGED <<clock, saved, granted, wild>>

(* The information a session points to has been freed.                     *)
Dangling(s) == session[s].priv \notin {0, users[session[s].user]}

(* gss_profile_get_resource reads the groups of the user.                  *)
ViewProfile(s) ==
    /\ Live(s)
    /\ session[s].priv # 0
    /\ wild' = Dangling(s)
    /\ UNCHANGED <<clock, users, groups, made, session, saved, granted, lost, stale>>

-----------------------------------------------------------------------------
(* Posts of an administrator (gss_user_post_resource), each followed by a  *)
(* save of the configuration                                               *)

GrantUnsaved(u, g) ==  \* a mutant: the file is not written
    /\ users[u] # 0
    /\ groups' = [groups EXCEPT ![u] = @ \cup {g}]
    /\ granted' = [granted EXCEPT ![u] = @ \cup {g}]
    /\ UNCHANGED <<clock, users, made, session, saved, lost, stale, wild>>

Grant(u, g) ==
    /\ users[u] # 0
    /\ groups' = [groups EXCEPT ![u] = @ \cup {g}]
    /\ granted' = [granted EXCEPT ![u] = @ \cup {g}]
    /\ UNCHANGED <<clock, users, made, session, lost, stale, wild>>
    /\ saved' = Accounts'

RevokeAndForget(u, g) ==  \* a mutant: a user without groups leaves the table
    /\ users[u] # 0
    /\ groups' = [groups EXCEPT ![u] = @ \ {g}]
    /\ granted' = [granted EXCEPT ![u] = @ \ {g}]
    /\ users' = IF groups[u] \subseteq {g} THEN [users EXCEPT ![u] = 0] ELSE users
    /\ UNCHANGED <<clock, made, session, stale, wild>>
    /\ saved' = Accounts'
    /\ lost' = LostNow

Revoke(u, g) ==
    /\ users[u] # 0
    /\ groups' = [groups EXCEPT ![u] = @ \ {g}]
    /\ granted' = [granted EXCEPT ![u] = @ \ {g}]
    /\ UNCHANGED <<clock, users, made, session, stale, wild>>
    /\ saved' = Accounts'
    /\ lost' = LostNow

(* Any other post, those that fail among them                              *)
SaveConfig ==
    /\ saved' = Accounts
    /\ UNCHANGED <<clock, users, groups, made, session, granted, lost, stale, wild>>

(* The property "users" is set to a string that names some accounts: the   *)
(* table is emptied and filled again.                                      *)
SetUsers(accounts) ==
    /\ \A u \in Users : made[u] < MaxInfos
    /\ made' = [u \in Users |-> IF accounts[u] = Absent THEN made[u] ELSE made[u] + 1]
    /\ users' = [u \in Users |-> IF accounts[u] = Absent THEN 0 ELSE made'[u]]
    /\ groups' = [u \in Users |-> accounts[u] \ Absent]
    /\ granted' = groups'
    /\ saved' = accounts
    /\ lost' = LostNow
    /\ stale' = stale \cup {"reload"}
    /\ UNCHANGED <<clock, session, wild>>

(* The process stops, or crashes, and starts again: no session is left and *)
(* the table is filled from the configuration file.                        *)
Restart ==
    /\ session' = [s \in Ids |-> None]
    /\ made' = [u \in Users |-> IF saved[u] = Absent THEN 0 ELSE 1]
    /\ users' = made'
    /\ groups' = [u \in Users |-> saved[u] \ Absent]
    /\ lost' = [u \in Users |-> 0]
    /\ UNCHANGED <<clock, saved, granted, stale, wild>>

Next ==
    /\ ~wild
    /\ \/ \E s \in Ids, u \in Users : LogIn(s, u)
       \/ \E s \in Ids : LogOut(s)
       \/ Tick
       \/ \E s \in Ids : RequestAccount(s)
       \/ \E s \in Ids : ViewProfile(s)
       \/ \E u \in Users, g \in Groups : Grant(u, g) \/ Revoke(u, g)
       \/ SaveConfig
       \/ \E accounts \in [Users -> (SUBSET Groups) \cup {Absent}] : SetUsers(accounts)
       \/ Restart

Spec == Init /\ [][Next]_vars

-----------------------------------------------------------------------------
TypeOK ==
    /\ clock \in 0 .. MaxTime
    /\ users \in [Users -> 0 .. MaxInfos]
    /\ groups \in [Users -> SUBSET Groups]
    /\ made \in [Users -> 0 .. MaxInfos]
    /\ session \in [Ids -> {None} \cup
                      [user : Users, born : 0 .. MaxTime, admin : BOOLEAN,
                       priv : 0 .. MaxInfos]]
    /\ saved \in [Users -> (SUBSET Groups) \cup {Absent}]
    /\ granted \in [Users -> SUBSET Groups]
    /\ lost \in [Users -> 0 .. MaxTime]
    /\ stale \subseteq {"again", "reload"}
    /\ wild \in BOOLEAN

(* The information a session points to is the one in the table, as long as *)
(* the table has not been set anew and no account was requested twice for  *)
(* one user, by two sessions that are both older than it.  Those two are   *)
(* the ways in which a session comes to use freed memory.                  *)
PrivIsCurrent ==
    stale = {} => /\ ~wild
                  /\ \A s \in Ids : session[s] # None => ~Dangling(s)

(* What sessions point to can be used.                                     *)
PointersAreSound == TypeOK /\ PrivIsCurrent

(* What an administrator grants stays granted until an administrator takes *)
(* it away, across crashes and restarts too, with the same exception of an *)
(* account that is requested twice.                                        *)
GrantsAreKept ==
    "again" \notin stale => \A u \in Users : granted[u] \subseteq groups[u]

(* A session keeps the right of an administrator after its user has left   *)
(* the group, but for no longer than Timeout.                              *)
RightsOutliveTheGroupBriefly ==
    \A s \in Ids : Live(s) /\ session[s].admin /\ ~IsAdmin(session[s].user) =>
        clock <= lost[session[s].user] + Timeout
=============================================================================
