------------------------------ MODULE Sessions ------------------------------
(***************************************************************************)
(* Login sessions (gss-session.c), the requests that present them          *)
(* (gss_server_resource_callback of gss-server.c) and the permanent ones,  *)
(* which the configuration file keeps (gss-user.c).                        *)
(*                                                                         *)
(* A session is a bearer of rights for at most Timeout after its login.    *)
(* Every lookup takes a reference that is never given back, and sweeps     *)
(* away the expired sessions it meets before it finds what it looks for.   *)
(* A session that shows up in a plain HTTP request is invalidated.  All    *)
(* handlers run in the main loop; the process may be stopped and started   *)
(* at any time.                                                            *)
(*                                                                         *)
(* An administrator may give a permanent session any id, also one that     *)
(* another session has or had, so a session is not its id.  A name of      *)
(* GssSessions that is no longer in the list may stand for a new session;  *)
(* its id is always the same.                                              *)
(***************************************************************************)
EXTENDS Integers, FiniteSets, SequencesExt

CONSTANTS GssSessions, \* names of the sessions that get made (bound)
          Id,          \* session->session_id of each
          NoId,        \* no session id in the query
          Timeout,     \* SESSION_TIMEOUT
          MaxTime,     \* bound on the clock
          MaxPending,  \* bound on assertions that are being verified
          MaxRefs,     \* bound on the references to a session
          MaxPosted    \* bound on the permanent sessions in one post

Ids == {Id[s] : s \in GssSessions}

ASSUME NoIdAssumption == NoId \notin Ids
ASSUME TimeAssumption == Timeout \in Nat /\ MaxTime \in Nat
ASSUME BoundAssumption == MaxPending \in Nat /\ MaxRefs \in Nat /\ MaxPosted \in Nat

VARIABLES clock,     \* time (NULL)
          list,      \* sessions, newest first
          kind,      \* what each session is
          admin,     \* session->is_admin
          born,      \* session->last_time
          refs,      \* session->refcount
          pending,   \* assertions sent to the verifier
          saved,     \* permanent-sessions in the configuration file
          exposed,   \* ids under which a plain HTTP request found a session
          excused,   \* sessions that have an exposed id nevertheless
          admitted   \* the session last served as such, and its age

vars == <<clock, list, kind, admin, born, refs, pending, saved, exposed,
          excused, admitted>>

Init ==
    /\ clock = 0
    /\ list = <<>>
    /\ kind = [s \in GssSessions |-> "unused"]
    /\ admin = [s \in GssSessions |-> FALSE]
    /\ born = [s \in GssSessions |-> 0]
    /\ refs = [s \in GssSessions |-> 0]
    /\ pending = 0
    /\ saved = <<>>
    /\ exposed = {}
    /\ excused = {}
    /\ admitted = {}

-----------------------------------------------------------------------------
Listed == ToSet(list)
Permanent(s) == kind[s] = "permanent"

(* __gss_session_is_valid of a listed session is false.                    *)
Expired(s) == ~Permanent(s) /\ born[s] + Timeout < clock

Precedes(l, s, t) == \E i, j \in DOMAIN l : i < j /\ l[i] = s /\ l[j] = t

Having(id) == {s \in Listed : Id[s] = id}

FoundExpired(id) ==  \* a mutant: the time is not looked at
    {s \in Having(id) : \A t \in Having(id) : ~Precedes(list, t, s)}

(* What gss_session_lookup finds: the first valid session with the id      *)
Found(id) == {s \in Having(id) : ~Expired(s) /\
                \A t \in Having(id) : Precedes(list, t, s) => Expired(t)}

CanLookUp(id) == \A s \in Found(id) : refs[s] < MaxRefs

(* The sessions it invalidates on its way.                                 *)
Swept(id) == {s \in Listed : Expired(s) /\
                \A t \in Found(id) : Precedes(list, s, t)}

(* The elements of a list that are in a set, in the order of the list: what*)
(* SelectSeq is, but without its recursion, which nothing can be proved of.*)
PlacesOf(l, S) == {i \in DOMAIN l : l[i] \in S}
Rank(places, i) == Cardinality({j \in places : j <= i})
Sublist(l, S) ==
    LET places == PlacesOf(l, S)
    IN  [k \in 1 .. Cardinality(places) |-> l[CHOOSE i \in places : Rank(places, i) = k]]

WithoutNothing(ended) == list  \* a mutant: the result of g_list_remove is lost

(* gss_session_invalidate of every session in a set                        *)
Without(ended) == Sublist(list, GssSessions \ ended)

(* The references after the given sessions were found and invalidated.     *)
Refs(found, ended) ==
    [s \in GssSessions |-> refs[s] + (IF s \in found THEN 1 ELSE 0)
                                   - (IF s \in ended THEN 1 ELSE 0)]

(* The permanent sessions, in the order of a list.                         *)
Permanents(l) == Sublist(l, {s \in GssSessions : Permanent(s)})

-----------------------------------------------------------------------------
(* gss_session_new with a random id: no session has had it before.         *)
Create(s, what, isAdmin) ==
    /\ \A t \in GssSessions : Id[t] = Id[s] => kind[t] = "unused"
    /\ kind' = [kind EXCEPT ![s] = what]
    /\ admin' = [admin EXCEPT ![s] = isAdmin]
    /\ born' = [born EXCEPT ![s] = clock]

(* A POST to /login over HTTPS with the right password, from an address    *)
(* that is allowed                                                         *)
Login(s) ==
    /\ Create(s, "login", TRUE)
    /\ list' = <<s>> \o list
    /\ refs' = [refs EXCEPT ![s] = 1]
    /\ UNCHANGED <<clock, pending, saved, exposed, excused, admitted>>

(* A POST to /login with an assertion, which the verifier is asked about   *)
AskVerifier ==
    /\ pending < MaxPending
    /\ pending' = pending + 1
    /\ UNCHANGED <<clock, list, kind, admin, born, refs, saved, exposed,
                   excused, admitted>>

(* persona_verify_done: the authorization function decides about rights.   *)
Verified(s, isAdmin) ==
    /\ pending > 0
    /\ pending' = pending - 1
    /\ Create(s, "login", isAdmin)
    /\ list' = <<s>> \o list
    /\ refs' = [refs EXCEPT ![s] = 1]
    /\ UNCHANGED <<clock, saved, exposed, excused, admitted>>

Rejected ==
    /\ pending > 0
    /\ pending' = pending - 1
    /\ UNCHANGED <<clock, list, kind, admin, born, refs, saved, exposed,
                   excused, admitted>>

(* What a resource asks for is met.                                        *)
Meets(id, needs, allowed) ==
    CASE needs = "nothing" -> TRUE
      [] needs = "user" -> Found(id) # {}
      [] needs = "admin" -> allowed /\ \E s \in Found(id) : admin[s]

(* A request over HTTPS: the session is found or swept away, and the       *)
(* resource is served to it or refused.                                    *)
SecureRequest(id, needs, allowed) ==
    /\ CanLookUp(id)
    /\ list' = Without(Swept(id))
    /\ refs' = Refs(Found(id), Swept(id))
    /\ admitted' = IF needs # "nothing" /\ Meets(id, needs, allowed)
                   THEN {[session |-> s, age |-> clock - born[s]] : s \in Found(id)}
                   ELSE admitted
    /\ UNCHANGED <<clock, kind, admin, born, pending, saved, exposed, excused>>

(* The network has seen the id of a session.  Another one that has the     *)
(* same id is not invalidated with it.                                     *)
Expose(id) ==
    /\ exposed' = exposed \cup {Id[s] : s \in Found(id)}
    /\ excused' = IF Found(id) = {} THEN excused
                  ELSE (excused \cup Having(id)) \ Found(id)

PlainRequestTrusting(id) ==  \* a mutant: the session stays valid
    /\ CanLookUp(id)
    /\ list' = Without(Swept(id))
    /\ refs' = Refs(Found(id), Swept(id))
    /\ Expose(id)
    /\ UNCHANGED <<clock, kind, admin, born, pending, saved, admitted>>

(* A request over plain HTTP: the session is invalidated, whatever its     *)
(* kind, and the request goes on without it.                               *)
PlainRequest(id) ==
    /\ CanLookUp(id)
    /\ list' = Without(Swept(id) \cup Found(id))
    /\ refs' = Refs(Found(id), Swept(id) \cup Found(id))
    /\ Expose(id)
    /\ UNCHANGED <<clock, kind, admin, born, pending, saved, admitted>>

(* /logout is served over HTTPS only, to anyone; a permanent session stays.*)
Logout(id) ==
    /\ CanLookUp(id)
    /\ LET ended == Swept(id) \cup {s \in Found(id) : ~Permanent(s)}
       IN /\ list' = Without(ended)
          /\ refs' = Refs(Found(id), ended)
    /\ UNCHANGED <<clock, kind, admin, born, pending, saved, exposed, excused,
                   admitted>>

-----------------------------------------------------------------------------
(* Posts of an administrator, whose own session is looked up first         *)

Administrates(id) == CanLookUp(id) /\ \E s \in Found(id) : admin[s]

AddPermanentUnsaved(by, s) ==  \* a mutant: the file is not written
    /\ Administrates(by)
    /\ Create(s, "permanent", TRUE)
    /\ list' = <<s>> \o Without(Swept(by))
    /\ refs' = [Refs(Found(by), Swept(by)) EXCEPT ![s] = 1]
    /\ UNCHANGED <<clock, pending, saved, exposed, excused, admitted>>

(* Action "add-session", which makes a random id, and the save that        *)
(* follows every post                                                      *)
AddPermanent(by, s) ==
    /\ Administrates(by)
    /\ Create(s, "permanent", TRUE)
    /\ list' = <<s>> \o Without(Swept(by))
    /\ refs' = [Refs(Found(by), Swept(by)) EXCEPT ![s] = 1]
    /\ saved' = <<s>> \o Permanents(Without(Swept(by)))
    /\ UNCHANGED <<clock, pending, exposed, excused, admitted>>

(* Action "remove-session": the second lookup walks what the first one     *)
(* has left.                                                               *)
RemoveSession(by, id) ==
    /\ Administrates(by)
    /\ CanLookUp(id)
    /\ LET ended == Swept(by) \cup Swept(id) \cup Found(id)
           left == Refs(Found(id), ended)
       IN /\ list' = Without(ended)
          /\ refs' = [s \in GssSessions |->
                        left[s] + (IF s \in Found(by) THEN 1 ELSE 0)]
          /\ saved' = Permanents(Without(ended))
    /\ UNCHANGED <<clock, kind, admin, born, pending, exposed, excused, admitted>>

(* The sessions that posts of "permanent-sessions" make: any ids, also the *)
(* same one twice                                                          *)
Posts == {p \in UNION {[1 .. n -> GssSessions] : n \in 0 .. MaxPosted} : IsInjective(p)}

(* A post of the property "permanent-sessions": all permanent sessions are *)
(* invalidated, the administrator's own among them, and one is made for    *)
(* each id of the posted string, whether or not a session has or had it.   *)
ReplacePermanent(by, posted) ==
    /\ Administrates(by)
    /\ LET ended == Swept(by) \cup {p \in Listed : Permanent(p)}
           made == ToSet(posted)
       IN /\ made \cap (Listed \ ended) = {}
          /\ list' = Reverse(posted) \o Without(ended)
          /\ kind' = [s \in GssSessions |-> IF s \in made THEN "permanent" ELSE kind[s]]
          /\ admin' = [s \in GssSessions |-> s \in made \/ admin[s]]
          /\ born' = [s \in GssSessions |-> IF s \in made THEN clock ELSE born[s]]
          /\ refs' = [s \in GssSessions |->
                        IF s \in made THEN 1 ELSE Refs(Found(by), ended)[s]]
          /\ excused' = (excused \ made) \cup {s \in made : Id[s] \in exposed}
    /\ saved' = Reverse(posted)
    /\ UNCHANGED <<clock, pending, exposed, admitted>>

(* Any other post that is followed by a save of the configuration          *)
SaveConfig(by) ==
    /\ Administrates(by)
    /\ list' = Without(Swept(by))
    /\ refs' = Refs(Found(by), Swept(by))
    /\ saved' = Permanents(Without(Swept(by)))
    /\ UNCHANGED <<clock, kind, admin, born, pending, exposed, excused, admitted>>

-----------------------------------------------------------------------------
Tick ==
    /\ clock < MaxTime
    /\ clock' = clock + 1
    /\ UNCHANGED <<list, kind, admin, born, refs, pending, saved, exposed,
                   excused, admitted>>

(* The process stops, or crashes, and starts again: the permanent sessions *)
(* are added one by one from the file, which main() then writes again.     *)
Restart ==
    /\ list' = Reverse(saved)
    /\ saved' = Reverse(saved)
    /\ LET made == ToSet(saved)
       IN /\ kind' = [s \in GssSessions |->
                        IF s \in made THEN "permanent"
                        ELSE IF kind[s] = "unused" THEN "unused" ELSE "lost"]
          /\ admin' = [s \in GssSessions |-> s \in made]
          /\ born' = [s \in GssSessions |-> IF s \in made THEN clock ELSE 0]
          /\ refs' = [s \in GssSessions |-> IF s \in made THEN 1 ELSE 0]
          /\ excused' = {s \in made : Id[s] \in exposed}
    /\ pending' = 0
    /\ admitted' = {}
    /\ UNCHANGED <<clock, exposed>>

Needs == {"nothing", "user", "admin"}

Next ==
    \/ \E s \in GssSessions : Login(s)
    \/ AskVerifier
    \/ \E s \in GssSessions, isAdmin \in BOOLEAN : Verified(s, isAdmin)
    \/ Rejected
    \/ \E id \in Ids \cup {NoId}, needs \in Needs, allowed \in BOOLEAN :
          SecureRequest(id, needs, allowed)
    \/ \E id \in Ids \cup {NoId} : PlainRequest(id)
    \/ \E id \in Ids \cup {NoId} : Logout(id)
    \/ \E by \in Ids, s \in GssSessions : AddPermanent(by, s)
    \/ \E by \in Ids, posted \in Posts : ReplacePermanent(by, posted)
    \/ \E by, id \in Ids : RemoveSession(by, id)
    \/ \E by \in Ids : SaveConfig(by)
    \/ Tick
    \/ Restart

Spec == Init /\ [][Next]_vars

-----------------------------------------------------------------------------
TypeOK ==
    /\ clock \in 0 .. MaxTime
    /\ list \in Seq(GssSessions)
    /\ kind \in [GssSessions -> {"unused", "login", "permanent", "lost"}]
    /\ admin \in [GssSessions -> BOOLEAN]
    /\ born \in [GssSessions -> 0 .. MaxTime]
    /\ refs \in [GssSessions -> Nat]
    /\ pending \in 0 .. MaxPending
    /\ saved \in Seq(GssSessions)
    /\ exposed \subseteq Ids
    /\ excused \subseteq GssSessions
    /\ admitted \subseteq [session : GssSessions, age : 0 .. MaxTime]

(* A session that can still be found is never freed, however often it was  *)
(* looked up, swept, logged out, removed by an administrator or seen over  *)
(* plain HTTP: the list is without duplicates and holds a reference.       *)
ListedIsReferenced ==
    /\ IsInjective(list)
    /\ \A s \in Listed : refs[s] >= 1

(* The list of sessions can be walked.                                     *)
ListIsSound == TypeOK /\ ListedIsReferenced

(* The rights of a login end Timeout after it, used or not: no request is  *)
(* served with them later, although expired sessions stay in the list      *)
(* until some lookup walks over them.                                      *)
RightsEnd == \A a \in admitted : Permanent(a.session) \/ a.age <= Timeout

(* An id under which a plain HTTP request has found a session is no longer *)
(* that of a session in the list.  The exceptions are the sessions that    *)
(* had the same id beside the one found, of which only the first is        *)
(* invalidated, and those made later under that id: by an administrator    *)
(* who posts it among the permanent sessions, or from the configuration    *)
(* file when the process starts again.                                     *)
ExposedIsDead == \A s \in Listed : Id[s] \in exposed => s \in excused

(* A crash loses no permanent session: every one is in the file, in order, *)
(* at every moment, and what the file has besides was seen over plain HTTP.*)
PermanentIsSaved ==
    /\ Permanents(list) = Sublist(saved, Listed)
    /\ \A s \in ToSet(saved) \ Listed : Id[s] \in exposed
=============================================================================
