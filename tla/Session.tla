------------------------------- MODULE Session -------------------------------
(***************************************************************************)
(* A bucket of sessions, as the admin's (internal/auth) and the visitors'  *)
(* (internal/commentauth) packages keep one each, with the same code.  A   *)
(* request reads its session in one transaction, extends it in memory and  *)
(* writes it back in another; a logout may come between the two.           *)
(***************************************************************************)
EXTENDS Naturals

CONSTANTS
    Sid,        \* session ids
    Request,    \* concurrent requests
    None,       \* no session
    MaxAge,     \* a session's longest life
    BrowserAge, \* the life of a session that is not to be remembered
    TouchAfter, \* a use extends a session that was not used for so long
    MaxTime     \* bound: the clock

ASSUME SessionAssumption ==
    /\ MaxAge \in Nat /\ BrowserAge \in 0..MaxAge /\ TouchAfter \in Nat /\ MaxTime \in Nat
    /\ None \notin [created: Nat, expires: Nat, seen: Nat]

VARIABLES
    now,        \* the clock
    sessions,   \* the bucket
    issued,     \* ids that were handed out: random, so never again
    held,       \* each request: the session it has read and extended
    cookie,     \* each request: the id of the session it is busy with
    ended       \* history: ids whose logout or expiry met no request that held them

sessionVars == <<sessions, issued, held, cookie, ended>>

SessionRecord == [created: 0..MaxTime, expires: 0..MaxTime + MaxAge, seen: 0..MaxTime]

SessionTypeOK ==
    /\ now \in 0..MaxTime
    /\ sessions \in [Sid -> SessionRecord \union {None}]
    /\ issued \subseteq Sid /\ ended \subseteq Sid
    /\ held \in [Request -> SessionRecord \union {None}]
    /\ cookie \in [Request -> Sid \union {None}]

Expired(session) == now > session.expires

\* CreateSession: a fresh id, and the full life only for those who asked to be remembered.
CreateSession(s, persistent) ==
    /\ s \notin issued /\ issued' = issued \union {s}
    /\ sessions' = [sessions EXCEPT ![s] =
          [created |-> now, expires |-> now + (IF persistent THEN MaxAge ELSE BrowserAge),
           seen |-> now]]

Earlier(a, b) == IF a < b THEN a ELSE b

\* Mutant: an extension starts the life anew.
TouchUncapped(session) ==
    [session EXCEPT !.seen = now,
        !.expires = IF now - session.seen >= TouchAfter THEN now + MaxAge ELSE @]

\* TouchSession: never beyond MaxAge after the session's creation.
TouchSession(session) ==
    LET end == session.created + MaxAge IN
    [session EXCEPT !.seen = now,
        !.expires = IF now - session.seen >= TouchAfter /\ now < end
                    THEN Earlier(now + MaxAge, end) ELSE @]

\* The first half of ValidateSession: the request goes on with an extended copy.
ReadSession(r, s) ==
    /\ sessions[s] # None /\ ~Expired(sessions[s])
    /\ held' = [held EXCEPT ![r] = TouchSession(sessions[s])]
    /\ cookie' = [cookie EXCEPT ![r] = s]
    /\ UNCHANGED <<sessions, issued, ended>>

\* ValidateSession finds it expired, and goes on to delete it.
FindExpired(r, s) ==
    /\ sessions[s] # None /\ Expired(sessions[s])
    /\ cookie' = [cookie EXCEPT ![r] = s]
    /\ UNCHANGED <<sessions, issued, held, ended>>

\* The other half puts the copy, whatever has become of the session.
WriteSession(r) ==
    /\ sessions' = [sessions EXCEPT ![cookie[r]] = held[r]]
    /\ held' = [held EXCEPT ![r] = None] /\ cookie' = [cookie EXCEPT ![r] = None]
    /\ UNCHANGED <<issued, ended>>

Holds(r, s) == held[r] # None /\ cookie[r] = s

\* Mutant: the id is looked up and nothing deleted.
KeepSession(s) ==
    /\ UNCHANGED sessions
    /\ ended' = IF \E r \in Request : Holds(r, s) THEN ended ELSE ended \union {s}

\* DeleteSession, by a logout or by a request that finds the session expired.
DeleteSession(s) ==
    /\ sessions' = [sessions EXCEPT ![s] = None]
    /\ ended' = IF \E r \in Request : Holds(r, s) THEN ended ELSE ended \union {s}

SessionInit ==
    /\ now = 0 /\ sessions = [s \in Sid |-> None] /\ issued = {} /\ ended = {}
    /\ held = [r \in Request |-> None] /\ cookie = [r \in Request |-> None]

-----------------------------------------------------------------------------
(* However often and with however old a copy it is extended, a session ends at the *)
(* latest MaxAge after it was created.                                             *)
Capped(session) == session # None => session.expires <= session.created + MaxAge
SessionCapped == (\A s \in Sid : Capped(sessions[s])) /\ (\A r \in Request : Capped(held[r]))

(* A session whose logout met no request that had read it and was still to write it   *)
(* back stays out; one whose logout did is there again when the request has written.  *)
LogoutHolds == \A s \in ended : sessions[s] = None /\ \A r \in Request : ~Holds(r, s)

(* A session ends at the end of its longest life, whatever requests hold copies of it, *)
(* and with a logout that meets no such copy.                                          *)
SessionsHold == SessionCapped /\ LogoutHolds
=============================================================================
