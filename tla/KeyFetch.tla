------------------------------ MODULE KeyFetch -------------------------------
(***************************************************************************)
(* The key-fetch queue: a request whose signature cannot be checked puts   *)
(* its key there, and one background goroutine goes through the queue,     *)
(* stores the actors it can fetch and gives up on the others.  Each step   *)
(* of the goroutine is one transaction, with the fetch before it, and the  *)
(* process may end between any two.                                        *)
(***************************************************************************)
EXTENDS Naturals

CONSTANTS
    Actor,      \* remote actors
    Key,        \* key ids that signatures name
    Absent,     \* no entry, no actor
    ActorOf,    \* keyIDToActorIRI: the actor whose document the URL of a key leads to,
                \* or Absent when the key is no URL
    maxKeyFetchAttempts

ASSUME ActorOfAssumption == ActorOf \in [Key -> Actor \union {Absent}]
ASSUME AttemptsAssumption == maxKeyFetchAttempts \in Nat
ASSUME AbsentAssumption == Absent \notin Actor \union Key \union Nat

VARIABLES
    keyFetch,   \* bucket "key_fetch": the attempts recorded for each queued key
    actors,     \* bucket "actor": the remote actors in it
    up,         \* the server runs
    step,       \* the goroutine: asleep, in a pass, or with an actor just stored
    current,    \* the key whose actor it has just stored
    list        \* what is left of the entries it read at the start of the pass

fetcher == <<step, current, list>>
vars == <<keyFetch, actors, up, fetcher>>

Attempts == 0 .. maxKeyFetchAttempts
Entry == Attempts \union {Absent}

Nothing == [k \in Key |-> Absent]

-----------------------------------------------------------------------------
\* Mutant: a key that is queued already starts again.
EnqueueAgain(k) == keyFetch' = [keyFetch EXCEPT ![k] = 0]

EnqueueKeyFetch(k) ==
    keyFetch' = IF keyFetch[k] = Absent THEN [keyFetch EXCEPT ![k] = 0] ELSE keyFetch

\* VerifyRequest cannot check the signature of a request.
VerifyFails(k) ==
    /\ up
    /\ EnqueueKeyFetch(k)
    /\ UNCHANGED <<actors, up, fetcher>>

-----------------------------------------------------------------------------
(* processKeyFetchQueue: a pass over the entries as they were at its start. *)
Tick ==
    /\ up /\ step = "asleep"
    /\ step' = "pass" /\ list' = keyFetch
    /\ UNCHANGED <<keyFetch, actors, up, current>>

RemoveKeyFetch(k) == keyFetch' = [keyFetch EXCEPT ![k] = Absent]

IncrementKeyFetchAttempt(k) ==
    keyFetch' = [keyFetch EXCEPT ![k] = IF @ = Absent THEN 1 ELSE @ + 1]

Advance(k) ==
    /\ step' = "pass" /\ current' = Absent
    /\ list' = [list EXCEPT ![k] = Absent]

AtEntry(k) == step = "pass" /\ list[k] # Absent

\* Mutant: one attempt too many.
GivesUpLate(k) == list[k] > maxKeyFetchAttempts \/ ActorOf[k] = Absent

\* Mutant: one attempt too few.
GivesUpEarly(k) == list[k] + 1 >= maxKeyFetchAttempts \/ ActorOf[k] = Absent

GivesUp(k) == list[k] >= maxKeyFetchAttempts \/ ActorOf[k] = Absent

DropKey(k) ==
    /\ AtEntry(k) /\ GivesUp(k)
    /\ RemoveKeyFetch(k)
    /\ Advance(k)
    /\ UNCHANGED <<actors, up>>

\* The actor is not reached, what comes is no actor, or it cannot be stored.
FetchFails(k) ==
    /\ AtEntry(k) /\ ~GivesUp(k)
    /\ IncrementKeyFetchAttempt(k)
    /\ Advance(k)
    /\ UNCHANGED <<actors, up>>

\* The actor comes and is stored...
CacheRemoteActor(k) ==
    /\ AtEntry(k) /\ ~GivesUp(k)
    /\ actors' = actors \union {ActorOf[k]}
    /\ step' = "cached" /\ current' = k
    /\ UNCHANGED <<keyFetch, up, list>>

\* ...and then, in another transaction, its key leaves the queue.
KeyFetched ==
    /\ step = "cached"
    /\ RemoveKeyFetch(current)
    /\ Advance(current)
    /\ UNCHANGED <<actors, up>>

PassEnds ==
    /\ step = "pass" /\ list = Nothing
    /\ step' = "asleep"
    /\ UNCHANGED <<keyFetch, actors, up, current, list>>

-----------------------------------------------------------------------------
Stop ==
    /\ up
    /\ up' = FALSE
    /\ step' = "asleep" /\ current' = Absent /\ list' = Nothing
    /\ UNCHANGED <<keyFetch, actors>>

Start == ~up /\ up' = TRUE /\ UNCHANGED <<keyFetch, actors, fetcher>>

Init ==
    /\ keyFetch = Nothing /\ actors = {}
    /\ up = FALSE
    /\ step = "asleep" /\ current = Absent /\ list = Nothing

FetcherStep ==
    \/ Tick
    \/ \E k \in Key : DropKey(k) \/ FetchFails(k) \/ CacheRemoteActor(k)
    \/ KeyFetched
    \/ PassEnds

Next ==
    \/ \E k \in Key : VerifyFails(k)
    \/ FetcherStep
    \/ Stop
    \/ Start

Spec == Init /\ [][Next]_vars

\* While the process lives its ticker fires, and a fetch comes back.
FairSpec == Spec /\ WF_vars(FetcherStep)

-----------------------------------------------------------------------------
(***************************************************************************)
(* Properties.                                                             *)
(***************************************************************************)

\* Well-formed state; a key never has more attempts on record than are allowed.
TypeOK ==
    /\ keyFetch \in [Key -> Entry]
    /\ actors \subseteq Actor
    /\ up \in BOOLEAN
    /\ step \in {"asleep", "pass", "cached"}
    /\ current \in Key \union {Absent}
    /\ list \in [Key -> Entry]

Queued(k) == keyFetch[k] # Absent

\* What the goroutine read at the start of a pass is still so when it comes to an
\* entry: nothing a request does meanwhile makes it count on old attempts, or bring
\* a key back by counting an attempt for it.
ListIsCurrent == \A k \in Key : list[k] # Absent => keyFetch[k] = list[k]

Retry == INSTANCE RetryQueue WITH
    failures <- keyFetch, known <- {k \in Key : ActorOf[k] \in actors},
    Hopeless <- {k \in Key : ActorOf[k] = Absent}, Bound <- maxKeyFetchAttempts

\* A key's failures are counted one by one and never forgotten while it waits, and it
\* leaves for a reason only: its actor is stored, its attempts are used up, or it names
\* no actor.  No crash, stale list or repeated request cuts it short or starts it anew.
FailuresCount == Retry!RetrySpec

\* If the server comes to stay up, a key that is queued leaves the queue, though its
\* owner keeps sending requests that fail the check.
KeysSettle == <>[]up => \A k \in Key : Queued(k) ~> ~Queued(k)
=============================================================================
