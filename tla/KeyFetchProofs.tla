--------------------------- MODULE KeyFetchProofs ----------------------------
(***************************************************************************)
(* The key-fetch queue keeps its bound and gives no key up early, for any  *)
(* keys, actors and limit.  What makes it work is that the goroutine's     *)
(* list stays true of the queue while it works through it (ListIsCurrent): *)
(* an attempt is then always counted for a queued key that has one left,   *)
(* and every step of the goroutine is one of RetryQueue.                   *)
(***************************************************************************)
EXTENDS KeyFetch, TLAPS

USE ActorOfAssumption, AttemptsAssumption, AbsentAssumption

\* The goroutine's list is of its pass only, and an actor it has just stored is one
\* it was to fetch.
FetcherInv ==
    /\ ~up => step = "asleep"
    /\ step = "asleep" => list = Nothing
    /\ step = "cached" => /\ current \in Key
                          /\ list[current] # Absent
                          /\ ActorOf[current] \in actors

KInv == TypeOK /\ ListIsCurrent /\ FetcherInv

LEMMA InitKInv == Init => KInv
BY DEF Init, KInv, TypeOK, ListIsCurrent, FetcherInv, Nothing, Entry

LEMMA StepKInv == KInv /\ [Next]_vars => KInv'
<1> SUFFICES ASSUME KInv, [Next]_vars PROVE KInv'
    OBVIOUS
<1> USE DEF KInv, TypeOK, ListIsCurrent, FetcherInv, Nothing, Entry, Attempts
<1>1. ASSUME NEW k \in Key, VerifyFails(k) PROVE KInv'
    BY <1>1 DEF VerifyFails, EnqueueKeyFetch, fetcher
<1>2. CASE Tick
    BY <1>2 DEF Tick
<1>3. ASSUME NEW k \in Key, DropKey(k) PROVE KInv'
    BY <1>3 DEF DropKey, AtEntry, RemoveKeyFetch, Advance
<1>4. ASSUME NEW k \in Key, FetchFails(k) PROVE KInv'
    <2>1. keyFetch[k] = list[k] /\ keyFetch[k] \in Nat /\ keyFetch[k] + 1 \in Attempts
        BY <1>4 DEF FetchFails, AtEntry, GivesUp
    <2>2. keyFetch' = [keyFetch EXCEPT ![k] = keyFetch[k] + 1]
        BY <1>4, <2>1 DEF FetchFails, IncrementKeyFetchAttempt
    <2> QED
        BY <1>4, <2>1, <2>2 DEF FetchFails, AtEntry, Advance
<1>5. ASSUME NEW k \in Key, CacheRemoteActor(k) PROVE KInv'
    <2>1. ActorOf[k] \in Actor
        BY <1>5 DEF CacheRemoteActor, GivesUp
    <2> QED
        BY <1>5, <2>1 DEF CacheRemoteActor, AtEntry
<1>6. CASE KeyFetched
    BY <1>6 DEF KeyFetched, RemoveKeyFetch, Advance
<1>7. CASE PassEnds
    BY <1>7 DEF PassEnds
<1>8. CASE Stop
    BY <1>8 DEF Stop
<1>9. CASE Start
    BY <1>9 DEF Start, fetcher
<1>10. CASE UNCHANGED vars
    BY <1>10 DEF vars, fetcher
<1> QED
    BY <1>1, <1>2, <1>3, <1>4, <1>5, <1>6, <1>7, <1>8, <1>9, <1>10 DEF Next, FetcherStep

\* The goroutine's list is true of the queue in every reachable state.
THEOREM QueueInvariant == Spec => []KInv
<1>1. Init => KInv
    BY InitKInv
<1>2. KInv /\ [Next]_vars => KInv'
    BY StepKInv
<1> QED
    BY <1>1, <1>2, PTL DEF Spec

\* No key ever has more than maxKeyFetchAttempts attempts on record.
THEOREM QueueTypeCorrect == Spec => []TypeOK
<1>1. KInv => TypeOK
    BY DEF KInv
<1> QED
    BY <1>1, QueueInvariant, PTL

\* A request never makes the goroutine's list wrong.
THEOREM ListCorrect == Spec => []ListIsCurrent
<1>1. KInv => ListIsCurrent
    BY DEF KInv
<1> QED
    BY <1>1, QueueInvariant, PTL

\* A step of the queue is one of the promise, for the key that it is about.
LEMMA StepRetry == KInv /\ [Next]_vars => [Retry!RetryNext]_<<keyFetch, {k \in Key : ActorOf[k] \in actors}>>
<1> DEFINE known == {k \in Key : ActorOf[k] \in actors}
           hopeless == {k \in Key : ActorOf[k] = Absent}
<1> SUFFICES ASSUME KInv, [Next]_vars
             PROVE  Retry!RetryNext \/ UNCHANGED <<keyFetch, known>>
    OBVIOUS
<1> USE DEF KInv, TypeOK, Entry, Attempts
<1>1. ASSUME UNCHANGED actors PROVE UNCHANGED known
    BY <1>1
<1>2. ASSUME NEW k \in Key, VerifyFails(k)
      PROVE  Retry!RetryNext \/ UNCHANGED <<keyFetch, known>>
  <2>1. CASE keyFetch[k] = Absent
    <3>1. Retry!Queue(k)
        BY <1>1, <1>2, <2>1 DEF VerifyFails, EnqueueKeyFetch, Retry!Queue, Retry!Waiting
    <3> QED
        BY <3>1 DEF Retry!RetryNext
  <2>2. CASE keyFetch[k] # Absent
      BY <1>1, <1>2, <2>2 DEF VerifyFails, EnqueueKeyFetch
  <2> QED
      BY <2>1, <2>2
<1>3. ASSUME NEW k \in Key, AtEntry(k)
      PROVE  keyFetch[k] = list[k] /\ keyFetch[k] \in Attempts /\ Retry!Waiting(k)
    BY <1>3 DEF AtEntry, ListIsCurrent, Retry!Waiting
<1>4. ASSUME NEW k \in Key, DropKey(k) PROVE Retry!RetryNext
  <2>1. k \in hopeless \/ keyFetch[k] = maxKeyFetchAttempts
      BY <1>3, <1>4 DEF DropKey, GivesUp
  <2>2. Retry!Leave(k)
      BY <1>1, <1>3, <1>4, <2>1 DEF DropKey, RemoveKeyFetch, Retry!Leave
  <2> QED
      BY <2>2 DEF Retry!RetryNext
<1>5. ASSUME NEW k \in Key, FetchFails(k) PROVE Retry!RetryNext
  <2>1. keyFetch[k] \in Nat /\ keyFetch[k] < maxKeyFetchAttempts /\ k \notin hopeless
      BY <1>3, <1>5 DEF FetchFails, GivesUp
  <2>2. keyFetch' = [keyFetch EXCEPT ![k] = keyFetch[k] + 1]
      BY <1>5, <2>1 DEF FetchFails, IncrementKeyFetchAttempt
  <2>3. UNCHANGED known
      BY <1>1, <1>5 DEF FetchFails
  <2>4. Retry!Fail(k)
      BY <1>3, <1>5, <2>1, <2>2, <2>3 DEF FetchFails, Retry!Fail
  <2> QED
      BY <2>4 DEF Retry!RetryNext
<1>6. ASSUME NEW k \in Key, CacheRemoteActor(k) PROVE Retry!RetryNext
  <2>1. /\ keyFetch[k] < maxKeyFetchAttempts /\ k \notin hopeless
        /\ known \union {k} \subseteq known' /\ UNCHANGED keyFetch
      BY <1>3, <1>6 DEF CacheRemoteActor, GivesUp
  <2>2. Retry!Learn(k)
      BY <1>3, <1>6, <2>1 DEF CacheRemoteActor, Retry!Learn
  <2> QED
      BY <2>2 DEF Retry!RetryNext
<1>7. CASE KeyFetched
  <2>1. /\ current \in Key /\ current \in known
        /\ keyFetch[current] # Absent
        /\ keyFetch' = [keyFetch EXCEPT ![current] = Absent]
      BY <1>7 DEF KeyFetched, FetcherInv, ListIsCurrent, RemoveKeyFetch
  <2>2. Retry!Leave(current)
      BY <1>1, <1>7, <2>1 DEF KeyFetched, Retry!Leave, Retry!Waiting
  <2> QED
      BY <2>1, <2>2 DEF Retry!RetryNext
<1>8. CASE UNCHANGED <<keyFetch, actors>>
    BY <1>1, <1>8
<1> QED
    BY <1>2, <1>4, <1>5, <1>6, <1>7, <1>8
    DEF Next, FetcherStep, Tick, PassEnds, Stop, Start, vars

\* The queue counts every failure, forgets none, and lets a key go for a reason only.
THEOREM QueueCounts == Spec => FailuresCount
<1>1. Init => Retry!RetryInit
    BY DEF Init, Nothing, Retry!RetryInit
<1>2. KInv /\ [Next]_vars => [Retry!RetryNext]_<<keyFetch, {k \in Key : ActorOf[k] \in actors}>>
    BY StepRetry
<1> QED
    BY <1>1, <1>2, QueueInvariant, PTL DEF Spec, FailuresCount, Retry!RetrySpec
=============================================================================
