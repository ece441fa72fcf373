------------------------------ MODULE Followers ------------------------------
(***************************************************************************)
(* Following this site: POST /inbox with a Follow (store the raw activity, *)
(* store the follower, deliver an Accept), and the admin's resend of all   *)
(* the Accepts.  Each step of a request is one transaction or one network  *)
(* exchange, and the process may end between any two.  A Follow has a      *)
(* signer, whom the signature check establishes, and names an actor; no    *)
(* code compares the two.                                                  *)
(***************************************************************************)

CONSTANTS
    Actor,      \* remote actors
    FollowId,   \* ids of Follow activities, not all distinct between actors
    NoId,       \* a Follow without an id
    Absent,     \* no entry in a bucket
    Worker,     \* concurrent requests
    Incoming    \* the Follows that come in: a signer, whom they name, their id

ASSUME FollowNamesAssumption ==
    Absent \notin Actor \union FollowId \union {NoId} /\ NoId \notin FollowId

ASSUME IncomingAssumption ==
    Incoming \subseteq [actor: Actor, named: Actor \union {Absent}, id: FollowId \union {NoId}]

VARIABLES
    followers,  \* bucket "followers": the FollowID of each stored follower
    inbox,      \* bucket "inbox": the actor that each raw Follow names
    up,         \* the server runs
    pc, job,    \* each request's next step and local variables
    signed,     \* history: <<signer, id>> of the Follows that came in
    accepted    \* history: <<addressee, id, actor named>> of the Accepts that arrived

stores == <<followers, inbox>>
requests == <<pc, job>>
history == <<signed, accepted>>
vars == <<stores, up, requests, history>>

Follower == FollowId \union {NoId}

Job == [actor: Actor \union {Absent}, named: Actor \union {Absent}, id: Follower,
        list: [Actor -> Follower \union {Absent}], todo: SUBSET Actor]

NoJob == [actor |-> Absent, named |-> Absent, id |-> NoId, list |-> [a \in Actor |-> Absent],
          todo |-> {}]

Go(w, to, j) == pc' = [pc EXCEPT ![w] = to] /\ job' = [job EXCEPT ![w] = j]
Finish(w) == Go(w, "idle", NoJob)

\* Remote servers take an Accept or not; the error is ours when no good answer comes.
Outcome == [taken: BOOLEAN, error: BOOLEAN] \ {[taken |-> FALSE, error |-> FALSE]}

Deliver(a, id, named, outcome) ==
    accepted' = IF outcome.taken THEN accepted \union {<<a, id, named>>} ELSE accepted

-----------------------------------------------------------------------------
(* handleFollow: a Follow signed by actor a, who has an inbox, in the name of an actor *)
(* or of nobody.                                                                       *)
HandleFollow(w, a, named, id) ==
    /\ up /\ pc[w] = "idle"
    /\ Go(w, IF id = NoId THEN "follower" ELSE "inbox",
              [NoJob EXCEPT !.actor = a, !.named = named, !.id = id])
    /\ signed' = signed \union {<<a, id>>}
    /\ UNCHANGED <<stores, up, accepted>>

\* The raw activity replaces one with the same id, whoever signed that; an error is
\* ignored.
SaveInboxActivity(w) ==
    /\ pc[w] = "inbox"
    /\ \/ inbox' = [inbox EXCEPT ![job[w].id] = job[w].named]
       \/ UNCHANGED inbox
    /\ Go(w, "follower", job[w])
    /\ UNCHANGED <<followers, up, history>>

\* Mutant: an error of the store is ignored here too.
AddFollowerAnyway(w) ==
    /\ pc[w] = "follower"
    /\ followers' = [followers EXCEPT ![job[w].actor] = job[w].id] \/ UNCHANGED followers
    /\ (job[w].id # NoId /\ Go(w, "accept", job[w])) \/ Finish(w)
    /\ UNCHANGED <<inbox, up, history>>

\* Mutant: an Accept is built for a Follow without an id.
AcceptWithoutId(w) ==
    /\ pc[w] = "follower"
    /\ followers' = [followers EXCEPT ![job[w].actor] = job[w].id]
    /\ Go(w, "accept", job[w])
    /\ UNCHANGED <<inbox, up, history>>

\* A follower record replaces the signer's last one.  Without an id, an actor or an
\* object no Accept can be built, and the request ends with its follower stored.
AddFollower(w) ==
    /\ pc[w] = "follower"
    /\ \/ /\ followers' = [followers EXCEPT ![job[w].actor] = job[w].id]
          /\ \/ job[w].id # NoId /\ job[w].named # Absent /\ Go(w, "accept", job[w])
             \/ Finish(w)
       \/ UNCHANGED followers /\ Finish(w)
    /\ UNCHANGED <<inbox, up, history>>

DeliverAccept(w, outcome) ==
    /\ pc[w] = "accept"
    /\ Deliver(job[w].actor, job[w].id, job[w].named, outcome)
    /\ Finish(w)
    /\ UNCHANGED <<stores, up, signed>>

-----------------------------------------------------------------------------
(* ResendAccepts: one follower after the other, up to the first that fails. *)
Listed == {a \in Actor : followers[a] # Absent}

ResendAccepts(w) ==
    /\ up /\ pc[w] = "idle"
    /\ Go(w, "resend", [NoJob EXCEPT !.list = followers, !.todo = Listed])
    /\ UNCHANGED <<stores, up, history>>

\* Mutant: a raw Follow is answered whomever it names.
AnyFollow(w, a) ==
    IF job[w].list[a] # NoId THEN {job[w].list[a]} ELSE {id \in FollowId : inbox[id] # Absent}

\* followActivityForResend: the id stored with the follower, or for one stored
\* without any, a raw Follow that names that actor.
FollowToAnswer(w, a) ==
    IF job[w].list[a] # NoId THEN {job[w].list[a]} ELSE {id \in FollowId : inbox[id] = a}

\* The actor that the Accept of a resend names.
NamedAgain(w, a, id) == IF job[w].list[a] # NoId THEN a ELSE inbox[id]

\* Mutant: a failed delivery does not end the resend.
ResendOn(w, a, id, outcome) ==
    /\ pc[w] = "resend" /\ a \in job[w].todo
    /\ id \in FollowToAnswer(w, a)
    /\ Deliver(a, id, NamedAgain(w, a, id), outcome)
    /\ Go(w, "resend", [job[w] EXCEPT !.todo = @ \ {a}])
    /\ UNCHANGED <<stores, up, signed>>

ResendOne(w, a, id, outcome) ==
    /\ pc[w] = "resend" /\ a \in job[w].todo
    /\ id \in FollowToAnswer(w, a)
    /\ Deliver(a, id, NamedAgain(w, a, id), outcome)
    /\ IF outcome.error THEN Finish(w) ELSE Go(w, "resend", [job[w] EXCEPT !.todo = @ \ {a}])
    /\ UNCHANGED <<stores, up, signed>>

\* A follower stored without an id, for whom no raw Follow or only one without an
\* object is found, ends the resend for those after it.
ResendStops(w) ==
    /\ pc[w] = "resend"
    /\ \E a \in job[w].todo : job[w].list[a] = NoId
    /\ Finish(w)
    /\ UNCHANGED <<stores, up, history>>

ResendDone(w) ==
    /\ pc[w] = "resend" /\ job[w].todo = {}
    /\ Finish(w)
    /\ UNCHANGED <<stores, up, history>>

-----------------------------------------------------------------------------
Stop ==
    /\ up
    /\ up' = FALSE
    /\ pc' = [w \in Worker |-> "idle"] /\ job' = [w \in Worker |-> NoJob]
    /\ UNCHANGED <<stores, history>>

Start == ~up /\ up' = TRUE /\ UNCHANGED <<stores, requests, history>>

Init ==
    /\ followers = [a \in Actor |-> Absent]
    /\ inbox = [id \in FollowId |-> Absent]
    /\ up = FALSE
    /\ pc = [w \in Worker |-> "idle"] /\ job = [w \in Worker |-> NoJob]
    /\ signed = {} /\ accepted = {}

Request(w) ==
    \/ \E f \in Incoming : HandleFollow(w, f.actor, f.named, f.id)
    \/ SaveInboxActivity(w)
    \/ AddFollower(w)
    \/ \E outcome \in Outcome : DeliverAccept(w, outcome)
    \/ ResendAccepts(w)
    \/ \E a \in Actor, id \in FollowId, outcome \in Outcome : ResendOne(w, a, id, outcome)
    \/ ResendStops(w)
    \/ ResendDone(w)

Next ==
    \/ \E w \in Worker : Request(w)
    \/ Stop
    \/ Start

Spec == Init /\ [][Next]_vars

-----------------------------------------------------------------------------
(***************************************************************************)
(* Properties.                                                             *)
(***************************************************************************)

\* Well-formed state; every Accept is for a Follow with an id.
TypeOK ==
    /\ followers \in [Actor -> Follower \union {Absent}]
    /\ inbox \in [FollowId -> Actor \union {Absent}]
    /\ up \in BOOLEAN
    /\ pc \in [Worker -> {"idle", "inbox", "follower", "accept", "resend"}]
    /\ job \in [Worker -> Job]
    /\ signed \subseteq Actor \X Follower
    /\ accepted \subseteq Actor \X FollowId \X Actor

\* A server that got an Accept believes its actor follows this site, so posts must
\* go there: the follower is stored, through failed writes and crashes.
AcceptedAreStored == \A r \in accepted : followers[r[1]] # Absent

\* An Accept answers a Follow its addressee signed, also when it is resent from the record
\* of a later Follow or when actors share an id.  The one exception: an addressee who
\* signed a Follow without an id may get the answer to a raw Follow that names it,
\* whoever signed that one, but never to a raw Follow that names somebody else.
AcceptsAnswerFollows ==
    \A r \in accepted :
        \/ <<r[1], r[2]>> \in signed
        \/ <<r[1], NoId>> \in signed /\ r[3] = r[1]

\* A resend that reports success was a resend to everyone: the followers of its
\* list have all got an Accept.
ResendReachesAll ==
    [][\A w \in Worker : ResendDone(w) =>
          \A a \in Actor : job[w].list[a] # Absent => \E r \in accepted : r[1] = a]_vars
=============================================================================
