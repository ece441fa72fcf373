---------------------------- MODULE InboxProofs ------------------------------
(***************************************************************************)
(* The inbox: its Follows, and the limiter in front of it.                 *)
(*                                                                         *)
(* Whoever got an Accept is stored as a follower and had signed the Follow *)
(* it answers, or one without an id, for any number of actors, ids and     *)
(* concurrent requests.  The strengthening says of each stored follower    *)
(* that it signed a Follow with the stored id (nothing of the kind holds   *)
(* of the raw activities), and of each request that what it is about to    *)
(* answer is stored (RequestsGrounded, ResendGrounded).                    *)
(*                                                                         *)
(* The limiter lets through at most Limit calls of an address in any       *)
(* window, and decides as if it had kept every call: the lists hold all    *)
(* that the current window needs to know (ListsSuffice).                   *)
(***************************************************************************)
EXTENDS Followers, RateLimit, FiniteSetTheorems, TLAPS

USE FollowNamesAssumption, LimitAssumption

\* Every Follow that comes in is handled by a step of this form.
LEMMA IncomingForm ==
    ASSUME NEW f \in Incoming
    PROVE  f.actor \in Actor /\ f.named \in Actor \union {Absent} /\ f.id \in Follower
BY IncomingAssumption DEF Follower

StoredWereSigned ==
    \A a \in Actor : followers[a] # Absent => <<a, followers[a]>> \in signed

\* A request for a Follow handles one that was signed, and answers a stored follower.
FollowGrounded(w) ==
    pc[w] \in {"inbox", "follower", "accept"} =>
        /\ job[w].actor \in Actor
        /\ <<job[w].actor, job[w].id>> \in signed
        /\ pc[w] # "follower" => job[w].id \in FollowId
        /\ pc[w] = "accept" => job[w].named \in Actor /\ followers[job[w].actor] # Absent

\* A resend goes through followers, and those it is past have got an Accept.
ResendGrounded(w) ==
    pc[w] = "resend" => \A a \in Actor : job[w].list[a] # Absent =>
        /\ followers[a] # Absent
        /\ <<a, job[w].list[a]>> \in signed
        /\ a \in job[w].todo \/ \E r \in accepted : r[1] = a

ListHolds(w) == \A a \in job[w].todo : job[w].list[a] # Absent

RequestsGrounded == \A w \in Worker : FollowGrounded(w) /\ ResendGrounded(w) /\ ListHolds(w)

FInv == TypeOK /\ AcceptedAreStored /\ AcceptsAnswerFollows /\ StoredWereSigned /\ RequestsGrounded

LEMMA NoJobType == NoJob \in Job
BY DEF NoJob, Job, Follower

LEMMA InitFInv == Init => FInv
<1> SUFFICES ASSUME Init PROVE FInv
    OBVIOUS
<1>1. TypeOK
    BY NoJobType DEF Init, TypeOK
<1>2. AcceptedAreStored /\ AcceptsAnswerFollows /\ StoredWereSigned
    BY DEF Init, AcceptedAreStored, AcceptsAnswerFollows, StoredWereSigned
<1>3. RequestsGrounded
    BY DEF Init, RequestsGrounded, FollowGrounded, ResendGrounded, ListHolds, NoJob
<1> QED
    BY <1>1, <1>2, <1>3 DEF FInv

\* Nothing is ever forgotten: followers stay, and what was signed or accepted was.
Monotone ==
    /\ signed \subseteq signed' /\ accepted \subseteq accepted'
    /\ \A a \in Actor : followers[a] # Absent => followers'[a] # Absent

LEMMA UntouchedRequest ==
    ASSUME FInv, TypeOK', Monotone, NEW w \in Worker, pc'[w] = pc[w], job'[w] = job[w]
    PROVE  FollowGrounded(w)' /\ ResendGrounded(w)' /\ ListHolds(w)'
<1>1. FollowGrounded(w) /\ ResendGrounded(w) /\ ListHolds(w)
    BY DEF FInv, RequestsGrounded
<1>2. FollowGrounded(w)'
    BY <1>1 DEF FollowGrounded, Monotone
<1>3. ResendGrounded(w)'
    BY <1>1 DEF ResendGrounded, Monotone
<1>4. ListHolds(w)'
    BY <1>1 DEF ListHolds
<1> QED
    BY <1>2, <1>3, <1>4

LEMMA FinishedRequest ==
    ASSUME TypeOK, NEW w \in Worker, Finish(w)
    PROVE  FollowGrounded(w)' /\ ResendGrounded(w)' /\ ListHolds(w)'
BY DEF TypeOK, Finish, Go, NoJob, FollowGrounded, ResendGrounded, ListHolds

\* A step of a request moves that request only.
LEMMA OthersUntouched ==
    ASSUME TypeOK, NEW w \in Worker, NEW to, NEW j, Go(w, to, j)
    PROVE  /\ pc'[w] = to /\ job'[w] = j
           /\ \A v \in Worker : v # w => pc'[v] = pc[v] /\ job'[v] = job[v]
BY DEF TypeOK, Go

LEMMA StepFInv == FInv /\ [Next]_vars => FInv'
<1> SUFFICES ASSUME FInv, [Next]_vars PROVE FInv'
    OBVIOUS
<1> USE DEF FInv
<1>1. TypeOK'
  <2>1. ASSUME NEW w \in Worker, NEW a \in Actor, NEW named \in Actor \union {Absent},
               NEW id \in Follower, HandleFollow(w, a, named, id)
        PROVE TypeOK'
    <3>1. [NoJob EXCEPT !.actor = a, !.named = named, !.id = id] \in Job
        BY NoJobType DEF Job
    <3>2. pc' \in [Worker -> {"idle", "inbox", "follower", "accept", "resend"}] /\ job' \in [Worker -> Job]
        BY <2>1, <3>1 DEF HandleFollow, Go, TypeOK
    <3>3. signed' \subseteq Actor \X Follower
        BY <2>1 DEF HandleFollow, TypeOK
    <3> QED
        BY <2>1, <3>2, <3>3 DEF HandleFollow, TypeOK, stores
  <2>2. ASSUME NEW w \in Worker, SaveInboxActivity(w) PROVE TypeOK'
    <3>1. job[w].id \in FollowId /\ job[w].named \in Actor \union {Absent}
        BY <2>2 DEF SaveInboxActivity, RequestsGrounded, FollowGrounded, TypeOK, Job
    <3> QED
        BY <2>2, <3>1 DEF SaveInboxActivity, Go, TypeOK, history
  <2>3. ASSUME NEW w \in Worker, AddFollower(w) PROVE TypeOK'
    <3>1. job[w].id \in Follower /\ job[w].actor \in Actor
        BY <2>3 DEF AddFollower, RequestsGrounded, FollowGrounded, TypeOK, Job
    <3> QED
        BY <2>3, <3>1, NoJobType DEF AddFollower, Finish, Go, TypeOK, history
  <2>4. ASSUME NEW w \in Worker, NEW outcome \in Outcome, DeliverAccept(w, outcome) PROVE TypeOK'
    <3>1. job[w].id \in FollowId /\ job[w].actor \in Actor /\ job[w].named \in Actor
        BY <2>4 DEF DeliverAccept, RequestsGrounded, FollowGrounded
    <3> QED
        BY <2>4, <3>1, NoJobType DEF DeliverAccept, Deliver, Finish, Go, TypeOK, stores
  <2>5. ASSUME NEW w \in Worker, ResendAccepts(w) PROVE TypeOK'
    <3>1. [NoJob EXCEPT !.list = followers, !.todo = Listed] \in Job
        BY NoJobType DEF Job, Listed, TypeOK
    <3>2. pc' \in [Worker -> {"idle", "inbox", "follower", "accept", "resend"}] /\ job' \in [Worker -> Job]
        BY <2>5, <3>1 DEF ResendAccepts, Go, TypeOK
    <3> QED
        BY <2>5, <3>2 DEF ResendAccepts, TypeOK, stores, history
  <2>6. ASSUME NEW w \in Worker, NEW a \in Actor, NEW id \in FollowId, NEW outcome \in Outcome,
               ResendOne(w, a, id, outcome)
        PROVE TypeOK'
    <3>1. [job[w] EXCEPT !.todo = @ \ {a}] \in Job
        BY DEF TypeOK, Job
    <3>2. pc' \in [Worker -> {"idle", "inbox", "follower", "accept", "resend"}] /\ job' \in [Worker -> Job]
      <4>1. CASE outcome.error
        BY <2>6, <4>1, NoJobType DEF ResendOne, Finish, Go, TypeOK
      <4>2. CASE ~outcome.error
        BY <2>6, <4>2, <3>1 DEF ResendOne, Go, TypeOK
      <4> QED
        BY <4>1, <4>2
    <3>3. accepted' \subseteq Actor \X FollowId \X Actor
        BY <2>6 DEF ResendOne, FollowToAnswer, NamedAgain, Deliver, TypeOK
    <3> QED
        BY <2>6, <3>2, <3>3 DEF ResendOne, TypeOK, stores
  <2>7. ASSUME NEW w \in Worker, ResendStops(w) \/ ResendDone(w) PROVE TypeOK'
    BY <2>7, NoJobType DEF ResendStops, ResendDone, Finish, Go, TypeOK, stores, history
  <2>8. CASE Stop
    BY <2>8, NoJobType DEF Stop, TypeOK, stores, history
  <2>9. CASE Start
    BY <2>9 DEF Start, TypeOK, stores, requests, history
  <2>10. CASE UNCHANGED vars
    BY <2>10 DEF vars, TypeOK, stores, requests, history
  <2> QED
    BY <2>1, <2>2, <2>3, <2>4, <2>5, <2>6, <2>7, <2>8, <2>9, <2>10, IncomingForm
       DEF Next, Request
<1>2. ASSUME NEW w \in Worker, NEW a \in Actor, NEW named \in Actor \union {Absent},
             NEW id \in Follower, HandleFollow(w, a, named, id)
      PROVE FInv'
  <2>1. Monotone
    BY <1>2 DEF HandleFollow, Monotone, stores
  <2>2. FollowGrounded(w)' /\ ResendGrounded(w)' /\ ListHolds(w)'
    <3>1. PICK to \in {"inbox", "follower"} :
            /\ pc'[w] = to /\ (to # "follower" => id \in FollowId)
            /\ job'[w] = [NoJob EXCEPT !.actor = a, !.named = named, !.id = id]
        BY <1>2 DEF HandleFollow, Go, TypeOK, Follower
    <3> QED
        BY <1>2, <3>1 DEF HandleFollow, NoJob, FollowGrounded, ResendGrounded, ListHolds
  <2>3. RequestsGrounded'
    BY <1>1, <1>2, <2>1, <2>2, OthersUntouched, UntouchedRequest DEF HandleFollow, RequestsGrounded
  <2> QED
    BY <1>1, <1>2, <2>3 DEF HandleFollow, stores, AcceptedAreStored, AcceptsAnswerFollows, StoredWereSigned
<1>3. ASSUME NEW w \in Worker, SaveInboxActivity(w) PROVE FInv'
  <2>1. Monotone /\ FollowGrounded(w)
    BY <1>3 DEF SaveInboxActivity, Monotone, history, RequestsGrounded
  <2>2. pc'[w] = "follower" /\ job'[w] = job[w] /\ pc[w] = "inbox"
    BY <1>3, OthersUntouched DEF SaveInboxActivity
  <2>3. FollowGrounded(w)' /\ ResendGrounded(w)' /\ ListHolds(w)'
    BY <1>3, <2>1, <2>2 DEF SaveInboxActivity, history, FollowGrounded, ResendGrounded, ListHolds, RequestsGrounded
  <2>4. RequestsGrounded'
    BY <1>1, <1>3, <2>1, <2>3, OthersUntouched, UntouchedRequest DEF SaveInboxActivity, RequestsGrounded
  <2>5. StoredWereSigned'
    BY <1>3, <2>1 DEF SaveInboxActivity, history, StoredWereSigned, FollowGrounded, TypeOK
  <2> QED
    BY <1>1, <1>3, <2>4, <2>5 DEF SaveInboxActivity, history, AcceptedAreStored, AcceptsAnswerFollows
<1>4. ASSUME NEW w \in Worker, AddFollower(w) PROVE FInv'
  <2>1. job[w].actor \in Actor /\ <<job[w].actor, job[w].id>> \in signed /\ job[w].id \in Follower
    BY <1>4 DEF AddFollower, RequestsGrounded, FollowGrounded, TypeOK, Job
  <2>2. Monotone
    BY <1>4, <2>1 DEF AddFollower, Monotone, history, TypeOK, Follower
  <2>3. FollowGrounded(w)' /\ ResendGrounded(w)' /\ ListHolds(w)'
    <3>1. CASE Finish(w)
        BY <3>1, FinishedRequest
    <3>2. CASE job[w].id # NoId /\ job[w].named # Absent /\ Go(w, "accept", job[w])
                 /\ followers' = [followers EXCEPT ![job[w].actor] = job[w].id]
        <4>1. /\ pc'[w] = "accept" /\ job'[w] = job[w]
              /\ job[w].id \in FollowId /\ job[w].named \in Actor
            BY <2>1, <3>2, OthersUntouched DEF Follower, TypeOK, Job
        <4>2. followers'[job[w].actor] # Absent
            BY <2>1, <3>2 DEF TypeOK, Follower
        <4>3. ListHolds(w)'
            BY <4>1 DEF ListHolds, RequestsGrounded
        <4> QED
            BY <1>4, <2>1, <4>1, <4>2, <4>3 DEF AddFollower, history, FollowGrounded, ResendGrounded
    <3> QED
        BY <1>4, <3>1, <3>2 DEF AddFollower
  <2>4. RequestsGrounded'
    <3>1. \A v \in Worker : v # w => pc'[v] = pc[v] /\ job'[v] = job[v]
        BY <1>4 DEF AddFollower, Finish, Go, TypeOK
    <3> QED
        BY <1>1, <2>2, <2>3, <3>1, UntouchedRequest DEF RequestsGrounded
  <2>5. StoredWereSigned'
    BY <1>4, <2>1 DEF AddFollower, history, StoredWereSigned, TypeOK
  <2>6. AcceptedAreStored'
    BY <1>4, <2>2 DEF AddFollower, history, AcceptedAreStored, Monotone, TypeOK
  <2> QED
    BY <1>1, <1>4, <2>4, <2>5, <2>6 DEF AddFollower, history, AcceptsAnswerFollows
<1>5. ASSUME NEW w \in Worker, NEW outcome \in Outcome, DeliverAccept(w, outcome) PROVE FInv'
  <2>1. /\ job[w].actor \in Actor /\ <<job[w].actor, job[w].id>> \in signed
        /\ followers[job[w].actor] # Absent
    BY <1>5 DEF DeliverAccept, RequestsGrounded, FollowGrounded
  <2>2. Monotone
    BY <1>5 DEF DeliverAccept, Deliver, Monotone, stores
  <2>3. FollowGrounded(w)' /\ ResendGrounded(w)' /\ ListHolds(w)'
    BY <1>5, FinishedRequest DEF DeliverAccept
  <2>4. RequestsGrounded'
    <3>1. \A v \in Worker : v # w => pc'[v] = pc[v] /\ job'[v] = job[v]
        BY <1>5 DEF DeliverAccept, Finish, Go, TypeOK
    <3> QED
        BY <1>1, <2>2, <2>3, <3>1, UntouchedRequest DEF RequestsGrounded
  <2>5. AcceptedAreStored' /\ AcceptsAnswerFollows'
    BY <1>5, <2>1 DEF DeliverAccept, Deliver, stores, AcceptedAreStored, AcceptsAnswerFollows
  <2> QED
    BY <1>1, <1>5, <2>4, <2>5 DEF DeliverAccept, stores, StoredWereSigned
<1>6. ASSUME NEW w \in Worker, ResendAccepts(w) PROVE FInv'
  <2>1. Monotone
    BY <1>6 DEF ResendAccepts, Monotone, stores, history
  <2>2. /\ pc'[w] = "resend"
        /\ job'[w] = [NoJob EXCEPT !.list = followers, !.todo = Listed]
        /\ \A v \in Worker : v # w => pc'[v] = pc[v] /\ job'[v] = job[v]
    BY <1>6 DEF ResendAccepts, Go, TypeOK
  <2>3. job'[w].list = followers /\ job'[w].todo = Listed
    BY <2>2 DEF NoJob
  <2>4. FollowGrounded(w)' /\ ResendGrounded(w)' /\ ListHolds(w)'
    BY <1>6, <2>2, <2>3
    DEF ResendAccepts, stores, history, Listed, StoredWereSigned, FollowGrounded, ResendGrounded, ListHolds
  <2>5. RequestsGrounded'
    BY <1>1, <2>1, <2>2, <2>4, UntouchedRequest DEF RequestsGrounded
  <2> QED
    BY <1>1, <1>6, <2>5
    DEF ResendAccepts, stores, history, AcceptedAreStored, AcceptsAnswerFollows, StoredWereSigned
<1>7. ASSUME NEW w \in Worker, NEW a \in Actor, NEW id \in FollowId, NEW outcome \in Outcome,
             ResendOne(w, a, id, outcome)
      PROVE FInv'
  <2>1. /\ a \in job[w].todo /\ job[w].list[a] # Absent
        /\ followers[a] # Absent /\ <<a, job[w].list[a]>> \in signed
    BY <1>7 DEF ResendOne, RequestsGrounded, ResendGrounded, ListHolds
  <2>2. \/ <<a, id>> \in signed
        \/ <<a, NoId>> \in signed /\ NamedAgain(w, a, id) = a
    BY <1>7, <2>1 DEF ResendOne, FollowToAnswer, NamedAgain
  <2>3. Monotone
    BY <1>7 DEF ResendOne, Deliver, Monotone, stores
  <2>4. \A v \in Worker : v # w => pc'[v] = pc[v] /\ job'[v] = job[v]
    BY <1>7 DEF ResendOne, Finish, Go, TypeOK
  <2>5. FollowGrounded(w)' /\ ResendGrounded(w)' /\ ListHolds(w)'
    <3>1. CASE outcome.error
        BY <1>7, <3>1, FinishedRequest DEF ResendOne
    <3>2. CASE ~outcome.error
        <4>1. \E r \in accepted' : r[1] = a
          <5>1. outcome.taken
              BY <3>2 DEF Outcome
          <5>2. <<a, id, NamedAgain(w, a, id)>> \in accepted'
              BY <1>7, <5>1 DEF ResendOne, Deliver
          <5> QED
              BY <5>2
        <4>2. /\ pc[w] = "resend" /\ pc'[w] = "resend"
              /\ job'[w] = [job[w] EXCEPT !.todo = @ \ {a}]
            BY <1>7, <3>2, OthersUntouched DEF ResendOne
        <4>3. job'[w].list = job[w].list /\ job'[w].todo = job[w].todo \ {a}
            BY <4>2 DEF TypeOK, Job
        <4>4. ListHolds(w)'
            BY <4>3 DEF ListHolds, RequestsGrounded
        <4>5. ResendGrounded(w)'
          <5> SUFFICES ASSUME NEW b \in Actor, job[w].list[b] # Absent
                       PROVE  /\ followers'[b] # Absent
                              /\ <<b, job[w].list[b]>> \in signed'
                              /\ \/ b \in job[w].todo \ {a}
                                 \/ \E r \in accepted' : r[1] = b
              BY <4>2, <4>3 DEF ResendGrounded
          <5>1. /\ followers[b] # Absent /\ <<b, job[w].list[b]>> \in signed
                /\ b \in job[w].todo \/ \E r \in accepted : r[1] = b
              BY <4>2 DEF RequestsGrounded, ResendGrounded
          <5>2. b = a => \E r \in accepted' : r[1] = b
              BY <4>1
          <5> QED
              BY <2>3, <5>1, <5>2 DEF Monotone
        <4> QED
            BY <4>2, <4>4, <4>5 DEF FollowGrounded
    <3> QED
        BY <3>1, <3>2
  <2>6. RequestsGrounded'
    BY <1>1, <2>3, <2>4, <2>5, UntouchedRequest DEF RequestsGrounded
  <2>7. AcceptedAreStored' /\ AcceptsAnswerFollows'
    BY <1>7, <2>1, <2>2 DEF ResendOne, Deliver, stores, AcceptedAreStored, AcceptsAnswerFollows
  <2> QED
    BY <1>1, <1>7, <2>6, <2>7 DEF ResendOne, stores, StoredWereSigned
<1>8. ASSUME NEW w \in Worker, ResendStops(w) \/ ResendDone(w) PROVE FInv'
  <2>1. Monotone
    BY <1>8 DEF ResendStops, ResendDone, Monotone, stores, history
  <2>2. FollowGrounded(w)' /\ ResendGrounded(w)' /\ ListHolds(w)'
    BY <1>8, FinishedRequest DEF ResendStops, ResendDone
  <2>3. \A v \in Worker : v # w => pc'[v] = pc[v] /\ job'[v] = job[v]
    BY <1>8 DEF ResendStops, ResendDone, Finish, Go, TypeOK
  <2>4. RequestsGrounded'
    BY <1>1, <2>1, <2>2, <2>3, UntouchedRequest DEF RequestsGrounded
  <2> QED
    BY <1>1, <1>8, <2>4 DEF ResendStops, ResendDone, stores, history,
       AcceptedAreStored, AcceptsAnswerFollows, StoredWereSigned
<1>9. CASE Stop
  <2>1. RequestsGrounded'
    BY <1>9 DEF Stop, NoJob, RequestsGrounded, FollowGrounded, ResendGrounded, ListHolds
  <2> QED
    BY <1>1, <1>9, <2>1 DEF Stop, stores, history,
       AcceptedAreStored, AcceptsAnswerFollows, StoredWereSigned
<1>10. CASE Start
    BY <1>1, <1>10 DEF Start, stores, requests, history, AcceptedAreStored, AcceptsAnswerFollows,
       StoredWereSigned, RequestsGrounded, FollowGrounded, ResendGrounded, ListHolds
<1>11. CASE UNCHANGED vars
    BY <1>1, <1>11 DEF vars, stores, requests, history, AcceptedAreStored, AcceptsAnswerFollows,
       StoredWereSigned, RequestsGrounded, FollowGrounded, ResendGrounded, ListHolds
<1> QED
    BY <1>2, <1>3, <1>4, <1>5, <1>6, <1>7, <1>8, <1>9, <1>10, <1>11, IncomingForm
       DEF Next, Request

\* The strengthened invariant of following holds in every reachable state.
THEOREM FollowInvariant == Spec => []FInv
<1>1. Init => FInv
    BY InitFInv
<1>2. FInv /\ [Next]_vars => FInv'
    BY StepFInv
<1> QED
    BY <1>1, <1>2, PTL DEF Spec

\* Buckets and requests stay well-formed, and no Accept lacks an id.
THEOREM FollowTypeCorrect == Spec => []TypeOK
<1>1. FInv => TypeOK
    BY DEF FInv
<1> QED
    BY <1>1, FollowInvariant, PTL

\* Whoever got an Accept is stored as a follower, for good.
THEOREM AcceptedFollow == Spec => []AcceptedAreStored
<1>1. FInv => AcceptedAreStored
    BY DEF FInv
<1> QED
    BY <1>1, FollowInvariant, PTL

\* Every Accept answers a Follow that its addressee signed; only one who signed a Follow
\* without an id may get the answer to a raw Follow that somebody else signed in its name.
THEOREM AcceptsAreAnswers == Spec => []AcceptsAnswerFollows
<1>1. FInv => AcceptsAnswerFollows
    BY DEF FInv
<1> QED
    BY <1>1, FollowInvariant, PTL

ReachedAll ==
    \A w \in Worker : ResendDone(w) =>
        \A a \in Actor : job[w].list[a] # Absent => \E r \in accepted : r[1] = a

\* A resend that reports success has reached every follower of its list.
THEOREM ResendCorrect == Spec => ResendReachesAll
<1>1. FInv => ReachedAll
    BY DEF FInv, RequestsGrounded, ResendGrounded, ResendDone, ReachedAll
<1>2. FInv /\ [Next]_vars => [ReachedAll]_vars
    BY <1>1
<1> QED
    BY <1>2, FollowInvariant, PTL DEF Spec, ResendReachesAll, ReachedAll

-----------------------------------------------------------------------------
(***************************************************************************)
(* The limiter.                                                            *)
(***************************************************************************)

\* A list has every admitted call that the current window needs, and only admitted ones.
ListsSuffice ==
    \A ip \in IP :
        /\ IsFiniteSet(admitted[ip]) /\ buckets[ip] \subseteq admitted[ip]
        /\ \A e \in admitted[ip] : e.at <= clock /\ (e.at > clock - Window => e \in buckets[ip])

LInv == LimitTypeOK /\ WindowBound /\ ListsSuffice

\* What the code keeps of its list is what the promise looks at.
LEMMA KeptIsWindow ==
    ASSUME LInv, NEW ip \in IP
    PROVE  /\ Kept(ip) = Promise!InWindow(ip, clock)
           /\ Kept(ip) \subseteq buckets[ip] /\ IsFiniteSet(Kept(ip))
           /\ Cardinality(Kept(ip)) \in Nat
<1>1. /\ clock \in Nat /\ Window \in Nat
      /\ buckets[ip] \subseteq admitted[ip] /\ admitted[ip] \subseteq Event
      /\ IsFiniteSet(admitted[ip])
    BY DEF LInv, LimitTypeOK, ListsSuffice
<1>2. \A e \in admitted[ip] : e.at \in Nat
    BY <1>1 DEF Event
<1>3. Kept(ip) = Promise!InWindow(ip, clock)
    BY <1>1, <1>2 DEF Kept, Promise!InWindow, LInv, ListsSuffice
<1>4. Kept(ip) \subseteq buckets[ip]
    BY DEF Kept
<1>5. IsFiniteSet(Kept(ip))
    BY <1>1, <1>4, FS_Subset
<1> QED
    BY <1>3, <1>4, <1>5, FS_CardinalityType

\* The event that a call leaves when it is let through.
Mark(c) == [call |-> c, at |-> clock]

\* A call that is let through makes room for itself by the comparison alone.
LEMMA AdmittedFits ==
    ASSUME LInv, NEW c \in Call, NEW ip \in IP, Unseen(c), ~(Cardinality(Kept(ip)) >= Limit)
    PROVE  /\ Mark(c) \in Event
           /\ IsFiniteSet(Kept(ip) \union {Mark(c)})
           /\ Cardinality(Kept(ip) \union {Mark(c)}) <= Limit
<1>1. Mark(c) \in Event
    BY DEF Mark, Event, LInv, LimitTypeOK
<1>2. Mark(c) \notin Kept(ip)
    BY KeptIsWindow DEF Unseen, Mark, LInv, ListsSuffice
<1>3. /\ IsFiniteSet(Kept(ip) \union {Mark(c)})
      /\ Cardinality(Kept(ip) \union {Mark(c)}) = Cardinality(Kept(ip)) + 1
    BY <1>2, KeptIsWindow, FS_AddElement
<1>4. Limit \in Nat /\ Cardinality(Kept(ip)) \in Nat
    BY KeptIsWindow
<1> QED
    BY <1>1, <1>3, <1>4

LEMMA InitLInv == LimitInit => LInv
<1> SUFFICES ASSUME LimitInit PROVE LInv
    OBVIOUS
<1>1. IsFiniteSet({}) /\ Cardinality({}) = 0
    BY FS_EmptySet
<1>2. \A ip \in IP : buckets[ip] = {} /\ admitted[ip] = {}
    BY DEF LimitInit, NoCalls
<1>3. WindowBound
  <2> SUFFICES ASSUME NEW ip \in IP, NEW t \in 0..LastTime
               PROVE  Cardinality({e \in admitted[ip] : t - Window < e.at /\ e.at <= t}) <= Limit
      BY DEF WindowBound
  <2>1. {e \in admitted[ip] : t - Window < e.at /\ e.at <= t} = {}
      BY <1>2
  <2> QED
      BY <1>1, <2>1
<1>4. LimitTypeOK
    BY <1>1, <1>2 DEF LimitInit, LimitTypeOK, NoCalls
<1>5. ListsSuffice
    BY <1>1, <1>2 DEF ListsSuffice
<1> QED
    BY <1>3, <1>4, <1>5 DEF LInv

LEMMA RefusalKeeps ==
    ASSUME LInv, NEW c \in Call, NEW ip \in IP, Allow(c, ip), Cardinality(Kept(ip)) >= Limit
    PROVE  LInv'
<1>1. /\ buckets' = [buckets EXCEPT ![ip] = Kept(ip)] /\ refused' = refused \union {c}
      /\ admitted' = admitted /\ clock' = clock
    BY DEF Allow
<1>2. buckets[ip] \subseteq Event /\ Kept(ip) \subseteq buckets[ip] /\ IsFiniteSet(Kept(ip))
    BY KeptIsWindow DEF LInv, LimitTypeOK
<1>3. Cardinality(Kept(ip)) <= Limit
  <2>1. IsFiniteSet(buckets[ip]) /\ Cardinality(buckets[ip]) <= Limit
      BY FS_Subset DEF LInv, ListsSuffice, LimitTypeOK
  <2>2. Cardinality(Kept(ip)) <= Cardinality(buckets[ip])
      BY <1>2, <2>1, FS_Subset
  <2>3. Cardinality(buckets[ip]) \in Nat /\ Cardinality(Kept(ip)) \in Nat
      BY <1>2, <2>1, FS_CardinalityType
  <2> QED
      BY <2>1, <2>2, <2>3
<1>4. LimitTypeOK'
    BY <1>1, <1>2, <1>3 DEF LInv, LimitTypeOK
<1>5. WindowBound'
    BY <1>1 DEF LInv, WindowBound
<1>6. ListsSuffice'
    BY <1>1, <1>2 DEF LInv, ListsSuffice, LimitTypeOK, Kept
<1> QED
    BY <1>4, <1>5, <1>6 DEF LInv

LEMMA AdmissionKeeps ==
    ASSUME LInv, NEW c \in Call, NEW ip \in IP, Allow(c, ip), ~(Cardinality(Kept(ip)) >= Limit)
    PROVE  LInv'
<1> DEFINE new == Kept(ip) \union {Mark(c)}
<1>1. /\ buckets' = [buckets EXCEPT ![ip] = new]
      /\ admitted' = [admitted EXCEPT ![ip] = admitted[ip] \union {Mark(c)}]
      /\ refused' = refused /\ clock' = clock
    BY DEF Allow, Mark
<1>2. Mark(c) \in Event /\ IsFiniteSet(new) /\ Cardinality(new) <= Limit
    BY AdmittedFits DEF Allow
<1>3. /\ buckets[ip] \subseteq admitted[ip] /\ Kept(ip) \subseteq buckets[ip]
      /\ admitted[ip] \subseteq Event /\ IsFiniteSet(admitted[ip]) /\ clock \in 0..LastTime
      /\ buckets \in [IP -> SUBSET Event] /\ admitted \in [IP -> SUBSET Event]
    BY KeptIsWindow DEF LInv, ListsSuffice, LimitTypeOK
<1>4. /\ \A j \in IP : j # ip => buckets'[j] = buckets[j] /\ admitted'[j] = admitted[j]
      /\ buckets'[ip] = new /\ admitted'[ip] = admitted[ip] \union {Mark(c)}
    BY <1>1, <1>3
<1>5. LimitTypeOK'
    BY <1>1, <1>2, <1>3, <1>4 DEF LInv, LimitTypeOK
<1>6. ListsSuffice'
  <2> SUFFICES ASSUME NEW j \in IP
               PROVE  /\ IsFiniteSet(admitted'[j]) /\ buckets'[j] \subseteq admitted'[j]
                      /\ \A e \in admitted'[j] :
                            e.at <= clock /\ (e.at > clock - Window => e \in buckets'[j])
      BY <1>1 DEF ListsSuffice
  <2>1. CASE j # ip
      BY <1>4, <2>1 DEF LInv, ListsSuffice
  <2>2. CASE j = ip
    <3>1. IsFiniteSet(admitted'[ip])
        BY <1>3, <1>4, FS_AddElement
    <3>2. \A e \in admitted[ip] : e.at <= clock /\ (e.at > clock - Window => e \in Kept(ip))
        BY DEF LInv, ListsSuffice, Kept
    <3>3. Mark(c).at = clock
        BY DEF Mark
    <3>4. clock <= clock
        BY <1>3
    <3>5. buckets'[ip] \subseteq admitted'[ip]
        BY <1>3, <1>4
    <3>6. \A e \in admitted'[ip] : e.at <= clock /\ (e.at > clock - Window => e \in buckets'[ip])
      <4> SUFFICES ASSUME NEW e \in admitted'[ip]
                   PROVE  e.at <= clock /\ (e.at > clock - Window => e \in buckets'[ip])
          OBVIOUS
      <4>1. e \in admitted[ip] \/ e = Mark(c)
          BY <1>4
      <4> QED
          BY <1>4, <3>2, <3>3, <3>4, <4>1
    <3> QED
        BY <2>2, <3>1, <3>5, <3>6
  <2> QED
      BY <2>1, <2>2
<1>7. WindowBound'
  <2> SUFFICES ASSUME NEW j \in IP, NEW t \in 0..LastTime
               PROVE  Cardinality({e \in admitted'[j] : t - Window < e.at /\ e.at <= t}) <= Limit
      BY DEF WindowBound
  <2> DEFINE before == {e \in admitted[j] : t - Window < e.at /\ e.at <= t}
             after == {e \in admitted'[j] : t - Window < e.at /\ e.at <= t}
  <2>1. Cardinality(before) <= Limit
      BY DEF LInv, WindowBound
  <2>2. CASE j # ip \/ t < clock
    <3>1. Mark(c).at = clock
        BY DEF Mark
    <3>2. after = before
        BY <1>3, <1>4, <2>2, <3>1
    <3> QED
        BY <2>1, <3>2
  <2>3. CASE j = ip /\ t >= clock
    <3>1. \A e \in admitted[ip] : e.at \in Nat /\ (e.at > clock - Window => e \in Kept(ip))
        BY <1>3 DEF LInv, ListsSuffice, Kept, Event
    <3>2. after \subseteq new
        BY <1>3, <1>4, <2>3, <3>1
    <3>3. Cardinality(after) <= Cardinality(new) /\ IsFiniteSet(after)
        BY <1>2, <3>2, FS_Subset
    <3>4. Cardinality(after) \in Nat /\ Cardinality(new) \in Nat
        BY <1>2, <3>3, FS_CardinalityType
    <3> HIDE DEF after, new
    <3> QED
        BY <1>2, <3>3, <3>4 DEF after
  <2> QED
      BY <1>3, <2>2, <2>3
<1> QED
    BY <1>5, <1>6, <1>7 DEF LInv

LEMMA StepLInv == LInv /\ [LimitNext]_limitVars => LInv'
<1> SUFFICES ASSUME LInv, [LimitNext]_limitVars PROVE LInv'
    OBVIOUS
<1>1. ASSUME NEW c \in Call, NEW ip \in IP, Allow(c, ip) PROVE LInv'
    BY <1>1, RefusalKeeps, AdmissionKeeps
<1>2. CASE ClockTicks
  <2>1. clock' = clock + 1 /\ clock' \in 0..LastTime /\ clock \in Nat
      BY <1>2 DEF ClockTicks, LInv, LimitTypeOK
  <2>2. \A ip \in IP : \A e \in admitted[ip] : e.at \in Nat
      BY DEF LInv, LimitTypeOK, Event
  <2>3. ListsSuffice'
      BY <1>2, <2>1, <2>2 DEF ClockTicks, LInv, ListsSuffice
  <2> QED
      BY <1>2, <2>1, <2>3 DEF ClockTicks, LInv, LimitTypeOK, WindowBound
<1>3. CASE LimiterRestarts
  <2>1. IsFiniteSet({}) /\ Cardinality({}) = 0
      BY FS_EmptySet
  <2>2. \A ip \in IP : buckets'[ip] = {} /\ admitted'[ip] = {}
      BY <1>3 DEF LimiterRestarts, NoCalls
  <2>3. WindowBound'
    <3> SUFFICES ASSUME NEW ip \in IP, NEW t \in 0..LastTime
                 PROVE  Cardinality({e \in admitted'[ip] : t - Window < e.at /\ e.at <= t}) <= Limit
        BY DEF WindowBound
    <3>1. {e \in admitted'[ip] : t - Window < e.at /\ e.at <= t} = {}
        BY <2>2
    <3> QED
        BY <2>1, <3>1
  <2>4. LimitTypeOK'
      BY <1>3, <2>1, <2>2 DEF LimiterRestarts, LInv, LimitTypeOK, NoCalls
  <2>5. ListsSuffice'
      BY <2>1, <2>2 DEF ListsSuffice
  <2> QED
      BY <2>3, <2>4, <2>5 DEF LInv
<1>4. CASE UNCHANGED limitVars
    BY <1>4 DEF limitVars, LInv, LimitTypeOK, WindowBound, ListsSuffice
<1> QED
    BY <1>1, <1>2, <1>3, <1>4 DEF LimitNext

\* The lists hold what the windows need in every reachable state.
THEOREM LimitInvariant == LimitSpec => []LInv
<1>1. LimitInit => LInv
    BY InitLInv
<1>2. LInv /\ [LimitNext]_limitVars => LInv'
    BY StepLInv
<1> QED
    BY <1>1, <1>2, PTL DEF LimitSpec

\* No list is ever longer than Limit.
THEOREM LimitTypeCorrect == LimitSpec => []LimitTypeOK
<1>1. LInv => LimitTypeOK
    BY DEF LInv
<1> QED
    BY <1>1, LimitInvariant, PTL

\* At most Limit calls of an address are let through in any window.
THEOREM LimitHolds == LimitSpec => []WindowBound
<1>1. LInv => WindowBound
    BY DEF LInv
<1> QED
    BY <1>1, LimitInvariant, PTL

LEMMA StepPromised == LInv /\ [LimitNext]_limitVars => [Promise!PromiseNext]_(Promise!promised)
<1> SUFFICES ASSUME LInv, [LimitNext]_limitVars PROVE [Promise!PromiseNext]_(Promise!promised)
    OBVIOUS
<1>1. ASSUME NEW c \in Call, NEW ip \in IP, Allow(c, ip) PROVE Promise!PromiseNext
  <2>1. Promise!Fresh(c) /\ Cardinality(Promise!InWindow(ip, clock)) = Cardinality(Kept(ip))
      BY <1>1, KeptIsWindow DEF Allow, Unseen, Promise!Fresh
  <2>2. CASE Cardinality(Kept(ip)) >= Limit
    <3>1. Promise!Refuse(c, ip)
        BY <1>1, <2>1, <2>2 DEF Allow, Promise!Refuse, Promise!Cardinality, Cardinality
    <3> QED
        BY <3>1 DEF Promise!PromiseNext
  <2>3. CASE ~(Cardinality(Kept(ip)) >= Limit)
    <3>1. Cardinality(Kept(ip)) < Limit
        BY <2>3, KeptIsWindow
    <3>2. Promise!Admit(c, ip)
        BY <1>1, <2>1, <2>3, <3>1 DEF Allow, Promise!Admit, Promise!Cardinality, Cardinality
    <3> QED
        BY <3>2 DEF Promise!PromiseNext
  <2> QED
      BY <2>2, <2>3
<1>2. CASE ClockTicks
  <2>1. Promise!TimePasses
      BY <1>2 DEF ClockTicks, Promise!TimePasses, LInv, LimitTypeOK
  <2> QED
      BY <2>1 DEF Promise!PromiseNext
<1>3. CASE LimiterRestarts
    BY <1>3 DEF LimiterRestarts, NoCalls, Promise!Forget, Promise!PromiseNext
<1>4. CASE UNCHANGED limitVars
    BY <1>4 DEF limitVars, Promise!promised
<1> QED
    BY <1>1, <1>2, <1>3, <1>4 DEF LimitNext

\* The limiter implements the sliding window over everything that it has let through.
THEOREM LimiterSlides == LimitSpec => DecidesByWindow
<1>1. LimitInit => Promise!PromiseInit
    BY DEF LimitInit, NoCalls, Promise!PromiseInit
<1>2. LInv /\ [LimitNext]_limitVars => [Promise!PromiseNext]_(Promise!promised)
    BY StepPromised
<1> QED
    BY <1>1, <1>2, LimitInvariant, PTL DEF LimitSpec, DecidesByWindow, Promise!PromiseSpec
=============================================================================
