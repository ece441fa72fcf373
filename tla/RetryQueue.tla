------------------------------ MODULE RetryQueue ------------------------------
(***************************************************************************)
(* What the key-fetch queue promises, whatever lists, passes, crashes and  *)
(* impatient senders there are: a key that is in it has its failures       *)
(* counted one at a time and never forgotten, and leaves it for a reason.  *)
(* KeyFetch implements this specification.                                 *)
(***************************************************************************)
EXTENDS Naturals

CONSTANTS
    Key,
    Absent,
    Hopeless,   \* keys that name no actor
    Bound       \* the failures after which a key is given up

VARIABLES
    failures,   \* failures[k]: of a key in the queue, or Absent
    known       \* keys whose actor is stored

Waiting(k) == failures[k] # Absent

Queue(k) == ~Waiting(k) /\ failures' = [failures EXCEPT ![k] = 0] /\ UNCHANGED known

Fail(k) ==
    /\ Waiting(k) /\ failures[k] < Bound /\ k \notin Hopeless
    /\ failures' = [failures EXCEPT ![k] = @ + 1]
    /\ UNCHANGED known

\* An actor is stored for a key that waits and has a try left; it may have other keys.
Learn(k) ==
    /\ Waiting(k) /\ failures[k] < Bound /\ k \notin Hopeless
    /\ known \union {k} \subseteq known' /\ UNCHANGED failures

Leave(k) ==
    /\ Waiting(k)
    /\ k \in known \/ k \in Hopeless \/ failures[k] = Bound
    /\ failures' = [failures EXCEPT ![k] = Absent]
    /\ UNCHANGED known

RetryInit == failures = [k \in Key |-> Absent] /\ known = {}

RetryNext == \E k \in Key : Queue(k) \/ Fail(k) \/ Learn(k) \/ Leave(k)

RetrySpec == RetryInit /\ [][RetryNext]_<<failures, known>>
=============================================================================
