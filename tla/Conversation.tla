----------------------------- MODULE Conversation -----------------------------
(***************************************************************************)
(* What the replies to our posts promise, whatever is redelivered, decided *)
(* or migrated at the same time: an activity becomes at most one reply, a  *)
(* reply hangs under its post or under a reply that was there before, and  *)
(* from then on only its status changes, between pending and decided.      *)
(* Moderation implements this specification.                               *)
(***************************************************************************)
CONSTANTS Id, Reply, NoReply

VARIABLE reply \* what has become of each activity

\* Under the post it names, or under a reply to the same post, by that reply's author.
Fits(r) ==
    IF r.nested
    THEN \E p \in Id : /\ reply[p] # NoReply /\ reply[p].object = r.target
                       /\ reply[p].slug = r.slug /\ reply[p].actor = r.parentActor
    ELSE r.target = r.slug

\* Nothing arrives skipped, and nothing unverified arrives decided.
Arrive(id) ==
    LET r == reply'[id] IN
    /\ reply[id] = NoReply
    /\ r \in Reply /\ r.id = id /\ Fits(r)
    /\ r.status # "skipped" /\ (r.verified \/ r.status = "pending")
    /\ reply' = [reply EXCEPT ![id] = r]

Decide(id) ==
    LET status == reply'[id].status IN
    /\ reply[id] # NoReply /\ reply[id].status = "pending"
    /\ status \in {"approved", "rejected", "skipped"}
    /\ reply' = [reply EXCEPT ![id].status = status]

Revert(id) ==
    /\ reply[id] # NoReply /\ reply[id].status # "pending"
    /\ reply' = [reply EXCEPT ![id].status = "pending"]

ConversationInit == reply = [id \in Id |-> NoReply]
ConversationNext == \E id \in Id : Arrive(id) \/ Decide(id) \/ Revert(id)
ConversationSpec == ConversationInit /\ [][ConversationNext]_reply
=============================================================================
