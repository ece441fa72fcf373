----------------------------- MODULE Moderation ------------------------------
(***************************************************************************)
(* Replies from other servers: POST /inbox (a Create with an inReplyTo),   *)
(* the moderation queue, the trusted and blocked lists, and the one-time   *)
(* migration of replies that older versions kept in the raw inbox.         *)
(*                                                                         *)
(* A worker is one inbox request; each of its steps is one transaction or  *)
(* one read of the settings.  No code deletes a reply, so the replies      *)
(* bucket is a sequence in the order of its commits and a position stands  *)
(* for a composite key, which is unique because its activity id is.        *)
(***************************************************************************)
EXTENDS Naturals, Sequences

CONSTANTS
    Actor,      \* remote actors
    Listed,     \* bound: those the admin puts on the lists
    Slug,       \* last segments of our post URLs
    Object,     \* ids of remote objects
    ActivityId, \* ids of remote activities
    FreshId,    \* the ids made up for activities that have none
    Message,    \* Create activities that other servers send, again and again
    Legacy,     \* those of them the raw inbox already holds
    Worker,     \* concurrent inbox requests
    None        \* no id, no object, no actor

Id == ActivityId \union FreshId
MaybeObject == Object \union {None}

ASSUME NamesAssumption ==
    /\ None \notin Id \union Object \union Actor \union Slug
    /\ Slug \intersect Object = {} /\ Listed \subseteq Actor
    /\ ActivityId \intersect FreshId = {}

\* A target in Slug is the URL of a post here, one in Object another server's object.
ASSUME MessageAssumption ==
    /\ Message \subseteq [id: ActivityId \union {None}, object: MaybeObject,
                          target: Slug \union Object, actor: Actor]
    /\ Legacy \subseteq {m \in Message : m.id # None /\ m.target \in Slug}

VARIABLES
    replies,    \* the replies bucket, by position
    byActivity, \* index: activity id -> position, 0 when absent
    byObject,   \* index: object id -> position, 0 when absent
    trusted, blocked,   \* the actor lists
    moderated,  \* the site setting moderation_enabled
    migrated,   \* the migration marker
    phase,      \* "down", "migrating" or "serving"
    existing,   \* slugs that resolved to a post in the migration's scan
    todo,       \* scanned entries the migration still has to store
    pc, job,    \* each worker's next step and the reply it has built
    grounds     \* history: what has been true since each worker's message came

store == <<replies, byActivity, byObject>>
settings == <<trusted, blocked, moderated>>
boot == <<migrated, phase, existing, todo>>
vars == <<store, settings, boot, pc, job, grounds>>

Status == {"pending", "approved", "rejected", "skipped"}

Reply == [id: Id, slug: Slug, object: MaybeObject, target: Slug \union Object,
          actor: Actor, nested: BOOLEAN, parentActor: Actor \union {None},
          status: Status, verified: BOOLEAN]

NoReply == [id |-> None, slug |-> None, object |-> None, target |-> None, actor |-> None,
            nested |-> FALSE, parentActor |-> None, status |-> "pending", verified |-> FALSE]

Stored(id) == byActivity[id] # 0

-----------------------------------------------------------------------------
(* saveReplyWithOrdering. *)
AppendReply(r) ==
    LET key == Len(replies) + 1 IN
    /\ replies' = Append(replies, r)
    /\ byActivity' = [byActivity EXCEPT ![r.id] = key]
    /\ byObject' = IF r.object = None THEN byObject ELSE [byObject EXCEPT ![r.object] = key]

\* Mutant: no look at the index before the write.
SaveAlways(r) == AppendReply(r)

\* Mutant: a redelivered activity replaces the reply.
SaveUpsert(r) ==
    IF Stored(r.id)
    THEN /\ replies' = [replies EXCEPT ![byActivity[r.id]] = r]
         /\ UNCHANGED <<byActivity, byObject>>
    ELSE AppendReply(r)

SaveReply(r) ==
    \/ Stored(r.id) /\ UNCHANGED store
    \/ ~Stored(r.id) /\ AppendReply(r)

-----------------------------------------------------------------------------
(* handleCreate, up to the lookup of the parent: a reply to a post of ours, or *)
(* to a stored reply, whose post it inherits; any other message is dropped.    *)
Built(m, id, slug, nested, parentActor) ==
    [id |-> id, slug |-> slug, object |-> m.object, target |-> m.target, actor |-> m.actor,
     nested |-> nested, parentActor |-> parentActor, status |-> "pending", verified |-> TRUE]

Arrives(w, r) ==
    /\ phase = "serving" /\ pc[w] = "idle"
    /\ pc' = [pc EXCEPT ![w] = "settings"]
    /\ job' = [job EXCEPT ![w] = r]
    /\ UNCHANGED <<store, settings, boot>>

\* Mutant: an empty id is an id.
KeepEmptyId(m) == {m.id}

\* A message without an id gets one made of the time.
IdFor(m) ==
    IF m.id # None THEN {m.id}
    ELSE {f \in FreshId : ~Stored(f) /\ \A v \in Worker : job[v].id # f}

ReceiveDirect(w, m) ==
    /\ m.target \in Slug
    /\ \E id \in IdFor(m) : Arrives(w, Built(m, id, m.target, FALSE, None))

ReceiveNested(w, m) ==
    /\ m.target \in Object /\ byObject[m.target] # 0
    /\ LET parent == replies[byObject[m.target]]
       IN  \E id \in IdFor(m) : Arrives(w, Built(m, id, parent.slug, TRUE, parent.actor))

Step(w, from, to, status) ==
    /\ pc[w] = from
    /\ pc' = [pc EXCEPT ![w] = to]
    /\ job' = [job EXCEPT ![w].status = status]
    /\ UNCHANGED <<store, settings, boot>>

\* The site file is read afresh; when that fails the queue counts as on.
ReadSetting(w) ==
    \E gated \in {moderated, TRUE} :
        Step(w, "settings", "classify", IF gated THEN "pending" ELSE "approved")

\* Mutant: trust goes before the block list.
TrustFirst(w) ==
    Step(w, "classify", "save", IF job[w].actor \in trusted THEN "approved"
                                ELSE IF job[w].actor \in blocked THEN "rejected"
                                ELSE job[w].status)

Classify(w) ==
    Step(w, "classify", "save", IF job[w].actor \in blocked THEN "rejected"
                                ELSE IF job[w].actor \in trusted THEN "approved"
                                ELSE job[w].status)

\* The reply is stored, or the write fails and the sender hears of it.
Save(w) ==
    /\ pc[w] = "save"
    /\ SaveReply(job[w]) \/ UNCHANGED store
    /\ pc' = [pc EXCEPT ![w] = "idle"]
    /\ job' = [job EXCEPT ![w] = NoReply]
    /\ UNCHANGED <<settings, boot>>

-----------------------------------------------------------------------------
(* The admin. *)
\* Mutant: any change of the status will do.
AnyTransition(from, to) == from # to

ValidTransition(from, to) == (from = "pending") # (to = "pending")

SetReplyStatus(key, status) ==
    /\ phase = "serving"
    /\ ValidTransition(replies[key].status, status)
    /\ replies' = [replies EXCEPT ![key].status = status]
    /\ UNCHANGED <<byActivity, byObject, settings, boot, pc, job>>

SetList(list, new) ==
    /\ phase = "serving"
    /\ list' = new
    /\ UNCHANGED <<store, moderated, boot, pc, job>>

AddTrusted(a) == SetList(trusted, trusted \union {a}) /\ UNCHANGED blocked
RemoveTrusted(a) == SetList(trusted, trusted \ {a}) /\ UNCHANGED blocked
AddBlocked(a) == SetList(blocked, blocked \union {a}) /\ UNCHANGED trusted
RemoveBlocked(a) == SetList(blocked, blocked \ {a}) /\ UNCHANGED trusted

\* The settings page toggles moderation.
ToggleModeration ==
    /\ phase = "serving"
    /\ moderated' = ~moderated
    /\ UNCHANGED <<store, trusted, blocked, boot, pc, job>>

-----------------------------------------------------------------------------
(* RunBackfillOnce, before the server listens. *)
BootMigrated ==
    /\ phase = "down" /\ migrated
    /\ phase' = "serving"
    /\ UNCHANGED <<store, settings, migrated, existing, todo, pc, job>>

\* Posts came and went since the last start; only replies to one that is there count.
Scan(known) ==
    /\ phase = "down" /\ ~migrated
    /\ phase' = "migrating"
    /\ existing' = known
    /\ todo' = {m \in Legacy : m.target \in known}
    /\ UNCHANGED <<store, settings, migrated, pc, job>>

Migrated(m) == [Built(m, m.id, m.target, FALSE, None) EXCEPT !.verified = FALSE]

MigrateOne(m) ==
    /\ phase = "migrating" /\ m \in todo
    /\ SaveReply(Migrated(m))
    /\ todo' = todo \ {m}
    /\ UNCHANGED <<settings, migrated, phase, existing, pc, job>>

Serve(marker) ==
    /\ phase = "migrating"
    /\ phase' = "serving" /\ migrated' = marker
    /\ existing' = {} /\ todo' = {}
    /\ UNCHANGED <<store, settings, pc, job>>

\* Mutant: an entry that cannot be stored is passed over.
MarkAnyway == Serve(TRUE)

SetBackfillMarker == todo = {} /\ Serve(TRUE)

\* The scan or an entry fails: the server logs it and serves without the marker.
MigrationFails == Serve(FALSE)

Crash ==
    /\ phase # "down"
    /\ phase' = "down" /\ existing' = {} /\ todo' = {}
    /\ pc' = [w \in Worker |-> "idle"]
    /\ job' = [w \in Worker |-> NoReply]
    /\ UNCHANGED <<store, settings, migrated>>

-----------------------------------------------------------------------------
\* What holds now of worker w's message.
Facts(w) ==
    {IF moderated THEN "gated" ELSE "open",
     IF job[w].actor \in trusted THEN "trusted" ELSE "untrusted",
     IF job[w].actor \in blocked THEN "blocked" ELSE "unblocked"}

\* History only: the facts since the message came.
Observe == grounds' = [w \in Worker |-> IF pc'[w] = "idle" THEN {} ELSE grounds[w] \union Facts(w)']

Init ==
    /\ replies = <<>>
    /\ byActivity = [id \in Id |-> 0]
    /\ byObject = [o \in Object |-> 0]
    /\ trusted = {} /\ blocked = {} /\ moderated = TRUE
    /\ migrated = FALSE /\ phase = "down" /\ existing = {} /\ todo = {}
    /\ pc = [w \in Worker |-> "idle"]
    /\ job = [w \in Worker |-> NoReply]
    /\ grounds = [w \in Worker |-> {}]

Ingest(w) ==
    \/ \E m \in Message : ReceiveDirect(w, m) \/ ReceiveNested(w, m)
    \/ ReadSetting(w)
    \/ Classify(w)
    \/ Save(w)

Admin ==
    \/ \E key \in DOMAIN replies, status \in Status : SetReplyStatus(key, status)
    \/ \E a \in Listed : AddTrusted(a) \/ RemoveTrusted(a) \/ AddBlocked(a) \/ RemoveBlocked(a)
    \/ ToggleModeration

Startup ==
    \/ BootMigrated
    \/ \E known \in SUBSET Slug : Scan(known)
    \/ \E m \in todo : MigrateOne(m)
    \/ SetBackfillMarker
    \/ MigrationFails

Move == (\E w \in Worker : Ingest(w)) \/ Admin \/ Startup \/ Crash

Next == Move /\ Observe

Spec == Init /\ [][Next]_vars

-----------------------------------------------------------------------------
(***************************************************************************)
(* Properties.                                                             *)
(***************************************************************************)

\* Variables stay well-formed; a busy worker's reply could be stored as it is.
TypeOK ==
    /\ replies \in Seq(Reply)
    /\ byActivity \in [Id -> 0 .. Len(replies)]
    /\ byObject \in [Object -> 0 .. Len(replies)]
    /\ trusted \subseteq Actor /\ blocked \subseteq Actor
    /\ moderated \in BOOLEAN /\ migrated \in BOOLEAN
    /\ phase \in {"down", "migrating", "serving"} /\ existing \subseteq Slug /\ todo \subseteq Legacy
    /\ pc \in [Worker -> {"idle", "settings", "classify", "save"}]
    /\ job \in [Worker -> Reply \union {NoReply}]
    /\ \A w \in Worker : pc[w] = "idle" <=> job[w] = NoReply

\* The indexes and the bucket agree: an activity has one reply however often and
\* from however many requests it comes, and every object of a reply is found.
IndexesAgree ==
    /\ \A k \in DOMAIN replies : byActivity[replies[k].id] = k
    /\ \A id \in Id : Stored(id) => replies[byActivity[id]].id = id
    /\ \A o \in Object : byObject[o] # 0 => replies[byObject[o]].object = o
    /\ \A k \in DOMAIN replies : replies[k].object # None => byObject[replies[k].object] # 0

InThread(r, before) ==
    IF r.nested
    THEN \E j \in before : /\ replies[j].object = r.target
                           /\ replies[j].slug = r.slug /\ replies[j].actor = r.parentActor
    ELSE r.target = r.slug

\* A nested reply hangs under an earlier reply that is its target, on that reply's
\* post and naming its author, though the parent was looked up two transactions
\* before the reply was stored.
ThreadsHold == \A k \in DOMAIN replies : InThread(replies[k], 1 .. k - 1)

Decisions ==
    \A k \in DOMAIN replies :
        /\ k \in DOMAIN replies'
        /\ replies'[k] = [replies[k] EXCEPT !.status = replies'[k].status]
        /\ \/ replies'[k].status = replies[k].status
           \/ ValidTransition(replies[k].status, replies'[k].status)

\* No redelivery, migration or crash undoes a decision: a stored reply stays, with
\* its author and text, and its status only moves the way an admin may move it.
DecisionsStand == [][Decisions]_vars

\* What justifies the status a reply arrives with, whatever the admin changes
\* while it is being ingested.
Justified(status, facts) ==
    CASE status = "approved" -> "unblocked" \in facts /\ {"open", "trusted"} \intersect facts # {}
      [] status = "rejected" -> "blocked" \in facts
      [] status = "pending"  -> {"untrusted", "unblocked"} \subseteq facts
      [] OTHER -> FALSE

Arrival ==
    Len(replies') > Len(replies) =>
        LET r == replies'[Len(replies')]
        IN  IF r.verified
            THEN \E w \in Worker : pc[w] = "save" /\ job[w] = r /\ Justified(r.status, grounds[w])
            ELSE r.status = "pending"

\* A reply arrives approved, rejected or pending for a reason that held while it
\* came in, and a migrated one, whose author was never verified, always pending.
ArrivalsJustified == [][Arrival]_vars

Completion == migrated' /\ ~migrated => \A m \in Legacy : m.target \in existing => Stored(m.id)

\* When the marker is set, every old reply to a post that exists is in the queue,
\* through failed and interrupted passes and live redeliveries between them.
MigrationComplete == [][Completion]_vars

\* What has become of each activity.
ReplyOf == [id \in Id |-> IF Stored(id) THEN replies[byActivity[id]] ELSE NoReply]

(* Moderation implements Conversation: through redeliveries, migrations, crashes and *)
(* an admin at work, replies only arrive, each once and into its thread, and are     *)
(* decided or reverted (SaveReply, SetReplyStatus).                                  *)
Talk == INSTANCE Conversation WITH reply <- ReplyOf
RepliesConverse == Talk!ConversationSpec
=============================================================================
