----------------------------- MODULE Publishing ------------------------------
(***************************************************************************)
(* The publishing handlers over the post store: compose, publish a draft   *)
(* (with its flush of the just-typed text), deliver to the followers'      *)
(* inboxes, record the outcome, resolve the remote permalink afterwards,   *)
(* backfill and redelivery, with crashes between any two steps and records *)
(* that cannot be written.  A worker is one request goroutine; every step  *)
(* of its own is one transaction or one network exchange, so workers       *)
(* interleave wherever the code lets them.                                 *)
(***************************************************************************)
EXTENDS Naturals, PostStore

CONSTANTS
    Worker,     \* concurrent requests
    Inbox,      \* the followers' delivery inboxes
    Input       \* what clients type: records of a kind, a title and a body

ASSUME InputAssumption ==
    Input \subseteq [kind: Kind, title: Text, body: Text]

VARIABLES
    pc,             \* pc[w]: the next step of worker w
    job,            \* job[w]: its local variables
    resolving,      \* slugs whose permalink a background goroutine looks up
    received,       \* <<inbox, slug, activity>> a remote server has accepted
    everPublished,  \* history: <<slug, activity>> that readers could see
    everDeleted,    \* history: slugs deleted once
    interrupted     \* history: slugs that a crash or a failed record left undecided

pubVars == <<pc, job, resolving, received, everPublished, everDeleted, interrupted>>
vars == <<storeVars, pubVars>>
history == <<everPublished, everDeleted, interrupted>>

Job == [op: {"none", "compose", "publish", "backfill", "redeliver"},
        slug: Slug \union {NoRow}, row: Row \union {NoRow}, typed: Input \union {NoRow},
        inboxes: SUBSET Inbox, failed: BOOLEAN, list: [Slug -> Row \union {NoRow}]]

NoJob == [op |-> "none", slug |-> NoRow, row |-> NoRow, typed |-> NoRow,
          inboxes |-> {}, failed |-> FALSE, list |-> [s \in Slug |-> NoRow]]

PC == {"idle", "flushed", "undecided", "deliver", "loop"}

\* A worker between a successful publication and the record of its federation.
Completing(w, s) ==
    /\ pc[w] \in {"undecided", "deliver"}
    /\ job[w].op \in {"compose", "publish"}
    /\ job[w].slug = s

Published(s) == PostAt(s) # NoRow /\ PostAt(s).status = "published"

Go(w, to, j) == pc' = [pc EXCEPT ![w] = to] /\ job' = [job EXCEPT ![w] = j]
Finish(w) == Go(w, "idle", NoJob)

\* What a request keeps of a post: what its federation record said is not read again.
Carried(row) == [row EXCEPT !.fed = NoFederation]

\* Readers can see activity a of slug s from this step on.
Publicise(s, a) ==
    /\ everPublished' = everPublished \union {<<s, a>>}
    /\ UNCHANGED <<everDeleted, interrupted>>

-----------------------------------------------------------------------------
(* POST /api/posts and the import handler. *)
Compose(w, s, in, federate) ==
    /\ up /\ pc[w] = "idle"
    /\ CreatePost(s, in.kind, in.body)
    /\ LET row == posts'[Canonical(s)]
       IN  /\ Go(w, IF federate THEN "deliver" ELSE "undecided",
                 [NoJob EXCEPT !.op = "compose", !.slug = s, !.row = row, !.inboxes = Inbox])
           /\ Publicise(s, ActivityOf(row))
    /\ UNCHANGED <<resolving, received>>

(* POST /api/posts/drafts, the autosave. *)
Autosave(s, in) ==
    /\ SaveDraft(s, in.kind, in.title, in.body)
    /\ UNCHANGED pubVars

(* POST /api/posts/{id}/publish with a body: first the body is saved... *)
PublishFlush(w, s, in) ==
    /\ pc[w] = "idle"
    /\ SaveDraft(s, in.kind, in.title, in.body)
    /\ Go(w, "flushed", [NoJob EXCEPT !.op = "publish", !.slug = s, !.typed = in])
    /\ UNCHANGED <<resolving, received, history>>

(* ...then, in another transaction, the draft is published; a request without  *)
(* a body starts here.                                                         *)
PublishRow(w, s, typed, federate) ==
    /\ PublishDraft(s)
    /\ LET row == posts'[Canonical(s)]
       IN  /\ Go(w, IF federate THEN "deliver" ELSE "undecided",
                 [NoJob EXCEPT !.op = "publish", !.slug = s, !.row = Carried(row), !.typed = typed,
                               !.inboxes = Inbox])
           /\ Publicise(s, ActivityOf(row))
    /\ UNCHANGED <<resolving, received>>

PublishPlain(w, s, federate) == pc[w] = "idle" /\ PublishRow(w, s, NoRow, federate)

PublishFlushed(w, federate) ==
    /\ pc[w] = "flushed"
    /\ PublishRow(w, job[w].slug, job[w].typed, federate)

\* PublishDraft refuses: the post is gone, already published, empty or too long.
Publishable(s) ==
    /\ PostAt(s) # NoRow
    /\ PostAt(s).status = "draft"
    /\ Valid(PostAt(s).kind, PublishedBody(PostAt(s)))

PublishRefused(w) ==
    /\ pc[w] = "flushed"
    /\ ~Publishable(job[w].slug)
    /\ Finish(w)
    /\ UNCHANGED <<storeVars, resolving, received, history>>

(* PUT and DELETE /api/posts/{id}. *)
Edit(s, in) ==
    /\ UpdatePost(s, in.kind, in.body)
    /\ Publicise(s, ActivityOf(posts'[Canonical(s)]))
    /\ UNCHANGED <<pc, job, resolving, received>>

Delete(s) ==
    /\ DeletePost(s)
    /\ everDeleted' = everDeleted \union {s}
    /\ UNCHANGED <<pc, job, resolving, received, everPublished, interrupted>>

-----------------------------------------------------------------------------
\* SetFederation finds the row that is there now, or reports that none is.
RecordFederation(s, fed) ==
    \/ SetFederation(s, fed)
    \/ KeysOf(s) = {} /\ UNCHANGED storeVars

(* Mutant: there is nothing to record of a post that is not shared. *)
LeaveUndecided(w) ==
    /\ pc[w] = "undecided"
    /\ Finish(w)
    /\ UNCHANGED <<storeVars, resolving, received, history>>

(* Complete without federation. *)
RecordNotShared(w) ==
    /\ pc[w] = "undecided"
    /\ RecordFederation(job[w].slug, NotShared)
    /\ Finish(w)
    /\ UNCHANGED <<resolving, received, history>>

\* Deliver reports an error when the inbox is not reached, answers with an error,
\* or when its answer is lost after it took the activity.
Accepts == [taken |-> TRUE, error |-> FALSE]
Outcome == {Accepts, [taken |-> TRUE, error |-> TRUE], [taken |-> FALSE, error |-> TRUE]}

Undecided(s) == Published(s) /\ ~PostAt(s).fed.set

(* The record cannot be written: Complete drops that error when it reports another,  *)
(* or returns it; either way the request ends, with 502, and the post stays as it is.*)
RecordFails(w) ==
    /\ \/ pc[w] = "undecided"
       \/ /\ pc[w] = "deliver" /\ job[w].inboxes = {}
          /\ job[w].op \in {"compose", "publish"}
    /\ Finish(w)
    /\ interrupted' = interrupted \union {s \in {job[w].slug} : Undecided(s)}
    /\ UNCHANGED <<storeVars, resolving, received, everPublished, everDeleted>>

\* Mutant: the stored row goes out, not its activity.
SentRow(w) == job[w].row

\* What goes out is the post as it was when the request published or listed it.
Sent(w) == ActivityOf(job[w].row)

\* Mutant: an inbox that failed is tried again at once.
DeliverUntilTaken(w, i, outcome) ==
    /\ pc[w] = "deliver"
    /\ i \in job[w].inboxes
    /\ received' = IF outcome.taken
                   THEN received \union {<<i, job[w].slug, Sent(w)>>}
                   ELSE received
    /\ Go(w, "deliver", [job[w] EXCEPT !.inboxes = IF outcome.error THEN @ ELSE @ \ {i},
                                       !.failed = @ \/ outcome.error])
    /\ UNCHANGED <<storeVars, resolving, history>>

\* Mutant: the outcome of the last inbox is taken for that of the delivery.
LastOutcome(w, i, outcome) ==
    /\ pc[w] = "deliver"
    /\ i \in job[w].inboxes
    /\ received' = IF outcome.taken
                   THEN received \union {<<i, job[w].slug, Sent(w)>>}
                   ELSE received
    /\ Go(w, "deliver", [job[w] EXCEPT !.inboxes = @ \ {i}, !.failed = outcome.error])
    /\ UNCHANGED <<storeVars, resolving, history>>

(* DeliverToInboxes: one inbox after the other, whatever the earlier ones said. *)
DeliverOne(w, i, outcome) ==
    /\ pc[w] = "deliver"
    /\ i \in job[w].inboxes
    /\ received' = IF outcome.taken
                   THEN received \union {<<i, job[w].slug, Sent(w)>>}
                   ELSE received
    /\ Go(w, "deliver", [job[w] EXCEPT !.inboxes = @ \ {i}, !.failed = @ \/ outcome.error])
    /\ UNCHANGED <<storeVars, resolving, history>>

\* Mutant: errors of single inboxes are dropped.
AlwaysOk(w) == SharedOk

DeliveryResult(w) == IF job[w].failed THEN SharedError ELSE SharedOk

(* Complete after delivery: record the outcome, then look up the permalink. *)
RecordDelivery(w) ==
    LET s == job[w].slug IN
    /\ pc[w] = "deliver" /\ job[w].inboxes = {}
    /\ job[w].op \in {"compose", "publish"}
    /\ RecordFederation(s, DeliveryResult(w))
    /\ resolving' = IF KeysOf(s) # {} /\ ~job[w].failed THEN resolving \union {s} ELSE resolving
    /\ Finish(w)
    /\ UNCHANGED <<received, history>>

(* resolveRemoteURLAsync: the goroutine ends with the permalink or an error. *)
Resolve(s) ==
    /\ s \in resolving
    /\ SetFederationRemoteURL(s) \/ UNCHANGED storeVars
    /\ resolving' = resolving \ {s}
    /\ UNCHANGED <<pc, job, received, history>>

-----------------------------------------------------------------------------
(* BackfillFederation and RedeliverSharedPosts work through one ListPosts. *)
PublishedList == [s \in Slug |-> IF Published(s) THEN PostAt(s) ELSE NoRow]

StartLoop(w, op) ==
    /\ up /\ pc[w] = "idle"
    /\ Go(w, "loop", [NoJob EXCEPT !.op = op, !.list = PublishedList])
    /\ UNCHANGED <<storeVars, resolving, received, history>>

\* A backfill passes over delivered posts, a redelivery over the others.
Skips(w, row) == IF job[w].op = "backfill" THEN Delivered(row) ELSE ~Delivered(row)

DropFromList(w, s) == [job[w].list EXCEPT ![s] = NoRow]

LoopSkip(w, s) ==
    /\ pc[w] = "loop" /\ job[w].list[s] # NoRow
    /\ Skips(w, job[w].list[s]) \/ outbox[Canonical(s)] = NoRow
    /\ Go(w, "loop", [job[w] EXCEPT !.list = DropFromList(w, s)])
    /\ UNCHANGED <<storeVars, resolving, received, history>>

LoopDeliver(w, s) ==
    /\ pc[w] = "loop" /\ job[w].list[s] # NoRow
    /\ ~Skips(w, job[w].list[s]) /\ outbox[Canonical(s)] # NoRow
    /\ Go(w, "deliver", [job[w] EXCEPT !.slug = s, !.row = Carried(job[w].list[s]),
                                       !.inboxes = Inbox, !.failed = FALSE,
                                       !.list = DropFromList(w, s)])
    /\ UNCHANGED <<storeVars, resolving, received, history>>

\* Only the backfill records what came of a delivery; when it cannot, it counts an
\* error and goes on.
LoopRecord(w) ==
    /\ pc[w] = "deliver" /\ job[w].inboxes = {}
    /\ job[w].op \in {"backfill", "redeliver"}
    /\ \/ job[w].op = "backfill" /\ RecordFederation(job[w].slug, DeliveryResult(w))
       \/ UNCHANGED storeVars
    /\ Go(w, "loop", [NoJob EXCEPT !.op = job[w].op, !.list = job[w].list])
    /\ UNCHANGED <<resolving, received, history>>

LoopDone(w) ==
    /\ pc[w] = "loop" /\ \A s \in Slug : job[w].list[s] = NoRow
    /\ Finish(w)
    /\ UNCHANGED <<storeVars, resolving, received, history>>

-----------------------------------------------------------------------------
(* The process ends; its goroutines and what they knew are gone. *)
Crash ==
    /\ Stop
    /\ pc' = [w \in Worker |-> "idle"]
    /\ job' = [w \in Worker |-> NoJob]
    /\ resolving' = {}
    /\ interrupted' = interrupted \union {s \in Slug : Undecided(s)}
    /\ UNCHANGED <<received, everPublished, everDeleted>>

Boot == Start /\ UNCHANGED pubVars

PublishingInit ==
    /\ Init
    /\ pc = [w \in Worker |-> "idle"]
    /\ job = [w \in Worker |-> NoJob]
    /\ resolving = {} /\ received = {}
    /\ everPublished = {} /\ everDeleted = {} /\ interrupted = {}

\* What a worker does once a request has started it.
WorkerStep(w) ==
    \/ \E federate \in BOOLEAN : PublishFlushed(w, federate)
    \/ PublishRefused(w)
    \/ RecordNotShared(w)
    \/ RecordFails(w)
    \/ \E i \in Inbox, outcome \in Outcome : DeliverOne(w, i, outcome)
    \/ RecordDelivery(w)
    \/ \E s \in Slug : LoopSkip(w, s) \/ LoopDeliver(w, s)
    \/ LoopRecord(w)
    \/ LoopDone(w)

Request ==
    \/ \E w \in Worker, s \in Slug, in \in Input, federate \in BOOLEAN :
          Compose(w, s, in, federate)
    \/ \E w \in Worker, s \in Slug, in \in Input : PublishFlush(w, s, in)
    \/ \E w \in Worker, s \in Slug, federate \in BOOLEAN : PublishPlain(w, s, federate)
    \/ \E w \in Worker, op \in {"backfill", "redeliver"} : StartLoop(w, op)
    \/ \E s \in Slug, in \in Input : Autosave(s, in) \/ Edit(s, in)
    \/ \E s \in Slug : Delete(s)

PublishingNext ==
    \/ Request
    \/ \E w \in Worker : WorkerStep(w)
    \/ \E s \in Slug : Resolve(s)
    \/ Crash
    \/ Boot

PublishingSpec == PublishingInit /\ [][PublishingNext]_vars

\* A started request runs on: goroutines are scheduled, and every HTTP exchange
\* comes back with an answer or an error.  Nobody has to send a request.
Fairness == \A w \in Worker : WF_vars(WorkerStep(w))

FairPublishingSpec == PublishingSpec /\ Fairness

-----------------------------------------------------------------------------
(***************************************************************************)
(* Properties.                                                             *)
(***************************************************************************)

\* Workers hold well-formed local state.
PublishingTypeOK ==
    /\ TypeOK
    /\ pc \in [Worker -> PC]
    /\ job \in [Worker -> Job]
    /\ resolving \subseteq Slug
    /\ received \subseteq Inbox \X Slug \X Activity
    /\ everPublished \subseteq Slug \X Activity
    /\ everDeleted \subseteq Slug
    /\ interrupted \subseteq Slug

\* A follower only ever gets text the author published: no draft, autosaved or
\* flushed, leaves the site, whatever races with its publication.
OnlyPublishedSent == \A r \in received : <<r[2], r[3]>> \in everPublished

\* A post marked delivered has reached every follower, with a text it was shown with:
\* no lost request, error status, partial fan-out or crash earns the mark.  A slug that
\* was deleted once is left out: the late record of the deleted post's delivery may
\* mark what was made anew under the slug, a draft no follower got.
DeliveredReachedAll ==
    \A s \in Slug \ everDeleted : PostAt(s) # NoRow /\ Delivered(PostAt(s))
        => \A i \in Inbox : \E r \in received :
               r[1] = i /\ r[2] = s /\ <<s, r[3]>> \in everPublished

MarkedDelivered == {s \in Slug : PostAt(s) # NoRow /\ Delivered(PostAt(s))}

\* Publishing implements Announcing: whatever requests, loops and crashes interleave,
\* a step shows readers one activity, tells one follower of one already shown, or
\* marks one slug that all followers were told of; marks come and go one at a time,
\* and none in a step that shows something new.
Announce == INSTANCE Announcing WITH
    public <- everPublished, delivered <- received, marked <- MarkedDelivered
TellsWhatIsShown == Announce!AnnounceSpec

\* A published post whose federation is undecided has a request working on it, unless
\* a crash took that request or its record could not be written: no refusal, racing
\* request, edit, deletion or failing inbox leaves a post behind.
UndecidedHasWorker ==
    \A s \in Slug : Undecided(s) => s \in interrupted \/ \E w \in Worker : Completing(w, s)

\* Of several publish requests for one draft, one wins: two can only be completing
\* the same slug when it was deleted and drafted again in between.
OnePublisher ==
    \A s \in Slug : s \notin everDeleted =>
        \A v, w \in Worker : Completing(v, s) /\ Completing(w, s) => v = w

\* A published post's federation gets decided, or the post goes, or a crash strikes,
\* or the record of the outcome cannot be written.
FederationDecided ==
    \A s \in Slug : Undecided(s) ~> ~Undecided(s) \/ s \in interrupted

Remaining(list) == {s \in Slug : list[s] # NoRow}

Rank == [flushed |-> 3, undecided |-> 2, deliver |-> 2, loop |-> 1, idle |-> 0]

Advances(w) ==
    LET left == Remaining(job[w].list)
        now == Remaining(job'[w].list)
    IN  /\ now \subseteq left
        /\ \/ now # left
           \/ Rank[pc'[w]] < Rank[pc[w]]
           \/ /\ pc'[w] = pc[w]
              /\ job'[w].inboxes \subseteq job[w].inboxes /\ job'[w].inboxes # job[w].inboxes

\* No request, and no pass of a loop, goes round in circles: whatever happens to it, it
\* has a post less to go through, or is a stage nearer to its end, or has an inbox less
\* to try, so that a failing inbox or a post that comes back cannot hold it.
RequestsAdvance ==
    [][\A w \in Worker : pc[w] # "idle" =>
           (pc'[w] = pc[w] /\ job'[w] = job[w]) \/ Advances(w)]_vars

\* The publish handler's promise: what it published is what its caller had typed.
PublishesTypedText ==
    \A w \in Worker : pc[w] \in {"undecided", "deliver"} /\ job[w].typed # NoRow =>
        LET in == job[w].typed
        IN  job[w].row.kind = in.kind /\
            job[w].row.body = IF in.kind = "article" THEN Combine(in.title, in.body) ELSE in.body
=============================================================================
