--------------------------- MODULE PublishingProofs ---------------------------
(***************************************************************************)
(* Proofs about Publishing: for any number of requests, followers, posts   *)
(* and texts, what is delivered was published, and requests do not lose    *)
(* or share the duty to record what became of a publication.               *)
(***************************************************************************)
EXTENDS Publishing, PostStoreProofs

USE NoRowAssumption, InputAssumption

\* Requests know the post they work on, and only a running server has requests.
WorkersSound ==
    /\ PublishingTypeOK
    /\ \A w \in Worker :
         /\ pc[w] # "idle" => up
         /\ pc[w] \in {"flushed", "undecided", "deliver"} => job[w].slug \in Slug
         /\ pc[w] \in {"undecided", "deliver"} => job[w].row \in Row
         /\ pc[w] = "loop" => job[w].op \in {"backfill", "redeliver"}

\* Whatever is on its way out was published: what readers see now, what a request
\* published, what a loop has listed, and what followers have.
WasPublished(s, row) == row # NoRow => <<s, ActivityOf(row)>> \in everPublished

OutgoingPublished ==
    /\ \A s \in Slug : Published(s) => WasPublished(s, PostAt(s))
    /\ \A w \in Worker :
         /\ pc[w] \in {"undecided", "deliver"} => WasPublished(job[w].slug, job[w].row)
         /\ \A s \in Slug : WasPublished(s, job[w].list[s])
    /\ OnlyPublishedSent

\* A request that completes a publication completes the one readers see, unless the
\* post was deleted meanwhile.
CompletesPublished ==
    \A w \in Worker, s \in Slug : Completing(w, s) => Published(s) \/ s \in everDeleted

PInv ==
    /\ IInv
    /\ WorkersSound
    /\ OutgoingPublished
    /\ UndecidedHasWorker
    /\ CompletesPublished
    /\ OnePublisher

-----------------------------------------------------------------------------
\* What Go does to the workers.
LEMMA GoFacts ==
    ASSUME WorkersSound, NEW w \in Worker, NEW to, NEW j, Go(w, to, j)
    PROVE  /\ pc'[w] = to /\ job'[w] = j
           /\ \A v \in Worker \ {w} : pc'[v] = pc[v] /\ job'[v] = job[v]
           /\ to \in PC => pc' \in [Worker -> PC]
           /\ j \in Job => job' \in [Worker -> Job]
BY DEF Go, WorkersSound, PublishingTypeOK

\* The job of an idle worker, with any of its fields set to a legal value, is a job.
LEMMA NoJobType == NoJob \in Job
BY DEF NoJob, Job

\* What a request keeps of a row has the row's activity.
LEMMA CarriedFacts ==
    \A r \in Row :
        Carried(r) \in Row /\ Carried(r) # NoRow /\ ActivityOf(Carried(r)) = ActivityOf(r)
<1> SUFFICES ASSUME NEW r \in Row
             PROVE  /\ Carried(r) \in Row /\ Carried(r) # NoRow
                    /\ ActivityOf(Carried(r)) = ActivityOf(r)
  OBVIOUS
<1>1. NoFederation \in Federation
  BY DEF NoFederation, Federation
<1>2. Carried(r) \in Row
  BY <1>1 DEF Carried, Row
<1>3. Carried(r).kind = r.kind /\ Carried(r).body = r.body
  BY DEF Carried, Row
<1>4. QED
  BY <1>2, <1>3 DEF ActivityOf

\* Requests and workers touch the store by its own transactions only.
LEMMA PublishingIsStore ==
    ASSUME IInv, WorkersSound, [PublishingNext]_vars
    PROVE  [Next]_storeVars
<1>1. \A in \in Input : /\ in.kind \in Kind /\ in.title \in Text /\ in.body \in Text
  BY DEF Kind
<1>2. ASSUME NEW w \in Worker, NEW s \in Slug, NEW in \in Input, NEW federate \in BOOLEAN,
             Compose(w, s, in, federate)
      PROVE  [Next]_storeVars
  BY <1>1, <1>2 DEF Compose, Next
<1>3. ASSUME NEW s \in Slug, NEW in \in Input, SaveDraft(s, in.kind, in.title, in.body)
      PROVE  [Next]_storeVars
  BY <1>1, <1>3 DEF Next
<1>4. ASSUME NEW s \in Slug, PublishDraft(s) \/ DeletePost(s) \/ SetFederationRemoteURL(s)
      PROVE  [Next]_storeVars
  BY <1>4 DEF Next
<1>5. ASSUME NEW s \in Slug, NEW in \in Input, Edit(s, in)
      PROVE  [Next]_storeVars
  BY <1>1, <1>5 DEF Edit, Next
<1>6. ASSUME NEW s \in Slug, NEW fed \in {NotShared, SharedOk, SharedError},
             RecordFederation(s, fed)
      PROVE  [Next]_storeVars
  BY <1>6 DEF RecordFederation, Next
<1>7. CASE Request
  BY <1>2, <1>3, <1>4, <1>5, <1>7
     DEF Request, PublishFlush, PublishPlain, PublishRow, Autosave, Delete, StartLoop
<1>8. ASSUME NEW w \in Worker, WorkerStep(w)
      PROVE  [Next]_storeVars
  <2>1. CASE \E federate \in BOOLEAN : PublishFlushed(w, federate)
    BY <1>4, <2>1 DEF PublishFlushed, PublishRow, WorkersSound
  <2>2. CASE RecordNotShared(w) \/ RecordDelivery(w) \/ LoopRecord(w)
    <3>0. CASE UNCHANGED storeVars
      BY <3>0
    <3>1. job[w].slug \in Slug
      BY <2>2 DEF RecordNotShared, RecordDelivery, LoopRecord, WorkersSound
    <3>2. DeliveryResult(w) \in {NotShared, SharedOk, SharedError}
      BY DEF DeliveryResult
    <3>3. QED
      BY <1>6, <2>2, <3>0, <3>1, <3>2 DEF RecordNotShared, RecordDelivery, LoopRecord
  <2>3. CASE \/ PublishRefused(w) \/ RecordFails(w) \/ LoopDone(w)
             \/ \E i \in Inbox, outcome \in Outcome : DeliverOne(w, i, outcome)
             \/ \E s \in Slug : LoopSkip(w, s) \/ LoopDeliver(w, s)
    BY <2>3 DEF PublishRefused, RecordFails, LoopDone, DeliverOne, LoopSkip, LoopDeliver
  <2>4. QED
    BY <1>8, <2>1, <2>2, <2>3 DEF WorkerStep
<1>9. ASSUME NEW s \in Slug, Resolve(s)
      PROVE  [Next]_storeVars
  BY <1>4, <1>9 DEF Resolve
<1>10. CASE Crash \/ Boot \/ UNCHANGED vars
  BY <1>10 DEF Crash, Boot, vars, Next
<1>11. QED
  BY <1>7, <1>8, <1>9, <1>10 DEF PublishingNext

-----------------------------------------------------------------------------
(***************************************************************************)
(* The invariant, by kinds of steps.  A publication starts: slug s reads   *)
(* row r from now on, readers can see it, and worker w owes its record.    *)
(***************************************************************************)
LEMMA LaunchStep ==
    ASSUME PInv, IInv', NEW s \in Slug, NEW r \in Row, NEW w \in Worker,
           NEW to \in {"undecided", "deliver"}, NEW j \in Job,
           Reads(s, r), r.status = "published",
           PostAt(s) = NoRow \/ PostAt(s).status = "draft",
           up, up', pc[w] \in {"idle", "flushed"}, Go(w, to, j),
           j.op \in {"compose", "publish"}, j.slug = s, j.row \in {r, Carried(r)},
           \A t \in Slug : j.list[t] = NoRow,
           Publicise(s, ActivityOf(r)), UNCHANGED <<resolving, received>>
    PROVE  PInv'
<1>1. /\ pc'[w] = to /\ job'[w] = j
      /\ \A v \in Worker \ {w} : pc'[v] = pc[v] /\ job'[v] = job[v]
      /\ pc' \in [Worker -> PC] /\ job' \in [Worker -> Job]
  BY GoFacts DEF PInv, PC
<1>2. WorkersSound'
  BY <1>1, ActivityOfType, CarriedFacts
     DEF PInv, IInv, WorkersSound, PublishingTypeOK, Publicise
<1>3. OutgoingPublished'
  BY <1>1, CarriedFacts
     DEF PInv, OutgoingPublished, WasPublished, OnlyPublishedSent, Published, Reads, Publicise
<1>4. /\ \A t \in Slug : Completing(w, t)' <=> t = s
      /\ \A v \in Worker \ {w}, t \in Slug : Completing(v, t)' <=> Completing(v, t)
  BY <1>1 DEF Completing
<1>5. UndecidedHasWorker'
  BY <1>4 DEF PInv, UndecidedHasWorker, Undecided, Published, Reads, Publicise, Completing
<1>6. \A v \in Worker \ {w} : Completing(v, s) => s \in everDeleted
  BY DEF PInv, CompletesPublished, Published
<1>7. CompletesPublished'
  <2>1. everDeleted' = everDeleted
    BY DEF Publicise
  <2>2. Published(s)' /\ \A t \in Slug \ {s} : Published(t)' <=> Published(t)
    BY DEF Published, Reads
  <2>3. QED
    BY <1>4, <2>1, <2>2 DEF PInv, CompletesPublished
<1>8. OnePublisher'
  <2>1. \A t \in Slug \ {s}, v \in Worker : Completing(v, t)' => v # w /\ Completing(v, t)
    BY <1>4
  <2>2. \A v \in Worker : v # w /\ Completing(v, s)' => s \in everDeleted
    BY <1>4, <1>6
  <2>3. everDeleted' = everDeleted
    BY DEF Publicise
  <2>4. QED
    BY <2>1, <2>2, <2>3 DEF PInv, OnePublisher
<1>9. QED
  BY <1>2, <1>3, <1>5, <1>7, <1>8 DEF PInv

\* A worker steps and the store does not: it may go on with the same publication, or
\* start, go on with or end something that is none.
LEMMA WorkerOnlyStep ==
    ASSUME PInv, IInv', NEW w \in Worker, NEW to \in PC, NEW j \in Job, Go(w, to, j),
           to # "idle" => up,
           to = "flushed" => j.slug \in Slug,
           to \in {"undecided", "deliver"} =>
             j.slug \in Slug /\ j.row \in Row /\ WasPublished(j.slug, j.row),
           to = "loop" => j.op \in {"backfill", "redeliver"},
           \A s \in Slug : WasPublished(s, j.list[s]),
           \A s \in Slug : Completing(w, s) <=>
             to \in {"undecided", "deliver"} /\ j.op \in {"compose", "publish"} /\ j.slug = s,
           UNCHANGED <<storeVars, history, resolving>>,
           received' \in SUBSET (Inbox \X Slug \X Activity),
           \A m \in received' : <<m[2], m[3]>> \in everPublished
    PROVE  PInv'
<1>1. /\ pc'[w] = to /\ job'[w] = j
      /\ \A v \in Worker \ {w} : pc'[v] = pc[v] /\ job'[v] = job[v]
      /\ pc' \in [Worker -> PC] /\ job' \in [Worker -> Job]
  BY GoFacts DEF PInv
<1>2. UNCHANGED <<up, everPublished, everDeleted, interrupted, resolving>>
  BY DEF storeVars, history
<1>3. \A s \in Slug : PostAt(s)' = PostAt(s)
  BY QuietSteps DEF storeVars
<1>4. WorkersSound'
  BY <1>1, <1>2 DEF PInv, IInv, WorkersSound, PublishingTypeOK
<1>5. OutgoingPublished'
  BY <1>1, <1>2, <1>3 DEF PInv, OutgoingPublished, WasPublished, OnlyPublishedSent, Published
<1>6. \A v \in Worker, s \in Slug : Completing(v, s)' <=> Completing(v, s)
  BY <1>1 DEF Completing
<1>7. UndecidedHasWorker' /\ CompletesPublished' /\ OnePublisher'
  BY <1>2, <1>3, <1>6
     DEF PInv, UndecidedHasWorker, CompletesPublished, OnePublisher, Undecided, Published
<1>8. QED
  BY <1>4, <1>5, <1>7 DEF PInv

\* A worker records what became of its post, wherever it goes from there.
LEMMA RecordStep ==
    ASSUME PInv, IInv', NEW s \in Slug, NEW fed \in Federation, fed.set, RecordFederation(s, fed),
           NEW w \in Worker, NEW to \in {"idle", "loop"}, NEW j \in Job, Go(w, to, j),
           pc[w] \in {"undecided", "deliver"}, job[w].slug = s,
           to = "loop" => j.op \in {"backfill", "redeliver"},
           \A t \in Slug : WasPublished(t, j.list[t]),
           resolving' \subseteq Slug, UNCHANGED <<received, history>>
    PROVE  PInv'
<1>1. /\ pc'[w] = to /\ job'[w] = j
      /\ \A v \in Worker \ {w} : pc'[v] = pc[v] /\ job'[v] = job[v]
      /\ pc' \in [Worker -> PC] /\ job' \in [Worker -> Job]
  BY GoFacts DEF PInv, PC
<1>2. UNCHANGED <<up, received, everPublished, everDeleted, interrupted>>
  BY DEF RecordFederation, SetFederation, storeVars, history
<1>3. /\ \A t \in Slug \ {s} : PostAt(t)' = PostAt(t)
      /\ \/ PostAt(s) = NoRow /\ PostAt(s)' = NoRow
         \/ /\ PostAt(s) \in Row
            /\ PostAt(s)' = [PostAt(s) EXCEPT !.fed = fed]
  <2>1. CASE SetFederation(s, fed)
    BY <2>1, SetFederationEffect DEF PInv, Reads
  <2>2. CASE KeysOf(s) = {} /\ UNCHANGED storeVars
    BY <2>2, PostAtFacts, QuietSteps DEF PInv
  <2>3. QED
    BY <2>1, <2>2 DEF RecordFederation
<1>4. \/ PostAt(s) = NoRow /\ PostAt(s)' = NoRow
      \/ /\ PostAt(s) # NoRow /\ PostAt(s)' # NoRow
         /\ PostAt(s)'.status = PostAt(s).status
         /\ ActivityOf(PostAt(s))' = ActivityOf(PostAt(s))
         /\ PostAt(s)'.fed.set
  <2>1. \A row \in Row : LET marked == [row EXCEPT !.fed = fed]
                         IN  /\ marked \in Row /\ marked.status = row.status
                             /\ ActivityOf(marked) = ActivityOf(row) /\ marked.fed.set
    BY DEF Row, ActivityOf
  <2>2. CASE PostAt(s) \in Row /\ PostAt(s)' = [PostAt(s) EXCEPT !.fed = fed]
    <3>1. ActivityOf(PostAt(s))' = ActivityOf([PostAt(s) EXCEPT !.fed = fed])
      BY <2>2 DEF ActivityOf
    <3>2. QED
      BY <2>1, <2>2, <3>1
  <2>3. QED
    BY <1>3, <2>2
<1>5. WorkersSound'
  BY <1>1, <1>2 DEF PInv, IInv, WorkersSound, PublishingTypeOK
<1>6. OutgoingPublished'
  BY <1>1, <1>2, <1>3, <1>4
     DEF PInv, OutgoingPublished, WasPublished, OnlyPublishedSent, Published
<1>7. /\ \A v \in Worker \ {w}, t \in Slug : Completing(v, t)' <=> Completing(v, t)
      /\ \A t \in Slug : ~Completing(w, t)' /\ (Completing(w, t) => t = s)
  BY <1>1 DEF Completing
<1>8. UndecidedHasWorker' /\ CompletesPublished' /\ OnePublisher'
  BY <1>2, <1>3, <1>4, <1>7
     DEF PInv, UndecidedHasWorker, CompletesPublished, OnePublisher, Undecided, Published
<1>9. QED
  BY <1>5, <1>6, <1>8 DEF PInv

\* A transaction on slug s that is no worker's business, but for one that starts with
\* a flush: it leaves a post as public and as decided as it was, or edits it in
\* public, or removes it.
LEMMA BystanderStep ==
    ASSUME PInv, IInv', NEW s \in Slug, NEW r \in Row \union {NoRow}, Reads(s, r),
           up' = up, UNCHANGED <<received, interrupted>>, resolving' \subseteq Slug,
           pc' \in [Worker -> PC], job' \in [Worker -> Job],
           \A v \in Worker :
             \/ pc'[v] = pc[v] /\ job'[v] = job[v]
             \/ /\ up /\ pc[v] = "idle" /\ pc'[v] = "flushed"
                /\ job'[v].slug \in Slug /\ \A t \in Slug : job'[v].list[t] = NoRow,
           everPublished \subseteq everPublished', everPublished' \subseteq Slug \X Activity,
           everDeleted \subseteq everDeleted', everDeleted' \subseteq Slug,
           r # NoRow /\ r.status = "published" => <<s, ActivityOf(r)>> \in everPublished',
           r # NoRow /\ r.status = "published" /\ ~r.fed.set => Undecided(s),
           Published(s) => (r # NoRow /\ r.status = "published") \/ s \in everDeleted'
    PROVE  PInv'
<1>1. WorkersSound'
  BY DEF PInv, IInv, WorkersSound, PublishingTypeOK
<1>2. OutgoingPublished'
  BY DEF PInv, OutgoingPublished, WasPublished, OnlyPublishedSent, Published, Reads
<1>3. \A v \in Worker, t \in Slug : Completing(v, t)' <=> Completing(v, t)
  BY DEF Completing
<1>4. UndecidedHasWorker' /\ CompletesPublished' /\ OnePublisher'
  BY <1>3
     DEF PInv, UndecidedHasWorker, CompletesPublished, OnePublisher, Undecided, Published, Reads
<1>5. QED
  BY <1>1, <1>2, <1>4 DEF PInv

-----------------------------------------------------------------------------
\* Each action is a step of one of these kinds.  A post is created...
LEMMA ComposeKeeps ==
    ASSUME PInv, IInv', NEW w \in Worker, NEW s \in Slug, NEW in \in Input,
           NEW federate \in BOOLEAN, Compose(w, s, in, federate)
    PROVE  PInv'
<1> DEFINE r == posts'[Canonical(s)]
           to == IF federate THEN "deliver" ELSE "undecided"
           j == [NoJob EXCEPT !.op = "compose", !.slug = s, !.row = r, !.inboxes = Inbox]
<1>1. in.kind \in Kind /\ in.body \in Text
  BY DEF Kind
<1>2. /\ PostAt(s) = NoRow /\ r \in Row /\ r.status = "published" /\ Reads(s, r)
  BY <1>1, CreatePostEffect DEF Compose, PInv
<1>3. /\ j \in Job /\ j.op = "compose" /\ j.slug = s /\ j.row = r
      /\ \A t \in Slug : j.list[t] = NoRow
  BY <1>2 DEF NoJob, Job
<1>4. to \in {"undecided", "deliver"} /\ Go(w, to, j)
  BY DEF Compose
<1>5. /\ up /\ up' /\ pc[w] = "idle" /\ Publicise(s, ActivityOf(r))
      /\ UNCHANGED <<resolving, received>>
  BY DEF Compose, CreatePost
<1> HIDE DEF r, to, j
<1>6. QED
  BY <1>2, <1>3, <1>4, <1>5, LaunchStep

\* ...or published...
LEMMA PublishRowKeeps ==
    ASSUME PInv, IInv', NEW w \in Worker, NEW s \in Slug, NEW typed \in Input \union {NoRow},
           NEW federate \in BOOLEAN, pc[w] \in {"idle", "flushed"},
           PublishRow(w, s, typed, federate)
    PROVE  PInv'
<1> DEFINE r == posts'[Canonical(s)]
           to == IF federate THEN "deliver" ELSE "undecided"
           j == [NoJob EXCEPT !.op = "publish", !.slug = s, !.row = Carried(r), !.typed = typed,
                              !.inboxes = Inbox]
<1>1. /\ PostAt(s).status = "draft" /\ r \in Row /\ r.status = "published" /\ Reads(s, r)
  BY PublishDraftEffect DEF PublishRow, PInv
<1>2. /\ j \in Job /\ j.op = "publish" /\ j.slug = s /\ j.row = Carried(r)
      /\ \A t \in Slug : j.list[t] = NoRow
  BY <1>1, CarriedFacts DEF NoJob, Job
<1>3. to \in {"undecided", "deliver"} /\ Go(w, to, j)
  BY DEF PublishRow
<1>4. up /\ up' /\ Publicise(s, ActivityOf(r)) /\ UNCHANGED <<resolving, received>>
  BY DEF PublishRow, PublishDraft
<1> HIDE DEF r, to, j
<1>5. QED
  BY <1>1, <1>2, <1>3, <1>4, LaunchStep

\* ...a draft is saved, by an autosave or at the start of a publish request...
LEMMA SaveKeeps ==
    ASSUME PInv, IInv', NEW s \in Slug, NEW in \in Input,
           \/ Autosave(s, in)
           \/ \E w \in Worker : PublishFlush(w, s, in)
    PROVE  PInv'
<1>1. in.kind \in Kind /\ in.title \in Text /\ in.body \in Text
  BY DEF Kind
<1>2. SaveDraft(s, in.kind, in.title, in.body)
  BY DEF Autosave, PublishFlush
<1>3. PICK r \in Row : /\ r.status = "draft" /\ Reads(s, r)
                       /\ \/ PostAt(s) = NoRow
                          \/ PostAt(s) \in Row /\ PostAt(s).status = "draft"
  BY <1>1, <1>2, SaveDraftEffect DEF PInv
<1>4. /\ up' = up /\ UNCHANGED <<received, resolving, everPublished, everDeleted, interrupted>>
  BY <1>2 DEF SaveDraft, Autosave, PublishFlush, pubVars, history
<1> DEFINE flushing ==
             /\ pc' \in [Worker -> PC] /\ job' \in [Worker -> Job]
             /\ \A v \in Worker :
                  \/ pc'[v] = pc[v] /\ job'[v] = job[v]
                  \/ /\ up /\ pc[v] = "idle" /\ pc'[v] = "flushed"
                     /\ job'[v].slug \in Slug /\ \A t \in Slug : job'[v].list[t] = NoRow
<1>5. flushing
  <2>1. CASE Autosave(s, in)
    BY <2>1 DEF Autosave, pubVars, PInv, WorkersSound, PublishingTypeOK
  <2>2. ASSUME NEW w \in Worker, PublishFlush(w, s, in)
        PROVE  flushing
    <3> DEFINE j == [NoJob EXCEPT !.op = "publish", !.slug = s, !.typed = in]
    <3>1. j \in Job /\ j.slug = s /\ \A t \in Slug : j.list[t] = NoRow
      BY DEF NoJob, Job
    <3>2. Go(w, "flushed", j) /\ pc[w] = "idle" /\ up
      BY <1>2, <2>2 DEF PublishFlush, SaveDraft
    <3> HIDE DEF j
    <3>3. QED
      BY <3>1, <3>2, GoFacts DEF PInv, PC
  <2>3. QED
    BY <2>1, <2>2
<1>6. ~Published(s)
  BY <1>3 DEF Published
<1>7. QED
  BY <1>3, <1>4, <1>5, <1>6, BystanderStep DEF PInv, WorkersSound, PublishingTypeOK

\* ...a published post is edited...
LEMMA EditKeeps ==
    ASSUME PInv, IInv', NEW s \in Slug, NEW in \in Input, Edit(s, in)
    PROVE  PInv'
<1> DEFINE r == posts'[Canonical(s)]
<1>1. in.kind \in Kind /\ in.body \in Text
  BY DEF Kind
<1>2. /\ PostAt(s) \in Row /\ PostAt(s).status = "published" /\ r \in Row
      /\ r.status = "published" /\ r.fed = PostAt(s).fed /\ Reads(s, r)
  BY <1>1, UpdatePostEffect DEF Edit, PInv
<1>3. up' = up /\ UNCHANGED <<pc, job, received, resolving>> /\ Publicise(s, ActivityOf(r))
  BY DEF Edit, UpdatePost
<1> HIDE DEF r
<1>4. /\ UNCHANGED <<everDeleted, interrupted>>
      /\ everPublished' = everPublished \union {<<s, ActivityOf(r)>>}
      /\ everPublished' \subseteq Slug \X Activity
  BY <1>2, <1>3, ActivityOfType DEF Publicise, PInv, WorkersSound, PublishingTypeOK
<1>5. ~r.fed.set => Undecided(s)
  BY <1>2 DEF Undecided, Published
<1>6. QED
  BY <1>2, <1>3, <1>4, <1>5, BystanderStep DEF PInv, WorkersSound, PublishingTypeOK

\* ...or deleted...
LEMMA DeleteKeeps ==
    ASSUME PInv, IInv', NEW s \in Slug, Delete(s)
    PROVE  PInv'
<1>1. Reads(s, NoRow)
  BY DeletePostEffect DEF Delete, PInv
<1>2. /\ up' = up /\ UNCHANGED <<pc, job, received, resolving, everPublished, interrupted>>
      /\ everDeleted' = everDeleted \union {s}
  BY DEF Delete, DeletePost
<1>3. QED
  BY <1>1, <1>2, BystanderStep DEF PInv, WorkersSound, PublishingTypeOK

\* ...a permalink comes in, or does not...
LEMMA ResolveKeeps ==
    ASSUME PInv, IInv', NEW s \in Slug, Resolve(s)
    PROVE  PInv'
<1>1. /\ UNCHANGED <<pc, job, received, everPublished, everDeleted, interrupted>>
      /\ resolving' \subseteq Slug /\ up' = up
  BY DEF Resolve, history, PInv, WorkersSound, PublishingTypeOK, SetFederationRemoteURL, storeVars
<1>2. CASE SetFederationRemoteURL(s)
  <2>1. PICK fed \in Federation :
          fed.set /\ PostAt(s) \in Row /\ Reads(s, [PostAt(s) EXCEPT !.fed = fed])
    BY <1>2, RemoteURLEffect DEF PInv
  <2> DEFINE r == [PostAt(s) EXCEPT !.fed = fed]
  <2>2. /\ r \in Row /\ r.status = PostAt(s).status /\ ActivityOf(r) = ActivityOf(PostAt(s))
        /\ r.fed.set
    BY <2>1 DEF Row, ActivityOf
  <2>3. Reads(s, r)
    BY <2>1
  <2> HIDE DEF r
  <2>4. PostAt(s) # NoRow
    BY <2>1
  <2>5. Published(s) <=> r.status = "published"
    BY <2>2, <2>4 DEF Published
  <2>6. Published(s) => <<s, ActivityOf(r)>> \in everPublished
    BY <2>2, <2>4 DEF PInv, OutgoingPublished, WasPublished
  <2>7. QED
    BY <1>1, <2>2, <2>3, <2>5, <2>6, BystanderStep DEF PInv, WorkersSound, PublishingTypeOK
<1>3. CASE UNCHANGED storeVars
  <2>1. \A t \in Slug : PostAt(t)' = PostAt(t)
    BY <1>3, QuietSteps
  <2>2. PostAt(s) \in Row \union {NoRow}
    BY PostAtFacts DEF PInv
  <2>3. /\ Published(s) => <<s, ActivityOf(PostAt(s))>> \in everPublished
    BY DEF PInv, OutgoingPublished, WasPublished, Published
  <2>4. QED
    BY <1>1, <2>1, <2>2, <2>3, BystanderStep
       DEF PInv, WorkersSound, PublishingTypeOK, Reads, Published, Undecided
<1>4. QED
  BY <1>2, <1>3 DEF Resolve

\* ...and the process ends, or starts: what readers see is what they saw.
LEMMA RestartKeeps ==
    ASSUME PInv, IInv', Crash \/ Boot
    PROVE  PInv'
<1>1. \A s \in Slug : PostAt(s)' = PostAt(s)
  BY QuietSteps, StartKeepsPosts DEF Crash, Boot, PInv
<1>2. CASE Crash
  <2>1. /\ \A w \in Worker : pc'[w] = "idle" /\ job'[w] = NoJob
        /\ pc' \in [Worker -> PC] /\ job' \in [Worker -> Job]
        /\ resolving' = {} /\ UNCHANGED <<received, everPublished, everDeleted>>
        /\ interrupted' = interrupted \union {s \in Slug : Undecided(s)}
    BY <1>2, NoJobType DEF Crash, PC
  <2>2. WorkersSound'
    BY <2>1 DEF PInv, IInv, WorkersSound, PublishingTypeOK
  <2>3. OutgoingPublished'
    BY <1>1, <2>1
       DEF PInv, OutgoingPublished, WasPublished, OnlyPublishedSent, Published, NoJob
  <2>4. \A w \in Worker, s \in Slug : ~Completing(w, s)'
    BY <2>1 DEF Completing
  <2>5. UndecidedHasWorker' /\ CompletesPublished' /\ OnePublisher'
    BY <1>1, <2>1, <2>4
       DEF UndecidedHasWorker, CompletesPublished, OnePublisher, Undecided, Published
  <2>6. QED
    BY <2>2, <2>3, <2>5 DEF PInv
<1>3. CASE Boot
  <2>1. UNCHANGED <<pc, job, resolving, received, everPublished, everDeleted, interrupted>>
    BY <1>3 DEF Boot, pubVars
  <2>2. WorkersSound'
    BY <1>3, <2>1 DEF PInv, IInv, WorkersSound, PublishingTypeOK, Boot, Start
  <2>3. OutgoingPublished'
    BY <1>1, <2>1 DEF PInv, OutgoingPublished, WasPublished, OnlyPublishedSent, Published
  <2>4. \A w \in Worker, s \in Slug : Completing(w, s)' <=> Completing(w, s)
    BY <2>1 DEF Completing
  <2>5. UndecidedHasWorker' /\ CompletesPublished' /\ OnePublisher'
    BY <1>1, <2>1, <2>4
       DEF PInv, UndecidedHasWorker, CompletesPublished, OnePublisher, Undecided, Published
  <2>6. QED
    BY <2>2, <2>3, <2>5 DEF PInv
<1>4. QED
  BY <1>2, <1>3

-----------------------------------------------------------------------------
\* A request records the outcome, and a backfill goes back to its list.
LEMMA RecordingKeeps ==
    ASSUME PInv, IInv', NEW w \in Worker,
           \/ RecordNotShared(w) \/ RecordDelivery(w)
           \/ LoopRecord(w) /\ job[w].op = "backfill" /\ ~UNCHANGED storeVars
    PROVE  PInv'
<1> DEFINE s == job[w].slug
<1>1. s \in Slug /\ pc[w] \in {"undecided", "deliver"}
  BY DEF RecordNotShared, RecordDelivery, LoopRecord, PInv, WorkersSound
<1>2. \A fed \in {NotShared, SharedOk, SharedError} : fed \in Federation /\ fed.set
  BY FederationInputs DEF NotShared, SharedOk, SharedError, NoFederation
<1>3. DeliveryResult(w) \in {NotShared, SharedOk, SharedError}
  BY DEF DeliveryResult
<1>4. PICK fed \in Federation : fed.set /\ RecordFederation(s, fed)
  BY <1>2, <1>3 DEF RecordNotShared, RecordDelivery, LoopRecord
<1>5. UNCHANGED <<received, history>> /\ resolving' \subseteq Slug
  BY <1>1 DEF RecordNotShared, RecordDelivery, LoopRecord, PInv, WorkersSound, PublishingTypeOK
<1> HIDE DEF s
<1>6. CASE RecordNotShared(w) \/ RecordDelivery(w)
  <2>1. Go(w, "idle", NoJob)
    BY <1>6 DEF RecordNotShared, RecordDelivery, Finish
  <2>2. NoJob \in Job /\ \A t \in Slug : WasPublished(t, NoJob.list[t])
    BY NoJobType DEF NoJob, WasPublished
  <2>3. QED
    BY <1>1, <1>4, <1>5, <2>1, <2>2, RecordStep DEF s
<1>7. CASE LoopRecord(w) /\ job[w].op = "backfill" /\ ~UNCHANGED storeVars
  <2> DEFINE j == [NoJob EXCEPT !.op = job[w].op, !.list = job[w].list]
  <2>1. job[w] \in Job
    BY DEF PInv, WorkersSound, PublishingTypeOK
  <2>2. j \in Job /\ j.op = "backfill" /\ j.list = job[w].list
    BY <1>7, <2>1 DEF NoJob, Job
  <2>3. Go(w, "loop", j)
    BY <1>7 DEF LoopRecord
  <2>4. \A t \in Slug : WasPublished(t, job[w].list[t])
    BY DEF PInv, OutgoingPublished
  <2> HIDE DEF j
  <2>5. QED
    BY <1>1, <1>4, <1>5, <2>2, <2>3, <2>4, RecordStep DEF s
<1>8. QED
  BY <1>6, <1>7

\* A request ends whose record could not be written: the post it completed counts as
\* interrupted from now on.
LEMMA RecordFailsKeeps ==
    ASSUME PInv, IInv', NEW w \in Worker, RecordFails(w)
    PROVE  PInv'
<1>1. /\ pc'[w] = "idle" /\ job'[w] = NoJob
      /\ \A v \in Worker \ {w} : pc'[v] = pc[v] /\ job'[v] = job[v]
      /\ pc' \in [Worker -> PC] /\ job' \in [Worker -> Job]
  BY GoFacts, NoJobType DEF RecordFails, Finish, PInv, PC
<1>2. /\ UNCHANGED <<up, resolving, received, everPublished, everDeleted>>
      /\ interrupted' = interrupted \union {s \in {job[w].slug} : Undecided(s)}
      /\ job[w].slug \in Slug
  BY DEF RecordFails, storeVars, PInv, WorkersSound
<1>3. \A s \in Slug : PostAt(s)' = PostAt(s)
  BY QuietSteps DEF RecordFails
<1>4. WorkersSound'
  BY <1>1, <1>2 DEF PInv, IInv, WorkersSound, PublishingTypeOK
<1>5. OutgoingPublished'
  BY <1>1, <1>2, <1>3
     DEF PInv, OutgoingPublished, WasPublished, OnlyPublishedSent, Published, NoJob
<1>6. /\ \A v \in Worker \ {w}, s \in Slug : Completing(v, s)' <=> Completing(v, s)
      /\ \A s \in Slug : ~Completing(w, s)' /\ (Completing(w, s) => s = job[w].slug)
  BY <1>1 DEF Completing
<1>7. UndecidedHasWorker'
  <2> SUFFICES ASSUME NEW s \in Slug, Undecided(s)'
               PROVE  s \in interrupted' \/ \E v \in Worker : Completing(v, s)'
    BY DEF UndecidedHasWorker
  <2>1. Undecided(s)
    BY <1>3 DEF Undecided, Published
  <2>2. CASE Completing(w, s)
    BY <1>2, <1>6, <2>1, <2>2
  <2>3. CASE ~Completing(w, s)
    BY <1>2, <1>6, <2>1, <2>3 DEF PInv, UndecidedHasWorker
  <2>4. QED
    BY <2>2, <2>3
<1>8. CompletesPublished' /\ OnePublisher'
  BY <1>2, <1>3, <1>6 DEF PInv, CompletesPublished, OnePublisher, Published
<1>9. QED
  BY <1>4, <1>5, <1>7, <1>8 DEF PInv

\* A request ends that had nothing more to do.
LEMMA FinishingKeeps ==
    ASSUME PInv, IInv', NEW w \in Worker, PublishRefused(w) \/ LoopDone(w)
    PROVE  PInv'
<1>1. Go(w, "idle", NoJob) /\ UNCHANGED <<storeVars, history, resolving, received>>
  BY DEF PublishRefused, LoopDone, Finish
<1>2. NoJob \in Job /\ \A t \in Slug : WasPublished(t, NoJob.list[t])
  BY NoJobType DEF NoJob, WasPublished
<1>3. \A s \in Slug : ~Completing(w, s)
  BY DEF PublishRefused, LoopDone, Completing
<1>4. /\ received \in SUBSET (Inbox \X Slug \X Activity)
      /\ \A m \in received : <<m[2], m[3]>> \in everPublished
  BY DEF PInv, WorkersSound, PublishingTypeOK, OutgoingPublished, OnlyPublishedSent
<1>5. "idle" \in PC
  BY DEF PC
<1>6. QED
  BY <1>1, <1>2, <1>3, <1>4, <1>5, WorkerOnlyStep

\* A delivery reports an error or none.
LEMMA OutcomeErrs == ASSUME NEW o \in Outcome PROVE o.error \in BOOLEAN
<1>1. CASE o = [taken |-> TRUE, error |-> FALSE]
  BY <1>1
<1>2. CASE o = [taken |-> TRUE, error |-> TRUE]
  BY <1>2
<1>3. CASE o = [taken |-> FALSE, error |-> TRUE]
  BY <1>3
<1>4. QED
  BY <1>1, <1>2, <1>3 DEF Outcome, Accepts

\* An inbox takes what was published, or does not.
LEMMA DeliverOneKeeps ==
    ASSUME PInv, IInv', NEW w \in Worker, NEW i \in Inbox, NEW outcome \in Outcome,
           DeliverOne(w, i, outcome)
    PROVE  PInv'
<1> DEFINE j == [job[w] EXCEPT !.inboxes = @ \ {i}, !.failed = @ \/ outcome.error]
<1>1. pc[w] = "deliver" /\ Go(w, "deliver", j) /\ UNCHANGED <<storeVars, resolving, history>>
  BY DEF DeliverOne
<1>2. /\ job[w] \in Job /\ job[w].slug \in Slug /\ job[w].row \in Row /\ up
      /\ WasPublished(job[w].slug, job[w].row)
      /\ \A s \in Slug : WasPublished(s, job[w].list[s])
  BY <1>1 DEF PInv, WorkersSound, PublishingTypeOK, OutgoingPublished
<1>3. outcome.error \in BOOLEAN
  BY OutcomeErrs
<1>4. /\ j \in Job /\ j.op = job[w].op /\ j.slug = job[w].slug /\ j.row = job[w].row
      /\ j.list = job[w].list
  BY <1>2, <1>3 DEF Job
<1>5. /\ received \in SUBSET (Inbox \X Slug \X Activity)
      /\ \A m \in received : <<m[2], m[3]>> \in everPublished
  BY DEF PInv, WorkersSound, PublishingTypeOK, OutgoingPublished, OnlyPublishedSent
<1>6. /\ received' \in SUBSET (Inbox \X Slug \X Activity)
      /\ \A m \in received' : <<m[2], m[3]>> \in everPublished
  <2>1. received' \subseteq received \union {<<i, job[w].slug, Sent(w)>>}
    BY DEF DeliverOne
  <2>2. Sent(w) \in Activity /\ <<job[w].slug, Sent(w)>> \in everPublished
    BY <1>2, ActivityOfType DEF Sent, WasPublished
  <2>3. QED
    BY <1>2, <1>5, <2>1, <2>2
<1>7. \A s \in Slug : Completing(w, s) <=> j.op \in {"compose", "publish"} /\ j.slug = s
  BY <1>1, <1>4 DEF Completing
<1>8. "deliver" \in PC
  BY DEF PC
<1> HIDE DEF j
<1>9. QED
  BY <1>1, <1>2, <1>4, <1>6, <1>7, <1>8, WorkerOnlyStep

\* A loop lists what is published now, passes a post over, takes one up, or comes back
\* from one it does not record.
LEMMA LoopKeeps ==
    ASSUME PInv, IInv', NEW w \in Worker,
           \/ \E op \in {"backfill", "redeliver"} : StartLoop(w, op)
           \/ \E s \in Slug : LoopSkip(w, s) \/ LoopDeliver(w, s)
           \/ LoopRecord(w) /\ UNCHANGED storeVars
    PROVE  PInv'
<1>1. /\ job[w] \in Job /\ \A s \in Slug : WasPublished(s, job[w].list[s])
      /\ pc[w] = "loop" => up /\ job[w].op \in {"backfill", "redeliver"}
      /\ pc[w] = "deliver" => up
  BY DEF PInv, WorkersSound, PublishingTypeOK, OutgoingPublished
<1>2. UNCHANGED <<storeVars, resolving, received, history>>
  BY DEF StartLoop, LoopSkip, LoopDeliver, LoopRecord
<1>3. /\ received \in SUBSET (Inbox \X Slug \X Activity)
      /\ \A m \in received : <<m[2], m[3]>> \in everPublished
  BY DEF PInv, WorkersSound, PublishingTypeOK, OutgoingPublished, OnlyPublishedSent
<1>4. \A s \in Slug : ~Completing(w, s)
  BY DEF StartLoop, LoopSkip, LoopDeliver, LoopRecord, Completing
<1>5. "loop" \in PC /\ "deliver" \in PC
  BY DEF PC
<1>6. ASSUME NEW op \in {"backfill", "redeliver"}, StartLoop(w, op)
      PROVE  PInv'
  <2> DEFINE j == [NoJob EXCEPT !.op = op, !.list = PublishedList]
  <2>1. /\ PublishedList \in [Slug -> Row \union {NoRow}]
        /\ \A s \in Slug : WasPublished(s, PublishedList[s])
    BY PostAtFacts DEF PublishedList, Published, PInv, OutgoingPublished, WasPublished
  <2>2. j \in Job /\ j.op = op /\ j.list = PublishedList
    BY <2>1 DEF NoJob, Job
  <2>3. Go(w, "loop", j) /\ up
    BY <1>6 DEF StartLoop
  <2> HIDE DEF j
  <2>4. QED
    BY <1>2, <1>3, <1>4, <1>5, <2>1, <2>2, <2>3, WorkerOnlyStep
<1>7. ASSUME NEW s \in Slug, LoopSkip(w, s)
      PROVE  PInv'
  <2> DEFINE j == [job[w] EXCEPT !.list = DropFromList(w, s)]
  <2>1. j \in Job /\ j.op = job[w].op /\ \A t \in Slug : WasPublished(t, j.list[t])
    BY <1>1 DEF Job, DropFromList, WasPublished
  <2>2. Go(w, "loop", j) /\ pc[w] = "loop"
    BY <1>7 DEF LoopSkip
  <2> HIDE DEF j
  <2>3. QED
    BY <1>1, <1>2, <1>3, <1>4, <1>5, <2>1, <2>2, WorkerOnlyStep
<1>8. ASSUME NEW s \in Slug, LoopDeliver(w, s)
      PROVE  PInv'
  <2> DEFINE j == [job[w] EXCEPT !.slug = s, !.row = Carried(job[w].list[s]), !.inboxes = Inbox,
                                 !.failed = FALSE, !.list = DropFromList(w, s)]
  <2>1. job[w].list[s] \in Row /\ WasPublished(s, job[w].list[s])
    BY <1>1, <1>8 DEF LoopDeliver, Job
  <2>2. /\ j \in Job /\ j.op = job[w].op /\ j.slug = s /\ j.row \in Row
        /\ WasPublished(s, j.row)
        /\ \A t \in Slug : WasPublished(t, j.list[t])
    BY <1>1, <2>1, CarriedFacts DEF Job, DropFromList, WasPublished
  <2>3. Go(w, "deliver", j) /\ pc[w] = "loop"
    BY <1>8 DEF LoopDeliver
  <2> HIDE DEF j
  <2>4. QED
    BY <1>1, <1>2, <1>3, <1>4, <1>5, <2>1, <2>2, <2>3, WorkerOnlyStep
<1>9. CASE LoopRecord(w) /\ UNCHANGED storeVars
  <2> DEFINE j == [NoJob EXCEPT !.op = job[w].op, !.list = job[w].list]
  <2>1. j \in Job /\ j.op = job[w].op /\ j.list = job[w].list
    BY <1>1 DEF NoJob, Job
  <2>2. Go(w, "loop", j) /\ pc[w] = "deliver" /\ job[w].op \in {"backfill", "redeliver"}
    BY <1>9 DEF LoopRecord
  <2> HIDE DEF j
  <2>3. QED
    BY <1>1, <1>2, <1>3, <1>4, <1>5, <2>1, <2>2, WorkerOnlyStep
<1>10. QED
  BY <1>6, <1>7, <1>8, <1>9

-----------------------------------------------------------------------------
\* The invariant is inductive.
LEMMA NextPInv == PInv /\ [PublishingNext]_vars => PInv'
<1> SUFFICES ASSUME PInv, [PublishingNext]_vars PROVE PInv'
  OBVIOUS
<1>1. IInv'
  BY PublishingIsStore, NextInvariant DEF PInv
<1>2. CASE Request
  <2>1. ASSUME NEW w \in Worker, NEW s \in Slug, NEW federate \in BOOLEAN,
               PublishPlain(w, s, federate)
        PROVE  PInv'
    BY <1>1, <2>1, PublishRowKeeps DEF PublishPlain
  <2>2. QED
    BY <1>1, <1>2, <2>1, ComposeKeeps, SaveKeeps, LoopKeeps, EditKeeps, DeleteKeeps DEF Request
<1>3. ASSUME NEW w \in Worker, WorkerStep(w)
      PROVE  PInv'
  <2>1. ASSUME NEW federate \in BOOLEAN, PublishFlushed(w, federate)
        PROVE  PInv'
    <3>1. job[w].slug \in Slug /\ job[w].typed \in Input \union {NoRow}
      BY <2>1 DEF PublishFlushed, PInv, WorkersSound, PublishingTypeOK, Job
    <3>2. QED
      BY <1>1, <2>1, <3>1, PublishRowKeeps DEF PublishFlushed
  <2>2. CASE LoopRecord(w)
    BY <1>1, <2>2, RecordingKeeps, LoopKeeps DEF LoopRecord
  <2>3. QED
    BY <1>1, <1>3, <2>1, <2>2, RecordingKeeps, RecordFailsKeeps, FinishingKeeps, DeliverOneKeeps, LoopKeeps
       DEF WorkerStep
<1>4. ASSUME NEW s \in Slug, Resolve(s)
      PROVE  PInv'
  BY <1>1, <1>4, ResolveKeeps
<1>5. CASE Crash \/ Boot
  BY <1>1, <1>5, RestartKeeps
<1>6. CASE UNCHANGED vars
  <2>1. \A s \in Slug : PostAt(s)' = PostAt(s)
    BY <1>6, QuietSteps DEF vars
  <2>2. UNCHANGED <<up, pc, job, resolving, received, everPublished, everDeleted, interrupted>>
    BY <1>6 DEF vars, storeVars, pubVars
  <2>3. WorkersSound'
    BY <1>1, <2>2 DEF IInv, PInv, WorkersSound, PublishingTypeOK
  <2>4. \A w \in Worker, s \in Slug : Completing(w, s)' <=> Completing(w, s)
    BY <2>2 DEF Completing
  <2>5. OutgoingPublished'
    BY <2>1, <2>2 DEF PInv, OutgoingPublished, WasPublished, OnlyPublishedSent, Published
  <2>6. UndecidedHasWorker' /\ CompletesPublished' /\ OnePublisher'
    BY <2>1, <2>2, <2>4
       DEF PInv, UndecidedHasWorker, CompletesPublished, OnePublisher, Undecided, Published
  <2>7. QED
    BY <1>1, <2>3, <2>5, <2>6 DEF PInv
<1>7. QED
  BY <1>2, <1>3, <1>4, <1>5, <1>6 DEF PublishingNext

\* Nothing is published, running or sent when the first process starts.
LEMMA InitPInv == PublishingInit => PInv
<1> SUFFICES ASSUME PublishingInit PROVE PInv
  OBVIOUS
<1>1. IInv
  BY InitInvariant DEF PublishingInit
<1>2. \A s \in Slug : PostAt(s) = NoRow
  BY <1>1, PostAtFacts DEF PublishingInit, Init, KeysOf
<1>3. /\ \A w \in Worker : pc[w] = "idle" /\ job[w] = NoJob
      /\ pc \in [Worker -> PC] /\ job \in [Worker -> Job]
      /\ resolving = {} /\ received = {} /\ everPublished = {} /\ everDeleted = {}
      /\ interrupted = {}
  BY NoJobType DEF PublishingInit, PC
<1>4. WorkersSound
  BY <1>1, <1>3 DEF IInv, WorkersSound, PublishingTypeOK
<1>5. OutgoingPublished
  BY <1>2, <1>3 DEF OutgoingPublished, WasPublished, OnlyPublishedSent, Published, NoJob
<1>6. UndecidedHasWorker /\ CompletesPublished /\ OnePublisher
  BY <1>2, <1>3
     DEF UndecidedHasWorker, CompletesPublished, OnePublisher, Undecided, Published, Completing
<1>7. QED
  BY <1>1, <1>4, <1>5, <1>6 DEF PInv

\* The invariant holds in every behaviour of the handlers.
LEMMA PublishingInvariant == PublishingSpec => []PInv
BY InitPInv, NextPInv, PTL DEF PublishingSpec

\* The handlers use the store as the store is specified, so what is proved of the
\* store (keys, outbox, validity, life cycle) holds under them.
THEOREM HandlersUseStore == PublishingSpec => Spec
<1>1. PublishingInit => Init
  BY DEF PublishingInit
<1>2. PInv /\ [PublishingNext]_vars => [Next]_storeVars
  BY PublishingIsStore DEF PInv
<1>3. QED
  BY <1>1, <1>2, PublishingInvariant, PTL DEF PublishingSpec, Spec

\* So a slug lives the same life under the handlers: they never bring a published post
\* back to a draft, whatever they interleave with.
THEOREM HandlersKeepLifecycle == PublishingSpec => LifecycleSpec
BY HandlersUseStore, RefinesLifecycle, PTL

\* Requests hold well-formed local state, however many there are.
THEOREM PublishingTypeCorrect == PublishingSpec => []PublishingTypeOK
<1>1. PInv => PublishingTypeOK
  BY DEF PInv, WorkersSound
<1>2. QED
  BY <1>1, PublishingInvariant, PTL

\* No follower ever gets a text that was not published: no race of autosaves, flushes,
\* edits, deletions, loops and crashes lets a draft out.
THEOREM NoDraftLeavesTheSite == PublishingSpec => []OnlyPublishedSent
<1>1. PInv => OnlyPublishedSent
  BY DEF PInv, OutgoingPublished
<1>2. QED
  BY <1>1, PublishingInvariant, PTL

\* A published post without a federation record has a request that is to write one,
\* unless a crash took that request or its record could not be written.
THEOREM UndecidedIsWorkedOn == PublishingSpec => []UndecidedHasWorker
<1>1. PInv => UndecidedHasWorker
  BY DEF PInv
<1>2. QED
  BY <1>1, PublishingInvariant, PTL

\* Of any number of racing publish requests for one draft, one completes.
THEOREM OneRequestPublishes == PublishingSpec => []OnePublisher
<1>1. PInv => OnePublisher
  BY DEF PInv
<1>2. QED
  BY <1>1, PublishingInvariant, PTL
-----------------------------------------------------------------------------
(***************************************************************************)
(* Requests come to an end: each step of one brings it nearer, in the      *)
(* order of what it has left to do.                                        *)
(***************************************************************************)
Nearer(w, to, j) ==
    LET left == Remaining(job[w].list)
        now == Remaining(j.list)
    IN  /\ now \subseteq left
        /\ \/ now # left
           \/ Rank[to] < Rank[pc[w]]
           \/ to = pc[w] /\ j.inboxes \subseteq job[w].inboxes /\ j.inboxes # job[w].inboxes

AllAdvance ==
    \A w \in Worker : pc[w] # "idle" => (pc'[w] = pc[w] /\ job'[w] = job[w]) \/ Advances(w)

\* One worker takes a step of its own; the others stay where they are.
LEMMA GoAdvances ==
    ASSUME WorkersSound, NEW v \in Worker, NEW to, NEW j, Go(v, to, j),
           pc[v] # "idle" => Nearer(v, to, j)
    PROVE  AllAdvance
<1>1. /\ pc'[v] = to /\ job'[v] = j
      /\ \A w \in Worker \ {v} : pc'[w] = pc[w] /\ job'[w] = job[w]
  BY GoFacts
<1>2. pc[v] # "idle" => Advances(v)
  BY <1>1 DEF Nearer, Advances
<1>3. QED
  BY <1>1, <1>2 DEF AllAdvance

LEMMA RankOrder ==
    /\ Rank["idle"] < Rank["loop"] /\ Rank["loop"] < Rank["deliver"]
    /\ Rank["undecided"] < Rank["flushed"] /\ Rank["deliver"] < Rank["flushed"]
    /\ \A p \in PC \ {"idle"} : Rank["idle"] < Rank[p]
BY DEF Rank, PC

LEMMA NoJobLists == Remaining(NoJob.list) = {}
BY DEF Remaining, NoJob

LEMMA FinishAdvances ==
    ASSUME WorkersSound, NEW w \in Worker, Finish(w)
    PROVE  AllAdvance
<1>1. pc[w] \in PC
  BY DEF WorkersSound, PublishingTypeOK
<1>2. pc[w] # "idle" => Nearer(w, "idle", NoJob)
  BY <1>1, RankOrder, NoJobLists DEF Nearer
<1>3. QED
  BY <1>2, GoAdvances DEF Finish

LEMMA WorkerAdvances == ASSUME WorkersSound, NEW w \in Worker, WorkerStep(w) PROVE AllAdvance
<1>1. job[w] \in Job
  BY DEF WorkersSound, PublishingTypeOK
<1>2. ASSUME NEW federate \in BOOLEAN, PublishFlushed(w, federate)
      PROVE  AllAdvance
  <2> DEFINE s == job[w].slug
             to == IF federate THEN "deliver" ELSE "undecided"
             j == [NoJob EXCEPT !.op = "publish", !.slug = s, !.row = Carried(posts'[Canonical(s)]),
                                !.typed = job[w].typed, !.inboxes = Inbox]
  <2>1. pc[w] = "flushed" /\ Go(w, to, j)
    BY <1>2 DEF PublishFlushed, PublishRow
  <2>2. Remaining(j.list) = {}
    BY DEF NoJob, Remaining
  <2>3. Rank[to] < Rank["flushed"]
    BY RankOrder
  <2> HIDE DEF to, j
  <2>4. QED
    BY <2>1, <2>2, <2>3, GoAdvances DEF Nearer
<1>3. ASSUME NEW i \in Inbox, NEW outcome \in Outcome, DeliverOne(w, i, outcome)
      PROVE  AllAdvance
  <2> DEFINE j == [job[w] EXCEPT !.inboxes = @ \ {i}, !.failed = @ \/ outcome.error]
  <2>1. pc[w] = "deliver" /\ i \in job[w].inboxes /\ Go(w, "deliver", j)
    BY <1>3 DEF DeliverOne
  <2>2. j.list = job[w].list /\ j.inboxes = job[w].inboxes \ {i}
    BY <1>1 DEF Job
  <2> HIDE DEF j
  <2>3. QED
    BY <2>1, <2>2, GoAdvances DEF Nearer
<1>4. ASSUME NEW s \in Slug, job[w].list[s] # NoRow
      PROVE  /\ Remaining(DropFromList(w, s)) \subseteq Remaining(job[w].list)
             /\ Remaining(DropFromList(w, s)) # Remaining(job[w].list)
  BY <1>1, <1>4 DEF Remaining, DropFromList, Job
<1>5. ASSUME NEW s \in Slug, LoopSkip(w, s)
      PROVE  AllAdvance
  <2> DEFINE j == [job[w] EXCEPT !.list = DropFromList(w, s)]
  <2>1. job[w].list[s] # NoRow /\ Go(w, "loop", j)
    BY <1>5 DEF LoopSkip
  <2>2. j.list = DropFromList(w, s)
    BY <1>1 DEF Job
  <2> HIDE DEF j
  <2>3. QED
    BY <1>4, <2>1, <2>2, GoAdvances DEF Nearer
<1>6. ASSUME NEW s \in Slug, LoopDeliver(w, s)
      PROVE  AllAdvance
  <2> DEFINE j == [job[w] EXCEPT !.slug = s, !.row = Carried(job[w].list[s]), !.inboxes = Inbox,
                                 !.failed = FALSE, !.list = DropFromList(w, s)]
  <2>1. job[w].list[s] # NoRow /\ Go(w, "deliver", j)
    BY <1>6 DEF LoopDeliver
  <2>2. j.list = DropFromList(w, s)
    BY <1>1 DEF Job
  <2> HIDE DEF j
  <2>3. QED
    BY <1>4, <2>1, <2>2, GoAdvances DEF Nearer
<1>7. CASE LoopRecord(w)
  <2> DEFINE j == [NoJob EXCEPT !.op = job[w].op, !.list = job[w].list]
  <2>1. pc[w] = "deliver" /\ Go(w, "loop", j)
    BY <1>7 DEF LoopRecord
  <2>2. j.list = job[w].list
    BY DEF NoJob
  <2> HIDE DEF j
  <2>3. QED
    BY <2>1, <2>2, RankOrder, GoAdvances DEF Nearer
<1>8. CASE \/ PublishRefused(w) \/ RecordNotShared(w) \/ RecordDelivery(w) \/ RecordFails(w)
           \/ LoopDone(w)
  BY <1>8, FinishAdvances
     DEF PublishRefused, RecordNotShared, RecordDelivery, RecordFails, LoopDone
<1>9. QED
  BY <1>2, <1>3, <1>5, <1>6, <1>7, <1>8 DEF WorkerStep

\* No request or loop, in any number of them and over any number of posts and followers,
\* goes round in circles: each of its steps brings it nearer to its end.
THEOREM RequestsComeToAnEnd == PublishingSpec => RequestsAdvance
<1>1. WorkersSound /\ [PublishingNext]_vars => [AllAdvance]_vars
  <2> SUFFICES ASSUME WorkersSound, PublishingNext PROVE AllAdvance
    OBVIOUS
  <2>1. UNCHANGED <<pc, job>> => AllAdvance
    BY DEF AllAdvance
  <2>2. ASSUME NEW v \in Worker, NEW to, NEW j, pc[v] = "idle", Go(v, to, j)
        PROVE  AllAdvance
    BY <2>2, GoAdvances
  <2>3. CASE Request
    BY <2>1, <2>2, <2>3
       DEF Request, Compose, PublishFlush, PublishPlain, PublishRow, StartLoop, Autosave, Edit,
           Delete, pubVars
  <2>4. CASE Crash
    <3>1. ASSUME NEW w \in Worker, pc[w] # "idle"
          PROVE  Advances(w)
      <4>1. pc'[w] = "idle" /\ job'[w] = NoJob /\ pc[w] \in PC
        BY <2>4 DEF Crash, WorkersSound, PublishingTypeOK
      <4>2. QED
        BY <3>1, <4>1, RankOrder, NoJobLists DEF Advances
    <3>2. QED
      BY <3>1 DEF AllAdvance
  <2>5. CASE Boot \/ \E s \in Slug : Resolve(s)
    BY <2>1, <2>5 DEF Boot, Resolve, pubVars
  <2>6. QED
    BY <2>3, <2>4, <2>5, WorkerAdvances DEF PublishingNext
<1>2. PInv => WorkersSound
  BY DEF PInv
<1>3. QED
  BY <1>1, <1>2, PublishingInvariant, PTL DEF PublishingSpec, RequestsAdvance, AllAdvance

-----------------------------------------------------------------------------
(***************************************************************************)
(* What the mark "delivered" is worth.  Marks are followed through the     *)
(* rows, activities through the workers that send them.                    *)
(***************************************************************************)
\* A record that says shared and no error, set or not: a permalink sets what it finds.
Marked(row) == row # NoRow /\ row.fed.shared /\ ~row.fed.error
MarkedSlug(s) == \E k \in Key : k[2] = s /\ Marked(posts[k])

Reached(taken, s, i) == \E r \in taken : r[1] = i /\ r[2] = s

\* A worker whose deliveries all succeeded so far has reached the inboxes behind it.
CleanRunsReached ==
    \A w \in Worker : pc[w] = "deliver" /\ ~job[w].failed =>
        \A i \in Inbox \ job[w].inboxes : Reached(received, job[w].slug, i)

MarksEarned == \A s \in Slug : MarkedSlug(s) => \A i \in Inbox : Reached(received, s, i)

DInv == PInv /\ CleanRunsReached /\ MarksEarned

\* A write of one row marks no slug but its own, and that only with a marked row.
LEMMA PutMarks ==
    ASSUME IInv, NEW k \in Key, NEW row, PutPost(k, row), NEW s \in Slug, MarkedSlug(s)'
    PROVE  MarkedSlug(s) \/ (k[2] = s /\ Marked(row))
<1>1. PICK l \in Key : l[2] = s /\ Marked(posts'[l])
  BY DEF MarkedSlug, Marked
<1>2. posts'[l] = IF l = k THEN row ELSE posts[l]
  BY DEF PutPost, IInv, TypeOK
<1>3. QED
  BY <1>1, <1>2 DEF MarkedSlug

\* Every step of the store but a record of a delivery.
UnrecordedStep ==
    \/ \E s \in Slug, kind \in Kind, body \in Text :
          CreatePost(s, kind, body) \/ UpdatePost(s, kind, body)
    \/ \E s \in Slug, kind \in Kind, title \in Text, body \in Text :
          SaveDraft(s, kind, title, body)
    \/ \E s \in Slug : PublishDraft(s) \/ SetFederationRemoteURL(s) \/ DeletePost(s)
    \/ Stop \/ Start \/ UNCHANGED storeVars

\* None of them marks a post.
LEMMA UnrecordedKeepsMarks ==
    ASSUME IInv, IInv', UnrecordedStep, NEW s \in Slug, MarkedSlug(s)', ~MarkedSlug(s)
    PROVE  FALSE
<1>1. \A k \in Key : k[2] = s => ~Marked(posts[k])
  BY DEF MarkedSlug
<1>2. ASSUME NEW t \in Slug, NEW kind \in Kind, NEW body \in Text, CreatePost(t, kind, body)
      PROVE  FALSE
  <2> DEFINE r == [kind |-> kind, title |-> Blank, body |-> body, quote |-> kind = "quote",
                   status |-> "published", fed |-> NoFederation]
  <2>1. ~Marked(r)
    BY DEF Marked, NoFederation
  <2>2. PutPost(Canonical(t), r)
    BY <1>2 DEF CreatePost, PutBoth
  <2>3. Canonical(t) \in Key
    BY KeyFacts DEF Canonical, IInv, TypeOK
  <2> HIDE DEF r
  <2>4. QED
    BY <2>1, <2>2, <2>3, PutMarks
<1>3. ASSUME NEW t \in Slug, NEW kind \in Kind, NEW title \in Text, NEW body \in Text,
             SaveDraft(t, kind, title, body)
      PROVE  FALSE
  <2> DEFINE fresh == [kind |-> kind, title |-> title, body |-> body, quote |-> FALSE,
                       status |-> "draft", fed |-> NoFederation]
             saved(k) == [posts[k] EXCEPT !.kind = kind, !.title = title, !.body = body]
  <2>1. CASE PutPost(Canonical(t), fresh)
    <3>1. ~Marked(fresh) /\ Canonical(t) \in Key
      BY KeyFacts DEF Marked, NoFederation, Canonical, IInv, TypeOK
    <3> HIDE DEF fresh
    <3>2. QED
      BY <2>1, <3>1, PutMarks
  <2>2. ASSUME NEW k \in Key, Found(t, k), PutPost(k, saved(k))
        PROVE  FALSE
    <3>1. k[2] = t /\ posts[k] \in Row /\ posts[k] # NoRow
      BY <2>2, FoundIsOnly
    <3>2. saved(k).fed = posts[k].fed
      BY <3>1 DEF Row
    <3>3. Marked(saved(k)) => Marked(posts[k])
      BY <3>1, <3>2 DEF Marked
    <3> HIDE DEF saved
    <3>4. QED
      BY <1>1, <2>2, <3>3, PutMarks
  <2>3. QED
    BY <1>3, <2>1, <2>2 DEF SaveDraft
<1>4. ASSUME NEW t \in Slug, PublishDraft(t)
      PROVE  FALSE
  <2>1. PICK k \in Key : Found(t, k) /\ PutPost(k, PublishedRow(posts[k]))
    BY <1>4 DEF PublishDraft, PutBoth
  <2>2. posts[k] \in Row /\ posts[k] # NoRow
    BY <2>1, FoundIsOnly
  <2>3. PublishedRow(posts[k]).fed = posts[k].fed
    BY <2>2 DEF PublishedRow, Row
  <2>4. QED
    BY <1>1, <2>1, <2>2, <2>3, PutMarks DEF Marked
<1>5. ASSUME NEW t \in Slug, NEW kind \in Kind, NEW body \in Text, UpdatePost(t, kind, body)
      PROVE  FALSE
  <2>1. /\ PostAt(t) \in Row /\ posts'[Canonical(t)].fed = PostAt(t).fed
        /\ Reads(t, posts'[Canonical(t)])
    BY <1>5, UpdatePostEffect
  <2>2. PICK l \in Key : l[2] = s /\ Marked(posts'[l])
    BY DEF MarkedSlug, Marked
  <2>3. PostAt(s)' = posts'[l]
    BY <2>2, PostAtNext DEF Marked
  <2>4. Marked(PostAt(s))
    BY <2>1, <2>2, <2>3, NoRowAssumption DEF Reads, Marked
  <2>5. QED
    BY <1>1, <2>4, PostAtFacts DEF KeysOf, Marked
<1>6. ASSUME NEW t \in Slug, SetFederationRemoteURL(t)
      PROVE  FALSE
  <2>1. PICK k \in Key : /\ Found(t, k)
                         /\ PutPost(k, [posts[k] EXCEPT !.fed.set = TRUE, !.fed.remote = TRUE])
    BY <1>6 DEF SetFederationRemoteURL
  <2> DEFINE r == [posts[k] EXCEPT !.fed.set = TRUE, !.fed.remote = TRUE]
  <2>2. posts[k] \in Row /\ posts[k] # NoRow
    BY <2>1, FoundIsOnly
  <2>3. r.fed.shared = posts[k].fed.shared /\ r.fed.error = posts[k].fed.error
    BY <2>2 DEF Row, Federation
  <2>4. Marked(r) => Marked(posts[k])
    BY <2>2, <2>3 DEF Marked
  <2>5. PutPost(k, r)
    BY <2>1
  <2> HIDE DEF r
  <2>6. QED
    BY <1>1, <2>4, <2>5, PutMarks
<1>7. ASSUME NEW t \in Slug, DeletePost(t)
      PROVE  FALSE
  BY <1>7, PutMarks DEF DeletePost, Marked
<1>8. CASE Start
  <2>1. PICK l \in Key : l[2] = s /\ Marked(posts'[l])
    BY DEF MarkedSlug, Marked
  <2>2. \/ posts'[l] = NoRow
        \/ posts'[l] = posts[l]
        \/ \E m \in Key : m[2] = s /\ posts'[l] = posts[m]
    BY <1>8, <2>1, RewriteResult DEF Start
  <2>3. QED
    BY <1>1, <2>1, <2>2 DEF Marked
<1>9. CASE Stop \/ UNCHANGED storeVars
  BY <1>9 DEF Stop, storeVars, MarkedSlug, Marked
<1>10. QED
  BY <1>2, <1>3, <1>4, <1>5, <1>6, <1>7, <1>8, <1>9 DEF UnrecordedStep

\* A record marks its own slug, when nothing failed.
LEMMA RecordMarks ==
    ASSUME IInv, NEW t \in Slug, NEW fed \in {NotShared, SharedOk, SharedError},
           RecordFederation(t, fed), NEW s \in Slug, MarkedSlug(s)', ~MarkedSlug(s)
    PROVE  t = s /\ fed = SharedOk
<1>1. CASE UNCHANGED storeVars
  BY <1>1 DEF storeVars, MarkedSlug, Marked
<1>2. ASSUME NEW k \in Key, Found(t, k), PutPost(k, [posts[k] EXCEPT !.fed = fed])
      PROVE  t = s /\ fed = SharedOk
  <2>1. k[2] = t /\ posts[k] \in Row
    BY <1>2, FoundIsOnly
  <2>2. [posts[k] EXCEPT !.fed = fed].fed = fed
    BY <2>1 DEF Row
  <2>3. t = s /\ fed.shared /\ ~fed.error
    BY <1>2, <2>1, <2>2, PutMarks DEF Marked
  <2>4. QED
    BY <2>3 DEF NotShared, SharedOk, SharedError, NoFederation
<1>3. QED
  BY <1>1, <1>2 DEF RecordFederation, SetFederation

\* Only a worker that has tried every inbox and failed at none marks a post.
LEMMA WhoMarks ==
    ASSUME PInv, IInv', PublishingNext, NEW s \in Slug, MarkedSlug(s)', ~MarkedSlug(s)
    PROVE  \E w \in Worker : /\ pc[w] = "deliver" /\ ~job[w].failed
                             /\ job[w].inboxes = {} /\ job[w].slug = s
<1>1. \A in \in Input : in.kind \in Kind /\ in.title \in Text /\ in.body \in Text
  BY DEF Kind
<1>2. ~UnrecordedStep
  BY UnrecordedKeepsMarks DEF PInv
<1>3. ~Request
  BY <1>1, <1>2
     DEF UnrecordedStep, Request, Compose, PublishFlush, PublishPlain, PublishRow, StartLoop,
         Autosave, Edit, Delete
<1>4. ~Crash /\ ~Boot /\ \A t \in Slug : ~Resolve(t)
  BY <1>2 DEF UnrecordedStep, Crash, Boot, Resolve
<1>5. PICK w \in Worker : WorkerStep(w)
  BY <1>3, <1>4 DEF PublishingNext
<1>6. pc[w] \in {"flushed", "undecided", "deliver"} => job[w].slug \in Slug
  BY DEF PInv, WorkersSound
<1>7. RecordNotShared(w) \/ RecordDelivery(w) \/ LoopRecord(w)
  BY <1>2, <1>5, <1>6
     DEF UnrecordedStep, WorkerStep, PublishFlushed, PublishRow, PublishRefused, RecordFails,
         DeliverOne, LoopSkip, LoopDeliver, LoopDone
<1>8. ~RecordNotShared(w)
  <2>1. NotShared # SharedOk
    BY DEF NotShared, SharedOk, NoFederation
  <2>2. QED
    BY <1>6, <2>1, RecordMarks DEF RecordNotShared, PInv
<1>9. /\ pc[w] = "deliver" /\ job[w].inboxes = {}
      /\ RecordFederation(job[w].slug, DeliveryResult(w))
  BY <1>2, <1>7, <1>8 DEF RecordDelivery, LoopRecord, UnrecordedStep
<1>10. job[w].slug = s /\ DeliveryResult(w) = SharedOk
  BY <1>6, <1>9, RecordMarks DEF DeliveryResult, PInv
<1>11. SharedError # SharedOk
  BY DEF NotShared, SharedOk, SharedError, NoFederation
<1>12. QED
  BY <1>9, <1>10, <1>11 DEF DeliveryResult

\* What a worker that delivers after a step did in it: nothing, it set out for all
\* inboxes, or it tried one more.
LEMMA DeliveringStep ==
    ASSUME PInv, [PublishingNext]_vars, NEW w \in Worker, pc'[w] = "deliver"
    PROVE  \/ pc[w] = "deliver" /\ job'[w] = job[w]
           \/ job'[w].inboxes = Inbox
           \/ \E i \in Inbox, outcome \in Outcome : DeliverOne(w, i, outcome)
<1> DEFINE goal == \/ pc[w] = "deliver" /\ job'[w] = job[w]
                   \/ job'[w].inboxes = Inbox
                   \/ \E i \in Inbox, outcome \in Outcome : DeliverOne(w, i, outcome)
<1> SUFFICES goal
  OBVIOUS
<1>1. ASSUME NEW v \in Worker, NEW to, NEW j, Go(v, to, j),
             v = w /\ to = "deliver" => j.inboxes = Inbox
      PROVE  goal
  BY <1>1, GoFacts DEF PInv
<1>2. UNCHANGED <<pc, job>> => goal
  OBVIOUS
<1>3. ASSUME NEW v \in Worker, NEW s, NEW in \in Input, NEW federate \in BOOLEAN,
             Compose(v, s, in, federate)
      PROVE  goal
  <2> DEFINE j == [NoJob EXCEPT !.op = "compose", !.slug = s, !.row = posts'[Canonical(s)],
                                !.inboxes = Inbox]
  <2>1. j.inboxes = Inbox
    BY DEF NoJob
  <2>2. Go(v, IF federate THEN "deliver" ELSE "undecided", j)
    BY <1>3 DEF Compose
  <2> HIDE DEF j, goal
  <2>3. QED
    BY <1>1, <2>1, <2>2
<1>4. ASSUME NEW v \in Worker, NEW s, NEW typed, NEW federate \in BOOLEAN,
             PublishRow(v, s, typed, federate)
      PROVE  goal
  <2> DEFINE j == [NoJob EXCEPT !.op = "publish", !.slug = s, !.row = Carried(posts'[Canonical(s)]),
                                !.typed = typed, !.inboxes = Inbox]
  <2>1. j.inboxes = Inbox
    BY DEF NoJob
  <2>2. Go(v, IF federate THEN "deliver" ELSE "undecided", j)
    BY <1>4 DEF PublishRow
  <2> HIDE DEF j, goal
  <2>3. QED
    BY <1>1, <2>1, <2>2
<1>5. ASSUME NEW v \in Worker, NEW s, LoopDeliver(v, s)
      PROVE  goal
  <2> DEFINE j == [job[v] EXCEPT !.slug = s, !.row = Carried(job[v].list[s]), !.inboxes = Inbox,
                                 !.failed = FALSE, !.list = DropFromList(v, s)]
  <2>1. job[v] \in Job
    BY DEF PInv, WorkersSound, PublishingTypeOK
  <2>2. j.inboxes = Inbox
    BY <2>1 DEF Job
  <2>3. Go(v, "deliver", j)
    BY <1>5 DEF LoopDeliver
  <2> HIDE DEF j, goal
  <2>4. QED
    BY <1>1, <2>2, <2>3
<1>6. ASSUME NEW v \in Worker, NEW to \in {"idle", "flushed", "loop"}, NEW j, Go(v, to, j)
      PROVE  goal
  <2> HIDE DEF goal
  <2>1. QED
    BY <1>1, <1>6
<1>7. CASE Request
  <2> HIDE DEF goal
  <2>1. ASSUME NEW v \in Worker, NEW s \in Slug, NEW in \in Input, PublishFlush(v, s, in)
        PROVE  goal
    BY <1>6, <2>1 DEF PublishFlush
  <2>2. ASSUME NEW v \in Worker, NEW op \in {"backfill", "redeliver"}, StartLoop(v, op)
        PROVE  goal
    BY <1>6, <2>2 DEF StartLoop
  <2>3. ASSUME NEW s \in Slug, NEW in \in Input, Autosave(s, in) \/ Edit(s, in)
        PROVE  goal
    BY <1>2, <2>3 DEF Autosave, Edit, pubVars
  <2>4. CASE \E s \in Slug : Delete(s)
    BY <1>2, <2>4 DEF Delete
  <2>5. ASSUME NEW v \in Worker, NEW s \in Slug, NEW federate \in BOOLEAN,
               PublishPlain(v, s, federate)
        PROVE  goal
    BY <1>4, <2>5 DEF PublishPlain
  <2>6. CASE \E s \in Slug, in \in Input : Autosave(s, in) \/ Edit(s, in)
    BY <2>3, <2>6
  <2>7. QED
    BY <1>3, <1>7, <2>1, <2>2, <2>4, <2>5, <2>6 DEF Request
<1>8. ASSUME NEW v \in Worker, NEW i \in Inbox, NEW outcome \in Outcome,
             DeliverOne(v, i, outcome)
      PROVE  goal
  BY <1>8, GoFacts DEF DeliverOne, PInv
<1>9. ASSUME NEW v \in Worker, WorkerStep(v)
      PROVE  goal
  <2> HIDE DEF goal
  <2>1. QED
    BY <1>4, <1>5, <1>6, <1>8, <1>9
       DEF WorkerStep, PublishFlushed, PublishRefused, RecordNotShared, RecordDelivery,
           RecordFails, LoopSkip, LoopRecord, LoopDone, Finish
<1>10. ~Crash
  BY DEF Crash
<1>11. CASE Boot \/ UNCHANGED vars \/ \E s \in Slug : Resolve(s)
  <2>1. UNCHANGED <<pc, job>>
    BY <1>11 DEF Boot, vars, pubVars, Resolve
  <2>2. QED
    BY <1>2, <2>1
<1>12. QED
  BY <1>7, <1>9, <1>10, <1>11 DEF PublishingNext

\* Remote servers do not lose what they took.
LEMMA ReceivedGrows == [PublishingNext]_vars => received \subseteq received'
BY DEF PublishingNext, Request, WorkerStep, Compose, PublishFlush, PublishPlain, PublishRow,
       StartLoop, Autosave, Edit, Delete, PublishFlushed, PublishRefused, RecordNotShared,
       RecordFails, DeliverOne, RecordDelivery, LoopSkip, LoopDeliver, LoopRecord, LoopDone, Resolve, Crash,
       Boot, vars, pubVars

\* The marks stay earned, because clean runs reach the inboxes they have tried.
LEMMA NextDInv == DInv /\ [PublishingNext]_vars => DInv'
<1> SUFFICES ASSUME DInv, [PublishingNext]_vars PROVE DInv'
  OBVIOUS
<1>1. PInv' /\ IInv'
  BY NextPInv DEF DInv, PInv
<1>2. received \subseteq received'
  BY ReceivedGrows
<1>3. \A s, i : Reached(received, s, i) => Reached(received', s, i)
  BY <1>2 DEF Reached
<1>4. CleanRunsReached'
  <2> SUFFICES ASSUME NEW w \in Worker, pc'[w] = "deliver", ~job'[w].failed,
                      NEW i \in Inbox, i \notin job'[w].inboxes
               PROVE  Reached(received', job'[w].slug, i)
    BY DEF CleanRunsReached
  <2>1. CASE pc[w] = "deliver" /\ job'[w] = job[w]
    BY <1>3, <2>1 DEF DInv, CleanRunsReached
  <2>2. ASSUME NEW h \in Inbox, NEW outcome \in Outcome, DeliverOne(w, h, outcome)
        PROVE  Reached(received', job'[w].slug, i)
    <3> DEFINE j == [job[w] EXCEPT !.inboxes = @ \ {h}, !.failed = @ \/ outcome.error]
    <3>1. job[w] \in Job
      BY DEF DInv, PInv, WorkersSound, PublishingTypeOK
    <3>2. /\ j.slug = job[w].slug /\ j.inboxes = job[w].inboxes \ {h}
          /\ j.failed = (job[w].failed \/ outcome.error)
      BY <3>1 DEF Job
    <3>3. pc[w] = "deliver" /\ Go(w, "deliver", j)
      BY <2>2 DEF DeliverOne
    <3> HIDE DEF j
    <3>4. job'[w] = j
      BY <3>3, GoFacts DEF DInv, PInv
    <3>5. ~job[w].failed /\ ~outcome.error
      BY <3>2, <3>4
    <3>6. CASE i = h
      <4>1. outcome.taken
        BY <3>5 DEF Outcome, Accepts
      <4>2. <<h, job[w].slug, Sent(w)>> \in received'
        BY <2>2, <4>1 DEF DeliverOne
      <4>3. QED
        BY <3>2, <3>4, <3>6, <4>2 DEF Reached
    <3>7. CASE i # h
      BY <1>3, <3>2, <3>3, <3>4, <3>5, <3>7 DEF DInv, CleanRunsReached
    <3>8. QED
      BY <3>6, <3>7
  <2>3. QED
    BY <2>1, <2>2, DeliveringStep DEF DInv
<1>5. MarksEarned'
  <2> SUFFICES ASSUME NEW s \in Slug, MarkedSlug(s)', NEW i \in Inbox
               PROVE  Reached(received', s, i)
    BY DEF MarksEarned
  <2>1. CASE MarkedSlug(s)
    BY <1>3, <2>1 DEF DInv, MarksEarned
  <2>2. CASE ~MarkedSlug(s)
    <3>1. PublishingNext
      BY <2>2 DEF vars, storeVars, MarkedSlug, Marked
    <3>2. PICK w \in Worker : /\ pc[w] = "deliver" /\ ~job[w].failed
                              /\ job[w].inboxes = {} /\ job[w].slug = s
      BY <1>1, <2>2, <3>1, WhoMarks DEF DInv
    <3>3. QED
      BY <1>3, <3>2 DEF DInv, CleanRunsReached
  <2>3. QED
    BY <2>1, <2>2
<1>6. QED
  BY <1>1, <1>4, <1>5 DEF DInv

\* What the marks mean holds throughout.
LEMMA DeliveryInvariant == PublishingSpec => []DInv
<1>1. PublishingInit => DInv
  <2> SUFFICES ASSUME PublishingInit PROVE DInv
    OBVIOUS
  <2>1. PInv
    BY InitPInv
  <2>2. CleanRunsReached /\ MarksEarned
    BY DEF PublishingInit, Init, CleanRunsReached, MarksEarned, MarkedSlug, Marked
  <2>3. QED
    BY <2>1, <2>2 DEF DInv
<1>2. QED
  BY <1>1, NextDInv, PTL DEF PublishingSpec

\* A post marked delivered, under a slug that no post was deleted from, has reached every
\* follower with a text that readers could see: no lost answer, error status, partial
\* fan-out or crash, in any number of requests and loops, earns the mark.
THEOREM DeliveryMarkIsTrue == PublishingSpec => []DeliveredReachedAll
<1>1. DInv => DeliveredReachedAll
  <2> SUFFICES ASSUME DInv, NEW s \in Slug, PostAt(s) # NoRow, Delivered(PostAt(s)),
                      NEW i \in Inbox
               PROVE  \E r \in received :
                        r[1] = i /\ r[2] = s /\ <<s, r[3]>> \in everPublished
    BY DEF DeliveredReachedAll
  <2>1. PICK k \in KeysOf(s) : PostAt(s) = posts[k]
    BY PostAtFacts DEF DInv, PInv
  <2>2. MarkedSlug(s)
    BY <2>1 DEF KeysOf, MarkedSlug, Marked, Delivered
  <2>3. PICK r \in received : r[1] = i /\ r[2] = s
    BY <2>2 DEF DInv, MarksEarned, Reached
  <2>4. <<r[2], r[3]>> \in everPublished
    BY DEF DInv, PInv, OutgoingPublished, OnlyPublishedSent
  <2>5. QED
    BY <2>3, <2>4
<1>2. QED
  BY <1>1, DeliveryInvariant, PTL

-----------------------------------------------------------------------------
(***************************************************************************)
(* Publishing implements Announcing.  A step shows something, or tells     *)
(* someone, or touches one post only, whose mark may change with it.       *)
(***************************************************************************)
AnnounceStep == [Announce!AnnounceNext]_<<everPublished, received, MarkedDelivered>>

MarksReach ==
    \A s \in MarkedDelivered, i \in Inbox : \E a \in Activity : <<i, s, a>> \in received

LEMMA MarkedMeansReached == DInv => MarksReach
<1> SUFFICES ASSUME DInv, NEW s \in MarkedDelivered
             PROVE  \A i \in Inbox : \E a \in Activity : <<i, s, a>> \in received
  BY DEF MarksReach
<1>1. s \in Slug /\ PostAt(s) # NoRow /\ Delivered(PostAt(s))
  BY DEF MarkedDelivered
<1>2. PICK k \in KeysOf(s) : PostAt(s) = posts[k]
  BY <1>1, PostAtFacts DEF DInv, PInv
<1>3. MarkedSlug(s)
  BY <1>1, <1>2 DEF KeysOf, MarkedSlug, Marked, Delivered
<1>4. \A i \in Inbox : \E m \in received : m[1] = i /\ m[2] = s
  BY <1>1, <1>3 DEF DInv, MarksEarned, Reached
<1>5. \A m \in received : m = <<m[1], m[2], m[3]>> /\ m[3] \in Activity
  BY DEF DInv, PInv, WorkersSound, PublishingTypeOK
<1>6. QED
  BY <1>4, <1>5

\* A step that touches one post and shows and tells nothing.
LEMMA OnePostAnnounces ==
    ASSUME DInv', NEW s \in Slug, \A t \in Slug \ {s} : PostAt(t)' = PostAt(t),
           UNCHANGED <<everPublished, received>>
    PROVE  AnnounceStep
<1>1. \A t \in Slug \ {s} : t \in MarkedDelivered' <=> t \in MarkedDelivered
  BY DEF MarkedDelivered, Delivered
<1>2. MarkedDelivered \subseteq Slug /\ MarkedDelivered' \subseteq Slug
  BY DEF MarkedDelivered
<1>3. CASE s \in MarkedDelivered'
  <2>1. \A i \in Inbox : \E a \in Activity : <<i, s, a>> \in received'
    <3>1. DInv' => MarksReach'
      BY MarkedMeansReached, PTL
    <3>2. QED
      BY <1>3, <3>1 DEF MarksReach
  <2>2. MarkedDelivered' = MarkedDelivered \union {s}
    BY <1>1, <1>2, <1>3
  <2>3. Announce!Mark(s)
    BY <2>1, <2>2 DEF Announce!Mark
  <2>4. QED
    BY <2>3 DEF AnnounceStep, Announce!AnnounceNext
<1>4. CASE s \notin MarkedDelivered'
  <2>1. MarkedDelivered' = MarkedDelivered \ {s}
    BY <1>1, <1>2, <1>4
  <2>2. Announce!Unmark(s)
    BY <2>1 DEF Announce!Unmark
  <2>3. QED
    BY <2>2 DEF AnnounceStep, Announce!AnnounceNext
<1>5. QED
  BY <1>3, <1>4

\* A step that touches no post and shows and tells nothing.
LEMMA QuietAnnounces ==
    ASSUME \A t \in Slug : PostAt(t)' = PostAt(t), UNCHANGED <<everPublished, received>>
    PROVE  AnnounceStep
<1>1. MarkedDelivered' = MarkedDelivered
  BY DEF MarkedDelivered, Delivered
<1>2. QED
  BY <1>1 DEF AnnounceStep

\* A step that shows a post keeps its record, or starts a post with an empty one.
LEMMA ShowAnnounces ==
    ASSUME NEW s \in Slug, NEW r \in Row, Reads(s, r), Publicise(s, ActivityOf(r)),
           UNCHANGED received,
           \/ PostAt(s) = NoRow /\ r.fed = NoFederation
           \/ PostAt(s) \in Row /\ r.fed = PostAt(s).fed
    PROVE  AnnounceStep
<1>1. s \in MarkedDelivered' <=> s \in MarkedDelivered
  BY NoRowAssumption DEF MarkedDelivered, Delivered, Reads, NoFederation
<1>2. MarkedDelivered' = MarkedDelivered
  BY <1>1 DEF MarkedDelivered, Delivered, Reads
<1>3. Announce!Show(s, ActivityOf(r)) /\ ActivityOf(r) \in Activity
  BY <1>2, ActivityOfType DEF Announce!Show, Publicise
<1>4. QED
  BY <1>3 DEF AnnounceStep, Announce!AnnounceNext

\* Tries of one inbox tell it what the worker's post was when it was listed or published.
LEMMA DeliverOneAnnounces ==
    ASSUME DInv, NEW w \in Worker, NEW i \in Inbox, NEW outcome \in Outcome,
           DeliverOne(w, i, outcome)
    PROVE  AnnounceStep
<1>1. \A t \in Slug : PostAt(t)' = PostAt(t)
  BY QuietSteps DEF DeliverOne
<1>2. UNCHANGED everPublished
  BY DEF DeliverOne, history
<1>3. /\ pc[w] = "deliver" /\ job[w].slug \in Slug /\ job[w].row \in Row
      /\ <<job[w].slug, Sent(w)>> \in everPublished
  BY NoRowAssumption
     DEF DeliverOne, DInv, PInv, WorkersSound, OutgoingPublished, WasPublished, Sent
<1>4. MarkedDelivered' = MarkedDelivered
  BY <1>1 DEF MarkedDelivered, Delivered
<1>5. CASE outcome.taken
  <2>1. Announce!Tell(i, job[w].slug, Sent(w)) /\ Sent(w) \in Activity
    BY <1>2, <1>3, <1>4, <1>5, ActivityOfType DEF Announce!Tell, DeliverOne, Sent
  <2>2. QED
    BY <1>3, <2>1 DEF AnnounceStep, Announce!AnnounceNext
<1>6. CASE ~outcome.taken
  BY <1>1, <1>2, <1>6, QuietAnnounces DEF DeliverOne
<1>7. QED
  BY <1>5, <1>6

\* What a worker records touches its own post.
LEMMA RecordAnnounces ==
    ASSUME DInv, DInv', NEW s \in Slug, NEW fed \in Federation, RecordFederation(s, fed),
           UNCHANGED <<everPublished, received>>
    PROVE  AnnounceStep
<1>1. CASE SetFederation(s, fed)
  BY <1>1, SetFederationEffect, OnePostAnnounces DEF DInv, PInv, Reads
<1>2. CASE UNCHANGED storeVars
  BY <1>2, QuietSteps, QuietAnnounces
<1>3. QED
  BY <1>1, <1>2 DEF RecordFederation

LEMMA RequestAnnounces == ASSUME DInv, DInv', Request PROVE AnnounceStep
<1>1. IInv /\ IInv'
  BY DEF DInv, PInv
<1>2. \A in \in Input : in.kind \in Kind /\ in.title \in Text /\ in.body \in Text
  BY DEF Kind
<1>3. ASSUME NEW w \in Worker, NEW s \in Slug, NEW in \in Input, NEW federate \in BOOLEAN,
             Compose(w, s, in, federate)
      PROVE  AnnounceStep
  BY <1>1, <1>2, <1>3, CreatePostEffect, ShowAnnounces DEF Compose
<1>4. ASSUME NEW w \in Worker, NEW s \in Slug, NEW federate \in BOOLEAN,
             PublishPlain(w, s, federate)
      PROVE  AnnounceStep
  BY <1>1, <1>4, PublishDraftEffect, ShowAnnounces DEF PublishPlain, PublishRow
<1>5. ASSUME NEW s \in Slug, NEW in \in Input, Edit(s, in)
      PROVE  AnnounceStep
  BY <1>1, <1>2, <1>5, UpdatePostEffect, ShowAnnounces DEF Edit
<1>6. ASSUME NEW s \in Slug, NEW in \in Input,
             SaveDraft(s, in.kind, in.title, in.body), UNCHANGED <<everPublished, received>>
      PROVE  AnnounceStep
  <2>1. PICK r \in Row : Reads(s, r)
    BY <1>1, <1>2, <1>6, SaveDraftEffect
  <2>2. QED
    BY <1>6, <2>1, OnePostAnnounces DEF Reads
<1>7. ASSUME NEW s \in Slug, Delete(s)
      PROVE  AnnounceStep
  BY <1>1, <1>7, DeletePostEffect, OnePostAnnounces DEF Delete, Reads
<1>8. ASSUME NEW w \in Worker, NEW op, StartLoop(w, op)
      PROVE  AnnounceStep
  BY <1>8, QuietSteps, QuietAnnounces DEF StartLoop, history
<1>9. CASE \E s \in Slug, in \in Input : Autosave(s, in) \/ Edit(s, in)
  BY <1>5, <1>6, <1>9 DEF Autosave, pubVars
<1>10. CASE \E w \in Worker, s \in Slug, in \in Input : PublishFlush(w, s, in)
  BY <1>6, <1>10 DEF PublishFlush, history
<1>11. QED
  BY <1>3, <1>4, <1>7, <1>8, <1>9, <1>10 DEF Request

LEMMA WorkerAnnounces == ASSUME DInv, DInv', NEW w \in Worker, WorkerStep(w) PROVE AnnounceStep
<1>1. IInv /\ IInv'
  BY DEF DInv, PInv
<1>2. pc[w] \in {"flushed", "undecided", "deliver"} => job[w].slug \in Slug
  BY DEF DInv, PInv, WorkersSound
<1>3. CASE \E federate \in BOOLEAN : PublishFlushed(w, federate)
  BY <1>1, <1>2, <1>3, PublishDraftEffect, ShowAnnounces DEF PublishFlushed, PublishRow
<1>4. CASE \E i \in Inbox, outcome \in Outcome : DeliverOne(w, i, outcome)
  BY <1>4, DeliverOneAnnounces
<1>5. CASE RecordNotShared(w) \/ RecordDelivery(w) \/ LoopRecord(w)
  <2>1. {NotShared, SharedOk, SharedError} \subseteq Federation
    BY DEF NotShared, SharedOk, SharedError, NoFederation, Federation
  <2>2. DeliveryResult(w) \in Federation /\ NotShared \in Federation
    BY <2>1 DEF DeliveryResult
  <2>3. CASE LoopRecord(w) /\ UNCHANGED storeVars
    BY <2>3, QuietSteps, QuietAnnounces DEF LoopRecord, history
  <2>4. QED
    BY <1>2, <1>5, <2>2, <2>3, RecordAnnounces
       DEF RecordNotShared, RecordDelivery, LoopRecord, history
<1>6. CASE \/ PublishRefused(w) \/ RecordFails(w) \/ LoopDone(w)
           \/ \E s \in Slug : LoopSkip(w, s) \/ LoopDeliver(w, s)
  <2>1. UNCHANGED storeVars /\ UNCHANGED <<everPublished, received>>
    BY <1>6 DEF PublishRefused, RecordFails, LoopDone, LoopSkip, LoopDeliver, history
  <2>2. QED
    BY <2>1, QuietSteps, QuietAnnounces
<1>7. QED
  BY <1>3, <1>4, <1>5, <1>6 DEF WorkerStep

\* What is shown, told and marked, by any number of requests over any number of posts
\* and followers, is shown, told and marked in the order Announcing allows.
THEOREM PublishingAnnounces == PublishingSpec => TellsWhatIsShown
<1>1. PublishingInit => Announce!AnnounceInit
  BY PostAtFacts
     DEF PublishingInit, Init, Announce!AnnounceInit, MarkedDelivered, PostAt, KeysOf
<1>2. DInv /\ DInv' /\ [PublishingNext]_vars => AnnounceStep
  <2> SUFFICES ASSUME DInv, DInv', [PublishingNext]_vars PROVE AnnounceStep
    OBVIOUS
  <2>1. IInv /\ IInv'
    BY DEF DInv, PInv
  <2>2. ASSUME NEW s \in Slug, Resolve(s)
        PROVE  AnnounceStep
    <3>1. CASE SetFederationRemoteURL(s)
      BY <2>1, <2>2, <3>1, RemoteURLEffect, OnePostAnnounces DEF Resolve, Reads, history
    <3>2. CASE UNCHANGED storeVars
      BY <2>2, <3>2, QuietSteps, QuietAnnounces DEF Resolve, history
    <3>3. QED
      BY <2>2, <3>1, <3>2 DEF Resolve
  <2>3. CASE Crash
    BY <2>3, QuietSteps, QuietAnnounces DEF Crash
  <2>4. CASE Boot
    BY <2>1, <2>4, StartKeepsPosts, QuietAnnounces DEF Boot, pubVars
  <2>5. CASE UNCHANGED vars
    BY <2>5, QuietSteps, QuietAnnounces DEF vars, pubVars
  <2>6. QED
    BY <2>2, <2>3, <2>4, <2>5, RequestAnnounces, WorkerAnnounces DEF PublishingNext
<1>3. QED
  BY <1>1, <1>2, DeliveryInvariant, PTL
     DEF PublishingSpec, TellsWhatIsShown, Announce!AnnounceSpec, AnnounceStep
=============================================================================
