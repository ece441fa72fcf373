--------------------------- MODULE ModerationProofs ---------------------------
(***************************************************************************)
(* Proofs about Moderation: for any number of requests, messages and       *)
(* actors, the indexes agree with the replies, threads hold, decisions     *)
(* stand, arrivals are justified and the migration is complete.            *)
(***************************************************************************)
EXTENDS Moderation, SequenceTheorems, TLAPS

USE NamesAssumption, MessageAssumption

\* The bucket and its indexes, well-formed and in agreement.
StoreOK ==
    /\ replies \in Seq(Reply)
    /\ byActivity \in [Id -> 0 .. Len(replies)]
    /\ byObject \in [Object -> 0 .. Len(replies)]
    /\ IndexesAgree
    /\ ThreadsHold

\* What a request is about to store would be in its thread already.
JobsInThread == \A w \in Worker : pc[w] # "idle" => InThread(job[w], DOMAIN replies)

\* The migration has stored or still holds every entry of its scan.
TodoLeft ==
    phase = "migrating" =>
        \A m \in Legacy : m.target \in existing => m \in todo \/ Stored(m.id)

\* A request's status is justified step by step.
GroundsHold ==
    \A w \in Worker : pc[w] # "idle" =>
        /\ job[w].verified
        /\ Facts(w) \subseteq grounds[w]
        /\ pc[w] = "classify" => \/ job[w].status = "pending"
                                 \/ job[w].status = "approved" /\ "open" \in grounds[w]
        /\ pc[w] = "save" => Justified(job[w].status, grounds[w])

MInv ==
    /\ TypeOK
    /\ StoreOK
    /\ JobsInThread
    /\ TodoLeft
    /\ GroundsHold

-----------------------------------------------------------------------------
\* Nothing stored is lost: what a step may do to the store.
Grows ==
    /\ Decisions
    /\ \A id \in Id : Stored(id) => byActivity'[id] # 0

\* Threads only gain from new replies.
LEMMA ThreadsGrow ==
    ASSUME StoreOK, Grows, NEW r, InThread(r, DOMAIN replies)
    PROVE  IF r.nested
           THEN \E j \in DOMAIN replies' : /\ replies'[j].object = r.target
                                           /\ replies'[j].slug = r.slug
                                           /\ replies'[j].actor = r.parentActor
           ELSE r.target = r.slug
<1>1. \A j \in DOMAIN replies : replies[j] \in Reply
  BY DEF StoreOK
<1>2. ASSUME NEW j \in DOMAIN replies
      PROVE  /\ j \in DOMAIN replies'
             /\ replies'[j].object = replies[j].object
             /\ replies'[j].slug = replies[j].slug
             /\ replies'[j].actor = replies[j].actor
  <2>1. replies'[j] = [replies[j] EXCEPT !.status = replies'[j].status] /\ j \in DOMAIN replies'
    BY DEF Grows, Decisions
  <2>2. replies[j] \in Reply
    BY <1>1
  <2>3. QED
    BY <2>1, <2>2 DEF Reply
<1>3. QED
  BY <1>2 DEF InThread

\* A new activity's reply goes to the end of the bucket, under both indexes.
LEMMA AppendKeeps ==
    ASSUME StoreOK, NEW r \in Reply, ~Stored(r.id), InThread(r, DOMAIN replies), AppendReply(r)
    PROVE  /\ StoreOK' /\ Grows
           /\ Len(replies') = Len(replies) + 1 /\ replies'[Len(replies) + 1] = r
           /\ byActivity'[r.id] # 0
<1> DEFINE n == Len(replies)
<1>1. /\ replies \in Seq(Reply) /\ n \in Nat /\ DOMAIN replies = 1 .. n
      /\ byActivity \in [Id -> 0 .. n] /\ byObject \in [Object -> 0 .. n]
      /\ r.id \in Id /\ r.object \in MaybeObject
  BY DEF StoreOK, Reply
<1>2. /\ replies' \in Seq(Reply) /\ Len(replies') = n + 1 /\ DOMAIN replies' = 1 .. n + 1
      /\ \A k \in 1 .. n : replies'[k] = replies[k]
      /\ replies'[n + 1] = r
  BY <1>1, AppendProperties DEF AppendReply
<1>3. /\ byActivity' = [byActivity EXCEPT ![r.id] = n + 1]
      /\ byObject' = IF r.object = None THEN byObject ELSE [byObject EXCEPT ![r.object] = n + 1]
  BY DEF AppendReply
<1>4. byActivity' \in [Id -> 0 .. n + 1] /\ byObject' \in [Object -> 0 .. n + 1]
  BY <1>1, <1>3 DEF MaybeObject
<1>5. IndexesAgree'
  <2>1. \A k \in DOMAIN replies : byActivity[replies[k].id] = k /\ replies[k].id # r.id
    BY <1>1 DEF StoreOK, IndexesAgree, Stored
  <2>2. \A k \in DOMAIN replies' : byActivity'[replies'[k].id] = k
    BY <1>1, <1>2, <1>3, <2>1 DEF Reply
  <2>3. \A id \in Id : byActivity'[id] # 0 => replies'[byActivity'[id]].id = id
    <3>1. \A id \in Id : byActivity[id] # 0 => replies[byActivity[id]].id = id
      BY DEF StoreOK, IndexesAgree, Stored
    <3>2. QED
      BY <1>1, <1>2, <1>3, <3>1
  <2>4. \A o \in Object : byObject'[o] # 0 => replies'[byObject'[o]].object = o
    <3>1. \A o \in Object : byObject[o] # 0 => replies[byObject[o]].object = o
      BY DEF StoreOK, IndexesAgree
    <3>2. QED
      BY <1>1, <1>2, <1>3, <3>1 DEF MaybeObject
  <2>5. \A k \in DOMAIN replies' : replies'[k].object # None => byObject'[replies'[k].object] # 0
    <3>1. \A k \in DOMAIN replies : replies[k].object # None => byObject[replies[k].object] # 0
      BY DEF StoreOK, IndexesAgree
    <3>2. \A k \in DOMAIN replies' : replies'[k].object \in MaybeObject
      <4>1. \A k \in DOMAIN replies' : replies'[k] \in Reply
        BY <1>2
      <4>2. QED
        BY <4>1 DEF Reply
    <3>3. QED
      BY <1>1, <1>2, <1>3, <3>1, <3>2 DEF MaybeObject
  <2>6. QED
    BY <2>2, <2>3, <2>4, <2>5 DEF IndexesAgree, Stored
<1>6. Grows
  <2>1. Decisions
    <3>1. ASSUME NEW k \in DOMAIN replies
          PROVE  /\ k \in DOMAIN replies' /\ replies'[k] = replies[k]
                 /\ replies'[k] = [replies[k] EXCEPT !.status = replies'[k].status]
      <4>1. k \in DOMAIN replies' /\ replies'[k] = replies[k] /\ replies[k] \in Reply
        BY <1>1, <1>2
      <4>2. QED
        BY <4>1 DEF Reply
    <3>2. QED
      BY <3>1 DEF Decisions
  <2>2. QED
    BY <1>1, <1>3, <2>1 DEF Grows, Stored
<1>7. ThreadsHold'
  <2>1. \A k \in 1 .. n : InThread(replies[k], 1 .. k - 1)
    BY <1>1 DEF StoreOK, ThreadsHold
  <2>2. ASSUME NEW k \in 1 .. n + 1
        PROVE  IF replies'[k].nested
               THEN \E j \in 1 .. k - 1 : /\ replies'[j].object = replies'[k].target
                                          /\ replies'[j].slug = replies'[k].slug
                                          /\ replies'[j].actor = replies'[k].parentActor
               ELSE replies'[k].target = replies'[k].slug
    <3>1. CASE k = n + 1
      BY <1>1, <1>2, <3>1 DEF InThread
    <3>2. CASE k \in 1 .. n
      <4>1. replies'[k] = replies[k] /\ InThread(replies[k], 1 .. k - 1)
        BY <1>2, <2>1, <3>2
      <4>2. \A j \in 1 .. k - 1 : replies'[j] = replies[j]
        BY <1>1, <1>2, <3>2
      <4>3. QED
        BY <4>1, <4>2 DEF InThread
    <3>3. QED
      BY <1>1, <3>1, <3>2
  <2>3. QED
    BY <1>2, <2>2 DEF ThreadsHold, InThread
<1>8. QED
  BY <1>1, <1>2, <1>3, <1>4, <1>5, <1>6, <1>7 DEF StoreOK

\* A decision touches nothing but a status.
LEMMA StatusKeeps ==
    ASSUME StoreOK, NEW key \in DOMAIN replies, NEW status \in Status,
           ValidTransition(replies[key].status, status),
           replies' = [replies EXCEPT ![key].status = status],
           UNCHANGED <<byActivity, byObject>>
    PROVE  StoreOK' /\ Grows /\ Len(replies') = Len(replies)
<1> DEFINE n == Len(replies)
           r == [replies[key] EXCEPT !.status = status]
<1>1. /\ replies \in Seq(Reply) /\ n \in Nat /\ DOMAIN replies = 1 .. n
      /\ \A k \in 1 .. n : replies[k] \in Reply
  BY DEF StoreOK
<1>2. r \in Reply
  BY <1>1 DEF Reply
<1>3. /\ replies' \in Seq(Reply) /\ Len(replies') = n /\ DOMAIN replies' = 1 .. n
      /\ \A k \in 1 .. n : replies'[k] = IF k = key THEN r ELSE replies[k]
  <2>1. replies' = [replies EXCEPT ![key] = r]
    OBVIOUS
  <2>2. QED
    BY <1>1, <1>2, <2>1, ExceptSeq
<1>4. ASSUME NEW k \in 1 .. n
      PROVE  /\ replies'[k].id = replies[k].id /\ replies'[k].slug = replies[k].slug
             /\ replies'[k].object = replies[k].object /\ replies'[k].target = replies[k].target
             /\ replies'[k].actor = replies[k].actor /\ replies'[k].nested = replies[k].nested
             /\ replies'[k].parentActor = replies[k].parentActor
             /\ replies'[k] = [replies[k] EXCEPT !.status = replies'[k].status]
  <2>1. CASE k = key
    BY <1>1, <1>3, <2>1 DEF Reply
  <2>2. CASE k # key
    BY <1>1, <1>3, <2>2 DEF Reply
  <2>3. QED
    BY <2>1, <2>2
<1>5. IndexesAgree'
  BY <1>1, <1>3, <1>4 DEF StoreOK, IndexesAgree, Stored
<1>6. ThreadsHold'
  <2>1. \A k \in 1 .. n : InThread(replies[k], 1 .. k - 1)
    BY <1>1 DEF StoreOK, ThreadsHold
  <2>2. QED
    BY <1>1, <1>3, <1>4, <2>1 DEF ThreadsHold, InThread
<1>7. Decisions
  <2>1. \A k \in 1 .. n : \/ replies'[k].status = replies[k].status
                          \/ ValidTransition(replies[k].status, replies'[k].status)
    BY <1>1, <1>3 DEF Reply
  <2>2. QED
    BY <1>1, <1>3, <1>4, <2>1 DEF Decisions
<1>8. QED
  BY <1>3, <1>5, <1>6, <1>7 DEF StoreOK, Grows, Stored

\* A step that leaves the store alone.
LEMMA QuietKeeps ==
    ASSUME StoreOK, UNCHANGED store
    PROVE  StoreOK' /\ Grows /\ Len(replies') = Len(replies)
<1>1. Decisions
  <2>1. \A k \in DOMAIN replies : replies[k] \in Reply
    BY DEF StoreOK
  <2>2. \A k \in DOMAIN replies : replies[k] = [replies[k] EXCEPT !.status = replies[k].status]
    BY <2>1 DEF Reply
  <2>3. QED
    BY <2>2 DEF Decisions, store
<1>2. QED
  BY <1>1 DEF StoreOK, Grows, IndexesAgree, ThreadsHold, InThread, Stored, store

-----------------------------------------------------------------------------
\* Ids made up are ids.
LEMMA IdForType == ASSUME NEW m \in Message, NEW id \in IdFor(m) PROVE id \in Id
BY DEF IdFor, Id

\* A migrated entry is a reply to the post it names.
LEMMA MigratedType ==
    ASSUME NEW m \in Legacy
    PROVE  /\ Migrated(m) \in Reply /\ Migrated(m).id = m.id /\ m.id \in Id
           /\ Migrated(m).status = "pending" /\ Migrated(m).verified = FALSE
           /\ Migrated(m).nested = FALSE /\ Migrated(m).target = Migrated(m).slug
<1>1. /\ m.target \in Slug /\ m.id \in Id /\ m.object \in MaybeObject /\ m.actor \in Actor
  BY DEF Id
<1>2. QED
  BY <1>1 DEF Migrated, Built, Reply, Status

\* The kinds of steps the system takes.
AdminStep ==
    /\ Admin
    /\ UNCHANGED <<boot, pc, job>>
    /\ trusted' \subseteq Actor /\ blocked' \subseteq Actor /\ moderated' \in BOOLEAN

StartupStep == Startup /\ UNCHANGED <<settings, pc, job>>

LEMMA MoveKinds ==
    ASSUME MInv, Move
    PROVE  \/ \E w \in Worker, r \in Reply :
                 Arrives(w, r) /\ r.verified /\ r # NoReply /\ InThread(r, DOMAIN replies)
           \/ \E w \in Worker : ReadSetting(w) \/ Classify(w)
           \/ \E w \in Worker : Save(w)
           \/ AdminStep
           \/ StartupStep
           \/ Crash
<1>1. ASSUME NEW w \in Worker, NEW m \in Message, ReceiveDirect(w, m)
      PROVE  \E r \in Reply : Arrives(w, r) /\ r.verified /\ r # NoReply /\ InThread(r, DOMAIN replies)
  <2>1. PICK id \in IdFor(m) : Arrives(w, Built(m, id, m.target, FALSE, None))
    BY <1>1 DEF ReceiveDirect
  <2>2. m.target \in Slug /\ id \in Id
    BY <1>1, <2>1, IdForType DEF ReceiveDirect
  <2> DEFINE r == Built(m, id, m.target, FALSE, None)
  <2>3. /\ r \in Reply /\ r # NoReply /\ r.verified = TRUE /\ r.nested = FALSE
        /\ r.target = m.target /\ r.slug = m.target
    <3>1. m.object \in MaybeObject /\ m.actor \in Actor
      OBVIOUS
    <3>2. r \in Reply
      BY <2>2, <3>1 DEF Built, Reply, Status
    <3>3. r.id = id /\ NoReply.id = None /\ id # None
      BY <2>2 DEF Built, NoReply
    <3>4. QED
      BY <3>2, <3>3 DEF Built
  <2>4. InThread(r, DOMAIN replies)
    BY <2>3 DEF InThread
  <2>5. QED
    BY <2>1, <2>3, <2>4
<1>2. ASSUME NEW w \in Worker, NEW m \in Message, ReceiveNested(w, m)
      PROVE  \E r \in Reply : Arrives(w, r) /\ r.verified /\ r # NoReply /\ InThread(r, DOMAIN replies)
  <2> DEFINE key == byObject[m.target]
             parent == replies[key]
  <2>1. PICK id \in IdFor(m) : Arrives(w, Built(m, id, parent.slug, TRUE, parent.actor))
    BY <1>2 DEF ReceiveNested
  <2>2. m.target \in Object /\ key # 0 /\ id \in Id
    BY <1>2, <2>1, IdForType DEF ReceiveNested
  <2>3. /\ replies \in Seq(Reply) /\ key \in 0 .. Len(replies)
        /\ parent.object = m.target
    BY <2>2 DEF MInv, StoreOK, IndexesAgree
  <2>4. key \in DOMAIN replies /\ parent \in Reply
    BY <2>2, <2>3
  <2>5. parent.slug \in Slug /\ parent.actor \in Actor
    BY <2>4 DEF Reply
  <2> DEFINE r == Built(m, id, parent.slug, TRUE, parent.actor)
  <2>6. /\ r \in Reply /\ r # NoReply /\ r.verified = TRUE /\ r.nested = TRUE
        /\ r.target = m.target
        /\ r.slug = parent.slug /\ r.parentActor = parent.actor
    <3>1. m.object \in MaybeObject /\ m.actor \in Actor
      OBVIOUS
    <3>2. r \in Reply
      BY <2>2, <2>5, <3>1 DEF Built, Reply, Status
    <3>3. r.id = id /\ NoReply.id = None /\ id # None
      BY <2>2 DEF Built, NoReply
    <3>4. QED
      BY <3>2, <3>3 DEF Built
  <2>7. InThread(r, DOMAIN replies)
    BY <2>3, <2>4, <2>6 DEF InThread
  <2>8. QED
    BY <2>1, <2>6, <2>7
<1>3. Admin => AdminStep
  <2>1. trusted \subseteq Actor /\ blocked \subseteq Actor /\ moderated \in BOOLEAN
    BY DEF MInv, TypeOK
  <2>2. ASSUME NEW key \in DOMAIN replies, NEW status \in Status, SetReplyStatus(key, status)
        PROVE  AdminStep
    BY <2>1, <2>2 DEF AdminStep, Admin, SetReplyStatus, settings
  <2>3. ASSUME NEW a \in Listed, AddTrusted(a) \/ RemoveTrusted(a) \/ AddBlocked(a) \/ RemoveBlocked(a)
        PROVE  AdminStep
    BY <2>1, <2>3 DEF AdminStep, Admin, AddTrusted, RemoveTrusted, AddBlocked, RemoveBlocked, SetList
  <2>4. ASSUME ToggleModeration PROVE AdminStep
    BY <2>1, <2>4 DEF AdminStep, Admin, ToggleModeration
  <2>5. QED
    BY <2>2, <2>3, <2>4 DEF Admin
<1>4. Startup => StartupStep
  BY DEF Startup, StartupStep, BootMigrated, Scan, MigrateOne, SetBackfillMarker, MigrationFails, Serve
<1>5. QED
  BY <1>1, <1>2, <1>3, <1>4 DEF Move, Ingest

-----------------------------------------------------------------------------
\* Whatever a step does to the store keeps it sound, undoes no decision, and what
\* it adds arrives justified.
LEMMA StoreStep ==
    ASSUME MInv, Move
    PROVE  StoreOK' /\ Grows /\ Arrival
<1>1. StoreOK /\ Len(replies) \in Nat
  BY DEF MInv, StoreOK
<1>2. ASSUME UNCHANGED store PROVE StoreOK' /\ Grows /\ Arrival
  BY <1>1, <1>2, QuietKeeps DEF Arrival
<1>3. ASSUME NEW w \in Worker, Save(w), ~Stored(job[w].id), AppendReply(job[w])
      PROVE  StoreOK' /\ Grows /\ Arrival
  <2>1. pc[w] = "save" /\ pc[w] # "idle"
    BY <1>3 DEF Save
  <2>2. job[w] \in Reply /\ InThread(job[w], DOMAIN replies)
    BY <2>1 DEF MInv, TypeOK, JobsInThread
  <2>3. job[w].verified /\ Justified(job[w].status, grounds[w])
    BY <2>1 DEF MInv, GroundsHold
  <2>4. StoreOK' /\ Grows /\ Len(replies') = Len(replies) + 1 /\ replies'[Len(replies) + 1] = job[w]
    BY <1>1, <1>3, <2>2, AppendKeeps
  <2>5. QED
    BY <2>1, <2>3, <2>4 DEF Arrival
<1>4. ASSUME NEW m \in Legacy, ~Stored(m.id), AppendReply(Migrated(m))
      PROVE  StoreOK' /\ Grows /\ Arrival
  <2>1. InThread(Migrated(m), DOMAIN replies)
    BY MigratedType DEF InThread
  <2>2. /\ StoreOK' /\ Grows /\ Len(replies') = Len(replies) + 1
        /\ replies'[Len(replies) + 1] = Migrated(m)
    BY <1>1, <1>4, <2>1, MigratedType, AppendKeeps
  <2>3. QED
    BY <2>2, MigratedType DEF Arrival
<1>5. ASSUME NEW key \in DOMAIN replies, NEW status \in Status, SetReplyStatus(key, status)
      PROVE  StoreOK' /\ Grows /\ Arrival
  <2>1. StoreOK' /\ Grows /\ Len(replies') = Len(replies)
    BY <1>1, <1>5, StatusKeeps DEF SetReplyStatus
  <2>2. QED
    BY <1>1, <2>1 DEF Arrival
<1>6. ASSUME NEW w \in Worker, Save(w) PROVE StoreOK' /\ Grows /\ Arrival
  BY <1>2, <1>3, <1>6 DEF Save, SaveReply
<1>7. ASSUME NEW m \in todo, MigrateOne(m) PROVE StoreOK' /\ Grows /\ Arrival
  <2>1. m \in Legacy /\ Migrated(m).id = m.id
    BY MigratedType DEF MInv, TypeOK
  <2>2. QED
    BY <1>2, <1>4, <1>7, <2>1 DEF MigrateOne, SaveReply
<1>8. Startup => StoreOK' /\ Grows /\ Arrival
  BY <1>2, <1>7 DEF Startup, BootMigrated, Scan, SetBackfillMarker, MigrationFails, Serve
<1>9. Admin => StoreOK' /\ Grows /\ Arrival
  BY <1>2, <1>5 DEF Admin, AddTrusted, RemoveTrusted, AddBlocked, RemoveBlocked, SetList, ToggleModeration
<1>10. \A w \in Worker : Ingest(w) => StoreOK' /\ Grows /\ Arrival
  BY <1>2, <1>6 DEF Ingest, ReceiveDirect, ReceiveNested, Arrives, ReadSetting, Classify, Step
<1>11. QED
  BY <1>2, <1>8, <1>9, <1>10 DEF Move, Crash

\* Requests stay well-formed and their replies in their threads.
LEMMA WorkersStep ==
    ASSUME MInv, Move
    PROVE  /\ pc' \in [Worker -> {"idle", "settings", "classify", "save"}]
           /\ job' \in [Worker -> Reply \union {NoReply}]
           /\ \A w \in Worker : pc'[w] = "idle" <=> job'[w] = NoReply
           /\ JobsInThread'
<1> DEFINE OK == /\ pc' \in [Worker -> {"idle", "settings", "classify", "save"}]
                 /\ job' \in [Worker -> Reply \union {NoReply}]
                 /\ \A w \in Worker : pc'[w] = "idle" <=> job'[w] = NoReply
           Kept(w) == pc'[w] # "idle" => InThread(job'[w], DOMAIN replies)
<1>1. /\ pc \in [Worker -> {"idle", "settings", "classify", "save"}]
      /\ job \in [Worker -> Reply \union {NoReply}]
      /\ \A w \in Worker : pc[w] = "idle" <=> job[w] = NoReply
      /\ \A w \in Worker : pc[w] # "idle" => InThread(job[w], DOMAIN replies)
  BY DEF MInv, TypeOK, JobsInThread
<1>2. OK /\ \A w \in Worker : Kept(w)
  <2>1. ASSUME NEW w \in Worker, NEW r \in Reply,
               Arrives(w, r), r # NoReply, InThread(r, DOMAIN replies)
        PROVE  OK /\ \A v \in Worker : Kept(v)
    BY <1>1, <2>1 DEF Arrives
  <2>2. ASSUME NEW w \in Worker, NEW from, NEW to \in {"classify", "save"}, NEW status \in Status,
               from # "idle", Step(w, from, to, status)
        PROVE  OK /\ \A v \in Worker : Kept(v)
    <3>1. /\ pc[w] # "idle" /\ pc' = [pc EXCEPT ![w] = to]
          /\ job' = [job EXCEPT ![w] = [job[w] EXCEPT !.status = status]]
      BY <2>2 DEF Step
    <3>2. job[w] \in Reply /\ InThread(job[w], DOMAIN replies)
      BY <1>1, <3>1
    <3> DEFINE r == [job[w] EXCEPT !.status = status]
    <3>3. /\ r \in Reply /\ r.id \in Id /\ r.nested = job[w].nested /\ r.target = job[w].target
          /\ r.slug = job[w].slug /\ r.parentActor = job[w].parentActor
      BY <3>2 DEF Reply
    <3>4. r # NoReply
      BY <3>3 DEF NoReply
    <3>5. InThread(r, DOMAIN replies)
      BY <3>2, <3>3 DEF InThread
    <3>6. QED
      BY <1>1, <3>1, <3>3, <3>4, <3>5
  <2>3. ASSUME NEW w \in Worker, ReadSetting(w) \/ Classify(w)
        PROVE  OK /\ \A v \in Worker : Kept(v)
    <3>1. pc[w] # "idle"
      BY <2>3 DEF ReadSetting, Classify, Step
    <3>2. job[w].status \in Status
      BY <1>1, <3>1 DEF Reply
    <3>3. QED
      BY <2>2, <2>3, <3>2 DEF ReadSetting, Classify, Status
  <2>4. ASSUME NEW w \in Worker, Save(w) PROVE OK /\ \A v \in Worker : Kept(v)
    BY <1>1, <2>4 DEF Save
  <2>5. ASSUME UNCHANGED <<pc, job>> PROVE OK /\ \A v \in Worker : Kept(v)
    BY <1>1, <2>5
  <2>6. ASSUME Crash PROVE OK /\ \A v \in Worker : Kept(v)
    BY <1>1, <2>6 DEF Crash
  <2>7. QED
    BY <2>1, <2>3, <2>4, <2>5, <2>6, MoveKinds DEF AdminStep, StartupStep
<1>3. JobsInThread'
  <2>1. StoreOK /\ Grows
    BY StoreStep DEF MInv
  <2>2. QED
    BY <1>2, <2>1, ThreadsGrow DEF JobsInThread, InThread
<1>4. QED
  BY <1>2, <1>3

\* The rest of the state stays well-formed, and the migration loses no entry.
LEMMA RestStep ==
    ASSUME MInv, Move
    PROVE  /\ trusted' \subseteq Actor /\ blocked' \subseteq Actor /\ moderated' \in BOOLEAN
           /\ migrated' \in BOOLEAN /\ phase' \in {"down", "migrating", "serving"}
           /\ existing' \subseteq Slug /\ todo' \subseteq Legacy
           /\ TodoLeft' /\ Completion
<1>1. /\ trusted \subseteq Actor /\ blocked \subseteq Actor /\ moderated \in BOOLEAN
      /\ migrated \in BOOLEAN /\ phase \in {"down", "migrating", "serving"}
      /\ existing \subseteq Slug /\ todo \subseteq Legacy
      /\ TodoLeft
  BY DEF MInv, TypeOK
<1>2. \A m \in Legacy : Stored(m.id) => byActivity'[m.id] # 0
  BY StoreStep, MigratedType DEF Grows
<1> DEFINE BootOK == /\ migrated' \in BOOLEAN /\ phase' \in {"down", "migrating", "serving"}
                     /\ existing' \subseteq Slug /\ todo' \subseteq Legacy
                     /\ TodoLeft' /\ Completion
<1>3. ASSUME UNCHANGED boot PROVE BootOK
  BY <1>1, <1>2, <1>3 DEF boot, TodoLeft, Completion, Stored
<1>4. ASSUME phase' # "migrating", migrated' = migrated, phase' \in {"down", "serving"},
             existing' \subseteq existing, todo' \subseteq todo
      PROVE  BootOK
  BY <1>1, <1>4 DEF TodoLeft, Completion
<1>5. Startup => BootOK
  <2>1. BootMigrated => BootOK
    BY <1>4 DEF BootMigrated
  <2>2. ASSUME NEW known \in SUBSET Slug, Scan(known) PROVE BootOK
    BY <1>1, <2>2 DEF Scan, TodoLeft, Completion
  <2>3. ASSUME NEW m \in todo, MigrateOne(m) PROVE BootOK
    <3>1. m \in Legacy /\ m.id \in Id /\ Migrated(m).id = m.id
      BY <1>1, MigratedType
    <3>2. byActivity'[m.id] # 0
      <4>1. CASE Stored(m.id)
        BY <1>2, <3>1, <4>1
      <4>2. CASE ~Stored(m.id)
        <5>1. AppendReply(Migrated(m))
          BY <2>3, <3>1, <4>2 DEF MigrateOne, SaveReply
        <5>2. InThread(Migrated(m), DOMAIN replies)
          BY <3>1, MigratedType DEF InThread
        <5>3. QED
          BY <3>1, <4>2, <5>1, <5>2, MigratedType, AppendKeeps DEF MInv
      <4>3. QED
        BY <4>1, <4>2
    <3>3. QED
      BY <1>1, <1>2, <2>3, <3>2 DEF MigrateOne, TodoLeft, Completion, Stored
  <2>4. SetBackfillMarker => BootOK
    BY <1>1 DEF SetBackfillMarker, Serve, TodoLeft, Completion
  <2>5. MigrationFails => BootOK
    BY <1>1 DEF MigrationFails, Serve, TodoLeft, Completion
  <2>6. QED
    BY <2>1, <2>2, <2>3, <2>4, <2>5 DEF Startup
<1>6. Crash => BootOK
  BY <1>4 DEF Crash
<1>7. BootOK
  BY <1>3, <1>5, <1>6, MoveKinds
     DEF Arrives, ReadSetting, Classify, Step, Save, AdminStep, StartupStep
<1>8. trusted' \subseteq Actor /\ blocked' \subseteq Actor /\ moderated' \in BOOLEAN
  BY <1>1, MoveKinds
     DEF Arrives, ReadSetting, Classify, Step, Save, AdminStep, StartupStep, Crash, settings
<1>9. QED
  BY <1>7, <1>8
-----------------------------------------------------------------------------
\* Facts do not go away, so what justified a status still does.
LEMMA JustifiedGrows ==
    ASSUME NEW status, NEW facts, NEW more, facts \subseteq more, Justified(status, facts)
    PROVE  Justified(status, more)
BY DEF Justified

\* The justification of a request's status is kept through the admin's changes.
LEMMA GroundsStep ==
    ASSUME MInv, Next
    PROVE  GroundsHold'
<1> DEFINE now(w) == {IF moderated' THEN "gated" ELSE "open",
                      IF job'[w].actor \in trusted' THEN "trusted" ELSE "untrusted",
                      IF job'[w].actor \in blocked' THEN "blocked" ELSE "unblocked"}
           Fine(w) ==
               /\ job'[w].verified
               /\ pc'[w] = "classify" => \/ job'[w].status = "pending"
                                         \/ job'[w].status = "approved" /\ "open" \in grounds'[w]
               /\ pc'[w] = "save" => Justified(job'[w].status, grounds'[w])
<1>1. Move /\ Observe
  BY DEF Next
<1>2. /\ pc \in [Worker -> {"idle", "settings", "classify", "save"}]
      /\ job \in [Worker -> Reply \union {NoReply}]
      /\ \A w \in Worker : pc[w] = "idle" <=> job[w] = NoReply
  BY DEF MInv, TypeOK
<1>3. \A w \in Worker : pc'[w] # "idle" => grounds'[w] = grounds[w] \union now(w)
  BY <1>1 DEF Observe, Facts
<1>4. ASSUME NEW w \in Worker, pc[w] # "idle"
      PROVE  /\ job[w].verified
             /\ pc[w] = "classify" => \/ job[w].status = "pending"
                                      \/ job[w].status = "approved" /\ "open" \in grounds[w]
             /\ pc[w] = "save" => Justified(job[w].status, grounds[w])
  BY <1>4 DEF MInv, GroundsHold
<1>5. ASSUME NEW w \in Worker, pc'[w] # "idle", pc'[w] = pc[w], job'[w] = job[w]
      PROVE  Fine(w)
  <2>1. grounds[w] \subseteq grounds'[w]
    BY <1>3, <1>5
  <2>2. QED
    BY <1>4, <1>5, <2>1, JustifiedGrows
<1>6. ASSUME NEW w \in Worker, NEW r \in Reply, Arrives(w, r), r.verified,
             NEW v \in Worker, pc'[v] # "idle"
      PROVE  Fine(v)
  BY <1>2, <1>5, <1>6 DEF Arrives
<1>7. ASSUME NEW w \in Worker, ReadSetting(w), NEW v \in Worker, pc'[v] # "idle"
      PROVE  Fine(v)
  <2>1. CASE v # w
    BY <1>2, <1>5, <1>7, <2>1 DEF ReadSetting, Step
  <2>2. CASE v = w
    <3> PICK gated \in {moderated, TRUE} :
             Step(w, "settings", "classify", IF gated THEN "pending" ELSE "approved")
      BY <1>7 DEF ReadSetting
    <3> DEFINE status == IF gated THEN "pending" ELSE "approved"
    <3>1. /\ pc[w] = "settings" /\ pc'[w] = "classify" /\ moderated' = moderated
          /\ job'[w] = [job[w] EXCEPT !.status = status]
      BY <1>2 DEF Step, settings
    <3>2. job[w] \in Reply /\ job[w].verified
      BY <1>2, <1>4, <3>1
    <3>3. job'[w].verified /\ job'[w].status = status
      BY <3>1, <3>2 DEF Reply
    <3>4. moderated = FALSE => "open" \in grounds'[w]
      BY <1>3, <3>1
    <3>5. \/ status = "pending"
          \/ status = "approved" /\ moderated = FALSE
      BY DEF MInv, TypeOK
    <3>6. QED
      BY <2>2, <3>1, <3>3, <3>4, <3>5
  <2>3. QED
    BY <2>1, <2>2
<1>8. ASSUME NEW w \in Worker, Classify(w), NEW v \in Worker, pc'[v] # "idle"
      PROVE  Fine(v)
  <2>1. CASE v # w
    BY <1>2, <1>5, <1>8, <2>1 DEF Classify, Step
  <2>2. CASE v = w
    <3> DEFINE verdict == IF job[w].actor \in blocked THEN "rejected"
                          ELSE IF job[w].actor \in trusted THEN "approved" ELSE job[w].status
    <3>1. /\ pc[w] = "classify" /\ pc'[w] = "save"
          /\ moderated' = moderated /\ trusted' = trusted /\ blocked' = blocked
          /\ job'[w] = [job[w] EXCEPT !.status = verdict]
      BY <1>2, <1>8 DEF Classify, Step, settings
    <3>2. job[w] \in Reply /\ job[w].verified
      BY <1>2, <1>4, <3>1
    <3>3. job'[w].verified /\ job'[w].status = verdict /\ job'[w].actor = job[w].actor
      BY <3>1, <3>2 DEF Reply
    <3>4. /\ IF job[w].actor \in blocked THEN "blocked" \in grounds'[w] ELSE "unblocked" \in grounds'[w]
          /\ IF job[w].actor \in trusted THEN "trusted" \in grounds'[w] ELSE "untrusted" \in grounds'[w]
          /\ grounds[w] \subseteq grounds'[w]
      BY <1>3, <3>1, <3>3
    <3>5. \/ job[w].status = "pending"
          \/ job[w].status = "approved" /\ "open" \in grounds'[w]
      BY <1>4, <3>1, <3>4
    <3>6. Justified(verdict, grounds'[w])
      BY <3>4, <3>5 DEF Justified
    <3>7. QED
      BY <2>2, <3>1, <3>3, <3>6
  <2>3. QED
    BY <2>1, <2>2
<1>9. ASSUME NEW w \in Worker, Save(w), NEW v \in Worker, pc'[v] # "idle"
      PROVE  Fine(v)
  BY <1>2, <1>5, <1>9 DEF Save
<1>10. ASSUME UNCHANGED <<pc, job>>, NEW v \in Worker, pc'[v] # "idle"
       PROVE  Fine(v)
  BY <1>5, <1>10
<1>11. ASSUME Crash, NEW v \in Worker, pc'[v] # "idle"
       PROVE  Fine(v)
  BY <1>11 DEF Crash
<1>12. ASSUME NEW v \in Worker, pc'[v] # "idle" PROVE Fine(v)
  BY <1>1, <1>6, <1>7, <1>8, <1>9, <1>10, <1>11, <1>12, MoveKinds DEF AdminStep, StartupStep
<1>13. QED
  BY <1>3, <1>12 DEF GroundsHold, Facts

-----------------------------------------------------------------------------
\* The empty store and the stopped server satisfy the invariant.
LEMMA InitMInv == Init => MInv
<1> SUFFICES ASSUME Init PROVE MInv
  OBVIOUS
<1>1. replies = <<>> /\ Len(replies) = 0 /\ DOMAIN replies = {} /\ replies \in Seq(Reply)
  BY EmptySeq DEF Init
<1>2. TypeOK
  <2>1. byActivity \in [Id -> 0 .. Len(replies)] /\ byObject \in [Object -> 0 .. Len(replies)]
    BY <1>1 DEF Init
  <2>2. /\ pc \in [Worker -> {"idle", "settings", "classify", "save"}]
        /\ job \in [Worker -> Reply \union {NoReply}]
        /\ \A w \in Worker : pc[w] = "idle" <=> job[w] = NoReply
    BY DEF Init
  <2>3. QED
    BY <1>1, <2>1, <2>2 DEF Init, TypeOK
<1>3. StoreOK
  BY <1>1, <1>2 DEF Init, TypeOK, StoreOK, IndexesAgree, ThreadsHold, Stored
<1>4. JobsInThread /\ TodoLeft /\ GroundsHold
  BY DEF Init, JobsInThread, TodoLeft, GroundsHold
<1>5. QED
  BY <1>2, <1>3, <1>4 DEF MInv

\* Every step keeps the invariant and does what the action properties say.
LEMMA NextMInv ==
    ASSUME MInv, [Next]_vars
    PROVE  MInv' /\ [Decisions]_vars /\ [Arrival]_vars /\ [Completion]_vars
<1>1. CASE Next
  <2>1. Move
    BY <1>1 DEF Next
  <2>2. StoreOK' /\ Decisions /\ Arrival
    BY <2>1, StoreStep DEF Grows
  <2>3. TodoLeft' /\ Completion
    BY <2>1, RestStep
  <2>4. JobsInThread'
    BY <2>1, WorkersStep
  <2>5. TypeOK'
    BY <2>1, <2>2, RestStep, WorkersStep DEF TypeOK, StoreOK
  <2>6. GroundsHold'
    BY <1>1, GroundsStep
  <2>7. QED
    BY <2>2, <2>3, <2>4, <2>5, <2>6 DEF MInv
<1>2. CASE UNCHANGED vars
  <2>1. UNCHANGED store
    BY <1>2 DEF vars
  <2>2. StoreOK'
    BY <2>1, QuietKeeps DEF MInv
  <2>3. TypeOK'
    BY <1>2 DEF MInv, TypeOK, vars, store, settings, boot
  <2>4. JobsInThread'
    BY <1>2 DEF MInv, JobsInThread, InThread, vars, store
  <2>5. TodoLeft'
    BY <1>2 DEF MInv, TodoLeft, Stored, vars, store, boot
  <2>6. GroundsHold'
    BY <1>2 DEF MInv, GroundsHold, Facts, vars, settings
  <2>7. QED
    BY <1>2, <2>2, <2>3, <2>4, <2>5, <2>6 DEF MInv
<1>3. QED
  BY <1>1, <1>2

\* The invariant the other theorems rest on.
THEOREM MInvariant == Spec => []MInv
<1>1. MInv /\ [Next]_vars => MInv'
  BY NextMInv
<1>2. QED
  BY <1>1, InitMInv, PTL DEF Spec

\* Types: the buckets, the settings and the requests stay well-formed.
THEOREM ModerationTypeCorrect == Spec => []TypeOK
<1>1. MInv => TypeOK
  BY DEF MInv
<1>2. QED
  BY <1>1, MInvariant, PTL

\* One activity, one reply: both indexes agree with the bucket (saveReplyWithOrdering).
THEOREM IndexesCorrect == Spec => []IndexesAgree
<1>1. MInv => IndexesAgree
  BY DEF MInv, StoreOK
<1>2. QED
  BY <1>1, MInvariant, PTL

\* A nested reply stays under an earlier reply of the same post (handleCreate).
THEOREM ThreadsCorrect == Spec => []ThreadsHold
<1>1. MInv => ThreadsHold
  BY DEF MInv, StoreOK
<1>2. QED
  BY <1>1, MInvariant, PTL

\* Only the admin changes a stored reply, only its status, and only by a valid
\* transition (SetReplyStatus, validStatusTransition).
THEOREM DecisionsCorrect == Spec => DecisionsStand
<1>1. MInv /\ [Next]_vars => [Decisions]_vars
  BY NextMInv
<1>2. QED
  BY <1>1, MInvariant, PTL DEF Spec, DecisionsStand

\* Replies arrive with a status that the settings gave a reason for while they came
\* in (handleCreate), migrated ones pending (RunBackfillOnce).
THEOREM ArrivalsCorrect == Spec => ArrivalsJustified
<1>1. MInv /\ [Next]_vars => [Arrival]_vars
  BY NextMInv
<1>2. QED
  BY <1>1, MInvariant, PTL DEF Spec, ArrivalsJustified

\* The marker is set only when no old reply is left behind (RunBackfillOnce).
THEOREM MigrationCorrect == Spec => MigrationComplete
<1>1. MInv /\ [Next]_vars => [Completion]_vars
  BY NextMInv
<1>2. QED
  BY <1>1, MInvariant, PTL DEF Spec, MigrationComplete

-----------------------------------------------------------------------------
(* The refinement of Conversation. *)
ConversationStep == [Talk!ConversationNext]_ReplyOf

\* A stored activity leads to its own reply, whose parent's activity is stored too.
LEMMA ReplyOfFacts ==
    ASSUME StoreOK
    PROVE  /\ \A id \in Id : Stored(id) => ReplyOf[id] \in Reply /\ ReplyOf[id].id = id /\ ReplyOf[id] # NoReply
           /\ \A id \in Id : ~Stored(id) => ReplyOf[id] = NoReply
           /\ \A k \in DOMAIN replies :
                 replies[k].id \in Id /\ Stored(replies[k].id) /\ ReplyOf[replies[k].id] = replies[k]
<1>1. /\ replies \in Seq(Reply) /\ byActivity \in [Id -> 0 .. Len(replies)]
      /\ \A k \in DOMAIN replies : byActivity[replies[k].id] = k
      /\ \A id \in Id : byActivity[id] # 0 => replies[byActivity[id]].id = id
  BY DEF StoreOK, IndexesAgree, Stored
<1>2. DOMAIN replies = 1 .. Len(replies) /\ \A k \in DOMAIN replies : replies[k] \in Reply
  BY <1>1
<1>3. \A r \in Reply : r.id \in Id /\ r # NoReply
  BY DEF Reply, NoReply
<1>4. QED
  BY <1>1, <1>2, <1>3 DEF ReplyOf, Stored

\* What is in its thread fits the conversation.
LEMMA ThreadFits ==
    ASSUME StoreOK, NEW r, InThread(r, DOMAIN replies)
    PROVE  Talk!Fits(r)
<1>1. CASE r.nested
  <2>1. PICK j \in DOMAIN replies : /\ replies[j].object = r.target
                                   /\ replies[j].slug = r.slug /\ replies[j].actor = r.parentActor
    BY <1>1 DEF InThread
  <2>2. /\ replies[j].id \in Id /\ ReplyOf[replies[j].id] = replies[j]
        /\ ReplyOf[replies[j].id] # NoReply
    BY <2>1, ReplyOfFacts
  <2>3. QED
    BY <1>1, <2>1, <2>2 DEF Talk!Fits
<1>2. CASE ~r.nested
  BY <1>2 DEF InThread, Talk!Fits
<1>3. QED
  BY <1>1, <1>2

\* A reply that is appended arrives.
LEMMA AppendConverses ==
    ASSUME StoreOK, NEW r \in Reply, ~Stored(r.id), InThread(r, DOMAIN replies), AppendReply(r),
           r.status # "skipped", r.verified \/ r.status = "pending"
    PROVE  ConversationStep
<1>1. r.id \in Id
  BY DEF Reply
<1>2. /\ replies \in Seq(Reply) /\ byActivity \in [Id -> 0 .. Len(replies)]
      /\ Len(replies) \in Nat
  BY DEF StoreOK
<1>3. /\ byActivity' = [byActivity EXCEPT ![r.id] = Len(replies) + 1]
      /\ replies'[Len(replies) + 1] = r
      /\ \A k \in 1 .. Len(replies) : replies'[k] = replies[k]
  BY <1>2, AppendProperties DEF AppendReply
<1>4. ReplyOf' = [ReplyOf EXCEPT ![r.id] = r]
  <2>1. \A id \in Id : ReplyOf'[id] = IF id = r.id THEN r ELSE ReplyOf[id]
    BY <1>1, <1>2, <1>3 DEF ReplyOf, Stored
  <2>2. QED
    BY <2>1 DEF ReplyOf
<1>5. ReplyOf'[r.id] = r /\ ReplyOf[r.id] = NoReply
  BY <1>1, <1>4, ReplyOfFacts DEF ReplyOf
<1>6. Talk!Arrive(r.id)
  <2>1. Talk!Fits(r)
    BY ThreadFits
  <2>2. Talk!Fits(ReplyOf'[r.id])
    BY <1>5, <2>1 DEF Talk!Fits
  <2>3. /\ ReplyOf'[r.id] \in Reply /\ ReplyOf'[r.id].id = r.id
        /\ ReplyOf'[r.id].status # "skipped"
        /\ ReplyOf'[r.id].verified \/ ReplyOf'[r.id].status = "pending"
        /\ ReplyOf' = [ReplyOf EXCEPT ![r.id] = ReplyOf'[r.id]]
    BY <1>4, <1>5
  <2>4. QED
    BY <1>5, <2>2, <2>3, Zenon DEF Talk!Arrive
<1>7. QED
  BY <1>1, <1>6 DEF ConversationStep, Talk!ConversationNext

\* A decision decides one reply, or reverts it.
LEMMA StatusConverses ==
    ASSUME StoreOK, NEW key \in DOMAIN replies, NEW status \in Status,
           ValidTransition(replies[key].status, status),
           replies' = [replies EXCEPT ![key].status = status],
           UNCHANGED <<byActivity, byObject>>
    PROVE  ConversationStep
<1> DEFINE id == replies[key].id
           r == [replies[key] EXCEPT !.status = status]
<1>1. /\ id \in Id /\ Stored(id) /\ ReplyOf[id] = replies[key] /\ ReplyOf[id] # NoReply
      /\ byActivity[id] = key /\ replies[key] \in Reply
  BY ReplyOfFacts DEF StoreOK, IndexesAgree
<1>2. /\ replies \in Seq(Reply) /\ byActivity \in [Id -> 0 .. Len(replies)]
      /\ \A i \in Id : byActivity[i] # 0 => replies[byActivity[i]].id = i
  BY DEF StoreOK, IndexesAgree, Stored
<1>3. \A k \in DOMAIN replies : replies'[k] = IF k = key THEN r ELSE replies[k]
  BY <1>2
<1>4. ReplyOf' = [ReplyOf EXCEPT ![id] = r]
  <2>1. \A i \in Id : byActivity[i] = key => i = id
    BY <1>1, <1>2
  <2>2. \A i \in Id : byActivity[i] # 0 => byActivity[i] \in DOMAIN replies
    BY <1>2
  <2>3. \A i \in Id : ReplyOf'[i] = IF i = id THEN r ELSE ReplyOf[i]
    BY <1>1, <1>3, <2>1, <2>2 DEF ReplyOf, Stored
  <2>4. QED
    BY <2>3 DEF ReplyOf
<1>5. ReplyOf' = [ReplyOf EXCEPT ![id].status = status]
  BY <1>1, <1>4 DEF ReplyOf
<1>6. ReplyOf'[id] = r /\ r.status = status
  BY <1>1, <1>4 DEF ReplyOf, Reply
<1>7. CASE status # "pending"
  <2>1. ReplyOf[id].status = "pending" /\ status \in {"approved", "rejected", "skipped"}
    BY <1>1, <1>7 DEF ValidTransition, Status
  <2>2. Talk!Decide(id)
    BY <1>1, <1>5, <1>6, <2>1 DEF Talk!Decide
  <2>3. QED
    BY <1>1, <2>2 DEF ConversationStep, Talk!ConversationNext
<1>8. CASE status = "pending"
  <2>1. ReplyOf[id].status # "pending"
    BY <1>1, <1>8 DEF ValidTransition
  <2>2. Talk!Revert(id)
    BY <1>1, <1>5, <1>8, <2>1 DEF Talk!Revert
  <2>3. QED
    BY <1>1, <2>2 DEF ConversationStep, Talk!ConversationNext
<1>9. QED
  BY <1>7, <1>8

\* Whatever the system does is a step of the conversation or leaves it alone.
LEMMA MoveConverses ==
    ASSUME MInv, Move
    PROVE  ConversationStep
<1>1. StoreOK
  BY DEF MInv
<1>2. ASSUME UNCHANGED store PROVE ConversationStep
  BY <1>2 DEF ConversationStep, ReplyOf, Stored, store
<1>3. ASSUME NEW w \in Worker, Save(w) PROVE ConversationStep
  <2>1. CASE UNCHANGED store
    BY <1>2, <2>1
  <2>2. CASE ~Stored(job[w].id) /\ AppendReply(job[w])
    <3>1. pc[w] = "save" /\ pc[w] # "idle"
      BY <1>3 DEF Save
    <3>2. job[w] \in Reply /\ InThread(job[w], DOMAIN replies)
      BY <3>1 DEF MInv, TypeOK, JobsInThread
    <3>3. job[w].verified /\ Justified(job[w].status, grounds[w])
      BY <3>1 DEF MInv, GroundsHold
    <3>4. job[w].status # "skipped"
      BY <3>3 DEF Justified
    <3>5. QED
      BY <1>1, <2>2, <3>2, <3>3, <3>4, AppendConverses
  <2>3. QED
    BY <1>3, <2>1, <2>2 DEF Save, SaveReply
<1>4. ASSUME NEW m \in todo, MigrateOne(m) PROVE ConversationStep
  <2>1. m \in Legacy
    BY DEF MInv, TypeOK
  <2>2. CASE UNCHANGED store
    BY <1>2, <2>2
  <2>3. CASE ~Stored(m.id) /\ AppendReply(Migrated(m))
    <3>1. InThread(Migrated(m), DOMAIN replies)
      BY <2>1, MigratedType DEF InThread
    <3>2. QED
      BY <1>1, <2>1, <2>3, <3>1, MigratedType, AppendConverses
  <2>4. QED
    BY <1>4, <2>1, <2>2, <2>3, MigratedType DEF MigrateOne, SaveReply
<1>5. ASSUME NEW key \in DOMAIN replies, NEW status \in Status, SetReplyStatus(key, status)
      PROVE  ConversationStep
  BY <1>1, <1>5, StatusConverses DEF SetReplyStatus
<1>6. Startup => ConversationStep
  BY <1>2, <1>4 DEF Startup, BootMigrated, Scan, SetBackfillMarker, MigrationFails, Serve
<1>7. Admin => ConversationStep
  BY <1>2, <1>5 DEF Admin, AddTrusted, RemoveTrusted, AddBlocked, RemoveBlocked, SetList, ToggleModeration
<1>8. \A w \in Worker : Ingest(w) => ConversationStep
  BY <1>2, <1>3 DEF Ingest, ReceiveDirect, ReceiveNested, Arrives, ReadSetting, Classify, Step
<1>9. QED
  BY <1>2, <1>6, <1>7, <1>8 DEF Move, Crash

\* Moderation implements Conversation: with any number of requests, messages and
\* restarts, an activity becomes one reply, in its thread, that only an admin's
\* decision changes (saveReplyWithOrdering, handleCreate, RunBackfillOnce).
THEOREM ConversationImplemented == Spec => RepliesConverse
<1>1. Init => Talk!ConversationInit
  BY DEF Init, Talk!ConversationInit, ReplyOf, Stored
<1>2. MInv /\ [Next]_vars => ConversationStep
  <2>1. ASSUME UNCHANGED vars PROVE ConversationStep
    BY <2>1 DEF vars, store, ConversationStep, ReplyOf, Stored
  <2>2. QED
    BY <2>1, MoveConverses DEF Next
<1>3. QED
  BY <1>1, <1>2, MInvariant, PTL
     DEF Spec, RepliesConverse, Talk!ConversationSpec, ConversationStep
=============================================================================
