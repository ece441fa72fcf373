--------------------------- MODULE PostStoreProofs ---------------------------
(***************************************************************************)
(* Proofs about PostStore for every set of base URLs, slugs and texts.     *)
(***************************************************************************)
EXTENDS PostStore, TLAPS

\* A slug with a row has been used: a fresh UUID meets no row.
RowsAreUsed == \A k \in Key : posts[k] # NoRow => k[2] \in used

\* A published row passed the checks; a draft's body was typed, not combined (so
\* PublishDraft combines at most once), and a draft is no quote.
RowSound(row) ==
    /\ row.status = "draft" => row.body \in Text /\ ~row.quote /\ row.kind # "quote"
    /\ row.status = "published" => SoundlyPublished(row)

RowsSound == \A k \in Key : posts[k] # NoRow => RowSound(posts[k])

\* The inductive invariant: the four properties need each other, CreatePost needs
\* RowsAreUsed to put its row where the slug has none, and PublishDraft needs
\* RowsSound to write a row of the right type.
IInv ==
    /\ TypeOK
    /\ RowsAreUsed
    /\ RowsSound
    /\ OneRowPerSlug
    /\ CanonicalWhileUp
    /\ CreateMirrorsPublished
    /\ NoOrphanActivity

USE BlankAssumption, NoteFitsAssumption, NoRowAssumption

\* Keys are pairs of a base URL and a slug.
LEMMA KeyFacts ==
    /\ \A b \in Base, s \in Slug : /\ <<b, s>> \in Key
                                   /\ <<b, s>>[1] = b
                                   /\ <<b, s>>[2] = s
    /\ \A k \in Key : k[1] \in Base /\ k[2] \in Slug /\ k = <<k[1], k[2]>>
BY DEF Key

\* The Create of a row is an activity, and never the missing one.
LEMMA ActivityOfType == \A r \in Row : ActivityOf(r) \in Activity /\ ActivityOf(r) # NoRow
BY DEF ActivityOf, Activity, Row

\* The empty store satisfies the invariant.
LEMMA InitInvariant == Init => IInv
<1> SUFFICES ASSUME Init PROVE IInv
  OBVIOUS
<1>1. /\ \A k \in Key : posts[k] = NoRow /\ outbox[k] = NoRow
      /\ baseURL \in Base /\ up = FALSE /\ used = {}
      /\ posts \in [Key -> {NoRow}] /\ outbox \in [Key -> {NoRow}]
  BY DEF Init
<1>2. TypeOK
  BY <1>1 DEF TypeOK
<1>3. QED
  BY <1>1, <1>2 DEF IInv, RowsAreUsed, RowsSound, OneRowPerSlug, CanonicalWhileUp,
                    CreateMirrorsPublished, NoOrphanActivity

\* One transaction that puts a row under a key whose slug has no other row, and
\* either stores its Create with it or leaves a Create that mirrors it.
LEMMA PutKeepsInvariant ==
    ASSUME IInv, NEW k \in Key, NEW r \in Row,
           KeysOf(k[2]) \subseteq {k},
           up => k[1] = baseURL,
           RowSound(r),
           PutPost(k, r),
           \/ outbox' = [outbox EXCEPT ![k] = ActivityOf(r)]
           \/ outbox' = outbox /\ (r.status = "published" => outbox[k] = ActivityOf(r)),
           used' = used \union {k[2]}, UNCHANGED <<baseURL, up>>
    PROVE  IInv'
<1>1. /\ r # NoRow /\ ActivityOf(r) \in Activity /\ ActivityOf(r) # NoRow
      /\ k[2] \in Slug
  BY ActivityOfType, KeyFacts
<1>2. TypeOK'
  BY <1>1 DEF IInv, TypeOK, PutPost
<1>3. \A l \in Key : posts'[l] = IF l = k THEN r ELSE posts[l]
  BY DEF PutPost, IInv, TypeOK
<1>4. \A l \in Key : l # k => outbox'[l] = outbox[l]
  BY DEF IInv, TypeOK
<1>5. r.status = "published" => outbox'[k] = ActivityOf(r)
  BY DEF IInv, TypeOK
<1>6. RowsAreUsed' /\ RowsSound' /\ CanonicalWhileUp'
  BY <1>3, <1>4 DEF IInv, RowsAreUsed, RowsSound, CanonicalWhileUp
<1>7. OneRowPerSlug'
  BY <1>3 DEF IInv, OneRowPerSlug, KeysOf
<1>8. CreateMirrorsPublished' /\ NoOrphanActivity'
  BY <1>1, <1>3, <1>4, <1>5 DEF IInv, CreateMirrorsPublished, NoOrphanActivity
<1>9. QED
  BY <1>2, <1>6, <1>7, <1>8 DEF IInv

\* What a lookup returns is the slug's only row, canonical while the server runs.
LEMMA FoundIsOnly ==
    ASSUME IInv, NEW s \in Slug, NEW k \in Key, Found(s, k)
    PROVE  /\ k[2] = s /\ posts[k] \in Row /\ KeysOf(s) \subseteq {k}
           /\ s \in used
           /\ up => k[1] = baseURL /\ k = Canonical(s)
<1>1. k[2] = s /\ posts[k] # NoRow /\ posts[k] \in Row
  BY DEF Found, KeysOf, IInv, TypeOK
<1>2. KeysOf(s) \subseteq {k} /\ s \in used
  BY <1>1 DEF KeysOf, IInv, OneRowPerSlug, RowsAreUsed
<1>3. up => k[1] = baseURL /\ k = Canonical(s)
  BY <1>1, KeyFacts DEF IInv, CanonicalWhileUp, Canonical
<1>4. QED
  BY <1>1, <1>2, <1>3

\* Each transaction keeps the invariant: a new published post...
LEMMA CreatePostStep ==
    ASSUME IInv, NEW s \in Slug, NEW kind \in Kind, NEW body \in Text,
           CreatePost(s, kind, body)
    PROVE  IInv'
<1> DEFINE r == [kind |-> kind, title |-> Blank, body |-> body, quote |-> kind = "quote",
                 status |-> "published", fed |-> NoFederation]
<1>1. r \in Row /\ RowSound(r)
  BY DEF Row, NoFederation, Federation, Content, RowSound, SoundlyPublished, CreatePost
<1>2. /\ Canonical(s) \in Key /\ Canonical(s)[1] = baseURL /\ Canonical(s)[2] = s
  BY KeyFacts DEF Canonical, IInv, TypeOK
<1>3. KeysOf(s) = {}
  BY DEF CreatePost, KeysOf, IInv, RowsAreUsed
<1>4. /\ PutPost(Canonical(s), r) /\ outbox' = [outbox EXCEPT ![Canonical(s)] = ActivityOf(r)]
      /\ used' = used \union {s} /\ UNCHANGED <<baseURL, up>>
  BY DEF CreatePost, PutBoth
<1> HIDE DEF r
<1>5. QED
  BY <1>1, <1>2, <1>3, <1>4, PutKeepsInvariant

\* ...a draft saved or saved again...
LEMMA SaveDraftStep ==
    ASSUME IInv, NEW s \in Slug, NEW kind \in Kind, NEW title \in Text, NEW body \in Text,
           SaveDraft(s, kind, title, body)
    PROVE  IInv'
<1>1. CASE /\ KeysOf(s) = {}
           /\ PutPost(Canonical(s),
                      [kind |-> kind, title |-> title, body |-> body, quote |-> FALSE,
                       status |-> "draft", fed |-> NoFederation])
  <2> DEFINE r == [kind |-> kind, title |-> title, body |-> body, quote |-> FALSE,
                   status |-> "draft", fed |-> NoFederation]
  <2>1. r \in Row /\ r.status = "draft" /\ RowSound(r)
    BY DEF Row, NoFederation, Federation, Content, RowSound, SaveDraft
  <2>2. /\ Canonical(s) \in Key /\ Canonical(s)[1] = baseURL /\ Canonical(s)[2] = s
    BY KeyFacts DEF Canonical, IInv, TypeOK
  <2>3. /\ PutPost(Canonical(s), r) /\ outbox' = outbox
        /\ used' = used \union {s} /\ UNCHANGED <<baseURL, up>>
    BY <1>1 DEF SaveDraft
  <2> HIDE DEF r
  <2>4. QED
    BY <1>1, <2>1, <2>2, <2>3, PutKeepsInvariant
<1>2. CASE \E k \in Key :
              /\ Found(s, k)
              /\ posts[k].status = "draft"
              /\ PutPost(k, [posts[k] EXCEPT !.kind = kind, !.title = title, !.body = body])
  <2>1. PICK k \in Key :
              /\ Found(s, k)
              /\ posts[k].status = "draft"
              /\ PutPost(k, [posts[k] EXCEPT !.kind = kind, !.title = title, !.body = body])
    BY <1>2
  <2> DEFINE r == [posts[k] EXCEPT !.kind = kind, !.title = title, !.body = body]
  <2>2. k[2] = s /\ posts[k] \in Row /\ KeysOf(s) \subseteq {k} /\ (up => k[1] = baseURL)
    BY <2>1, FoundIsOnly
  <2>3. r \in Row /\ r.status = "draft" /\ RowSound(r)
    BY <2>1, <2>2 DEF Row, Content, RowSound, SaveDraft, Found, KeysOf, IInv, RowsSound
  <2>4. PutPost(k, r) /\ outbox' = outbox /\ used' = used \union {s} /\ UNCHANGED <<baseURL, up>>
    BY <2>1 DEF SaveDraft
  <2> HIDE DEF r
  <2>5. QED
    BY <2>2, <2>3, <2>4, PutKeepsInvariant
<1>3. QED
  BY <1>1, <1>2 DEF SaveDraft

\* ...a draft published, with its Create...
LEMMA PublishDraftStep ==
    ASSUME IInv, NEW s \in Slug, PublishDraft(s)
    PROVE  IInv'
<1>1. PICK k \in Key :
        /\ Found(s, k)
        /\ posts[k].status = "draft"
        /\ Valid(posts[k].kind, PublishedBody(posts[k]))
        /\ PutBoth(k, PublishedRow(posts[k]))
  BY DEF PublishDraft
<1> DEFINE r == PublishedRow(posts[k])
<1>2. /\ k[2] = s /\ posts[k] \in Row /\ KeysOf(s) \subseteq {k} /\ s \in used
      /\ up => k[1] = baseURL
  BY <1>1, FoundIsOnly
<1>3. /\ posts[k].title \in Text /\ posts[k].body \in Text
      /\ ~posts[k].quote /\ posts[k].kind # "quote"
  BY <1>1, <1>2 DEF IInv, RowsSound, RowSound, Found, KeysOf, Row
<1>4. PublishedBody(posts[k]) \in Content
  BY <1>3 DEF PublishedBody, Combine, Content
<1>5. r \in Row /\ RowSound(r)
  BY <1>1, <1>2, <1>3, <1>4 DEF PublishedRow, Row, RowSound, SoundlyPublished
<1>6. /\ PutPost(k, r) /\ outbox' = [outbox EXCEPT ![k] = ActivityOf(r)]
      /\ used' = used \union {s} /\ UNCHANGED <<baseURL, up>>
  BY <1>1, <1>2 DEF PublishDraft, PutBoth
<1> HIDE DEF r
<1>7. QED
  BY <1>2, <1>5, <1>6, PutKeepsInvariant

\* ...a federation record replaced, of a draft or of a published post...
LEMMA SetFederationStep ==
    ASSUME IInv, NEW s \in Slug, NEW fed \in Federation, SetFederation(s, fed)
    PROVE  IInv'
<1>1. PICK k \in Key : Found(s, k) /\ PutPost(k, [posts[k] EXCEPT !.fed = fed])
  BY DEF SetFederation
<1> DEFINE r == [posts[k] EXCEPT !.fed = fed]
<1>2. /\ k[2] = s /\ posts[k] \in Row /\ KeysOf(s) \subseteq {k} /\ s \in used
      /\ up => k[1] = baseURL
  BY <1>1, FoundIsOnly
<1>3. /\ r \in Row /\ r.status = posts[k].status /\ ActivityOf(r) = ActivityOf(posts[k])
      /\ RowSound(posts[k]) => RowSound(r)
  BY <1>2 DEF Row, ActivityOf, RowSound, SoundlyPublished
<1>4. /\ RowSound(r)
      /\ r.status = "published" => outbox[k] = ActivityOf(r)
  BY <1>1, <1>3 DEF Found, KeysOf, IInv, RowsSound, CreateMirrorsPublished
<1>5. PutPost(k, r) /\ outbox' = outbox /\ used' = used \union {s} /\ UNCHANGED <<baseURL, up>>
  BY <1>1, <1>2 DEF SetFederation
<1> HIDE DEF r
<1>6. QED
  BY <1>2, <1>3, <1>4, <1>5, PutKeepsInvariant

\* SetFederationRemoteURL changes one field of the record it finds.
LEMMA RemoteURLIsSetFederation ==
    ASSUME IInv, NEW s \in Slug, SetFederationRemoteURL(s)
    PROVE  \E fed \in Federation : fed.set /\ SetFederation(s, fed)
<1>1. PICK k \in Key :
        Found(s, k) /\ PutPost(k, [posts[k] EXCEPT !.fed.set = TRUE, !.fed.remote = TRUE])
  BY DEF SetFederationRemoteURL
<1> DEFINE fed == [posts[k].fed EXCEPT !.set = TRUE, !.remote = TRUE]
<1>2. posts[k] \in Row
  BY <1>1, FoundIsOnly
<1>3. fed \in Federation /\ fed.set
  BY <1>2 DEF Row, Federation
<1>4. [posts[k] EXCEPT !.fed.set = TRUE, !.fed.remote = TRUE] = [posts[k] EXCEPT !.fed = fed]
  BY <1>2 DEF Row, Federation
<1>5. SetFederation(s, fed)
  BY <1>1, <1>4 DEF SetFederation, SetFederationRemoteURL
<1>6. QED
  BY <1>3, <1>5

\* ...a published post edited: found under the canonical key, it does not move...
LEMMA UpdatePostStep ==
    ASSUME IInv, NEW s \in Slug, NEW kind \in Kind, NEW body \in Text,
           UpdatePost(s, kind, body)
    PROVE  IInv'
<1>1. PICK k \in Key :
        /\ Found(s, k)
        /\ posts[k].status = "published"
        /\ LET row == [posts[k] EXCEPT !.kind = kind, !.body = body, !.quote = (kind = "quote")]
           IN  /\ posts' = [posts EXCEPT ![k] = NoRow, ![Canonical(s)] = row]
               /\ outbox' = [outbox EXCEPT ![k] = NoRow, ![Canonical(s)] = ActivityOf(row)]
  BY DEF UpdatePost
<1> DEFINE r == [posts[k] EXCEPT !.kind = kind, !.body = body, !.quote = (kind = "quote")]
<1>2. /\ k[2] = s /\ posts[k] \in Row /\ KeysOf(s) \subseteq {k} /\ s \in used
      /\ k[1] = baseURL /\ k = Canonical(s)
  BY <1>1, FoundIsOnly DEF UpdatePost
<1>3. r \in Row /\ r.status = "published" /\ RowSound(r)
  BY <1>1, <1>2 DEF Row, Content, RowSound, SoundlyPublished, UpdatePost, Found, KeysOf, IInv, RowsSound
<1>4. /\ posts' = [posts EXCEPT ![k] = NoRow, ![Canonical(s)] = r]
      /\ outbox' = [outbox EXCEPT ![k] = NoRow, ![Canonical(s)] = ActivityOf(r)]
  BY ONLY <1>1 DEF r
<1>5. used' = used \union {s} /\ UNCHANGED <<baseURL, up>>
  BY <1>2 DEF UpdatePost
<1> HIDE DEF r
<1>6. PutPost(k, r) /\ outbox' = [outbox EXCEPT ![k] = ActivityOf(r)]
  BY <1>2, <1>4 DEF PutPost, IInv, TypeOK
<1>7. QED
  BY <1>2, <1>3, <1>5, <1>6, PutKeepsInvariant

\* ...a post deleted, its Create with it...
LEMMA DeletePostStep ==
    ASSUME IInv, NEW s \in Slug, DeletePost(s)
    PROVE  IInv'
<1>1. PICK k \in Key :
        Found(s, k) /\ PutPost(k, NoRow) /\ outbox' = [outbox EXCEPT ![k] = NoRow]
  BY DEF DeletePost
<1>2. TypeOK'
  BY <1>1 DEF DeletePost, PutPost, IInv, TypeOK
<1>3. \A l \in Key : /\ posts'[l] = IF l = k THEN NoRow ELSE posts[l]
                     /\ outbox'[l] = IF l = k THEN NoRow ELSE outbox[l]
  BY <1>1 DEF PutPost, IInv, TypeOK
<1>4. UNCHANGED <<baseURL, up, used>>
  BY DEF DeletePost
<1>5. QED
  BY <1>2, <1>3, <1>4
     DEF IInv, RowsAreUsed, RowsSound, OneRowPerSlug, CanonicalWhileUp,
         CreateMirrorsPublished, NoOrphanActivity

\* What the rewrite leaves under each key when slugs have one row each.
LEMMA RewriteResult ==
    ASSUME IInv, Rewrite
    PROVE  \A k \in Key :
             \/ /\ k[1] # baseURL
                /\ posts'[k] = NoRow /\ outbox'[k] = NoRow
             \/ /\ k[1] = baseURL /\ LegacyKeys(k[2]) = {}
                /\ posts'[k] = posts[k] /\ outbox'[k] = outbox[k]
             \/ /\ k[1] = baseURL
                /\ \E l \in Key : /\ KeysOf(k[2]) = {l} /\ l[2] = k[2]
                                  /\ posts[l] \in Row /\ posts'[k] = posts[l]
                                  /\ outbox'[k] = ActivityOf(posts[l])
<1> SUFFICES ASSUME NEW k \in Key
             PROVE  \/ /\ k[1] # baseURL
                       /\ posts'[k] = NoRow /\ outbox'[k] = NoRow
                    \/ /\ k[1] = baseURL /\ LegacyKeys(k[2]) = {}
                       /\ posts'[k] = posts[k] /\ outbox'[k] = outbox[k]
                    \/ /\ k[1] = baseURL
                       /\ \E l \in Key : /\ KeysOf(k[2]) = {l} /\ l[2] = k[2]
                                         /\ posts[l] \in Row /\ posts'[k] = posts[l]
                                         /\ outbox'[k] = ActivityOf(posts[l])
  OBVIOUS
<1> DEFINE c == CHOOSE l \in LegacyKeys(k[2]) : TRUE
<1>1. posts'[k] = IF k[1] # baseURL THEN NoRow
                  ELSE IF LegacyKeys(k[2]) = {} THEN posts[k] ELSE posts[c]
  BY DEF Rewrite
<1>2. outbox'[k] = IF LegacyKeys(k[2]) = {} THEN outbox[k]
                   ELSE IF k[1] = baseURL THEN ActivityOf(posts[c])
                   ELSE IF k \in LegacyKeys(k[2]) THEN NoRow
                   ELSE outbox[k]
  BY DEF Rewrite
<1>3. LegacyKeys(k[2]) # {} => c \in LegacyKeys(k[2])
  OBVIOUS
<1> HIDE DEF c
<1>4. CASE k[1] # baseURL
  <2>1. outbox[k] # NoRow => k \in LegacyKeys(k[2])
    BY <1>4 DEF IInv, NoOrphanActivity, LegacyKeys, KeysOf
  <2>2. QED
    BY <1>1, <1>2, <1>4, <2>1
<1>5. CASE k[1] = baseURL /\ LegacyKeys(k[2]) = {}
  BY <1>1, <1>2, <1>5
<1>6. CASE k[1] = baseURL /\ LegacyKeys(k[2]) # {}
  <2>1. c \in Key /\ c[2] = k[2] /\ posts[c] \in Row /\ KeysOf(k[2]) = {c}
    BY <1>3, <1>6 DEF LegacyKeys, KeysOf, IInv, TypeOK, OneRowPerSlug
  <2>2. QED
    BY <1>1, <1>2, <1>6, <2>1
<1>7. QED
  BY <1>4, <1>5, <1>6

\* ...and the rewrite of every key to the current base URL, at startup.
LEMMA StartStep ==
    ASSUME IInv, Start
    PROVE  IInv'
<1>1. /\ baseURL' = baseURL /\ used' = used /\ up' = TRUE /\ Rewrite
      /\ posts' = [k \in Key |-> posts'[k]] /\ outbox' = [k \in Key |-> outbox'[k]]
  BY DEF Start, Rewrite
<1>2. TypeOK'
  <2>1. \A k \in Key : posts'[k] \in Row \union {NoRow} /\ outbox'[k] \in Activity \union {NoRow}
    BY <1>1, RewriteResult, ActivityOfType DEF IInv, TypeOK
  <2>2. QED
    BY <1>1, <2>1 DEF IInv, TypeOK
<1>3. CanonicalWhileUp'
  BY <1>1, RewriteResult DEF CanonicalWhileUp
<1>4. OneRowPerSlug'
  BY <1>1, <1>3, KeyFacts DEF CanonicalWhileUp, OneRowPerSlug
<1>5. RowsAreUsed'
  BY <1>1, RewriteResult DEF IInv, RowsAreUsed, KeysOf
<1>6. RowsSound'
  BY <1>1, RewriteResult DEF IInv, RowsSound, KeysOf
<1>7. CreateMirrorsPublished' /\ NoOrphanActivity'
  BY <1>1, RewriteResult, NoRowAssumption
     DEF IInv, CreateMirrorsPublished, NoOrphanActivity, KeysOf
<1>8. QED
  BY <1>2, <1>3, <1>4, <1>5, <1>6, <1>7 DEF IInv

\* The records that callers pass to SetFederation are records.
LEMMA FederationInputs == {NotShared, SharedOk, SharedError} \subseteq Federation
BY DEF NotShared, SharedOk, SharedError, NoFederation, Federation

\* The invariant is inductive.
LEMMA NextInvariant == IInv /\ [Next]_storeVars => IInv'
<1> SUFFICES ASSUME IInv, [Next]_storeVars PROVE IInv'
  OBVIOUS
<1>1. ASSUME NEW s \in Slug, NEW kind \in Kind, NEW body \in Text,
             CreatePost(s, kind, body) \/ UpdatePost(s, kind, body)
      PROVE  IInv'
  BY <1>1, CreatePostStep, UpdatePostStep
<1>2. ASSUME NEW s \in Slug, NEW kind \in Kind, NEW title \in Text, NEW body \in Text,
             SaveDraft(s, kind, title, body)
      PROVE  IInv'
  BY <1>2, SaveDraftStep
<1>3. ASSUME NEW s \in Slug, PublishDraft(s) \/ SetFederationRemoteURL(s) \/ DeletePost(s)
      PROVE  IInv'
  BY <1>3, PublishDraftStep, RemoteURLIsSetFederation, SetFederationStep, DeletePostStep
<1>4. ASSUME NEW s \in Slug, NEW fed \in {NotShared, SharedOk, SharedError},
             SetFederation(s, fed)
      PROVE  IInv'
  BY <1>4, SetFederationStep, FederationInputs
<1>5. CASE Stop
  BY <1>5 DEF Stop, IInv, TypeOK, RowsAreUsed, RowsSound, OneRowPerSlug,
              CanonicalWhileUp, CreateMirrorsPublished, NoOrphanActivity
<1>6. ASSUME NEW b \in Base, Configure(b)
      PROVE  IInv'
  BY <1>6 DEF Configure, IInv, TypeOK, RowsAreUsed, RowsSound, OneRowPerSlug,
              CanonicalWhileUp, CreateMirrorsPublished, NoOrphanActivity
<1>7. CASE Start
  BY <1>7, StartStep
<1>8. CASE UNCHANGED storeVars
  BY <1>8 DEF storeVars, IInv, TypeOK, RowsAreUsed, RowsSound, OneRowPerSlug,
              CanonicalWhileUp, CreateMirrorsPublished, NoOrphanActivity
<1>9. QED
  BY <1>1, <1>2, <1>3, <1>4, <1>5, <1>6, <1>7, <1>8 DEF Next

\* The invariant holds in every behaviour of the store.
LEMMA SpecInvariant == Spec => []IInv
BY InitInvariant, NextInvariant, PTL DEF Spec

\* The buckets stay well-formed, for every set of slugs, texts and base URLs.
THEOREM TypeCorrect == Spec => []TypeOK
BY SpecInvariant, PTL DEF IInv

\* Keys: no write of outbox.go, and no rewrite of the base URL, gives a slug two rows,
\* and the running server only meets canonical keys, so a look-up finds what it writes.
THEOREM KeysCorrect == Spec => []KeysCanonical
<1>1. IInv => KeysCanonical
  BY DEF IInv, KeysCanonical
<1>2. QED
  BY <1>1, SpecInvariant, PTL

\* No path to publication skips a check, and quote fields go with quote posts.
THEOREM ValidityCorrect == Spec => []PublishedIsValid
<1>1. IInv => PublishedIsValid
  BY DEF IInv, RowsSound, RowSound, PublishedIsValid
<1>2. QED
  BY <1>1, SpecInvariant, PTL

\* The outbox bucket: every published post has its current Create under its own key,
\* and no activity outlives its post.
THEOREM OutboxCorrect == Spec => []OutboxMirrorsPosts
<1>1. IInv => OutboxMirrorsPosts
  BY DEF IInv, OutboxMirrorsPosts
<1>2. QED
  BY <1>1, SpecInvariant, PTL

-----------------------------------------------------------------------------
(***************************************************************************)
(* What readers see.  PostAt is a function of the rows; with one row per   *)
(* slug, it is that row.                                                   *)
(***************************************************************************)
LEMMA PostAtFacts ==
    ASSUME IInv, NEW s \in Slug
    PROVE  /\ \A k \in KeysOf(s) : PostAt(s) = posts[k] /\ posts[k] \in Row
           /\ KeysOf(s) = {} <=> PostAt(s) = NoRow
           /\ PostAt(s) # NoRow => PostAt(s) \in Row
<1>1. \A k \in KeysOf(s) : KeysOf(s) = {k} /\ posts[k] \in Row
  BY DEF KeysOf, IInv, TypeOK, OneRowPerSlug
<1>2. QED
  BY <1>1 DEF PostAt

\* PostAtFacts for the state after a step.
LEMMA PostAtNext ==
    ASSUME IInv', NEW s \in Slug
    PROVE  /\ \A k \in Key : k[2] = s /\ posts'[k] # NoRow => PostAt(s)' = posts'[k]
           /\ (\A k \in Key : k[2] = s => posts'[k] = NoRow) => PostAt(s)' = NoRow
<1>1. \A k \in KeysOf(s)' : KeysOf(s)' = {k}
  BY DEF KeysOf, IInv, OneRowPerSlug
<1>2. \A k \in Key : k[2] = s /\ posts'[k] # NoRow => k \in KeysOf(s)'
  BY DEF KeysOf
<1>3. (\A k \in Key : k[2] = s => posts'[k] = NoRow) => KeysOf(s)' = {}
  BY DEF KeysOf
<1>4. QED
  BY <1>1, <1>2, <1>3 DEF PostAt

\* A slug none of whose rows change reads the same.
LEMMA PostAtUnchanged ==
    ASSUME IInv, IInv', NEW s \in Slug, \A k \in Key : k[2] = s => posts'[k] = posts[k]
    PROVE  PostAt(s)' = PostAt(s)
<1>1. CASE KeysOf(s) = {}
  BY <1>1, PostAtFacts, PostAtNext DEF KeysOf
<1>2. CASE KeysOf(s) # {}
  <2>1. PICK k \in Key : k[2] = s /\ posts[k] # NoRow
    BY <1>2 DEF KeysOf
  <2>2. PostAt(s) = posts[k] /\ PostAt(s)' = posts'[k] /\ posts'[k] = posts[k]
    BY <2>1, PostAtFacts, PostAtNext DEF KeysOf
  <2>3. QED
    BY <2>2
<1>3. QED
  BY <1>1, <1>2

\* A step that writes one row moves one slug's stage and no other.
LEMMA PutMovesOneStage ==
    ASSUME IInv, IInv', NEW k \in Key, NEW r \in Row \union {NoRow},
           KeysOf(k[2]) \subseteq {k}, PutPost(k, r)
    PROVE  /\ PostAt(k[2])' = r
           /\ \A t \in Slug \ {k[2]} : PostAt(t)' = PostAt(t)
<1>1. \A l \in Key : posts'[l] = IF l = k THEN r ELSE posts[l]
  BY DEF PutPost, IInv, TypeOK
<1>2. k[2] \in Slug
  BY KeyFacts
<1>3. PostAt(k[2])' = r
  <2>1. CASE r = NoRow
    BY <1>1, <1>2, <2>1, PostAtNext DEF KeysOf
  <2>2. CASE r # NoRow
    BY <1>1, <1>2, <2>2, PostAtNext
  <2>3. QED
    BY <2>1, <2>2
<1>4. \A t \in Slug \ {k[2]} : PostAt(t)' = PostAt(t)
  BY <1>1, PostAtUnchanged
<1>5. QED
  BY <1>3, <1>4

stageBar == [s \in Slug |-> StageOf(s)]

\* The three moves of the life cycle, and the stutter, by what PostAt does.
LEMMA StageMove ==
    ASSUME IInv, NEW s \in Slug, NEW r \in Row \union {NoRow},
           PostAt(s)' = r, \A t \in Slug \ {s} : PostAt(t)' = PostAt(t),
           \/ r = NoRow /\ PostAt(s) # NoRow
           \/ r # NoRow /\ PostAt(s) = NoRow
           \/ r # NoRow /\ PostAt(s) # NoRow /\ r.status = PostAt(s).status
           \/ r # NoRow /\ PostAt(s) # NoRow /\ PostAt(s).status = "draft"
                /\ r.status = "published"
    PROVE  [Lifecycle!LifecycleNext]_stageBar
<1>1. /\ stageBar[s] = IF PostAt(s) = NoRow THEN "absent" ELSE PostAt(s).status
      /\ stageBar'[s] = IF r = NoRow THEN "absent" ELSE r.status
      /\ \A t \in Slug \ {s} : stageBar'[t] = stageBar[t]
      /\ stageBar = [t \in Slug |-> stageBar[t]] /\ stageBar' = [t \in Slug |-> stageBar'[t]]
  BY DEF stageBar, StageOf
<1>2. stageBar' = [stageBar EXCEPT ![s] = stageBar'[s]]
  BY <1>1
<1>3. /\ PostAt(s) # NoRow => PostAt(s).status \in {"draft", "published"}
      /\ r # NoRow => r.status \in {"draft", "published"}
  BY PostAtFacts DEF Row
<1>4. CASE r = NoRow /\ PostAt(s) # NoRow
  <2>1. Lifecycle!Remove(s)
    BY <1>1, <1>2, <1>3, <1>4 DEF Lifecycle!Remove, stageBar
  <2>2. QED
    BY <2>1 DEF Lifecycle!LifecycleNext
<1>5. CASE r # NoRow /\ PostAt(s) = NoRow
  <2>1. Lifecycle!SaveFirstDraft(s) \/ Lifecycle!Publish(s)
    BY <1>1, <1>2, <1>3, <1>5 DEF Lifecycle!SaveFirstDraft, Lifecycle!Publish, stageBar
  <2>2. QED
    BY <2>1 DEF Lifecycle!LifecycleNext
<1>6. CASE r # NoRow /\ PostAt(s) # NoRow /\ r.status = PostAt(s).status
  BY <1>1, <1>2, <1>6
<1>7. CASE r # NoRow /\ PostAt(s) # NoRow /\ PostAt(s).status = "draft" /\ r.status = "published"
  <2>1. Lifecycle!Publish(s)
    BY <1>1, <1>2, <1>7 DEF Lifecycle!Publish, stageBar
  <2>2. QED
    BY <2>1 DEF Lifecycle!LifecycleNext
<1>8. QED
  BY <1>4, <1>5, <1>6, <1>7

\* One slug now reads r, every other slug reads what it read before.
Reads(s, r) == PostAt(s)' = r /\ \A t \in Slug \ {s} : PostAt(t)' = PostAt(t)

\* A lookup finds what readers see.
LEMMA FoundIsRead ==
    ASSUME IInv, NEW s \in Slug, NEW k \in Key, Found(s, k)
    PROVE  PostAt(s) = posts[k] /\ PostAt(s) \in Row
BY FoundIsOnly, PostAtFacts DEF Found

\* What readers see of each transaction: a post is created, published...
LEMMA CreatePostEffect ==
    ASSUME IInv, IInv', NEW s \in Slug, NEW kind \in Kind, NEW body \in Text,
           CreatePost(s, kind, body)
    PROVE  /\ PostAt(s) = NoRow
           /\ posts'[Canonical(s)] \in Row /\ posts'[Canonical(s)].status = "published"
           /\ posts'[Canonical(s)].fed = NoFederation
           /\ Reads(s, posts'[Canonical(s)])
<1> DEFINE r == [kind |-> kind, title |-> Blank, body |-> body, quote |-> kind = "quote",
                 status |-> "published", fed |-> NoFederation]
<1>1. r \in Row /\ r.status = "published" /\ r.fed = NoFederation
  BY DEF Row, NoFederation, Federation, Content
<1>2. Canonical(s) \in Key /\ Canonical(s)[2] = s
  BY KeyFacts DEF Canonical, IInv, TypeOK
<1>3. KeysOf(s) = {}
  BY DEF CreatePost, KeysOf, IInv, RowsAreUsed
<1>4. PutPost(Canonical(s), r)
  BY DEF CreatePost, PutBoth
<1> HIDE DEF r
<1>5. posts'[Canonical(s)] = r
  BY <1>2, <1>4 DEF PutPost, IInv, TypeOK
<1>6. QED
  BY <1>1, <1>2, <1>3, <1>4, <1>5, PutMovesOneStage, PostAtFacts DEF Reads

\* ...a draft is saved, where no post or a draft was...
LEMMA SaveDraftEffect ==
    ASSUME IInv, IInv', NEW s \in Slug, NEW kind \in Kind, NEW title \in Text,
           NEW body \in Text, SaveDraft(s, kind, title, body)
    PROVE  \E r \in Row : /\ r.status = "draft" /\ Reads(s, r)
                          /\ \/ PostAt(s) = NoRow
                             \/ PostAt(s) \in Row /\ PostAt(s).status = "draft"
<1> DEFINE fresh == [kind |-> kind, title |-> title, body |-> body, quote |-> FALSE,
                     status |-> "draft", fed |-> NoFederation]
           saved(k) == [posts[k] EXCEPT !.kind = kind, !.title = title, !.body = body]
<1> DEFINE goal == \E r \in Row :
             /\ r.status = "draft" /\ Reads(s, r)
             /\ (PostAt(s) = NoRow \/ (PostAt(s) \in Row /\ PostAt(s).status = "draft"))
<1>1. CASE KeysOf(s) = {} /\ PutPost(Canonical(s), fresh)
  <2>1. fresh \in Row /\ fresh.status = "draft"
    BY DEF Row, NoFederation, Federation, Content
  <2>2. Canonical(s) \in Key /\ Canonical(s)[2] = s
    BY KeyFacts DEF Canonical, IInv, TypeOK
  <2> HIDE DEF fresh
  <2>3. Reads(s, fresh) /\ PostAt(s) = NoRow
    BY <1>1, <2>1, <2>2, PutMovesOneStage, PostAtFacts DEF Reads
  <2>4. QED
    BY <2>1, <2>3
<1>2. ASSUME NEW k \in Key, Found(s, k), posts[k].status = "draft", PutPost(k, saved(k))
      PROVE  goal
  <2>1. k[2] = s /\ posts[k] \in Row /\ KeysOf(s) \subseteq {k} /\ PostAt(s) = posts[k]
    BY <1>2, FoundIsOnly, FoundIsRead
  <2>2. saved(k) \in Row /\ saved(k).status = "draft"
    BY <1>2, <2>1 DEF Row, Content
  <2> HIDE DEF saved
  <2>3. Reads(s, saved(k))
    BY <1>2, <2>1, <2>2, PutMovesOneStage DEF Reads
  <2>4. QED
    BY <1>2, <2>1, <2>2, <2>3
<1>3. QED
  BY <1>1, <1>2 DEF SaveDraft

\* ...a draft becomes a published post...
LEMMA PublishDraftEffect ==
    ASSUME IInv, IInv', NEW s \in Slug, PublishDraft(s)
    PROVE  /\ PostAt(s) \in Row /\ PostAt(s).status = "draft"
           /\ posts'[Canonical(s)] \in Row /\ posts'[Canonical(s)].status = "published"
           /\ posts'[Canonical(s)].fed = PostAt(s).fed
           /\ Reads(s, posts'[Canonical(s)])
<1>1. PICK k \in Key : /\ Found(s, k) /\ posts[k].status = "draft"
                       /\ PutPost(k, PublishedRow(posts[k]))
  BY DEF PublishDraft, PutBoth
<1>2. /\ k[2] = s /\ posts[k] \in Row /\ posts[k] # NoRow /\ KeysOf(s) \subseteq {k}
      /\ k = Canonical(s) /\ PostAt(s) = posts[k]
  BY <1>1, FoundIsOnly, FoundIsRead DEF PublishDraft
<1>3. /\ posts'[k] = PublishedRow(posts[k]) /\ PublishedRow(posts[k]).status = "published"
      /\ PublishedRow(posts[k]).fed = posts[k].fed
  BY <1>1, <1>2 DEF PutPost, PublishedRow, Row, IInv, TypeOK
<1>4. PublishedRow(posts[k]) \in Row
  <2>1. PublishedRow(posts[k]).body \in Content
    BY <1>1, <1>2 DEF PublishedRow, PublishedBody, Combine, Content, Row, IInv, RowsSound, RowSound
  <2>2. QED
    BY <1>2, <2>1 DEF PublishedRow, Row
<1>5. Reads(s, PublishedRow(posts[k]))
  BY <1>1, <1>2, <1>4, PutMovesOneStage DEF Reads
<1>6. QED
  BY <1>1, <1>2, <1>3, <1>4, <1>5

\* ...a published post changes and stays published, its federation as it was...
LEMMA UpdatePostEffect ==
    ASSUME IInv, IInv', NEW s \in Slug, NEW kind \in Kind, NEW body \in Text,
           UpdatePost(s, kind, body)
    PROVE  /\ PostAt(s) \in Row /\ PostAt(s).status = "published"
           /\ posts'[Canonical(s)] \in Row /\ posts'[Canonical(s)].status = "published"
           /\ posts'[Canonical(s)].fed = PostAt(s).fed
           /\ Reads(s, posts'[Canonical(s)])
<1> DEFINE edited(k) == [posts[k] EXCEPT !.kind = kind, !.body = body, !.quote = (kind = "quote")]
<1>1. PICK k \in Key : /\ Found(s, k) /\ posts[k].status = "published"
                       /\ posts' = [posts EXCEPT ![k] = NoRow, ![Canonical(s)] = edited(k)]
  BY DEF UpdatePost
<1>2. /\ k[2] = s /\ posts[k] \in Row /\ posts[k] # NoRow /\ KeysOf(s) \subseteq {k}
      /\ k = Canonical(s) /\ PostAt(s) = posts[k]
  BY <1>1, FoundIsOnly, FoundIsRead DEF UpdatePost
<1>3. edited(k) \in Row /\ edited(k).status = posts[k].status /\ edited(k).fed = posts[k].fed
  BY <1>2 DEF Row, Content
<1> HIDE DEF edited
<1>4. PutPost(k, edited(k)) /\ posts'[k] = edited(k)
  BY <1>1, <1>2 DEF PutPost, IInv, TypeOK
<1>5. Reads(s, edited(k))
  BY <1>2, <1>3, <1>4, PutMovesOneStage DEF Reads
<1>6. QED
  BY <1>1, <1>2, <1>3, <1>4, <1>5

\* ...a post's federation record is replaced...
LEMMA SetFederationEffect ==
    ASSUME IInv, IInv', NEW s \in Slug, NEW fed \in Federation, SetFederation(s, fed)
    PROVE  PostAt(s) \in Row /\ Reads(s, [PostAt(s) EXCEPT !.fed = fed])
<1>1. PICK k \in Key : Found(s, k) /\ PutPost(k, [posts[k] EXCEPT !.fed = fed])
  BY DEF SetFederation
<1>2. /\ k[2] = s /\ posts[k] \in Row /\ posts[k] # NoRow /\ KeysOf(s) \subseteq {k}
      /\ PostAt(s) = posts[k]
  BY <1>1, FoundIsOnly, FoundIsRead
<1>3. [posts[k] EXCEPT !.fed = fed] \in Row
  BY <1>2 DEF Row
<1>4. QED
  BY <1>1, <1>2, <1>3, PutMovesOneStage DEF Reads

\* ...a permalink is added to it, which marks it set...
LEMMA RemoteURLEffect ==
    ASSUME IInv, IInv', NEW s \in Slug, SetFederationRemoteURL(s)
    PROVE  \E fed \in Federation :
             fed.set /\ PostAt(s) \in Row /\ Reads(s, [PostAt(s) EXCEPT !.fed = fed])
<1>1. PICK fed \in Federation : fed.set /\ SetFederation(s, fed)
  BY RemoteURLIsSetFederation
<1>2. QED
  BY <1>1, SetFederationEffect

\* ...and a post is gone.
LEMMA DeletePostEffect ==
    ASSUME IInv, IInv', NEW s \in Slug, DeletePost(s)
    PROVE  PostAt(s) \in Row /\ Reads(s, NoRow)
<1>1. PICK k \in Key : Found(s, k) /\ PutPost(k, NoRow)
  BY DEF DeletePost
<1>2. k[2] = s /\ KeysOf(s) \subseteq {k} /\ PostAt(s) \in Row
  BY <1>1, FoundIsOnly, FoundIsRead
<1>3. QED
  BY <1>1, <1>2, PutMovesOneStage DEF Reads

\* Nothing else changes what is stored, but the rewrite: see StartKeepsPosts.
LEMMA QuietSteps ==
    ASSUME Stop \/ (\E b \in Base : Configure(b)) \/ UNCHANGED storeVars
    PROVE  \A s \in Slug : PostAt(s)' = PostAt(s)
<1>1. posts' = posts
  BY DEF Stop, Configure, storeVars
<1>2. QED
  BY <1>1 DEF PostAt, KeysOf

\* The rewrite: what each slug reads is what it read before.
LEMMA StartKeepsPosts ==
    ASSUME IInv, IInv', Start
    PROVE  \A s \in Slug : PostAt(s)' = PostAt(s)
<1> SUFFICES ASSUME NEW s \in Slug PROVE PostAt(s)' = PostAt(s)
  OBVIOUS
<1> DEFINE c == Canonical(s)
<1>1. c \in Key /\ c[1] = baseURL /\ c[2] = s
  BY KeyFacts DEF Canonical, IInv, TypeOK
<1>2. \A k \in Key : k[2] = s /\ k # c => posts'[k] = NoRow
  <2> SUFFICES ASSUME NEW k \in Key, k[2] = s, k # c PROVE posts'[k] = NoRow
    OBVIOUS
  <2>1. k[1] # baseURL
    BY KeyFacts DEF Canonical
  <2>2. QED
    BY <2>1, RewriteResult DEF Start
<1> HIDE DEF c
<1>3. CASE LegacyKeys(s) = {} /\ posts'[c] = posts[c]
  <2>1. \A k \in Key : k[2] = s => posts'[k] = posts[k]
    <3> SUFFICES ASSUME NEW k \in Key, k[2] = s PROVE posts'[k] = posts[k]
      OBVIOUS
    <3>1. CASE k = c
      BY <1>3, <3>1
    <3>2. CASE k # c
      <4>1. k[1] # baseURL
        BY <1>1, <3>2, KeyFacts
      <4>2. posts[k] = NoRow
        BY <1>3, <4>1 DEF LegacyKeys, KeysOf
      <4>3. QED
        BY <1>2, <3>2, <4>2
    <3>3. QED
      BY <3>1, <3>2
  <2>2. QED
    BY <2>1, PostAtUnchanged
<1>4. CASE \E l \in Key : KeysOf(s) = {l} /\ posts[l] \in Row /\ posts'[c] = posts[l]
  <2>1. PICK l \in Key : KeysOf(s) = {l} /\ posts[l] \in Row /\ posts'[c] = posts[l]
    BY <1>4
  <2>2. PostAt(s) = posts[l] /\ PostAt(s)' = posts'[c]
    BY <1>1, <2>1, PostAtFacts, PostAtNext
  <2>3. QED
    BY <2>1, <2>2
<1>5. QED
  BY <1>1, <1>3, <1>4, RewriteResult DEF Start

\* Stages are a function of what readers see.
LEMMA SamePostsSameStage ==
    ASSUME \A s \in Slug : PostAt(s)' = PostAt(s)
    PROVE  stageBar' = stageBar
BY DEF stageBar, StageOf

\* Every step of the store is a move of the life cycle or a stutter.
LEMMA NextRefines ==
    ASSUME IInv, IInv', [Next]_storeVars
    PROVE  [Lifecycle!LifecycleNext]_stageBar
<1>1. ASSUME NEW s \in Slug, NEW kind \in Kind, NEW body \in Text, CreatePost(s, kind, body)
      PROVE  [Lifecycle!LifecycleNext]_stageBar
  BY <1>1, CreatePostEffect, StageMove DEF Reads
<1>2. ASSUME NEW s \in Slug, NEW kind \in Kind, NEW body \in Text, UpdatePost(s, kind, body)
      PROVE  [Lifecycle!LifecycleNext]_stageBar
  BY <1>2, UpdatePostEffect, StageMove DEF Reads
<1>3. ASSUME NEW s \in Slug, NEW kind \in Kind, NEW title \in Text, NEW body \in Text,
             SaveDraft(s, kind, title, body)
      PROVE  [Lifecycle!LifecycleNext]_stageBar
  <2>1. PICK r \in Row :
          /\ r.status = "draft" /\ Reads(s, r)
          /\ (PostAt(s) = NoRow \/ (PostAt(s) \in Row /\ PostAt(s).status = "draft"))
    BY <1>3, SaveDraftEffect
  <2>2. QED
    BY <2>1, StageMove DEF Reads
<1>4. ASSUME NEW s \in Slug, PublishDraft(s)
      PROVE  [Lifecycle!LifecycleNext]_stageBar
  BY <1>4, PublishDraftEffect, StageMove DEF Reads
<1>5. ASSUME NEW s \in Slug, NEW fed \in Federation, SetFederation(s, fed)
      PROVE  [Lifecycle!LifecycleNext]_stageBar
  <2>1. PostAt(s) \in Row /\ Reads(s, [PostAt(s) EXCEPT !.fed = fed])
    BY <1>5, SetFederationEffect
  <2>2. /\ [PostAt(s) EXCEPT !.fed = fed] \in Row
        /\ [PostAt(s) EXCEPT !.fed = fed].status = PostAt(s).status
    BY <2>1 DEF Row
  <2>3. QED
    BY <2>1, <2>2, StageMove DEF Reads
<1>6. ASSUME NEW s \in Slug, SetFederationRemoteURL(s)
      PROVE  [Lifecycle!LifecycleNext]_stageBar
  BY <1>5, <1>6, RemoteURLIsSetFederation
<1>7. ASSUME NEW s \in Slug, DeletePost(s)
      PROVE  [Lifecycle!LifecycleNext]_stageBar
  BY <1>7, DeletePostEffect, StageMove DEF Reads
<1>8. CASE Stop \/ (\E b \in Base : Configure(b)) \/ UNCHANGED storeVars
  BY <1>8, QuietSteps, SamePostsSameStage
<1>9. CASE Start
  BY <1>9, StartKeepsPosts, SamePostsSameStage
<1>10. QED
  BY <1>1, <1>2, <1>3, <1>4, <1>5, <1>6, <1>7, <1>8, <1>9, FederationInputs DEF Next

\* The empty store has every slug absent.
LEMMA InitRefines == Init => Lifecycle!LifecycleInit
<1> SUFFICES ASSUME Init PROVE stageBar = [s \in Slug |-> "absent"]
  BY DEF Lifecycle!LifecycleInit, stageBar
<1>1. \A s \in Slug : KeysOf(s) = {}
  BY DEF Init, KeysOf
<1>2. \A s \in Slug : PostAt(s) = NoRow
  BY <1>1 DEF PostAt
<1>3. QED
  BY <1>2 DEF stageBar, StageOf

\* The store implements the life cycle of a slug, through every migration.
THEOREM RefinesLifecycle == Spec => LifecycleSpec
<1>1. IInv /\ IInv' /\ [Next]_storeVars => [Lifecycle!LifecycleNext]_stageBar
  BY NextRefines
<1>2. QED
  BY <1>1, InitRefines, SpecInvariant, PTL
     DEF Spec, LifecycleSpec, Lifecycle!LifecycleSpec, stageBar

\* The startup rewrite loses, merges and alters no post.
THEOREM RewriteIsSafe == Spec => RewriteKeepsPosts
<1>1. IInv /\ IInv' /\ [Next]_storeVars
        => [~up /\ up' => \A s \in Slug : PostAt(s)' = PostAt(s)]_storeVars
  <2> SUFFICES ASSUME IInv, IInv', [Next]_storeVars, ~up /\ up'
               PROVE  \A s \in Slug : PostAt(s)' = PostAt(s)
    OBVIOUS
  <2>1. Start
    BY DEF Next, storeVars, CreatePost, UpdatePost, SaveDraft, PublishDraft, SetFederation,
           SetFederationRemoteURL, DeletePost, Stop, Configure
  <2>2. QED
    BY <2>1, StartKeepsPosts
<1>2. QED
  BY <1>1, SpecInvariant, PTL DEF Spec, RewriteKeepsPosts
=============================================================================
