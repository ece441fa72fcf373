------------------------------ MODULE PostStore ------------------------------
(***************************************************************************)
(* The post and outbox buckets of internal/outbox.  One action per bolt    *)
(* write transaction, so every interleaving of the HTTP handlers, the      *)
(* background resolver and the backfill is an interleaving of these        *)
(* actions.  A bucket maps a post IRI, here the pair <<base URL, slug>>,   *)
(* to a row or to nothing.                                                 *)
(***************************************************************************)
CONSTANTS
    Base,       \* base URLs the site has been configured with
    Slug,       \* UUID path segments
    Text,       \* trimmed titles and bodies
    Blank,      \* the empty text
    NoteFits,   \* texts within NoteMaxRunes
    NoRow       \* what Get returns for a missing key

Kind == {"note", "article", "quote"}

\* An article body may be a title joined to a body: see Combine.
Content == Text \union (Text \X Text)

Federation == [set: BOOLEAN, shared: BOOLEAN, error: BOOLEAN, remote: BOOLEAN]

Row == [kind: Kind, title: Text, body: Content, quote: BOOLEAN,
        status: {"draft", "published"}, fed: Federation]

\* The Create stored in the outbox, reduced to the object it carries.
Activity == [kind: Kind, body: Content]

ASSUME BlankAssumption == Blank \in Text
ASSUME NoteFitsAssumption == NoteFits \subseteq Text
ASSUME NoRowAssumption == NoRow \notin Row /\ NoRow \notin Activity

Key == Base \X Slug

VARIABLES
    posts,      \* bucket "posts"
    outbox,     \* bucket "outbox"
    baseURL,    \* the configured base URL
    up,         \* the server holds the database; otherwise the CLI may
    used        \* slugs that some row has had: uuid.NewString avoids them

storeVars == <<posts, outbox, baseURL, up, used>>

NoFederation == [set |-> FALSE, shared |-> FALSE, error |-> FALSE, remote |-> FALSE]

\* The three records that callers pass to SetFederation.
NotShared == [NoFederation EXCEPT !.set = TRUE]
SharedOk == [NotShared EXCEPT !.shared = TRUE]
SharedError == [SharedOk EXCEPT !.error = TRUE]

Delivered(row) == row.fed.set /\ row.fed.shared /\ ~row.fed.error

Combine(title, body) ==
    IF title = Blank THEN body ELSE IF body = Blank THEN title ELSE <<title, body>>

\* The validation that every publishing path shares.
Valid(kind, body) == body # Blank /\ (kind = "note" => body \in NoteFits)

\* Mutant: the row itself is stored as its activity.
WholeRow(row) == row

ActivityOf(row) == [kind |-> row.kind, body |-> row.body]

Canonical(s) == <<baseURL, s>>

KeysOf(s) == {k \in Key : k[2] = s /\ posts[k] # NoRow}

\* lookupPostKeyTx: the canonical key when it has a row, else one found by suffix.
Found(s, k) == k \in KeysOf(s) /\ (posts[Canonical(s)] # NoRow => k = Canonical(s))

PutPost(k, row) == posts' = [posts EXCEPT ![k] = row]
\* Mutant: the outbox entry is forgotten.
PutRowOnly(k, row) == PutPost(k, row) /\ UNCHANGED outbox

PutBoth(k, row) == PutPost(k, row) /\ outbox' = [outbox EXCEPT ![k] = ActivityOf(row)]

-----------------------------------------------------------------------------
Init ==
    /\ posts = [k \in Key |-> NoRow]
    /\ outbox = [k \in Key |-> NoRow]
    /\ baseURL \in Base
    /\ up = FALSE
    /\ used = {}

\* createPost: the compose handler, the import handler and the import command.
CreatePost(s, kind, body) ==
    /\ s \notin used
    /\ Valid(kind, body)
    /\ PutBoth(Canonical(s),
               [kind |-> kind, title |-> Blank, body |-> body, quote |-> kind = "quote",
                status |-> "published", fed |-> NoFederation])
    /\ used' = used \union {s}
    /\ UNCHANGED <<baseURL, up>>

\* Mutant: a save by UUID overwrites whatever is there.
SaveUnguarded(s, kind, title, body) ==
    /\ up
    /\ kind # "quote"
    /\ title # Blank \/ body # Blank
    /\ PutPost(Canonical(s),
               [kind |-> kind, title |-> title, body |-> body, quote |-> FALSE,
                status |-> "draft", fed |-> NoFederation])
    /\ used' = used \union {s}
    /\ UNCHANGED <<outbox, baseURL, up>>

\* SaveDraft: an upsert by the client's UUID; the outbox is left alone.
SaveDraft(s, kind, title, body) ==
    /\ up
    /\ kind # "quote"
    /\ title # Blank \/ body # Blank
    /\ \/ /\ KeysOf(s) = {}
          /\ PutPost(Canonical(s),
                     [kind |-> kind, title |-> title, body |-> body, quote |-> FALSE,
                      status |-> "draft", fed |-> NoFederation])
       \/ \E k \in Key :
            /\ Found(s, k)
            /\ posts[k].status = "draft"
            /\ PutPost(k, [posts[k] EXCEPT !.kind = kind, !.title = title, !.body = body])
    /\ used' = used \union {s}
    /\ UNCHANGED <<outbox, baseURL, up>>

PublishedBody(row) == IF row.kind = "article" THEN Combine(row.title, row.body) ELSE row.body

\* The row PublishDraft writes; the federation record of the draft is kept.
PublishedRow(row) ==
    [row EXCEPT !.body = PublishedBody(row), !.title = Blank, !.status = "published"]

\* Mutant: publishing a published post succeeds.
PublishAgain(s) ==
    /\ up
    /\ \E k \in Key :
        /\ Found(s, k)
        /\ Valid(posts[k].kind, PublishedBody(posts[k]))
        /\ PutBoth(k, PublishedRow(posts[k]))
    /\ UNCHANGED <<baseURL, up, used>>

PublishDraft(s) ==
    /\ up
    /\ \E k \in Key :
        /\ Found(s, k)
        /\ posts[k].status = "draft"
        /\ Valid(posts[k].kind, PublishedBody(posts[k]))
        /\ PutBoth(k, PublishedRow(posts[k]))
    /\ UNCHANGED <<baseURL, up, used>>

\* Mutant: an edit changes the kind and keeps the quote fields.
UpdateKeepsQuote(s, kind, body) ==
    /\ up
    /\ Valid(kind, body)
    /\ \E k \in Key :
        /\ Found(s, k)
        /\ posts[k].status = "published"
        /\ PutBoth(Canonical(s), [posts[k] EXCEPT !.kind = kind, !.body = body])
    /\ UNCHANGED <<baseURL, up, used>>

\* updatePost: moves the row to the canonical key when it is found elsewhere.
UpdatePost(s, kind, body) ==
    /\ up
    /\ Valid(kind, body)
    /\ \E k \in Key :
        /\ Found(s, k)
        /\ posts[k].status = "published"
        /\ LET row == [posts[k] EXCEPT !.kind = kind, !.body = body, !.quote = (kind = "quote")]
           IN  /\ posts' = [posts EXCEPT ![k] = NoRow, ![Canonical(s)] = row]
               /\ outbox' = [outbox EXCEPT ![k] = NoRow, ![Canonical(s)] = ActivityOf(row)]
    /\ UNCHANGED <<baseURL, up, used>>

\* SetFederation replaces the whole record, of a draft too.
SetFederation(s, fed) ==
    /\ \E k \in Key : Found(s, k) /\ PutPost(k, [posts[k] EXCEPT !.fed = fed])
    /\ UNCHANGED <<outbox, baseURL, up, used>>

SetFederationRemoteURL(s) ==
    /\ up
    /\ \E k \in Key :
        /\ Found(s, k)
        /\ PutPost(k, [posts[k] EXCEPT !.fed.set = TRUE, !.fed.remote = TRUE])
    /\ UNCHANGED <<outbox, baseURL, up, used>>

\* Mutant: the outbox entry survives its post.
DeleteRowOnly(s) ==
    /\ up
    /\ \E k \in Key : Found(s, k) /\ PutPost(k, NoRow)
    /\ UNCHANGED <<outbox, baseURL, up, used>>

DeletePost(s) ==
    /\ up
    /\ \E k \in Key :
        /\ Found(s, k)
        /\ PutPost(k, NoRow)
        /\ outbox' = [outbox EXCEPT ![k] = NoRow]
    /\ UNCHANGED <<baseURL, up, used>>

-----------------------------------------------------------------------------
\* The process ends, cleanly or not: bolt keeps what was committed.
Stop == up /\ up' = FALSE /\ UNCHANGED <<posts, outbox, baseURL, used>>

\* The operator edits the configuration between two runs.
Configure(b) ==
    /\ ~up
    /\ baseURL' = b
    /\ UNCHANGED <<posts, outbox, up, used>>

LegacyKeys(s) == {k \in KeysOf(s) : k[1] # baseURL}

\* Mutant: rows are copied to the current base URL and stay where they were.
RewriteCopies ==
    /\ posts' = [k \in Key |->
         IF k[1] = baseURL /\ LegacyKeys(k[2]) # {}
         THEN posts[CHOOSE l \in LegacyKeys(k[2]) : TRUE] ELSE posts[k]]
    /\ UNCHANGED outbox

\* Mutant: drafts are skipped, their legacy rows deleted with the others.
RewritePublishedOnly ==
    /\ posts' = [k \in Key |->
         LET moved == {l \in LegacyKeys(k[2]) : posts[l].status = "published"} IN
         IF k[1] # baseURL THEN NoRow
         ELSE IF moved = {} THEN posts[k] ELSE posts[CHOOSE l \in moved : TRUE]]
    /\ UNCHANGED outbox

\* RewritePostBaseURLs: rows keyed under another base URL move to the current
\* one, and each gets a Create there, a draft too.
Rewrite ==
    /\ posts' = [k \in Key |->
         IF k[1] # baseURL THEN NoRow
         ELSE IF LegacyKeys(k[2]) = {} THEN posts[k]
         ELSE posts[CHOOSE l \in LegacyKeys(k[2]) : TRUE]]
    /\ outbox' = [k \in Key |->
         IF LegacyKeys(k[2]) = {} THEN outbox[k]
         ELSE IF k[1] = baseURL THEN ActivityOf(posts[CHOOSE l \in LegacyKeys(k[2]) : TRUE])
         ELSE IF k \in LegacyKeys(k[2]) THEN NoRow
         ELSE outbox[k]]

\* The server migrates the store before it serves, and does not serve on error.
Start ==
    /\ ~up
    /\ Rewrite
    /\ up' = TRUE
    /\ UNCHANGED <<baseURL, used>>

Next ==
    \/ \E s \in Slug, kind \in Kind, body \in Text :
          CreatePost(s, kind, body) \/ UpdatePost(s, kind, body)
    \/ \E s \in Slug, kind \in Kind, title \in Text, body \in Text :
          SaveDraft(s, kind, title, body)
    \/ \E s \in Slug : PublishDraft(s) \/ SetFederationRemoteURL(s) \/ DeletePost(s)
    \/ \E s \in Slug, fed \in {NotShared, SharedOk, SharedError} : SetFederation(s, fed)
    \/ Stop
    \/ \E b \in Base : Configure(b)
    \/ Start

Spec == Init /\ [][Next]_storeVars

-----------------------------------------------------------------------------
(***************************************************************************)
(* Properties.                                                             *)
(***************************************************************************)

\* The buckets hold well-formed rows and activities under well-formed keys.
TypeOK ==
    /\ posts \in [Key -> Row \union {NoRow}]
    /\ outbox \in [Key -> Activity \union {NoRow}]
    /\ baseURL \in Base
    /\ up \in BOOLEAN
    /\ used \in SUBSET Slug

\* A slug never has rows under two base URLs.
OneRowPerSlug ==
    \A k, l \in Key : posts[k] # NoRow /\ posts[l] # NoRow /\ k[2] = l[2] => k = l

\* While the server runs, rows and activities sit under the current base URL.
CanonicalWhileUp ==
    up => \A k \in Key : posts[k] # NoRow \/ outbox[k] # NoRow => k[1] = baseURL

\* Keys are unique and, while the server runs, canonical: the suffix scan of
\* lookupPostKeyTx never has a choice, the rewrite never merges two posts, and the
\* key a handler looked up before its transaction cannot be a legacy one.
KeysCanonical == OneRowPerSlug /\ CanonicalWhileUp

\* A published post has its Create stored under the post's own key, carrying the
\* post's current kind and body: LoadCreate and GET /outbox depend on it.
CreateMirrorsPublished ==
    \A k \in Key : posts[k] # NoRow /\ posts[k].status = "published"
                     => outbox[k] = ActivityOf(posts[k])

\* No activity outlives its post: GET /outbox lists an entry whose post is gone.
NoOrphanActivity == \A k \in Key : outbox[k] # NoRow => posts[k] # NoRow

\* The two buckets agree, in whatever order posts are drafted, published, edited,
\* moved to another base URL and deleted.
OutboxMirrorsPosts == CreateMirrorsPublished /\ NoOrphanActivity

SoundlyPublished(row) ==
    /\ Valid(row.kind, row.body)
    /\ row.title = Blank
    /\ row.quote = (row.kind = "quote")

\* Whichever way a post got published, it passed the checks that gate publishing,
\* and it has quote fields exactly when it is a quote post.
PublishedIsValid ==
    \A k \in Key : posts[k] # NoRow /\ posts[k].status = "published"
                     => SoundlyPublished(posts[k])

\* What a reader of slug s gets, whatever key it is under.
PostAt(s) == IF KeysOf(s) = {} THEN NoRow ELSE posts[CHOOSE k \in KeysOf(s) : TRUE]

\* The startup rewrite changes keys only: no post is lost, merged or altered.
RewriteKeepsPosts == [][~up /\ up' => \A s \in Slug : PostAt(s)' = PostAt(s)]_storeVars

StageOf(s) == IF PostAt(s) = NoRow THEN "absent" ELSE PostAt(s).status

\* The store implements the life cycle of a slug: published is never draft again.
Lifecycle == INSTANCE PostLifecycle WITH stage <- [s \in Slug |-> StageOf(s)]
LifecycleSpec == Lifecycle!LifecycleSpec
=============================================================================
