# nitpub in TLA+

nitpub is a single-author ActivityPub blog: one Go binary (`cmd/nitpub`), one
bbolt file, a Vue front end. This directory holds TLA+ models of its stateful
core, TLC runs that check them on small instances, and TLAPS proofs of what
matters most for instances of every size. Each of the larger components has an
abstract specification of what it promises, which TLC and TLAPS show it to implement.

Everything the server stores lives in bbolt. A `db.Update` is one serialised,
atomic transaction and a `db.View` reads one snapshot; the HTTP handlers, the
background goroutines and the startup code run concurrently around them. So a
write transaction is one atomic action in these modules, a handler that uses
several is several actions with a program counter between them, and a crash may
fall between any two.

## Inventory

| part | state | operations | what is hard |
|---|---|---|---|
| post store (`internal/outbox`) | buckets `posts`, `outbox`, keyed by post IRI | create, autosave, publish, edit, record federation, delete, startup rewrite of keys | draft/published transitions under races, keys after a base-URL change, the outbox mirroring the posts |
| publishing (`internal/api` handlers, `federation_publish.go`, `outbox/backfill.go`, `federation/deliver.go`) | the requests in flight | flush + publish, fan-out, record, resolve permalink, backfill, redeliver | several transactions per request, lost answers, stale lists, crashes |
| inbox (`internal/inbox`) and moderation (`internal/moderation`) | buckets `replies`, two indexes, trusted and blocked actors, the migration marker | ingest a reply, moderate, revert, migrate old replies once | redelivered activities, decisions racing with ingestion, a migration that is interrupted |
| followers and accepts (`internal/apstore`, `inbox.go`, `federation/resend.go`, `accept.go`) | buckets `followers`, `inbox` | follow, accept, resend all accepts | partial failure, reused ids |
| key fetching (`federation/keyfetch.go`, `verify.go`) | bucket `key_fetch`, cached actors | queue a key, fetch, retry up to five times, give up | a list read before slow network calls, crashes, retries |
| rate limit (`inbox/ratelimit.go`, in front of the inbox and of the admin's login) | event times per address, in memory | allow | the window's boundary, what refused calls count for |
| search (`internal/search`) | an in-memory index | rebuild, query | two rebuilds finishing in the wrong order |
| admin authentication (`internal/auth`, `api/auth.go`, `admin_security.go`, `webauthn_handlers.go`) | one admin record, sessions, pending logins, enrolment links, passkey ceremonies in memory | login, second factor, logout, settings, password, backup codes, enrolment, offline commands | read-modify-write in separate transactions, a logout between a read and a write of a session |
| reader sign-in (`internal/commentauth`, `api/comment_oauth.go`) and reference instance (`internal/mastodon`, `api/admin_reference.go`) | pending sign-ins, sessions, app registrations, the browser's cookies, the grant | start, callback, reply, status, logout, connect, disconnect | concurrent callbacks, calls that succeed unheard, a token that nobody holds any more, two registrations of one app |
| installation and host commands (`cmd/nitpub`, `internal/hostinstall`, `internal/store`) | systemd unit, binary, config, Caddyfile, site file, database lock and owner | install, admin, telemetry, federation, import, update | commands that stop the service and fail, an installer run that ends halfway, two processes and one database |
| telemetry (`internal/telemetry`) | identity, flags, last-sent time | register, enable, heartbeat | concurrent registration, disable against enable |
| site content, media, icons, link preview, analytics, update check, web front end, documentation site | files, caches | | no interleaving of stored state worth checking |

How they interact: the handlers in `internal/api` call the store and then the
federation package, with no transaction around both; the inbox writes followers
and replies and delivers accepts; publishing reads the followers that the inbox
stored; backfill and redelivery (admin endpoint and command line) read the posts
that publishing left undelivered; the startup code migrates posts and replies
before the server listens, while the key-fetch goroutine already runs. Only one
process can have the database open, so a command given `--offline` stops the
service, works, and starts it again; the installer runs such commands itself.
The reference instance and the readers' sign-in share the client code and differ
in where they keep what they have registered.

What makes each part correct is stated in its module under "Properties" and
summarised below; `PROJECT.json` lists every hazard of the code with the
properties that would catch it.

## Modules

| module | models | composed of |
|---|---|---|
| `PostLifecycle` | the promise of the post store: per slug absent, draft, published | |
| `PostStore` | `internal/outbox`, one action per write transaction, start and stop | implements `PostLifecycle` |
| `Announcing` | the promise of publishing: what is told was shown, what is marked delivered was told to all | |
| `Publishing` | the publishing handlers, delivery, record, permalink resolution, backfill, redelivery | extends `PostStore`, implements `Announcing` |
| `Conversation` | the promise of the replies: one per activity, in its thread, changed by decisions only | |
| `Moderation` | reply ingestion, moderation, lists, setting, migration | implements `Conversation` |
| `Followers` | Follow requests, accepts, the resend | |
| `SlidingWindow` | the promise of a rate limiter, told with its whole past | |
| `RateLimit` | the limiter's lists, which forget | implements `SlidingWindow` |
| `RetryQueue` | the promise of the key queue: failures counted one by one, keys leave for a reason | |
| `KeyFetch` | the key-fetch queue and its goroutine | implements `RetryQueue` |
| `Host` | the service unit, the binary, the database lock, the commands beside the service | |
| `Install` | the steps of `nitpub install`, three of which are commands | extends `Host` |
| `Session` | a bucket of sessions: read, extend, write back, delete, expire | |
| `AdminAuth` | the admin record and every handler and command that changes it, logins, enrolment | extends `Session` |
| `TokenLife` | the promise of the sign-ins: a token is placed once, and not after it was revoked or lost | |
| `CommentAuth` | visitors' sign-in and comments, the reference instance | implements `TokenLife` |
| `MC...` | model values, inputs and symmetry for TLC | extend the above |
| `...Proofs` | theorems | extend the above |

### PostStore

`posts` and `outbox` are functions from keys `<<base URL, slug>>`, which is how
an IRI is told apart; `used` are slugs that some row has had. A row has kind,
title, body, quote flag, status and federation record. Each public write of
`outbox.go` is one action with its early returns as guards: `CreatePost`,
`SaveDraft`, `PublishDraft`, `UpdatePost`, `SetFederation`,
`SetFederationRemoteURL`, `DeletePost`. `Found` is the key lookup with its suffix
scan. Some functions look their key up in one transaction and write in the next;
they are one action here because a running server meets canonical keys only
(`CanonicalWhileUp`, proved), so nothing can move in between; a command-line
import runs with the server stopped. `Start` is
`RewritePostBaseURLs` as `server.New` runs it, `Stop` a crash, `Configure` an
edit of the base URL. The rendering of activities is reduced to kind and body,
which are what an activity must agree with its post on. `Valid` is
`ValidateNoteContent`: the bodies in the constant `NoteFits` fit a note.

### Publishing

A worker is a request (or the command that redelivers). It has a program counter
and a job: the row it read, what it still has to deliver to, what failed. The
publish handler is `PublishFlush` (the body is saved first) or `PublishPlain`,
then `PublishFlushed` (the publish transaction) or `PublishRefused`, then
`DeliverOne` for each inbox, then `RecordDelivery`. A request keeps the row without
its federation record (`Carried`), which no later step of it reads. An exchange with
an inbox has one of three outcomes: taken, refused, or taken with the answer lost.
`RecordFails` is a request whose record cannot be written: `Complete` drops that
error beside the one it reports, or returns it, and either way the request ends with
502 and the post stays undecided. `interrupted` remembers such posts and those whose
request a crash took; they are what `UndecidedHasWorker` and `FederationDecided`
leave out. The other error that `Complete` records, of building the activity, cannot
come up: `FederatedActivity` never returns one.
`StartLoop`, `LoopSkip`, `LoopDeliver`, `LoopRecord` are backfill and redelivery
over the list they read once. `Resolve` is the goroutine that looks for
permalinks. `Crash` drops every request. `received`, `everPublished`,
`everDeleted` and `interrupted` are history variables; no action reads them.
Abstracted: the followers are fixed during a run (`Inbox`), the configured base
URL too (`PostStore` covers its changes), what a quote request carries is its kind and
the body built of its fields (the runs type notes and articles, `PostStore_pair` has
quotes too, and the theorems every kind), an update and a create are one kind of
activity in `received`. `Announcing` looks at it through what readers could see
(`everPublished`), what followers got (`received`) and the slugs whose post is marked
delivered.

### Moderation

No code deletes a reply, so the `replies` bucket is a sequence in commit order
and a position stands for a composite key. A worker is a `POST /inbox` with a
reply: `ReceiveDirect` or `ReceiveNested` (which looks the parent up), then
`ReadSetting`, `Classify`, `Save`, each a transaction or a read of its own.
`SetReplyStatus`, the four list operations and `ToggleModeration` are the admin.
`BootMigrated`, `Scan`, `MigrateOne`, `MigrationFails`, `SetBackfillMarker` and
`Serve` are the startup migration, whose failure lets the server run without the
marker. `existing` are the slugs that the scan resolved to a post. `grounds` is
a history variable: the facts that held at some time since a request arrived.
Abstracted: text and its sanitising, the ordering value, a failing read of the
lists; a settings read that fails counts as moderation on, as in the code.
`Conversation` looks at the bucket through the index by activity (`ReplyOf`): a row
that the index does not lead to would not exist for it.

### Followers

`HandleFollow`, `SaveInboxActivity` (its error ignored), `AddFollower` (its
error a 500), `DeliverAccept` are the steps of one request; `ResendAccepts`,
`ResendOne`, `ResendStops`, `ResendDone` those of the admin's resend, in any
order of the bucket. The actor who signed a request and the one that its activity
names are two things: the code verifies the signature and never compares them. The
follower and its inbox are the signer's; the raw activity is stored as it came, and
`FollowToAnswer` finds it by the actor it names. `Incoming` is the set of Follows that
may come: who signs, whom it names (`Absent` for nobody), its id. `NoId` covers a
missing and an empty id. A Follow that names nobody, or has no id, is one for which no
Accept can be built. An exchange may be taken and its answer lost. Abstracted: the
checking of signatures; signers whose document has no inbox, for whom the code guesses
one from the actor named; what the rate limit refuses does not come in. `signed` and
`accepted` are history variables: an Accept is remembered with its addressee, the id it
answers and the actor named in it.

### RateLimit

`buckets` has, per address, the calls that the code's list has the times of; `Allow`
strikes those that have left the window, then refuses or notes the call, under one
mutex and therefore in one step. `LimiterRestarts` is a new process. `admitted` and
`refused` are the whole past, as history: `SlidingWindow` decides by them, the code
by its lists. The clock is the process's monotonic one and only goes forward.

### KeyFetch

`VerifyFails` queues the key of a request that could not be verified. One
goroutine runs `Tick` (read the list), then per entry `DropKey`, `FetchFails`, or
`CacheRemoteActor` followed by `KeyFetched`, then `PassEnds`. `ActorOf` is the
actor that a key's URL leads to. A failing write of the queue itself is not
modelled: its errors are ignored by the code, and the next tick tries again.

### Host and Install

`Host` is a host as systemd and an administrator see it. `svc` is the state of a
`Restart=on-failure` unit, `svcBin` the release its process was started from,
`bin` the one on disk; `lock` is bbolt's exclusive lock, for which a server waits
three seconds and an offline command as long as it takes. A command is `Probe`,
`StopService` or `StopRefused`, `OpenStore` or `OpenFails`, `Work`,
`RestartService`; an update is `Fetch`, `InstallBinary`, `ReloadBinary` or
`ReloadFails`; `Kill` ends either anywhere. `dbOwner` and `readable` are the two
permissions that decide whether the service can run: a database created by a
command given as root, and a config its user cannot read. `excused` is a history
variable: nobody owes the service a start, since it was stopped by hand, its start
failed, or the command that owed it was killed.

`Install` has one action per step of `runInstall`, in its order, each skipped when its
result is there and each able to fail (`Fail`). `EnsureDataDir` may also leave the
owner of the database as it was and report nothing, for the code ignores a chown that
fails and a user that it cannot find; `chowned` remembers how the last one of a run
went. The commands it runs are processes of `Host`. The installer is root, as
`install.sh` and the documentation ask for: only without root could the check for a
site file that is there (`install_cmd.go:433`) fail for another reason than its
absence. Abstracted: the update from a source tree, flags, prompts and the values of
settings; what a file holds is where it came from (`Origin`).

### Session and AdminAuth

`Session` has a clock. A request reads its session and extends it in memory
(`ReadSession`), writes it back in another transaction (`WriteSession`), and a
logout (`DeleteSession`) may fall between the two and is then undone by the write;
`ended` remembers the sessions whose logout met no request that held them, and only of
those do `LogoutHolds` and `SessionsHold` say that they are over. A logout whose delete
fails leaves the session as it was, which is no step at all.

The account (`rec`) is one record under one key. Every handler that changes it reads
the whole record in one transaction and writes the whole record in another, so
`Handle` (or `Rollback` and `Get`, for those that look at the record first) takes a
copy and `Save` writes the copy with the operation's `Effect`. `alone` are the
requests whose two transactions no other one overlapped: this is what the code can
promise, and what `UpdatesStand` says. A login goes `Login`, `PutPending`, `Verify`
and one of three factors, `DeletePending`, `Grant`; an enrolment `PasskeyEnrollLink`,
`WebAuthnRegisterBegin`, `WebAuthnRegisterFinish`, `Recheck`, `Save`,
`MarkEnrollTokenUsed`. The offline commands act while the server is down. `StoreFails`
is a write that fails and ends its request with an error; that of a pending login's
deletion and that of a link's mark are ignored by the code, and so here. Secrets,
codes, links and ids are random, so fresh ones differ from every one that is still
anywhere. Abstracted: cookies, hashes; the limit on attempts is `RateLimit`'s.

### CommentAuth

A pending sign-in has a random id. The code that the browser comes back with is not
tied to it: a code, the token that it is exchanged for and the session of that
exchange are one `Token`, and `ExchangeToken` takes any code not taken before, as the
callback takes whatever code its query has. `about` is what a request is about: the
sign-in until the exchange, the token from then on. `posted` counts, for each comment,
how often each code posted it (`None`: the token of the cookie). An instance takes a
code once and gives a token of its own for it. `fate` is what has become of a token;
`jar` and `binding` are the cookies of one browser with several tabs: a request
carries those of the moment it is sent, and its answer changes those of the moment it
arrives. `flow` is the handler a request is in and `at` its step: the app
(`RegisterOrGetApp`, `RegisterApp`), the pending (`PutPending`), back from the
instance `CommentAuthCallback`, `DeletePending` (another transaction, whose failure is
only logged), `ExchangeToken`, `PostReply` or `ReplyFails` or `ScopeRejected` and
`Reregister`, and `Remember` or `Unidentified`. A session that is checked is read and
then put back or deleted (`Touch`, `Expire`), here without a clock: whatever can
expire may be found expired. `PendingFails` is a sign-in that cannot be stored. The
reference instance has the same steps up to `PutGrant`, whose failing write forgets
the token it was to keep. Every call to an instance may fail, also after the instance
did what it was asked (`unheard`). Abstracted: what an instance name may look like,
the length of a comment.

## Runs

| run | question | size |
|---|---|---|
| `PostStore_pair` | two slugs, two base URLs: keys unique and canonical, outbox mirrors posts, no path to publication skips the validation, the rewrite loses nothing, refinement of `PostLifecycle` | 85k states |
| `Publishing_race` | two requests, two followers, crashes: one publisher, no undecided post unattended, refinement of `Announcing`, no request that goes round in circles, federation gets decided (fair), records that fail | 127k |
| `Publishing_typed` | violation: an autosave between flush and publish is what gets published | |
| `Moderation_ingest` | two requests, one admin, redeliveries, an activity without id: one reply per activity under both indexes, arrivals have a reason | 920k |
| `Moderation_thread` | nested replies, reused ids, interrupted migrations: refinement of `Conversation`, the marker is honest | 1.4M |
| `Followers_accept` | two actors, shared ids, Follows in another's name, two requests, failures: accepts answer follows that stored followers signed, a successful resend reached everyone | 3.6M |
| `RateLimit_window` | two addresses, a window of two ticks: lists stay short, refinement of `SlidingWindow` | 4.5k |
| `KeyFetch_queue` | three keys, five attempts, crashes: the list stays current, refinement of `RetryQueue`, and keys do leave (fair) | 1.8k |
| `Install_rerun` | two runs of the installer, each step of which may fail, beside another command: nothing that was there is overwritten, a run that ends well is complete, whoever stops the service or replaces its binary starts it again (fair) | 1.3M |
| `Install_config` | violation: the analytics step takes the config from the service | |
| `AdminAuth_updates` | two requests of every kind, failing writes, restarts, offline commands, a session that ends: a logout that meets no copy holds, a session ends a life after it began, an update that nobody overlapped counts | 2.7M |
| `CommentAuth_race` | two tabs and the admin at one instance, two codes, lost answers, refused scopes, restarts: a comment is posted once for each code, a token is forgotten in three stated ways only, the fallback scope stays, the two cookies are of one sign-in, refinement of `TokenLife` | 3.6M |

A model run with `tlc -config <run>.cfg <module>`; the module of each run is in
`PROJECT.json`, together with a mutation of the model for every property of a
passing run: a plausible bug under which TLC finds the property violated. The
mutated forms are the operators whose comment starts with "Mutant".

### Bounds

All bounds are the sizes of constant sets; nothing else is cut off. Two slugs
and two base URLs are what merging and resurrecting rows take; two requests are
what any race in this code takes, since every request touches one slug or one
reply and the store serialises the transactions. Two followers let a delivery
fail in part. Two texts tell an old text from the typed one; in `PostStore_pair`
the only text is too long for a note and fits an article, so that validation has
something to refuse. Two Follow ids for two actors allow shared, replaced and
repeated ids; in `Followers_accept` each of six Follows may come any number of times: two
actors share an id, one signs in the other's name, one names nobody, two have no id. In
`Moderation`, `Listed` limits the actors that the admin puts on
lists, `FreshId` the ids made up for activities that have none. `MaxRelease`,
`MaxRuns` and `MaxTime` bound the releases that come out, the runs of the
installer and the clock: a second run is what a lossless repetition takes, one
new release an update, one tick past a life of zero an expiry. One session,
secret, code and link suffice where the next one is the same story; two sign-ins
are what a browser takes to mix up its cookies, and two codes what two callbacks of one
sign-in take to post twice. `IdsLeft` is the bound there: once every id is taken nobody
begins what needs another one. In `RateLimit`, five calls with
a limit of two, a window of two ticks and `LastTime` five fill a window, let it
slide and fill it again. The limit of five attempts is the code's own. Several
runs split dimensions (texts against requests) that would not fit together; the
theorems have no such split.

### Fairness

Only steps that the program owes are fair: `WF` on each `WorkerStep` in
`Publishing` (a goroutine is scheduled and every HTTP exchange ends with an
answer, an error or the client's timeout) and on the goroutine's steps in
`KeyFetch` (its ticker fires). In `Install`, systemd starts and retries its unit and
a command runs on unless it is killed: `WF` on `Boot` or `BootFails`, on `Retry`
and on each command's `Proceed`. The installer's own steps are not fair, for an
administrator may leave it at any prompt. No request is ever owed, and neither is a start
or a crash. `FederationDecided` therefore excludes posts whose request a crash
took, and those whose record failed; `KeysSettle` assumes that the server comes to stay up.

## Findings

- `Publishing_typed`: saving and publishing are two transactions, so a delayed
  autosave can be published in place of the text that the request carried
  (`internal/api/handlers.go:562` against the comment at line 516).
- `Install_config`: `ensureAnalyticsStep` installs `config.toml` with mode 640 and
  no owner, so a file that the service could read becomes root's alone, and the
  service fails at its next start (`cmd/nitpub/install_cmd.go:478` against
  `deploy/config.toml.example:2`).

Divergences that the models follow and no run singles out:

- `RewritePostBaseURLs` gives a draft an activity in the outbox
  (`outbox.go:622`); the comment on `SaveDraft` and a test say that drafts have none
  (`outbox.go:460`, `outbox_test.go:452`). `GET /outbox` leaves the entry out while
  the draft is not marked delivered.
- `SetFederation` writes on whatever has the slug, also a draft made after the
  post was deleted (`outbox.go:838`): the draft is then marked delivered, and no follower
  got it. `Announcing` marks slugs for that reason: deliveries of an earlier post under
  the slug count too, and `DeliveredReachedAll` speaks of slugs that no post was deleted
  from.
- A record that fails leaves a published post undecided until a backfill, with an error
  that is dropped where another is reported (`federation_publish.go:31,36,48,60`).
- A follower without an id is answered from a raw Follow found by the actor it names,
  which nobody compared with its signer (`apstore.go:123`, `inbox.go:119`): it may get the
  answer to a Follow that somebody else signed in its name. The answer goes to the
  follower's own inbox, and only to one who did sign a Follow.
- A chown that fails, or a user that is not found, is not an error
  (`internal/install/system.go:42,47`): the installation ends well over a database that the
  service may be unable to open, which the chown at `install_cmd.go:213` is there to
  prevent (the comment above it). The exception in `InstalledIsWhole`.
- A request that has read its session puts it back after a logout has deleted it
  (`auth/session.go:73`, `auth/service.go:128`): the logout is undone.
- Two callbacks with one state both pass when the second reads the pending before the
  first deletes it, or when the deletion fails; with a code each, both post the comment
  (`comment_oauth.go:209,216,236`), against "One-time use" at line 215. `PostedOnce` counts
  by code.
- A grant that cannot be stored is answered with an error, and its token is neither kept
  nor revoked (`admin_reference.go:179`).
- Of two overlapping changes of the account the later write undoes the other: a backup
  code may be used twice (`auth/backup.go:40`).
- Public replies are filtered one by one, so an approved nested reply may be
  returned without the parent it names (`moderation.go:329`,
  `public_replies.go:18`).
- `AdminDisconnectReference` says that it revokes the token; it forgets the grant
  (`admin_reference.go:188`).
- After an account lookup that failed, the token comes alone and may meet a session of
  another sign-in, at another instance too (`comment_oauth.go:300`); the comment on
  `TokenCookie` says that it is of the session's instance
  (`commentauth/session.go:21`). This is the exception in `IdentityFits`.

## Theorems

Each proof module follows one pattern: an inductive invariant, a lemma per action
or per kind of step that it is preserved, and theorems that read the properties
off. They hold for every size of the constants, under the assumptions that the
modules state on their constants (distinct sentinels, types of the inputs).

- `PostStoreProofs`: `IInv` adds to the properties that rows belong to used slugs
  and that every row satisfies the validity its kind asks for; without the
  canonical keys, the outbox mirror is not inductive, for an update could write
  an activity beside the one under a legacy key. Proved: types, keys, validity,
  the outbox mirror, the rewrite, and the refinement of `PostLifecycle`.
- `PublishingProofs`: every step of the handlers is a step of the store or leaves
  it alone (`HandlersUseStore`), so what is proved of `PostStore` carries over.
  `PInv` adds what each worker holds: what it sends has been published, and an
  undecided published post is owned by a worker between publication and record, or
  stands in `interrupted` since a crash or a failed record. `DInv` adds that a
  run of deliveries without an error has reached every inbox it has left behind,
  and that only such a run, at its end, marks a post; it is stated of the record's
  fields without `set`, because a permalink sets whatever record it finds. The
  handlers keep `PostLifecycle` (`HandlersKeepLifecycle`). They implement
  `Announcing` (`PublishingAnnounces`): a step shows what it publishes, tells what
  `PInv` says was published, and marks what `DInv` says was told. And each step of a
  request brings it nearer to its end (`RequestsComeToAnEnd`): posts left, then the
  stage, then the inboxes left. This is the safety half of `FederationDecided`; that
  the steps are taken is the fairness, which stays with TLC.
- `ModerationProofs`: `MInv` adds that a reply being ingested already fits into
  its thread, that the facts a status rests on are in `grounds`, and that the
  migration has stored every entry it scanned or still holds it. On it rests the
  refinement of `Conversation` (`ConversationImplemented`): an appended reply arrives
  (its parent has an activity because the two indexes agree, its status is one of
  three because it is justified), a decision moves one reply, the rest is stutter.
- `InboxProofs`, the followers: `FInv` adds that the id stored with a follower is one it
  signed, and that each request or resend is about stored followers. Nothing is claimed of
  the raw activities but whom they name; that a follower without an id is answered from
  them is the exception in `AcceptsAnswerFollows`.
- `InboxProofs`, the limiter: `LInv` adds `ListsSuffice`: a list has nothing but
  admitted calls, and every one of them that is still in the window. So what
  the code keeps is what `SlidingWindow` looks at (`KeptIsWindow`), and a window that
  ends later than now cannot hold more than the one that ends now.
- `KeyFetchProofs`: `KInv` adds that the goroutine's list belongs to its pass and
  that the actor it has just stored is one it was to fetch. `ListIsCurrent` is
  itself what keeps the number of attempts in bounds, and what makes the stored
  number one more at each failure: `QueueCounts`, the refinement of `RetryQueue`.
- `InstallProofs`: what a command has stopped or replaced and what the service lacks
  are tied step by step, so that overlapping commands hand the debt over
  (`CommandsOwe`). For `InstalledIsWhole` the invariant carries, for each step of the
  installer, what the steps before it have left and nothing takes away: at the end the
  database exists, so that no command can create it anew as root, and it is the
  service's when the chown took. It also bars the installer's own commands from
  `--force`, which `Lossless` needs.
- `AdminAuthProofs`: `IInv` says that the copy of a request in `alone` is the record
  as it is and that it is the only one about to write, which is why an update nobody
  overlapped counts; and that a session whose logout met no copy is in nobody's hands.
  A failed write ends its request, so it overlaps nobody any more. A session, its
  copies included, never ends later than a life after it began (`SessionCapped`). No
  bound on the clock, the ids or the requests.
- `CommentAuthProofs`: `Sound` ties each step to its flow and each sign-in and token to
  the place it may be in: pending, carried by a callback, held by one request, in a cookie.
  On it rest four invariants, one for each property. A comment is posted once for each
  code (`PostedOncePerCode`) because a code is exchanged once, whichever callbacks carry
  it. From the same
  invariants follows the refinement of `TokenLife` (`TokensPlacedOnce`): a request
  that holds a token is the only one to, and a token in a cookie or the grant is
  `kept`, so no step can place it again or bring it back.

Some invariants are only proved, because a refinement that the runs check implies
them: `OnlyPublishedSent` and `DeliveredReachedAll` (`Announcing`), `ThreadsHold` and
`DecisionsStand` (`Conversation`), `WindowBound` (`SlidingWindow`). `Publishing_race`
has one text, so that a stale text and the current one are alike in it; the theorems
on `Publishing` have any number of texts.

Only model-checked: `FederationDecided`, `KeysSettle` and `ServiceReturns`, which
rest on fairness and are out of the prover's reach; the violations.

## Not modelled

- Search: an index in memory, rebuilt from the store by every write. A rebuild that
  is skipped after an error or overtaken by an older one leaves it behind until the
  next write; neither code nor documents promise more.
- Telemetry: its flag and identity steer a weekly heartbeat that no other part
  reads. The command that enables it is an operation of `Host` and a step of
  `Install`.
- The locks inside bbolt: a transaction is one step of every module, so the read
  transaction of the migration's scan that opens another one is not told apart.
- The start of the server beyond the migrations of `PostStore` and `Moderation`,
  site content, rendering and signatures, media, icons, link previews, analytics,
  the update check, the parsing of imports, the front end, the documentation site,
  deployment and scripts: file and network I/O, or no state that two steps could
  disagree on.

What is left to do: the admin's delivery log and its
resolve-all command beside `Publishing`, followers that change while a delivery
runs.
