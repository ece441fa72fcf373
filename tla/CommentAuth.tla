----------------------------- MODULE CommentAuth -----------------------------
(***************************************************************************)
(* Signing in at another server: a visitor to comment under a post, the    *)
(* admin to connect a reference instance.  Both register an app with the   *)
(* instance, leave for its consent page and come back with a code that the *)
(* instance exchanges for a token, once.  The code comes with the request  *)
(* and nothing here ties it to the sign-in: who consents twice has two.  A *)
(* code, its token and the session they end in are named by one value.     *)
(*                                                                         *)
(* One browser, with several tabs, keeps the visitor's cookies: a request  *)
(* carries those of the moment it is sent, and its answer changes those of *)
(* the moment it arrives.  What the instances do is nondeterministic, and  *)
(* whatever can expire may be found expired (module Session has the time). *)
(***************************************************************************)
EXTENDS Naturals

CONSTANTS
    Request,    \* concurrent requests
    Domain,     \* instances
    Sid,        \* random ids of sign-ins
    Token,      \* tokens, each with its code and the session it may end in
    Draft,      \* comments, one for each time a visitor sends one
    None        \* no value

VARIABLES
    apps,       \* buckets: the scope of the app that is registered with an instance
    pendings,   \* bucket: visitors' pending sign-ins
    connecting, \* memory: the admin's pending sign-ins
    home, text, \* the instance of a sign-in, and the comment it is for
    sessions,   \* bucket: visitors' sessions
    host,       \* the instance of a session
    fate,       \* what has become of a token
    grant,      \* bucket: the token of the reference instance
    binding, jar,   \* the browser's cookies: the sign-in under way, session and token
    at, flow, site, about, draft, carry,    \* each request: step, handler, instance, its
                \* sign-in and then its token, comment, the cookies it came with
    sent,       \* drafts that were sent
    posted,     \* how often a draft was posted, by the code it was posted with if any
    unheard,    \* drafts that were posted by a call that failed
    settled     \* history: instances whose fallback app no registration threatens

appVars == <<apps, settled>>
signInVars == <<pendings, connecting, home, text>>
sessionVars == <<sessions, host>>
browserVars == <<binding, jar>>
jobVars == <<flow, site, about, draft, carry>>
postVars == <<sent, posted, unheard>>
vars == <<appVars, signInVars, sessionVars, fate, grant, browserVars, at, jobVars, postVars>>

Bucket == {"comment", "reference"}
Scope == {"default", "fallback"}
\* Nobody has the token yet; a request has it; a cookie or the grant got it; it was
\* revoked, as far as nitpub can; its request was cut off, never heard of it, or
\* could not store it as the grant.
Fate == {"none", "held", "kept", "revoked", "lost"}
Flow == {"start", "retry", "callback", "status", "logout", "connect", "return", "none"}
Step == {"idle", "touch", "expire", "unknown", "app", "register", "pend", "drop", "exchange",
         "reply", "reregister", "identify", "grant", "revoke", "bye"}
Cookies == [session: Token \union {None}, token: Token \union {None}]

ASSUME CommentAssumption == None \notin Sid \union Token \union Domain \union Draft \union Scope

(* The state is well-formed. *)
CommentTypeOK ==
    /\ apps \in [Bucket \X Domain -> Scope \union {None}] /\ settled \subseteq Domain
    /\ pendings \subseteq Sid /\ connecting \subseteq Sid /\ home \in [Sid -> Domain \union {None}]
    /\ text \in [Sid -> Draft \union {None}]
    /\ sessions \subseteq Token /\ host \in [Token -> Domain \union {None}]
    /\ fate \in [Token -> Fate] /\ grant \in Token \union {None}
    /\ binding \in Sid \union {None} /\ jar \in Cookies
    /\ at \in [Request -> Step] /\ flow \in [Request -> Flow]
    /\ site \in [Request -> Domain \union {None}]
    /\ about \in [Request -> Sid \union Token \union {None}]
    /\ draft \in [Request -> Draft \union {None}] /\ carry \in [Request -> Cookies]
    /\ sent \subseteq Draft /\ unheard \subseteq Draft
    /\ posted \in [Draft -> [Token \union {None} -> Nat]]

-----------------------------------------------------------------------------
NoCookies == [session |-> None, token |-> None]

Go(r, step) == at' = [at EXCEPT ![r] = step]

\* A request is taken up by a handler.
Take(r, step, f, d, s, c, cookies) ==
    /\ Go(r, step) /\ flow' = [flow EXCEPT ![r] = f] /\ site' = [site EXCEPT ![r] = d]
    /\ about' = [about EXCEPT ![r] = s] /\ draft' = [draft EXCEPT ![r] = c]
    /\ carry' = [carry EXCEPT ![r] = cookies]

Answer(r) == Take(r, "idle", "none", None, None, None, NoCookies)

Idle(r) == at[r] = "idle"

\* What every answer of a handler does to the cookies, whether it fails or not.
Clear(r) ==
    /\ binding' = IF flow[r] = "callback" THEN None ELSE binding
    /\ jar' = CASE flow[r] = "retry" -> [jar EXCEPT !.token = None]
                [] flow[r] = "logout" -> NoCookies
                [] OTHER -> jar

Respond(r) == Answer(r) /\ Clear(r)

-----------------------------------------------------------------------------
(* The app that is registered with an instance, in a bucket for each purpose. *)
App(r) == <<IF flow[r] \in {"connect", "return"} THEN "reference" ELSE "comment", site[r]>>

AfterApp(r) ==
    CASE flow[r] \in {"callback", "return"} -> "exchange"
      [] flow[r] = "logout" -> "revoke"
      [] OTHER -> "pend"

\* Mutant: the cached app is never looked for.
RegisterAlways(r) ==
    /\ at[r] = "app" /\ Go(r, "register")
    /\ UNCHANGED <<appVars, signInVars, sessionVars, fate, grant, browserVars, jobVars, postVars>>

RegisterOrGetApp(r) ==
    /\ at[r] = "app" /\ Go(r, IF apps[App(r)] = None THEN "register" ELSE AfterApp(r))
    /\ UNCHANGED <<appVars, signInVars, sessionVars, fate, grant, browserVars, jobVars, postVars>>

\* The instance has answered; the cache may have been filled meanwhile.
RegisterApp(r) ==
    /\ at[r] = "register" /\ apps' = [apps EXCEPT ![App(r)] = "default"] /\ Go(r, AfterApp(r))
    /\ UNCHANGED <<settled, signInVars, sessionVars, fate, grant, browserVars, jobVars, postVars>>

RegisterFails(r) ==
    /\ at[r] = "register"
    /\ IF flow[r] = "logout" THEN Go(r, "bye") /\ UNCHANGED <<browserVars, jobVars>> ELSE Respond(r)
    /\ UNCHANGED <<appVars, signInVars, sessionVars, fate, grant, postVars>>

Registering(d) == {q \in Request : at[q] = "register" /\ App(q) = <<"comment", d>>}

\* The scope was too much for the instance: its next visitor gets the other one.  The
\* token of this one is revoked, whether or not the registration succeeds.
Reregister(r) ==
    /\ at[r] = "reregister"
    /\ \/ /\ apps' = [apps EXCEPT ![App(r)] = "fallback"]
          /\ settled' = IF Registering(site[r]) = {} THEN settled \union {site[r]} ELSE settled
       \/ UNCHANGED appVars
    /\ fate' = [fate EXCEPT ![about[r]] = "revoked"] /\ Respond(r)
    /\ UNCHANGED <<signInVars, sessionVars, grant, postVars>>

-----------------------------------------------------------------------------
(* ValidateSession, for the three handlers that begin with it: the session is read, *)
(* and in another transaction put back or, when it has expired, deleted.            *)
Validate(s) == IF s \in sessions THEN {"touch", "expire"} ELSE {"unknown"}

\* A session cookie that is no good leaves a comment to the full sign-in.
SignInAnew(r, f) == Take(r, "app", f, site[r], None, draft[r], NoCookies)

Touch(r) ==
    /\ at[r] = "touch" /\ sessions' = sessions \union {carry[r].session}
    /\ CASE flow[r] = "start" ->
              IF host[carry[r].session] = site[r] /\ carry[r].token # None
              THEN Go(r, "reply") /\ UNCHANGED jobVars ELSE SignInAnew(r, "start")
         [] flow[r] = "logout" ->
              Go(r, IF carry[r].token # None THEN "app" ELSE "bye") /\ UNCHANGED jobVars
         [] OTHER -> Answer(r)
    /\ UNCHANGED <<appVars, signInVars, host, fate, grant, browserVars, postVars>>

Expire(r) ==
    /\ at[r] = "expire" /\ sessions' = sessions \ {carry[r].session} /\ Go(r, "unknown")
    /\ UNCHANGED <<appVars, signInVars, host, fate, grant, browserVars, jobVars, postVars>>

Unknown(r) ==
    /\ at[r] = "unknown"
    /\ CASE flow[r] = "start" -> SignInAnew(r, "start") /\ UNCHANGED jar
         [] flow[r] = "logout" -> Go(r, "bye") /\ UNCHANGED <<jar, jobVars>>
         [] OTHER -> Answer(r) /\ jar' = [jar EXCEPT !.session = None]
    /\ UNCHANGED <<appVars, signInVars, sessionVars, fate, grant, binding, postVars>>

CommentSessionStatus(r) ==
    /\ Idle(r) /\ jar.session # None
    /\ \E step \in Validate(jar.session) :
          Take(r, step, "status", None, None, None, [jar EXCEPT !.token = None])
    /\ UNCHANGED <<appVars, signInVars, sessionVars, fate, grant, browserVars, postVars>>

\* Logging out revokes the token, if the session is still good and names the instance.
CommentLogout(r) ==
    /\ Idle(r) /\ jar # NoCookies
    /\ IF jar.session # None
       THEN /\ \E step \in Validate(jar.session) :
                  Take(r, step, "logout", host[jar.session], None, None, jar)
            /\ UNCHANGED jar
       ELSE jar' = NoCookies /\ UNCHANGED <<at, jobVars>>
    /\ UNCHANGED <<appVars, signInVars, sessionVars, fate, grant, binding, postVars>>

Revoke(r) ==
    /\ at[r] = "revoke" /\ fate' = [fate EXCEPT ![carry[r].token] = "revoked"] /\ Go(r, "bye")
    /\ UNCHANGED <<appVars, signInVars, sessionVars, grant, browserVars, jobVars, postVars>>

DeleteSession(r) ==
    /\ at[r] = "bye" /\ sessions' = sessions \ {carry[r].session} /\ Respond(r)
    /\ UNCHANGED <<appVars, signInVars, host, fate, grant, postVars>>

-----------------------------------------------------------------------------
\* Bound: without an id left nobody begins what needs one.
IdsLeft == \E s \in Sid : home[s] = None

(* A visitor sends a comment, or signs in without one. *)
StartCommentAuth(r, d, c) ==
    /\ Idle(r) /\ c \notin sent /\ sent' = sent \union ({c} \ {None})
    /\ IdsLeft \/ (c # None /\ jar.session # None)
    /\ IF c # None /\ jar.session # None
       THEN \E step \in Validate(jar.session) : Take(r, step, "start", d, None, c, jar)
       ELSE Take(r, "app", "start", d, None, c, NoCookies)
    /\ UNCHANGED <<appVars, signInVars, sessionVars, fate, grant, browserVars, posted, unheard>>

\* The answer sends the browser to the instance.
PutPending(r, s) ==
    /\ at[r] = "pend" /\ flow[r] \in {"start", "retry"} /\ home[s] = None
    /\ home' = [home EXCEPT ![s] = site[r]] /\ text' = [text EXCEPT ![s] = draft[r]]
    /\ pendings' = pendings \union {s} /\ binding' = s /\ Answer(r)
    /\ jar' = IF flow[r] = "retry" THEN [jar EXCEPT !.token = None] ELSE jar
    /\ UNCHANGED <<appVars, sessionVars, connecting, fate, grant, postVars>>

\* The sign-in is not stored, and the request is answered with an error.
PendingFails(r) ==
    /\ at[r] = "pend" /\ flow[r] \in {"start", "retry"} /\ Respond(r)
    /\ UNCHANGED <<appVars, signInVars, sessionVars, fate, grant, postVars>>

CommentAuthCallback(r, s) ==
    /\ Idle(r) /\ binding = s /\ s \in pendings
    /\ Take(r, "drop", "callback", home[s], s, text[s], NoCookies)
    /\ UNCHANGED <<appVars, signInVars, sessionVars, fate, grant, browserVars, postVars>>

\* Another transaction than the one that read the pending; its failure is only logged.
\* The visitor may have refused, or taken too long.
DeletePending(r) ==
    /\ at[r] = "drop" /\ pendings' \in {pendings, pendings \ {about[r]}}
    /\ Respond(r) \/ (Go(r, "app") /\ UNCHANGED <<browserVars, jobVars>>)
    /\ UNCHANGED <<appVars, connecting, home, text, sessionVars, fate, grant, postVars>>

\* The code is whatever the browser came with, and the instance takes each once.
ExchangeToken(r, t) ==
    /\ at[r] = "exchange" /\ fate[t] = "none"
    /\ fate' = [fate EXCEPT ![t] = "held"] /\ about' = [about EXCEPT ![r] = t]
    /\ Go(r, IF flow[r] = "return" THEN "grant"
             ELSE IF draft[r] # None THEN "reply" ELSE "identify")
    /\ UNCHANGED <<appVars, signInVars, sessionVars, grant, browserVars, flow, site, draft, carry>>
    /\ UNCHANGED postVars

\* A code that was taken before, or a token that was issued and not heard of.
ExchangeFails(r) ==
    /\ at[r] = "exchange"
    /\ \/ UNCHANGED fate
       \/ \E t \in Token : fate[t] = "none" /\ fate' = [fate EXCEPT ![t] = "lost"]
    /\ Respond(r)
    /\ UNCHANGED <<appVars, signInVars, sessionVars, grant, postVars>>

-----------------------------------------------------------------------------
(* The reply is posted with the token that the code gave, or with the one in the cookie. *)
TokenOf(r) == IF flow[r] = "callback" THEN about[r] ELSE carry[r].token
CodeOf(r) == IF flow[r] = "callback" THEN about[r] ELSE None
Accepted(r) == fate[TokenOf(r)] \in {"held", "kept"}
               /\ posted' = [posted EXCEPT ![draft[r]][CodeOf(r)] = @ + 1]

\* Mutant: the handler goes on after it has posted with the token of the cookie.
PostAndGoOn(r) ==
    /\ at[r] = "reply" /\ Accepted(r) /\ Go(r, IF flow[r] = "start" THEN "app" ELSE "identify")
    /\ UNCHANGED <<appVars, signInVars, sessionVars, fate, grant, browserVars, jobVars>>
    /\ UNCHANGED <<sent, unheard>>

PostReply(r) ==
    /\ at[r] = "reply" /\ Accepted(r)
    /\ IF flow[r] = "start" THEN Answer(r) ELSE Go(r, "identify") /\ UNCHANGED jobVars
    /\ UNCHANGED <<appVars, signInVars, sessionVars, fate, grant, browserVars, sent, unheard>>

\* Mutant: the token of a failed reply is forgotten instead of revoked.
ForgetToken(r) ==
    /\ at[r] = "reply" /\ UNCHANGED <<posted, unheard>>
    /\ IF flow[r] = "start" THEN SignInAnew(r, "retry") /\ UNCHANGED browserVars ELSE Respond(r)
    /\ UNCHANGED <<appVars, signInVars, sessionVars, fate, grant, sent>>

\* Mutant: the handler goes on after it has revoked the token.
RevokeAndGoOn(r) ==
    /\ at[r] = "reply" /\ UNCHANGED <<posted, unheard>>
    /\ IF flow[r] = "start"
       THEN SignInAnew(r, "retry") /\ UNCHANGED <<fate, browserVars>>
       ELSE /\ fate' = [fate EXCEPT ![about[r]] = "revoked"] /\ Go(r, "identify")
            /\ UNCHANGED <<jobVars, browserVars>>
    /\ UNCHANGED <<appVars, signInVars, sessionVars, grant, sent>>

\* The post is gone or not found, the token refused, or an answer lost.  A cookie's token
\* is given up, and the visitor has to sign in.
ReplyFails(r) ==
    /\ at[r] = "reply"
    /\ \/ UNCHANGED <<posted, unheard>>
       \/ Accepted(r) /\ unheard' = unheard \union {draft[r]}
    /\ IF flow[r] = "start"
       THEN SignInAnew(r, "retry") /\ UNCHANGED <<fate, browserVars>>
       ELSE fate' = [fate EXCEPT ![about[r]] = "revoked"] /\ Respond(r)
    /\ UNCHANGED <<appVars, signInVars, sessionVars, grant, sent>>

ScopeRejected(r) ==
    /\ at[r] = "reply" /\ flow[r] = "callback" /\ Go(r, "reregister")
    /\ UNCHANGED <<appVars, signInVars, sessionVars, fate, grant, browserVars, jobVars, postVars>>

\* What a sign-in ends with: the browser is given its token.
Keep(r) == fate' = [fate EXCEPT ![about[r]] = "kept"] /\ Answer(r)

\* Mutant: a browser that is remembered already keeps its session.
RememberOnce(r) ==
    /\ at[r] = "identify" /\ Keep(r) /\ binding' = None
    /\ sessions' = sessions \union {about[r]} /\ host' = [host EXCEPT ![about[r]] = site[r]]
    /\ jar' = [session |-> IF jar.session = None THEN about[r] ELSE jar.session, token |-> about[r]]
    /\ UNCHANGED <<appVars, signInVars, grant, postVars>>

\* The account has answered: the session comes with the token.
Remember(r) ==
    /\ at[r] = "identify" /\ Keep(r) /\ binding' = None
    /\ sessions' = sessions \union {about[r]} /\ host' = [host EXCEPT ![about[r]] = site[r]]
    /\ jar' = [session |-> about[r], token |-> about[r]]
    /\ UNCHANGED <<appVars, signInVars, grant, postVars>>

\* It has not, or the session is not stored: the token comes alone.
Unidentified(r) ==
    /\ at[r] = "identify" /\ Keep(r) /\ binding' = None /\ jar' = [jar EXCEPT !.token = about[r]]
    /\ UNCHANGED <<appVars, signInVars, sessionVars, grant, postVars>>

-----------------------------------------------------------------------------
(* The reference instance. *)
AdminStartReferenceConnect(r, d) ==
    /\ Idle(r) /\ IdsLeft /\ Take(r, "app", "connect", d, None, None, NoCookies)
    /\ UNCHANGED <<appVars, signInVars, sessionVars, fate, grant, browserVars, postVars>>

PutReferencePending(r, s) ==
    /\ at[r] = "pend" /\ flow[r] = "connect" /\ home[s] = None
    /\ home' = [home EXCEPT ![s] = site[r]] /\ connecting' = connecting \union {s} /\ Answer(r)
    /\ UNCHANGED <<appVars, pendings, text, sessionVars, fate, grant, browserVars, postVars>>

\* The pending is looked up and taken out under one lock; it may be too old.
AdminReferenceCallback(r, s) ==
    /\ Idle(r) /\ s \in connecting /\ connecting' = connecting \ {s}
    /\ Take(r, "app", "return", home[s], s, None, NoCookies) \/ UNCHANGED <<at, jobVars>>
    /\ UNCHANGED <<appVars, pendings, home, text, sessionVars, fate, grant, browserVars, postVars>>

\* A grant that is not stored is not revoked either.
PutGrant(r) ==
    /\ at[r] = "grant"
    /\ \/ grant' = about[r] /\ Keep(r)
       \/ UNCHANGED grant /\ fate' = [fate EXCEPT ![about[r]] = "lost"] /\ Answer(r)
    /\ UNCHANGED <<appVars, signInVars, sessionVars, browserVars, postVars>>

AdminDisconnectReference ==
    /\ grant # None /\ grant' = None
    /\ UNCHANGED <<appVars, signInVars, sessionVars, fate, browserVars, at, jobVars, postVars>>

-----------------------------------------------------------------------------
NoOne(x) == [r \in Request |-> x]

NoJobs ==
    /\ at = NoOne("idle") /\ flow = NoOne("none") /\ site = NoOne(None) /\ about = NoOne(None)
    /\ draft = NoOne(None) /\ carry = NoOne(NoCookies)

\* The requests, and the admin's pending sign-ins, live in memory.
Restart ==
    /\ at' = NoOne("idle") /\ flow' = NoOne("none") /\ site' = NoOne(None) /\ about' = NoOne(None)
    /\ draft' = NoOne(None) /\ carry' = NoOne(NoCookies) /\ connecting' = {}
    /\ fate' = [t \in Token |-> IF fate[t] = "held" THEN "lost" ELSE fate[t]]
    /\ UNCHANGED <<appVars, pendings, home, text, sessionVars, grant, browserVars, postVars>>

\* The browser forgets a cookie whose time is over.
CookieExpires ==
    /\ \/ binding' = None /\ UNCHANGED jar
       \/ jar' \in {[jar EXCEPT !.session = None], [jar EXCEPT !.token = None]} /\ UNCHANGED binding
    /\ UNCHANGED <<appVars, signInVars, sessionVars, fate, grant, at, jobVars, postVars>>

Init ==
    /\ apps = [b \in Bucket \X Domain |-> None] /\ settled = {} /\ pendings = {} /\ connecting = {}
    /\ home = [s \in Sid |-> None] /\ text = [s \in Sid |-> None] /\ sessions = {}
    /\ host = [t \in Token |-> None] /\ fate = [t \in Token |-> "none"] /\ grant = None
    /\ binding = None /\ jar = NoCookies /\ NoJobs
    /\ sent = {} /\ posted = [c \in Draft |-> [t \in Token \union {None} |-> 0]] /\ unheard = {}

SessionStep(r) ==
    \/ Touch(r) \/ Expire(r) \/ Unknown(r) \/ CommentSessionStatus(r) \/ CommentLogout(r)
    \/ Revoke(r) \/ DeleteSession(r)

AppStep(r) == RegisterOrGetApp(r) \/ RegisterApp(r) \/ RegisterFails(r) \/ Reregister(r)

CommentStep(r) ==
    \/ \E d \in Domain, c \in Draft \union {None} : StartCommentAuth(r, d, c)
    \/ \E s \in Sid : PutPending(r, s) \/ CommentAuthCallback(r, s)
    \/ \E t \in Token : ExchangeToken(r, t)
    \/ PendingFails(r) \/ DeletePending(r) \/ ExchangeFails(r) \/ PostReply(r) \/ ReplyFails(r)
    \/ ScopeRejected(r) \/ Remember(r) \/ Unidentified(r)

ReferenceStep(r) ==
    \/ \E d \in Domain : AdminStartReferenceConnect(r, d)
    \/ \E s \in Sid : PutReferencePending(r, s) \/ AdminReferenceCallback(r, s)
    \/ PutGrant(r)

Next ==
    \/ \E r \in Request : SessionStep(r) \/ AppStep(r) \/ CommentStep(r) \/ ReferenceStep(r)
    \/ AdminDisconnectReference \/ Restart \/ CookieExpires

Spec == Init /\ [][Next]_vars

-----------------------------------------------------------------------------
(* A comment is posted once with the token of the cookie or, by one of the callbacks of *)
(* its sign-in, once for each code the browser came back with; with a code after the    *)
(* cookie's token only if the instance had posted it without saying so.                 *)
PostedOnce ==
    \A c \in Draft :
        /\ \A t \in Token \union {None} : posted[c][t] <= 1
        /\ posted[c][None] > 0 /\ c \notin unheard => \A t \in Token : posted[c][t] = 0

HoldsToken(r, t) == about[r] = t /\ at[r] \in {"reply", "reregister", "identify", "grant"}

(* A token that was issued is some single request's until it goes into a cookie or the *)
(* grant, or is revoked; it is forgotten only where a request is cut off, the answer   *)
(* to an exchange is lost, or the grant is not stored.                                 *)
TokensAccounted ==
    \A t \in Token : fate[t] = "held" =>
        \E r \in Request : \A q \in Request : HoldsToken(q, t) <=> q = r

(* CommentAuth implements TokenLife: a token goes into the browser or the grant once, by *)
(* the request that exchanged its code; a revoked or lost one never does, and one that   *)
(* was overwritten, cleared or disconnected does not come back.                           *)
Life == INSTANCE TokenLife WITH placed <- {jar.token, grant} \ {None}
TokensLiveOnce == Life!LifeSpec

(* Once an instance has refused the scope, its visitors are offered the other one, *)
(* unless an app was being registered for the first time all the while.            *)
FallbackStays == \A d \in settled : apps[<<"comment", d>>] = "fallback"

(* The session the browser shows and the token it posts with are of one exchange, *)
(* unless nobody could say whose token it was.                                    *)
IdentityFits ==
    jar.session # None /\ jar.token # None => jar.session = jar.token \/ host[jar.token] = None
=============================================================================
