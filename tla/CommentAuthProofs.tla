-------------------------- MODULE CommentAuthProofs --------------------------
(***************************************************************************)
(* Signing in at another server, for any number of requests, sign-ins,     *)
(* comments and instances.  A comment is with one request until there is a *)
(* pending sign-in for it; from then on it is posted by callbacks, each    *)
(* with a code of its own: the token a code gave is one request's, which   *)
(* has not posted with it as long as it is still to post.                  *)
(***************************************************************************)
EXTENDS CommentAuth, TLAPS

\* What a comment can have been posted with: a code, or no more than a cookie.
Codes == Token \union {None}

JobTypes ==
    /\ at \in [Request -> Step] /\ flow \in [Request -> Flow]
    /\ site \in [Request -> Domain \union {None}]
    /\ about \in [Request -> Sid \union Token \union {None}]
    /\ draft \in [Request -> Draft \union {None}] /\ carry \in [Request -> Cookies]

SignInTypes ==
    /\ pendings \subseteq Sid /\ connecting \subseteq Sid /\ home \in [Sid -> Domain \union {None}]
    /\ text \in [Sid -> Draft \union {None}]

StoreTypes ==
    /\ apps \in [Bucket \X Domain -> Scope \union {None}] /\ settled \subseteq Domain
    /\ sessions \subseteq Token /\ host \in [Token -> Domain \union {None}] /\ fate \in [Token -> Fate]
    /\ grant \in Token \union {None} /\ binding \in Sid \union {None} /\ jar \in Cookies
    /\ sent \subseteq Draft /\ posted \in [Draft -> [Codes -> Nat]] /\ unheard \subseteq Draft

\* What a request is about, by the handler that has it and the step it comes to.
Fits(r, step) ==
    /\ flow[r] \in {"start", "retry", "connect"} => site[r] \in Domain /\ about[r] = None
    /\ flow[r] \in {"callback", "return"} =>
          /\ site[r] \in Domain
          /\ about[r] \in IF step \in {"reply", "reregister", "identify", "grant"}
                          THEN Token ELSE Sid
    /\ flow[r] \in {"status", "logout"} => about[r] = None
    /\ flow[r] \notin {"start", "retry", "callback"} => draft[r] = None
    /\ flow[r] = "none" => step = "idle"
    /\ step \in {"touch", "expire", "unknown"} =>
          flow[r] \in {"start", "status", "logout"} /\ (flow[r] = "start" => draft[r] \in Draft)
          /\ carry[r].session \in Token
    /\ step \in {"drop", "identify", "reregister"} => flow[r] = "callback"
    /\ step = "exchange" => flow[r] \in {"callback", "return"}
    /\ step = "grant" => flow[r] = "return"
    /\ step = "pend" => flow[r] \in {"start", "retry", "connect"}
    /\ step = "reply" => draft[r] \in Draft /\ (flow[r] = "callback"
                            \/ (flow[r] = "start" /\ carry[r].token \in Token))
    /\ step = "bye" => flow[r] = "logout"
    /\ step = "revoke" => flow[r] = "logout" /\ carry[r].token \in Token
    /\ step \in {"app", "register"} =>
          flow[r] \in {"start", "retry", "connect", "callback", "return"}
          \/ (flow[r] = "logout" /\ carry[r].token \in Token)

Shape(r) == Fits(r, at[r])
Shapes == \A r \in Request : Shape(r)

\* A token in a cookie was put there, and what has a session was placed with it.
Kept(t) == t # None => fate[t] \in {"kept", "revoked"}

StoreKnown ==
    /\ \A s \in pendings \union connecting : home[s] \in Domain
    /\ \A s \in Sid : home[s] = None => text[s] = None
    /\ \A t \in Token : host[t] # None => fate[t] \in {"kept", "revoked"}
    /\ Kept(jar.token)

Known == StoreKnown /\ \A r \in Request : Kept(carry[r].token)

\* A token that was issued is some single request's.
Tokens ==
    /\ \A r \in Request, s \in Token : HoldsToken(r, s) => fate[s] = "held"
    /\ \A r, q \in Request, s \in Token : HoldsToken(r, s) /\ HoldsToken(q, s) => r = q
    /\ \A s \in Token : fate[s] = "held" => \E r \in Request : HoldsToken(r, s)

Types == JobTypes /\ SignInTypes /\ StoreTypes
Sound == Types /\ Shapes /\ Known

-----------------------------------------------------------------------------
LEMMA Steps ==
    /\ "idle" \in Step /\ "touch" \in Step /\ "expire" \in Step /\ "unknown" \in Step
    /\ "app" \in Step /\ "register" \in Step /\ "pend" \in Step /\ "drop" \in Step
    /\ "exchange" \in Step /\ "reply" \in Step /\ "reregister" \in Step /\ "identify" \in Step
    /\ "grant" \in Step /\ "revoke" \in Step /\ "bye" \in Step
BY DEF Step

LEMMA Flows ==
    /\ "start" \in Flow /\ "retry" \in Flow /\ "callback" \in Flow /\ "status" \in Flow
    /\ "logout" \in Flow /\ "connect" \in Flow /\ "return" \in Flow /\ "none" \in Flow
BY DEF Flow

LEMMA Fates ==
    /\ "none" \in Fate /\ "held" \in Fate /\ "kept" \in Fate /\ "revoked" \in Fate
    /\ "lost" \in Fate
BY DEF Fate

LEMMA Apart ==
    /\ None \notin Sid /\ None \notin Token /\ None \notin Domain /\ None \notin Draft
    /\ None \notin Scope
BY CommentAssumption

LEMMA Scopes == "default" \in Scope /\ "fallback" \in Scope
BY DEF Scope

LEMMA NoCookiesType == NoCookies \in Cookies /\ NoCookies.session = None /\ NoCookies.token = None
BY DEF NoCookies, Cookies

LEMMA CookieTypes ==
    /\ \A c \in Cookies : c.session \in Token \union {None} /\ c.token \in Token \union {None}
    /\ \A c \in Cookies, x \in Token \union {None} :
          [c EXCEPT !.session = x] \in Cookies /\ [c EXCEPT !.token = x] \in Cookies
    /\ \A x, y \in Token \union {None} : [session |-> x, token |-> y] \in Cookies
BY DEF Cookies

\* What a cookie is after it was changed.
LEMMA CookieFields ==
    /\ \A c \in Cookies, x \in Token \union {None} :
          /\ [c EXCEPT !.session = x].session = x /\ [c EXCEPT !.session = x].token = c.token
          /\ [c EXCEPT !.token = x].token = x /\ [c EXCEPT !.token = x].session = c.session
    /\ \A x, y \in Token \union {None} :
          [session |-> x, token |-> y].session = x /\ [session |-> x, token |-> y].token = y
BY DEF Cookies

\* A request that nothing happens to.
Same(q) ==
    /\ at'[q] = at[q] /\ flow'[q] = flow[q] /\ site'[q] = site[q] /\ about'[q] = about[q]
    /\ draft'[q] = draft[q] /\ carry'[q] = carry[q]

LEMMA GoKeeps ==
    ASSUME JobTypes, NEW r \in Request, NEW step \in Step, Go(r, step), UNCHANGED jobVars
    PROVE  /\ JobTypes' /\ \A q \in Request : q # r => Same(q)
           /\ at'[r] = step /\ flow'[r] = flow[r] /\ site'[r] = site[r] /\ about'[r] = about[r]
           /\ draft'[r] = draft[r] /\ carry'[r] = carry[r]
BY DEF JobTypes, Go, jobVars, Same

LEMMA TakeKeeps ==
    ASSUME JobTypes, NEW r \in Request, NEW step \in Step, NEW f \in Flow,
           NEW d \in Domain \union {None}, NEW s \in Sid \union Token \union {None},
           NEW c \in Draft \union {None}, NEW k \in Cookies, Take(r, step, f, d, s, c, k)
    PROVE  /\ JobTypes' /\ \A q \in Request : q # r => Same(q)
           /\ at'[r] = step /\ flow'[r] = f /\ site'[r] = d /\ about'[r] = s /\ draft'[r] = c
           /\ carry'[r] = k
BY DEF JobTypes, Take, Go, Same

LEMMA AnswerKeeps ==
    ASSUME JobTypes, NEW r \in Request, Answer(r)
    PROVE  /\ JobTypes' /\ \A q \in Request : q # r => Same(q)
           /\ at'[r] = "idle" /\ flow'[r] = "none" /\ about'[r] = None /\ draft'[r] = None
           /\ carry'[r].token = None
<1>1. Take(r, "idle", "none", None, None, None, NoCookies)
  BY DEF Answer
<1>2. "idle" \in Step /\ "none" \in Flow /\ NoCookies \in Cookies
  BY Steps, Flows, NoCookiesType
<1>3. JobTypes' /\ (\A q \in Request : q # r => Same(q)) /\ at'[r] = "idle" /\ flow'[r] = "none"
      /\ about'[r] = None /\ draft'[r] = None /\ carry'[r] = NoCookies
  BY <1>1, <1>2, TakeKeeps
<1> QED
  BY <1>3, NoCookiesType

LEMMA AnewKeeps ==
    ASSUME JobTypes, NEW r \in Request, NEW f \in Flow, SignInAnew(r, f)
    PROVE  /\ JobTypes' /\ \A q \in Request : q # r => Same(q)
           /\ at'[r] = "app" /\ flow'[r] = f /\ site'[r] = site[r] /\ about'[r] = None
           /\ draft'[r] = draft[r] /\ carry'[r].token = None
<1>1. Take(r, "app", f, site[r], None, draft[r], NoCookies)
  BY DEF SignInAnew
<1>2. site[r] \in Domain \union {None} /\ draft[r] \in Draft \union {None}
  BY DEF JobTypes
<1>3. "app" \in Step /\ NoCookies \in Cookies /\ None \in Token \union {None}
  BY Steps, NoCookiesType
<1>4. JobTypes' /\ (\A q \in Request : q # r => Same(q)) /\ at'[r] = "app" /\ flow'[r] = f
      /\ site'[r] = site[r] /\ about'[r] = None /\ draft'[r] = draft[r] /\ carry'[r] = NoCookies
  BY <1>1, <1>2, <1>3 DEF JobTypes, Take, Go, Same
<1> QED
  BY <1>4, NoCookiesType

\* An answer takes cookies away and never gives one.
Less(c) == (c.session = jar.session \/ c.session = None) /\ (c.token = jar.token \/ c.token = None)

LEMMA ClearKeeps ==
    ASSUME StoreTypes, NEW r \in Request, Clear(r)
    PROVE  jar' \in Cookies /\ binding' \in Sid \union {None} /\ Less(jar')
BY NoCookiesType, CookieTypes, CookieFields DEF StoreTypes, Clear, Less

-----------------------------------------------------------------------------
(* What every step of a request keeps: of the request itself, and of the rest. *)
Others(r) == \A q \in Request : q # r => Same(q)
Grows == \A s \in Token : fate[s] \in {"kept", "revoked"} => fate'[s] \in {"kept", "revoked"}

JobMoves(r) == JobTypes' /\ Others(r) /\ Shape(r)' /\ Kept(carry[r].token)'
StoreMoves == SignInTypes' /\ StoreTypes' /\ Grows /\ StoreKnown'

LEMMA MovesKeep == ASSUME Sound, NEW r \in Request, JobMoves(r), StoreMoves PROVE Sound'
<1> USE DEF Sound, Types, JobMoves, StoreMoves
<1>1. Shapes'
  <2> SUFFICES ASSUME NEW q \in Request PROVE Shape(q)'
    BY DEF Shapes
  <2>1. CASE q = r
    BY <2>1
  <2>2. CASE q # r
    <3>1. Same(q) /\ Shape(q)
      BY <2>2 DEF Others, Shapes
    <3> QED
      BY <3>1 DEF Same, Shape, Fits
  <2> QED
    BY <2>1, <2>2
<1>2. \A q \in Request : Kept(carry[q].token)'
  <2> SUFFICES ASSUME NEW q \in Request PROVE Kept(carry[q].token)'
    OBVIOUS
  <2>1. CASE q = r
    BY <2>1
  <2>2. CASE q # r
    <3>1. Same(q) /\ Kept(carry[q].token) /\ carry[q].token \in Token \union {None}
      BY <2>2, CookieTypes DEF Others, Known, JobTypes
    <3> QED
      BY <3>1 DEF Same, Kept, Grows
  <2> QED
    BY <2>1, <2>2
<1>3. Known'
  BY <1>2 DEF Known
<1> QED
  BY <1>1, <1>3

LEMMA GoMoves ==
    ASSUME Sound, NEW r \in Request, NEW step \in Step, Go(r, step), UNCHANGED jobVars,
           Fits(r, step), Grows
    PROVE  JobMoves(r)
<1>1. /\ JobTypes' /\ Others(r)
      /\ at'[r] = step /\ flow'[r] = flow[r] /\ site'[r] = site[r] /\ about'[r] = about[r]
      /\ draft'[r] = draft[r] /\ carry'[r] = carry[r]
  BY GoKeeps DEF Sound, Types, Others
<1>2. Shape(r)'
  BY <1>1 DEF Shape, Fits
<1>3. Kept(carry[r].token) /\ carry[r].token \in Token \union {None}
  BY CookieTypes DEF Sound, Types, Known, JobTypes
<1>4. Kept(carry[r].token)'
  BY <1>1, <1>3 DEF Kept, Grows
<1> QED
  BY <1>1, <1>2, <1>4 DEF JobMoves

LEMMA AnswerMoves == ASSUME Sound, NEW r \in Request, Answer(r) PROVE JobMoves(r)
<1>1. /\ JobTypes' /\ Others(r)
      /\ at'[r] = "idle" /\ flow'[r] = "none" /\ about'[r] = None /\ draft'[r] = None
      /\ carry'[r].token = None
  BY AnswerKeeps DEF Sound, Types, Others
<1>2. Shape(r)' /\ Kept(carry[r].token)'
  BY <1>1, Apart DEF Shape, Fits, Kept
<1> QED
  BY <1>1, <1>2 DEF JobMoves

LEMMA AnewMoves ==
    ASSUME Sound, NEW r \in Request, NEW f \in {"start", "retry"}, SignInAnew(r, f),
           flow[r] = "start"
    PROVE  JobMoves(r)
<1>1. f \in Flow
  BY Flows
<1>2. /\ JobTypes' /\ Others(r)
      /\ at'[r] = "app" /\ flow'[r] = f /\ site'[r] = site[r] /\ about'[r] = None
      /\ draft'[r] = draft[r] /\ carry'[r].token = None
  BY <1>1, AnewKeeps DEF Sound, Types, Others
<1>3. Shape(r)
  BY DEF Sound, Shapes
<1>4. Shape(r)' /\ Kept(carry[r].token)'
  BY <1>2, <1>3, Apart DEF Shape, Fits, Kept
<1> QED
  BY <1>2, <1>4 DEF JobMoves

\* A step that leaves the stores and the cookies alone.
LEMMA StoresStay ==
    ASSUME Sound, UNCHANGED <<appVars, signInVars, sessionVars, fate, grant, browserVars>>,
           sent' \subseteq Draft, posted' \in [Draft -> [Codes -> Nat]], unheard' \subseteq Draft
    PROVE  StoreMoves
<1> USE DEF Sound, Types, appVars, signInVars, sessionVars, browserVars
<1>1. SignInTypes' /\ StoreTypes'
  BY DEF SignInTypes, StoreTypes
<1>2. Grows
  BY DEF Grows
<1>3. StoreKnown'
  BY DEF Known, StoreKnown, Kept
<1> QED
  BY <1>1, <1>2, <1>3 DEF StoreMoves

LEMMA PostTypes ==
    ASSUME Sound
    PROVE  sent \subseteq Draft /\ posted \in [Draft -> [Codes -> Nat]] /\ unheard \subseteq Draft
BY DEF Sound, Types, StoreTypes

\* A step that only takes cookies away, besides.
LEMMA CookiesGo ==
    ASSUME Sound, UNCHANGED <<appVars, signInVars, sessionVars, fate, grant>>,
           jar' \in Cookies, binding' \in Sid \union {None}, Less(jar'),
           sent' \subseteq Draft, posted' \in [Draft -> [Codes -> Nat]], unheard' \subseteq Draft
    PROVE  StoreMoves
<1> USE DEF Sound, Types, appVars, signInVars, sessionVars
<1>1. SignInTypes' /\ StoreTypes'
  BY DEF SignInTypes, StoreTypes
<1>2. Grows
  BY DEF Grows
<1>3. StoreKnown'
  BY DEF Known, StoreKnown, Kept, Less
<1> QED
  BY <1>1, <1>2, <1>3 DEF StoreMoves

\* A step that changes sessions, besides.
LEMMA SessionsChange ==
    ASSUME Sound, UNCHANGED <<appVars, signInVars, host, fate, grant>>,
           sessions' \subseteq Token, jar' \in Cookies, binding' \in Sid \union {None}, Less(jar'),
           UNCHANGED postVars
    PROVE  StoreMoves
<1> USE DEF Sound, Types, appVars, signInVars, postVars
<1>1. SignInTypes' /\ StoreTypes'
  BY DEF SignInTypes, StoreTypes
<1>2. Grows
  BY DEF Grows
<1>3. StoreKnown'
  BY DEF Known, StoreKnown, Kept, Less
<1> QED
  BY <1>1, <1>2, <1>3 DEF StoreMoves

LEMMA JarStays ==
    ASSUME Sound, UNCHANGED browserVars
    PROVE  jar' \in Cookies /\ binding' \in Sid \union {None} /\ Less(jar')
BY DEF Sound, Types, StoreTypes, browserVars, Less

-----------------------------------------------------------------------------
(* The actions, one by one. *)
LEMMA RespondMoves ==
    ASSUME Sound, NEW r \in Request, Respond(r)
    PROVE  JobMoves(r) /\ jar' \in Cookies /\ binding' \in Sid \union {None} /\ Less(jar')
BY AnswerMoves, ClearKeeps DEF Respond, Sound, Types

LEMMA ShapeOf == ASSUME Sound, NEW r \in Request PROVE Shape(r)
BY DEF Sound, Shapes

LEMMA Standing ==
    ASSUME UNCHANGED <<signInVars, fate>> PROVE Grows
BY DEF Grows, signInVars

LEMMA RegisterOrGetAppMoves ==
    ASSUME Sound, NEW r \in Request, RegisterOrGetApp(r) PROVE JobMoves(r) /\ StoreMoves
<1> USE DEF RegisterOrGetApp
<1>1. PICK step \in {"register", AfterApp(r)} : Go(r, step)
  OBVIOUS
<1>2. step \in Step /\ Fits(r, step)
  BY <1>1, ShapeOf, Steps DEF AfterApp, Shape, Fits
<1>3. Grows
  BY Standing
<1>4. JobMoves(r)
  BY <1>1, <1>2, <1>3, GoMoves
<1>5. StoreMoves
  BY StoresStay, PostTypes DEF postVars
<1> QED
  BY <1>4, <1>5

LEMMA AppKey ==
    ASSUME NEW r \in Request, site[r] \in Domain PROVE App(r) \in Bucket \X Domain
BY DEF App, Bucket

LEMMA RegisterAppMoves ==
    ASSUME Sound, NEW r \in Request, RegisterApp(r) PROVE JobMoves(r) /\ StoreMoves
<1> USE DEF RegisterApp
<1>1. AfterApp(r) \in Step /\ Fits(r, AfterApp(r))
  BY ShapeOf, Steps DEF AfterApp, Shape, Fits
<1>2. Grows
  BY Standing
<1>3. JobMoves(r)
  BY <1>1, <1>2, GoMoves
<1>4. SignInTypes' /\ StoreTypes'
  BY Scopes DEF Sound, Types, SignInTypes, StoreTypes, signInVars, sessionVars, browserVars,
                postVars
<1>5. StoreKnown'
  BY DEF Sound, Known, StoreKnown, Kept, signInVars, sessionVars, browserVars
<1> QED
  BY <1>2, <1>3, <1>4, <1>5 DEF StoreMoves

LEMMA RegisterFailsMoves ==
    ASSUME Sound, NEW r \in Request, RegisterFails(r) PROVE JobMoves(r) /\ StoreMoves
<1> USE DEF RegisterFails
<1>1. CASE flow[r] = "logout"
  <2>1. Go(r, "bye") /\ UNCHANGED <<browserVars, jobVars>>
    BY <1>1
  <2>2. Fits(r, "bye") /\ "bye" \in Step
    BY <1>1, ShapeOf, Steps DEF Shape, Fits
  <2>3. JobMoves(r)
    BY <2>1, <2>2, Standing, GoMoves
  <2> QED
    BY <2>1, <2>3, StoresStay, PostTypes DEF postVars
<1>2. CASE flow[r] # "logout"
  <2>1. Respond(r)
    BY <1>2
  <2> QED
    BY <2>1, RespondMoves, CookiesGo, PostTypes DEF postVars
<1> QED
  BY <1>1, <1>2

\* A token is no longer the request's.
LEMMA TokenMoves ==
    ASSUME Sound, NEW r \in Request, flow[r] # "start",
           at[r] \in {"reply", "reregister", "identify", "grant"},
           NEW x \in Fate, fate[about[r]] \in {"kept", "revoked"} => x \in {"kept", "revoked"},
           fate' = [fate EXCEPT ![about[r]] = x]
    PROVE  /\ about[r] \in Token /\ fate' \in [Token -> Fate] /\ Grows /\ fate'[about[r]] = x
           /\ \A s \in Token : s # about[r] => fate'[s] = fate[s]
<1>1. about[r] \in Token
  BY ShapeOf DEF Shape, Fits
<1>2. fate \in [Token -> Fate]
  BY DEF Sound, Types, StoreTypes
<1>3. /\ fate' \in [Token -> Fate] /\ fate'[about[r]] = x
      /\ \A s \in Token : s # about[r] => fate'[s] = fate[s]
  BY <1>1, <1>2
<1> QED
  BY <1>1, <1>3 DEF Grows

LEMMA ReregisterMoves ==
    ASSUME Sound, NEW r \in Request, Reregister(r) PROVE JobMoves(r) /\ StoreMoves
<1> USE DEF Reregister
<1>1. JobMoves(r) /\ jar' \in Cookies /\ binding' \in Sid \union {None} /\ Less(jar')
  BY RespondMoves
<1>2. about[r] \in Token /\ fate' \in [Token -> Fate] /\ Grows /\ fate'[about[r]] = "revoked"
      /\ \A s \in Token : s # about[r] => fate'[s] = fate[s]
  BY ShapeOf, TokenMoves, Fates DEF Shape, Fits
<1>3. site[r] \in Domain
  BY ShapeOf DEF Shape, Fits
<1>4. apps' \in [Bucket \X Domain -> Scope \union {None}] /\ settled' \subseteq Domain
  BY <1>3, AppKey, Scopes DEF Sound, Types, StoreTypes, appVars
<1>5. SignInTypes' /\ StoreTypes'
  BY <1>1, <1>2, <1>4 DEF Sound, Types, SignInTypes, StoreTypes, signInVars, sessionVars, postVars
<1>6. StoreKnown'
  BY <1>1, <1>2 DEF Sound, Known, StoreKnown, Kept, Less, signInVars, sessionVars
<1> QED
  BY <1>1, <1>2, <1>5, <1>6 DEF StoreMoves

-----------------------------------------------------------------------------
LEMMA TouchMoves ==
    ASSUME Sound, NEW r \in Request, Touch(r) PROVE JobMoves(r) /\ StoreMoves
<1> USE DEF Touch
<1>1. Grows
  BY Standing
<1>2. Fits(r, "touch") /\ carry[r] \in Cookies
  BY ShapeOf DEF Shape, Sound, Types, JobTypes
<1>3. carry[r].session \in Token /\ carry[r].token \in Token \union {None}
  BY <1>2, CookieTypes DEF Fits
<1>4. JobMoves(r)
  <2>1. CASE Go(r, "reply") /\ UNCHANGED jobVars /\ flow[r] = "start" /\ carry[r].token # None
    <3>1. Fits(r, "reply") /\ "reply" \in Step
      BY <2>1, <1>2, <1>3, Steps DEF Fits
    <3> QED
      BY <2>1, <3>1, <1>1, GoMoves
  <2>2. CASE SignInAnew(r, "start") /\ flow[r] = "start"
    BY <2>2, AnewMoves
  <2>3. CASE Go(r, "app") /\ UNCHANGED jobVars /\ flow[r] = "logout" /\ carry[r].token # None
    <3>1. Fits(r, "app") /\ "app" \in Step
      BY <2>3, <1>2, <1>3, Steps DEF Fits
    <3> QED
      BY <2>3, <3>1, <1>1, GoMoves
  <2>4. CASE Go(r, "bye") /\ UNCHANGED jobVars /\ flow[r] = "logout"
    <3>1. Fits(r, "bye") /\ "bye" \in Step
      BY <2>4, <1>2, Steps DEF Fits
    <3> QED
      BY <2>4, <3>1, <1>1, GoMoves
  <2>5. CASE Answer(r)
    BY <2>5, AnswerMoves
  <2> QED
    BY <2>1, <2>2, <2>3, <2>4, <2>5
<1>5. sessions' \subseteq Token
  BY <1>3 DEF Sound, Types, StoreTypes
<1>6. StoreMoves
  BY <1>5, JarStays, SessionsChange
<1> QED
  BY <1>4, <1>6

LEMMA ExpireMoves ==
    ASSUME Sound, NEW r \in Request, Expire(r) PROVE JobMoves(r) /\ StoreMoves
<1> USE DEF Expire
<1>1. Fits(r, "unknown") /\ "unknown" \in Step
  BY ShapeOf, Steps DEF Shape, Fits
<1>2. JobMoves(r)
  BY <1>1, Standing, GoMoves
<1>3. sessions' \subseteq Token
  BY DEF Sound, Types, StoreTypes
<1>4. StoreMoves
  BY <1>3, JarStays, SessionsChange
<1> QED
  BY <1>2, <1>4

LEMMA UnknownMoves ==
    ASSUME Sound, NEW r \in Request, Unknown(r) PROVE JobMoves(r) /\ StoreMoves
<1> USE DEF Unknown
<1>1. JobMoves(r)
  <2>1. CASE SignInAnew(r, "start") /\ flow[r] = "start"
    BY <2>1, AnewMoves
  <2>2. CASE Go(r, "bye") /\ UNCHANGED jobVars /\ flow[r] = "logout"
    <3>1. Fits(r, "bye") /\ "bye" \in Step
      BY <2>2, ShapeOf, Steps DEF Shape, Fits
    <3> QED
      BY <2>2, <3>1, Standing, GoMoves
  <2>3. CASE Answer(r)
    BY <2>3, AnswerMoves
  <2> QED
    BY <2>1, <2>2, <2>3
<1>2. jar' \in Cookies /\ Less(jar') /\ binding' \in Sid \union {None}
  <2>1. binding' = binding /\ jar' \in {jar, [jar EXCEPT !.session = None]}
    OBVIOUS
  <2>2. jar \in Cookies /\ binding \in Sid \union {None}
    BY DEF Sound, Types, StoreTypes
  <2>3. jar' \in Cookies
    BY <2>1, <2>2, CookieTypes
  <2>4. [jar EXCEPT !.session = None].session = None
        /\ [jar EXCEPT !.session = None].token = jar.token
    BY <2>2 DEF Cookies
  <2>5. Less(jar')
    BY <2>1, <2>4 DEF Less
  <2> QED
    BY <2>1, <2>2, <2>3, <2>5
<1>3. StoreMoves
  BY <1>2, CookiesGo, PostTypes DEF postVars
<1> QED
  BY <1>1, <1>3

LEMMA CommentSessionStatusMoves ==
    ASSUME Sound, NEW r \in Request, CommentSessionStatus(r) PROVE JobMoves(r) /\ StoreMoves
<1> USE DEF CommentSessionStatus
<1>1. PICK step \in Validate(jar.session) :
          Take(r, step, "status", None, None, None, [jar EXCEPT !.token = None])
  OBVIOUS
<1>2. jar \in Cookies /\ jar.session \in Token /\ step \in {"touch", "expire", "unknown"}
  BY CookieTypes DEF Sound, Types, StoreTypes, Validate
<1>3. PICK k \in Cookies :
          k = [jar EXCEPT !.token = None] /\ k.session = jar.session /\ k.token = None
  BY <1>2 DEF Cookies
<1>4. step \in Step /\ "status" \in Flow
  BY <1>2, Steps, Flows
<1>5. /\ JobTypes' /\ Others(r)
      /\ at'[r] = step /\ flow'[r] = "status" /\ site'[r] = None /\ about'[r] = None
      /\ draft'[r] = None /\ carry'[r] = k
  BY <1>1, <1>3, <1>4, TakeKeeps DEF Sound, Types, Others
<1>6. Shape(r)' /\ Kept(carry[r].token)'
  BY <1>2, <1>3, <1>5 DEF Shape, Fits, Kept
<1>7. StoreMoves
  BY StoresStay, PostTypes DEF postVars
<1> QED
  BY <1>5, <1>6, <1>7 DEF JobMoves

LEMMA CommentLogoutMoves ==
    ASSUME Sound, NEW r \in Request, CommentLogout(r) PROVE Sound'
<1>1. jar \in Cookies /\ binding \in Sid \union {None}
  BY DEF Sound, Types, StoreTypes
<1>2. CASE jar.session # None
  <2>1. PICK step \in Validate(jar.session) :
            Take(r, step, "logout", host[jar.session], None, None, jar)
    BY <1>2 DEF CommentLogout
  <2>2. jar.session \in Token /\ step \in {"touch", "expire", "unknown"}
    BY <1>1, <1>2, CookieTypes DEF Validate
  <2>3. step \in Step /\ "logout" \in Flow /\ host[jar.session] \in Domain \union {None}
    BY <2>2, Steps, Flows DEF Sound, Types, StoreTypes
  <2>4. /\ JobTypes' /\ Others(r)
        /\ at'[r] = step /\ flow'[r] = "logout" /\ about'[r] = None
        /\ draft'[r] = None /\ carry'[r] = jar
    <3>1. JobTypes
      BY DEF Sound, Types
    <3>2. None \in Token \union {None} /\ None \in Draft \union {None}
      OBVIOUS
    <3>3. QED
      BY <1>1, <2>1, <2>3, <3>1, <3>2 DEF Take, Go, JobTypes, Same, Others
  <2>5. Shape(r)' /\ Kept(carry[r].token)'
    BY <2>2, <2>4 DEF CommentLogout, Shape, Fits, Kept, Sound, Known, StoreKnown
  <2>6. StoreMoves
    BY <1>2, StoresStay, PostTypes DEF CommentLogout, postVars, browserVars
  <2> QED
    BY <2>4, <2>5, <2>6, MovesKeep DEF JobMoves
<1>3. CASE jar.session = None
  <2>1. jar' = NoCookies /\ UNCHANGED <<at, jobVars>>
    BY <1>3 DEF CommentLogout
  <2>2. jar' \in Cookies /\ binding' \in Sid \union {None} /\ Less(jar')
    BY <1>1, <2>1, NoCookiesType DEF CommentLogout, Less
  <2>3. JobTypes' /\ StoreMoves
    BY <2>1, <2>2, CookiesGo, PostTypes DEF CommentLogout, postVars, Sound, Types, JobTypes, jobVars
  <2>4. Shapes'
    BY <2>1, <2>3 DEF Sound, Shapes, Shape, Fits, StoreMoves, jobVars
  <2>5. Known'
    BY <2>1, <2>3 DEF CommentLogout, Sound, Known, StoreMoves, Kept, jobVars
  <2> QED
    BY <2>3, <2>4, <2>5 DEF Sound, Types, StoreMoves
<1> QED
  BY <1>2, <1>3

LEMMA RevokeMoves ==
    ASSUME Sound, NEW r \in Request, Revoke(r) PROVE JobMoves(r) /\ StoreMoves
<1> USE DEF Revoke
<1>1. Fits(r, "bye") /\ "bye" \in Step /\ carry[r].token \in Token
  BY ShapeOf, Steps DEF Shape, Fits
<1>2. fate \in [Token -> Fate] /\ "revoked" \in Fate /\ fate[carry[r].token] \in {"kept", "revoked"}
  BY <1>1, Fates, Apart DEF Sound, Types, StoreTypes, Known, Kept
<1>3. /\ fate' \in [Token -> Fate] /\ fate'[carry[r].token] = "revoked"
      /\ \A s \in Token : s # carry[r].token => fate'[s] = fate[s]
  BY <1>1, <1>2
<1>4. Grows
  BY <1>3 DEF Grows, signInVars
<1>5. JobMoves(r)
  BY <1>1, <1>4, GoMoves
<1>6. SignInTypes' /\ StoreTypes'
  BY <1>3 DEF Sound, Types, SignInTypes, StoreTypes, appVars, signInVars, sessionVars, browserVars,
              postVars
<1>7. StoreKnown'
  BY <1>1, <1>2, <1>3 DEF Sound, Known, StoreKnown, Kept, signInVars, sessionVars, browserVars
<1> QED
  BY <1>4, <1>5, <1>6, <1>7 DEF StoreMoves

LEMMA DeleteSessionMoves ==
    ASSUME Sound, NEW r \in Request, DeleteSession(r) PROVE JobMoves(r) /\ StoreMoves
<1>1. JobMoves(r) /\ jar' \in Cookies /\ binding' \in Sid \union {None} /\ Less(jar')
  BY RespondMoves DEF DeleteSession
<1>2. sessions' \subseteq Token
  BY DEF DeleteSession, Sound, Types, StoreTypes
<1> QED
  BY <1>1, <1>2, SessionsChange DEF DeleteSession

-----------------------------------------------------------------------------
LEMMA StartCommentAuthMoves ==
    ASSUME Sound, NEW r \in Request, NEW d \in Domain, NEW c \in Draft \union {None},
           StartCommentAuth(r, d, c)
    PROVE  JobMoves(r) /\ StoreMoves
<1> USE DEF StartCommentAuth
<1>1. /\ jar \in Cookies /\ "start" \in Flow /\ d \in Domain \union {None}
      /\ None \in Token \union {None}
  BY Flows DEF Sound, Types, StoreTypes
<1>2. JobMoves(r)
  <2>1. CASE c # None /\ jar.session # None
    <3>1. PICK step \in Validate(jar.session) : Take(r, step, "start", d, None, c, jar)
      BY <2>1
    <3>2. jar.session \in Token /\ step \in {"touch", "expire", "unknown"}
      BY <1>1, <2>1, CookieTypes DEF Validate
    <3>3. step \in Step
      BY <3>2, Steps
    <3>4. /\ JobTypes' /\ Others(r)
          /\ at'[r] = step /\ flow'[r] = "start" /\ site'[r] = d /\ about'[r] = None
          /\ draft'[r] = c /\ carry'[r] = jar
      BY <1>1, <3>1, <3>3, TakeKeeps DEF Sound, Types, Others
    <3>5. Shape(r)' /\ Kept(carry[r].token)'
      BY <2>1, <3>2, <3>4 DEF Shape, Fits, Kept, Sound, Known, StoreKnown
    <3> QED
      BY <3>4, <3>5 DEF JobMoves
  <2>2. CASE ~(c # None /\ jar.session # None)
    <3>1. Take(r, "app", "start", d, None, c, NoCookies) /\ "app" \in Step /\ NoCookies \in Cookies
      BY <2>2, Steps, NoCookiesType
    <3>2. /\ JobTypes' /\ Others(r)
          /\ at'[r] = "app" /\ flow'[r] = "start" /\ site'[r] = d /\ about'[r] = None
          /\ draft'[r] = c /\ carry'[r] = NoCookies
      BY <1>1, <3>1, TakeKeeps DEF Sound, Types, Others
    <3>3. Shape(r)' /\ Kept(carry[r].token)'
      BY <3>2, NoCookiesType DEF Shape, Fits, Kept
    <3> QED
      BY <3>2, <3>3 DEF JobMoves
  <2> QED
    BY <2>1, <2>2
<1>3. sent' \subseteq Draft
  BY PostTypes
<1>4. StoreMoves
  BY <1>3, StoresStay, PostTypes
<1> QED
  BY <1>2, <1>4

LEMMA PutPendingMoves ==
    ASSUME Sound, NEW r \in Request, NEW s \in Sid, PutPending(r, s)
    PROVE  JobMoves(r) /\ StoreMoves
<1> USE DEF PutPending
<1>1. JobMoves(r)
  BY AnswerMoves
<1>2. site[r] \in Domain /\ draft[r] \in Draft \union {None}
  BY ShapeOf DEF Shape, Fits, Sound, Types, JobTypes
<1>3. home \in [Sid -> Domain \union {None}] /\ text \in [Sid -> Draft \union {None}]
  BY DEF Sound, Types, SignInTypes
<1>4. /\ home' \in [Sid -> Domain \union {None}] /\ text' \in [Sid -> Draft \union {None}]
      /\ home'[s] = site[r]
      /\ \A t \in Sid : t # s => home'[t] = home[t] /\ text'[t] = text[t]
  BY <1>2, <1>3
<1>5. jar' \in Cookies /\ Less(jar')
  <2>1. jar' \in {jar, [jar EXCEPT !.token = None]}
    OBVIOUS
  <2>2. jar \in Cookies
    BY DEF Sound, Types, StoreTypes
  <2>3. jar' \in Cookies
    BY <2>1, <2>2, CookieTypes
  <2>4. Less(jar')
    BY <2>1, <2>2, CookieFields DEF Less
  <2> QED
    BY <2>3, <2>4
<1>6. SignInTypes'
  BY <1>4 DEF Sound, Types, SignInTypes
<1>7. StoreTypes'
  BY <1>5 DEF Sound, Types, StoreTypes, appVars, sessionVars, postVars
<1>8. Grows
  BY <1>4, Apart DEF Grows
<1>9. StoreKnown'
  BY <1>2, <1>4, <1>5, Apart DEF Sound, Known, StoreKnown, Kept, Less, sessionVars
<1> QED
  BY <1>1, <1>6, <1>7, <1>8, <1>9 DEF StoreMoves

LEMMA PendingFailsMoves ==
    ASSUME Sound, NEW r \in Request, PendingFails(r) PROVE JobMoves(r) /\ StoreMoves
BY RespondMoves, CookiesGo, PostTypes DEF PendingFails, postVars

LEMMA CommentAuthCallbackMoves ==
    ASSUME Sound, NEW r \in Request, NEW s \in Sid, CommentAuthCallback(r, s)
    PROVE  JobMoves(r) /\ StoreMoves
<1> USE DEF CommentAuthCallback
<1>1. home[s] \in Domain /\ text[s] \in Draft \union {None}
  BY DEF Sound, Types, SignInTypes, Known, StoreKnown
<1>2. "drop" \in Step /\ "callback" \in Flow /\ NoCookies \in Cookies
  BY Steps, Flows, NoCookiesType
<1>3. /\ JobTypes' /\ Others(r)
      /\ at'[r] = "drop" /\ flow'[r] = "callback" /\ site'[r] = home[s] /\ about'[r] = s
      /\ draft'[r] = text[s] /\ carry'[r] = NoCookies
  BY <1>1, <1>2 DEF Sound, Types, JobTypes, Take, Go, Others, Same
<1>4. Shape(r)' /\ Kept(carry[r].token)'
  BY <1>1, <1>3, NoCookiesType DEF Shape, Fits, Kept, signInVars
<1>5. StoreMoves
  BY StoresStay, PostTypes DEF postVars
<1> QED
  BY <1>3, <1>4, <1>5 DEF JobMoves

LEMMA DeletePendingMoves ==
    ASSUME Sound, NEW r \in Request, DeletePending(r) PROVE JobMoves(r) /\ StoreMoves
<1> USE DEF DeletePending
<1>1. Grows
  BY DEF Grows
<1>2. JobMoves(r) /\ jar' \in Cookies /\ binding' \in Sid \union {None} /\ Less(jar')
  <2>1. CASE Respond(r)
    BY <2>1, RespondMoves
  <2>2. CASE Go(r, "app") /\ UNCHANGED <<browserVars, jobVars>>
    <3>1. Fits(r, "app") /\ "app" \in Step
      BY ShapeOf, Steps DEF Shape, Fits
    <3>2. JobMoves(r)
      BY <2>2, <3>1, <1>1, GoMoves
    <3> QED
      BY <2>2, <3>2, JarStays
  <2> QED
    BY <2>1, <2>2
<1>3. SignInTypes' /\ StoreTypes'
  BY <1>2 DEF Sound, Types, SignInTypes, StoreTypes, appVars, sessionVars, postVars
<1>4. StoreKnown'
  BY <1>2 DEF Sound, Known, StoreKnown, Kept, Less, sessionVars
<1> QED
  BY <1>1, <1>2, <1>3, <1>4 DEF StoreMoves

LEMMA HostTypes ==
    ASSUME Sound
    PROVE  host \in [Token -> Domain \union {None}] /\ pendings \union connecting \subseteq Sid
BY DEF Sound, Types, StoreTypes, SignInTypes

LEMMA JarKept == ASSUME Sound, Grows, Less(jar') PROVE Kept(jar.token)'
<1>1. jar.token \in Token \union {None} /\ Kept(jar.token)
  BY CookieTypes DEF Sound, Types, StoreTypes, Known, StoreKnown
<1> QED
  BY <1>1 DEF Kept, Less, Grows

\* The fate of one token changes, and of no placed one.
LEMMA FateChanges ==
    ASSUME Sound, NEW t \in Token, NEW x \in Fate, fate[t] \notin {"kept", "revoked"},
           fate' = [fate EXCEPT ![t] = x]
    PROVE  /\ fate' \in [Token -> Fate] /\ Grows /\ fate'[t] = x
           /\ \A k \in Token : k # t => fate'[k] = fate[k]
BY DEF Sound, Types, StoreTypes, Grows

LEMMA ExchangeTokenMoves ==
    ASSUME Sound, NEW r \in Request, NEW t \in Token, ExchangeToken(r, t)
    PROVE  JobMoves(r) /\ StoreMoves
<1> USE DEF ExchangeToken
<1>1. /\ fate' \in [Token -> Fate] /\ Grows /\ fate'[t] = "held"
      /\ \A k \in Token : k # t => fate'[k] = fate[k]
  BY FateChanges, Fates
<1>2. PICK step \in {"grant", "reply", "identify"} :
          /\ Go(r, step) /\ (step = "grant" <=> flow[r] = "return")
          /\ (step = "reply" => draft[r] # None)
  OBVIOUS
<1>3. /\ JobTypes' /\ Others(r) /\ at'[r] = step /\ about'[r] = t /\ flow'[r] = flow[r]
      /\ site'[r] = site[r] /\ draft'[r] = draft[r] /\ carry'[r] = carry[r]
  BY <1>2, Steps DEF Go, Others, Same, Sound, Types, JobTypes
<1>4. Fits(r, "exchange") /\ draft[r] \in Draft \union {None}
  BY ShapeOf DEF Shape, Sound, Types, JobTypes
<1>5. Shape(r)'
  BY <1>2, <1>3, <1>4 DEF Shape, Fits
<1>6. Kept(carry[r].token)'
  <2>1. Kept(carry[r].token) /\ carry[r].token \in Token \union {None}
    BY CookieTypes DEF Sound, Types, Known, JobTypes
  <2> QED
    BY <1>1, <1>3, <2>1 DEF Kept, Grows
<1>7. SignInTypes' /\ StoreTypes'
  BY <1>1 DEF Sound, Types, SignInTypes, StoreTypes, appVars, signInVars, sessionVars,
              browserVars, postVars
<1>8. StoreKnown'
  <2>1. Kept(jar.token)'
    BY <1>1, JarStays, JarKept
  <2> QED
    BY <1>1, <2>1, HostTypes DEF Sound, Known, StoreKnown, Grows, signInVars, sessionVars
<1> QED
  BY <1>1, <1>3, <1>5, <1>6, <1>7, <1>8 DEF JobMoves, StoreMoves

LEMMA ExchangeFailsMoves ==
    ASSUME Sound, NEW r \in Request, ExchangeFails(r) PROVE JobMoves(r) /\ StoreMoves
<1> USE DEF ExchangeFails
<1>1. JobMoves(r) /\ jar' \in Cookies /\ binding' \in Sid \union {None} /\ Less(jar')
  BY RespondMoves
<1>2. CASE UNCHANGED fate
  BY <1>1, <1>2, CookiesGo, PostTypes DEF postVars
<1>3. ASSUME NEW t \in Token, fate[t] = "none", fate' = [fate EXCEPT ![t] = "lost"]
      PROVE  StoreMoves
  <2>1. /\ fate' \in [Token -> Fate] /\ Grows /\ fate'[t] = "lost"
        /\ \A k \in Token : k # t => fate'[k] = fate[k]
    BY <1>3, FateChanges, Fates
  <2>2. SignInTypes' /\ StoreTypes'
    BY <1>1, <2>1 DEF Sound, Types, SignInTypes, StoreTypes, appVars, signInVars,
                     sessionVars, postVars
  <2>3. StoreKnown'
    BY <1>1, <2>1, JarKept, HostTypes DEF Sound, Known, StoreKnown, Grows, signInVars, sessionVars
  <2> QED
    BY <2>1, <2>2, <2>3 DEF StoreMoves
<1> QED
  BY <1>1, <1>2, <1>3

LEMMA AcceptedTypes ==
    ASSUME Sound, NEW r \in Request, at[r] = "reply", Accepted(r)
    PROVE  /\ draft[r] \in Draft /\ CodeOf(r) \in Codes /\ posted' \in [Draft -> [Codes -> Nat]]
           /\ posted'[draft[r]][CodeOf(r)] = posted[draft[r]][CodeOf(r)] + 1
           /\ \A c \in Draft, t \in Codes :
                  c # draft[r] \/ t # CodeOf(r) => posted'[c][t] = posted[c][t]
<1>1. draft[r] \in Draft /\ CodeOf(r) \in Codes
  BY ShapeOf DEF Shape, Fits, CodeOf, Codes
<1>2. /\ posted \in [Draft -> [Codes -> Nat]]
      /\ posted' = [posted EXCEPT ![draft[r]][CodeOf(r)] = posted[draft[r]][CodeOf(r)] + 1]
  BY PostTypes DEF Accepted
<1> QED
  BY <1>1, <1>2

LEMMA PostReplyMoves ==
    ASSUME Sound, NEW r \in Request, PostReply(r) PROVE JobMoves(r) /\ StoreMoves
<1> USE DEF PostReply
<1>1. JobMoves(r)
  <2>1. CASE Answer(r)
    BY <2>1, AnswerMoves
  <2>2. CASE Go(r, "identify") /\ UNCHANGED jobVars /\ flow[r] # "start"
    <3>1. Fits(r, "identify") /\ "identify" \in Step
      BY <2>2, ShapeOf, Steps DEF Shape, Fits
    <3> QED
      BY <2>2, <3>1, Standing, GoMoves
  <2> QED
    BY <2>1, <2>2
<1>2. StoreMoves
  BY StoresStay, PostTypes, AcceptedTypes
<1> QED
  BY <1>1, <1>2

LEMMA ReplyFailsMoves ==
    ASSUME Sound, NEW r \in Request, ReplyFails(r) PROVE JobMoves(r) /\ StoreMoves
<1> USE DEF ReplyFails
<1>1. sent' \subseteq Draft /\ posted' \in [Draft -> [Codes -> Nat]] /\ unheard' \subseteq Draft
  BY PostTypes, AcceptedTypes
<1>2. CASE flow[r] = "start"
  <2>1. JobMoves(r)
    BY <1>2, AnewMoves
  <2> QED
    BY <1>1, <1>2, <2>1, StoresStay
<1>3. CASE flow[r] # "start"
  <2>1. JobMoves(r) /\ jar' \in Cookies /\ binding' \in Sid \union {None} /\ Less(jar')
    BY <1>3, RespondMoves
  <2>2. /\ about[r] \in Token /\ fate' \in [Token -> Fate] /\ Grows /\ fate'[about[r]] = "revoked"
        /\ \A s \in Token : s # about[r] => fate'[s] = fate[s]
    BY <1>3, TokenMoves, Fates
  <2>3. SignInTypes' /\ StoreTypes'
    BY <1>1, <2>1, <2>2 DEF Sound, Types, SignInTypes, StoreTypes, appVars, signInVars,
                           sessionVars
  <2>4. StoreKnown'
    BY <2>1, <2>2, JarKept, HostTypes DEF Sound, Known, StoreKnown, signInVars, sessionVars
  <2> QED
    BY <2>1, <2>2, <2>3, <2>4 DEF StoreMoves
<1> QED
  BY <1>2, <1>3

LEMMA ScopeRejectedMoves ==
    ASSUME Sound, NEW r \in Request, ScopeRejected(r) PROVE JobMoves(r) /\ StoreMoves
<1> USE DEF ScopeRejected
<1>1. Fits(r, "reregister") /\ "reregister" \in Step
  BY ShapeOf, Steps DEF Shape, Fits
<1>2. JobMoves(r)
  BY <1>1, Standing, GoMoves
<1> QED
  BY <1>2, StoresStay, PostTypes DEF postVars

LEMMA KeepMoves ==
    ASSUME Sound, NEW r \in Request, at[r] \in {"identify", "grant"}, Keep(r)
    PROVE  /\ JobMoves(r) /\ about[r] \in Token /\ fate' \in [Token -> Fate] /\ Grows
           /\ fate'[about[r]] = "kept"
           /\ \A s \in Token : s # about[r] => fate'[s] = fate[s]
<1>1. flow[r] # "start"
  BY ShapeOf DEF Shape, Fits
<1> QED
  BY <1>1, AnswerMoves, TokenMoves, Fates DEF Keep

LEMMA RememberMoves ==
    ASSUME Sound, NEW r \in Request, Remember(r) PROVE JobMoves(r) /\ StoreMoves
<1> USE DEF Remember
<1>1. /\ JobMoves(r) /\ about[r] \in Token /\ fate' \in [Token -> Fate] /\ Grows
      /\ fate'[about[r]] = "kept"
      /\ \A s \in Token : s # about[r] => fate'[s] = fate[s]
  BY KeepMoves
<1>2. jar' \in Cookies /\ jar'.session = about[r] /\ jar'.token = about[r]
  BY <1>1 DEF Cookies
<1>3. site[r] \in Domain
  BY ShapeOf DEF Shape, Fits
<1>4. SignInTypes' /\ StoreTypes'
  BY <1>1, <1>2, <1>3 DEF Sound, Types, SignInTypes, StoreTypes, appVars, signInVars, postVars
<1>5. StoreKnown'
  <2>1. Kept(jar.token)'
    BY <1>1, <1>2 DEF Kept
  <2> QED
    BY <1>1, <2>1, HostTypes DEF Sound, Known, StoreKnown, signInVars
<1> QED
  BY <1>1, <1>4, <1>5 DEF StoreMoves

LEMMA UnidentifiedMoves ==
    ASSUME Sound, NEW r \in Request, Unidentified(r) PROVE JobMoves(r) /\ StoreMoves
<1> USE DEF Unidentified
<1>1. /\ JobMoves(r) /\ about[r] \in Token /\ fate' \in [Token -> Fate] /\ Grows
      /\ fate'[about[r]] = "kept"
      /\ \A s \in Token : s # about[r] => fate'[s] = fate[s]
  BY KeepMoves
<1>2. jar' \in Cookies /\ jar'.session = jar.session /\ jar'.token = about[r]
  BY <1>1 DEF Cookies, Sound, Types, StoreTypes
<1>3. SignInTypes' /\ StoreTypes'
  BY <1>1, <1>2 DEF Sound, Types, SignInTypes, StoreTypes, appVars, signInVars, sessionVars,
                    postVars
<1>4. StoreKnown'
  <2>1. Kept(jar.token)'
    BY <1>1, <1>2 DEF Kept
  <2> QED
    BY <1>1, <2>1, HostTypes DEF Sound, Known, StoreKnown, signInVars, sessionVars
<1> QED
  BY <1>1, <1>3, <1>4 DEF StoreMoves

-----------------------------------------------------------------------------
LEMMA AdminStartReferenceConnectMoves ==
    ASSUME Sound, NEW r \in Request, NEW d \in Domain, AdminStartReferenceConnect(r, d)
    PROVE  JobMoves(r) /\ StoreMoves
<1> USE DEF AdminStartReferenceConnect
<1>1. "app" \in Step /\ "connect" \in Flow /\ NoCookies \in Cookies /\ None \in Token \union {None}
      /\ d \in Domain \union {None} /\ None \in Draft \union {None}
  BY Steps, Flows, NoCookiesType
<1>2. /\ JobTypes' /\ Others(r)
      /\ at'[r] = "app" /\ flow'[r] = "connect" /\ site'[r] = d /\ about'[r] = None
      /\ draft'[r] = None /\ carry'[r] = NoCookies
  BY <1>1, TakeKeeps DEF Sound, Types, Others
<1>3. Shape(r)' /\ Kept(carry[r].token)'
  BY <1>2, NoCookiesType DEF Shape, Fits, Kept
<1>4. StoreMoves
  BY StoresStay, PostTypes DEF postVars
<1> QED
  BY <1>2, <1>3, <1>4 DEF JobMoves

LEMMA PutReferencePendingMoves ==
    ASSUME Sound, NEW r \in Request, NEW s \in Sid, PutReferencePending(r, s)
    PROVE  JobMoves(r) /\ StoreMoves
<1> USE DEF PutReferencePending
<1>1. JobMoves(r)
  BY AnswerMoves
<1>2. site[r] \in Domain
  BY ShapeOf DEF Shape, Fits
<1>3. home \in [Sid -> Domain \union {None}]
  BY DEF Sound, Types, SignInTypes
<1>4. home' \in [Sid -> Domain \union {None}] /\ home'[s] = site[r]
      /\ \A t \in Sid : t # s => home'[t] = home[t]
  BY <1>2, <1>3
<1>5. SignInTypes' /\ StoreTypes'
  BY <1>4 DEF Sound, Types, SignInTypes, StoreTypes, appVars, sessionVars, browserVars, postVars
<1>6. Grows
  BY <1>4, Apart DEF Grows
<1>7. StoreKnown'
  BY <1>2, <1>4, Apart DEF Sound, Known, StoreKnown, Kept, sessionVars, browserVars
<1> QED
  BY <1>1, <1>5, <1>6, <1>7 DEF StoreMoves

LEMMA AdminReferenceCallbackMoves ==
    ASSUME Sound, NEW r \in Request, NEW s \in Sid, AdminReferenceCallback(r, s)
    PROVE  Sound'
<1> USE DEF AdminReferenceCallback
<1>1. home[s] \in Domain
  BY DEF Sound, Known, StoreKnown
<1>2. SignInTypes' /\ StoreTypes' /\ Grows
  BY DEF Sound, Types, SignInTypes, StoreTypes, Grows, appVars, sessionVars, browserVars,
         postVars
<1>3. StoreKnown'
  BY DEF Sound, Known, StoreKnown, Kept, sessionVars, browserVars
<1>4. CASE Take(r, "app", "return", home[s], s, None, NoCookies)
  <2>1. "app" \in Step /\ "return" \in Flow /\ NoCookies \in Cookies
    BY Steps, Flows, NoCookiesType
  <2>2. /\ JobTypes' /\ Others(r)
        /\ at'[r] = "app" /\ flow'[r] = "return" /\ site'[r] = home[s] /\ about'[r] = s
        /\ draft'[r] = None /\ carry'[r] = NoCookies
    BY <1>1, <1>4, <2>1 DEF Sound, Types, JobTypes, Take, Go, Others, Same
  <2>3. Shape(r)' /\ Kept(carry[r].token)'
    BY <1>1, <2>2, NoCookiesType DEF Shape, Fits, Kept
  <2> QED
    BY <1>2, <1>3, <2>2, <2>3, MovesKeep DEF JobMoves, StoreMoves
<1>5. CASE UNCHANGED <<at, jobVars>>
  <2>1. JobTypes' /\ Shapes'
    BY <1>2, <1>5 DEF Sound, Types, JobTypes, Shapes, Shape, Fits, jobVars
  <2>2. Known'
    BY <1>2, <1>3, <1>5 DEF Sound, Known, Kept, jobVars
  <2> QED
    BY <1>2, <2>1, <2>2 DEF Sound, Types
<1> QED
  BY <1>4, <1>5

LEMMA PutGrantMoves ==
    ASSUME Sound, Tokens, NEW r \in Request, PutGrant(r) PROVE JobMoves(r) /\ StoreMoves
<1> USE DEF PutGrant
<1>1. PICK x \in {"kept", "lost"} :
          fate' = [fate EXCEPT ![about[r]] = x] /\ Answer(r) /\ grant' \in {grant, about[r]}
  BY DEF Keep
<1>2. about[r] \in Token /\ fate[about[r]] = "held"
  BY ShapeOf DEF Shape, Fits, Tokens, HoldsToken
<1>3. JobMoves(r)
  BY <1>1, AnswerMoves
<1>4. /\ fate' \in [Token -> Fate] /\ Grows /\ fate'[about[r]] = x
      /\ \A k \in Token : k # about[r] => fate'[k] = fate[k]
  BY <1>1, <1>2, FateChanges, Fates
<1>5. SignInTypes' /\ StoreTypes'
  BY <1>1, <1>2, <1>4 DEF Sound, Types, SignInTypes, StoreTypes, appVars, signInVars, sessionVars,
              browserVars, postVars
<1>6. StoreKnown'
  <2>1. Kept(jar.token)'
    BY <1>4, JarStays, JarKept
  <2> QED
    BY <1>4, <2>1, HostTypes DEF Sound, Known, StoreKnown, Grows, signInVars, sessionVars
<1> QED
  BY <1>3, <1>4, <1>5, <1>6 DEF StoreMoves

LEMMA DisconnectKeeps == ASSUME Sound, AdminDisconnectReference PROVE Sound'
<1> USE DEF AdminDisconnectReference, appVars, signInVars, sessionVars, browserVars, jobVars,
            postVars
<1>1. Types'
  BY DEF Sound, Types, JobTypes, SignInTypes, StoreTypes
<1>2. Shapes'
  BY DEF Sound, Shapes, Shape, Fits
<1>3. Known'
  BY DEF Sound, Known, StoreKnown, Kept
<1> QED
  BY <1>1, <1>2, <1>3 DEF Sound

LEMMA RestartKeeps == ASSUME Sound, Restart PROVE Sound'
<1> USE DEF Restart, appVars, sessionVars, browserVars, postVars
<1>1. JobTypes'
  BY Steps, Flows, NoCookiesType DEF JobTypes, NoOne
<1>2. /\ fate \in [Token -> Fate] /\ fate' \in [Token -> Fate] /\ Grows
      /\ \A s \in Token : fate'[s] = "none" <=> fate[s] = "none"
  BY Fates DEF Sound, Types, StoreTypes, Grows
<1>3. SignInTypes' /\ StoreTypes'
  BY <1>2 DEF Sound, Types, SignInTypes, StoreTypes
<1>4. Shapes'
  BY DEF Shapes, Shape, Fits, NoOne
<1>5. Known'
  <2>1. Kept(jar.token)'
    BY <1>2, JarStays, JarKept
  <2>2. \A r \in Request : Kept(carry[r].token)'
    BY NoCookiesType DEF Kept, NoOne
  <2> QED
    BY <1>2, <2>1, <2>2, HostTypes DEF Sound, Known, StoreKnown, Grows
<1> QED
  BY <1>1, <1>3, <1>4, <1>5 DEF Sound, Types

LEMMA CookieExpiresKeeps == ASSUME Sound, CookieExpires PROVE Sound'
<1> USE DEF CookieExpires
<1>1. jar' \in Cookies /\ Less(jar') /\ binding' \in Sid \union {None}
  <2>1. jar \in Cookies /\ binding \in Sid \union {None}
    BY DEF Sound, Types, StoreTypes
  <2>2. \A x \in {[jar EXCEPT !.session = None], [jar EXCEPT !.token = None]} :
            x \in Cookies /\ Less(x)
    BY <2>1 DEF Cookies, Less
  <2> QED
    BY <2>1, <2>2 DEF Less
<1>2. StoreMoves
  BY <1>1, CookiesGo, PostTypes DEF postVars
<1>3. JobTypes' /\ Shapes'
  BY DEF Sound, Types, JobTypes, Shapes, Shape, Fits, jobVars, signInVars
<1>4. Known'
  BY <1>2 DEF Sound, Known, StoreMoves, Kept, jobVars
<1> QED
  BY <1>2, <1>3, <1>4 DEF Sound, Types, StoreMoves

LEMMA StutterKeeps == ASSUME Sound, UNCHANGED vars PROVE Sound'
<1> USE DEF vars, appVars, signInVars, sessionVars, browserVars, jobVars, postVars
<1>1. Types'
  BY DEF Sound, Types, JobTypes, SignInTypes, StoreTypes
<1>2. Shapes'
  BY DEF Sound, Shapes, Shape, Fits
<1>3. Known'
  BY DEF Sound, Known, StoreKnown, Kept
<1> QED
  BY <1>1, <1>2, <1>3 DEF Sound

LEMMA SessionStepKeeps == ASSUME Sound, NEW r \in Request, SessionStep(r) PROVE Sound'
<1>1. CASE Touch(r) BY <1>1, TouchMoves, MovesKeep
<1>2. CASE Expire(r) BY <1>2, ExpireMoves, MovesKeep
<1>3. CASE Unknown(r) BY <1>3, UnknownMoves, MovesKeep
<1>4. CASE CommentSessionStatus(r) BY <1>4, CommentSessionStatusMoves, MovesKeep
<1>5. CASE CommentLogout(r) BY <1>5, CommentLogoutMoves
<1>6. CASE Revoke(r) BY <1>6, RevokeMoves, MovesKeep
<1>7. CASE DeleteSession(r) BY <1>7, DeleteSessionMoves, MovesKeep
<1> QED
  BY <1>1, <1>2, <1>3, <1>4, <1>5, <1>6, <1>7 DEF SessionStep

LEMMA AppStepKeeps == ASSUME Sound, NEW r \in Request, AppStep(r) PROVE Sound'
<1>1. CASE RegisterOrGetApp(r) BY <1>1, RegisterOrGetAppMoves, MovesKeep
<1>2. CASE RegisterApp(r) BY <1>2, RegisterAppMoves, MovesKeep
<1>3. CASE RegisterFails(r) BY <1>3, RegisterFailsMoves, MovesKeep
<1>4. CASE Reregister(r) BY <1>4, ReregisterMoves, MovesKeep
<1> QED
  BY <1>1, <1>2, <1>3, <1>4 DEF AppStep

LEMMA CommentStepKeeps == ASSUME Sound, NEW r \in Request, CommentStep(r) PROVE Sound'
<1>1. CASE \E d \in Domain, c \in Draft \union {None} : StartCommentAuth(r, d, c)
  BY <1>1, StartCommentAuthMoves, MovesKeep
<1>2. CASE \E s \in Sid : PutPending(r, s)
  BY <1>2, PutPendingMoves, MovesKeep
<1>3. CASE \E s \in Sid : CommentAuthCallback(r, s)
  BY <1>3, CommentAuthCallbackMoves, MovesKeep
<1>4. CASE DeletePending(r) BY <1>4, DeletePendingMoves, MovesKeep
<1>5. CASE \E t \in Token : ExchangeToken(r, t)
  BY <1>5, ExchangeTokenMoves, MovesKeep
<1>6. CASE ExchangeFails(r) BY <1>6, ExchangeFailsMoves, MovesKeep
<1>7. CASE PostReply(r) BY <1>7, PostReplyMoves, MovesKeep
<1>8. CASE ReplyFails(r) BY <1>8, ReplyFailsMoves, MovesKeep
<1>9. CASE ScopeRejected(r) BY <1>9, ScopeRejectedMoves, MovesKeep
<1>10. CASE Remember(r) BY <1>10, RememberMoves, MovesKeep
<1>11. CASE Unidentified(r) BY <1>11, UnidentifiedMoves, MovesKeep
<1>12. CASE PendingFails(r) BY <1>12, PendingFailsMoves, MovesKeep
<1> QED
  BY <1>1, <1>2, <1>3, <1>4, <1>5, <1>6, <1>7, <1>8, <1>9, <1>10, <1>11, <1>12 DEF CommentStep

LEMMA ReferenceStepKeeps ==
    ASSUME Sound, Tokens, NEW r \in Request, ReferenceStep(r) PROVE Sound'
<1>1. CASE \E d \in Domain : AdminStartReferenceConnect(r, d)
  BY <1>1, AdminStartReferenceConnectMoves, MovesKeep
<1>2. CASE \E s \in Sid : PutReferencePending(r, s)
  BY <1>2, PutReferencePendingMoves, MovesKeep
<1>3. CASE \E s \in Sid : AdminReferenceCallback(r, s)
  BY <1>3, AdminReferenceCallbackMoves
<1>4. CASE PutGrant(r) BY <1>4, PutGrantMoves, MovesKeep
<1> QED
  BY <1>1, <1>2, <1>3, <1>4 DEF ReferenceStep

LEMMA SoundInit == Init => Sound
<1> SUFFICES ASSUME Init PROVE Sound
  OBVIOUS
<1> USE DEF Init, NoJobs, NoOne
<1>1. JobTypes
  BY Steps, Flows, NoCookiesType DEF JobTypes
<1>2. SignInTypes
  BY DEF SignInTypes
<1>3. StoreTypes
  BY Fates, NoCookiesType DEF StoreTypes, Codes
<1>4. Shapes
  BY DEF Shapes, Shape, Fits
<1>5. Known
  BY NoCookiesType DEF Known, StoreKnown, Kept
<1> QED
  BY <1>1, <1>2, <1>3, <1>4, <1>5 DEF Sound, Types

LEMMA SoundNext == Sound /\ Tokens /\ [Next]_vars => Sound'
<1> SUFFICES ASSUME Sound, Tokens, [Next]_vars PROVE Sound'
  OBVIOUS
<1>1. ASSUME NEW r \in Request,
             SessionStep(r) \/ AppStep(r) \/ CommentStep(r) \/ ReferenceStep(r)
      PROVE  Sound'
  BY <1>1, SessionStepKeeps, AppStepKeeps, CommentStepKeeps, ReferenceStepKeeps
<1> QED
  BY <1>1, DisconnectKeeps, RestartKeeps, CookieExpiresKeeps, StutterKeeps DEF Next

-----------------------------------------------------------------------------
(* What the handlers do to tokens and to comments: most leave both alone. *)
Holding == {"reply", "reregister", "identify", "grant"}
Bare(r) == about[r] = None \/ at[r] \notin Holding

QuietToken(r) ==
    /\ Others(r) /\ UNCHANGED fate
    /\ \A s \in Token : HoldsToken(r, s)' <=> HoldsToken(r, s)

Writing(r) == flow[r] \in {"start", "retry"} /\ draft[r] # None

QuietPost(r) ==
    /\ Others(r) /\ UNCHANGED <<text, posted, unheard, sent>>
    /\ flow'[r] = "callback" /\ draft'[r] # None =>
          (flow[r] = "callback" /\ draft'[r] = draft[r]) \/ \E s \in Sid : text[s] = draft'[r]
    /\ \A s \in Token : fate'[s] = "none" => fate[s] = "none"
    /\ at'[r] = "reply" /\ about'[r] # None => at[r] = "reply" /\ about[r] = about'[r]
    /\ Writing(r)' => Writing(r) /\ flow'[r] = flow[r] /\ draft'[r] = draft[r]

Quiet(r) == QuietToken(r) /\ QuietPost(r)

LEMMA GoQuiet ==
    ASSUME Sound, NEW r \in Request, NEW step \in Step, Go(r, step), UNCHANGED jobVars,
           UNCHANGED <<fate, text, postVars>>, Bare(r), about[r] = None \/ step \notin Holding
    PROVE  Quiet(r)
<1>1. /\ Others(r) /\ at'[r] = step /\ flow'[r] = flow[r] /\ about'[r] = about[r]
      /\ draft'[r] = draft[r]
  BY GoKeeps DEF Sound, Types, Others
<1> QED
  BY <1>1, Apart DEF Quiet, QuietToken, QuietPost, Bare, Holding, HoldsToken, Writing, postVars

LEMMA AnswerQuiet ==
    ASSUME Sound, NEW r \in Request, Answer(r), UNCHANGED <<text, postVars>>,
           \A s \in Token : fate'[s] = "none" => fate[s] = "none"
    PROVE  QuietPost(r) /\ (Bare(r) /\ UNCHANGED fate => QuietToken(r))
<1>1. /\ Others(r) /\ at'[r] = "idle" /\ flow'[r] = "none" /\ about'[r] = None
      /\ draft'[r] = None
  BY AnswerKeeps DEF Sound, Types, Others
<1> QED
  BY <1>1, Apart DEF QuietToken, QuietPost, Bare, Holding, HoldsToken, Writing, postVars

LEMMA AnewQuiet ==
    ASSUME Sound, NEW r \in Request, SignInAnew(r, "start"), flow[r] = "start",
           UNCHANGED <<fate, text, postVars>>
    PROVE  Quiet(r)
<1>1. /\ Others(r) /\ at'[r] = "app" /\ flow'[r] = "start" /\ about'[r] = None
      /\ draft'[r] = draft[r]
  BY AnewKeeps, Flows DEF Sound, Types, Others
<1>2. about[r] = None
  BY ShapeOf DEF Shape, Fits
<1> QED
  BY <1>1, <1>2, Apart DEF Quiet, QuietToken, QuietPost, Holding, HoldsToken, Writing, postVars

LEMMA QuietSession ==
    ASSUME Sound, NEW r \in Request,
           Touch(r) \/ Expire(r) \/ Unknown(r) \/ CommentSessionStatus(r) \/ DeleteSession(r)
    PROVE  Quiet(r)
<1> USE DEF signInVars
<1>0. Shape(r)
  BY ShapeOf
<1>1. CASE Touch(r)
  <2> USE <1>1 DEF Touch
  <2>1. Bare(r)
    BY DEF Bare, Holding
  <2>2. CASE Go(r, "reply") /\ UNCHANGED jobVars /\ flow[r] = "start"
    BY <2>1, <2>2, <1>0, GoQuiet, Steps DEF Shape, Fits
  <2>3. CASE SignInAnew(r, "start") /\ flow[r] = "start"
    BY <2>3, AnewQuiet
  <2>4. CASE \E step \in {"app", "bye"} : Go(r, step) /\ UNCHANGED jobVars
    BY <2>1, <2>4, GoQuiet, Steps DEF Holding
  <2>5. CASE Answer(r)
    BY <2>1, <2>5, AnswerQuiet DEF Quiet
  <2> QED
    BY <2>2, <2>3, <2>4, <2>5
<1>2. CASE Expire(r)
  BY <1>2, GoQuiet, Steps DEF Expire, Bare, Holding
<1>3. CASE Unknown(r)
  <2> USE <1>3 DEF Unknown
  <2>1. Bare(r)
    BY DEF Bare, Holding
  <2>2. CASE SignInAnew(r, "start") /\ flow[r] = "start"
    BY <2>2, AnewQuiet
  <2>3. CASE Go(r, "bye") /\ UNCHANGED jobVars
    BY <2>1, <2>3, GoQuiet, Steps DEF Holding
  <2>4. CASE Answer(r)
    BY <2>1, <2>4, AnswerQuiet DEF Quiet
  <2> QED
    BY <2>2, <2>3, <2>4
<1>4. CASE CommentSessionStatus(r)
  <2> USE <1>4 DEF CommentSessionStatus
  <2>1. PICK step \in Validate(jar.session) :
            Take(r, step, "status", None, None, None, [jar EXCEPT !.token = None])
    OBVIOUS
  <2>2. Others(r) /\ at'[r] = step /\ flow'[r] = "status" /\ about'[r] = None /\ draft'[r] = None
    BY <2>1 DEF Take, Go, Others, Same, Sound, Types, JobTypes
  <2> QED
    BY <2>2, Apart DEF Idle, Quiet, QuietToken, QuietPost, HoldsToken, Writing, postVars
<1>5. CASE DeleteSession(r)
  BY <1>5, AnswerQuiet DEF DeleteSession, Respond, Quiet, Bare, Holding, postVars
<1> QED
  BY <1>1, <1>2, <1>3, <1>4, <1>5

LEMMA QuietApp ==
    ASSUME Sound, NEW r \in Request, RegisterOrGetApp(r) \/ RegisterApp(r) \/ RegisterFails(r)
    PROVE  Quiet(r)
<1> USE DEF signInVars
<1>1. Bare(r) /\ AfterApp(r) \in Step \ Holding
  BY Steps DEF Bare, Holding, AfterApp, RegisterOrGetApp, RegisterApp, RegisterFails
<1>2. CASE \E step \in {"register", "bye", AfterApp(r)} :
               Go(r, step) /\ UNCHANGED <<fate, signInVars, jobVars, postVars>>
  <2>1. PICK step \in Step \ Holding :
            Go(r, step) /\ UNCHANGED <<fate, signInVars, jobVars, postVars>>
    BY <1>1, <1>2, Steps DEF Holding
  <2> QED
    BY <1>1, <2>1, GoQuiet
<1>3. CASE RegisterFails(r) /\ Respond(r)
  BY <1>1, <1>3, AnswerQuiet DEF RegisterFails, Respond, Quiet
<1> QED
  BY <1>2, <1>3 DEF RegisterOrGetApp, RegisterApp, RegisterFails

LEMMA QuietCallback ==
    ASSUME Sound, NEW r \in Request,
           (\E s \in Sid : CommentAuthCallback(r, s)) \/ DeletePending(r)
    PROVE  Quiet(r)
<1> USE DEF signInVars
<1>1. ASSUME NEW s \in Sid, CommentAuthCallback(r, s) PROVE Quiet(r)
  <2>1. Others(r) /\ at'[r] = "drop" /\ flow'[r] = "callback" /\ draft'[r] = text[s]
    BY <1>1 DEF CommentAuthCallback, Take, Go, Others, Same, Sound, Types, JobTypes
  <2> QED
    BY <1>1, <2>1 DEF CommentAuthCallback, Idle, Quiet, QuietToken, QuietPost, HoldsToken, Writing,
                      postVars
<1>2. CASE DeletePending(r)
  <2> USE <1>2 DEF DeletePending
  <2>1. Bare(r) /\ "app" \in Step \ Holding
    BY Steps DEF Bare, Holding
  <2>2. CASE Respond(r)
    BY <2>1, <2>2, AnswerQuiet DEF Respond, Quiet
  <2>3. CASE Go(r, "app") /\ UNCHANGED <<browserVars, jobVars>>
    BY <2>1, <2>3, GoQuiet
  <2> QED
    BY <2>2, <2>3
<1> QED
  BY <1>1, <1>2

LEMMA QuietReference ==
    ASSUME Sound, NEW r \in Request, NEW d \in Domain, AdminStartReferenceConnect(r, d)
    PROVE  Quiet(r)
<1> USE DEF AdminStartReferenceConnect
<1>1. Others(r) /\ at'[r] = "app" /\ flow'[r] = "connect" /\ about'[r] = None
  BY DEF Take, Go, Others, Same, Sound, Types, JobTypes
<1> QED
  BY <1>1, Apart DEF Idle, Quiet, QuietToken, QuietPost, HoldsToken, Writing, signInVars, postVars

LEMMA QuietReferencePending ==
    ASSUME Sound, NEW r \in Request, NEW s \in Sid, PutReferencePending(r, s)
    PROVE  Quiet(r)
BY AnswerQuiet DEF PutReferencePending, Quiet, Bare, Holding, postVars

\* These may leave the request as it is.
LEMMA QuietTaken ==
    ASSUME Sound, NEW r \in Request,
           (\E s \in Sid : AdminReferenceCallback(r, s)) \/ CommentLogout(r)
    PROVE  Quiet(r)
<1>1. CASE UNCHANGED <<at, jobVars>>
  BY <1>1 DEF AdminReferenceCallback, CommentLogout, Quiet, QuietToken, QuietPost, HoldsToken,
              Writing, Others, Same, jobVars, signInVars, postVars
<1>2. CASE \E step \in {"app", "touch", "expire", "unknown"}, f \in {"return", "logout"},
              d \in Domain \union {None}, s \in Sid \union {None}, k \in Cookies :
               Take(r, step, f, d, s, None, k)
  <2>1. /\ Others(r) /\ at'[r] \in {"app", "touch", "expire", "unknown"}
        /\ flow'[r] \in {"return", "logout"}
    BY <1>2 DEF Take, Go, Others, Same, Sound, Types, JobTypes
  <2> QED
    BY <2>1, Apart DEF AdminReferenceCallback, CommentLogout, Idle, Quiet, QuietToken, QuietPost,
                       HoldsToken, Writing, signInVars, postVars
<1>3. ASSUME NEW s \in Sid, AdminReferenceCallback(r, s) PROVE Quiet(r)
  <2>1. home[s] \in Domain /\ NoCookies \in Cookies
    BY <1>3, NoCookiesType DEF AdminReferenceCallback, Sound, Known, StoreKnown
  <2> QED
    BY <1>1, <1>2, <1>3, <2>1 DEF AdminReferenceCallback
<1>4. CASE CommentLogout(r)
  <2>1. jar \in Cookies /\ jar.session \in Token \union {None}
    BY CookieTypes DEF Sound, Types, StoreTypes
  <2>2. jar.session # None => host[jar.session] \in Domain \union {None}
    BY <2>1 DEF Sound, Types, StoreTypes
  <2> QED
    BY <1>1, <1>2, <1>4, <2>1, <2>2 DEF CommentLogout, Validate
<1> QED
  BY <1>3, <1>4

-----------------------------------------------------------------------------
(* Who has a token. *)
LEMMA OthersHold ==
    ASSUME NEW r \in Request, Others(r)
    PROVE  \A q \in Request, s \in Token : q # r => (HoldsToken(q, s)' <=> HoldsToken(q, s))
BY DEF Others, Same, HoldsToken

LEMMA TokensStay == ASSUME Tokens, NEW r \in Request, QuietToken(r) PROVE Tokens'
<1>1. \A q \in Request, s \in Token : HoldsToken(q, s)' <=> HoldsToken(q, s)
  BY OthersHold DEF QuietToken
<1> QED
  BY <1>1 DEF Tokens, QuietToken

\* The request is done with the token.
LEMMA TokensEnd ==
    ASSUME Sound, Tokens, NEW r \in Request, NEW s \in Token, HoldsToken(r, s), Answer(r),
           NEW x \in Fate, x # "held", fate' = [fate EXCEPT ![s] = x]
    PROVE  Tokens'
<1>1. Others(r) /\ at'[r] = "idle"
  BY AnswerKeeps DEF Sound, Types, Others
<1>2. fate'[s] # "held" /\ \A t \in Token : t # s => fate'[t] = fate[t]
  BY DEF Sound, Types, StoreTypes
<1>3. \A q \in Request, t \in Token : q # r => (HoldsToken(q, t)' <=> HoldsToken(q, t))
  BY <1>1, OthersHold
<1>4. \A t \in Token : ~ HoldsToken(r, t)' /\ (HoldsToken(r, t) => t = s)
  BY <1>1 DEF HoldsToken
<1> QED
  BY <1>2, <1>3, <1>4 DEF Tokens

\* A step that changes no holder, and no token that is held.
LEMMA TokensElsewhere ==
    ASSUME Tokens, \A q \in Request, s \in Token : HoldsToken(q, s)' <=> HoldsToken(q, s),
           \A s \in Token : fate'[s] = "held" <=> fate[s] = "held"
    PROVE  Tokens'
BY DEF Tokens

LEMMA TokensExchange ==
    ASSUME Sound, Tokens, NEW r \in Request, NEW t \in Token, ExchangeToken(r, t) PROVE Tokens'
<1> USE DEF ExchangeToken
<1>1. fate[t] = "none" /\ fate'[t] = "held" /\ \A s \in Token : s # t => fate'[s] = fate[s]
  BY DEF Sound, Types, StoreTypes
<1>2. Others(r) /\ about'[r] = t /\ at'[r] \in {"reply", "identify", "grant"}
  BY DEF Go, Others, Same, Sound, Types, JobTypes
<1>3. \A q \in Request, s \in Token : q # r => (HoldsToken(q, s)' <=> HoldsToken(q, s))
  BY <1>2, OthersHold
<1>4. \A s \in Token : ~ HoldsToken(r, s) /\ (HoldsToken(r, s)' <=> s = t)
  BY <1>2 DEF HoldsToken
<1> QED
  BY <1>1, <1>3, <1>4 DEF Tokens

LEMMA TokensExchangeFails ==
    ASSUME Sound, Tokens, NEW r \in Request, ExchangeFails(r) PROVE Tokens'
<1>1. Bare(r) /\ Answer(r)
  BY DEF ExchangeFails, Respond, Bare, Holding
<1>2. Others(r) /\ at'[r] = "idle"
  BY <1>1, AnswerKeeps DEF Sound, Types, Others
<1>3. \A q \in Request, s \in Token : HoldsToken(q, s)' <=> HoldsToken(q, s)
  BY <1>1, <1>2, OthersHold, Apart DEF Bare, Holding, HoldsToken
<1>4. \A s \in Token : fate'[s] = "held" <=> fate[s] = "held"
  BY DEF ExchangeFails, Sound, Types, StoreTypes
<1> QED
  BY <1>3, <1>4, TokensElsewhere

LEMMA TokensRevoke == ASSUME Sound, Tokens, NEW r \in Request, Revoke(r) PROVE Tokens'
<1>1. Others(r) /\ at[r] = "revoke" /\ at'[r] = "bye"
  BY Steps DEF Revoke, Go, Others, Same, Sound, Types, JobTypes, jobVars
<1>2. \A q \in Request, s \in Token : HoldsToken(q, s)' <=> HoldsToken(q, s)
  BY <1>1, OthersHold DEF HoldsToken
<1>3. carry[r].token \in Token /\ Kept(carry[r].token)
  BY <1>1, ShapeOf DEF Shape, Fits, Sound, Known
<1>4. fate[carry[r].token] # "held"
  BY <1>3, Apart DEF Kept
<1>5. \A s \in Token : fate'[s] = "held" <=> fate[s] = "held"
  BY <1>3, <1>4 DEF Revoke, Sound, Types, StoreTypes
<1> QED
  BY <1>2, <1>5, TokensElsewhere

LEMMA HolderOf ==
    ASSUME Sound, NEW r \in Request, at[r] \in {"reregister", "identify", "grant"}
                                     \/ (at[r] = "reply" /\ flow[r] # "start")
    PROVE  about[r] \in Token /\ HoldsToken(r, about[r])
BY ShapeOf DEF Shape, Fits, HoldsToken

LEMMA TokensKept ==
    ASSUME Sound, Tokens, NEW r \in Request,
           Reregister(r) \/ Remember(r) \/ Unidentified(r) \/ PutGrant(r)
    PROVE  Tokens'
<1>1. /\ about[r] \in Token /\ HoldsToken(r, about[r]) /\ Answer(r)
      /\ \E x \in {"kept", "revoked", "lost"} : fate' = [fate EXCEPT ![about[r]] = x]
  BY HolderOf DEF Reregister, Remember, Unidentified, PutGrant, Keep, Respond
<1> QED
  BY <1>1, TokensEnd, Fates

LEMMA TokensPost ==
    ASSUME Sound, Tokens, NEW r \in Request, PostReply(r) \/ ScopeRejected(r) PROVE Tokens'
<1>0. at[r] = "reply" /\ UNCHANGED fate
  BY DEF PostReply, ScopeRejected
<1>1. QuietToken(r)
  <2>1. CASE Answer(r) /\ flow[r] = "start"
    <3>1. Others(r) /\ at'[r] = "idle" /\ about[r] = None
      BY <1>0, <2>1, ShapeOf, AnswerKeeps DEF Shape, Fits, Sound, Types, Others
    <3> QED
      BY <1>0, <3>1, Apart DEF QuietToken, HoldsToken
  <2>2. CASE \E step \in {"identify", "reregister"} : Go(r, step) /\ UNCHANGED jobVars
    <3>1. Others(r) /\ about'[r] = about[r] /\ at'[r] \in {"identify", "reregister"}
      BY <2>2 DEF Go, Others, Same, Sound, Types, JobTypes, jobVars
    <3> QED
      BY <1>0, <3>1 DEF QuietToken, HoldsToken
  <2> QED
    BY <2>1, <2>2 DEF PostReply, ScopeRejected
<1> QED
  BY <1>1, TokensStay

LEMMA TokensReplyFails == ASSUME Sound, Tokens, NEW r \in Request, ReplyFails(r) PROVE Tokens'
<1> USE DEF ReplyFails
<1>1. CASE flow[r] = "start"
  <2>1. Others(r) /\ at'[r] = "app" /\ about[r] = None
    BY <1>1, ShapeOf DEF SignInAnew, Take, Go, Others, Same, Shape, Fits, Sound, Types, JobTypes
  <2>2. QuietToken(r)
    BY <1>1, <2>1, Apart DEF QuietToken, HoldsToken
  <2> QED
    BY <2>2, TokensStay
<1>2. CASE flow[r] # "start"
  BY <1>2, HolderOf, TokensEnd, Fates DEF Respond
<1> QED
  BY <1>1, <1>2

LEMMA TokensPending ==
    ASSUME Sound, Tokens, NEW r \in Request,
           (\E d \in Domain, c \in Draft \union {None} : StartCommentAuth(r, d, c))
           \/ (\E s \in Sid : PutPending(r, s)) \/ PendingFails(r)
    PROVE  Tokens'
<1>1. Bare(r) /\ Others(r) /\ (about'[r] = None \/ at'[r] = "idle") /\ UNCHANGED fate
  BY DEF StartCommentAuth, PutPending, PendingFails, Respond, Idle, Answer, Take, Go, Others, Same,
         Sound, Types, JobTypes, Bare, Holding
<1>2. QuietToken(r)
  BY <1>1, Apart DEF QuietToken, Bare, Holding, HoldsToken
<1> QED
  BY <1>2, TokensStay

\* The requests are cut off, and the tokens they had are lost.
LEMMA TokensRestart == ASSUME Sound, Tokens, Restart PROVE Tokens'
<1>1. \A s \in Token : fate'[s] # "held"
  BY DEF Restart
<1>2. \A r \in Request, s \in Token : ~ HoldsToken(r, s)'
  BY DEF Restart, NoOne, HoldsToken
<1> QED
  BY <1>1, <1>2 DEF Tokens

LEMMA TokensNext == Sound /\ Tokens /\ [Next]_vars => Tokens'
<1> SUFFICES ASSUME Sound, Tokens, [Next]_vars PROVE Tokens'
  OBVIOUS
<1>1. ASSUME NEW r \in Request, Quiet(r) PROVE Tokens'
  BY <1>1, TokensStay DEF Quiet
<1>2. ASSUME NEW r \in Request, SessionStep(r) PROVE Tokens'
  BY <1>1, <1>2, QuietSession, QuietTaken, TokensRevoke DEF SessionStep
<1>3. ASSUME NEW r \in Request, AppStep(r) PROVE Tokens'
  BY <1>1, <1>3, QuietApp, TokensKept DEF AppStep
<1>4. ASSUME NEW r \in Request, CommentStep(r) PROVE Tokens'
  BY <1>1, <1>4, QuietCallback, TokensPending, TokensExchange, TokensExchangeFails, TokensPost,
     TokensReplyFails, TokensKept DEF CommentStep
<1>5. ASSUME NEW r \in Request, ReferenceStep(r) PROVE Tokens'
  BY <1>1, <1>5, QuietReference, QuietReferencePending, QuietTaken, TokensKept DEF ReferenceStep
<1>6. CASE AdminDisconnectReference \/ CookieExpires \/ UNCHANGED vars
  BY <1>6, TokensElsewhere DEF AdminDisconnectReference, CookieExpires, HoldsToken, vars, jobVars
<1> QED
  BY <1>2, <1>3, <1>4, <1>5, <1>6, TokensRestart DEF Next

LEMMA TokensInit == Init => Tokens
BY DEF Init, NoJobs, NoOne, Tokens, HoldsToken

LEMMA SoundTokens == Spec => [](Sound /\ Tokens)
<1> QED
  BY SoundInit, SoundNext, TokensInit, TokensNext, PTL DEF Spec

\* What every request, sign-in and cookie is made of, in every state.
THEOREM SoundCorrect == Spec => []Sound
<1> QED
  BY SoundTokens, PTL

\* Types, for the handlers of internal/api that sign in at another server.
THEOREM CommentTypeCorrect == Spec => []CommentTypeOK
<1>1. Sound => CommentTypeOK
  BY DEF Sound, Types, JobTypes, SignInTypes, StoreTypes, Codes, CommentTypeOK
<1> QED
  BY <1>1, SoundCorrect, PTL

THEOREM TokensCorrect == Spec => []Tokens
<1> QED
  BY SoundTokens, PTL

\* From the exchange of a code (mastodon/client.go) to a cookie, the grant or its revocation
\* a token is some single request's.  It is forgotten in three ways only, each a step to
\* "lost": a restart cuts the request off, the answer to the exchange is lost, or the grant
\* is not stored (api/admin_reference.go).
THEOREM TokensAccountedFor == Spec => []TokensAccounted
<1>1. Tokens => TokensAccounted
  BY DEF Tokens, TokensAccounted
<1> QED
  BY <1>1, TokensCorrect, PTL

-----------------------------------------------------------------------------
(* The session the browser shows and the token it posts with. *)
LEMMA LessFits == ASSUME Sound, IdentityFits, Less(jar'), UNCHANGED host PROVE IdentityFits'
BY DEF Less, IdentityFits

LEMMA IdentityNext == Sound /\ Tokens /\ IdentityFits /\ [Next]_vars => IdentityFits'
<1> SUFFICES ASSUME Sound, Tokens, IdentityFits, [Next]_vars PROVE IdentityFits'
  OBVIOUS
<1> USE DEF sessionVars
<1>1. CASE UNCHANGED <<browserVars, host>>
  BY <1>1 DEF IdentityFits, browserVars
<1>2. ASSUME NEW r \in Request, Respond(r), UNCHANGED host PROVE IdentityFits'
  BY <1>2, RespondMoves, LessFits
<1>3. ASSUME NEW r \in Request, SessionStep(r) PROVE IdentityFits'
  <2>1. CASE Touch(r) \/ Expire(r) \/ CommentSessionStatus(r) \/ Revoke(r)
    BY <1>1, <2>1 DEF Touch, Expire, CommentSessionStatus, Revoke
  <2>2. CASE DeleteSession(r)
    BY <1>2, <2>2 DEF DeleteSession
  <2>3. CASE Unknown(r) \/ CommentLogout(r)
    <3>1. /\ UNCHANGED host
          /\ jar' = jar \/ jar' = [jar EXCEPT !.session = None] \/ jar' = NoCookies
      BY <2>3 DEF Unknown, CommentLogout
    <3>2. [jar EXCEPT !.session = None].session = None
      BY DEF Sound, Types, StoreTypes, Cookies
    <3> QED
      BY <3>1, <3>2, NoCookiesType DEF IdentityFits
  <2> QED
    BY <1>3, <2>1, <2>2, <2>3 DEF SessionStep
<1>4. ASSUME NEW r \in Request, AppStep(r) PROVE IdentityFits'
  BY <1>1, <1>2, <1>4 DEF AppStep, RegisterOrGetApp, RegisterApp, RegisterFails, Reregister
<1>5. ASSUME NEW r \in Request, CommentStep(r) PROVE IdentityFits'
  <2>1. CASE \E s \in Sid : PutPending(r, s)
    <3>1. jar' = jar \/ jar' = [jar EXCEPT !.token = None]
      BY <2>1 DEF PutPending
    <3>2. [jar EXCEPT !.token = None].token = None
      BY DEF Sound, Types, StoreTypes, Cookies
    <3> QED
      BY <2>1, <3>1, <3>2 DEF IdentityFits, PutPending
  <2>2. CASE Remember(r)
    BY <2>2, HolderOf DEF Remember, IdentityFits
  <2>3. CASE Unidentified(r)
    <3>1. about[r] \in Token /\ fate[about[r]] = "held"
      BY <2>3, HolderOf DEF Unidentified, Tokens
    <3>2. host[about[r]] = None
      BY <3>1 DEF Sound, Known, StoreKnown
    <3>3. jar'.token = about[r]
      BY <2>3 DEF Unidentified, Sound, Types, StoreTypes, Cookies
    <3> QED
      BY <2>3, <3>2, <3>3 DEF Unidentified, IdentityFits
  <2>4. CASE \E d \in Domain, c \in Draft \union {None} : StartCommentAuth(r, d, c)
    BY <1>1, <2>4 DEF StartCommentAuth
  <2>5. CASE \E s \in Sid : CommentAuthCallback(r, s)
    BY <1>1, <2>5 DEF CommentAuthCallback
  <2>6. CASE PendingFails(r) \/ DeletePending(r) \/ ExchangeFails(r)
    BY <1>1, <1>2, <2>6 DEF PendingFails, DeletePending, ExchangeFails
  <2>7. CASE (\E t \in Token : ExchangeToken(r, t)) \/ PostReply(r) \/ ScopeRejected(r)
    BY <1>1, <2>7 DEF ExchangeToken, PostReply, ScopeRejected
  <2>8. CASE ReplyFails(r)
    BY <1>1, <1>2, <2>8 DEF ReplyFails
  <2> QED
    BY <1>5, <2>1, <2>2, <2>3, <2>4, <2>5, <2>6, <2>7, <2>8 DEF CommentStep
<1>6. ASSUME NEW r \in Request, ReferenceStep(r) PROVE IdentityFits'
  BY <1>1, <1>6 DEF ReferenceStep, AdminStartReferenceConnect, PutReferencePending,
                    AdminReferenceCallback, PutGrant
<1>7. CASE AdminDisconnectReference \/ Restart \/ UNCHANGED vars
  BY <1>1, <1>7 DEF AdminDisconnectReference, Restart, vars
<1>8. CASE CookieExpires
  <2>1. jar' = jar \/ jar' = [jar EXCEPT !.session = None] \/ jar' = [jar EXCEPT !.token = None]
    BY <1>8 DEF CookieExpires
  <2>2. [jar EXCEPT !.session = None].session = None /\ [jar EXCEPT !.token = None].token = None
        /\ [jar EXCEPT !.token = None].session = jar.session
        /\ [jar EXCEPT !.session = None].token = jar.token
    BY DEF Sound, Types, StoreTypes, Cookies
  <2> QED
    BY <1>8, <2>1, <2>2 DEF IdentityFits, CookieExpires
<1> QED
  BY <1>3, <1>4, <1>5, <1>6, <1>7, <1>8 DEF Next

\* The cookies of one browser (api/comment_oauth.go, commentauth/session.go) are of one
\* exchange, but for a token that came without a session.
THEOREM IdentityAlwaysFits == Spec => []IdentityFits
<1>1. Init => IdentityFits
  BY NoCookiesType DEF Init, IdentityFits
<1> QED
  BY <1>1, IdentityNext, SoundCorrect, TokensCorrect, PTL DEF Spec

-----------------------------------------------------------------------------
(* The fallback app, and the registrations that would undo it. *)
Fallback == \A d \in settled : apps[<<"comment", d>>] = "fallback" /\ Registering(d) = {}

LEMMA FallbackStands ==
    ASSUME Fallback, UNCHANGED appVars,
           \A q \in Request : at'[q] # "register" \/ (at'[q] = at[q] /\ App(q)' = App(q))
    PROVE  Fallback'
BY DEF Fallback, Registering, appVars

\* A request that does not register now changes nothing.
LEMMA FallbackKept ==
    ASSUME Fallback, NEW r \in Request, Others(r), at'[r] # "register", UNCHANGED appVars
    PROVE  Fallback'
<1>1. \A q \in Request : q # r => at'[q] = at[q] /\ App(q)' = App(q)
  BY DEF Others, Same, App
<1> QED
  BY <1>1, FallbackStands

LEMMA FallbackApp == ASSUME Sound, Fallback, NEW r \in Request, AppStep(r) PROVE Fallback'
<1> USE DEF JobMoves
<1>0. Others(r) /\ \A q \in Request : q # r => at'[q] = at[q] /\ App(q)' = App(q)
  BY RegisterOrGetAppMoves, RegisterAppMoves, RegisterFailsMoves, ReregisterMoves
     DEF AppStep, Others, Same, App
<1>1. CASE RegisterOrGetApp(r)
  <2> USE <1>1 DEF RegisterOrGetApp
  <2>1. App(r)' = App(r) /\ at'[r] = (IF apps[App(r)] = None THEN "register" ELSE AfterApp(r))
    BY DEF App, Go, jobVars, Sound, Types, JobTypes
  <2>2. CASE apps[App(r)] = None
    <3>1. \A d \in settled : App(r) # <<"comment", d>>
      BY <2>2, Apart, Scopes DEF Fallback
    <3> QED
      BY <1>0, <2>1, <3>1 DEF Fallback, Registering, appVars
  <2>3. CASE apps[App(r)] # None
    BY <1>0, <2>1, <2>3, FallbackKept DEF AfterApp
  <2> QED
    BY <2>2, <2>3
<1>2. CASE RegisterApp(r)
  <2> USE <1>2 DEF RegisterApp
  <2>1. site[r] \in Domain \/ site[r] = None
    BY DEF Sound, Types, JobTypes
  <2>2. at'[r] # "register"
    BY DEF Go, AfterApp, Sound, Types, JobTypes
  <2>3. \A d \in settled : App(r) # <<"comment", d>>
    BY DEF Fallback, Registering
  <2>4. \A d \in settled : apps'[<<"comment", d>>] = apps[<<"comment", d>>]
    BY <2>3 DEF Sound, Types, StoreTypes, Bucket
  <2> QED
    BY <1>0, <2>2, <2>4 DEF Fallback, Registering
<1>3. CASE RegisterFails(r)
  <2>1. at'[r] # "register"
    BY <1>3 DEF RegisterFails, Respond, Answer, Take, Go, Sound, Types, JobTypes
  <2> QED
    BY <1>0, <1>3, <2>1, FallbackKept DEF RegisterFails
<1>4. CASE Reregister(r)
  <2> USE <1>4 DEF Reregister
  <2>1. at'[r] # "register" /\ at[r] # "register"
    BY DEF Respond, Answer, Take, Go, Sound, Types, JobTypes
  <2>2. CASE UNCHANGED appVars
    BY <1>0, <2>1, <2>2, FallbackKept
  <2>3. CASE apps' = [apps EXCEPT ![App(r)] = "fallback"]
             /\ settled' = IF Registering(site[r]) = {} THEN settled \union {site[r]} ELSE settled
    <3>1. site[r] \in Domain /\ App(r) = <<"comment", site[r]>>
      BY ShapeOf DEF Shape, Fits, App
    <3>2. apps'[<<"comment", site[r]>>] = "fallback"
          /\ \A d \in Domain : d # site[r] => apps'[<<"comment", d>>] = apps[<<"comment", d>>]
      BY <2>3, <3>1 DEF Sound, Types, StoreTypes, Bucket
    <3>3. \A d \in Domain : Registering(d)' = Registering(d)
      BY <1>0, <2>1 DEF Registering
    <3>4. settled \subseteq Domain /\ settled' \subseteq settled \union {site[r]}
          /\ (site[r] \in settled' => Registering(site[r]) = {})
      BY <2>3 DEF Fallback, Sound, Types, StoreTypes
    <3> QED
      BY <3>1, <3>2, <3>3, <3>4 DEF Fallback
  <2> QED
    BY <2>2, <2>3
<1> QED
  BY <1>1, <1>2, <1>3, <1>4 DEF AppStep

LEMMA FallbackNext == Sound /\ Fallback /\ [Next]_vars => Fallback'
<1> SUFFICES ASSUME Sound, Fallback, [Next]_vars PROVE Fallback'
  OBVIOUS
<1> USE DEF Sound, Types, JobTypes, JobMoves
<1>1. ASSUME NEW r \in Request, SessionStep(r) PROVE Fallback'
  <2>1. CASE UNCHANGED <<at, jobVars>> /\ UNCHANGED appVars
    BY <2>1, FallbackStands DEF App, jobVars
  <2>2. CASE at'[r] # "register" /\ Others(r) /\ UNCHANGED appVars
    BY <2>2, FallbackKept
  <2>3. CASE CommentLogout(r)
    <3>1. CASE jar.session # None
      <4>1. PICK step \in Validate(jar.session) :
                Take(r, step, "logout", host[jar.session], None, None, jar)
        BY <2>3, <3>1 DEF CommentLogout
      <4>2. step # "register"
        BY DEF Validate
      <4>3. at'[r] # "register" /\ Others(r)
        BY <4>1, <4>2 DEF Take, Go, Others, Same
      <4> QED
        BY <2>2, <2>3, <4>3 DEF CommentLogout
    <3>2. CASE jar.session = None
      BY <2>1, <2>3, <3>2 DEF CommentLogout
    <3> QED
      BY <3>1, <3>2
  <2>4. CASE Touch(r) \/ Expire(r) \/ Unknown(r) \/ CommentSessionStatus(r) \/ DeleteSession(r)
             \/ Revoke(r)
    <3>1. Others(r)
      BY <2>4, TouchMoves, ExpireMoves, UnknownMoves, CommentSessionStatusMoves,
         DeleteSessionMoves, RevokeMoves
    <3>2. at'[r] # "register"
      BY <2>4 DEF Touch, Expire, Unknown, CommentSessionStatus, DeleteSession, Revoke, Validate,
                  Respond, Answer, SignInAnew, Take, Go
    <3> QED
      BY <2>2, <2>4, <3>1, <3>2 DEF Touch, Expire, Unknown, CommentSessionStatus, DeleteSession,
                                    Revoke
  <2> QED
    BY <1>1, <2>3, <2>4 DEF SessionStep
<1>2. ASSUME NEW r \in Request, CommentStep(r) PROVE Fallback'
  <2>1. Others(r)
    BY <1>2, StartCommentAuthMoves, PutPendingMoves, PendingFailsMoves,
       CommentAuthCallbackMoves, DeletePendingMoves, ExchangeTokenMoves, ExchangeFailsMoves, PostReplyMoves,
       ReplyFailsMoves, ScopeRejectedMoves, RememberMoves, UnidentifiedMoves DEF CommentStep
  <2>2. at'[r] # "register" /\ UNCHANGED appVars
    BY <1>2 DEF CommentStep, StartCommentAuth, PutPending, PendingFails, CommentAuthCallback,
                DeletePending, ExchangeToken, ExchangeFails, PostReply, ReplyFails, ScopeRejected, Remember,
                Unidentified, Keep, Validate, Respond, Answer, SignInAnew, Take, Go
  <2> QED
    BY <2>1, <2>2, FallbackKept
<1>3. ASSUME NEW r \in Request, ReferenceStep(r) PROVE Fallback'
  <2>1. CASE UNCHANGED <<at, jobVars>> /\ UNCHANGED appVars
    BY <2>1, FallbackStands DEF App, jobVars
  <2>2. CASE at'[r] # "register" /\ Others(r) /\ UNCHANGED appVars
    BY <2>2, FallbackKept
  <2> QED
    BY <1>3, <2>1, <2>2 DEF ReferenceStep, AdminStartReferenceConnect, PutReferencePending,
       AdminReferenceCallback, PutGrant, Keep, Answer, Take, Go, Others, Same
<1>4. CASE AdminDisconnectReference \/ CookieExpires \/ UNCHANGED vars
  BY <1>4, FallbackStands DEF AdminDisconnectReference, CookieExpires, vars, App, jobVars
<1>5. CASE Restart
  BY <1>5, FallbackStands DEF Restart, NoOne
<1> QED
  BY <1>1, <1>2, <1>3, <1>4, <1>5, FallbackApp DEF Next

\* Once an instance has refused the default scope its app is the fallback one
\* (mastodon/apps.go), but for a registration that was under way at that moment.
THEOREM FallbackAlwaysStays == Spec => []FallbackStays
<1>1. Init => Fallback
  BY DEF Init, Fallback
<1>2. Fallback => FallbackStays
  BY DEF Fallback, FallbackStays
<1> QED
  BY <1>1, <1>2, FallbackNext, SoundCorrect, PTL DEF Spec

-----------------------------------------------------------------------------
(* Where a comment is, and what it may still be posted with. *)
WritingOf(r, c) == flow[r] \in {"start", "retry"} /\ draft[r] = c
Returned(r, c) == flow[r] = "callback" /\ draft[r] = c
Posting(r, t) == at[r] = "reply" /\ about[r] = t
SignedFor(c) == \E s \in Sid : text[s] = c
Excused(c) == posted[c][None] = 0 \/ c \in unheard

\* A code is the one of its request, and is spent when the comment is posted.
ByCode(c) ==
    /\ \A t \in Token : fate[t] = "none" => posted[c][t] = 0
    /\ \A t \in Token, r \in Request : Posting(r, t) => posted[c][t] = 0
    /\ \A t \in Token : posted[c][t] <= 1
    /\ \A t \in Token : posted[c][t] # 0 => SignedFor(c)

\* A comment is with the request that was sent with it until there is a sign-in for it.
ByCookie(c) ==
    /\ posted[c][None] <= 1
    /\ \A r, q \in Request : WritingOf(r, c) /\ WritingOf(q, c) => r = q
    /\ \A r \in Request : WritingOf(r, c) =>
          c \in sent /\ ~ SignedFor(c) /\ Excused(c) /\ (flow[r] = "start" => posted[c][None] = 0)
    /\ SignedFor(c) => c \in sent /\ Excused(c)
    /\ \A r \in Request : Returned(r, c) => SignedFor(c)
    /\ c \notin sent => posted[c][None] = 0

Once == \A c \in Draft : ByCode(c) /\ ByCookie(c)

\* A step after which a comment is where it was, or nowhere, and not posted.
LEMMA OnceStays ==
    ASSUME NEW c \in Draft, ByCode(c), ByCookie(c),
           \A t \in Codes : posted'[c][t] = posted[c][t],
           c \in unheard => c \in unheard', c \in sent' <=> c \in sent,
           \A s \in Sid : text'[s] = text[s],
           \A t \in Token : fate'[t] = "none" => fate[t] = "none",
           \A r \in Request : WritingOf(r, c)' => WritingOf(r, c) /\ flow'[r] = flow[r],
           \A r \in Request : Returned(r, c)' => SignedFor(c),
           \A r \in Request, t \in Token : Posting(r, t)' => Posting(r, t) \/ fate[t] = "none"
    PROVE  ByCode(c)' /\ ByCookie(c)'
<1>1. SignedFor(c)' <=> SignedFor(c)
  BY DEF SignedFor
<1>2. posted'[c][None] = posted[c][None] /\ \A t \in Token : posted'[c][t] = posted[c][t]
  BY DEF Codes
<1>3. Excused(c) => Excused(c)'
  BY <1>2 DEF Excused
<1>4. ByCode(c)'
  BY <1>1, <1>2 DEF ByCode
<1>5. ByCookie(c)'
  BY <1>1, <1>2, <1>3 DEF ByCookie
<1> QED
  BY <1>4, <1>5

LEMMA OthersWrite ==
    ASSUME NEW r \in Request, Others(r)
    PROVE  \A q \in Request : q # r =>
               /\ \A c : (WritingOf(q, c)' <=> WritingOf(q, c)) /\ (Returned(q, c)' <=> Returned(q, c))
               /\ \A t : Posting(q, t)' <=> Posting(q, t)
               /\ flow'[q] = flow[q]
BY DEF Others, Same, WritingOf, Returned, Posting

LEMMA OnceQuiet == ASSUME Sound, Once, NEW r \in Request, QuietPost(r) PROVE Once'
<1> SUFFICES ASSUME NEW c \in Draft PROVE ByCode(c)' /\ ByCookie(c)'
  BY DEF Once
<1> USE DEF QuietPost
<1>0. ByCode(c) /\ ByCookie(c) /\ c # None
  BY Apart DEF Once
<1>1. \A q \in Request : WritingOf(q, c)' => WritingOf(q, c) /\ flow'[q] = flow[q]
  <2>1. WritingOf(r, c)' => WritingOf(r, c) /\ flow'[r] = flow[r]
    BY <1>0 DEF WritingOf, Writing
  <2> QED
    BY <2>1, OthersWrite
<1>2. \A q \in Request : Returned(q, c)' => SignedFor(c)
  <2>1. Returned(r, c)' => SignedFor(c)
    BY <1>0 DEF Returned, SignedFor, ByCookie
  <2>2. \A q \in Request : q # r /\ Returned(q, c)' => SignedFor(c)
    BY <1>0, OthersWrite DEF ByCookie
  <2> QED
    BY <2>1, <2>2
<1>3. \A q \in Request, t \in Token : Posting(q, t)' => Posting(q, t)
  <2>1. \A t \in Token : Posting(r, t)' => Posting(r, t)
    BY Apart DEF Posting
  <2> QED
    BY <2>1, OthersWrite
<1> QED
  BY <1>0, <1>1, <1>2, <1>3, OnceStays

LEMMA StartOnce ==
    ASSUME Sound, Once, NEW r \in Request, NEW d \in Domain, NEW e \in Draft \union {None},
           StartCommentAuth(r, d, e)
    PROVE  Once'
<1> SUFFICES ASSUME NEW c \in Draft PROVE ByCode(c)' /\ ByCookie(c)'
  BY DEF Once
<1> USE DEF StartCommentAuth
<1>1. Others(r) /\ flow'[r] = "start" /\ draft'[r] = e /\ about'[r] = None
  BY DEF Take, Go, Others, Same, Sound, Types, JobTypes
<1>2. /\ ByCode(c) /\ ByCookie(c) /\ c # None /\ posted' = posted /\ text' = text /\ fate' = fate
      /\ unheard' = unheard
  BY Apart DEF Once, signInVars
<1>3. \A q \in Request, t \in Token : Posting(q, t)' => Posting(q, t)
  <2>1. \A t \in Token : ~ Posting(r, t)'
    BY <1>1, Apart DEF Posting
  <2> QED
    BY <1>1, <2>1, OthersWrite
<1>4. \A q \in Request : Returned(q, c)' => SignedFor(c)
  <2>1. ~ Returned(r, c)'
    BY <1>1 DEF Returned
  <2> QED
    BY <1>1, <1>2, <2>1, OthersWrite DEF ByCookie
<1>5. CASE c # e
  <2>1. ~ WritingOf(r, c)'
    BY <1>1, <1>5 DEF WritingOf
  <2>2. \A q \in Request : WritingOf(q, c)' => WritingOf(q, c) /\ flow'[q] = flow[q]
    BY <1>1, <2>1, OthersWrite
  <2>3. c \in sent' <=> c \in sent
    BY <1>5
  <2> QED
    BY <1>2, <1>3, <1>4, <2>2, <2>3, OnceStays
<1>6. CASE c = e
  <2>1. c \notin sent /\ c \in sent'
    BY <1>2, <1>6
  <2>2. \A q \in Request : WritingOf(q, c)' => q = r
    BY <1>1, <1>2, <2>1, OthersWrite DEF ByCookie
  <2>3. ~ SignedFor(c) /\ ~ SignedFor(c)' /\ posted[c][None] = 0
    BY <1>2, <2>1 DEF ByCookie, SignedFor
  <2>4. ByCode(c)'
    BY <1>2, <1>3, <2>3 DEF ByCode
  <2>5. ByCookie(c)'
    BY <1>2, <1>4, <2>1, <2>2, <2>3 DEF ByCookie, Excused
  <2> QED
    BY <2>4, <2>5
<1> QED
  BY <1>5, <1>6

LEMMA PendingOnce ==
    ASSUME Sound, Once, NEW r \in Request, NEW s \in Sid, PutPending(r, s) PROVE Once'
<1> SUFFICES ASSUME NEW c \in Draft PROVE ByCode(c)' /\ ByCookie(c)'
  BY DEF Once
<1> USE DEF PutPending
<1>1. Others(r) /\ at'[r] = "idle" /\ flow'[r] = "none"
  BY AnswerKeeps DEF Sound, Types, Others
<1>2. /\ ByCode(c) /\ ByCookie(c) /\ c # None
      /\ posted' = posted /\ sent' = sent /\ fate' = fate /\ unheard' = unheard
  BY Apart DEF Once, postVars
<1>3. \A q \in Request, t \in Token : Posting(q, t)' => Posting(q, t)
  <2>1. \A t \in Token : ~ Posting(r, t)'
    BY <1>1 DEF Posting
  <2> QED
    BY <1>1, <2>1, OthersWrite
<1>4. \A q \in Request : /\ WritingOf(q, c)' => q # r /\ WritingOf(q, c) /\ flow'[q] = flow[q]
                         /\ Returned(q, c)' => Returned(q, c)
  <2>1. ~ WritingOf(r, c)' /\ ~ Returned(r, c)'
    BY <1>1 DEF WritingOf, Returned
  <2> QED
    BY <1>1, <2>1, OthersWrite
<1>5. /\ text'[s] = draft[r] /\ \A t \in Sid : t # s => text'[t] = text[t]
      /\ text[s] = None
  BY DEF Sound, Types, SignInTypes, Known, StoreKnown
<1>6. CASE draft[r] # c
  <2>1. SignedFor(c)' <=> SignedFor(c)
    BY <1>2, <1>5, <1>6 DEF SignedFor
  <2>2. ByCode(c)'
    BY <1>2, <1>3, <2>1 DEF ByCode
  <2>3. ByCookie(c)'
    BY <1>2, <1>4, <2>1 DEF ByCookie, Excused
  <2> QED
    BY <2>2, <2>3
<1>7. CASE draft[r] = c
  <2>1. WritingOf(r, c)
    BY <1>7 DEF WritingOf
  <2>2. c \in sent /\ Excused(c) /\ SignedFor(c)'
    BY <1>2, <1>5, <1>7, <2>1 DEF ByCookie, SignedFor
  <2>3. \A q \in Request : ~ WritingOf(q, c)'
    BY <1>2, <1>4, <2>1 DEF ByCookie
  <2>4. ByCode(c)'
    BY <1>2, <1>3, <2>2 DEF ByCode
  <2>5. ByCookie(c)'
    BY <1>2, <2>2, <2>3 DEF ByCookie, Excused
  <2> QED
    BY <2>4, <2>5
<1> QED
  BY <1>6, <1>7

LEMMA ExchangeOnce ==
    ASSUME Sound, Once, NEW r \in Request, NEW t \in Token, ExchangeToken(r, t) PROVE Once'
<1> SUFFICES ASSUME NEW c \in Draft PROVE ByCode(c)' /\ ByCookie(c)'
  BY DEF Once
<1> USE DEF ExchangeToken
<1>1. Others(r) /\ flow'[r] = flow[r] /\ about'[r] = t /\ draft'[r] = draft[r]
  BY DEF Go, Others, Same, Sound, Types, JobTypes
<1>2. /\ ByCode(c) /\ ByCookie(c)
      /\ posted' = posted /\ sent' = sent /\ text' = text /\ unheard' = unheard
  BY DEF Once, postVars, signInVars
<1>3. \A q \in Request :
          /\ WritingOf(q, c)' => WritingOf(q, c) /\ flow'[q] = flow[q]
          /\ Returned(q, c)' => SignedFor(c)
  <2>1. (WritingOf(r, c)' => WritingOf(r, c)) /\ (Returned(r, c)' => Returned(r, c))
    BY <1>1 DEF WritingOf, Returned
  <2> QED
    BY <1>1, <1>2, <2>1, OthersWrite DEF ByCookie
<1>4. \A q \in Request, k \in Token : Posting(q, k)' => Posting(q, k) \/ fate[k] = "none"
  <2>1. \A k \in Token : Posting(r, k)' => fate[k] = "none"
    BY <1>1 DEF Posting
  <2> QED
    BY <1>1, <2>1, OthersWrite
<1>5. \A k \in Token : fate'[k] = "none" => fate[k] = "none"
  BY DEF Sound, Types, StoreTypes
<1> QED
  BY <1>2, <1>3, <1>4, <1>5, OnceStays

\* The request that was about to post is through with it, or has to sign in.
LEMMA ReplyOnce ==
    ASSUME Sound, Tokens, Once, NEW r \in Request, at[r] = "reply", Others(r), at'[r] # "reply",
           UNCHANGED <<text, sent>>, unheard \subseteq unheard', draft'[r] \in {draft[r], None},
           \A t \in Token : fate'[t] = "none" => fate[t] = "none",
           posted' = posted \/ Accepted(r),
           flow[r] # "start" => flow'[r] \in {flow[r], "none"},
           flow[r] = "start" => \/ flow'[r] = "none"
                                \/ flow'[r] = "retry" /\ (posted' = posted \/ draft[r] \in unheard')
    PROVE  Once'
<1> SUFFICES ASSUME NEW c \in Draft PROVE ByCode(c)' /\ ByCookie(c)'
  BY DEF Once
<1>0. draft[r] \in Draft /\ (flow[r] = "start" \/ (flow[r] = "callback" /\ about[r] \in Token))
  BY ShapeOf DEF Shape, Fits
<1>1. /\ ByCode(c) /\ ByCookie(c) /\ c # None /\ posted \in [Draft -> [Codes -> Nat]]
      /\ (SignedFor(c)' <=> SignedFor(c))
  BY Apart, PostTypes DEF Once, SignedFor
<1>2. \A q \in Request, t \in Token : Posting(q, t)' => q # r /\ Posting(q, t)
  BY OthersWrite DEF Posting
<1>3. CASE c # draft[r]
  <2>1. \A t \in Codes : posted'[c][t] = posted[c][t]
    BY <1>3, AcceptedTypes
  <2>2. \A q \in Request : /\ WritingOf(q, c)' => WritingOf(q, c) /\ flow'[q] = flow[q]
                           /\ Returned(q, c)' => SignedFor(c)
    <3>1. ~ WritingOf(r, c)' /\ ~ Returned(r, c)'
      BY <1>1, <1>3 DEF WritingOf, Returned
    <3> QED
      BY <1>1, <3>1, OthersWrite DEF ByCookie
  <2> QED
    BY <1>1, <1>2, <2>1, <2>2, OnceStays
<1>4. CASE c = draft[r] /\ flow[r] = "start"
  <2>1. WritingOf(r, c)
    BY <1>4 DEF WritingOf
  <2>2. c \in sent' /\ c \in sent /\ ~ SignedFor(c) /\ posted[c][None] = 0
    BY <1>1, <1>4, <2>1 DEF ByCookie
  <2>3. /\ \A t \in Token : posted'[c][t] = posted[c][t]
        /\ posted'[c][None] = 0 \/ (posted'[c][None] = 1 /\ posted' # posted)
    <3>1. CASE posted' = posted
      BY <2>2, <3>1
    <3>2. CASE Accepted(r)
      BY <1>4, <2>2, <3>2, AcceptedTypes, Apart DEF CodeOf, Codes
    <3> QED
      BY <3>1, <3>2
  <2>4. \A q \in Request : WritingOf(q, c)' => q = r /\ flow'[r] = "retry" /\ Excused(c)'
    <3>1. \A q \in Request : q # r => ~ WritingOf(q, c)'
      BY <1>1, <2>1, OthersWrite DEF ByCookie
    <3>2. WritingOf(r, c)' => flow'[r] = "retry"
      BY <1>4 DEF WritingOf
    <3>3. flow'[r] = "retry" => Excused(c)'
      BY <1>4, <2>3 DEF Excused
    <3> QED
      BY <3>1, <3>2, <3>3
  <2>5. \A q \in Request : ~ Returned(q, c)'
    <3>1. ~ Returned(r, c)'
      BY <1>4 DEF Returned
    <3> QED
      BY <1>1, <2>2, <3>1, OthersWrite DEF ByCookie
  <2>6. ByCode(c)'
    BY <1>1, <1>2, <2>2, <2>3 DEF ByCode
  <2>7. ByCookie(c)'
    BY <1>1, <2>2, <2>3, <2>4, <2>5 DEF ByCookie
  <2> QED
    BY <2>6, <2>7
<1>5. CASE c = draft[r] /\ flow[r] = "callback"
  <2>1. Posting(r, about[r]) /\ Returned(r, c) /\ about[r] \in Token /\ about[r] # None
    BY <1>0, <1>5, Apart DEF Posting, Returned
  <2>2. SignedFor(c) /\ posted[c][about[r]] = 0 /\ fate[about[r]] = "held"
    BY <1>1, <2>1 DEF ByCookie, ByCode, Tokens, HoldsToken, Posting
  <2>3. \A q \in Request, t \in Token : Posting(q, t)' => t # about[r]
    BY <1>2, <2>1 DEF Posting, HoldsToken, Tokens
  <2>4. /\ posted'[c][None] = posted[c][None] /\ posted'[c][about[r]] \in {0, 1}
        /\ \A t \in Token : t # about[r] => posted'[c][t] = posted[c][t]
    <3>1. CASE posted' = posted
      BY <2>2, <3>1
    <3>2. CASE Accepted(r)
      BY <1>5, <2>1, <2>2, <3>2, AcceptedTypes, Apart DEF CodeOf, Codes
    <3> QED
      BY <3>1, <3>2
  <2>5. \A q \in Request : WritingOf(q, c)' => WritingOf(q, c) /\ flow'[q] = flow[q]
    <3>1. ~ WritingOf(r, c)'
      BY <1>5 DEF WritingOf
    <3> QED
      BY <3>1, OthersWrite
  <2>6. fate'[about[r]] # "none"
    BY <2>1, <2>2
  <2>7. ByCode(c)'
    BY <1>1, <1>2, <2>1, <2>2, <2>3, <2>4, <2>6 DEF ByCode
  <2>8. ByCookie(c)'
    BY <1>1, <2>2, <2>4, <2>5 DEF ByCookie, Excused
  <2> QED
    BY <2>7, <2>8
<1> QED
  BY <1>0, <1>3, <1>4, <1>5

LEMMA PostOnce == ASSUME Sound, Tokens, Once, NEW r \in Request, PostReply(r) PROVE Once'
<1> USE DEF PostReply
<1>1. /\ Others(r) /\ at'[r] # "reply" /\ flow'[r] \in {flow[r], "none"}
      /\ draft'[r] \in {draft[r], None} /\ (flow[r] = "start" => flow'[r] = "none")
  BY DEF Answer, Take, Go, Others, Same, Sound, Types, JobTypes, jobVars
<1>2. UNCHANGED <<text, sent, unheard, fate>>
  BY DEF signInVars
<1> QED
  BY <1>1, <1>2, ReplyOnce

LEMMA FailsOnce == ASSUME Sound, Tokens, Once, NEW r \in Request, ReplyFails(r) PROVE Once'
<1> USE DEF ReplyFails
<1>1. /\ UNCHANGED <<text, sent>> /\ unheard \subseteq unheard'
      /\ posted' = posted \/ (Accepted(r) /\ draft[r] \in unheard')
  BY DEF signInVars
<1>2. Others(r) /\ at'[r] # "reply" /\ draft'[r] \in {draft[r], None}
  BY DEF Respond, Answer, SignInAnew, Take, Go, Others, Same, Sound, Types, JobTypes
<1>3. (flow[r] = "start" => flow'[r] = "retry") /\ (flow[r] # "start" => flow'[r] = "none")
  BY DEF Respond, Answer, SignInAnew, Take, Sound, Types, JobTypes
<1>4. \A t \in Token : fate'[t] = "none" => fate[t] = "none"
  <2>1. CASE flow[r] = "start"
    BY <2>1
  <2>2. CASE flow[r] # "start"
    BY <2>2 DEF Sound, Types, StoreTypes
  <2> QED
    BY <2>1, <2>2
<1> QED
  BY <1>1, <1>2, <1>3, <1>4, ReplyOnce

\* The other steps that are about a token.
LEMMA QuietEnds ==
    ASSUME Sound, NEW r \in Request,
           \/ Reregister(r) \/ ExchangeFails(r) \/ Remember(r) \/ Unidentified(r) \/ PutGrant(r)
           \/ PendingFails(r)
    PROVE  QuietPost(r)
<1>1. Answer(r) /\ UNCHANGED <<text, postVars>>
  BY DEF Reregister, ExchangeFails, Remember, Unidentified, PutGrant, PendingFails, Keep, Respond,
         signInVars
<1>2. \A s \in Token : fate'[s] = "none" => fate[s] = "none"
  BY DEF Reregister, ExchangeFails, Remember, Unidentified, PutGrant, PendingFails, Keep, Sound,
         Types, StoreTypes
<1> QED
  BY <1>1, <1>2, AnswerQuiet

LEMMA QuietGoes ==
    ASSUME Sound, NEW r \in Request, Revoke(r) \/ ScopeRejected(r) PROVE QuietPost(r)
<1>1. Others(r) /\ at'[r] \in {"bye", "reregister"} /\ flow'[r] = flow[r] /\ draft'[r] = draft[r]
  BY DEF Revoke, ScopeRejected, Go, Others, Same, Sound, Types, JobTypes, jobVars
<1>2. \A s \in Token : fate'[s] = "none" => fate[s] = "none"
  BY DEF Revoke, ScopeRejected, Sound, Types, StoreTypes
<1> QED
  BY <1>1, <1>2 DEF QuietPost, Writing, Revoke, ScopeRejected, signInVars, postVars

LEMMA OnceNext == Sound /\ Tokens /\ Once /\ [Next]_vars => Once'
<1> SUFFICES ASSUME Sound, Tokens, Once, [Next]_vars PROVE Once'
  OBVIOUS
<1>1. ASSUME NEW r \in Request, QuietPost(r) PROVE Once'
  BY <1>1, OnceQuiet
<1>2. ASSUME NEW r \in Request, SessionStep(r) PROVE Once'
  BY <1>1, <1>2, QuietSession, QuietTaken, QuietGoes DEF SessionStep, Quiet
<1>3. ASSUME NEW r \in Request, AppStep(r) PROVE Once'
  BY <1>1, <1>3, QuietApp, QuietEnds DEF AppStep, Quiet
<1>4. ASSUME NEW r \in Request, CommentStep(r) PROVE Once'
  BY <1>1, <1>4, StartOnce, PendingOnce, QuietCallback, ExchangeOnce, PostOnce, FailsOnce,
     QuietEnds, QuietGoes DEF CommentStep, Quiet
<1>5. ASSUME NEW r \in Request, ReferenceStep(r) PROVE Once'
  BY <1>1, <1>5, QuietReference, QuietReferencePending, QuietTaken, QuietEnds
     DEF ReferenceStep, Quiet
<1>6. CASE AdminDisconnectReference \/ CookieExpires \/ UNCHANGED vars
  <2>1. UNCHANGED <<text, fate, at, flow, about, draft, posted, unheard, sent>>
    BY <1>6 DEF AdminDisconnectReference, CookieExpires, vars, signInVars, jobVars, postVars
  <2> QED
    BY <2>1 DEF Once, ByCode, ByCookie, Excused, SignedFor, WritingOf, Returned, Posting
<1>7. CASE Restart
  <2> SUFFICES ASSUME NEW c \in Draft PROVE ByCode(c)' /\ ByCookie(c)'
    BY DEF Once
  <2> USE <1>7 DEF Restart
  <2>1. \A r \in Request : /\ ~ WritingOf(r, c)' /\ ~ Returned(r, c)'
                           /\ \A t \in Token : ~ Posting(r, t)'
    BY DEF WritingOf, Returned, Posting, NoOne
  <2>2. ByCode(c) /\ ByCookie(c)
    BY DEF Once
  <2> QED
    BY <2>1, <2>2, OnceStays DEF postVars
<1> QED
  BY <1>2, <1>3, <1>4, <1>5, <1>6, <1>7 DEF Next

\* A comment is posted once with the cookie's token or once for each code the browser came
\* back with, whichever of the callbacks deletes the pending sign-in (api/comment_oauth.go);
\* with a code after the cookie's token only when the first call failed after the instance
\* had done what it asked.
THEOREM PostedOncePerCode == Spec => []PostedOnce
<1>1. Init => Once
  BY Apart DEF Init, NoJobs, NoOne, Once, ByCode, ByCookie, Excused, SignedFor, WritingOf,
               Returned, Posting
<1>2. Sound /\ Once => PostedOnce
  <2> SUFFICES ASSUME Sound, Once, NEW c \in Draft
      PROVE  /\ \A t \in Token \union {None} : posted[c][t] <= 1
             /\ posted[c][None] > 0 /\ c \notin unheard => \A t \in Token : posted[c][t] = 0
    BY DEF PostedOnce
  <2>1. ByCode(c) /\ ByCookie(c)
    BY DEF Once
  <2>2. posted[c][None] > 0 /\ c \notin unheard => ~ SignedFor(c)
    BY <2>1 DEF ByCookie, Excused
  <2> QED
    BY <2>1, <2>2 DEF ByCode, ByCookie
<1> QED
  BY <1>1, <1>2, OnceNext, SoundCorrect, TokensCorrect, PTL DEF Spec

-----------------------------------------------------------------------------
(***************************************************************************)
(* CommentAuth implements TokenLife.  Most steps move no token and can     *)
(* only take one out of the browser; those that move one move one that     *)
(* their request alone holds.                                              *)
(***************************************************************************)
Placed == {jar.token, grant} \ {None}
LifeStep == [Life!LifeNext]_<<fate, Placed>>

LEMMA Forgets == ASSUME Less(jar'), UNCHANGED <<fate, grant>> PROVE LifeStep
<1>1. Life!Forget
  BY DEF Life!Forget, Less
<1> QED
  BY <1>1 DEF LifeStep, Life!LifeNext

\* Steps that leave the cookies alone, or answer as every handler does.
LEMMA RespondForgets ==
    ASSUME Sound, NEW r \in Request, Respond(r) \/ UNCHANGED browserVars, UNCHANGED <<fate, grant>>
    PROVE  LifeStep
BY RespondMoves, JarStays, Forgets

\* The token of the request is revoked, wherever it has got to.
LEMMA RevokesHeld ==
    ASSUME Sound, NEW t \in Token, fate[t] \in {"held", "kept"},
           fate' = [fate EXCEPT ![t] = "revoked"], Less(jar'), UNCHANGED grant
    PROVE  LifeStep
<1>1. Life!Revoke(t)
  BY DEF Life!Revoke, Less
<1> QED
  BY <1>1 DEF LifeStep, Life!LifeNext

\* A cookie that is cleared takes nothing in.
LEMMA ClearedIsLess ==
    ASSUME Sound
    PROVE  Less(jar) /\ Less([jar EXCEPT !.session = None]) /\ Less([jar EXCEPT !.token = None])
           /\ Less(NoCookies)
BY NoCookiesType DEF Less, Sound, Types, StoreTypes, Cookies

LEMMA SessionLives == ASSUME Sound, NEW r \in Request, SessionStep(r) PROVE LifeStep
<1> USE DEF sessionVars
<1>1. CASE Touch(r) \/ Expire(r) \/ CommentSessionStatus(r) \/ DeleteSession(r)
  BY <1>1, RespondForgets DEF Touch, Expire, CommentSessionStatus, DeleteSession
<1>2. CASE Unknown(r) \/ CommentLogout(r)
  <2>1. /\ UNCHANGED <<fate, grant>>
        /\ jar' = jar \/ jar' = [jar EXCEPT !.session = None] \/ jar' = NoCookies
    BY <1>2 DEF Unknown, CommentLogout
  <2>2. Less(jar')
    BY <2>1, ClearedIsLess
  <2> QED
    BY <2>1, <2>2, Forgets
<1>3. CASE Revoke(r)
  <2>1. carry[r].token \in Token /\ Kept(carry[r].token)
    BY <1>3, ShapeOf DEF Revoke, Shape, Fits, Sound, Known
  <2>2. CASE fate[carry[r].token] = "kept"
    BY <1>3, <2>1, <2>2, JarStays, RevokesHeld DEF Revoke
  <2>3. CASE fate[carry[r].token] = "revoked"
    <3>1. fate' = fate
      BY <1>3, <2>1, <2>3 DEF Revoke, Sound, Types, StoreTypes
    <3> QED
      BY <1>3, <3>1, RespondForgets DEF Revoke
  <2> QED
    BY <2>1, <2>2, <2>3, Apart DEF Kept
<1> QED
  BY <1>1, <1>2, <1>3 DEF SessionStep

LEMMA AppLives == ASSUME Sound, Tokens, NEW r \in Request, AppStep(r) PROVE LifeStep
<1>1. CASE RegisterOrGetApp(r) \/ RegisterApp(r) \/ RegisterFails(r)
  BY <1>1, RespondForgets DEF RegisterOrGetApp, RegisterApp, RegisterFails
<1>2. CASE Reregister(r)
  <2>1. about[r] \in Token /\ fate[about[r]] = "held"
    BY <1>2, HolderOf DEF Reregister, Tokens
  <2> QED
    BY <1>2, <2>1, RespondMoves, RevokesHeld DEF Reregister
<1> QED
  BY <1>1, <1>2 DEF AppStep

\* A token is lost that nobody had placed.
LEMMA LosesOne ==
    ASSUME Sound, NEW t \in Token, fate[t] \in {"none", "held"},
           fate' = [fate EXCEPT ![t] = "lost"], UNCHANGED <<jar, grant>>
    PROVE  LifeStep
<1>1. fate' = [k \in Token |-> IF k \in {t} THEN "lost" ELSE fate[k]]
  BY DEF Sound, Types, StoreTypes
<1>2. Life!Lose({t})
  BY <1>1 DEF Life!Lose
<1> QED
  BY <1>2 DEF LifeStep, Life!LifeNext

\* A token is placed: in the browser or as the grant.
LEMMA PlacesHeld ==
    ASSUME Sound, Tokens, NEW r \in Request,
           Remember(r) \/ Unidentified(r) \/ (at[r] = "grant" /\ grant' = about[r] /\ Keep(r)
                                             /\ UNCHANGED browserVars)
    PROVE  LifeStep
<1>1. about[r] \in Token /\ fate[about[r]] = "held"
  BY HolderOf DEF Remember, Unidentified, Tokens
<1>2. fate' = [fate EXCEPT ![about[r]] = "kept"]
  BY DEF Remember, Unidentified, Keep
<1>3. \/ jar'.token = about[r] /\ grant' = grant
      \/ jar' = jar /\ grant' = about[r]
  <2>1. [jar EXCEPT !.token = about[r]].token = about[r]
    BY DEF Sound, Types, StoreTypes, Cookies
  <2>2. CASE Remember(r)
    BY <2>2 DEF Remember
  <2>3. CASE Unidentified(r)
    BY <2>1, <2>3 DEF Unidentified
  <2>4. CASE grant' = about[r] /\ UNCHANGED browserVars
    BY <2>4 DEF browserVars
  <2> QED
    BY <2>2, <2>3, <2>4
<1>4. about[r] \in Placed' /\ Placed' \subseteq Placed \union {about[r]}
  BY <1>1, <1>3, Apart DEF Placed
<1>5. Life!Place(about[r])
  BY <1>1, <1>2, <1>4 DEF Life!Place, Placed
<1> QED
  BY <1>1, <1>5 DEF LifeStep, Life!LifeNext

\* A code is exchanged, and the answer is heard or not.
LEMMA ExchangeLives ==
    ASSUME Sound, NEW r \in Request, (\E t \in Token : ExchangeToken(r, t)) \/ ExchangeFails(r)
    PROVE  LifeStep
<1>1. ASSUME NEW t \in Token, ExchangeToken(r, t) PROVE LifeStep
  <2>1. Life!Issue(t)
    BY <1>1 DEF ExchangeToken, browserVars, Life!Issue
  <2> QED
    BY <2>1 DEF LifeStep, Life!LifeNext
<1>2. CASE ExchangeFails(r) /\ UNCHANGED fate
  BY <1>2, RespondForgets DEF ExchangeFails
<1>3. ASSUME ExchangeFails(r),
             NEW t \in Token, fate[t] = "none", fate' = [fate EXCEPT ![t] = "lost"]
      PROVE  LifeStep
  <2>1. flow[r] \in {"callback", "return"}
    BY <1>3, ShapeOf DEF ExchangeFails, Shape, Fits
  <2>2. jar' = jar /\ grant' = grant
    BY <1>3, <2>1 DEF ExchangeFails, Respond, Clear
  <2> QED
    BY <1>3, <2>2, LosesOne
<1> QED
  BY <1>1, <1>2, <1>3 DEF ExchangeFails

LEMMA CommentLives == ASSUME Sound, Tokens, NEW r \in Request, CommentStep(r) PROVE LifeStep
<1>1. CASE \E d \in Domain, c \in Draft \union {None} : StartCommentAuth(r, d, c)
  BY <1>1, RespondForgets DEF StartCommentAuth
<1>2. CASE \E s \in Sid : PutPending(r, s)
  <2>1. jar' = jar \/ jar' = [jar EXCEPT !.token = None]
    BY <1>2 DEF PutPending
  <2>2. Less(jar')
    BY <2>1, ClearedIsLess
  <2> QED
    BY <1>2, <2>2, Forgets DEF PutPending
<1>3. CASE \E s \in Sid : CommentAuthCallback(r, s)
  BY <1>3, RespondForgets DEF CommentAuthCallback
<1>4. CASE PendingFails(r) \/ DeletePending(r) \/ PostReply(r) \/ ScopeRejected(r)
  BY <1>4, RespondForgets DEF PendingFails, DeletePending, PostReply, ScopeRejected
<1>5. CASE ReplyFails(r)
  <2>1. CASE flow[r] = "start"
    BY <1>5, <2>1, RespondForgets DEF ReplyFails
  <2>2. CASE flow[r] # "start"
    <3>1. about[r] \in Token /\ fate[about[r]] = "held"
      BY <1>5, <2>2, HolderOf DEF ReplyFails, Tokens
    <3> QED
      BY <1>5, <2>2, <3>1, RespondMoves, RevokesHeld DEF ReplyFails
  <2> QED
    BY <2>1, <2>2
<1> QED
  BY <1>1, <1>2, <1>3, <1>4, <1>5, ExchangeLives, PlacesHeld DEF CommentStep

LEMMA ReferenceLives == ASSUME Sound, Tokens, NEW r \in Request, ReferenceStep(r) PROVE LifeStep
<1>1. CASE \E d \in Domain : AdminStartReferenceConnect(r, d)
  BY <1>1, RespondForgets DEF AdminStartReferenceConnect
<1>2. CASE \E s \in Sid : PutReferencePending(r, s) \/ AdminReferenceCallback(r, s)
  BY <1>2, RespondForgets DEF PutReferencePending, AdminReferenceCallback
<1>3. CASE PutGrant(r)
  <2>1. CASE grant' = about[r] /\ Keep(r)
    BY <1>3, <2>1, PlacesHeld DEF PutGrant
  <2>2. CASE UNCHANGED grant /\ fate' = [fate EXCEPT ![about[r]] = "lost"]
    <3>1. about[r] \in Token /\ fate[about[r]] = "held"
      BY <1>3, HolderOf DEF PutGrant, Tokens
    <3> QED
      BY <1>3, <2>2, <3>1, LosesOne DEF PutGrant, browserVars
  <2> QED
    BY <1>3, <2>1, <2>2 DEF PutGrant
<1> QED
  BY <1>1, <1>2, <1>3 DEF ReferenceStep

\* The requests that held a token are gone, and it with them.
LEMMA RestartLives == ASSUME Restart PROVE LifeStep
<1> DEFINE lost == {s \in Token : fate[s] = "held"}
<1>1. fate' = [t \in Token |-> IF t \in lost THEN "lost" ELSE fate[t]]
  BY DEF Restart
<1>2. UNCHANGED <<jar, grant>>
  BY DEF Restart, browserVars
<1>3. Life!Lose(lost)
  BY <1>1, <1>2 DEF Life!Lose
<1>4. lost \in SUBSET Token
  OBVIOUS
<1> QED
  BY <1>3, <1>4 DEF LifeStep, Life!LifeNext

\* A token is placed once, by the one request that exchanged its code; one that was revoked,
\* lost or forgotten stays so, whichever requests, restarts and failures interleave.
THEOREM TokensPlacedOnce == Spec => TokensLiveOnce
<1>1. Init => Life!LifeInit
  BY NoCookiesType DEF Init, Life!LifeInit
<1>2. Sound /\ Tokens /\ [Next]_vars => LifeStep
  <2> SUFFICES ASSUME Sound, Tokens, [Next]_vars PROVE LifeStep
    OBVIOUS
  <2>1. CASE AdminDisconnectReference
    <3>1. Life!Forget
      BY <2>1 DEF AdminDisconnectReference, browserVars, Life!Forget
    <3> QED
      BY <3>1 DEF LifeStep, Life!LifeNext
  <2>2. CASE CookieExpires
    <3>1. jar' = jar \/ jar' = [jar EXCEPT !.session = None] \/ jar' = [jar EXCEPT !.token = None]
      BY <2>2 DEF CookieExpires
    <3>2. Less(jar')
      BY <3>1, ClearedIsLess
    <3> QED
      BY <2>2, <3>2, Forgets DEF CookieExpires
  <2>3. CASE UNCHANGED vars
    <3>1. UNCHANGED <<fate, grant, jar>>
      BY <2>3 DEF vars, browserVars
    <3> QED
      BY <3>1, Forgets DEF Less
  <2> QED
    BY <2>1, <2>2, <2>3, SessionLives, AppLives, CommentLives, ReferenceLives, RestartLives DEF Next
<1> QED
  BY <1>1, <1>2, SoundCorrect, TokensCorrect, PTL
     DEF Spec, TokensLiveOnce, Life!LifeSpec, LifeStep, Placed
=============================================================================
