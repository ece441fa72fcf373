-------------------------- MODULE AdminAuthProofs ---------------------------
(***************************************************************************)
(* The admin's account and sessions, for any number of requests, sessions, *)
(* secrets, codes, passkeys and tokens.  An update that nobody overlapped  *)
(* still holds the record as it is, because it was alone when it read it   *)
(* and any other reader takes that away from both.  A session whose logout *)
(* met no copy of it is in nobody's hands, and nobody can read it again.   *)
(***************************************************************************)
EXTENDS AdminAuth, TLAPS

Ceremonies ==
    /\ pendings \in [Token -> Time \union {None}] /\ asserting \subseteq Token
    /\ links \in [Link -> Time \union {None}] /\ usedLinks \subseteq Link /\ enrolling \subseteq Link

JobTypes ==
    /\ at \in [Request -> Step] /\ op \in [Request -> Op] /\ copy \in [Request -> Account \union {None}]
    /\ alone \subseteq Request /\ up \in BOOLEAN /\ rec \in Account
    /\ arg = [r \in Request |-> arg[r]] /\ token = [r \in Request |-> token[r]]

\* What an operation may be given.
Fits(o, x, t) ==
    /\ o \in {"password", "init"} => x \in Password
    /\ o = "totp on" => x \in Secret
    /\ o = "codes" => x \subseteq Code
    /\ o = "enroll" => x \in Passkey /\ t \in Link
    /\ o = "assert" => t \in Token

Jobs == \A r \in Request :
    /\ Fits(op[r], arg[r], token[r])
    /\ at[r] = "mark" => op[r] = "enroll"
    /\ up \/ at[r] = "idle"

Windows ==
    /\ \A r \in Request : at[r] = "save" =>
          copy[r] \in Account /\ (op[r] = "backup" => arg[r] \in copy[r].codes)
    /\ \A r \in alone : at[r] = "save" /\ copy[r] = rec /\ \A q \in Request : at[q] = "save" => q = r

Busy == {"touch", "expire"}

Known ==
    /\ \A r \in Request : at[r] = "touch" => held[r] # None /\ cookie[r] # None
    /\ \A r \in Request : at[r] = "expire" => cookie[r] # None
    /\ \A r \in Request : cookie[r] # None => cookie[r] \in issued
    /\ \A s \in Sid : sessions[s] # None => s \in issued
    /\ ended \subseteq issued

Sessions == SessionTypeOK /\ Known /\ SessionCapped /\ LogoutHolds

IInv == Ceremonies /\ JobTypes /\ Jobs /\ Windows /\ Sessions

-----------------------------------------------------------------------------
LEMMA Steps ==
    /\ "idle" \in Step /\ "expire" \in Step /\ "touch" \in Step /\ "in" \in Step /\ "get" \in Step
    /\ "save" \in Step /\ "pend" \in Step /\ "verify" \in Step /\ "finish" \in Step
    /\ "spend" \in Step /\ "grant" \in Step /\ "recheck" \in Step /\ "mark" \in Step
BY DEF Step

LEMMA Ops ==
    /\ "theme" \in Op /\ "password" \in Op /\ "totp on" \in Op /\ "totp off" \in Op
    /\ "cleanup" \in Op /\ "codes" \in Op /\ "passkey off" \in Op /\ "totp" \in Op
    /\ "backup" \in Op /\ "assert" \in Op /\ "enroll" \in Op /\ "none" \in Op
BY DEF Op

LEMMA Apart == None \notin Secret /\ None \notin Token /\ None \notin Link /\ None \notin Sid /\ None \notin Account
BY AdminAssumption

LEMMA NewAccountType == ASSUME NEW p \in Password PROVE NewAccount(p) \in Account
BY DEF NewAccount, Account

LEMMA DisableType ==
    ASSUME NEW a \in Account
    PROVE  DisableTOTP(a) \in Account /\ DisableWebAuthn(a) \in Account
BY DEF Account, DisableTOTP, DisableWebAuthn

LEMMA ResetType == ASSUME NEW a \in Account PROVE Reset2FA(a) \in Account
<1>1. DisableWebAuthn(DisableTOTP(a)) \in Account
  BY DisableType
<1> QED
  BY <1>1 DEF Reset2FA, Account

LEMMA PasswordType ==
    ASSUME NEW a \in Account, NEW p \in Password PROVE [a EXCEPT !.password = p] \in Account
BY DEF Account

LEMMA EnableType ==
    ASSUME NEW a \in Account, NEW k \in Secret
    PROVE  [a EXCEPT !.totp = k, !.totpOn = TRUE] \in Account
BY Apart DEF Account

LEMMA CodesType ==
    ASSUME NEW a \in Account, NEW xs \in SUBSET Code PROVE [a EXCEPT !.codes = xs] \in Account
BY DEF Account

LEMMA SpendType == ASSUME NEW a \in Account, NEW x PROVE [a EXCEPT !.codes = @ \ {x}] \in Account
BY DEF Account

LEMMA EnrollType ==
    ASSUME NEW a \in Account, NEW x \in Passkey
    PROVE  [a EXCEPT !.passkeys = @ \union {x}, !.passkeyOn = TRUE] \in Account
BY DEF Account

LEMMA EffectType ==
    ASSUME NEW a \in Account, NEW o, NEW x, NEW t, Fits(o, x, t)
    PROVE  Effect(o, x, a) \in Account
<1>1. CASE o = "init"
  BY <1>1, NewAccountType DEF Fits, Effect
<1>2. CASE o = "password"
  BY <1>2, PasswordType DEF Fits, Effect
<1>3. CASE o = "totp on"
  BY <1>3, EnableType DEF Fits, Effect
<1>4. CASE o \in {"totp off", "cleanup"}
  BY <1>4, DisableType DEF Effect
<1>5. CASE o = "codes"
  BY <1>5, CodesType DEF Fits, Effect
<1>6. CASE o = "backup"
  BY <1>6, SpendType DEF Effect
<1>7. CASE o = "enroll"
  BY <1>7, EnrollType DEF Fits, Effect
<1>8. CASE o = "passkey off"
  BY <1>8, DisableType DEF Effect
<1>9. CASE o = "reset"
  BY <1>9, ResetType DEF Effect
<1>10. CASE o \notin {"init", "password", "totp on", "totp off", "cleanup", "codes", "backup",
                      "enroll", "passkey off", "reset"}
  BY <1>10 DEF Effect
<1> QED
  BY <1>1, <1>2, <1>3, <1>4, <1>5, <1>6, <1>7, <1>8, <1>9, <1>10

-----------------------------------------------------------------------------
(* Sessions. *)
LEMMA TouchType ==
    ASSUME now \in 0..MaxTime, NEW session \in SessionRecord, Capped(session)
    PROVE  TouchSession(session) \in SessionRecord /\ Capped(TouchSession(session))
<1> DEFINE end == session.created + MaxAge
           until == IF now - session.seen >= TouchAfter /\ now < end
                    THEN Earlier(now + MaxAge, end) ELSE session.expires
<1>1. session.created \in 0..MaxTime /\ session.expires \in 0..MaxTime + MaxAge /\ session.seen \in 0..MaxTime
  BY DEF SessionRecord
<1>2. MaxAge \in Nat /\ MaxTime \in Nat /\ TouchAfter \in Nat
  BY SessionAssumption
<1>3. session # None
  BY <1>2, SessionAssumption DEF SessionRecord
<1>4. until \in 0..MaxTime + MaxAge /\ until <= end
  BY <1>1, <1>2, <1>3 DEF Earlier, Capped
<1>5. TouchSession(session) = [session EXCEPT !.seen = now, !.expires = until]
  BY DEF TouchSession
<1>6. TouchSession(session) = [created |-> session.created, expires |-> until, seen |-> now]
  <2> HIDE DEF until
  <2> QED
    BY <1>5 DEF SessionRecord
<1>7. TouchSession(session) \in SessionRecord
  <2> HIDE DEF until
  <2> QED
    BY <1>1, <1>4, <1>6 DEF SessionRecord
<1>8. Capped(TouchSession(session))
  <2> HIDE DEF until
  <2> QED
    BY <1>4, <1>6 DEF Capped
<1> QED
  BY <1>7, <1>8

\* A step that leaves the sessions alone.
LEMMA SessionsStay ==
    ASSUME Sessions, UNCHANGED sessionVars, now' \in 0..MaxTime,
           \A r \in Request : at'[r] \in Busy => at'[r] = at[r]
    PROVE  Sessions'
BY DEF Sessions, SessionTypeOK, Known, SessionCapped, LogoutHolds, Capped, Holds, sessionVars, Busy

LEMMA AuthenticateSound ==
    ASSUME IInv, NEW r \in Request, NEW s \in Sid, Authenticate(r, s)
    PROVE  Sessions'
<1>1. sessions[s] \in SessionRecord /\ Capped(sessions[s]) /\ s \in issued /\ s \notin ended
  BY DEF IInv, Sessions, SessionTypeOK, Known, SessionCapped, LogoutHolds, Authenticate, ReadSession
<1>2. TouchSession(sessions[s]) \in SessionRecord /\ Capped(TouchSession(sessions[s]))
  BY <1>1, TouchType DEF IInv, Sessions, SessionTypeOK
<1>3. TouchSession(sessions[s]) # None
  BY <1>2, SessionAssumption DEF SessionRecord
<1> DEFINE mine == TouchSession(sessions[s])
<1>4. /\ held' = [held EXCEPT ![r] = mine] /\ cookie' = [cookie EXCEPT ![r] = s]
      /\ at' = [at EXCEPT ![r] = "touch"]
      /\ UNCHANGED <<now, sessions, issued, ended>>
  BY DEF Authenticate, ReadSession, Go
<1> HIDE DEF mine
<1>5. mine \in SessionRecord /\ Capped(mine) /\ mine # None
  BY <1>2, <1>3 DEF mine
<1>6. SessionTypeOK'
  BY <1>4, <1>5 DEF IInv, Sessions, SessionTypeOK
<1>7. Known'
  BY <1>1, <1>4, <1>5, Apart DEF IInv, Sessions, SessionTypeOK, Known, JobTypes
<1>8. SessionCapped'
  BY <1>4, <1>5 DEF IInv, Sessions, SessionTypeOK, SessionCapped, Capped
<1>9. LogoutHolds'
  BY <1>1, <1>4 DEF IInv, Sessions, SessionTypeOK, LogoutHolds, Holds
<1> QED
  BY <1>6, <1>7, <1>8, <1>9 DEF Sessions

LEMMA TouchSound == ASSUME IInv, NEW r \in Request, Touch(r) PROVE Sessions'
<1> DEFINE s == cookie[r]
           mine == held[r]
<1>1. mine \in SessionRecord /\ Capped(mine) /\ s \in Sid /\ s \in issued /\ Holds(r, s)
  BY DEF IInv, Sessions, SessionTypeOK, Known, SessionCapped, Touch, Holds
<1>2. s \notin ended
  BY <1>1 DEF IInv, Sessions, LogoutHolds
<1>3. /\ sessions' = [sessions EXCEPT ![s] = mine] /\ held' = [held EXCEPT ![r] = None]
      /\ cookie' = [cookie EXCEPT ![r] = None] /\ at' = [at EXCEPT ![r] = "in"]
      /\ UNCHANGED <<now, issued, ended>>
  BY DEF Touch, WriteSession, Go
<1> HIDE DEF s, mine
<1>4. SessionTypeOK'
  BY <1>1, <1>3 DEF IInv, Sessions, SessionTypeOK
<1>5. Known'
  BY <1>1, <1>3 DEF IInv, Sessions, SessionTypeOK, Known, JobTypes
<1>6. SessionCapped'
  BY <1>1, <1>3 DEF IInv, Sessions, SessionTypeOK, SessionCapped, Capped
<1>7. LogoutHolds'
  BY <1>1, <1>2, <1>3 DEF IInv, Sessions, SessionTypeOK, LogoutHolds, Holds
<1> QED
  BY <1>4, <1>5, <1>6, <1>7 DEF Sessions

LEMMA UnauthorizedSound ==
    ASSUME IInv, NEW r \in Request, NEW s \in Sid, Unauthorized(r, s)
    PROVE  Sessions'
<1>1. s \in issued /\ s \notin ended
  BY DEF IInv, Sessions, Known, LogoutHolds, Unauthorized, FindExpired
<1>2. /\ cookie' = [cookie EXCEPT ![r] = s] /\ at' = [at EXCEPT ![r] = "expire"]
      /\ UNCHANGED <<now, sessions, issued, held, ended>>
  BY DEF Unauthorized, FindExpired, Go
<1>3. SessionTypeOK' /\ SessionCapped'
  BY <1>2 DEF IInv, Sessions, SessionTypeOK, SessionCapped, Capped
<1>4. Known'
  BY <1>1, <1>2, Apart DEF IInv, Sessions, SessionTypeOK, Known, JobTypes, Unauthorized, Idle
<1>5. LogoutHolds'
  BY <1>1, <1>2 DEF IInv, Sessions, SessionTypeOK, LogoutHolds, Holds
<1> QED
  BY <1>3, <1>4, <1>5 DEF Sessions

\* A session is deleted, and whoever is busy with another one stays so.
LEMMA DeleteSound ==
    ASSUME IInv, NEW s \in Sid, s \in issued, DeleteSession(s), UNCHANGED <<now, issued, held>>,
           \A r \in Request : at'[r] \in Busy => at'[r] = at[r] /\ cookie'[r] = cookie[r],
           cookie' \in [Request -> Sid \union {None}],
           \A r \in Request : cookie'[r] = cookie[r] \/ (cookie'[r] = None /\ at[r] = "expire")
    PROVE  Sessions'
<1>1. sessions' = [sessions EXCEPT ![s] = None] /\ ended \subseteq ended'
      /\ ended' \subseteq ended \union {s} /\ (s \in ended' => \A r \in Request : ~Holds(r, s) \/ s \in ended)
  BY DEF DeleteSession
<1>2. SessionTypeOK'
  BY <1>1 DEF IInv, Sessions, SessionTypeOK
<1>3. SessionCapped'
  BY <1>1 DEF IInv, Sessions, SessionTypeOK, SessionCapped, Capped
<1>4. Known'
  BY <1>1 DEF IInv, Sessions, SessionTypeOK, Known, Busy
<1>5. \A r \in Request, x \in Sid : Holds(r, x)' => Holds(r, x)
  BY Apart DEF Holds
<1>6. LogoutHolds'
  BY <1>1, <1>5 DEF IInv, Sessions, SessionTypeOK, LogoutHolds
<1> QED
  BY <1>2, <1>3, <1>4, <1>6 DEF Sessions

LEMMA GrantSound ==
    ASSUME IInv, NEW r \in Request, NEW s \in Sid, NEW persistent \in BOOLEAN, Grant(r, s, persistent)
    PROVE  Sessions'
<1> DEFINE new == [created |-> now, expires |-> now + (IF persistent THEN MaxAge ELSE BrowserAge),
                   seen |-> now]
<1>1. now \in 0..MaxTime /\ MaxTime \in Nat /\ MaxAge \in Nat /\ BrowserAge \in 0..MaxAge
  BY SessionAssumption DEF IInv, Sessions, SessionTypeOK
<1>2. new \in SessionRecord
  BY <1>1 DEF SessionRecord
<1>3. Capped(new)
  BY <1>1 DEF Capped
<1>4. /\ sessions' = [sessions EXCEPT ![s] = new] /\ issued' = issued \union {s} /\ s \notin issued
      /\ at' = [at EXCEPT ![r] = "idle"]
      /\ UNCHANGED <<now, held, cookie, ended>>
  BY DEF Grant, CreateSession, Go
<1> HIDE DEF new
<1>5. SessionTypeOK' /\ SessionCapped'
  BY <1>2, <1>3, <1>4 DEF IInv, Sessions, SessionTypeOK, SessionCapped, Capped
<1>6. Known'
  BY <1>4 DEF IInv, Sessions, SessionTypeOK, Known, JobTypes
<1>7. LogoutHolds'
  BY <1>4 DEF IInv, Sessions, SessionTypeOK, Known, LogoutHolds, Holds
<1> QED
  BY <1>5, <1>6, <1>7 DEF Sessions

-----------------------------------------------------------------------------
(* Requests.  A step that begins or ends no window and writes no record. *)
Plain == Step \ {"save", "touch", "expire", "mark"}

LEMMA PlainIn ==
    /\ "idle" \in Plain /\ "in" \in Plain /\ "get" \in Plain /\ "pend" \in Plain
    /\ "verify" \in Plain /\ "finish" \in Plain /\ "spend" \in Plain /\ "grant" \in Plain
    /\ "recheck" \in Plain
BY DEF Plain, Step

LEMMA GoKeeps ==
    ASSUME IInv, NEW r \in Request, at[r] # "save", up, NEW step \in Plain, Go(r, step),
           UNCHANGED <<now, sessionVars, rec, up, jobVars>>, Ceremonies'
    PROVE  IInv'
<1>1. at' = [at EXCEPT ![r] = step] /\ step \in Step /\ step \notin {"save", "touch", "expire", "mark"}
  BY DEF Go, Plain
<1>2. UNCHANGED <<now, rec, up, op, arg, token, copy, alone>>
  BY DEF jobVars
<1>3. JobTypes'
  BY <1>1, <1>2 DEF IInv, JobTypes
<1>a. \A q \in Request : at'[q] = "mark" => at[q] = "mark"
  BY <1>1 DEF IInv, JobTypes
<1>4. Jobs'
  <2> SUFFICES ASSUME NEW q \in Request
               PROVE  /\ Fits(op'[q], arg'[q], token'[q])
                      /\ at'[q] = "mark" => op'[q] = "enroll"
                      /\ up' \/ at'[q] = "idle"
    BY DEF Jobs, Fits
  <2>1. Fits(op[q], arg[q], token[q]) /\ (at[q] = "mark" => op[q] = "enroll")
    BY DEF IInv, Jobs
  <2> QED
    BY <1>2, <1>a, <2>1
<1>5. Windows'
  BY <1>1, <1>2 DEF IInv, Windows, JobTypes
<1>6. now' \in 0..MaxTime /\ \A q \in Request : at'[q] \in Busy => at'[q] = at[q]
  BY <1>1 DEF IInv, Busy, Sessions, SessionTypeOK, JobTypes
<1>7. Sessions'
  BY <1>6, SessionsStay DEF IInv
<1> QED
  BY <1>3, <1>4, <1>5, <1>7 DEF IInv

LEMMA JobKeeps ==
    ASSUME IInv, NEW r \in Request, at[r] # "save", up, NEW step \in Plain, NEW o \in Op, NEW x, NEW t,
           Fits(o, x, t), Job(r, step, o, x, t), UNCHANGED <<now, sessionVars, rec, up>>, Ceremonies'
    PROVE  IInv'
<1>1. at' = [at EXCEPT ![r] = step] /\ step \in Step /\ step \notin {"save", "touch", "expire", "mark"}
  BY DEF Job, Go, Plain
<1>2. /\ UNCHANGED <<now, rec, up, copy, alone>>
      /\ op' = [op EXCEPT ![r] = o] /\ arg' = [arg EXCEPT ![r] = x] /\ token' = [token EXCEPT ![r] = t]
  BY DEF Job
<1>3. JobTypes'
  BY <1>1, <1>2 DEF IInv, JobTypes
<1>4. Jobs'
  <2> SUFFICES ASSUME NEW q \in Request
               PROVE  /\ Fits(op'[q], arg'[q], token'[q])
                      /\ at'[q] = "mark" => op'[q] = "enroll"
                      /\ up' \/ at'[q] = "idle"
    BY DEF Jobs, Fits
  <2>1. CASE q = r
    <3>1. op'[q] = o /\ arg'[q] = x /\ token'[q] = t /\ at'[q] = step
      BY <1>1, <1>2, <2>1 DEF IInv, JobTypes
    <3> QED
      BY <1>1, <1>2, <3>1
  <2>2. CASE q # r
    <3>1. op'[q] = op[q] /\ arg'[q] = arg[q] /\ token'[q] = token[q] /\ at'[q] = at[q]
      BY <1>1, <1>2, <2>2 DEF IInv, JobTypes
    <3> QED
      BY <1>2, <3>1 DEF IInv, Jobs
  <2> QED
    BY <2>1, <2>2
<1>5. Windows'
  BY <1>1, <1>2 DEF IInv, Windows, JobTypes
<1>6. now' \in 0..MaxTime /\ \A q \in Request : at'[q] \in Busy => at'[q] = at[q]
  BY <1>1 DEF IInv, Busy, Sessions, SessionTypeOK, JobTypes
<1>7. Sessions'
  BY <1>6, SessionsStay DEF IInv
<1> QED
  BY <1>3, <1>4, <1>5, <1>7 DEF IInv

\* A step that begins a window: the record is read.
LEMMA ReadKeeps ==
    ASSUME IInv, NEW r \in Request, at[r] \in {"in", "get"}, up, NEW o \in Op, NEW x,
           Fits(o, x, token[r]), o = "backup" => x \in rec.codes,
           Go(r, "save"), op' = [op EXCEPT ![r] = o], arg' = [arg EXCEPT ![r] = x], ReadRecord(r),
           UNCHANGED <<now, sessionVars, rec, ceremonyVars, up, token>>
    PROVE  IInv'
<1>1. at' = [at EXCEPT ![r] = "save"] /\ "save" \in Step /\ copy' = [copy EXCEPT ![r] = rec]
  BY Steps DEF Go, ReadRecord
<1>2. Ceremonies'
  BY DEF IInv, Ceremonies, ceremonyVars
<1>3. alone' \subseteq Request /\ \A q \in alone' : IF Overlapped = {} THEN q = r ELSE q \in alone /\ q \notin Overlapped
  BY DEF ReadRecord, IInv, JobTypes
<1>4. JobTypes'
  BY <1>1, <1>3 DEF IInv, JobTypes
<1>5. Jobs'
  <2> SUFFICES ASSUME NEW q \in Request
               PROVE  /\ Fits(op'[q], arg'[q], token[q])
                      /\ at'[q] = "mark" => op'[q] = "enroll"
                      /\ up' \/ at'[q] = "idle"
    BY DEF Jobs, Fits
  <2>1. CASE q = r
    <3>1. op'[q] = o /\ arg'[q] = x /\ at'[q] = "save"
      BY <1>1, <2>1 DEF IInv, JobTypes
    <3> QED
      BY <2>1, <3>1
  <2>2. CASE q # r
    <3>1. op'[q] = op[q] /\ arg'[q] = arg[q] /\ at'[q] = at[q]
      BY <1>1, <2>2 DEF IInv, JobTypes
    <3> QED
      BY <3>1 DEF IInv, Jobs
  <2> QED
    BY <2>1, <2>2
<1>6. Windows'
  <2>1. \A q \in Request : at'[q] = "save" =>
          copy'[q] \in Account /\ (op'[q] = "backup" => arg'[q] \in copy'[q].codes)
    BY <1>1 DEF IInv, Windows, JobTypes
  <2>2. CASE Overlapped = {}
    <3>1. \A q \in Request : at'[q] = "save" <=> q = r
      BY <1>1, <2>2 DEF Overlapped, InWindow, IInv, JobTypes
    <3>2. copy'[r] = rec
      BY <1>1 DEF IInv, JobTypes
    <3> QED
      BY <1>3, <2>1, <2>2, <3>1, <3>2 DEF Windows
  <2>3. CASE Overlapped # {}
    <3>1. alone' = {}
      BY <1>3, <2>3 DEF IInv, Windows, Overlapped, InWindow, JobTypes
    <3> QED
      BY <2>1, <3>1 DEF Windows
  <2> QED
    BY <2>2, <2>3
<1>7. now' \in 0..MaxTime /\ \A q \in Request : at'[q] \in Busy => at'[q] = at[q]
  BY <1>1 DEF IInv, Busy, Sessions, SessionTypeOK, JobTypes
<1>8. Sessions'
  BY <1>7, SessionsStay DEF IInv
<1> QED
  BY <1>2, <1>4, <1>5, <1>6, <1>8 DEF IInv

LEMMA HandleKeeps ==
    ASSUME IInv, NEW r \in Request, NEW o \in Op \ {"backup", "enroll", "assert"}, NEW x, Fits(o, x, None),
           Handle(r, o, x)
    PROVE  IInv'
<1>1. Fits(o, x, token[r]) /\ at[r] = "in" /\ up
  BY DEF Fits, Handle, IInv, Jobs
<1> QED
  BY <1>1, ReadKeeps DEF Handle

LEMMA GetKeeps == ASSUME IInv, NEW r \in Request, Get(r) PROVE IInv'
<1>1. Fits(op[r], arg[r], token[r]) /\ at[r] = "get" /\ up /\ op[r] \in Op
  BY DEF Get, IInv, Jobs, JobTypes
<1>2. op' = [op EXCEPT ![r] = op[r]] /\ arg' = [arg EXCEPT ![r] = arg[r]]
  BY DEF Get, IInv, JobTypes
<1>3. /\ op[r] = "backup" => arg[r] \in rec.codes
      /\ Go(r, "save") /\ ReadRecord(r) /\ UNCHANGED <<now, sessionVars, rec, ceremonyVars, up, token>>
  BY DEF Get
<1> QED
  BY <1>1, <1>2, <1>3, ReadKeeps

\* The record goes back: nobody's window was alone but this one.
LEMMA SaveKeeps == ASSUME IInv, NEW r \in Request, Save(r) PROVE IInv'
<1>1. copy[r] \in Account /\ Fits(op[r], arg[r], token[r]) /\ at[r] = "save" /\ up
  BY DEF IInv, Windows, Jobs, Save
<1>2. rec' \in Account
  BY <1>1, EffectType DEF Save
<1>3. PICK step \in {"idle", "spend", "mark"}, o \in {op[r], "none"},
              x \in {arg[r], None}, t \in {token[r], None} :
         /\ at' = [at EXCEPT ![r] = step] /\ op' = [op EXCEPT ![r] = o] /\ arg' = [arg EXCEPT ![r] = x]
         /\ token' = [token EXCEPT ![r] = t] /\ Fits(o, x, t) /\ (step = "mark" => o = "enroll")
  <2>1. CASE op[r] \in {"backup", "enroll"}
    <3>1. op' = [op EXCEPT ![r] = op[r]] /\ arg' = [arg EXCEPT ![r] = arg[r]]
          /\ token' = [token EXCEPT ![r] = token[r]]
      BY <2>1 DEF Save, IInv, JobTypes
    <3>2. at' = [at EXCEPT ![r] = IF op[r] = "backup" THEN "spend" ELSE "mark"]
      BY <2>1 DEF Save, Go
    <3> QED
      BY <1>1, <2>1, <3>1, <3>2
  <2>2. CASE op[r] \notin {"backup", "enroll"}
    <3>1. Fits("none", None, None)
      BY DEF Fits
    <3> QED
      BY <2>2, <3>1 DEF Save, Go
  <2> QED
    BY <2>1, <2>2
<1>4. /\ copy' = [copy EXCEPT ![r] = None] /\ alone' = alone \ {r}
      /\ UNCHANGED <<now, sessionVars, ceremonyVars, up>>
  BY DEF Save
<1>5. Ceremonies'
  BY <1>4 DEF IInv, Ceremonies, ceremonyVars
<1>6. JobTypes'
  BY <1>2, <1>3, <1>4, Steps, Ops DEF IInv, JobTypes
<1>7. Jobs'
  <2> SUFFICES ASSUME NEW q \in Request
               PROVE  /\ Fits(op'[q], arg'[q], token'[q])
                      /\ at'[q] = "mark" => op'[q] = "enroll"
                      /\ up' \/ at'[q] = "idle"
    BY DEF Jobs, Fits
  <2>1. CASE q = r
    <3>1. op'[q] = o /\ arg'[q] = x /\ token'[q] = t /\ at'[q] = step
      BY <1>3, <2>1 DEF IInv, JobTypes
    <3> QED
      BY <1>1, <1>3, <1>4, <3>1
  <2>2. CASE q # r
    <3>1. op'[q] = op[q] /\ arg'[q] = arg[q] /\ token'[q] = token[q] /\ at'[q] = at[q]
      BY <1>3, <2>2 DEF IInv, JobTypes
    <3> QED
      BY <1>4, <3>1 DEF IInv, Jobs
  <2> QED
    BY <2>1, <2>2
<1>8. Windows'
  BY <1>1, <1>3, <1>4 DEF IInv, Windows, JobTypes
<1>9. now' \in 0..MaxTime /\ \A q \in Request : at'[q] \in Busy => at'[q] = at[q]
  BY <1>3, <1>4 DEF IInv, Busy, Sessions, SessionTypeOK, JobTypes
<1>10. Sessions'
  BY <1>4, <1>9, SessionsStay DEF IInv
<1> QED
  BY <1>5, <1>6, <1>7, <1>8, <1>10 DEF IInv

\* A request ends without its write, and takes its copies with it.
LEMMA StoreFailsKeeps == ASSUME IInv, NEW r \in Request, StoreFails(r) PROVE IInv'
<1>1. /\ at' = [at EXCEPT ![r] = "idle"] /\ op' = [op EXCEPT ![r] = "none"]
      /\ arg' = [arg EXCEPT ![r] = None] /\ token' = [token EXCEPT ![r] = None]
      /\ copy' = [copy EXCEPT ![r] = None] /\ alone' = alone \ {r}
      /\ held' = [held EXCEPT ![r] = None] /\ cookie' = [cookie EXCEPT ![r] = None]
      /\ UNCHANGED <<now, sessions, issued, ended, rec, ceremonyVars, up>>
  BY DEF StoreFails, Go
<1>2. Ceremonies'
  BY <1>1 DEF IInv, Ceremonies, ceremonyVars
<1>3. JobTypes'
  BY <1>1, Steps, Ops DEF IInv, JobTypes
<1>4. Jobs'
  <2> SUFFICES ASSUME NEW q \in Request
               PROVE  /\ Fits(op'[q], arg'[q], token'[q])
                      /\ at'[q] = "mark" => op'[q] = "enroll"
                      /\ up' \/ at'[q] = "idle"
    BY DEF Jobs, Fits
  <2>1. CASE q = r
    <3>1. op'[q] = "none" /\ at'[q] = "idle"
      BY <1>1, <2>1 DEF IInv, JobTypes
    <3> QED
      BY <3>1 DEF Fits
  <2>2. CASE q # r
    <3>1. op'[q] = op[q] /\ arg'[q] = arg[q] /\ token'[q] = token[q] /\ at'[q] = at[q]
      BY <1>1, <2>2 DEF IInv, JobTypes
    <3> QED
      BY <1>1, <3>1 DEF IInv, Jobs
  <2> QED
    BY <2>1, <2>2
<1>5. Windows'
  BY <1>1 DEF IInv, Windows, JobTypes
<1>6. SessionTypeOK'
  BY <1>1 DEF IInv, Sessions, SessionTypeOK
<1>7. Known'
  BY <1>1 DEF IInv, Sessions, SessionTypeOK, Known, JobTypes
<1>8. SessionCapped'
  BY <1>1 DEF IInv, Sessions, SessionTypeOK, SessionCapped, Capped
<1>9. LogoutHolds'
  BY <1>1 DEF IInv, Sessions, SessionTypeOK, LogoutHolds, Holds
<1> QED
  BY <1>2, <1>3, <1>4, <1>5, <1>6, <1>7, <1>8, <1>9 DEF IInv, Sessions

\* A step of the sessions: no window begins or ends.
LEMMA SessionStepKeeps ==
    ASSUME IInv, NEW r \in Request, at[r] # "save", up, NEW step \in Plain \union Busy, Go(r, step),
           UNCHANGED <<now, rec, ceremonyVars, up, jobVars>>, Sessions'
    PROVE  IInv'
<1>1. at' = [at EXCEPT ![r] = step] /\ step \in Step /\ step \notin {"save", "mark"}
  BY Steps DEF Go, Plain, Busy
<1>2. UNCHANGED <<now, rec, up, op, arg, token, copy, alone>>
  BY DEF jobVars
<1>3. JobTypes' /\ Ceremonies'
  BY <1>1, <1>2 DEF IInv, JobTypes, Ceremonies, ceremonyVars
<1>4. \A q \in Request : at'[q] = "mark" => at[q] = "mark"
  BY <1>1 DEF IInv, JobTypes
<1>5. Jobs'
  <2> SUFFICES ASSUME NEW q \in Request
               PROVE  /\ Fits(op'[q], arg'[q], token'[q])
                      /\ at'[q] = "mark" => op'[q] = "enroll"
                      /\ up' \/ at'[q] = "idle"
    BY DEF Jobs, Fits
  <2>1. Fits(op[q], arg[q], token[q]) /\ (at[q] = "mark" => op[q] = "enroll")
    BY DEF IInv, Jobs
  <2> QED
    BY <1>2, <1>4, <2>1
<1>6. Windows'
  BY <1>1, <1>2 DEF IInv, Windows, JobTypes
<1> QED
  BY <1>3, <1>5, <1>6 DEF IInv

-----------------------------------------------------------------------------
LEMMA CeremoniesStay == ASSUME Ceremonies, UNCHANGED ceremonyVars PROVE Ceremonies'
BY DEF Ceremonies, ceremonyVars

LEMMA NothingFits == Fits("none", None, None)
BY DEF Fits

LEMMA Fresh == ASSUME IInv, NEW r \in Request, at[r] # "idle" PROVE up
BY DEF IInv, Jobs

LEMMA ValidateKeeps == ASSUME IInv, NEW r \in Request, Validate(r) PROVE IInv'
<1>1. ASSUME NEW s \in Sid, Authenticate(r, s) PROVE IInv'
  <2>1. Sessions'
    BY <1>1, AuthenticateSound
  <2>2. at[r] # "save" /\ up /\ Go(r, "touch") /\ UNCHANGED <<now, rec, ceremonyVars, up, jobVars>>
    BY <1>1 DEF Authenticate, Idle
  <2> QED
    BY <2>1, <2>2, SessionStepKeeps DEF Busy
<1>2. CASE Touch(r)
  <2>1. Sessions'
    BY <1>2, TouchSound
  <2>2. at[r] # "save" /\ up /\ Go(r, "in") /\ UNCHANGED <<now, rec, ceremonyVars, up, jobVars>>
    BY <1>2, Fresh DEF Touch
  <2> QED
    BY <2>1, <2>2, SessionStepKeeps, PlainIn
<1>3. ASSUME NEW s \in Sid, Unauthorized(r, s) PROVE IInv'
  <2>1. Sessions'
    BY <1>3, UnauthorizedSound
  <2>2. at[r] # "save" /\ up /\ Go(r, "expire") /\ UNCHANGED <<now, rec, ceremonyVars, up, jobVars>>
    BY <1>3 DEF Unauthorized, Idle
  <2> QED
    BY <2>1, <2>2, SessionStepKeeps DEF Busy
<1>4. CASE Expire(r)
  <2>1. cookie[r] \in Sid /\ cookie[r] \in issued
    BY <1>4 DEF Expire, IInv, Sessions, Known, SessionTypeOK
  <2>2. /\ at[r] = "expire" /\ at' = [at EXCEPT ![r] = "idle"] /\ cookie' = [cookie EXCEPT ![r] = None]
        /\ DeleteSession(cookie[r]) /\ UNCHANGED <<now, issued, held>>
    BY <1>4 DEF Expire, Go
  <2>3. /\ \A q \in Request : at'[q] \in Busy => at'[q] = at[q] /\ cookie'[q] = cookie[q]
        /\ cookie' \in [Request -> Sid \union {None}]
        /\ \A q \in Request : cookie'[q] = cookie[q] \/ (cookie'[q] = None /\ at[q] = "expire")
    BY <2>2 DEF Busy, IInv, Sessions, SessionTypeOK, JobTypes
  <2>4. Sessions'
    BY <2>1, <2>2, <2>3, DeleteSound
  <2>5. at[r] # "save" /\ up /\ Go(r, "idle") /\ UNCHANGED <<now, rec, ceremonyVars, up, jobVars>>
    BY <1>4, Fresh DEF Expire
  <2> QED
    BY <2>4, <2>5, SessionStepKeeps, PlainIn
<1> QED
  BY <1>1, <1>2, <1>3, <1>4 DEF Validate

LEMMA UpdateKeeps == ASSUME IInv, NEW r \in Request, Update(r) PROVE IInv'
<1>1. CASE Leave(r)
  <2>1. /\ at[r] # "save" /\ up /\ Job(r, "idle", "none", None, None)
        /\ UNCHANGED <<now, sessionVars, rec, ceremonyVars, up>>
    BY <1>1, Fresh DEF Leave, Answer
  <2> QED
    BY <2>1, JobKeeps, CeremoniesStay, NothingFits, PlainIn, Ops DEF IInv
<1>2. CASE UpdateSettings(r) \/ DisableTOTPHandler(r) \/ DisablePasskey(r)
  <2>1. Fits("theme", None, None) /\ Fits("totp off", None, None) /\ Fits("passkey off", None, None)
    BY DEF Fits
  <2> QED
    BY <1>2, <2>1, HandleKeeps, Ops DEF UpdateSettings, DisableTOTPHandler, DisablePasskey
<1>3. ASSUME NEW p \in Password, ChangePassword(r, p) PROVE IInv'
  <2>1. Fits("password", p, None)
    BY DEF Fits
  <2> QED
    BY <1>3, <2>1, HandleKeeps, Ops DEF ChangePassword
<1>4. ASSUME NEW k \in Secret, EnableTOTP(r, k) PROVE IInv'
  <2>1. Fits("totp on", k, None)
    BY DEF Fits
  <2> QED
    BY <1>4, <2>1, HandleKeeps, Ops DEF EnableTOTP
<1>5. ASSUME NEW batch \in SUBSET Code, RegenerateBackupCodes(r, batch) PROVE IInv'
  <2>1. Fits("codes", batch, None)
    BY DEF Fits
  <2> QED
    BY <1>5, <2>1, HandleKeeps, Ops DEF RegenerateBackupCodes
<1>6. ASSUME NEW o \in {"totp off", "cleanup"}, NEW x, Rollback(r, o, x) PROVE IInv'
  <2>1. Fits(o, x, None) /\ o \in Op
    BY Ops DEF Fits
  <2>2. /\ at[r] # "save" /\ up /\ Job(r, "get", o, x, None)
        /\ UNCHANGED <<now, sessionVars, rec, ceremonyVars, up>>
    BY <1>6, Fresh DEF Rollback
  <2> QED
    BY <2>1, <2>2, JobKeeps, CeremoniesStay, PlainIn DEF IInv
<1>7. ASSUME NEW k \in Secret, ConfirmTOTP(r, k) \/ CleanupTOTP(r, k) PROVE IInv'
  BY <1>6, <1>7 DEF ConfirmTOTP, CleanupTOTP
<1> QED
  BY <1>1, <1>2, <1>3, <1>4, <1>5, <1>7, GetKeeps, SaveKeeps DEF Update

LEMMA SignInKeeps == ASSUME IInv, NEW r \in Request, SignIn(r) PROVE IInv'
<1>1. ASSUME NEW p \in Password, Login(r, p) PROVE IInv'
  <2>1. PICK step \in {"pend", "grant"} : Go(r, step)
    BY <1>1 DEF Login
  <2>2. at[r] # "save" /\ up /\ UNCHANGED <<now, sessionVars, rec, ceremonyVars, up, jobVars>>
    BY <1>1 DEF Login, Idle
  <2> QED
    BY <2>1, <2>2, GoKeeps, CeremoniesStay, PlainIn DEF IInv
<1>2. ASSUME NEW t \in Token, PutPending(r, t) PROVE IInv'
  <2>1. at[r] # "save" /\ up /\ Go(r, "idle") /\ UNCHANGED <<now, sessionVars, rec, up, jobVars>>
    BY <1>2, Fresh DEF PutPending
  <2>2. Ceremonies'
    BY <1>2 DEF PutPending, IInv, Ceremonies, Sessions, SessionTypeOK, Time
  <2> QED
    BY <2>1, <2>2, GoKeeps, PlainIn
<1>3. ASSUME NEW t \in Token, WebAuthnLoginFinish(r, t) PROVE IInv'
  <2>1. /\ at[r] # "save" /\ up /\ Job(r, "finish", "assert", None, t)
        /\ UNCHANGED <<now, sessionVars, rec, up>>
    BY <1>3 DEF WebAuthnLoginFinish, Idle
  <2>2. Ceremonies'
    BY <1>3 DEF WebAuthnLoginFinish, IInv, Ceremonies
  <2>3. Fits("assert", None, t)
    BY DEF Fits
  <2> QED
    BY <2>1, <2>2, <2>3, JobKeeps, PlainIn, Ops
<1>4. ASSUME NEW t \in Token, NEW o \in {"assert", "totp", "backup"}, NEW x, Verify(r, t, o, x) PROVE IInv'
  <2>1. /\ at[r] # "save" /\ up /\ Job(r, IF o = "backup" THEN "get" ELSE "verify", o, x, t)
        /\ UNCHANGED <<now, sessionVars, rec, ceremonyVars, up>>
    BY <1>4 DEF Verify, Idle
  <2>2. Fits(o, x, t) /\ o \in Op
    BY Ops DEF Fits
  <2>3. Ceremonies'
    BY <2>1, CeremoniesStay DEF IInv
  <2>4. CASE o = "backup"
    BY <2>1, <2>2, <2>3, <2>4, JobKeeps, PlainIn
  <2>5. CASE o # "backup"
    BY <2>1, <2>2, <2>3, <2>5, JobKeeps, PlainIn
  <2> QED
    BY <2>4, <2>5
<1>5. CASE VerifyAdminTOTP(r) \/ FinishWebAuthnLogin(r)
  <2>1. /\ at[r] # "save" /\ up /\ Go(r, "spend")
        /\ UNCHANGED <<now, sessionVars, rec, ceremonyVars, up, jobVars>>
    BY <1>5, Fresh DEF VerifyAdminTOTP, FinishWebAuthnLogin
  <2> QED
    BY <2>1, GoKeeps, CeremoniesStay, PlainIn DEF IInv
<1>6. CASE WebAuthnLoginBegin(r)
  <2>1. /\ at[r] # "save" /\ up /\ Job(r, "idle", "none", None, None)
        /\ UNCHANGED <<now, sessionVars, rec, up>>
    BY <1>6, Fresh DEF WebAuthnLoginBegin, Answer
  <2>2. token[r] \in Token
    BY <1>6 DEF WebAuthnLoginBegin, IInv, Jobs, Fits
  <2>3. Ceremonies'
    BY <1>6, <2>2 DEF WebAuthnLoginBegin, IInv, Ceremonies
  <2> QED
    BY <2>1, <2>3, JobKeeps, NothingFits, PlainIn, Ops
<1>7. CASE DeletePending(r)
  <2>1. /\ at[r] # "save" /\ up /\ Job(r, "grant", "none", None, None)
        /\ UNCHANGED <<now, sessionVars, rec, up>>
    BY <1>7, Fresh DEF DeletePending
  <2>2. Ceremonies'
    BY <1>7 DEF DeletePending, IInv, Ceremonies
  <2> QED
    BY <2>1, <2>2, JobKeeps, NothingFits, PlainIn, Ops
<1>8. ASSUME NEW s \in Sid, NEW persistent \in BOOLEAN, Grant(r, s, persistent) PROVE IInv'
  <2>1. Sessions'
    BY <1>8, GrantSound
  <2>2. at[r] # "save" /\ up /\ Go(r, "idle") /\ UNCHANGED <<now, rec, ceremonyVars, up, jobVars>>
    BY <1>8, Fresh DEF Grant
  <2> QED
    BY <2>1, <2>2, SessionStepKeeps, PlainIn
<1> QED
  BY <1>1, <1>2, <1>3, <1>4, <1>5, <1>6, <1>7, <1>8 DEF SignIn

LEMMA EnrollKeeps == ASSUME IInv, NEW r \in Request, Enroll(r) PROVE IInv'
<1>1. ASSUME NEW l \in Link, PasskeyEnrollLink(r, l) PROVE IInv'
  <2>1. /\ at[r] # "save" /\ up /\ Job(r, "idle", "none", None, None)
        /\ UNCHANGED <<now, sessionVars, rec, up>>
    BY <1>1, Fresh DEF PasskeyEnrollLink, Answer
  <2>2. Ceremonies'
    BY <1>1 DEF PasskeyEnrollLink, PutEnrollToken, IInv, Ceremonies, Sessions, SessionTypeOK, Time
  <2> QED
    BY <2>1, <2>2, JobKeeps, NothingFits, PlainIn, Ops
<1>2. ASSUME NEW l \in Link, WebAuthnRegisterBegin(r, l) PROVE IInv'
  <2>1. Ceremonies'
    BY <1>2 DEF WebAuthnRegisterBegin, IInv, Ceremonies
  <2>2. /\ at[r] = "idle" /\ up /\ Go(r, "idle")
        /\ UNCHANGED <<now, sessionVars, rec, up, jobVars>>
    <3>1. at' = [at EXCEPT ![r] = "idle"]
      BY <1>2 DEF WebAuthnRegisterBegin, Idle, IInv, JobTypes
    <3> QED
      BY <1>2, <3>1 DEF WebAuthnRegisterBegin, Idle, Go
  <2> QED
    BY <2>1, <2>2, GoKeeps, PlainIn
<1>3. ASSUME NEW l \in Link, NEW key \in Passkey, WebAuthnRegisterFinish(r, l, key) PROVE IInv'
  <2>1. /\ at[r] # "save" /\ up /\ Job(r, "recheck", "enroll", key, l)
        /\ UNCHANGED <<now, sessionVars, rec, up>>
    BY <1>3 DEF WebAuthnRegisterFinish, Idle
  <2>2. Ceremonies'
    BY <1>3 DEF WebAuthnRegisterFinish, IInv, Ceremonies
  <2>3. Fits("enroll", key, l)
    BY DEF Fits
  <2> QED
    BY <2>1, <2>2, <2>3, JobKeeps, PlainIn, Ops
<1>4. CASE Recheck(r)
  <2>1. /\ at[r] # "save" /\ up /\ Go(r, "get")
        /\ UNCHANGED <<now, sessionVars, rec, ceremonyVars, up, jobVars>>
    BY <1>4, Fresh DEF Recheck
  <2> QED
    BY <2>1, GoKeeps, CeremoniesStay, PlainIn DEF IInv
<1>5. CASE MarkEnrollTokenUsed(r)
  <2>1. /\ at[r] # "save" /\ up /\ Job(r, "idle", "none", None, None)
        /\ UNCHANGED <<now, sessionVars, rec, up>>
    BY <1>5, Fresh DEF MarkEnrollTokenUsed, Answer
  <2>2. token[r] \in Link
    BY <1>5 DEF MarkEnrollTokenUsed, IInv, Jobs, Fits
  <2>3. Ceremonies'
    BY <1>5, <2>2 DEF MarkEnrollTokenUsed, IInv, Ceremonies
  <2> QED
    BY <2>1, <2>3, JobKeeps, NothingFits, PlainIn, Ops
<1> QED
  BY <1>1, <1>2, <1>3, <1>4, <1>5 DEF Enroll

\* A step in which no request takes part.
LEMMA OutsideKeeps ==
    ASSUME IInv, UNCHANGED <<at, jobVars>>, rec' \in Account, Ceremonies', Sessions',
           up' \in BOOLEAN, up => up', up => rec' = rec
    PROVE  IInv'
<1>1. UNCHANGED <<at, op, arg, token, copy, alone>>
  BY DEF jobVars
<1>2. JobTypes'
  BY <1>1 DEF IInv, JobTypes
<1>3. Jobs'
  BY <1>1 DEF IInv, Jobs, Fits
<1>4. up \/ alone = {}
  BY DEF IInv, Jobs, Windows, JobTypes
<1>5. Windows'
  BY <1>1, <1>4 DEF IInv, Windows
<1> QED
  BY <1>2, <1>3, <1>5 DEF IInv

LEMMA LogoutKeeps == ASSUME IInv, NEW s \in Sid, Logout(s) PROVE IInv'
<1>1. s \in issued /\ DeleteSession(s) /\ UNCHANGED <<now, issued, held, cookie, rec, ceremonyVars, up, at, jobVars>>
  BY DEF Logout, IInv, Sessions, Known
<1>2. cookie' \in [Request -> Sid \union {None}] /\ rec \in Account /\ up \in BOOLEAN
  BY <1>1 DEF IInv, Sessions, SessionTypeOK, JobTypes
<1>3. Sessions'
  BY <1>1, <1>2, DeleteSound
<1>4. Ceremonies'
  BY <1>1, CeremoniesStay DEF IInv
<1> QED
  BY <1>1, <1>2, <1>3, <1>4, OutsideKeeps

LEMMA CommandKeeps ==
    ASSUME IInv, NEW o, NEW x, Fits(o, x, None), o \notin {"enroll", "assert"}, AdminCommand(o, x)
    PROVE  IInv'
<1>1. ~up /\ rec' = Effect(o, x, rec) /\ UNCHANGED <<now, sessionVars, ceremonyVars, up, at, jobVars>>
  BY DEF AdminCommand
<1>2. rec' \in Account /\ up' \in BOOLEAN
  BY <1>1, EffectType DEF IInv, JobTypes
<1>3. Ceremonies'
  BY <1>1, CeremoniesStay DEF IInv
<1>4. now' \in 0..MaxTime
  BY <1>1 DEF IInv, Sessions, SessionTypeOK
<1>5. Sessions'
  BY <1>1, <1>4, SessionsStay DEF IInv
<1> QED
  BY <1>1, <1>2, <1>3, <1>5, OutsideKeeps

LEMMA AnyCommandKeeps == ASSUME IInv, AnyAdminCommand PROVE IInv'
<1>1. ASSUME NEW p \in Password, AdminCommand("init", p) \/ AdminCommand("password", p) PROVE IInv'
  <2>1. Fits("init", p, None) /\ Fits("password", p, None)
    BY DEF Fits
  <2> QED
    BY <1>1, <2>1, CommandKeeps
<1>2. ASSUME NEW k \in Secret, AdminCommand("totp on", k) PROVE IInv'
  <2>1. Fits("totp on", k, None)
    BY DEF Fits
  <2> QED
    BY <1>2, <2>1, CommandKeeps
<1>3. ASSUME NEW batch \in SUBSET Code, AdminCommand("codes", batch) PROVE IInv'
  <2>1. Fits("codes", batch, None)
    BY DEF Fits
  <2> QED
    BY <1>3, <2>1, CommandKeeps
<1>4. ASSUME NEW o \in {"totp off", "passkey off", "reset"}, AdminCommand(o, None) PROVE IInv'
  <2>1. Fits(o, None, None)
    BY DEF Fits
  <2> QED
    BY <1>4, <2>1, CommandKeeps
<1> QED
  BY <1>1, <1>2, <1>3, <1>4 DEF AnyAdminCommand

LEMMA EnrollCommandKeeps == ASSUME IInv, NEW l \in Link, EnrollCommand(l) PROVE IInv'
<1>1. UNCHANGED <<now, sessionVars, rec, up, at, jobVars>>
  BY DEF EnrollCommand
<1>2. Ceremonies'
  BY DEF EnrollCommand, PutEnrollToken, IInv, Ceremonies, Sessions, SessionTypeOK, Time
<1>3. now' \in 0..MaxTime /\ rec \in Account /\ up \in BOOLEAN
  BY <1>1 DEF IInv, Sessions, SessionTypeOK, JobTypes
<1>4. Sessions'
  BY <1>1, <1>3, SessionsStay DEF IInv
<1> QED
  BY <1>1, <1>2, <1>3, <1>4, OutsideKeeps

LEMMA StopKeeps == ASSUME IInv, Stop PROVE IInv'
<1>1. Ceremonies'
  BY DEF Stop, IInv, Ceremonies
<1>2. JobTypes'
  BY Steps, Ops DEF Stop, IInv, JobTypes, NoRequest
<1>3. \A r \in Request : op'[r] = "none" /\ at'[r] = "idle" /\ held'[r] = None /\ cookie'[r] = None
  BY DEF Stop, NoRequest
<1>4. Jobs' /\ Windows'
  BY <1>3 DEF Jobs, Fits, Windows, Stop
<1>5. SessionTypeOK'
  BY DEF Stop, NoRequest, IInv, Sessions, SessionTypeOK
<1>6. Known' /\ SessionCapped' /\ LogoutHolds'
  BY <1>3 DEF Stop, IInv, Sessions, Known, SessionCapped, LogoutHolds, Capped, Holds
<1> QED
  BY <1>1, <1>2, <1>4, <1>5, <1>6 DEF IInv, Sessions

LEMMA BootKeeps == ASSUME IInv, Boot PROVE IInv'
<1>1. up' = TRUE /\ UNCHANGED <<now, sessionVars, rec, ceremonyVars, at, jobVars>>
  BY DEF Boot
<1>2. Ceremonies'
  BY <1>1, CeremoniesStay DEF IInv
<1>3. now' \in 0..MaxTime /\ rec \in Account
  BY <1>1 DEF IInv, Sessions, SessionTypeOK, JobTypes
<1>4. Sessions'
  BY <1>1, <1>3, SessionsStay DEF IInv
<1> QED
  BY <1>1, <1>2, <1>3, <1>4, OutsideKeeps

LEMMA TickKeeps == ASSUME IInv, Tick PROVE IInv'
<1>1. UNCHANGED <<sessionVars, rec, ceremonyVars, up, at, jobVars>>
  BY DEF Tick
<1>2. Ceremonies'
  BY <1>1, CeremoniesStay DEF IInv
<1>3. now' \in 0..MaxTime /\ rec \in Account /\ up \in BOOLEAN
  BY SessionAssumption DEF Tick, IInv, Sessions, SessionTypeOK, JobTypes
<1>4. Sessions'
  BY <1>1, <1>3, SessionsStay DEF IInv
<1> QED
  BY <1>1, <1>2, <1>3, <1>4, OutsideKeeps

LEMMA StutterKeeps == ASSUME IInv, UNCHANGED vars PROVE IInv'
<1>1. UNCHANGED <<now, sessionVars, rec, ceremonyVars, up, at, jobVars>>
  BY DEF vars
<1>2. Ceremonies'
  BY <1>1, CeremoniesStay DEF IInv
<1>3. now' \in 0..MaxTime /\ rec \in Account /\ up \in BOOLEAN
  BY <1>1 DEF IInv, Sessions, SessionTypeOK, JobTypes
<1>4. Sessions'
  BY <1>1, <1>3, SessionsStay DEF IInv
<1> QED
  BY <1>1, <1>2, <1>3, <1>4, OutsideKeeps

LEMMA InitSound == Init => IInv
<1> SUFFICES ASSUME Init PROVE IInv
  OBVIOUS
<1>1. Ceremonies
  BY DEF Init, Ceremonies
<1>2. rec \in Account
  BY NewAccountType DEF Init
<1>3. JobTypes
  BY <1>2, Steps, Ops DEF Init, JobTypes, NoRequest
<1>4. Jobs /\ Windows
  BY DEF Init, Jobs, Fits, Windows
<1>5. SessionTypeOK
  BY SessionAssumption DEF Init, SessionInit, SessionTypeOK
<1>6. Known /\ SessionCapped /\ LogoutHolds
  BY DEF Init, SessionInit, Known, SessionCapped, LogoutHolds, Capped, Holds
<1> QED
  BY <1>1, <1>3, <1>4, <1>5, <1>6 DEF IInv, Sessions

LEMMA StepSound == IInv /\ [Next]_vars => IInv'
<1> SUFFICES ASSUME IInv, [Next]_vars PROVE IInv'
  OBVIOUS
<1>1. ASSUME NEW r \in Request, Validate(r) \/ Update(r) \/ SignIn(r) \/ Enroll(r) PROVE IInv'
  BY <1>1, ValidateKeeps, UpdateKeeps, SignInKeeps, EnrollKeeps
<1> QED
  BY <1>1, StoreFailsKeeps, LogoutKeeps, AnyCommandKeeps, EnrollCommandKeeps, StopKeeps, BootKeeps, TickKeeps,
     StutterKeeps DEF Next

LEMMA Invariance == Spec => []IInv
BY InitSound, StepSound, PTL DEF Spec

-----------------------------------------------------------------------------
(* The account and every copy of it have a factor exactly where they say so. *)
THEOREM AuthTypeCorrect == Spec => []AuthTypeOK
<1>1. IInv => AuthTypeOK
  BY DEF IInv, Ceremonies, JobTypes, Sessions, AuthTypeOK
<1> QED
  BY <1>1, Invariance, PTL

(* For any number of requests that read and extend one session, it ends in time, *)
(* and with its logout if no request was just extending it.                      *)
THEOREM SessionsEnd == Spec => []SessionsHold
<1>1. IInv => SessionsHold
  BY DEF IInv, Sessions, SessionsHold
<1> QED
  BY <1>1, Invariance, PTL

(* An update that nobody overlapped changes the account as it is when it is written. *)
THEOREM UpdatesAreWhole == Spec => UpdatesStand
<1> DEFINE Stands == \A r \in alone : Save(r) =>
                        /\ rec' = Effect(op[r], arg[r], rec)
                        /\ op[r] = "backup" => arg[r] \in rec.codes
<1>1. IInv => Stands
  <2> SUFFICES ASSUME IInv, NEW r \in alone, Save(r)
               PROVE  rec' = Effect(op[r], arg[r], rec) /\ (op[r] = "backup" => arg[r] \in rec.codes)
    OBVIOUS
  <2>1. r \in Request /\ at[r] = "save" /\ copy[r] = rec
    BY DEF IInv, JobTypes, Windows
  <2>2. op[r] = "backup" => arg[r] \in rec.codes
    BY <2>1 DEF IInv, Windows
  <2> QED
    BY <2>1, <2>2 DEF Save
<1> QED
  BY <1>1, Invariance, PTL DEF UpdatesStand
=============================================================================
