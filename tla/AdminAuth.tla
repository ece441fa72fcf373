------------------------------ MODULE AdminAuth ------------------------------
(***************************************************************************)
(* The admin's account, sessions, pending logins and passkey enrolments.   *)
(* The account is one record under one key: every handler that changes it  *)
(* reads the whole record in one transaction and writes the whole record   *)
(* in another.  The commands of the command line change it only while the  *)
(* server is down.  Random ids, secrets and codes never come twice.        *)
(***************************************************************************)
EXTENDS Session

CONSTANTS
    Password, Secret, Passkey, Code,    \* what an account is made of
    Token,      \* tokens of pending logins
    Link,       \* tokens of enrolment links
    PendingTTL, \* life of a pending login
    EnrollTTL   \* life of an enrolment link

VARIABLES
    rec,        \* the admin record
    pendings,   \* bucket: when the pending login was created
    links,      \* bucket: when the link was created
    usedLinks,  \* links whose record says used
    asserting, enrolling,   \* passkey ceremonies in memory, by token or link
    up,         \* the server runs
    at, op, arg, token, \* each request: step, operation, its argument, its token or link
    copy,       \* each request: the record it has read and will write
    alone       \* history: requests that nobody overlapped since they read the record

ceremonyVars == <<pendings, links, usedLinks, asserting, enrolling>>
jobVars == <<op, arg, token, copy, alone>>
vars == <<now, sessionVars, rec, ceremonyVars, up, at, jobVars>>

\* A flag says that there is a factor to ask for, and there is one.
Account ==
    {a \in [password: Password, totp: Secret \union {None}, totpOn: BOOLEAN,
            passkeys: SUBSET Passkey, passkeyOn: BOOLEAN, codes: SUBSET Code] :
        a.totpOn = (a.totp # None) /\ a.passkeyOn = (a.passkeys # {})}

ASSUME AdminAssumption ==
    /\ None \notin Secret \union Token \union Link \union Sid \union Account
    /\ PendingTTL \in Nat /\ EnrollTTL \in Nat

Op == {"theme", "password", "totp on", "totp off", "cleanup", "codes", "passkey off", "totp",
       "backup", "assert", "enroll", "none"}
Step == {"idle", "expire", "touch", "in", "get", "save", "pend", "verify", "finish", "spend",
         "grant", "recheck", "mark"}
Time == 0..MaxTime

(* The state is well-formed; in the account, and in every copy of it on its way back, *)
(* the flag of a factor agrees with the factor, whatever updates undo of one another. *)
AuthTypeOK ==
    /\ SessionTypeOK /\ rec \in Account /\ up \in BOOLEAN
    /\ pendings \in [Token -> Time \union {None}] /\ asserting \subseteq Token
    /\ links \in [Link -> Time \union {None}] /\ usedLinks \subseteq Link /\ enrolling \subseteq Link
    /\ at \in [Request -> Step] /\ op \in [Request -> Op] /\ copy \in [Request -> Account \union {None}]
    /\ alone \subseteq Request

-----------------------------------------------------------------------------
(* What an operation makes of a record. *)
NewAccount(password) ==
    [password |-> password, totp |-> None, totpOn |-> FALSE, passkeys |-> {},
     passkeyOn |-> FALSE, codes |-> {}]

DisableTOTP(a) == [a EXCEPT !.totp = None, !.totpOn = FALSE]
DisableWebAuthn(a) == [a EXCEPT !.passkeys = {}, !.passkeyOn = FALSE]
\* Mutant: the flag of the passkeys is forgotten.
ResetTOTPOnly(a) == [DisableTOTP(a) EXCEPT !.passkeys = {}, !.codes = {}]
Reset2FA(a) == [DisableWebAuthn(DisableTOTP(a)) EXCEPT !.codes = {}]

Effect(o, x, a) ==
    CASE o = "init" -> NewAccount(x)
      [] o = "password" -> [a EXCEPT !.password = x]
      [] o = "totp on" -> [a EXCEPT !.totp = x, !.totpOn = TRUE]
      [] o \in {"totp off", "cleanup"} -> DisableTOTP(a)
      [] o = "codes" -> [a EXCEPT !.codes = x]
      [] o = "backup" -> [a EXCEPT !.codes = @ \ {x}]
      [] o = "enroll" -> [a EXCEPT !.passkeys = @ \union {x}, !.passkeyOn = TRUE]
      [] o = "passkey off" -> DisableWebAuthn(a)
      [] o = "reset" -> Reset2FA(a)
      [] OTHER -> a

Needs2FA(a) == a.totpOn \/ a.passkeyOn

-----------------------------------------------------------------------------
Go(r, step) == at' = [at EXCEPT ![r] = step]

\* What a request is about: set when it is taken up, gone when it is answered.
Job(r, step, o, x, t) ==
    /\ Go(r, step) /\ op' = [op EXCEPT ![r] = o] /\ arg' = [arg EXCEPT ![r] = x]
    /\ token' = [token EXCEPT ![r] = t] /\ UNCHANGED <<copy, alone>>

Answer(r) == Job(r, "idle", "none", None, None)

Idle(r) == up /\ at[r] = "idle"

(* Authenticated: every handler of the admin begins with it. *)
Authenticate(r, s) ==
    /\ Idle(r) /\ ReadSession(r, s) /\ Go(r, "touch")
    /\ UNCHANGED <<now, rec, ceremonyVars, up, jobVars>>

Touch(r) ==
    /\ at[r] = "touch" /\ WriteSession(r) /\ Go(r, "in")
    /\ UNCHANGED <<now, rec, ceremonyVars, up, jobVars>>

Unauthorized(r, s) ==
    /\ Idle(r) /\ FindExpired(r, s) /\ Go(r, "expire")
    /\ UNCHANGED <<now, rec, ceremonyVars, up, jobVars>>

Expire(r) ==
    /\ at[r] = "expire" /\ DeleteSession(cookie[r]) /\ cookie' = [cookie EXCEPT ![r] = None]
    /\ Go(r, "idle")
    /\ UNCHANGED <<now, issued, held, rec, ceremonyVars, up, jobVars>>

\* The browser's cookie is cleared.  A delete that fails leaves the session: no step.
Logout(s) ==
    /\ up /\ sessions[s] # None /\ DeleteSession(s)
    /\ UNCHANGED <<now, issued, held, cookie, rec, ceremonyVars, up, at, jobVars>>

\* The handlers that change nothing, a wrong password or code, an invalid request.
Leave(r) ==
    /\ at[r] \in {"in", "get", "verify", "finish", "recheck"} /\ Answer(r)
    /\ UNCHANGED <<now, sessionVars, rec, ceremonyVars, up>>

(* An update reads the record in one transaction and writes it in another. *)
InWindow(r) == at[r] = "save"
Overlapped == {r \in Request : InWindow(r)}

ReadRecord(r) ==
    /\ copy' = [copy EXCEPT ![r] = rec]
    /\ alone' = IF Overlapped = {} THEN {r} ELSE alone \ Overlapped

\* An authenticated handler whose caller typed the password, where one is asked for.
Handle(r, o, x) ==
    /\ at[r] = "in" /\ Go(r, "save") /\ op' = [op EXCEPT ![r] = o] /\ arg' = [arg EXCEPT ![r] = x]
    /\ ReadRecord(r) /\ UNCHANGED <<now, sessionVars, rec, ceremonyVars, up, token>>

UpdateSettings(r) == Handle(r, "theme", None)
ChangePassword(r, p) == Handle(r, "password", p)
DisableTOTPHandler(r) == Handle(r, "totp off", None)
DisablePasskey(r) == Handle(r, "passkey off", None)

\* Random: in no record, no copy of it and no request.
Records == ({rec} \union {copy[q] : q \in Request}) \ {None}
FreshSecret(k) == (\A a \in Records : a.totp # k) /\ \A q \in Request : arg[q] # k
FreshCode(c) == (\A a \in Records : c \notin a.codes)
                /\ \A q \in Request : arg[q] # c /\ (op[q] = "codes" => c \notin arg[q])

EnableTOTP(r, k) == Handle(r, "totp on", k) /\ FreshSecret(k)
RegenerateBackupCodes(r, batch) ==
    batch # {} /\ Handle(r, "codes", batch) /\ \A c \in batch : FreshCode(c)

\* These two look at the record, and then have it read again to be changed.
Rollback(r, o, x) ==
    at[r] = "in" /\ Job(r, "get", o, x, None) /\ UNCHANGED <<now, sessionVars, rec, ceremonyVars, up>>

\* A code that is not of the stored secret takes the enrolment back.
ConfirmTOTP(r, k) == k # rec.totp /\ Rollback(r, "totp off", None)

\* The panel gives up an enrolment, if its secret is still the stored one.
CleanupTOTP(r, k) == k = rec.totp /\ Rollback(r, "cleanup", k)

PutEnrollToken(l) == links[l] = None /\ links' = [links EXCEPT ![l] = now]

PasskeyEnrollLink(r, l) ==
    /\ at[r] = "in" /\ Answer(r) /\ PutEnrollToken(l)
    /\ UNCHANGED <<now, sessionVars, rec, pendings, usedLinks, asserting, enrolling, up>>

-----------------------------------------------------------------------------
Get(r) ==
    /\ at[r] = "get" /\ (op[r] = "backup" => arg[r] \in rec.codes) /\ Go(r, "save")
    /\ ReadRecord(r) /\ UNCHANGED <<now, sessionVars, rec, ceremonyVars, up, op, arg, token>>

\* Mutant: the codes are put back as they were.
KeepCodes(r) ==
    /\ at[r] = "save"
    /\ rec' = [Effect(op[r], arg[r], copy[r]) EXCEPT !.codes = copy[r].codes]
    /\ copy' = [copy EXCEPT ![r] = None] /\ alone' = alone \ {r}
    /\ Go(r, CASE op[r] = "backup" -> "spend" [] op[r] = "enroll" -> "mark" [] OTHER -> "idle")
    /\ UNCHANGED <<now, sessionVars, ceremonyVars, up, op, arg, token>>

\* The record goes back as it was read, with the effect of the operation.
Save(r) ==
    /\ at[r] = "save" /\ rec' = Effect(op[r], arg[r], copy[r])
    /\ copy' = [copy EXCEPT ![r] = None] /\ alone' = alone \ {r}
    /\ IF op[r] \in {"backup", "enroll"}
       THEN Go(r, IF op[r] = "backup" THEN "spend" ELSE "mark") /\ UNCHANGED <<op, arg, token>>
       ELSE Go(r, "idle") /\ op' = [op EXCEPT ![r] = "none"] /\ arg' = [arg EXCEPT ![r] = None]
            /\ token' = [token EXCEPT ![r] = None]
    /\ UNCHANGED <<now, sessionVars, ceremonyVars, up>>

\* A bucket is not written: its request ends with an error.
StoreFails(r) ==
    /\ at[r] \in {"touch", "expire", "save", "pend", "grant"}
    /\ Go(r, "idle") /\ op' = [op EXCEPT ![r] = "none"] /\ arg' = [arg EXCEPT ![r] = None]
    /\ token' = [token EXCEPT ![r] = None] /\ copy' = [copy EXCEPT ![r] = None]
    /\ alone' = alone \ {r}
    /\ held' = [held EXCEPT ![r] = None] /\ cookie' = [cookie EXCEPT ![r] = None]
    /\ UNCHANGED <<now, sessions, issued, ended, rec, ceremonyVars, up>>

-----------------------------------------------------------------------------
(* Login, with a second factor where the account has one. *)
CheckPassword(p) == p = rec.password

Login(r, p) ==
    /\ Idle(r) /\ CheckPassword(p) /\ Go(r, IF Needs2FA(rec) THEN "pend" ELSE "grant")
    /\ UNCHANGED <<now, sessionVars, rec, ceremonyVars, up, jobVars>>

PutPending(r, t) ==
    /\ at[r] = "pend" /\ pendings[t] = None /\ t \notin asserting /\ \A q \in Request : token[q] # t
    /\ pendings' = [pendings EXCEPT ![t] = now] /\ Go(r, "idle")
    /\ UNCHANGED <<now, sessionVars, rec, links, usedLinks, asserting, enrolling, up, jobVars>>

PendingValid(t) == pendings[t] # None /\ now <= pendings[t] + PendingTTL

\* A TOTP code or a backup code, or the begin of a passkey assertion.
Verify(r, t, o, x) ==
    /\ Idle(r) /\ PendingValid(t) /\ Job(r, IF o = "backup" THEN "get" ELSE "verify", o, x, t)
    /\ UNCHANGED <<now, sessionVars, rec, ceremonyVars, up>>

VerifyAdminTOTP(r) ==
    /\ at[r] = "verify" /\ op[r] = "totp" /\ rec.totpOn /\ rec.totp = arg[r] /\ Go(r, "spend")
    /\ UNCHANGED <<now, sessionVars, rec, ceremonyVars, up, jobVars>>

WebAuthnLoginBegin(r) ==
    /\ at[r] = "verify" /\ op[r] = "assert" /\ rec.passkeyOn
    /\ asserting' = asserting \union {token[r]} /\ Answer(r)
    /\ UNCHANGED <<now, sessionVars, rec, pendings, links, usedLinks, enrolling, up>>

\* The ceremony is taken out; the pending login is not looked at again.
WebAuthnLoginFinish(r, t) ==
    /\ Idle(r) /\ t \in asserting /\ asserting' = asserting \ {t}
    /\ Job(r, "finish", "assert", None, t)
    /\ UNCHANGED <<now, sessionVars, rec, pendings, links, usedLinks, enrolling, up>>

FinishWebAuthnLogin(r) ==
    /\ at[r] = "finish" /\ rec.passkeys # {} /\ Go(r, "spend")
    /\ UNCHANGED <<now, sessionVars, rec, ceremonyVars, up, jobVars>>

\* Nobody hears of it when this fails, nor when a link is not marked as used.
DeletePending(r) ==
    /\ at[r] = "spend" /\ pendings' \in {pendings, [pendings EXCEPT ![token[r]] = None]}
    /\ Job(r, "grant", "none", None, None)
    /\ UNCHANGED <<now, sessionVars, rec, links, usedLinks, asserting, enrolling, up>>

Grant(r, s, persistent) ==
    /\ at[r] = "grant" /\ CreateSession(s, persistent) /\ Go(r, "idle")
    /\ UNCHANGED <<now, held, cookie, ended, rec, ceremonyVars, up, jobVars>>

-----------------------------------------------------------------------------
(* Enrolment of a passkey by link. *)
LinkValid(l) == links[l] # None /\ l \notin usedLinks /\ now <= links[l] + EnrollTTL

WebAuthnRegisterBegin(r, l) ==
    /\ Idle(r) /\ LinkValid(l) /\ enrolling' = enrolling \union {l}
    /\ UNCHANGED <<now, sessionVars, rec, pendings, links, usedLinks, asserting, up, at, jobVars>>

WebAuthnRegisterFinish(r, l, key) ==
    /\ Idle(r) /\ l \in enrolling /\ enrolling' = enrolling \ {l}
    /\ Job(r, "recheck", "enroll", key, l)
    /\ UNCHANGED <<now, sessionVars, rec, pendings, links, usedLinks, asserting, up>>

Recheck(r) ==
    /\ at[r] = "recheck" /\ LinkValid(token[r]) /\ Go(r, "get")
    /\ UNCHANGED <<now, sessionVars, rec, ceremonyVars, up, jobVars>>

MarkEnrollTokenUsed(r) ==
    /\ at[r] = "mark" /\ usedLinks' \in {usedLinks, usedLinks \union {token[r]}} /\ Answer(r)
    /\ UNCHANGED <<now, sessionVars, rec, pendings, links, asserting, enrolling, up>>

-----------------------------------------------------------------------------
(* The commands of the command line hold the database alone. *)
AdminCommand(o, x) == ~up /\ rec' = Effect(o, x, rec)
    /\ UNCHANGED <<now, sessionVars, ceremonyVars, up, at, jobVars>>

AnyAdminCommand ==
    \/ \E p \in Password : AdminCommand("init", p) \/ AdminCommand("password", p)
    \/ \E k \in Secret : FreshSecret(k) /\ AdminCommand("totp on", k)
    \/ \E batch \in SUBSET Code \ {{}} :
          (\A c \in batch : FreshCode(c)) /\ AdminCommand("codes", batch)
    \/ \E o \in {"totp off", "passkey off", "reset"} : AdminCommand(o, None)

EnrollCommand(l) ==
    /\ ~up /\ PutEnrollToken(l)
    /\ UNCHANGED <<now, sessionVars, rec, pendings, usedLinks, asserting, enrolling, up, at, jobVars>>

NoRequest == [r \in Request |-> None]

\* Ceremonies and requests live in memory.
Stop ==
    /\ up /\ up' = FALSE /\ asserting' = {} /\ enrolling' = {}
    /\ at' = [r \in Request |-> "idle"] /\ op' = [r \in Request |-> "none"] /\ alone' = {}
    /\ arg' = NoRequest /\ token' = NoRequest /\ copy' = NoRequest /\ held' = NoRequest
    /\ cookie' = NoRequest
    /\ UNCHANGED <<now, sessions, issued, ended, rec, pendings, links, usedLinks>>

Boot == ~up /\ up' = TRUE
        /\ UNCHANGED <<now, sessionVars, rec, ceremonyVars, at, jobVars>>

Tick ==
    /\ now < MaxTime /\ now' = now + 1
    /\ UNCHANGED <<sessionVars, rec, ceremonyVars, up, at, jobVars>>

Init ==
    /\ SessionInit /\ rec \in {NewAccount(p) : p \in Password} /\ up = TRUE
    /\ pendings = [t \in Token |-> None] /\ links = [l \in Link |-> None]
    /\ usedLinks = {} /\ asserting = {} /\ enrolling = {}
    /\ at = [r \in Request |-> "idle"] /\ op = [r \in Request |-> "none"] /\ alone = {}
    /\ arg = NoRequest /\ token = NoRequest /\ copy = NoRequest

Validate(r) ==
    \/ Touch(r) \/ Expire(r)
    \/ \E s \in Sid : Authenticate(r, s) \/ Unauthorized(r, s)

Update(r) ==
    \/ Leave(r) \/ UpdateSettings(r) \/ DisableTOTPHandler(r) \/ DisablePasskey(r)
    \/ \E p \in Password : ChangePassword(r, p)
    \/ \E k \in Secret : EnableTOTP(r, k) \/ ConfirmTOTP(r, k) \/ CleanupTOTP(r, k)
    \/ \E batch \in SUBSET Code : RegenerateBackupCodes(r, batch)
    \/ Get(r) \/ Save(r)

SignIn(r) ==
    \/ \E p \in Password : Login(r, p)
    \/ \E t \in Token : PutPending(r, t) \/ WebAuthnLoginFinish(r, t) \/ Verify(r, t, "assert", None)
    \/ \E t \in Token, k \in Secret : Verify(r, t, "totp", k)
    \/ \E t \in Token, c \in Code : Verify(r, t, "backup", c)
    \/ VerifyAdminTOTP(r) \/ WebAuthnLoginBegin(r) \/ FinishWebAuthnLogin(r) \/ DeletePending(r)
    \/ \E s \in Sid, persistent \in BOOLEAN : Grant(r, s, persistent)

Enroll(r) ==
    \/ \E l \in Link : PasskeyEnrollLink(r, l) \/ WebAuthnRegisterBegin(r, l)
    \/ \E l \in Link, key \in Passkey : WebAuthnRegisterFinish(r, l, key)
    \/ Recheck(r) \/ MarkEnrollTokenUsed(r)

Next ==
    \/ \E r \in Request : Validate(r) \/ Update(r) \/ SignIn(r) \/ Enroll(r) \/ StoreFails(r)
    \/ \E s \in Sid : Logout(s)
    \/ AnyAdminCommand \/ (\E l \in Link : EnrollCommand(l)) \/ Stop \/ Boot \/ Tick

Spec == Init /\ [][Next]_vars

-----------------------------------------------------------------------------
(* An update whose two transactions no other one overlapped changes the record as it is  *)
(* when it is written, and a backup code so accepted is one that had not been used.      *)
UpdatesStand ==
    [][\A r \in alone : Save(r) =>
          /\ rec' = Effect(op[r], arg[r], rec)
          /\ op[r] = "backup" => arg[r] \in rec.codes]_vars
=============================================================================
