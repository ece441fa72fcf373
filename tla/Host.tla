-------------------------------- MODULE Host --------------------------------
(***************************************************************************)
(* One host: the systemd unit that runs nitpub, the binary it runs, the    *)
(* database that only one process may have open, and the commands an       *)
(* administrator runs beside it.  A command given --offline stops the      *)
(* service, works on the database and starts the service again; it may     *)
(* fail or be killed at any step, and two commands may overlap.            *)
(***************************************************************************)
EXTENDS Naturals

CONSTANTS
    Cmd,        \* processes, each runs one command
    Service,    \* the service as the holder of the database
    Free,       \* nobody holds it
    MaxRelease  \* bound: releases published after the installed one

ASSUME HostAssumption ==
    /\ Service \notin Cmd /\ Free \notin Cmd /\ Service # Free
    /\ MaxRelease \in Nat

VARIABLES
    unit,       \* the unit file is installed
    svc,        \* the unit's state, "none" until it is started for the first time
    bin,        \* release of the installed binary
    svcBin,     \* release the service's process was started from
    latest,     \* newest published release
    lock,       \* who has the database open
    dbOwner,    \* owner of nitpub.db
    config,     \* where config.toml comes from
    readable,   \* the service's user can read it
    admin,      \* where the admin account comes from
    at, op, offline, stopped, ver,  \* each command: step, operation, local variables
    answer,     \* each command: what it reported
    excused     \* history: a start or restart of the service was dropped or is not wanted

unitVars == <<unit, svc, svcBin>>
binVars == <<bin, latest>>
dbVars == <<lock, dbOwner, admin>>
configVars == <<config, readable>>
inputs == <<op, offline>>
cmdVars == <<at, inputs, stopped, ver, answer>>
hostVars == <<unitVars, binVars, dbVars, configVars, cmdVars, excused>>

Release == 0..MaxRelease
SvcState == {"none", "inactive", "starting", "running", "backoff"}
Origin == {"absent", "broken", "own", "written", "plain", "forced"}
Op == {"init", "force", "status", "account", "telemetry", "federation", "import", "update"}
Step == {"new", "probe", "stop", "open", "work", "restart", "fetch", "install", "reload", "done"}
Answer == {"none", "ok", "failed", "configured", "missing", "exists"}

TypeOK ==
    /\ unit \in BOOLEAN /\ svc \in SvcState
    /\ bin \in Release /\ svcBin \in Release /\ latest \in Release
    /\ lock \in Cmd \union {Service, Free} /\ dbOwner \in {"absent", "root", "nitpub"}
    /\ config \in Origin /\ readable \in BOOLEAN /\ admin \in Origin
    /\ at \in [Cmd -> Step] /\ op \in [Cmd -> Op] /\ offline \in [Cmd -> BOOLEAN]
    /\ stopped \in [Cmd -> BOOLEAN] /\ ver \in [Cmd -> Release]
    /\ answer \in [Cmd -> Answer] /\ excused \in BOOLEAN

-----------------------------------------------------------------------------
(* The unit: Type=simple, Restart=on-failure, RestartSec=5. *)

\* systemctl is-active says "active" as soon as the process runs.
Active == svc \in {"starting", "running"}

SystemctlStart ==
    /\ unit
    /\ svc' = IF Active THEN svc ELSE "starting"
    /\ svcBin' = IF Active THEN svcBin ELSE bin
    /\ excused' = (excused /\ Active)
    /\ UNCHANGED <<unit, lock>>

ServiceReleases == lock' = IF lock = Service THEN Free ELSE lock

SystemctlStop ==
    /\ svc' = "inactive" /\ ServiceReleases
    /\ UNCHANGED <<unit, svcBin>>

SystemctlRestart ==
    /\ unit
    /\ svc' = "starting" /\ svcBin' = bin /\ excused' = FALSE /\ ServiceReleases
    /\ UNCHANGED unit

\* After the environment has overridden the file there is a domain and a real secret.
ConfigComplete == config \notin {"absent", "broken"}

ConfigLoads(root) == ConfigComplete /\ (root \/ readable)

\* One process at a time; a file that was not there belongs to whoever opened it.
OpenWithTimeout(holder, user) ==
    /\ lock = Free /\ lock' = holder
    /\ user = "root" \/ dbOwner # "root"
    /\ dbOwner' = IF dbOwner = "absent" THEN user ELSE dbOwner

\* main: the config is read as the service's user, then the database is opened.
Boot ==
    /\ svc = "starting" /\ svc' = "running"
    /\ ConfigLoads(FALSE) /\ OpenWithTimeout(Service, "nitpub")
    /\ UNCHANGED <<unit, svcBin, binVars, admin, configVars, cmdVars, excused>>

\* No config, no permission, a database locked for three seconds, a port in use.
BootFails ==
    /\ svc = "starting" /\ svc' = "backoff"
    /\ UNCHANGED <<unit, svcBin, binVars, dbVars, configVars, cmdVars, excused>>

Crash ==
    /\ svc = "running" /\ svc' = "backoff" /\ lock' = Free
    /\ UNCHANGED <<unit, svcBin, binVars, dbOwner, admin, configVars, cmdVars, excused>>

Retry ==
    /\ svc = "backoff" /\ svc' = "starting" /\ svcBin' = bin /\ excused' = FALSE
    /\ UNCHANGED <<unit, binVars, dbVars, configVars, cmdVars>>

\* The administrator starts or stops the service by hand.
StartByHand ==
    /\ SystemctlStart
    /\ UNCHANGED <<binVars, dbOwner, admin, configVars, cmdVars>>

StopByHand ==
    /\ svc # "none" /\ SystemctlStop /\ excused' = TRUE
    /\ UNCHANGED <<binVars, dbOwner, admin, configVars, cmdVars>>

ServiceStep == Boot \/ BootFails \/ Crash \/ Retry \/ StartByHand \/ StopByHand

-----------------------------------------------------------------------------
(* Commands on the database: admin, telemetry, federation and import. *)
Go(c, to) == at' = [at EXCEPT ![c] = to]
Report(c, what) == answer' = [answer EXCEPT ![c] = what]

\* The unit is started again by the command that stopped it, whatever came of its work.
Cleanup(c) == Go(c, IF stopped[c] THEN "restart" ELSE "done")

Invoke(c, o, off) ==
    /\ at[c] = "new"
    /\ Go(c, IF o = "update" THEN "fetch" ELSE IF off THEN "probe" ELSE "open")
    /\ op' = [op EXCEPT ![c] = o] /\ offline' = [offline EXCEPT ![c] = off]
    /\ ver' = [ver EXCEPT ![c] = bin] /\ Report(c, "none")
    /\ UNCHANGED <<unitVars, binVars, dbVars, configVars, stopped, excused>>

Probe(c) ==
    /\ at[c] = "probe"
    /\ Go(c, IF Active THEN "stop" ELSE "open")
    /\ UNCHANGED <<unitVars, binVars, dbVars, configVars, inputs, stopped, ver, answer, excused>>

StopService(c) ==
    /\ at[c] = "stop" /\ SystemctlStop /\ excused' = FALSE
    /\ stopped' = [stopped EXCEPT ![c] = TRUE] /\ Go(c, "open")
    /\ UNCHANGED <<binVars, dbOwner, admin, configVars, inputs, ver, answer>>

\* systemctl refuses a caller who is not root.
StopRefused(c) ==
    /\ at[c] = "stop" /\ Go(c, "done") /\ Report(c, "failed")
    /\ UNCHANGED <<unitVars, binVars, dbVars, configVars, inputs, stopped, ver, excused>>

\* Offline the open waits for the lock; import always gives up after three seconds.
Waits(c) == offline[c] /\ op[c] # "import"

OpenStore(c) ==
    /\ at[c] = "open" /\ Go(c, "work")
    /\ \E user \in IF offline[c] THEN {"root"} ELSE {"root", "nitpub"} :
          ConfigLoads(user = "root") /\ OpenWithTimeout(c, user)
    /\ UNCHANGED <<unitVars, binVars, admin, configVars, inputs, stopped, ver, answer, excused>>

\* Mutant: the service is left down on an error.
LeaveItDown(c) ==
    /\ at[c] = "open" /\ Go(c, "done") /\ Report(c, "failed")
    /\ stopped' = [stopped EXCEPT ![c] = FALSE]
    /\ UNCHANGED <<unitVars, binVars, dbVars, configVars, inputs, ver, excused>>

\* The config does not load, the directory is not writable, the file does not open.
OpenFails(c) ==
    /\ at[c] = "open" /\ Cleanup(c) /\ Report(c, "failed")
    /\ UNCHANGED <<unitVars, binVars, dbVars, configVars, inputs, stopped, ver, excused>>

OpenMustFail(c) == (~ConfigLoads(TRUE) \/ (lock # Free /\ ~Waits(c))) /\ OpenFails(c)

\* init creates the account, or replaces it with --force.
InitAdmin(c) ==
    \/ op[c] = "init" /\ admin = "absent" /\ admin' = "written" /\ Report(c, "ok")
    \/ op[c] = "init" /\ admin # "absent" /\ UNCHANGED admin /\ Report(c, "exists")
    \/ op[c] = "force" /\ admin' = "forced" /\ Report(c, "ok")

AdminStatusOf(c) ==
    /\ op[c] = "status" /\ UNCHANGED admin
    /\ Report(c, IF admin = "absent" THEN "missing" ELSE "configured")

\* Password, TOTP, passkeys, backup codes and the reset need an account and keep it.
AccountCommand(c) ==
    /\ op[c] = "account" /\ UNCHANGED admin
    /\ Report(c, IF admin = "absent" THEN "failed" ELSE "ok")

TelemetryCommand(c) == op[c] = "telemetry" /\ UNCHANGED admin /\ Report(c, "ok")
FederationCommand(c) == op[c] = "federation" /\ UNCHANGED admin /\ Report(c, "ok")
ImportCommand(c) == op[c] = "import" /\ UNCHANGED admin /\ Report(c, "ok")

\* The work, which may fail, and the close that follows it on every path.
Work(c) ==
    /\ at[c] = "work"
    /\ \/ InitAdmin(c) \/ AdminStatusOf(c) \/ AccountCommand(c)
       \/ TelemetryCommand(c) \/ FederationCommand(c) \/ ImportCommand(c)
       \/ UNCHANGED admin /\ Report(c, "failed")
    /\ lock' = Free /\ Cleanup(c)
    /\ UNCHANGED <<unitVars, binVars, dbOwner, configVars, inputs, stopped, ver, excused>>

\* Mutant: the start is forgotten.
ForgetRestart(c) ==
    /\ at[c] = "restart"
    /\ UNCHANGED <<svc, svcBin, excused, unit, lock>>
    /\ stopped' = [stopped EXCEPT ![c] = FALSE] /\ Go(c, "done")
    /\ UNCHANGED <<binVars, dbOwner, admin, configVars, inputs, ver, answer>>

\* An error of systemctl start is not reported.
RestartService(c) ==
    /\ at[c] = "restart"
    /\ SystemctlStart \/ (excused' = TRUE /\ UNCHANGED <<unitVars, lock>>)
    /\ stopped' = [stopped EXCEPT ![c] = FALSE] /\ Go(c, "done")
    /\ UNCHANGED <<binVars, dbOwner, admin, configVars, inputs, ver, answer>>

-----------------------------------------------------------------------------
(* nitpub update --apply *)
Publish ==
    /\ latest < MaxRelease /\ latest' = latest + 1
    /\ UNCHANGED <<unitVars, bin, dbVars, configVars, cmdVars, excused>>

\* The release feed names another release than the command's own.
NewRelease(c) == latest # ver[c]

\* The binary of that release, whose checksum is the published one.
DownloadVerified(c) == ver' = [ver EXCEPT ![c] = latest] /\ Go(c, "install") /\ UNCHANGED answer

Fetch(c) ==
    /\ at[c] = "fetch"
    /\ \/ NewRelease(c) /\ DownloadVerified(c)
       \/ Go(c, "done") /\ Report(c, IF NewRelease(c) THEN "failed" ELSE "ok") /\ UNCHANGED ver
    /\ UNCHANGED <<unitVars, binVars, dbVars, configVars, inputs, stopped, excused>>

\* Mutant: the binary is replaced and the service left on the old one.
InstallOnly(c) ==
    /\ at[c] = "install" /\ bin' = ver[c] /\ Go(c, "done") /\ Report(c, "ok")
    /\ UNCHANGED <<unitVars, latest, dbVars, configVars, inputs, stopped, ver, excused>>

InstallBinary(c) ==
    /\ at[c] = "install"
    /\ \/ bin' = ver[c] /\ Go(c, "reload") /\ UNCHANGED answer
       \/ Go(c, "done") /\ Report(c, "failed") /\ UNCHANGED bin
    /\ UNCHANGED <<unitVars, latest, dbVars, configVars, inputs, stopped, ver, excused>>

ReloadBinary(c) ==
    /\ at[c] = "reload" /\ SystemctlRestart /\ Go(c, "done") /\ Report(c, "ok")
    /\ UNCHANGED <<binVars, dbOwner, admin, configVars, inputs, stopped, ver>>

\* The new binary stays installed, and a second update finds nothing to do.
ReloadFails(c) ==
    /\ at[c] = "reload" /\ excused' = TRUE /\ Go(c, "done") /\ Report(c, "failed")
    /\ UNCHANGED <<unitVars, binVars, dbVars, configVars, inputs, stopped, ver>>

-----------------------------------------------------------------------------
\* A command that has stopped the service or replaced its binary owes it a start.
Owes(c) == stopped[c] \/ at[c] = "reload"

Kill(c) ==
    /\ at[c] \notin {"new", "done"} /\ Go(c, "done") /\ Report(c, "failed")
    /\ lock' = IF lock = c THEN Free ELSE lock
    /\ stopped' = [stopped EXCEPT ![c] = FALSE] /\ excused' = (excused \/ Owes(c))
    /\ UNCHANGED <<unitVars, binVars, dbOwner, admin, configVars, inputs, ver>>

\* What a running command does next, if nobody kills it and nothing fails.
Proceed(c) ==
    \/ Probe(c) \/ StopService(c) \/ StopRefused(c) \/ OpenStore(c) \/ OpenMustFail(c)
    \/ Work(c) \/ RestartService(c) \/ Fetch(c) \/ InstallBinary(c) \/ ReloadBinary(c)
    \/ ReloadFails(c)

CommandStep(c) == Proceed(c) \/ OpenFails(c) \/ Kill(c)

-----------------------------------------------------------------------------
(* The service is down only while a command that stopped it is still at it. *)
DownIsOwed == svc = "inactive" => excused \/ \E c \in Cmd : Owes(c)

(* The service runs the installed binary, or an update is about to restart it. *)
RunsInstalled == Active /\ svcBin # bin => excused \/ \E c \in Cmd : at[c] = "reload"

(* However commands overlap, whatever the service lacks some command still owes it. *)
CommandsOwe == DownIsOwed /\ RunsInstalled

(* A service that a command stopped comes back. *)
ServiceReturns == svc = "inactive" ~> (svc # "inactive" \/ excused)
=============================================================================
