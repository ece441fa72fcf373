------------------------------- MODULE Install -------------------------------
(***************************************************************************)
(* nitpub install: a run of steps, each skipped when its result is there   *)
(* already, each of which may fail and end the run.  The run is meant to   *)
(* be repeated until it ends well.  Three of its steps are commands of the *)
(* host (admin status, admin init, telemetry enable, all --offline), so an *)
(* installation meets the service it has just started and whatever else    *)
(* the administrator runs.  The installer runs as root.                    *)
(***************************************************************************)
EXTENDS Host

CONSTANTS
    Child,       \* the process the installer starts its commands in
    Ops,         \* commands the administrator runs meanwhile
    Prepared,    \* what may have been made by hand before
    GateChoices, \* sets of optional gates an administrator may say yes to
    MaxRuns      \* bound: runs of the installer

Gate == {"caddy", "federation", "analytics", "telemetry", "no doctor"}

ASSUME InstallAssumption ==
    /\ Child \in Cmd /\ Ops \subseteq Op
    /\ Prepared \subseteq SUBSET {"admin", "config", "broken", "block", "site"}
    /\ GateChoices \subseteq SUBSET Gate /\ MaxRuns \in Nat

VARIABLES
    ipc,        \* the installer's next step
    gates,      \* the gates of this run
    runs,       \* runs begun
    blocks,     \* site blocks for the domain in the Caddyfile
    site,       \* where site.toml comes from
    analytics,  \* config.toml has the analytics keys
    chowned,    \* history: the chown at the end of the last run took effect
    installed   \* the last run ended well

runVars == <<gates, runs>>
filesVars == <<blocks, site, analytics>>
installerVars == <<ipc, runVars, filesVars, chowned, installed>>
vars == <<hostVars, installerVars>>

\* The steps in the order runInstall takes them.
InstallerStep ==
    {"idle", "data", "config", "unit", "enable", "caddy", "reload caddy", "federation",
     "analytics", "telemetry", "telemetry runs", "status", "status runs", "init",
     "init runs", "chown", "doctor"}

InstallerTypeOK ==
    /\ ipc \in InstallerStep /\ gates \in SUBSET Gate /\ runs \in 0..MaxRuns
    /\ blocks \in {0, 1} /\ site \in Origin /\ analytics \in BOOLEAN
    /\ chowned \in BOOLEAN /\ installed \in BOOLEAN

InstallTypeOK == TypeOK /\ InstallerTypeOK

-----------------------------------------------------------------------------
To(step) == ipc' = step /\ UNCHANGED <<runVars, chowned, installed>>

\* Every step but the start can fail, and ends the run when it does.
Fail ==
    /\ ipc \notin {"idle", "telemetry runs", "status runs", "init runs"} /\ To("idle")
    /\ UNCHANGED <<hostVars, filesVars>>

Begin(choice) ==
    /\ ipc = "idle" /\ runs < MaxRuns
    /\ ipc' = "data" /\ gates' = choice /\ runs' = runs + 1
    /\ chowned' = FALSE /\ installed' = FALSE
    /\ UNCHANGED <<hostVars, filesVars>>

\* The directory and everything in it is given to the service's user, but neither a
\* chown that fails nor a user that is not found is an error.
EnsureDataDir(taken) ==
    dbOwner' = IF taken /\ dbOwner # "absent" THEN "nitpub" ELSE dbOwner

EnsureSystemUserAndData ==
    /\ ipc = "data" /\ (\E taken \in BOOLEAN : EnsureDataDir(taken)) /\ To("config")
    /\ UNCHANGED <<unitVars, binVars, lock, admin, configVars, cmdVars, excused, filesVars>>

\* Mutant: a config that is there is written again.
OverwriteConfig ==
    /\ ipc = "config" /\ config' = "written" /\ readable' = TRUE /\ To("unit")
    /\ UNCHANGED <<unitVars, binVars, dbVars, cmdVars, excused, filesVars>>

\* When the file cannot be installed as root:nitpub it is installed as root's alone.
WriteConfigIfMissing ==
    \/ config' = "written" /\ readable' = TRUE
    \/ config' = "plain" /\ readable' = FALSE

WriteConfigStep ==
    /\ ipc = "config"
    /\ \/ config # "absent" /\ UNCHANGED configVars
       \/ config = "absent" /\ WriteConfigIfMissing
    /\ To("unit")
    /\ UNCHANGED <<unitVars, binVars, dbVars, cmdVars, excused, filesVars>>

WriteUnit ==
    /\ ipc = "unit" /\ unit' = TRUE /\ To("enable")
    /\ UNCHANGED <<svc, svcBin, binVars, dbVars, configVars, cmdVars, excused, filesVars>>

EnableNow ==
    /\ ipc = "enable" /\ SystemctlStart /\ To("caddy")
    /\ UNCHANGED <<binVars, dbOwner, admin, configVars, cmdVars, filesVars>>

\* Mutant: the block is appended whether or not there is one.
AppendAgain ==
    /\ ipc = "caddy" /\ "caddy" \in gates
    /\ blocks' = blocks + 1 /\ To("reload caddy")
    /\ UNCHANGED <<hostVars, site, analytics>>

SiteBlockPresent == blocks > 0

AppendSiteBlock ==
    /\ ipc = "caddy" /\ "caddy" \in gates /\ ~SiteBlockPresent
    /\ blocks' = 1 /\ To("reload caddy")
    /\ UNCHANGED <<hostVars, site, analytics>>

\* A block that is there already also skips the validation and the reload.
CaddySkipped ==
    /\ ipc = "caddy" /\ ("caddy" \notin gates \/ SiteBlockPresent) /\ To("federation")
    /\ UNCHANGED <<hostVars, filesVars>>

ValidateAndReload ==
    /\ ipc = "reload caddy" /\ To("federation")
    /\ UNCHANGED <<hostVars, filesVars>>

EnsureFederationSiteTOML == site' = IF site = "absent" THEN "written" ELSE site

EnsureFederationStep ==
    /\ ipc = "federation" /\ To("analytics")
    /\ IF "federation" \in gates THEN EnsureFederationSiteTOML ELSE UNCHANGED site
    /\ UNCHANGED <<hostVars, blocks, analytics>>

ScaffoldAnalytics == ~analytics /\ analytics' = TRUE

\* The config is installed anew with the keys appended, as root's alone.
EnsureAnalyticsStep ==
    /\ ipc = "analytics" /\ To("telemetry")
    /\ IF "analytics" \in gates /\ ~analytics THEN ScaffoldAnalytics /\ readable' = FALSE
       ELSE UNCHANGED <<analytics, readable>>
    /\ UNCHANGED <<unitVars, binVars, dbVars, config, cmdVars, excused, blocks, site>>

\* A command of the installer: it probes, stops the service, opens, works, restarts.
Spawn(o) ==
    /\ Go(Child, "probe") /\ op' = [op EXCEPT ![Child] = o]
    /\ offline' = [offline EXCEPT ![Child] = TRUE] /\ Report(Child, "none")
    /\ UNCHANGED <<unitVars, binVars, dbVars, configVars, stopped, ver, excused, filesVars>>

ChildEnded == at[Child] = "done" /\ UNCHANGED <<hostVars, filesVars>>

TelemetryGate ==
    /\ ipc = "telemetry" /\ "telemetry" \in gates /\ Spawn("telemetry") /\ To("telemetry runs")

TelemetryDeclined ==
    /\ ipc = "telemetry" /\ "telemetry" \notin gates /\ To("status")
    /\ UNCHANGED <<hostVars, filesVars>>

\* A telemetry command that fails is only warned about.
TelemetryEnabled == ipc = "telemetry runs" /\ ChildEnded /\ To("status")

AdminStatus == ipc = "status" /\ Spawn("status") /\ To("status runs")

AdminStatusRead ==
    /\ ipc = "status runs" /\ ChildEnded
    /\ To(IF answer[Child] = "configured" THEN "chown" ELSE "init")

AdminInit == ipc = "init" /\ Spawn("init") /\ To("init runs")

\* Mutant: a failed init is not looked at.
AdminInitIgnored == ipc = "init runs" /\ ChildEnded /\ To("chown")

\* An account that exists by now is as good.
AdminInitRead ==
    /\ ipc = "init runs" /\ ChildEnded
    /\ To(IF answer[Child] \in {"ok", "exists"} THEN "chown" ELSE "idle")

\* The commands ran as root: what they created goes back to the service's user.
RechownDataDir ==
    /\ ipc = "chown" /\ ipc' = "doctor"
    /\ \E taken \in BOOLEAN : EnsureDataDir(taken) /\ chowned' = taken
    /\ UNCHANGED <<runVars, installed>>
    /\ UNCHANGED <<unitVars, binVars, lock, admin, configVars, cmdVars, excused, filesVars>>

\* The checks that can fail: the keys of the config and, after an install, the unit.
Healthy == ConfigComplete /\ Active

Doctor ==
    /\ ipc = "doctor" /\ ("no doctor" \in gates \/ Healthy)
    /\ ipc' = "idle" /\ installed' = TRUE
    /\ UNCHANGED <<hostVars, runVars, filesVars, chowned>>

Install ==
    \/ EnsureSystemUserAndData \/ WriteConfigStep \/ WriteUnit \/ EnableNow
    \/ AppendSiteBlock \/ CaddySkipped \/ ValidateAndReload
    \/ EnsureFederationStep \/ EnsureAnalyticsStep
    \/ TelemetryGate \/ TelemetryDeclined \/ TelemetryEnabled
    \/ AdminStatus \/ AdminStatusRead \/ AdminInit \/ AdminInitRead \/ RechownDataDir \/ Doctor

-----------------------------------------------------------------------------
OwnIf(made) == IF made THEN "own" ELSE "absent"

\* What the host may hold before: nothing, or files and an account made by hand.
Init ==
    /\ unit = FALSE /\ svc = "none" /\ svcBin = 0 /\ bin = 0 /\ latest = 0
    /\ lock = Free
    /\ \E made \in Prepared :
          /\ admin = OwnIf("admin" \in made)
          /\ dbOwner = IF "admin" \in made THEN "nitpub" ELSE "absent"
          /\ config = IF "broken" \in made THEN "broken" ELSE OwnIf("config" \in made)
          /\ readable = (config # "absent")
          /\ site = OwnIf("site" \in made) /\ blocks = IF "block" \in made THEN 1 ELSE 0
    /\ at = [c \in Cmd |-> IF c = Child THEN "done" ELSE "new"] /\ op = [c \in Cmd |-> "status"]
    /\ offline = [c \in Cmd |-> FALSE] /\ stopped = [c \in Cmd |-> FALSE]
    /\ ver = [c \in Cmd |-> 0] /\ answer = [c \in Cmd |-> "none"] /\ excused = FALSE
    /\ ipc = "idle" /\ gates = {} /\ runs = 0
    /\ analytics = FALSE /\ chowned = FALSE /\ installed = FALSE

ByHand == \E c \in Cmd \ {Child}, o \in Ops, off \in BOOLEAN : Invoke(c, o, off)

HostStep == ServiceStep \/ Publish \/ ByHand \/ \E c \in Cmd : CommandStep(c)

Next ==
    \/ HostStep /\ UNCHANGED installerVars
    \/ (\E choice \in GateChoices : Begin(choice)) \/ Install \/ Fail

Spec == Init /\ [][Next]_vars

\* systemd retries and starts; a command that was begun and not killed runs on.
FairSpec ==
    /\ Spec
    /\ WF_vars((Boot \/ BootFails) /\ UNCHANGED installerVars)
    /\ WF_vars(Retry /\ UNCHANGED installerVars)
    /\ \A c \in Cmd : WF_vars(Proceed(c) /\ UNCHANGED installerVars)

-----------------------------------------------------------------------------
(* "Re-runs are lossless: existing config, Caddy site blocks, and site.toml are skipped *)
(* rather than overwritten": nor is an account replaced but by admin init --force.     *)
Lossless ==
    [][/\ config # "absent" => config' = config
       /\ site # "absent" => site' = site
       /\ blocks > 0 => blocks' = blocks
       /\ analytics => analytics'
       /\ admin # "absent" /\ admin' # admin =>
             \E c \in Cmd \ {Child} : at[c] = "work" /\ op[c] = "force"]_vars

(* After a run that ended well everything the run was asked for is there, whichever *)
(* steps earlier runs ended in; the service's user owns the database unless the     *)
(* chown at the end failed, which the run does not hear of.                         *)
InstalledIsWhole ==
    installed =>
        /\ ConfigComplete /\ unit /\ admin # "absent"
        /\ dbOwner # "absent" /\ (chowned => dbOwner = "nitpub")
        /\ "caddy" \in gates => blocks = 1
        /\ "federation" \in gates => site # "absent"
        /\ "analytics" \in gates => analytics

(* "Copy to /etc/nitpub/config.toml on your server (mode 640, root:<system_user>)": *)
(* the service's user can read a config that was there or was written so.          *)
ConfigReadable == config \in {"own", "written"} => readable
=============================================================================
