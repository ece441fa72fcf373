---------------------------- MODULE InstallProofs ----------------------------
(***************************************************************************)
(* The host and its installer, for any number of commands, releases and    *)
(* runs.  Every step keeps the types; a service that is down, or that runs *)
(* an old binary, has a command that owes it a start; and each step of the *)
(* installer leaves what the next ones build on.                           *)
(***************************************************************************)
EXTENDS Install, TLAPS

Waiting == {"telemetry runs", "status runs", "init runs"}

\* Only a command between its stop and its restart has stopped the service.
StoppedWhere == \A c \in Cmd : stopped[c] => at[c] \in {"open", "work", "restart"}

\* The installer's process runs only while the installer waits for it.
ChildIdle == ipc \notin Waiting => at[Child] = "done"

Duties == StoppedWhere /\ ChildIdle /\ DownIsOwed /\ RunsInstalled

UnitWritten == InstallerStep \ {"idle", "data", "config", "unit"}
CaddyDone == UnitWritten \ {"enable", "caddy"}
FederationDone == CaddyDone \ {"reload caddy", "federation"}
AnalyticsDone == FederationDone \ {"analytics"}

\* What the child's good answers say.
Confirmed ==
    \/ op[Child] = "status" /\ answer[Child] = "configured"
    \/ op[Child] = "init" /\ answer[Child] \in {"ok", "exists"}

Opened == \A c \in Cmd : at[c] = "work" => ConfigComplete /\ dbOwner # "absent"

ChildOps ==
    /\ op[Child] \in {"status", "init", "telemetry"}
    /\ at[Child] \notin {"fetch", "install", "reload"}
    /\ ipc = "status runs" => op[Child] = "status"
    /\ ipc = "init runs" => op[Child] = "init"

Built ==
    /\ ipc \in UnitWritten => unit
    /\ ipc \in CaddyDone /\ "caddy" \in gates => blocks = 1
    /\ ipc \in FederationDone /\ "federation" \in gates => site # "absent"
    /\ ipc \in AnalyticsDone /\ "analytics" \in gates => analytics
    /\ ipc \in {"chown", "doctor"} => ConfigComplete /\ admin # "absent"
    /\ ipc = "doctor" => dbOwner # "absent" /\ (chowned => dbOwner = "nitpub")

Answers ==
    /\ Opened /\ ChildOps
    /\ Confirmed => ConfigComplete /\ admin # "absent"
    /\ admin # "absent" => dbOwner # "absent"

Grounds == Built /\ InstalledIsWhole

-----------------------------------------------------------------------------
(* Types. *)
LEMMA Names ==
    /\ "inactive" \in SvcState /\ "starting" \in SvcState /\ "running" \in SvcState
    /\ "backoff" \in SvcState
    /\ "written" \in Origin /\ "plain" \in Origin /\ "forced" \in Origin
    /\ "telemetry" \in Op /\ "status" \in Op /\ "init" \in Op
    /\ "probe" \in Step /\ "stop" \in Step /\ "open" \in Step /\ "work" \in Step
    /\ "restart" \in Step /\ "fetch" \in Step /\ "install" \in Step
    /\ "reload" \in Step /\ "done" \in Step
    /\ "none" \in Answer /\ "ok" \in Answer /\ "failed" \in Answer
    /\ "configured" \in Answer /\ "missing" \in Answer /\ "exists" \in Answer
    /\ Ops \subseteq Op /\ Child \in Cmd /\ Service \notin Cmd /\ Free \notin Cmd
BY HostAssumption, InstallAssumption DEF SvcState, Origin, Op, Step, Answer

LEMMA StepNames ==
    /\ "idle" \in InstallerStep /\ "data" \in InstallerStep /\ "config" \in InstallerStep
    /\ "unit" \in InstallerStep /\ "enable" \in InstallerStep /\ "caddy" \in InstallerStep
    /\ "reload caddy" \in InstallerStep /\ "federation" \in InstallerStep
    /\ "analytics" \in InstallerStep /\ "telemetry" \in InstallerStep
    /\ "telemetry runs" \in InstallerStep /\ "status" \in InstallerStep
    /\ "status runs" \in InstallerStep /\ "init" \in InstallerStep
    /\ "init runs" \in InstallerStep /\ "chown" \in InstallerStep
    /\ "doctor" \in InstallerStep
BY DEF InstallerStep

LEMMA RunsBound == MaxRuns \in Nat /\ GateChoices \subseteq SUBSET Gate
BY InstallAssumption

LEMMA HostTypesKept ==
    ASSUME TypeOK, [Next]_vars
    PROVE TypeOK'
<1>1. CASE HostStep /\ UNCHANGED installerVars
  <2>1. CASE Boot
    BY <1>1, <2>1, Names DEF Boot, ConfigLoads, ConfigComplete, OpenWithTimeout, TypeOK,
       hostVars, unitVars, binVars, dbVars, configVars, inputs, cmdVars, installerVars,
       runVars, filesVars
  <2>2. CASE BootFails
    BY <1>1, <2>2, Names DEF BootFails, TypeOK, hostVars, unitVars, binVars, dbVars,
       configVars, inputs, cmdVars, installerVars, runVars, filesVars
  <2>3. CASE Crash
    BY <1>1, <2>3, Names DEF Crash, TypeOK, hostVars, unitVars, binVars, dbVars, configVars,
       inputs, cmdVars, installerVars, runVars, filesVars
  <2>4. CASE Retry
    BY <1>1, <2>4, Names DEF Retry, TypeOK, hostVars, unitVars, binVars, dbVars, configVars,
       inputs, cmdVars, installerVars, runVars, filesVars
  <2>5. CASE StartByHand
    BY <1>1, <2>5, Names DEF StartByHand, SystemctlStart, Active, TypeOK, hostVars,
       unitVars, binVars, dbVars, configVars, inputs, cmdVars, installerVars, runVars,
       filesVars
  <2>6. CASE StopByHand
    BY <1>1, <2>6, Names DEF StopByHand, SystemctlStop, ServiceReleases, TypeOK, hostVars,
       unitVars, binVars, dbVars, configVars, inputs, cmdVars, installerVars, runVars,
       filesVars
  <2>7. CASE Publish
    BY <1>1, <2>7, Names, HostAssumption DEF Publish, Release, TypeOK, hostVars, unitVars,
       binVars, dbVars, configVars, inputs, cmdVars, installerVars, runVars, filesVars
  <2>8. CASE ByHand
    <3>1. PICK c \in Cmd \ {Child}, o \in Ops, off \in BOOLEAN : Invoke(c, o, off)
      BY <2>8 DEF ByHand
    <3>2. QED
      BY <1>1, <3>1, Names DEF Invoke, Go, Report, TypeOK, hostVars, unitVars, binVars,
         dbVars, configVars, inputs, cmdVars, installerVars, runVars, filesVars
  <2>9. ASSUME NEW c \in Cmd, CommandStep(c) PROVE TypeOK'
    <3>1. CASE Probe(c)
      BY <1>1, <3>1, Names DEF Probe, Go, Active, TypeOK, hostVars, unitVars, binVars,
         dbVars, configVars, inputs, cmdVars, installerVars, runVars, filesVars
    <3>2. CASE StopService(c)
      BY <1>1, <3>2, Names DEF StopService, Go, SystemctlStop, ServiceReleases, TypeOK,
         hostVars, unitVars, binVars, dbVars, configVars, inputs, cmdVars, installerVars,
         runVars, filesVars
    <3>3. CASE StopRefused(c)
      BY <1>1, <3>3, Names DEF StopRefused, Go, Report, TypeOK, hostVars, unitVars, binVars,
         dbVars, configVars, inputs, cmdVars, installerVars, runVars, filesVars
    <3>4. CASE OpenStore(c)
      BY <1>1, <3>4, Names DEF OpenStore, Go, ConfigLoads, ConfigComplete, OpenWithTimeout,
         TypeOK, hostVars, unitVars, binVars, dbVars, configVars, inputs, cmdVars,
         installerVars, runVars, filesVars
    <3>5. CASE OpenFails(c)
      BY <1>1, <3>5, Names DEF OpenFails, Go, Cleanup, Report, TypeOK, hostVars, unitVars,
         binVars, dbVars, configVars, inputs, cmdVars, installerVars, runVars, filesVars
    <3>6. CASE Work(c)
      BY <1>1, <3>6, Names DEF Work, Go, InitAdmin, AdminStatusOf, AccountCommand,
         TelemetryCommand, FederationCommand, ImportCommand, Cleanup, Report, TypeOK,
         hostVars, unitVars, binVars, dbVars, configVars, inputs, cmdVars, installerVars,
         runVars, filesVars
    <3>7. CASE RestartService(c)
      BY <1>1, <3>7, Names DEF RestartService, Go, SystemctlStart, Active, TypeOK, hostVars,
         unitVars, binVars, dbVars, configVars, inputs, cmdVars, installerVars, runVars,
         filesVars
    <3>8. CASE Fetch(c)
      BY <1>1, <3>8, Names DEF Fetch, Go, NewRelease, DownloadVerified, Report, TypeOK,
         hostVars, unitVars, binVars, dbVars, configVars, inputs, cmdVars, installerVars,
         runVars, filesVars
    <3>9. CASE InstallBinary(c)
      BY <1>1, <3>9, Names DEF InstallBinary, Go, Report, TypeOK, hostVars, unitVars,
         binVars, dbVars, configVars, inputs, cmdVars, installerVars, runVars, filesVars
    <3>10. CASE ReloadBinary(c)
      BY <1>1, <3>10, Names DEF ReloadBinary, Go, SystemctlRestart, ServiceReleases, Report,
         TypeOK, hostVars, unitVars, binVars, dbVars, configVars, inputs, cmdVars,
         installerVars, runVars, filesVars
    <3>11. CASE ReloadFails(c)
      BY <1>1, <3>11, Names DEF ReloadFails, Go, Report, TypeOK, hostVars, unitVars,
         binVars, dbVars, configVars, inputs, cmdVars, installerVars, runVars, filesVars
    <3>12. CASE Kill(c)
      BY <1>1, <3>12, Names DEF Kill, Go, Owes, Report, TypeOK, hostVars, unitVars, binVars,
         dbVars, configVars, inputs, cmdVars, installerVars, runVars, filesVars
    <3> QED
      BY <2>9, <3>1, <3>2, <3>3, <3>4, <3>5, <3>6, <3>7, <3>8, <3>9, <3>10, <3>11, <3>12
         DEF CommandStep, Proceed, OpenMustFail
  <2> QED
    BY <1>1, <2>1, <2>2, <2>3, <2>4, <2>5, <2>6, <2>7, <2>8, <2>9 DEF HostStep, ServiceStep
<1>2. CASE \E choice \in GateChoices : Begin(choice)
  <2>1. PICK choice \in GateChoices : Begin(choice)
    BY <1>2
  <2>2. QED
    BY <2>1, Names DEF Begin, TypeOK, hostVars, unitVars, binVars, dbVars, configVars,
       inputs, cmdVars, installerVars, runVars, filesVars
<1>3. CASE EnsureSystemUserAndData
  BY <1>3, Names DEF EnsureSystemUserAndData, To, EnsureDataDir, TypeOK, hostVars, unitVars,
     binVars, dbVars, configVars, inputs, cmdVars, installerVars, runVars, filesVars
<1>4. CASE WriteConfigStep
  BY <1>4, Names DEF WriteConfigStep, To, WriteConfigIfMissing, TypeOK, hostVars, unitVars,
     binVars, dbVars, configVars, inputs, cmdVars, installerVars, runVars, filesVars
<1>5. CASE WriteUnit
  BY <1>5, Names DEF WriteUnit, To, TypeOK, hostVars, unitVars, binVars, dbVars, configVars,
     inputs, cmdVars, installerVars, runVars, filesVars
<1>6. CASE EnableNow
  BY <1>6, Names DEF EnableNow, To, SystemctlStart, Active, TypeOK, hostVars, unitVars,
     binVars, dbVars, configVars, inputs, cmdVars, installerVars, runVars, filesVars
<1>7. CASE AppendSiteBlock
  BY <1>7, Names DEF AppendSiteBlock, To, SiteBlockPresent, TypeOK, hostVars, unitVars,
     binVars, dbVars, configVars, inputs, cmdVars, installerVars, runVars, filesVars
<1>8. CASE CaddySkipped
  BY <1>8, Names DEF CaddySkipped, To, SiteBlockPresent, TypeOK, hostVars, unitVars,
     binVars, dbVars, configVars, inputs, cmdVars, installerVars, runVars, filesVars
<1>9. CASE ValidateAndReload
  BY <1>9, Names DEF ValidateAndReload, To, TypeOK, hostVars, unitVars, binVars, dbVars,
     configVars, inputs, cmdVars, installerVars, runVars, filesVars
<1>10. CASE EnsureFederationStep
  BY <1>10, Names DEF EnsureFederationStep, To, EnsureFederationSiteTOML, TypeOK, hostVars,
     unitVars, binVars, dbVars, configVars, inputs, cmdVars, installerVars, runVars,
     filesVars
<1>11. CASE EnsureAnalyticsStep
  BY <1>11, Names DEF EnsureAnalyticsStep, To, ScaffoldAnalytics, TypeOK, hostVars,
     unitVars, binVars, dbVars, configVars, inputs, cmdVars, installerVars, runVars,
     filesVars
<1>12. CASE TelemetryGate
  BY <1>12, Names DEF TelemetryGate, To, Go, Spawn, Report, TypeOK, hostVars, unitVars,
     binVars, dbVars, configVars, inputs, cmdVars, installerVars, runVars, filesVars
<1>13. CASE TelemetryDeclined
  BY <1>13, Names DEF TelemetryDeclined, To, TypeOK, hostVars, unitVars, binVars, dbVars,
     configVars, inputs, cmdVars, installerVars, runVars, filesVars
<1>14. CASE TelemetryEnabled
  BY <1>14, Names DEF TelemetryEnabled, To, ChildEnded, TypeOK, hostVars, unitVars, binVars,
     dbVars, configVars, inputs, cmdVars, installerVars, runVars, filesVars
<1>15. CASE AdminStatus
  BY <1>15, Names DEF AdminStatus, To, Go, Spawn, Report, TypeOK, hostVars, unitVars,
     binVars, dbVars, configVars, inputs, cmdVars, installerVars, runVars, filesVars
<1>16. CASE AdminStatusRead
  BY <1>16, Names DEF AdminStatusRead, To, ChildEnded, TypeOK, hostVars, unitVars, binVars,
     dbVars, configVars, inputs, cmdVars, installerVars, runVars, filesVars
<1>17. CASE AdminInit
  BY <1>17, Names DEF AdminInit, To, Go, Spawn, Report, TypeOK, hostVars, unitVars, binVars,
     dbVars, configVars, inputs, cmdVars, installerVars, runVars, filesVars
<1>18. CASE AdminInitRead
  BY <1>18, Names DEF AdminInitRead, To, ChildEnded, TypeOK, hostVars, unitVars, binVars,
     dbVars, configVars, inputs, cmdVars, installerVars, runVars, filesVars
<1>19. CASE RechownDataDir
  BY <1>19, Names DEF RechownDataDir, To, EnsureDataDir, TypeOK, hostVars, unitVars,
     binVars, dbVars, configVars, inputs, cmdVars, installerVars, runVars, filesVars
<1>20. CASE Doctor
  BY <1>20, Names DEF Doctor, To, Healthy, ConfigComplete, Active, TypeOK, hostVars,
     unitVars, binVars, dbVars, configVars, inputs, cmdVars, installerVars, runVars,
     filesVars
<1>21. CASE Fail
  BY <1>21, Names DEF Fail, To, TypeOK, hostVars, unitVars, binVars, dbVars, configVars,
     inputs, cmdVars, installerVars, runVars, filesVars
<1>22. CASE UNCHANGED vars
  BY <1>22, Names DEF vars, TypeOK, hostVars, unitVars, binVars, dbVars, configVars, inputs,
     cmdVars, installerVars, runVars, filesVars
<1> QED
  BY <1>1, <1>2, <1>3, <1>4, <1>5, <1>6, <1>7, <1>8, <1>9, <1>10, <1>11, <1>12, <1>13,
     <1>14, <1>15, <1>16, <1>17, <1>18, <1>19, <1>20, <1>21, <1>22 DEF Next, Install

LEMMA InstallerTypesKept ==
    ASSUME InstallerTypeOK, [Next]_vars
    PROVE InstallerTypeOK'
<1>1. CASE HostStep /\ UNCHANGED installerVars
  BY <1>1, StepNames DEF InstallerTypeOK, installerVars, runVars, filesVars
<1>2. CASE \E choice \in GateChoices : Begin(choice)
  <2>1. PICK choice \in GateChoices : Begin(choice)
    BY <1>2
  <2>2. gates' \in SUBSET Gate
    BY <2>1, RunsBound DEF Begin
  <2>3. runs' \in 0..MaxRuns
    BY <2>1, RunsBound DEF Begin, InstallerTypeOK
  <2>4. QED
    BY <2>1, <2>2, <2>3, StepNames DEF Begin, InstallerTypeOK, hostVars, unitVars, binVars,
       dbVars, configVars, inputs, cmdVars, filesVars
<1>3. CASE EnsureSystemUserAndData
  BY <1>3, StepNames DEF EnsureSystemUserAndData, To, EnsureDataDir, InstallerTypeOK,
     hostVars, unitVars, binVars, dbVars, configVars, inputs, cmdVars, installerVars,
     runVars, filesVars
<1>4. CASE WriteConfigStep
  BY <1>4, StepNames DEF WriteConfigStep, To, WriteConfigIfMissing, InstallerTypeOK,
     hostVars, unitVars, binVars, dbVars, configVars, inputs, cmdVars, installerVars,
     runVars, filesVars
<1>5. CASE WriteUnit
  BY <1>5, StepNames DEF WriteUnit, To, InstallerTypeOK, hostVars, unitVars, binVars,
     dbVars, configVars, inputs, cmdVars, installerVars, runVars, filesVars
<1>6. CASE EnableNow
  BY <1>6, StepNames DEF EnableNow, To, SystemctlStart, Active, InstallerTypeOK, hostVars,
     unitVars, binVars, dbVars, configVars, inputs, cmdVars, installerVars, runVars,
     filesVars
<1>7. CASE AppendSiteBlock
  BY <1>7, StepNames DEF AppendSiteBlock, To, SiteBlockPresent, InstallerTypeOK, hostVars,
     unitVars, binVars, dbVars, configVars, inputs, cmdVars, installerVars, runVars,
     filesVars
<1>8. CASE CaddySkipped
  BY <1>8, StepNames DEF CaddySkipped, To, SiteBlockPresent, InstallerTypeOK, hostVars,
     unitVars, binVars, dbVars, configVars, inputs, cmdVars, installerVars, runVars,
     filesVars
<1>9. CASE ValidateAndReload
  BY <1>9, StepNames DEF ValidateAndReload, To, InstallerTypeOK, hostVars, unitVars,
     binVars, dbVars, configVars, inputs, cmdVars, installerVars, runVars, filesVars
<1>10. CASE EnsureFederationStep
  BY <1>10, StepNames DEF EnsureFederationStep, Origin, To, EnsureFederationSiteTOML,
     InstallerTypeOK, hostVars, unitVars, binVars, dbVars, configVars, inputs, cmdVars,
     installerVars, runVars, filesVars
<1>11. CASE EnsureAnalyticsStep
  BY <1>11, StepNames DEF EnsureAnalyticsStep, To, ScaffoldAnalytics, InstallerTypeOK,
     hostVars, unitVars, binVars, dbVars, configVars, inputs, cmdVars, installerVars,
     runVars, filesVars
<1>12. CASE TelemetryGate
  BY <1>12, StepNames DEF TelemetryGate, To, Go, Spawn, Report, InstallerTypeOK, hostVars,
     unitVars, binVars, dbVars, configVars, inputs, cmdVars, installerVars, runVars,
     filesVars
<1>13. CASE TelemetryDeclined
  BY <1>13, StepNames DEF TelemetryDeclined, To, InstallerTypeOK, hostVars, unitVars,
     binVars, dbVars, configVars, inputs, cmdVars, installerVars, runVars, filesVars
<1>14. CASE TelemetryEnabled
  BY <1>14, StepNames DEF TelemetryEnabled, To, ChildEnded, InstallerTypeOK, hostVars,
     unitVars, binVars, dbVars, configVars, inputs, cmdVars, installerVars, runVars,
     filesVars
<1>15. CASE AdminStatus
  BY <1>15, StepNames DEF AdminStatus, To, Go, Spawn, Report, InstallerTypeOK, hostVars,
     unitVars, binVars, dbVars, configVars, inputs, cmdVars, installerVars, runVars,
     filesVars
<1>16. CASE AdminStatusRead
  BY <1>16, StepNames DEF AdminStatusRead, To, ChildEnded, InstallerTypeOK, hostVars,
     unitVars, binVars, dbVars, configVars, inputs, cmdVars, installerVars, runVars,
     filesVars
<1>17. CASE AdminInit
  BY <1>17, StepNames DEF AdminInit, To, Go, Spawn, Report, InstallerTypeOK, hostVars,
     unitVars, binVars, dbVars, configVars, inputs, cmdVars, installerVars, runVars,
     filesVars
<1>18. CASE AdminInitRead
  BY <1>18, StepNames DEF AdminInitRead, To, ChildEnded, InstallerTypeOK, hostVars,
     unitVars, binVars, dbVars, configVars, inputs, cmdVars, installerVars, runVars,
     filesVars
<1>19. CASE RechownDataDir
  BY <1>19, StepNames DEF RechownDataDir, To, EnsureDataDir, InstallerTypeOK, hostVars,
     unitVars, binVars, dbVars, configVars, inputs, cmdVars, installerVars, runVars,
     filesVars
<1>20. CASE Doctor
  BY <1>20, StepNames DEF Doctor, To, Healthy, ConfigComplete, Active, InstallerTypeOK,
     hostVars, unitVars, binVars, dbVars, configVars, inputs, cmdVars, installerVars,
     runVars, filesVars
<1>21. CASE Fail
  BY <1>21, StepNames DEF Fail, To, InstallerTypeOK, hostVars, unitVars, binVars, dbVars,
     configVars, inputs, cmdVars, installerVars, runVars, filesVars
<1>22. CASE UNCHANGED vars
  BY <1>22, StepNames DEF vars, InstallerTypeOK, hostVars, unitVars, binVars, dbVars,
     configVars, inputs, cmdVars, installerVars, runVars, filesVars
<1> QED
  BY <1>1, <1>2, <1>3, <1>4, <1>5, <1>6, <1>7, <1>8, <1>9, <1>10, <1>11, <1>12, <1>13,
     <1>14, <1>15, <1>16, <1>17, <1>18, <1>19, <1>20, <1>21, <1>22 DEF Next, Install

(* The host's and the installer's variables stay well-formed; the Caddyfile never *)
(* gets a second block for the domain.                                           *)
THEOREM InstallTypeCorrect == Spec => []InstallTypeOK
<1>1. Init => TypeOK
  <2> SUFFICES ASSUME Init PROVE TypeOK
    OBVIOUS
  <2>1. PICK made \in Prepared :
          /\ admin = OwnIf("admin" \in made)
          /\ dbOwner = IF "admin" \in made THEN "nitpub" ELSE "absent"
          /\ config = IF "broken" \in made THEN "broken" ELSE OwnIf("config" \in made)
    BY DEF Init
  <2>2. admin \in Origin /\ config \in Origin /\ dbOwner \in {"absent", "root", "nitpub"}
    BY <2>1 DEF OwnIf, Origin
  <2>3. readable \in BOOLEAN
    BY DEF Init
  <2>4. svc \in SvcState /\ "new" \in Step /\ "status" \in Op /\ "none" \in Answer /\ 0 \in Release
    BY HostAssumption DEF Init, SvcState, Step, Op, Answer, Release
  <2>5. QED
    BY <2>2, <2>3, <2>4, Names DEF Init, TypeOK
<1>2. Init => InstallerTypeOK
  <2> SUFFICES ASSUME Init PROVE InstallerTypeOK
    OBVIOUS
  <2>1. PICK made \in Prepared :
          site = OwnIf("site" \in made) /\ blocks = IF "block" \in made THEN 1 ELSE 0
    BY DEF Init
  <2>2. site \in Origin /\ blocks \in {0, 1}
    BY <2>1 DEF OwnIf, Origin
  <2>3. gates \in SUBSET Gate /\ runs \in 0..MaxRuns
    BY RunsBound DEF Init
  <2>4. QED
    BY <2>2, <2>3, StepNames DEF Init, InstallerTypeOK
<1>3. InstallTypeOK /\ [Next]_vars => InstallTypeOK'
  BY HostTypesKept, InstallerTypesKept DEF InstallTypeOK
<1>4. QED
  BY <1>1, <1>2, <1>3, PTL DEF Spec, InstallTypeOK

-----------------------------------------------------------------------------
(* Duties. *)
LEMMA DutiesKept ==
    ASSUME InstallTypeOK, Duties, [Next]_vars
    PROVE Duties'
<1>1. CASE HostStep /\ UNCHANGED installerVars
  <2>1. CASE Boot
    BY <1>1, <2>1, InstallAssumption DEF Boot, ConfigLoads, ConfigComplete, OpenWithTimeout,
       Duties, StoppedWhere, ChildIdle, Waiting, DownIsOwed, RunsInstalled, Owes, Active,
       InstallTypeOK, TypeOK, InstallerTypeOK, hostVars, unitVars, binVars, dbVars,
       configVars, inputs, cmdVars, installerVars, runVars, filesVars
  <2>2. CASE BootFails
    BY <1>1, <2>2, InstallAssumption DEF BootFails, Duties, StoppedWhere, ChildIdle,
       Waiting, DownIsOwed, RunsInstalled, Owes, Active, InstallTypeOK, TypeOK,
       InstallerTypeOK, hostVars, unitVars, binVars, dbVars, configVars, inputs, cmdVars,
       installerVars, runVars, filesVars
  <2>3. CASE Crash
    BY <1>1, <2>3, InstallAssumption DEF Crash, Duties, StoppedWhere, ChildIdle, Waiting,
       DownIsOwed, RunsInstalled, Owes, Active, InstallTypeOK, TypeOK, InstallerTypeOK,
       hostVars, unitVars, binVars, dbVars, configVars, inputs, cmdVars, installerVars,
       runVars, filesVars
  <2>4. CASE Retry
    BY <1>1, <2>4, InstallAssumption DEF Retry, Duties, StoppedWhere, ChildIdle, Waiting,
       DownIsOwed, RunsInstalled, Owes, Active, InstallTypeOK, TypeOK, InstallerTypeOK,
       hostVars, unitVars, binVars, dbVars, configVars, inputs, cmdVars, installerVars,
       runVars, filesVars
  <2>5. CASE StartByHand
    BY <1>1, <2>5, InstallAssumption DEF StartByHand, SystemctlStart, Active, Duties,
       StoppedWhere, ChildIdle, Waiting, DownIsOwed, RunsInstalled, Owes, Active,
       InstallTypeOK, TypeOK, InstallerTypeOK, hostVars, unitVars, binVars, dbVars,
       configVars, inputs, cmdVars, installerVars, runVars, filesVars
  <2>6. CASE StopByHand
    BY <1>1, <2>6, InstallAssumption DEF StopByHand, SystemctlStop, ServiceReleases, Duties,
       StoppedWhere, ChildIdle, Waiting, DownIsOwed, RunsInstalled, Owes, Active,
       InstallTypeOK, TypeOK, InstallerTypeOK, hostVars, unitVars, binVars, dbVars,
       configVars, inputs, cmdVars, installerVars, runVars, filesVars
  <2>7. CASE Publish
    BY <1>1, <2>7, InstallAssumption DEF Publish, Duties, StoppedWhere, ChildIdle, Waiting,
       DownIsOwed, RunsInstalled, Owes, Active, InstallTypeOK, TypeOK, InstallerTypeOK,
       hostVars, unitVars, binVars, dbVars, configVars, inputs, cmdVars, installerVars,
       runVars, filesVars
  <2>8. CASE ByHand
    <3>1. PICK c \in Cmd \ {Child}, o \in Ops, off \in BOOLEAN : Invoke(c, o, off)
      BY <2>8 DEF ByHand
    <3>2. QED
      BY <1>1, <3>1, InstallAssumption DEF Invoke, Go, Report, Duties, StoppedWhere,
         ChildIdle, Waiting, DownIsOwed, RunsInstalled, Owes, Active, InstallTypeOK, TypeOK,
         InstallerTypeOK, hostVars, unitVars, binVars, dbVars, configVars, inputs, cmdVars,
         installerVars, runVars, filesVars
  <2>9. ASSUME NEW c \in Cmd, CommandStep(c) PROVE Duties'
    <3>1. CASE Probe(c)
      BY <1>1, <3>1, InstallAssumption DEF Probe, Go, Active, Duties, StoppedWhere,
         ChildIdle, Waiting, DownIsOwed, RunsInstalled, Owes, Active, InstallTypeOK, TypeOK,
         InstallerTypeOK, hostVars, unitVars, binVars, dbVars, configVars, inputs, cmdVars,
         installerVars, runVars, filesVars
    <3>2. CASE StopService(c)
      BY <1>1, <3>2, InstallAssumption DEF StopService, Go, SystemctlStop, ServiceReleases,
         Duties, StoppedWhere, ChildIdle, Waiting, DownIsOwed, RunsInstalled, Owes, Active,
         InstallTypeOK, TypeOK, InstallerTypeOK, hostVars, unitVars, binVars, dbVars,
         configVars, inputs, cmdVars, installerVars, runVars, filesVars
    <3>3. CASE StopRefused(c)
      BY <1>1, <3>3, InstallAssumption DEF StopRefused, Go, Report, Duties, StoppedWhere,
         ChildIdle, Waiting, DownIsOwed, RunsInstalled, Owes, Active, InstallTypeOK, TypeOK,
         InstallerTypeOK, hostVars, unitVars, binVars, dbVars, configVars, inputs, cmdVars,
         installerVars, runVars, filesVars
    <3>4. CASE OpenStore(c)
      BY <1>1, <3>4, InstallAssumption DEF OpenStore, Go, ConfigLoads, ConfigComplete,
         OpenWithTimeout, Duties, StoppedWhere, ChildIdle, Waiting, DownIsOwed,
         RunsInstalled, Owes, Active, InstallTypeOK, TypeOK, InstallerTypeOK, hostVars,
         unitVars, binVars, dbVars, configVars, inputs, cmdVars, installerVars, runVars,
         filesVars
    <3>5. CASE OpenFails(c)
      BY <1>1, <3>5, InstallAssumption DEF OpenFails, Go, Cleanup, Report, Duties,
         StoppedWhere, ChildIdle, Waiting, DownIsOwed, RunsInstalled, Owes, Active,
         InstallTypeOK, TypeOK, InstallerTypeOK, hostVars, unitVars, binVars, dbVars,
         configVars, inputs, cmdVars, installerVars, runVars, filesVars
    <3>6. CASE Work(c)
      BY <1>1, <3>6, InstallAssumption DEF Work, Go, InitAdmin, AdminStatusOf,
         AccountCommand, TelemetryCommand, FederationCommand, ImportCommand, Cleanup,
         Report, Duties, StoppedWhere, ChildIdle, Waiting, DownIsOwed, RunsInstalled, Owes,
         Active, InstallTypeOK, TypeOK, InstallerTypeOK, hostVars, unitVars, binVars,
         dbVars, configVars, inputs, cmdVars, installerVars, runVars, filesVars
    <3>7. CASE RestartService(c)
      BY <1>1, <3>7, InstallAssumption DEF RestartService, Go, SystemctlStart, Active,
         Duties, StoppedWhere, ChildIdle, Waiting, DownIsOwed, RunsInstalled, Owes, Active,
         InstallTypeOK, TypeOK, InstallerTypeOK, hostVars, unitVars, binVars, dbVars,
         configVars, inputs, cmdVars, installerVars, runVars, filesVars
    <3>8. CASE Fetch(c)
      BY <1>1, <3>8, InstallAssumption DEF Fetch, Go, NewRelease, DownloadVerified, Report,
         Duties, StoppedWhere, ChildIdle, Waiting, DownIsOwed, RunsInstalled, Owes, Active,
         InstallTypeOK, TypeOK, InstallerTypeOK, hostVars, unitVars, binVars, dbVars,
         configVars, inputs, cmdVars, installerVars, runVars, filesVars
    <3>9. CASE InstallBinary(c)
      BY <1>1, <3>9, InstallAssumption DEF InstallBinary, Go, Report, Duties, StoppedWhere,
         ChildIdle, Waiting, DownIsOwed, RunsInstalled, Owes, Active, InstallTypeOK, TypeOK,
         InstallerTypeOK, hostVars, unitVars, binVars, dbVars, configVars, inputs, cmdVars,
         installerVars, runVars, filesVars
    <3>10. CASE ReloadBinary(c)
      BY <1>1, <3>10, InstallAssumption DEF ReloadBinary, Go, SystemctlRestart,
         ServiceReleases, Report, Duties, StoppedWhere, ChildIdle, Waiting, DownIsOwed,
         RunsInstalled, Owes, Active, InstallTypeOK, TypeOK, InstallerTypeOK, hostVars,
         unitVars, binVars, dbVars, configVars, inputs, cmdVars, installerVars, runVars,
         filesVars
    <3>11. CASE ReloadFails(c)
      BY <1>1, <3>11, InstallAssumption DEF ReloadFails, Go, Report, Duties, StoppedWhere,
         ChildIdle, Waiting, DownIsOwed, RunsInstalled, Owes, Active, InstallTypeOK, TypeOK,
         InstallerTypeOK, hostVars, unitVars, binVars, dbVars, configVars, inputs, cmdVars,
         installerVars, runVars, filesVars
    <3>12. CASE Kill(c)
      BY <1>1, <3>12, InstallAssumption DEF Kill, Go, Owes, Report, Duties, StoppedWhere,
         ChildIdle, Waiting, DownIsOwed, RunsInstalled, Owes, Active, InstallTypeOK, TypeOK,
         InstallerTypeOK, hostVars, unitVars, binVars, dbVars, configVars, inputs, cmdVars,
         installerVars, runVars, filesVars
    <3> QED
      BY <2>9, <3>1, <3>2, <3>3, <3>4, <3>5, <3>6, <3>7, <3>8, <3>9, <3>10, <3>11, <3>12
         DEF CommandStep, Proceed, OpenMustFail
  <2> QED
    BY <1>1, <2>1, <2>2, <2>3, <2>4, <2>5, <2>6, <2>7, <2>8, <2>9 DEF HostStep, ServiceStep
<1>2. CASE \E choice \in GateChoices : Begin(choice)
  <2>1. PICK choice \in GateChoices : Begin(choice)
    BY <1>2
  <2>2. QED
    BY <2>1, InstallAssumption DEF Begin, Duties, StoppedWhere, ChildIdle, Waiting,
       DownIsOwed, RunsInstalled, Owes, Active, InstallTypeOK, TypeOK, InstallerTypeOK,
       hostVars, unitVars, binVars, dbVars, configVars, inputs, cmdVars, installerVars,
       runVars, filesVars
<1>3. CASE EnsureSystemUserAndData
  BY <1>3, InstallAssumption DEF EnsureSystemUserAndData, To, EnsureDataDir, Duties,
     StoppedWhere, ChildIdle, Waiting, DownIsOwed, RunsInstalled, Owes, Active,
     InstallTypeOK, TypeOK, InstallerTypeOK, hostVars, unitVars, binVars, dbVars,
     configVars, inputs, cmdVars, installerVars, runVars, filesVars
<1>4. CASE WriteConfigStep
  BY <1>4, InstallAssumption DEF WriteConfigStep, To, WriteConfigIfMissing, Duties,
     StoppedWhere, ChildIdle, Waiting, DownIsOwed, RunsInstalled, Owes, Active,
     InstallTypeOK, TypeOK, InstallerTypeOK, hostVars, unitVars, binVars, dbVars,
     configVars, inputs, cmdVars, installerVars, runVars, filesVars
<1>5. CASE WriteUnit
  BY <1>5, InstallAssumption DEF WriteUnit, To, Duties, StoppedWhere, ChildIdle, Waiting,
     DownIsOwed, RunsInstalled, Owes, Active, InstallTypeOK, TypeOK, InstallerTypeOK,
     hostVars, unitVars, binVars, dbVars, configVars, inputs, cmdVars, installerVars,
     runVars, filesVars
<1>6. CASE EnableNow
  BY <1>6, InstallAssumption DEF EnableNow, To, SystemctlStart, Active, Duties,
     StoppedWhere, ChildIdle, Waiting, DownIsOwed, RunsInstalled, Owes, Active,
     InstallTypeOK, TypeOK, InstallerTypeOK, hostVars, unitVars, binVars, dbVars,
     configVars, inputs, cmdVars, installerVars, runVars, filesVars
<1>7. CASE AppendSiteBlock
  BY <1>7, InstallAssumption DEF AppendSiteBlock, To, SiteBlockPresent, Duties,
     StoppedWhere, ChildIdle, Waiting, DownIsOwed, RunsInstalled, Owes, Active,
     InstallTypeOK, TypeOK, InstallerTypeOK, hostVars, unitVars, binVars, dbVars,
     configVars, inputs, cmdVars, installerVars, runVars, filesVars
<1>8. CASE CaddySkipped
  BY <1>8, InstallAssumption DEF CaddySkipped, To, SiteBlockPresent, Duties, StoppedWhere,
     ChildIdle, Waiting, DownIsOwed, RunsInstalled, Owes, Active, InstallTypeOK, TypeOK,
     InstallerTypeOK, hostVars, unitVars, binVars, dbVars, configVars, inputs, cmdVars,
     installerVars, runVars, filesVars
<1>9. CASE ValidateAndReload
  BY <1>9, InstallAssumption DEF ValidateAndReload, To, Duties, StoppedWhere, ChildIdle,
     Waiting, DownIsOwed, RunsInstalled, Owes, Active, InstallTypeOK, TypeOK,
     InstallerTypeOK, hostVars, unitVars, binVars, dbVars, configVars, inputs, cmdVars,
     installerVars, runVars, filesVars
<1>10. CASE EnsureFederationStep
  BY <1>10, InstallAssumption DEF EnsureFederationStep, To, EnsureFederationSiteTOML,
     Duties, StoppedWhere, ChildIdle, Waiting, DownIsOwed, RunsInstalled, Owes, Active,
     InstallTypeOK, TypeOK, InstallerTypeOK, hostVars, unitVars, binVars, dbVars,
     configVars, inputs, cmdVars, installerVars, runVars, filesVars
<1>11. CASE EnsureAnalyticsStep
  BY <1>11, InstallAssumption DEF EnsureAnalyticsStep, To, ScaffoldAnalytics, Duties,
     StoppedWhere, ChildIdle, Waiting, DownIsOwed, RunsInstalled, Owes, Active,
     InstallTypeOK, TypeOK, InstallerTypeOK, hostVars, unitVars, binVars, dbVars,
     configVars, inputs, cmdVars, installerVars, runVars, filesVars
<1>12. CASE TelemetryGate
  BY <1>12, InstallAssumption DEF TelemetryGate, To, Go, Spawn, Report, Duties,
     StoppedWhere, ChildIdle, Waiting, DownIsOwed, RunsInstalled, Owes, Active,
     InstallTypeOK, TypeOK, InstallerTypeOK, hostVars, unitVars, binVars, dbVars,
     configVars, inputs, cmdVars, installerVars, runVars, filesVars
<1>13. CASE TelemetryDeclined
  BY <1>13, InstallAssumption DEF TelemetryDeclined, To, Duties, StoppedWhere, ChildIdle,
     Waiting, DownIsOwed, RunsInstalled, Owes, Active, InstallTypeOK, TypeOK,
     InstallerTypeOK, hostVars, unitVars, binVars, dbVars, configVars, inputs, cmdVars,
     installerVars, runVars, filesVars
<1>14. CASE TelemetryEnabled
  BY <1>14, InstallAssumption DEF TelemetryEnabled, To, ChildEnded, Duties, StoppedWhere,
     ChildIdle, Waiting, DownIsOwed, RunsInstalled, Owes, Active, InstallTypeOK, TypeOK,
     InstallerTypeOK, hostVars, unitVars, binVars, dbVars, configVars, inputs, cmdVars,
     installerVars, runVars, filesVars
<1>15. CASE AdminStatus
  BY <1>15, InstallAssumption DEF AdminStatus, To, Go, Spawn, Report, Duties, StoppedWhere,
     ChildIdle, Waiting, DownIsOwed, RunsInstalled, Owes, Active, InstallTypeOK, TypeOK,
     InstallerTypeOK, hostVars, unitVars, binVars, dbVars, configVars, inputs, cmdVars,
     installerVars, runVars, filesVars
<1>16. CASE AdminStatusRead
  BY <1>16, InstallAssumption DEF AdminStatusRead, To, ChildEnded, Duties, StoppedWhere,
     ChildIdle, Waiting, DownIsOwed, RunsInstalled, Owes, Active, InstallTypeOK, TypeOK,
     InstallerTypeOK, hostVars, unitVars, binVars, dbVars, configVars, inputs, cmdVars,
     installerVars, runVars, filesVars
<1>17. CASE AdminInit
  BY <1>17, InstallAssumption DEF AdminInit, To, Go, Spawn, Report, Duties, StoppedWhere,
     ChildIdle, Waiting, DownIsOwed, RunsInstalled, Owes, Active, InstallTypeOK, TypeOK,
     InstallerTypeOK, hostVars, unitVars, binVars, dbVars, configVars, inputs, cmdVars,
     installerVars, runVars, filesVars
<1>18. CASE AdminInitRead
  BY <1>18, InstallAssumption DEF AdminInitRead, To, ChildEnded, Duties, StoppedWhere,
     ChildIdle, Waiting, DownIsOwed, RunsInstalled, Owes, Active, InstallTypeOK, TypeOK,
     InstallerTypeOK, hostVars, unitVars, binVars, dbVars, configVars, inputs, cmdVars,
     installerVars, runVars, filesVars
<1>19. CASE RechownDataDir
  BY <1>19, InstallAssumption DEF RechownDataDir, To, EnsureDataDir, Duties, StoppedWhere,
     ChildIdle, Waiting, DownIsOwed, RunsInstalled, Owes, Active, InstallTypeOK, TypeOK,
     InstallerTypeOK, hostVars, unitVars, binVars, dbVars, configVars, inputs, cmdVars,
     installerVars, runVars, filesVars
<1>20. CASE Doctor
  BY <1>20, InstallAssumption DEF Doctor, To, Healthy, ConfigComplete, Active, Duties,
     StoppedWhere, ChildIdle, Waiting, DownIsOwed, RunsInstalled, Owes, Active,
     InstallTypeOK, TypeOK, InstallerTypeOK, hostVars, unitVars, binVars, dbVars,
     configVars, inputs, cmdVars, installerVars, runVars, filesVars
<1>21. CASE Fail
  BY <1>21, InstallAssumption DEF Fail, To, Duties, StoppedWhere, ChildIdle, Waiting,
     DownIsOwed, RunsInstalled, Owes, Active, InstallTypeOK, TypeOK, InstallerTypeOK,
     hostVars, unitVars, binVars, dbVars, configVars, inputs, cmdVars, installerVars,
     runVars, filesVars
<1>22. CASE UNCHANGED vars
  BY <1>22, InstallAssumption DEF vars, Duties, StoppedWhere, ChildIdle, Waiting,
     DownIsOwed, RunsInstalled, Owes, Active, InstallTypeOK, TypeOK, InstallerTypeOK,
     hostVars, unitVars, binVars, dbVars, configVars, inputs, cmdVars, installerVars,
     runVars, filesVars
<1> QED
  BY <1>1, <1>2, <1>3, <1>4, <1>5, <1>6, <1>7, <1>8, <1>9, <1>10, <1>11, <1>12, <1>13,
     <1>14, <1>15, <1>16, <1>17, <1>18, <1>19, <1>20, <1>21, <1>22 DEF Next, Install

(* For any number of overlapping commands: a service that is down has a command that owes *)
(* it a start, or is meant to be down, and one of an old release is about to be restarted. *)
THEOREM ServiceIsOwed == Spec => []CommandsOwe
<1>1. Init => Duties
  BY InstallAssumption DEF Init, Duties, StoppedWhere, ChildIdle, Waiting, DownIsOwed,
     RunsInstalled, Active
<1>2. InstallTypeOK /\ Duties /\ [Next]_vars => Duties'
  BY DutiesKept
<1>3. Duties => CommandsOwe
  BY DEF Duties, CommandsOwe
<1>4. QED
  BY <1>1, <1>2, <1>3, InstallTypeCorrect, PTL DEF Spec

-----------------------------------------------------------------------------
(* The installer. *)
LEMMA AnswersKept ==
    ASSUME TypeOK, ChildIdle, Answers, [Next]_vars
    PROVE Answers'
<1>1. CASE HostStep /\ UNCHANGED installerVars
  <2>1. CASE Boot
    BY <1>1, <2>1, InstallAssumption DEF Boot, ConfigLoads, ConfigComplete, OpenWithTimeout,
       Answers, Opened, ChildOps, Confirmed, ConfigComplete, TypeOK, ChildIdle, Waiting,
       hostVars, unitVars, binVars, dbVars, configVars, inputs, cmdVars, installerVars,
       runVars, filesVars
  <2>2. CASE BootFails
    BY <1>1, <2>2, InstallAssumption DEF BootFails, Answers, Opened, ChildOps, Confirmed,
       ConfigComplete, TypeOK, ChildIdle, Waiting, hostVars, unitVars, binVars, dbVars,
       configVars, inputs, cmdVars, installerVars, runVars, filesVars
  <2>3. CASE Crash
    BY <1>1, <2>3, InstallAssumption DEF Crash, Answers, Opened, ChildOps, Confirmed,
       ConfigComplete, TypeOK, ChildIdle, Waiting, hostVars, unitVars, binVars, dbVars,
       configVars, inputs, cmdVars, installerVars, runVars, filesVars
  <2>4. CASE Retry
    BY <1>1, <2>4, InstallAssumption DEF Retry, Answers, Opened, ChildOps, Confirmed,
       ConfigComplete, TypeOK, ChildIdle, Waiting, hostVars, unitVars, binVars, dbVars,
       configVars, inputs, cmdVars, installerVars, runVars, filesVars
  <2>5. CASE StartByHand
    BY <1>1, <2>5, InstallAssumption DEF StartByHand, SystemctlStart, Active, Answers,
       Opened, ChildOps, Confirmed, ConfigComplete, TypeOK, ChildIdle, Waiting, hostVars,
       unitVars, binVars, dbVars, configVars, inputs, cmdVars, installerVars, runVars,
       filesVars
  <2>6. CASE StopByHand
    BY <1>1, <2>6, InstallAssumption DEF StopByHand, SystemctlStop, ServiceReleases,
       Answers, Opened, ChildOps, Confirmed, ConfigComplete, TypeOK, ChildIdle, Waiting,
       hostVars, unitVars, binVars, dbVars, configVars, inputs, cmdVars, installerVars,
       runVars, filesVars
  <2>7. CASE Publish
    BY <1>1, <2>7, InstallAssumption DEF Publish, Answers, Opened, ChildOps, Confirmed,
       ConfigComplete, TypeOK, ChildIdle, Waiting, hostVars, unitVars, binVars, dbVars,
       configVars, inputs, cmdVars, installerVars, runVars, filesVars
  <2>8. CASE ByHand
    <3>1. PICK c \in Cmd \ {Child}, o \in Ops, off \in BOOLEAN : Invoke(c, o, off)
      BY <2>8 DEF ByHand
    <3>2. QED
      BY <1>1, <3>1, InstallAssumption DEF Invoke, Go, Report, Answers, Opened, ChildOps,
         Confirmed, ConfigComplete, TypeOK, ChildIdle, Waiting, hostVars, unitVars, binVars,
         dbVars, configVars, inputs, cmdVars, installerVars, runVars, filesVars
  <2>9. ASSUME NEW c \in Cmd, CommandStep(c) PROVE Answers'
    <3>1. CASE Probe(c)
      BY <1>1, <3>1, InstallAssumption DEF Probe, Go, Active, Answers, Opened, ChildOps,
         Confirmed, ConfigComplete, TypeOK, ChildIdle, Waiting, hostVars, unitVars, binVars,
         dbVars, configVars, inputs, cmdVars, installerVars, runVars, filesVars
    <3>2. CASE StopService(c)
      BY <1>1, <3>2, InstallAssumption DEF StopService, Go, SystemctlStop, ServiceReleases,
         Answers, Opened, ChildOps, Confirmed, ConfigComplete, TypeOK, ChildIdle, Waiting,
         hostVars, unitVars, binVars, dbVars, configVars, inputs, cmdVars, installerVars,
         runVars, filesVars
    <3>3. CASE StopRefused(c)
      BY <1>1, <3>3, InstallAssumption DEF StopRefused, Go, Report, Answers, Opened,
         ChildOps, Confirmed, ConfigComplete, TypeOK, ChildIdle, Waiting, hostVars,
         unitVars, binVars, dbVars, configVars, inputs, cmdVars, installerVars, runVars,
         filesVars
    <3>4. CASE OpenStore(c)
      BY <1>1, <3>4, InstallAssumption DEF OpenStore, Go, ConfigLoads, ConfigComplete,
         OpenWithTimeout, Answers, Opened, ChildOps, Confirmed, ConfigComplete, TypeOK,
         ChildIdle, Waiting, hostVars, unitVars, binVars, dbVars, configVars, inputs,
         cmdVars, installerVars, runVars, filesVars
    <3>5. CASE OpenFails(c)
      BY <1>1, <3>5, InstallAssumption DEF OpenFails, Go, Cleanup, Report, Answers, Opened,
         ChildOps, Confirmed, ConfigComplete, TypeOK, ChildIdle, Waiting, hostVars,
         unitVars, binVars, dbVars, configVars, inputs, cmdVars, installerVars, runVars,
         filesVars
    <3>6. CASE Work(c)
      BY <1>1, <3>6, InstallAssumption DEF Work, Go, InitAdmin, AdminStatusOf,
         AccountCommand, TelemetryCommand, FederationCommand, ImportCommand, Cleanup,
         Report, Answers, Opened, ChildOps, Confirmed, ConfigComplete, TypeOK, ChildIdle,
         Waiting, hostVars, unitVars, binVars, dbVars, configVars, inputs, cmdVars,
         installerVars, runVars, filesVars
    <3>7. CASE RestartService(c)
      BY <1>1, <3>7, InstallAssumption DEF RestartService, Go, SystemctlStart, Active,
         Answers, Opened, ChildOps, Confirmed, ConfigComplete, TypeOK, ChildIdle, Waiting,
         hostVars, unitVars, binVars, dbVars, configVars, inputs, cmdVars, installerVars,
         runVars, filesVars
    <3>8. CASE Fetch(c)
      BY <1>1, <3>8, InstallAssumption DEF Fetch, Go, NewRelease, DownloadVerified, Report,
         Answers, Opened, ChildOps, Confirmed, ConfigComplete, TypeOK, ChildIdle, Waiting,
         hostVars, unitVars, binVars, dbVars, configVars, inputs, cmdVars, installerVars,
         runVars, filesVars
    <3>9. CASE InstallBinary(c)
      BY <1>1, <3>9, InstallAssumption DEF InstallBinary, Go, Report, Answers, Opened,
         ChildOps, Confirmed, ConfigComplete, TypeOK, ChildIdle, Waiting, hostVars,
         unitVars, binVars, dbVars, configVars, inputs, cmdVars, installerVars, runVars,
         filesVars
    <3>10. CASE ReloadBinary(c)
      BY <1>1, <3>10, InstallAssumption DEF ReloadBinary, Go, SystemctlRestart,
         ServiceReleases, Report, Answers, Opened, ChildOps, Confirmed, ConfigComplete,
         TypeOK, ChildIdle, Waiting, hostVars, unitVars, binVars, dbVars, configVars,
         inputs, cmdVars, installerVars, runVars, filesVars
    <3>11. CASE ReloadFails(c)
      BY <1>1, <3>11, InstallAssumption DEF ReloadFails, Go, Report, Answers, Opened,
         ChildOps, Confirmed, ConfigComplete, TypeOK, ChildIdle, Waiting, hostVars,
         unitVars, binVars, dbVars, configVars, inputs, cmdVars, installerVars, runVars,
         filesVars
    <3>12. CASE Kill(c)
      BY <1>1, <3>12, InstallAssumption DEF Kill, Go, Owes, Report, Answers, Opened,
         ChildOps, Confirmed, ConfigComplete, TypeOK, ChildIdle, Waiting, hostVars,
         unitVars, binVars, dbVars, configVars, inputs, cmdVars, installerVars, runVars,
         filesVars
    <3> QED
      BY <2>9, <3>1, <3>2, <3>3, <3>4, <3>5, <3>6, <3>7, <3>8, <3>9, <3>10, <3>11, <3>12
         DEF CommandStep, Proceed, OpenMustFail
  <2> QED
    BY <1>1, <2>1, <2>2, <2>3, <2>4, <2>5, <2>6, <2>7, <2>8, <2>9 DEF HostStep, ServiceStep
<1>2. CASE \E choice \in GateChoices : Begin(choice)
  <2>1. PICK choice \in GateChoices : Begin(choice)
    BY <1>2
  <2>2. QED
    BY <2>1, InstallAssumption DEF Begin, Answers, Opened, ChildOps, Confirmed,
       ConfigComplete, TypeOK, ChildIdle, Waiting, hostVars, unitVars, binVars, dbVars,
       configVars, inputs, cmdVars, installerVars, runVars, filesVars
<1>3. CASE EnsureSystemUserAndData
  BY <1>3, InstallAssumption DEF EnsureSystemUserAndData, To, EnsureDataDir, Answers,
     Opened, ChildOps, Confirmed, ConfigComplete, TypeOK, ChildIdle, Waiting, hostVars,
     unitVars, binVars, dbVars, configVars, inputs, cmdVars, installerVars, runVars,
     filesVars
<1>4. CASE WriteConfigStep
  BY <1>4, InstallAssumption DEF WriteConfigStep, To, WriteConfigIfMissing, Answers, Opened,
     ChildOps, Confirmed, ConfigComplete, TypeOK, ChildIdle, Waiting, hostVars, unitVars,
     binVars, dbVars, configVars, inputs, cmdVars, installerVars, runVars, filesVars
<1>5. CASE WriteUnit
  BY <1>5, InstallAssumption DEF WriteUnit, To, Answers, Opened, ChildOps, Confirmed,
     ConfigComplete, TypeOK, ChildIdle, Waiting, hostVars, unitVars, binVars, dbVars,
     configVars, inputs, cmdVars, installerVars, runVars, filesVars
<1>6. CASE EnableNow
  BY <1>6, InstallAssumption DEF EnableNow, To, SystemctlStart, Active, Answers, Opened,
     ChildOps, Confirmed, ConfigComplete, TypeOK, ChildIdle, Waiting, hostVars, unitVars,
     binVars, dbVars, configVars, inputs, cmdVars, installerVars, runVars, filesVars
<1>7. CASE AppendSiteBlock
  BY <1>7, InstallAssumption DEF AppendSiteBlock, To, SiteBlockPresent, Answers, Opened,
     ChildOps, Confirmed, ConfigComplete, TypeOK, ChildIdle, Waiting, hostVars, unitVars,
     binVars, dbVars, configVars, inputs, cmdVars, installerVars, runVars, filesVars
<1>8. CASE CaddySkipped
  BY <1>8, InstallAssumption DEF CaddySkipped, To, SiteBlockPresent, Answers, Opened,
     ChildOps, Confirmed, ConfigComplete, TypeOK, ChildIdle, Waiting, hostVars, unitVars,
     binVars, dbVars, configVars, inputs, cmdVars, installerVars, runVars, filesVars
<1>9. CASE ValidateAndReload
  BY <1>9, InstallAssumption DEF ValidateAndReload, To, Answers, Opened, ChildOps,
     Confirmed, ConfigComplete, TypeOK, ChildIdle, Waiting, hostVars, unitVars, binVars,
     dbVars, configVars, inputs, cmdVars, installerVars, runVars, filesVars
<1>10. CASE EnsureFederationStep
  BY <1>10, InstallAssumption DEF EnsureFederationStep, To, EnsureFederationSiteTOML,
     Answers, Opened, ChildOps, Confirmed, ConfigComplete, TypeOK, ChildIdle, Waiting,
     hostVars, unitVars, binVars, dbVars, configVars, inputs, cmdVars, installerVars,
     runVars, filesVars
<1>11. CASE EnsureAnalyticsStep
  BY <1>11, InstallAssumption DEF EnsureAnalyticsStep, To, ScaffoldAnalytics, Answers,
     Opened, ChildOps, Confirmed, ConfigComplete, TypeOK, ChildIdle, Waiting, hostVars,
     unitVars, binVars, dbVars, configVars, inputs, cmdVars, installerVars, runVars,
     filesVars
<1>12. CASE TelemetryGate
  BY <1>12, InstallAssumption DEF TelemetryGate, To, Go, Spawn, Report, Answers, Opened,
     ChildOps, Confirmed, ConfigComplete, TypeOK, ChildIdle, Waiting, hostVars, unitVars,
     binVars, dbVars, configVars, inputs, cmdVars, installerVars, runVars, filesVars
<1>13. CASE TelemetryDeclined
  BY <1>13, InstallAssumption DEF TelemetryDeclined, To, Answers, Opened, ChildOps,
     Confirmed, ConfigComplete, TypeOK, ChildIdle, Waiting, hostVars, unitVars, binVars,
     dbVars, configVars, inputs, cmdVars, installerVars, runVars, filesVars
<1>14. CASE TelemetryEnabled
  BY <1>14, InstallAssumption DEF TelemetryEnabled, To, ChildEnded, Answers, Opened,
     ChildOps, Confirmed, ConfigComplete, TypeOK, ChildIdle, Waiting, hostVars, unitVars,
     binVars, dbVars, configVars, inputs, cmdVars, installerVars, runVars, filesVars
<1>15. CASE AdminStatus
  BY <1>15, InstallAssumption DEF AdminStatus, To, Go, Spawn, Report, Answers, Opened,
     ChildOps, Confirmed, ConfigComplete, TypeOK, ChildIdle, Waiting, hostVars, unitVars,
     binVars, dbVars, configVars, inputs, cmdVars, installerVars, runVars, filesVars
<1>16. CASE AdminStatusRead
  BY <1>16, InstallAssumption DEF AdminStatusRead, To, ChildEnded, Answers, Opened,
     ChildOps, Confirmed, ConfigComplete, TypeOK, ChildIdle, Waiting, hostVars, unitVars,
     binVars, dbVars, configVars, inputs, cmdVars, installerVars, runVars, filesVars
<1>17. CASE AdminInit
  BY <1>17, InstallAssumption DEF AdminInit, To, Go, Spawn, Report, Answers, Opened,
     ChildOps, Confirmed, ConfigComplete, TypeOK, ChildIdle, Waiting, hostVars, unitVars,
     binVars, dbVars, configVars, inputs, cmdVars, installerVars, runVars, filesVars
<1>18. CASE AdminInitRead
  BY <1>18, InstallAssumption DEF AdminInitRead, To, ChildEnded, Answers, Opened, ChildOps,
     Confirmed, ConfigComplete, TypeOK, ChildIdle, Waiting, hostVars, unitVars, binVars,
     dbVars, configVars, inputs, cmdVars, installerVars, runVars, filesVars
<1>19. CASE RechownDataDir
  BY <1>19, InstallAssumption DEF RechownDataDir, To, EnsureDataDir, Answers, Opened,
     ChildOps, Confirmed, ConfigComplete, TypeOK, ChildIdle, Waiting, hostVars, unitVars,
     binVars, dbVars, configVars, inputs, cmdVars, installerVars, runVars, filesVars
<1>20. CASE Doctor
  BY <1>20, InstallAssumption DEF Doctor, To, Healthy, ConfigComplete, Active, Answers,
     Opened, ChildOps, Confirmed, ConfigComplete, TypeOK, ChildIdle, Waiting, hostVars,
     unitVars, binVars, dbVars, configVars, inputs, cmdVars, installerVars, runVars,
     filesVars
<1>21. CASE Fail
  BY <1>21, InstallAssumption DEF Fail, To, Answers, Opened, ChildOps, Confirmed,
     ConfigComplete, TypeOK, ChildIdle, Waiting, hostVars, unitVars, binVars, dbVars,
     configVars, inputs, cmdVars, installerVars, runVars, filesVars
<1>22. CASE UNCHANGED vars
  BY <1>22, InstallAssumption DEF vars, Answers, Opened, ChildOps, Confirmed,
     ConfigComplete, TypeOK, ChildIdle, Waiting, hostVars, unitVars, binVars, dbVars,
     configVars, inputs, cmdVars, installerVars, runVars, filesVars
<1> QED
  BY <1>1, <1>2, <1>3, <1>4, <1>5, <1>6, <1>7, <1>8, <1>9, <1>10, <1>11, <1>12, <1>13,
     <1>14, <1>15, <1>16, <1>17, <1>18, <1>19, <1>20, <1>21, <1>22 DEF Next, Install

(* What no step of the service or of a command takes back. *)
HostKeeps ==
    /\ UNCHANGED <<unit, configVars, installerVars>>
    /\ admin # "absent" => admin' # "absent"
    /\ dbOwner # "absent" => dbOwner' = dbOwner

LEMMA HostKept ==
    ASSUME HostStep /\ UNCHANGED installerVars
    PROVE HostKeeps
<1>1. CASE Boot
  BY <1>1 DEF Boot, ConfigLoads, ConfigComplete, OpenWithTimeout, HostKeeps,
     hostVars, unitVars, binVars, dbVars, configVars, inputs, cmdVars, installerVars,
     runVars, filesVars
<1>2. CASE BootFails
  BY <1>2 DEF BootFails, HostKeeps, hostVars, unitVars, binVars, dbVars, configVars,
     inputs, cmdVars, installerVars, runVars, filesVars
<1>3. CASE Crash
  BY <1>3 DEF Crash, HostKeeps, hostVars, unitVars, binVars, dbVars, configVars,
     inputs, cmdVars, installerVars, runVars, filesVars
<1>4. CASE Retry
  BY <1>4 DEF Retry, HostKeeps, hostVars, unitVars, binVars, dbVars, configVars,
     inputs, cmdVars, installerVars, runVars, filesVars
<1>5. CASE StartByHand
  BY <1>5 DEF StartByHand, SystemctlStart, Active, HostKeeps, hostVars, unitVars,
     binVars, dbVars, configVars, inputs, cmdVars, installerVars, runVars, filesVars
<1>6. CASE StopByHand
  BY <1>6 DEF StopByHand, SystemctlStop, ServiceReleases, HostKeeps, hostVars,
     unitVars, binVars, dbVars, configVars, inputs, cmdVars, installerVars, runVars,
     filesVars
<1>7. CASE Publish
  BY <1>7 DEF Publish, HostKeeps, hostVars, unitVars, binVars, dbVars, configVars,
     inputs, cmdVars, installerVars, runVars, filesVars
<1>8. CASE ByHand
  <2>1. PICK c \in Cmd \ {Child}, o \in Ops, off \in BOOLEAN : Invoke(c, o, off)
    BY <1>8 DEF ByHand
  <2>2. QED
    BY <2>1 DEF Invoke, Go, Report, HostKeeps, hostVars, unitVars, binVars, dbVars,
       configVars, inputs, cmdVars, installerVars, runVars, filesVars
<1>9. ASSUME NEW c \in Cmd, CommandStep(c) PROVE HostKeeps
  <2>1. CASE Probe(c)
    BY <2>1 DEF Probe, Go, Active, HostKeeps, hostVars, unitVars, binVars, dbVars,
       configVars, inputs, cmdVars, installerVars, runVars, filesVars
  <2>2. CASE StopService(c)
    BY <2>2 DEF StopService, Go, SystemctlStop, ServiceReleases, HostKeeps,
       hostVars, unitVars, binVars, dbVars, configVars, inputs, cmdVars, installerVars,
       runVars, filesVars
  <2>3. CASE StopRefused(c)
    BY <2>3 DEF StopRefused, Go, Report, HostKeeps, hostVars, unitVars, binVars,
       dbVars, configVars, inputs, cmdVars, installerVars, runVars, filesVars
  <2>4. CASE OpenStore(c)
    BY <2>4 DEF OpenStore, Go, ConfigLoads, ConfigComplete, OpenWithTimeout,
       HostKeeps, hostVars, unitVars, binVars, dbVars, configVars, inputs, cmdVars,
       installerVars, runVars, filesVars
  <2>5. CASE OpenFails(c)
    BY <2>5 DEF OpenFails, Go, Cleanup, Report, HostKeeps, hostVars, unitVars,
       binVars, dbVars, configVars, inputs, cmdVars, installerVars, runVars, filesVars
  <2>6. CASE Work(c)
    BY <2>6 DEF Work, Go, InitAdmin, AdminStatusOf, AccountCommand,
       TelemetryCommand, FederationCommand, ImportCommand, Cleanup, Report, HostKeeps,
       hostVars, unitVars, binVars, dbVars, configVars, inputs, cmdVars, installerVars,
       runVars, filesVars
  <2>7. CASE RestartService(c)
    BY <2>7 DEF RestartService, Go, SystemctlStart, Active, HostKeeps, hostVars,
       unitVars, binVars, dbVars, configVars, inputs, cmdVars, installerVars, runVars,
       filesVars
  <2>8. CASE Fetch(c)
    BY <2>8 DEF Fetch, Go, NewRelease, DownloadVerified, Report, HostKeeps,
       hostVars, unitVars, binVars, dbVars, configVars, inputs, cmdVars, installerVars,
       runVars, filesVars
  <2>9. CASE InstallBinary(c)
    BY <2>9 DEF InstallBinary, Go, Report, HostKeeps, hostVars, unitVars, binVars,
       dbVars, configVars, inputs, cmdVars, installerVars, runVars, filesVars
  <2>10. CASE ReloadBinary(c)
    BY <2>10 DEF ReloadBinary, Go, SystemctlRestart, ServiceReleases, Report,
       HostKeeps, hostVars, unitVars, binVars, dbVars, configVars, inputs, cmdVars,
       installerVars, runVars, filesVars
  <2>11. CASE ReloadFails(c)
    BY <2>11 DEF ReloadFails, Go, Report, HostKeeps, hostVars, unitVars, binVars,
       dbVars, configVars, inputs, cmdVars, installerVars, runVars, filesVars
  <2>12. CASE Kill(c)
    BY <2>12 DEF Kill, Go, Owes, Report, HostKeeps, hostVars, unitVars, binVars,
       dbVars, configVars, inputs, cmdVars, installerVars, runVars, filesVars
  <2> QED
    BY <1>9, <2>1, <2>2, <2>3, <2>4, <2>5, <2>6, <2>7, <2>8, <2>9, <2>10, <2>11, <2>12
       DEF CommandStep, Proceed, OpenMustFail
<1> QED
  BY <1>1, <1>2, <1>3, <1>4, <1>5, <1>6, <1>7, <1>8, <1>9 DEF HostStep, ServiceStep

LEMMA GroundsKept ==
    ASSUME InstallerTypeOK, Answers, Grounds, [Next]_vars
    PROVE Grounds'
<1>1. CASE HostStep /\ UNCHANGED installerVars
  BY <1>1, HostKept DEF HostKeeps, Grounds, Built, InstalledIsWhole, ConfigComplete, UnitWritten, CaddyDone, FederationDone, AnalyticsDone,
     configVars, installerVars, runVars, filesVars
<1>2. CASE \E choice \in GateChoices : Begin(choice)
  <2>1. PICK choice \in GateChoices : Begin(choice)
    BY <1>2
  <2>2. QED
    BY <2>1 DEF Begin, Grounds, Built, InstalledIsWhole, ConfigComplete, UnitWritten,
       CaddyDone, FederationDone, AnalyticsDone, InstallerTypeOK, Answers, ChildOps,
       Confirmed, hostVars, unitVars, binVars, dbVars, configVars, inputs, cmdVars,
       installerVars, runVars, filesVars
<1>3. CASE EnsureSystemUserAndData
  BY <1>3 DEF EnsureSystemUserAndData, To, EnsureDataDir, Grounds, Built, InstalledIsWhole,
     ConfigComplete, UnitWritten, CaddyDone, FederationDone, AnalyticsDone, InstallerTypeOK,
     Answers, ChildOps, Confirmed, hostVars, unitVars, binVars, dbVars, configVars, inputs,
     cmdVars, installerVars, runVars, filesVars
<1>4. CASE WriteConfigStep
  BY <1>4 DEF WriteConfigStep, To, WriteConfigIfMissing, Grounds, Built, InstalledIsWhole,
     ConfigComplete, UnitWritten, CaddyDone, FederationDone, AnalyticsDone, InstallerTypeOK,
     Answers, ChildOps, Confirmed, hostVars, unitVars, binVars, dbVars, configVars, inputs,
     cmdVars, installerVars, runVars, filesVars
<1>5. CASE WriteUnit
  BY <1>5 DEF WriteUnit, To, Grounds, Built, InstalledIsWhole, ConfigComplete, UnitWritten,
     CaddyDone, FederationDone, AnalyticsDone, InstallerTypeOK, Answers, ChildOps,
     Confirmed, hostVars, unitVars, binVars, dbVars, configVars, inputs, cmdVars,
     installerVars, runVars, filesVars
<1>6. CASE EnableNow
  BY <1>6 DEF EnableNow, To, SystemctlStart, Active, Grounds, Built, InstalledIsWhole,
     ConfigComplete, UnitWritten, CaddyDone, FederationDone, AnalyticsDone, InstallerTypeOK,
     Answers, ChildOps, Confirmed, hostVars, unitVars, binVars, dbVars, configVars, inputs,
     cmdVars, installerVars, runVars, filesVars
<1>7. CASE AppendSiteBlock
  BY <1>7 DEF AppendSiteBlock, To, SiteBlockPresent, Grounds, Built, InstalledIsWhole,
     ConfigComplete, UnitWritten, CaddyDone, FederationDone, AnalyticsDone, InstallerTypeOK,
     Answers, ChildOps, Confirmed, hostVars, unitVars, binVars, dbVars, configVars, inputs,
     cmdVars, installerVars, runVars, filesVars
<1>8. CASE CaddySkipped
  BY <1>8 DEF CaddySkipped, To, SiteBlockPresent, Grounds, Built, InstalledIsWhole,
     ConfigComplete, UnitWritten, CaddyDone, FederationDone, AnalyticsDone, InstallerTypeOK,
     Answers, ChildOps, Confirmed, hostVars, unitVars, binVars, dbVars, configVars, inputs,
     cmdVars, installerVars, runVars, filesVars
<1>9. CASE ValidateAndReload
  BY <1>9 DEF ValidateAndReload, To, Grounds, Built, InstalledIsWhole, ConfigComplete,
     UnitWritten, CaddyDone, FederationDone, AnalyticsDone, InstallerTypeOK, Answers,
     ChildOps, Confirmed, hostVars, unitVars, binVars, dbVars, configVars, inputs, cmdVars,
     installerVars, runVars, filesVars
<1>10. CASE EnsureFederationStep
  BY <1>10 DEF EnsureFederationStep, To, EnsureFederationSiteTOML, Grounds, Built,
     InstalledIsWhole, ConfigComplete, UnitWritten, CaddyDone, FederationDone,
     AnalyticsDone, InstallerTypeOK, Answers, ChildOps, Confirmed, hostVars, unitVars,
     binVars, dbVars, configVars, inputs, cmdVars, installerVars, runVars, filesVars
<1>11. CASE EnsureAnalyticsStep
  BY <1>11 DEF EnsureAnalyticsStep, To, ScaffoldAnalytics, Grounds, Built, InstalledIsWhole,
     ConfigComplete, UnitWritten, CaddyDone, FederationDone, AnalyticsDone, InstallerTypeOK,
     Answers, ChildOps, Confirmed, hostVars, unitVars, binVars, dbVars, configVars, inputs,
     cmdVars, installerVars, runVars, filesVars
<1>12. CASE TelemetryGate
  BY <1>12 DEF TelemetryGate, To, Go, Spawn, Report, Grounds, Built, InstalledIsWhole,
     ConfigComplete, UnitWritten, CaddyDone, FederationDone, AnalyticsDone, InstallerTypeOK,
     Answers, ChildOps, Confirmed, hostVars, unitVars, binVars, dbVars, configVars, inputs,
     cmdVars, installerVars, runVars, filesVars
<1>13. CASE TelemetryDeclined
  BY <1>13 DEF TelemetryDeclined, To, Grounds, Built, InstalledIsWhole, ConfigComplete,
     UnitWritten, CaddyDone, FederationDone, AnalyticsDone, InstallerTypeOK, Answers,
     ChildOps, Confirmed, hostVars, unitVars, binVars, dbVars, configVars, inputs, cmdVars,
     installerVars, runVars, filesVars
<1>14. CASE TelemetryEnabled
  BY <1>14 DEF TelemetryEnabled, To, ChildEnded, Grounds, Built, InstalledIsWhole,
     ConfigComplete, UnitWritten, CaddyDone, FederationDone, AnalyticsDone, InstallerTypeOK,
     Answers, ChildOps, Confirmed, hostVars, unitVars, binVars, dbVars, configVars, inputs,
     cmdVars, installerVars, runVars, filesVars
<1>15. CASE AdminStatus
  BY <1>15 DEF AdminStatus, To, Go, Spawn, Report, Grounds, Built, InstalledIsWhole,
     ConfigComplete, UnitWritten, CaddyDone, FederationDone, AnalyticsDone, InstallerTypeOK,
     Answers, ChildOps, Confirmed, hostVars, unitVars, binVars, dbVars, configVars, inputs,
     cmdVars, installerVars, runVars, filesVars
<1>16. CASE AdminStatusRead
  BY <1>16 DEF AdminStatusRead, To, ChildEnded, Grounds, Built, InstalledIsWhole,
     ConfigComplete, UnitWritten, CaddyDone, FederationDone, AnalyticsDone, InstallerTypeOK,
     Answers, ChildOps, Confirmed, hostVars, unitVars, binVars, dbVars, configVars, inputs,
     cmdVars, installerVars, runVars, filesVars
<1>17. CASE AdminInit
  BY <1>17 DEF AdminInit, To, Go, Spawn, Report, Grounds, Built, InstalledIsWhole,
     ConfigComplete, UnitWritten, CaddyDone, FederationDone, AnalyticsDone, InstallerTypeOK,
     Answers, ChildOps, Confirmed, hostVars, unitVars, binVars, dbVars, configVars, inputs,
     cmdVars, installerVars, runVars, filesVars
<1>18. CASE AdminInitRead
  BY <1>18 DEF AdminInitRead, To, ChildEnded, Grounds, Built, InstalledIsWhole,
     ConfigComplete, UnitWritten, CaddyDone, FederationDone, AnalyticsDone, InstallerTypeOK,
     Answers, ChildOps, Confirmed, hostVars, unitVars, binVars, dbVars, configVars, inputs,
     cmdVars, installerVars, runVars, filesVars
<1>19. CASE RechownDataDir
  <2>1. PICK taken \in BOOLEAN : EnsureDataDir(taken) /\ chowned' = taken
    BY <1>19 DEF RechownDataDir
  <2>2. dbOwner # "absent"
    BY <1>19 DEF RechownDataDir, Grounds, Built, Answers
  <2>3. dbOwner' # "absent" /\ (chowned' => dbOwner' = "nitpub")
    BY <2>1, <2>2 DEF EnsureDataDir
  <2>4. QED
    BY <1>19, <2>3 DEF RechownDataDir, Grounds, Built, InstalledIsWhole,
       ConfigComplete, UnitWritten, CaddyDone, FederationDone, AnalyticsDone,
       InstallerTypeOK, unitVars, configVars, cmdVars, runVars, filesVars
<1>20. CASE Doctor
  BY <1>20 DEF Doctor, To, Healthy, ConfigComplete, Active, Grounds, Built,
     InstalledIsWhole, ConfigComplete, UnitWritten, CaddyDone, FederationDone,
     AnalyticsDone, InstallerTypeOK, Answers, ChildOps, Confirmed, hostVars, unitVars,
     binVars, dbVars, configVars, inputs, cmdVars, installerVars, runVars, filesVars
<1>21. CASE Fail
  BY <1>21 DEF Fail, To, Grounds, Built, InstalledIsWhole, ConfigComplete, UnitWritten,
     CaddyDone, FederationDone, AnalyticsDone, InstallerTypeOK, Answers, ChildOps,
     Confirmed, hostVars, unitVars, binVars, dbVars, configVars, inputs, cmdVars,
     installerVars, runVars, filesVars
<1>22. CASE UNCHANGED vars
  BY <1>22 DEF vars, Grounds, Built, InstalledIsWhole, ConfigComplete, UnitWritten,
     CaddyDone, FederationDone, AnalyticsDone, InstallerTypeOK, Answers, ChildOps,
     Confirmed, hostVars, unitVars, binVars, dbVars, configVars, inputs, cmdVars,
     installerVars, runVars, filesVars
<1> QED
  BY <1>1, <1>2, <1>3, <1>4, <1>5, <1>6, <1>7, <1>8, <1>9, <1>10, <1>11, <1>12, <1>13,
     <1>14, <1>15, <1>16, <1>17, <1>18, <1>19, <1>20, <1>21, <1>22 DEF Next, Install

\* The parts are invariant together.
LEMMA PartsHold == Spec => [](Duties /\ Answers /\ Grounds)
<1>1. Init => Duties /\ Answers /\ Grounds
  <2>1. Init => Duties /\ Grounds
    BY InstallAssumption DEF Init, OwnIf, Duties, StoppedWhere, ChildIdle, Waiting, DownIsOwed,
       RunsInstalled, Active, Grounds, Built, InstalledIsWhole, UnitWritten, CaddyDone,
       FederationDone, AnalyticsDone
  <2>2. Init => Answers
    BY InstallAssumption DEF Init, OwnIf, Answers, Opened, ChildOps, Confirmed
  <2>3. QED
    BY <2>1, <2>2
<1>2. InstallTypeOK /\ Duties /\ Answers /\ Grounds /\ [Next]_vars
        => Duties' /\ Answers' /\ Grounds'
  BY DutiesKept, AnswersKept, GroundsKept DEF InstallTypeOK, Duties
<1>3. QED
  BY <1>1, <1>2, InstallTypeCorrect, PTL DEF Spec

(* A run of the installer that ended well leaves everything it was asked for, and a *)
(* database of the service's user unless its chown failed unheard.                   *)
THEOREM InstallIsWhole == Spec => []InstalledIsWhole
<1>1. Grounds => InstalledIsWhole
  BY DEF Grounds
<1>2. QED
  BY <1>1, PartsHold, PTL

-----------------------------------------------------------------------------
(* What a step may do to a file, a site block or the account that is there. *)
Kept ==
    /\ config # "absent" => config' = config
    /\ site # "absent" => site' = site
    /\ blocks > 0 => blocks' = blocks
    /\ analytics => analytics'
    /\ admin # "absent" /\ admin' # admin =>
          \E c \in Cmd \ {Child} : at[c] = "work" /\ op[c] = "force"

Untouched == UNCHANGED <<config, site, blocks, analytics, admin>>

LEMMA UntouchedIsKept == Untouched => Kept
BY DEF Untouched, Kept

LEMMA CommandsKeep ==
    ASSUME ChildOps, NEW c \in Cmd, CommandStep(c), UNCHANGED installerVars
    PROVE  Kept
<1>1. UNCHANGED <<site, blocks, analytics>>
  BY DEF installerVars, filesVars
<1>2. CASE Work(c)
  <2>1. config' = config
    BY <1>2 DEF Work, configVars
  <2>2. admin # "absent" /\ admin' # admin => at[c] = "work" /\ op[c] = "force"
    BY <1>2 DEF Work, InitAdmin, AdminStatusOf, AccountCommand, TelemetryCommand,
       FederationCommand, ImportCommand
  <2>3. op[c] = "force" => c # Child
    BY DEF ChildOps
  <2>4. QED
    BY <1>1, <2>1, <2>2, <2>3 DEF Kept
<1>3. CASE ~Work(c)
  <2>1. UNCHANGED <<config, admin>>
    BY <1>3 DEF CommandStep, Proceed, Probe, StopService, StopRefused, OpenStore, OpenMustFail,
       OpenFails, RestartService, Fetch, InstallBinary, ReloadBinary, ReloadFails, Kill,
       configVars, dbVars
  <2>2. QED
    BY <1>1, <2>1, UntouchedIsKept DEF Untouched
<1>4. QED
  BY <1>2, <1>3

LEMMA InstallerKeeps ==
    ASSUME Install \/ Fail \/ \E choice \in GateChoices : Begin(choice)
    PROVE  Kept
<1>1. CASE WriteConfigStep
  BY <1>1 DEF WriteConfigStep, configVars, dbVars, filesVars, Kept
<1>2. CASE AppendSiteBlock
  BY <1>2 DEF AppendSiteBlock, SiteBlockPresent, hostVars, configVars, dbVars, Kept
<1>3. CASE EnsureFederationStep
  BY <1>3 DEF EnsureFederationStep, EnsureFederationSiteTOML, hostVars, configVars, dbVars, Kept
<1>4. CASE EnsureAnalyticsStep
  BY <1>4 DEF EnsureAnalyticsStep, ScaffoldAnalytics, dbVars, Kept
<1>5. CASE \/ EnsureSystemUserAndData \/ WriteUnit \/ EnableNow \/ RechownDataDir
           \/ TelemetryGate \/ AdminStatus \/ AdminInit
  <2>1. Untouched
    BY <1>5 DEF EnsureSystemUserAndData, WriteUnit, EnableNow, RechownDataDir, TelemetryGate,
       AdminStatus, AdminInit, Spawn, configVars, dbVars, filesVars, Untouched
  <2>2. QED
    BY <2>1, UntouchedIsKept
<1>6. CASE \/ CaddySkipped \/ ValidateAndReload \/ TelemetryDeclined \/ TelemetryEnabled
           \/ AdminStatusRead \/ AdminInitRead \/ Doctor \/ Fail
           \/ \E choice \in GateChoices : Begin(choice)
  <2>1. UNCHANGED <<hostVars, filesVars>>
    BY <1>6 DEF CaddySkipped, ValidateAndReload, TelemetryDeclined, TelemetryEnabled, ChildEnded,
       AdminStatusRead, AdminInitRead, Doctor, Fail, Begin
  <2>2. Untouched
    BY <2>1 DEF hostVars, configVars, dbVars, filesVars, Untouched
  <2>3. QED
    BY <2>2, UntouchedIsKept
<1>7. QED
  BY <1>1, <1>2, <1>3, <1>4, <1>5, <1>6 DEF Install

\* Re-runs are lossless, whatever the steps of a run that ended early and the commands
\* beside it: of what was there only the account changes, by an admin init --force that
\* the installer never gives.
THEOREM NothingIsOverwritten == Spec => Lossless
<1>1. ChildOps /\ [Next]_vars => [Kept]_vars
  <2> SUFFICES ASSUME ChildOps, Next PROVE Kept
    OBVIOUS
  <2>1. ASSUME NEW c \in Cmd, CommandStep(c), UNCHANGED installerVars
        PROVE  Kept
    BY <2>1, CommandsKeep
  <2>2. CASE (ServiceStep \/ Publish \/ ByHand) /\ UNCHANGED installerVars
    <3>1. Untouched
      BY <2>2 DEF ServiceStep, Boot, BootFails, Crash, Retry, StartByHand, StopByHand, Publish,
         ByHand, Invoke, installerVars, configVars, dbVars, filesVars, Untouched
    <3>2. QED
      BY <3>1, UntouchedIsKept
  <2>3. QED
    BY <2>1, <2>2, InstallerKeeps DEF Next, HostStep
<1>2. Answers => ChildOps
  BY DEF Answers
<1>3. Spec => [][Kept]_vars
  BY <1>1, <1>2, PartsHold, PTL DEF Spec
<1>4. QED
  BY <1>3 DEF Lossless, Kept
=============================================================================
