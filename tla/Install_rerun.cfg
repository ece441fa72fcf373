\* Two runs of the installer beside one command of the administrator.
\* The host may be left alone once the bounded runs and commands are used up.
SPECIFICATION FairSpec
CONSTANTS
    Cmd = {c1, child}
    Child = child
    Service = Service Free = Free
    MaxRelease = 1
    Ops = {"force", "update"}
    Prepared <- Hosts
    GateChoices <- AllGates
    MaxRuns = 2
INVARIANTS InstallTypeOK CommandsOwe InstalledIsWhole
PROPERTIES Lossless ServiceReturns
CHECK_DEADLOCK FALSE
