\* The installer alone, asked for analytics.
SPECIFICATION Spec
CONSTANTS
    Cmd = {child}
    Child = child
    Service = Service Free = Free
    MaxRelease = 0
    Ops = {"account"}
    Prepared <- Hosts
    GateChoices <- AllGates
    MaxRuns = 1
INVARIANT ConfigReadable
CHECK_DEADLOCK FALSE
