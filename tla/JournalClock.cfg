SPECIFICATION Spec
CONSTANTS
    MaxLines = 8
    MaxBytes = 100
    Reserve = 2
    Requests <- ClockRequests
    Nodes = {root}
    Root = root
    FinishTimes <- SteppingClock
    Sizes = {1}
    MaxDepth = 2
    MaxAttempts = 1
    MaxProbes = 1
    MaxHostFailures = 1
    MaxResources = 1
    MaxFaults = 0
INVARIANT
    PassAudits
