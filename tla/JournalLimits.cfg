SPECIFICATION Spec
CONSTANTS
    MaxLines = 8
    MaxBytes = 9
    Reserve = 2
    Requests <- LimitRequests
    Nodes = {root}
    Root = root
    FinishTimes <- SteadyClock
    Sizes = {1, 2}
    MaxDepth = 2
    MaxAttempts = 2
    MaxProbes = 1
    MaxHostFailures = 2
    MaxResources = 1
    MaxFaults = 0
INVARIANTS
    JournalIsAuditable
    CompleteAccountsForEffects
