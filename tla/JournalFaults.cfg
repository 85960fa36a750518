SPECIFICATION Spec
CONSTANTS
    MaxLines = 8
    MaxBytes = 100
    Reserve = 2
    Requests <- FaultRequests
    Nodes = {root}
    Root = root
    FinishTimes <- SteadyClock
    Sizes = {1}
    MaxDepth = 2
    MaxAttempts = 2
    MaxProbes = 1
    MaxHostFailures = 1
    MaxResources = 1
    MaxFaults = 1
INVARIANTS
    TypeOK
    JournalIsAuditable
    ReceiptAgreesWithAudit
    ExitIsEvidenced
PROPERTIES
    KeepsLog
