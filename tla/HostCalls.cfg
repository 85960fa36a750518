SPECIFICATION Spec
CONSTANTS
  Calls <- AllCalls
  MaxCalls = 2
  MaxHost = 5
  Candidates = 2
  Chunk = 2
  Word = 2
  Input = 2
  Retries = 1
  Faults = {"worker", "spawn", "endpoint", "budget", "cleanup"}
  MaxFaults = 1
INVARIANTS
  TypeOK
  AccountingSound
  StreamsExact
  NoDetachedWork
  CleanupSound
  NoLostSignal
PROPERTIES
  CancelledIsFinal
  CallsReturn
CHECK_DEADLOCK FALSE
