SPECIFICATION FairSpec
CONSTANTS
  MaxJobs = 1
  Members = {1}
  MaxStops = 2
  ResumeLimit = 1
  PipeFail = FALSE
  Commands <- AllCommands
  Signals = {"terminate", "kill", "stop"}
  ExternalSignals = TRUE
  ObserverFaults = TRUE
  TerminalFaults = TRUE
INVARIANTS TypeOK PublishedJobsAreSound AnsweredStopsAreStops IdentitiesFresh
PROPERTIES ImplementsLedger WaitEnds
