SPECIFICATION FairSpec
CONSTANTS
  MaxJobs = 1
  Members = {1}
  MaxStops = 2
  ResumeLimit = 1
  PipeFail = FALSE
  Commands <- JoinCommands
  Signals = {}
  ExternalSignals = FALSE
  ObserverFaults = FALSE
  TerminalFaults = FALSE
PROPERTY JoinEnds
CHECK_DEADLOCK FALSE
