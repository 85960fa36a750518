SPECIFICATION FairSpec
CONSTANTS
  MaxJobs = 2
  Members = {1}
  MaxStops = 1
  ResumeLimit = 1
  PipeFail = FALSE
  Commands <- WaitCommands
  Signals = {}
  ExternalSignals = FALSE
  ObserverFaults = FALSE
  TerminalFaults = FALSE
PROPERTY WaitEnds
CHECK_DEADLOCK FALSE
