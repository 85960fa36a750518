SPECIFICATION Spec
CONSTANTS
  MaxJobs = 2
  Members = {1}
  MaxStops = 1
  ResumeLimit = 1
  PipeFail = FALSE
  Commands <- TwoJobCommands
  Signals = {}
  ExternalSignals = FALSE
  ObserverFaults = TRUE
  TerminalFaults = TRUE
INVARIANTS NoticesAddressable JoinReportsEveryFailure TerminalReturned
