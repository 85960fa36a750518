SPECIFICATION FairSpec
CONSTANTS
  MaxJobs = 1
  Members = {1, 2}
  MaxStops = 1
  ResumeLimit = 1
  PipeFail = TRUE
  Commands <- PipelineCommands
  Signals = {"terminate", "stop"}
  ExternalSignals = TRUE
  ObserverFaults = FALSE
  TerminalFaults = FALSE
INVARIANTS NoticesMatchRecords TableConverges CompletionIsReal
PROPERTIES JoinEnds TerminalComesBack
