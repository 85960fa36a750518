SPECIFICATION Spec
CONSTANTS
  Uris <- OneUri
  Identity <- OneIdentity
  Ids = {1, 2, 3}
  Methods = {"initialize", "shutdown", "request"}
  Endings = {"exit"}
  Diagnostics <- CleanOrNot
  MaxVersion = 2
  MaxEdits = 2
  MaxCancels = 1
  MaxInbox = 1
INVARIANTS
  RequestAccounted
PROPERTIES
  KeepsContract
  RequestsAnswered
  DiagnosticsSettle
CHECK_DEADLOCK FALSE
