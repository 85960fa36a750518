SPECIFICATION Spec
CONSTANTS
  Uris <- LinkedUris
  Identity <- LinkedIdentity
  Ids = {1}
  Methods = {"initialize", "refused"}
  Endings = {"eof", "failure", "garbage"}
  Diagnostics <- CleanOrNot
  MaxVersion = 2
  MaxEdits = 4
  MaxCancels = 0
  MaxInbox = 1
INVARIANTS
  TypeOK
  ViewIsPublished
  NewestIsOwed
CHECK_DEADLOCK FALSE
