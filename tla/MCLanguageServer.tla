------------------------- MODULE MCLanguageServer -------------------------
(* Small instances of LanguageServer.                                      *)
EXTENDS LanguageServer

\* "b" may be a link to the file of "a" or a file of its own.
LinkedUris == {"a", "b"}
LinkedIdentity == [u \in LinkedUris |-> IF u = "a" THEN {"file"} ELSE {"file", "other"}]
OneUri == {"a"}
OneIdentity == [u \in OneUri |-> {"file"}]
CleanOrNot == {{}, {"error"}}
=============================================================================
