--------------------------- MODULE MCToolProcess ---------------------------
(* Small instances of ToolProcess.                                         *)
EXTENDS ToolProcess

AllFaults == {"verify", "spawn", "setup", "read", "wait", "probe", "signal"}
=============================================================================
