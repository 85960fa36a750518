------------------------- MODULE MCBackgroundJobs -------------------------
(* Instances of BackgroundJobs for TLC. *)
EXTENDS BackgroundJobs

PromptCommands == {"start", "startFails", "jobs", "bg", "kill"}
AllCommands == PromptCommands \cup {"foreground", "fg", "wait", "join", "hangup"}
PipelineCommands == PromptCommands \cup {"foreground", "fg", "join", "hangup"}
TwoJobCommands == {"start", "fg", "wait", "join", "hangup"}
JoinCommands == {"start", "join"}
WaitCommands == {"start", "wait"}
=============================================================================
