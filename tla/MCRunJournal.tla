--------------------------- MODULE MCRunJournal ---------------------------
(* Command lines for the instances of RunJournal that TLC explores. *)
EXTENDS RunJournal

\* `execute` with no receipt
Plain == [task |-> FALSE, receipt |-> FALSE, require_true |-> FALSE,
          streams |-> FALSE, metadata_only |-> FALSE]
\* `execute --require-true` of a plan with native tools
Selected == [Plain EXCEPT !.receipt = TRUE, !.require_true = TRUE, !.metadata_only = TRUE]
\* `task run` of a maintained-only plan
TaskRun == [Plain EXCEPT !.task = TRUE, !.receipt = TRUE]
\* `task run --require-true` of a plan that reaches standard streams
TaskSelected == [Selected EXCEPT !.task = TRUE, !.streams = TRUE]

FaultRequests == {Plain, TaskSelected}
LimitRequests == {Selected, TaskRun}
ClockRequests == {Selected}

SteadyClock == {1}
SteppingClock == {0, 1}

=============================================================================
