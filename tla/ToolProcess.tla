---------------------------- MODULE ToolProcess ----------------------------
(***************************************************************************)
(* Running a locked tool: run_inner of                                     *)
(* opaal-runtime/src/operational/process.rs over run_process of            *)
(* opaal-platform-posix/src/operational.rs.  The tool is the leader of a   *)
(* process group of its own; it may start a child, which may leave the     *)
(* group or keep the pipes open when the leader is gone.  The supervisor   *)
(* polls: two pipes, cancellation, a deadline, an output limit, the        *)
(* leader's status and whether the group still exists, and on any failure  *)
(* terminates, drains and reaps within a bounded time.                     *)
(*                                                                         *)
(* One supervisor step is one system call; everything the processes do can *)
(* happen between two of them.                                             *)
(***************************************************************************)
EXTENDS Integers, FiniteSets

CONSTANTS
    MaxRuns,      \* bound: runs of one evaluation
    MaxAttempts,  \* MAX_PROCESS_ATTEMPTS
    Limit,        \* stdout_limit and stderr_limit
    MaxOutput,    \* bound: bytes written in one run
    Faults,       \* kinds of system call that may fail
    MaxFaults     \* bound: failures in one evaluation

ASSUME ToolAssumption ==
    /\ {MaxRuns, MaxAttempts, Limit, MaxOutput, MaxFaults} \subseteq Nat
    /\ Faults \subseteq {"verify", "spawn", "setup", "read", "wait", "probe", "signal"}

VARIABLES
    pc,        \* the supervisor
    phase,     \* wait_for_group: "first", "term", "kill"
    run,       \* locals of run_process: [eof, exceeded, reaped, dropped, primary, cleanup]
    retained,  \* Streams -> bytes kept
    outcome,   \* how the last run returned
    attempts,  \* ProcessBudget.attempts
    runs,      \* runs made
    cancel,    \* the evaluation has been cancelled
    late,      \* the run's deadline has passed
    grace,     \* the current wait_for_group's deadline has passed
    leader,    \* the tool: [life, group, holds, signal]
    child,     \* a descendant: the same
    pipe,      \* Streams -> bytes written and not yet read
    written,   \* Streams -> bytes written in this run
    faults

clocks == <<cancel, late, grace>>
processes == <<leader, child>>
pipes == <<pipe, written>>
budget == <<attempts, runs>>
vars == <<pc, phase, run, retained, outcome, budget, clocks, processes, pipes, faults>>

Streams == {"stdout", "stderr"}
NoProcess == [life |-> "none", group |-> "own", holds |-> FALSE, signal |-> "none"]
NewProcess == [life |-> "running", group |-> "own", holds |-> TRUE, signal |-> "none"]
NoRun == [eof |-> {}, exceeded |-> FALSE, reaped |-> FALSE, dropped |-> FALSE,
          primary |-> "none", cleanup |-> FALSE]

Init ==
    /\ pc = "idle" /\ phase = "first" /\ run = NoRun
    /\ retained = [s \in Streams |-> 0] /\ outcome = "none"
    /\ attempts = 0 /\ runs = 0
    /\ cancel = FALSE /\ late = FALSE /\ grace = FALSE
    /\ leader = NoProcess /\ child = NoProcess
    /\ pipe = [s \in Streams |-> 0] /\ written = [s \in Streams |-> 0]
    /\ faults = 0

Fault(kind) == kind \in Faults /\ faults < MaxFaults /\ faults' = faults + 1
NoFault == UNCHANGED faults

-----------------------------------------------------------------------------
(* The processes and the clocks.                                           *)

Running(p) == p.life = "running"
\* A zombie is a member of its group until it is waited for.
InGroup(p) == p.group = "own" /\ p.life \in {"running", "zombie"}
GroupExists == InGroup(leader) \/ InGroup(child)
Holders == {p \in {leader, child} : Running(p) /\ p.holds}

\* What a process does of its own accord, unless it has been killed.
Acts(p) == Running(p) /\ p.signal # "KILL"

OnlyProcesses == UNCHANGED <<pc, phase, run, retained, outcome, budget, clocks, faults>>

\* The supervisor drops its ends of the pipes when run_process returns.
PipesOpen == pc \notin {"idle", "admit", "verify", "start", "finish"} /\ ~run.dropped

Writes(p, s) ==
    /\ Acts(p) /\ p.holds /\ PipesOpen /\ written["stdout"] + written["stderr"] < MaxOutput
    /\ pipe' = [pipe EXCEPT ![s] = @ + 1]
    /\ written' = [written EXCEPT ![s] = @ + 1]
    /\ UNCHANGED processes /\ OnlyProcesses

StartsChild ==
    /\ Acts(leader) /\ child.life = "none"
    /\ child' = [NewProcess EXCEPT !.holds = leader.holds]
    /\ UNCHANGED <<leader, pipes>> /\ OnlyProcesses

ChildLeavesGroup ==
    /\ Acts(child) /\ child.group = "own"
    /\ child' = [child EXCEPT !.group = "other"]
    /\ UNCHANGED <<leader, pipes>> /\ OnlyProcesses

ClosesPipes ==
    /\ \/ Acts(leader) /\ leader.holds /\ leader' = [leader EXCEPT !.holds = FALSE]
          /\ UNCHANGED child
       \/ Acts(child) /\ child.holds /\ child' = [child EXCEPT !.holds = FALSE]
          /\ UNCHANGED leader
    /\ UNCHANGED pipes /\ OnlyProcesses

\* By itself, or because of a signal.
Exits ==
    /\ \/ Running(leader) /\ leader' = [leader EXCEPT !.life = "zombie", !.holds = FALSE]
          /\ UNCHANGED child
       \/ Running(child) /\ child' = [child EXCEPT !.life = "zombie", !.holds = FALSE]
          /\ UNCHANGED leader
    /\ UNCHANGED pipes /\ OnlyProcesses

\* The child is waited for by the leader, or by init once that is gone.
ChildReaped ==
    /\ child.life = "zombie"
    /\ child' = [child EXCEPT !.life = "gone"]
    /\ UNCHANGED <<leader, pipes>> /\ OnlyProcesses

Processes ==
    \/ \E p \in {leader, child}, s \in Streams : Writes(p, s)
    \/ StartsChild \/ ChildLeavesGroup \/ ClosesPipes \/ Exits \/ ChildReaped

OnlyClocks == UNCHANGED <<pc, phase, run, retained, outcome, budget, processes, pipes, faults>>

CancelRequested ==
    /\ ~cancel /\ cancel' = TRUE
    /\ UNCHANGED <<late, grace>> /\ OnlyClocks

Polling == {"read stdout", "read stderr", "check", "wait", "group"}
Cleaning == {"clean stdout", "clean stderr", "clean wait", "clean group"}

DeadlinePasses ==
    /\ ~late /\ pc \in Polling
    /\ late' = TRUE
    /\ UNCHANGED <<cancel, grace>> /\ OnlyClocks

GracePasses ==
    /\ ~grace /\ pc \in Cleaning /\ phase # "first"
    /\ grace' = TRUE
    /\ UNCHANGED <<cancel, late>> /\ OnlyClocks

-----------------------------------------------------------------------------
(* run_inner: budget, verification, charge.                                *)

Return(result) == pc' = "idle" /\ outcome' = result

Invoke ==
    /\ pc = "idle" /\ runs < MaxRuns
    /\ runs' = runs + 1
    /\ pc' = "admit" /\ outcome' = "none"
    /\ UNCHANGED <<phase, run, retained, attempts, clocks, processes, pipes, faults>>

AdmitFails ==
    /\ pc = "admit"
    /\ \/ attempts = MaxAttempts /\ Return("exhausted")
       \/ attempts # MaxAttempts /\ cancel /\ Return("cancelled")
    /\ UNCHANGED <<phase, run, retained, budget, clocks, processes, pipes, faults>>

Admit ==
    /\ pc = "admit" /\ attempts # MaxAttempts /\ ~cancel
    /\ pc' = "verify"
    /\ UNCHANGED <<phase, run, retained, outcome, budget, clocks, processes, pipes, faults>>

\* The executable's digest is read in pieces with polls between them.
VerifyFails ==
    /\ pc = "verify"
    /\ \/ cancel /\ Return("cancelled") /\ NoFault
       \/ Fault("verify") /\ Return("refused")
    /\ UNCHANGED <<phase, run, retained, budget, clocks, processes, pipes>>

\* The attempt is charged whatever becomes of the process.
Verified ==
    /\ pc = "verify" /\ ~cancel
    /\ attempts' = attempts + 1
    /\ pc' = "start"
    /\ UNCHANGED <<phase, run, retained, outcome, runs, clocks, processes, pipes, faults>>

\* adapter_error: what the caller of run_inner sees.
Reported(primary) == IF primary \in {"cancelled", "timed_out"} THEN "cancelled" ELSE primary

StartFails ==
    /\ pc = "start"
    /\ \/ cancel /\ Return("cancelled") /\ NoFault
       \/ ~cancel /\ Fault("spawn") /\ Return("io")
    /\ UNCHANGED <<phase, run, retained, budget, clocks, processes, pipes>>

Start ==
    /\ pc = "start" /\ ~cancel
    /\ leader' = NewProcess
    /\ pc' = "setup"
    /\ UNCHANGED <<phase, run, retained, outcome, budget, clocks, child, pipes, faults>>

-----------------------------------------------------------------------------
(* run_process: the polling loop.                                          *)

\* wait_for_group starts over with both pipes.
Enter(p, local) ==
    /\ phase' = p /\ grace' = FALSE
    /\ pc' = "clean stdout" /\ run' = [local EXCEPT !.eof = {}]

\* terminate_and_reap, with the error that made it necessary.
Terminate(primary) ==
    /\ pc' = "reap" /\ run' = [run EXCEPT !.primary = primary]
    /\ UNCHANGED phase
\* terminate_and_reap_after_status.
TerminateAfterStatus(primary) ==
    /\ pc' = "signal" /\ phase' = "term"
    /\ run' = [run EXCEPT !.primary = primary]

\* If the pipes cannot be made nonblocking they are dropped first.
Setup ==
    /\ pc = "setup"
    /\ \/ NoFault /\ pc' = "read stdout" /\ UNCHANGED <<run, phase>>
       \/ /\ Fault("setup") /\ pc' = "reap" /\ UNCHANGED phase
          /\ run' = [run EXCEPT !.primary = "io", !.dropped = TRUE]
    /\ UNCHANGED <<retained, outcome, budget, clocks, processes, pipes>>

Ended(s) == run.dropped \/ (pipe[s] = 0 /\ Holders = {})

(* Mutant: the whole read is kept, and the limit noticed afterwards. *)
Drain_KeepsAll(s, local) ==
    \/ /\ Ended(s) \/ pipe[s] = 0
       /\ run' = [local EXCEPT !.eof = IF Ended(s) THEN @ \cup {s} ELSE @]
       /\ UNCHANGED <<retained, pipe>>
    \/ \E n \in 1..pipe[s] :
          /\ ~run.dropped
          /\ retained' = [retained EXCEPT ![s] = @ + n]
          /\ pipe' = [pipe EXCEPT ![s] = @ - n]
          /\ run' = [local EXCEPT !.exceeded = @ \/ n > Limit - retained[s]]

\* drain_nonblocking: one read; what exceeds the limit is dropped and noted.
Drain(s, local) ==
    \/ /\ Ended(s) \/ pipe[s] = 0
       /\ run' = [local EXCEPT !.eof = IF Ended(s) THEN @ \cup {s} ELSE @]
       /\ UNCHANGED <<retained, pipe>>
    \/ \E n \in 1..pipe[s] :
          LET admitted == IF n <= Limit - retained[s] THEN n ELSE Limit - retained[s]
          IN  /\ ~run.dropped
              /\ retained' = [retained EXCEPT ![s] = @ + admitted]
              /\ pipe' = [pipe EXCEPT ![s] = @ - n]
              /\ run' = [local EXCEPT !.exceeded = @ \/ admitted # n]

ReadStep(at, s, next) ==
    /\ pc = at
    /\ \/ s \notin run.eof /\ Drain(s, run) /\ pc' = next /\ NoFault /\ UNCHANGED phase
       \/ /\ s \in run.eof /\ pc' = next /\ NoFault
          /\ UNCHANGED <<run, retained, pipe, phase>>
       \/ s \notin run.eof /\ Fault("read") /\ Terminate("io") /\ UNCHANGED <<retained, pipe>>
    /\ UNCHANGED <<outcome, budget, clocks, processes, written>>

Read == ReadStep("read stdout", "stdout", "read stderr") \/ ReadStep("read stderr", "stderr", "check")

\* Cancellation, then the deadline, then the output limit.
Check ==
    /\ pc = "check"
    /\ \/ cancel /\ Terminate("cancelled")
       \/ ~cancel /\ late /\ Terminate("timed_out")
       \/ ~cancel /\ ~late /\ run.exceeded /\ Terminate("limit")
       \/ ~cancel /\ ~late /\ ~run.exceeded /\ pc' = "wait" /\ UNCHANGED <<run, phase>>
    /\ UNCHANGED <<retained, outcome, budget, clocks, processes, pipes, faults>>

\* try_wait: a status once seen is remembered.
TryWait(local) ==
    \/ run.reaped /\ run' = local /\ UNCHANGED leader
    \/ /\ ~run.reaped /\ leader.life = "zombie"
       /\ leader' = [leader EXCEPT !.life = "gone"]
       /\ run' = [local EXCEPT !.reaped = TRUE]
    \/ ~run.reaped /\ leader.life # "zombie" /\ run' = local /\ UNCHANGED leader

Wait ==
    /\ pc = "wait"
    /\ \/ /\ TryWait(run) /\ NoFault /\ UNCHANGED phase
          /\ pc' = IF run'.reaped THEN "group" ELSE "read stdout"
       \/ ~run.reaped /\ Fault("wait") /\ Terminate("io") /\ UNCHANGED leader
    /\ UNCHANGED <<retained, outcome, budget, clocks, child, pipes>>

(* Mutant: the leader's exit ends the run although output is still unread. *)
Group_IgnoresPipes ==
    /\ pc = "group"
    /\ \/ Fault("probe") /\ TerminateAfterStatus("io")
       \/ ~GroupExists /\ NoFault /\ UNCHANGED <<run, phase>> /\ pc' = "finish"
       \/ GroupExists /\ NoFault /\ TerminateAfterStatus("protocol")
    /\ UNCHANGED <<retained, outcome, budget, clocks, processes, pipes>>

\* The leader has been waited for: a group that still exists is an error, a
\* pipe that is still open is waited for.
Group ==
    /\ pc = "group"
    /\ \/ Fault("probe") /\ TerminateAfterStatus("io")
       \/ /\ ~GroupExists /\ NoFault /\ UNCHANGED <<run, phase>>
          /\ pc' = IF run.eof = Streams THEN "finish" ELSE "read stdout"
       \/ GroupExists /\ NoFault /\ TerminateAfterStatus("protocol")
    /\ UNCHANGED <<retained, outcome, budget, clocks, processes, pipes>>

-----------------------------------------------------------------------------
(* terminate_and_reap: look once, SIGTERM, five seconds, SIGKILL, five     *)
(* seconds, and give up with an error.                                     *)

Reap ==
    /\ pc = "reap"
    /\ \/ /\ NoFault /\ TryWait([run EXCEPT !.eof = {}])
       \/ /\ ~run.reaped /\ Fault("wait")
          /\ run' = [run EXCEPT !.cleanup = TRUE, !.eof = {}] /\ UNCHANGED leader
    /\ pc' = "clean stdout" /\ phase' = "first" /\ grace' = FALSE
    /\ UNCHANGED <<retained, outcome, budget, cancel, late, child, pipes>>

\* An error counts as the end of the pipe, and as a failed cleanup.
CleanStep(at, s, next) ==
    /\ pc = at /\ pc' = next
    /\ \/ s \notin run.eof /\ Drain(s, run) /\ NoFault
       \/ s \in run.eof /\ NoFault /\ UNCHANGED <<run, retained, pipe>>
       \/ /\ s \notin run.eof /\ Fault("read") /\ UNCHANGED <<retained, pipe>>
          /\ run' = [run EXCEPT !.cleanup = TRUE, !.eof = @ \cup {s}]
    /\ UNCHANGED <<phase, outcome, budget, clocks, processes, written>>

CleanRead ==
    \/ CleanStep("clean stdout", "stdout", "clean stderr")
    \/ CleanStep("clean stderr", "stderr", "clean wait")

CleanWait ==
    /\ pc = "clean wait" /\ pc' = "clean group"
    /\ \/ TryWait(run) /\ NoFault
       \/ ~run.reaped /\ Fault("wait") /\ run' = [run EXCEPT !.cleanup = TRUE] /\ UNCHANGED leader
    /\ UNCHANGED <<phase, retained, outcome, budget, clocks, child, pipes>>

(* Mutant: the leader's death and the end of its pipes end the cleanup. *)
Gone_LeaderOnly == run.reaped /\ run.eof = Streams

\* Nothing is left: the leader waited for, both pipes ended, no group.
Gone == run.reaped /\ run.eof = Streams /\ ~GroupExists

Expired == phase = "first" \/ grace
GiveUp(local) ==
    CASE phase = "first" -> pc' = "signal" /\ phase' = "term" /\ run' = local
      [] phase = "term"  -> pc' = "signal" /\ phase' = "kill" /\ run' = local
      [] phase = "kill"  -> pc' = "finish" /\ run' = [local EXCEPT !.cleanup = TRUE] /\ UNCHANGED phase

(* Mutant: after SIGKILL the group is waited for without a deadline. *)
CleanGroup_Patient ==
    /\ pc = "clean group"
    /\ NoFault
    /\ IF Gone THEN pc' = "finish" /\ UNCHANGED <<run, phase>>
       ELSE IF Expired /\ phase # "kill" THEN GiveUp(run)
       ELSE pc' = "clean stdout" /\ UNCHANGED <<run, phase>>
    /\ UNCHANGED <<retained, outcome, budget, clocks, processes, pipes>>

\* A failing probe counts as an existing group.
CleanGroup ==
    /\ pc = "clean group"
    /\ \/ /\ Gone /\ NoFault
          /\ pc' = "finish" /\ UNCHANGED <<run, phase>>
       \/ /\ ~Gone /\ NoFault
          /\ IF Expired THEN GiveUp(run) ELSE pc' = "clean stdout" /\ UNCHANGED <<run, phase>>
       \/ /\ Fault("probe")
          /\ LET failed == [run EXCEPT !.cleanup = TRUE]
             IN  IF Expired THEN GiveUp(failed)
                 ELSE pc' = "clean stdout" /\ run' = failed /\ UNCHANGED phase
    /\ UNCHANGED <<retained, outcome, budget, clocks, processes, pipes>>

\* signal_group: every member that still runs; a group that is gone is no error.
Signalled(p) ==
    IF Running(p) /\ p.group = "own"
    THEN [p EXCEPT !.signal = IF phase = "kill" THEN "KILL" ELSE "TERM"] ELSE p

SignalGroup ==
    /\ pc = "signal"
    /\ \/ /\ NoFault /\ Enter(phase, run)
          /\ leader' = Signalled(leader) /\ child' = Signalled(child)
       \/ /\ Fault("signal") /\ Enter(phase, [run EXCEPT !.cleanup = TRUE])
          /\ UNCHANGED processes
    /\ UNCHANGED <<retained, outcome, budget, cancel, late, pipes>>

\* run_process returns; run_inner polls once more before it believes success.
\* Nobody observes what may be left of the run.
Finish ==
    /\ pc = "finish"
    /\ Return(IF run.primary # "none" THEN Reported(run.primary)
              ELSE IF cancel THEN "cancelled" ELSE "ok")
    /\ run' = NoRun /\ phase' = "first" /\ late' = FALSE /\ grace' = FALSE
    /\ leader' = NoProcess /\ child' = NoProcess
    /\ pipe' = [s \in Streams |-> 0] /\ written' = [s \in Streams |-> 0]
    /\ retained' = [s \in Streams |-> 0]
    /\ UNCHANGED <<budget, cancel, faults>>

-----------------------------------------------------------------------------
Supervisor ==
    \/ AdmitFails \/ Admit \/ VerifyFails \/ Verified \/ StartFails \/ Start \/ Setup
    \/ Read \/ Check \/ Wait \/ Group
    \/ Reap \/ CleanRead \/ CleanWait \/ CleanGroup \/ SignalGroup \/ Finish

Next == Invoke \/ Supervisor \/ Processes \/ CancelRequested \/ DeadlinePasses \/ GracePasses

\* The supervisor runs and time passes.  Nothing is assumed of the processes:
\* they may ignore SIGTERM, or be where SIGKILL does not reach them.
Spec ==
    /\ Init /\ [][Next]_vars
    /\ WF_vars(Supervisor) /\ WF_vars(DeadlinePasses) /\ WF_vars(GracePasses)

-----------------------------------------------------------------------------
(* Properties.                                                             *)

Life == {"none", "running", "zombie", "gone"}
ProcessType == [life : Life, group : {"own", "other"}, holds : BOOLEAN,
                signal : {"none", "TERM", "KILL"}]
RunType == [eof : SUBSET Streams, exceeded : BOOLEAN, reaped : BOOLEAN, dropped : BOOLEAN,
            primary : {"none", "cancelled", "timed_out", "limit", "protocol", "io"},
            cleanup : BOOLEAN]
Labels == {"idle", "admit", "verify", "start", "setup", "reap", "signal", "finish"}
              \cup Polling \cup Cleaning
Outcomes == {"none", "ok", "cancelled", "exhausted", "refused", "limit", "protocol", "io"}

TypeOK ==
    /\ pc \in Labels /\ phase \in {"first", "term", "kill"} /\ outcome \in Outcomes
    /\ run \in RunType
    /\ retained \in [Streams -> 0..Limit]
    /\ attempts \in 0..MaxAttempts /\ runs \in Nat /\ faults \in Nat
    /\ cancel \in BOOLEAN /\ late \in BOOLEAN /\ grace \in BOOLEAN
    /\ leader \in ProcessType /\ child \in ProcessType
    /\ pipe \in [Streams -> Nat] /\ written \in [Streams -> Nat]

\* When run_process returns, with success or with an error that mentions no
\* failed cleanup, nothing of the run is left: the leader has been waited for,
\* its group is empty and no process has the pipes open.
NoSurvivors ==
    (pc = "finish" /\ ~run.cleanup) =>
        /\ leader.life = "gone" /\ ~GroupExists
        /\ run.dropped \/ Holders = {}

\* A run that succeeds returns all the output of all its processes, to the
\* last byte written before the last of them closed the pipe.
OutputComplete ==
    (pc = "finish" /\ run.primary = "none") => retained = written

\* Every run returns, whatever the tool and its descendants do: ignore
\* signals, write for ever, leave the group or keep the pipes open.
Returns == pc = "admit" ~> pc = "idle"
=============================================================================
