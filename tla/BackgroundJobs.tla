--------------------------- MODULE BackgroundJobs ---------------------------
(***************************************************************************)
(* The session-owned job table and raw-observation coordinator of OPAAL    *)
(* (crates/opaal-runtime/src/background.rs, driven by session.rs).         *)
(*                                                                         *)
(* Three kinds of actor share the state:                                   *)
(*   - the session thread, which alone reads and writes the table (rec,    *)
(*     table, notices) and runs one command at a time (call);              *)
(*   - one observer thread per child, which blocks in waitpid and appends  *)
(*     what it saw to the mpsc channel (events);                           *)
(*   - the host: processes that stop, continue and exit on their own, and  *)
(*     the kernel's one-deep memory of the last unreported stop or         *)
(*     continuation of each child (report).                                *)
(* The session thread never holds a lock while it works: between any two   *)
(* of its steps the observers and the host may move.                       *)
(***************************************************************************)
EXTENDS Naturals, Sequences, Job

CONSTANTS
  MaxJobs,        \* job identities explored
  MaxStops,       \* stops one process undergoes
  ResumeLimit,    \* AUTOMATIC_RESUME_LIMIT of eval.rs (16 in the code)
  PipeFail,       \* the pipefail option the jobs were planned under
  Commands,       \* the session operations explored
  Signals,        \* the signals "kill" may be asked to send
  ExternalSignals,\* whether others may continue or kill the processes
  ObserverFaults, \* whether waitpid may fail
  TerminalFaults  \* whether a terminal operation may fail

ASSUME BoundsAssumption ==
  /\ MaxJobs \in Nat \ {0}
  /\ Members \subseteq Nat /\ Members # {}
  /\ MaxStops \in Nat /\ ResumeLimit \in Nat

ASSUME SwitchesAssumption ==
  /\ PipeFail \in BOOLEAN /\ ExternalSignals \in BOOLEAN
  /\ ObserverFaults \in BOOLEAN /\ TerminalFaults \in BOOLEAN

JobIds == 1..MaxJobs
Shell  == 0                       \* the terminal's owner when no job has it

VARIABLES
  table,     \* the addressable job identities
  rec,       \* JobRecord of each identity
  notices,   \* the notice queue; its order is the order of the notice ids
  nextJob, nextNotice,
  events,    \* the observation channel
  os,        \* what each process is really doing
  report,    \* the stop or continuation waitpid has not reported yet
  code,      \* the exit status of a finished process
  stops,     \* how often each process has stopped
  obs,       \* the observer thread of each child
  terminal,  \* the foreground terminal: its owner, the owner the guard that
             \* is held will give it back to, and whether one ever could not
  call       \* the session thread's program counter and locals

tableVars == <<table, rec, notices, nextNotice>>
hostVars  == <<os, report, code, stops>>
vars == <<table, rec, notices, nextJob, nextNotice, events, os, report, code,
          stops, obs, terminal, call>>

-----------------------------------------------------------------------------
Status     == {"ok", "err"}
JobSignals == {"hangup", "interrupt", "terminate", "kill", "stop", "continue"}
Reasons    == {"exited", "observation", "signal"}

NewRecord == [job                |-> NewJob,
              status             |-> [m \in Members |-> "none"],
              completion         |-> "none",
              observation_failed |-> FALSE,
              resume_requested   |-> FALSE]

Idle == [pc |-> "idle", next |-> "idle", op |-> "none", job |-> Shell, 
         signal |-> "continue", idx |-> 1, selected |-> <<>>, stopped |-> {},
         resumes |-> [j \in JobIds |-> [m \in Members |-> 0]],
         failures |-> <<>>, held |-> <<>>]

Init ==
  /\ table = {} /\ rec = [j \in JobIds |-> NewRecord]
  /\ notices = {} /\ nextJob = 1 /\ nextNotice = 1
  /\ events = <<>>
  /\ os     = [j \in JobIds |-> [m \in Members |-> "none"]]
  /\ report = [j \in JobIds |-> [m \in Members |-> "none"]]
  /\ code   = [j \in JobIds |-> [m \in Members |-> "none"]]
  /\ stops  = [j \in JobIds |-> [m \in Members |-> 0]]
  /\ obs    = [j \in JobIds |-> [m \in Members |-> "none"]]
  /\ terminal = [owner |-> Shell, previous |-> Shell, lost |-> FALSE]
  /\ call = Idle

-----------------------------------------------------------------------------
(* The host. *)

(* The stops that MaxStops bounds include the one a kill is about to send. *)
StopPending(j) == call.signal = "stop" /\ call.job = j

(* A process stops by itself (a terminal stop, or a signal from outside). *)
HostStop(j, m) ==
  /\ os[j][m] = "running" /\ ~StopPending(j) /\ stops[j][m] < MaxStops
  /\ os'     = [os EXCEPT ![j][m] = "stopped"]
  /\ report' = [report EXCEPT ![j][m] = "stopped"]
  /\ stops'  = [stops EXCEPT ![j][m] = @ + 1]
  /\ UNCHANGED <<tableVars, nextJob, events, code, obs, terminal, call>>

(* Another process continues it.  The kernel forgets an unreported stop. *)
HostContinue(j, m) ==
  /\ ExternalSignals /\ os[j][m] = "stopped"
  /\ os'     = [os EXCEPT ![j][m] = "running"]
  /\ report' = [report EXCEPT ![j][m] = "continued"]
  /\ UNCHANGED <<tableVars, nextJob, events, code, stops, obs, terminal, call>>

(* It exits while running, or is killed from outside while stopped.  From  *)
(* here on waitpid reports the exit only.                                  *)
HostExit(j, m, s) ==
  /\ \/ os[j][m] = "running"
     \/ ExternalSignals /\ os[j][m] = "stopped" /\ s = "err"
  /\ os'     = [os EXCEPT ![j][m] = "zombie"]
  /\ report' = [report EXCEPT ![j][m] = "none"]
  /\ code'   = [code EXCEPT ![j][m] = s]
  /\ UNCHANGED <<tableVars, nextJob, events, stops, obs, terminal, call>>

Alive(p) == p \in {"running", "stopped"}

(* killpg reaches a group while any member, a zombie included, remains. *)
GroupExists(j) ==
  \E m \in Members : os[j][m] \in {"running", "stopped", "zombie"}

(* The effect of a delivered group signal; whether and when a process acts *)
(* on hangup, interrupt or terminate is its own choice (HostExit).         *)
Delivered(j, s) ==
  CASE s = "continue" ->
         /\ os' = [os EXCEPT ![j] = [m \in Members |->
                     IF @[m] = "stopped" THEN "running" ELSE @[m]]]
         /\ report' = [report EXCEPT ![j] = [m \in Members |->
                     IF os[j][m] = "stopped" THEN "continued" ELSE @[m]]]
         /\ UNCHANGED <<code, stops>>
    [] s = "stop" ->
         /\ os' = [os EXCEPT ![j] = [m \in Members |->
                     IF @[m] = "running" THEN "stopped" ELSE @[m]]]
         /\ report' = [report EXCEPT ![j] = [m \in Members |->
                     IF os[j][m] = "running" THEN "stopped" ELSE @[m]]]
         /\ stops' = [stops EXCEPT ![j] = [m \in Members |->
                     IF os[j][m] = "running" THEN @[m] + 1 ELSE @[m]]]
         /\ UNCHANGED code
    [] s = "kill" ->
         /\ os' = [os EXCEPT ![j] = [m \in Members |->
                     IF Alive(@[m]) THEN "zombie" ELSE @[m]]]
         /\ report' = [report EXCEPT ![j] = [m \in Members |->
                     IF Alive(os[j][m]) THEN "none" ELSE @[m]]]
         /\ code' = [code EXCEPT ![j] = [m \in Members |->
                     IF Alive(os[j][m]) THEN "err" ELSE @[m]]]
         /\ UNCHANGED stops
    [] OTHER -> UNCHANGED hostVars

-----------------------------------------------------------------------------
(* The observer threads: observe_child runs observe_one_transition until a *)
(* terminal observation has been sent.                                     *)

Observation(k, j, m, s) == [kind |-> k, job |-> j, member |-> m, status |-> s]

(* waitpid returned a stop or a continuation. *)
ObserveTransition(j, m) ==
  /\ obs[j][m] = "waiting" /\ report[j][m] # "none"
  /\ report' = [report EXCEPT ![j][m] = "none"]
  /\ events' = Append(events, Observation(report[j][m], j, m, "none"))
  /\ UNCHANGED <<tableVars, nextJob, os, code, stops, obs, terminal, call>>

(* waitpid reaped the child: the last observation of this thread. *)
ObserveExit(j, m) ==
  /\ obs[j][m] = "waiting" /\ os[j][m] = "zombie"
  /\ os'  = [os EXCEPT ![j][m] = "gone"]
  /\ obs' = [obs EXCEPT ![j][m] = "done"]
  /\ events' = Append(events, Observation("completed", j, m, code[j][m]))
  /\ UNCHANGED <<tableVars, nextJob, report, code, stops, terminal, call>>

(* waitpid failed: the child is killed and waited once more.  Either that  *)
(* wait yields its status, or observation is abandoned.                    *)
ObserveFailure(j, m) ==
  /\ ObserverFaults /\ obs[j][m] = "waiting"
  /\ obs' = [obs EXCEPT ![j][m] = "done"]
  /\ report' = [report EXCEPT ![j][m] = "none"]
  /\ LET s == IF Alive(os[j][m]) THEN "err" ELSE code[j][m] IN
       /\ code' = [code EXCEPT ![j][m] = s]
       /\ \/ /\ os' = [os EXCEPT ![j][m] = "gone"]
             /\ events' = Append(events, Observation("completed", j, m, s))
          \/ /\ os' = [os EXCEPT ![j][m] = "zombie"]
             /\ events' = Append(events, Observation("failed", j, m, "none"))
  /\ UNCHANGED <<tableVars, nextJob, stops, terminal, call>>

-----------------------------------------------------------------------------
(* Applying one observation to the table (apply_observation). *)

Stopped(r) == r.job.state = "stopped"
Live(r)    == r.completion = "none" /\ ~r.observation_failed

(* aggregate_statuses: under pipefail the last failing stage decides, else *)
(* the last stage.                                                         *)
Aggregate(r) ==
  LET stages == {m \in Members : r.job.members[m] # "absent"} IN
  IF \E m \in stages : /\ r.status[m] = "err"
                       /\ PipeFail \/ \A k \in stages : k <= m
  THEN "err" ELSE "ok"

OnStopped(r, m) ==
  LET j == ObserveStopped(r.job, m) IN
  [r EXCEPT !.job = j,
            !.resume_requested = @ /\ ~(r.job.state # "stopped" /\ j.state = "stopped")]

(* Mutant: the answered mark outlives the stop. *)
OnContinued_KeepsMark(r, m) == [r EXCEPT !.job = ObserveContinued(r.job, m)]

OnContinued(r, m) ==
  [r EXCEPT !.job = ObserveContinued(r.job, m), !.resume_requested = FALSE]

OnCompleted(r, m, s) ==
  LET r1 == [r EXCEPT !.job = ObserveCompleted(r.job, m), !.status[m] = s] IN
  [r1 EXCEPT !.completion = IF r1.job.state = "completed" THEN Aggregate(r1) ELSE @]

(* Mutant: a lost member counts as a failed exit. *)
OnFailed_Completes(r) == [r EXCEPT !.observation_failed = TRUE, !.completion = "err"]

OnFailed(r) == [r EXCEPT !.observation_failed = TRUE]

(* The record after an observation; one its job refuses changes nothing. *)
Observed(r, e) ==
  IF e.kind = "failed" THEN OnFailed(r)
  ELSE IF ~Accepts(r.job, e.member) THEN r
  ELSE CASE e.kind = "stopped"   -> OnStopped(r, e.member)
         [] e.kind = "continued" -> OnContinued(r, e.member)
         [] e.kind = "completed" -> OnCompleted(r, e.member, e.status)

(* The notice it queues: a newly reached stop or completion, or the first  *)
(* loss of observation.                                                    *)
NoticeOf(r, r1, e) ==
  IF e.kind = "failed"
  THEN IF r.observation_failed THEN "none" ELSE "failed"
  ELSE IF r.job.state # "completed" /\ r1.job.state = "completed" THEN "completed"
  ELSE IF ~Stopped(r) /\ Stopped(r1) THEN "stopped" ELSE "none"

StoppedNotices(j) == {n \in notices : n.job = j /\ n.kind = "stopped"}
LifecycleNotices(j) ==
  {n \in notices : n.job = j /\ n.kind \in {"stopped", "completed"}}

(* Mutant: the earlier lifecycle notice stays queued. *)
QueueNotice_KeepsEarlier(j, k) ==
  /\ notices' = notices \cup {[id |-> nextNotice, job |-> j, kind |-> k]}
  /\ nextNotice' = nextNotice + 1

(* queue_notice: a stop or completion notice replaces the earlier one. *)
QueueNotice(j, k) ==
  /\ notices' = (IF k \in {"stopped", "completed"}
                 THEN notices \ LifecycleNotices(j) ELSE notices)
                \cup {[id |-> nextNotice, job |-> j, kind |-> k]}
  /\ nextNotice' = nextNotice + 1

Apply(e) ==
  IF e.job \notin table THEN UNCHANGED tableVars
  ELSE LET r  == rec[e.job]
           r1 == Observed(r, e)
           k  == NoticeOf(r, r1, e)
       IN  /\ rec' = [rec EXCEPT ![e.job] = r1]
           /\ UNCHANGED table
           /\ IF k # "none" THEN QueueNotice(e.job, k)
              ELSE /\ notices' = IF e.kind = "continued" /\ Accepts(r.job, e.member)
                                 THEN notices \ StoppedNotices(e.job) ELSE notices
                   /\ UNCHANGED nextNotice

(* Take the oldest observation off the channel and apply it. *)
Receive ==
  /\ events # <<>>
  /\ events' = Tail(events)
  /\ Apply(Head(events))

-----------------------------------------------------------------------------
(* The session thread. *)

At(pc) == call.pc = pc
Return == call' = Idle

(* apply_pending_observations, then go on at label next. *)
Draining(next) == [call EXCEPT !.pc = "drain", !.next = next]

DrainOne ==
  /\ At("drain") /\ Receive
  /\ UNCHANGED <<nextJob, hostVars, obs, terminal, call>>

DrainEnd ==
  /\ At("drain") /\ events = <<>>
  /\ call' = [call EXCEPT !.pc = call.next]
  /\ UNCHANGED <<tableVars, nextJob, events, hostVars, obs, terminal>>

(* Starting a pipeline of the members ms: the identity is reserved, the    *)
(* children registered and handed to their observers, then the record      *)
(* published under the placement.                                          *)
Published(ms, placement) ==
  [NewRecord EXCEPT
     !.job = FinishStarting(AddProcesses(BeginStarting(NewJob), ms), placement)]

(* Mutant: the reserved identity is not spent. *)
SpawnAs_NotReserved(j, ms, placement) ==
  /\ nextJob' = j
  /\ table' = table \cup {j}
  /\ rec'   = [rec EXCEPT ![j] = Published(ms, placement)]
  /\ os'    = [os EXCEPT ![j] =
                 [m \in Members |-> IF m \in ms THEN "running" ELSE "none"]]
  /\ obs'   = [obs EXCEPT ![j] =
                 [m \in Members |-> IF m \in ms THEN "waiting" ELSE "none"]]
  /\ UNCHANGED <<events, report, code, stops>>

SpawnAs(j, ms, placement) ==
  /\ nextJob' = j + 1
  /\ table' = table \cup {j}
  /\ rec'   = [rec EXCEPT ![j] = Published(ms, placement)]
  /\ os'    = [os EXCEPT ![j] =
                 [m \in Members |-> IF m \in ms THEN "running" ELSE "none"]]
  /\ obs'   = [obs EXCEPT ![j] =
                 [m \in Members |-> IF m \in ms THEN "waiting" ELSE "none"]]
  /\ UNCHANGED <<events, report, code, stops>>

(* Mutant: the end of the identities is not checked for. *)
Spawn_Unchecked(ms, placement) == SpawnAs(nextJob, ms, placement)

(* reserve_job refuses when the identities are used up. *)
Spawn(ms, placement) == nextJob <= MaxJobs /\ SpawnAs(nextJob, ms, placement)

Pipelines == {{m \in Members : m <= n} : n \in Members}

Start(ms) ==
  /\ At("idle") /\ "start" \in Commands
  /\ Spawn(ms, "background")
  /\ notices' = notices \cup {[id |-> nextNotice, job |-> nextJob, kind |-> "started"]}
  /\ nextNotice' = nextNotice + 1
  /\ UNCHANGED <<terminal, call>>

(* enter_foreground: the adapter remembers who had the terminal and hands  *)
(* it to the job's group.                                                  *)
HandOver(j) ==
  terminal' = [terminal EXCEPT !.owner = j, !.previous = terminal.owner]

StartForeground(ms) ==
  /\ At("idle") /\ "foreground" \in Commands
  /\ Spawn(ms, "foreground")
  /\ HandOver(nextJob)
  /\ call' = [call EXCEPT !.pc = "foreground", !.job = nextJob]
  /\ UNCHANGED <<notices, nextNotice>>

(* No observer, no child or no terminal: nothing is published, and the     *)
(* reserved identities are spent.  A foreground start whose observers fail *)
(* has killed its children with the terminal already handed over, which    *)
(* has to come back.                                                       *)
StartFails ==
  /\ At("idle") /\ "startFails" \in Commands
  /\ nextJob <= MaxJobs
  /\ nextJob' = nextJob + 1
  /\ \/ /\ nextNotice' \in {nextNotice, nextNotice + 1}
        /\ UNCHANGED <<terminal, call>>
     \/ /\ "foreground" \in Commands
        /\ HandOver(nextJob)
        /\ call' = [call EXCEPT !.pc = "fail"]
        /\ UNCHANGED nextNotice
  /\ UNCHANGED <<table, rec, notices, events, hostVars, obs>>

-----------------------------------------------------------------------------
(* Notices. *)

IsFront(n) == n \in notices /\ \A k \in notices : n.id <= k.id

(* next_notice applies observations only until a notice exists. *)
NextNotice ==
  /\ At("idle") /\ notices = {} /\ Receive
  /\ UNCHANGED <<nextJob, hostVars, obs, terminal, call>>

(* Remove a completed record: Notified, Reaped, and its observers joined. *)
Joinable(j) == \A m \in Members : obs[j][m] # "waiting"

(* Mutant: acknowledging a stop removes the record too. *)
Acknowledged_RemovesStopped(n) ==
  IF n.kind \in {"started", "failed"} THEN UNCHANGED <<table, rec>>
  ELSE /\ table' = table \ {n.job}
       /\ rec' = [rec EXCEPT ![n.job].job = Reap(@)]

Acknowledged(n) ==
  CASE n.kind \in {"started", "failed"} -> UNCHANGED <<table, rec>>
    [] n.kind = "stopped" ->
         /\ rec' = [rec EXCEPT ![n.job].job = AcknowledgeStopped(@)]
         /\ UNCHANGED table
    [] n.kind = "completed" ->
         /\ Joinable(n.job)
         /\ table' = table \ {n.job}
         /\ rec' = [rec EXCEPT ![n.job].job = Reap(@)]

(* The acknowledgement of the front notice the table would refuse. *)
Refused(n) ==
  \/ n.kind = "stopped" /\ ~(n.job \in table /\ CanAcknowledgeStopped(rec[n.job].job))
  \/ n.kind = "completed" /\ ~(n.job \in table /\ CanReap(rec[n.job].job))

(* The prompt rendered the front notice and acknowledges it. *)
Acknowledge(n) ==
  /\ At("idle") /\ IsFront(n) /\ ~Refused(n)
  /\ notices' = notices \ {n}
  /\ Acknowledged(n)
  /\ UNCHANGED <<nextJob, nextNotice, events, hostVars, obs, terminal, call>>

(* jobs, and every other caller of apply_pending_observations alone. *)
CallJobs ==
  /\ At("idle") /\ "jobs" \in Commands /\ events # <<>>
  /\ call' = Draining("idle")
  /\ UNCHANGED <<tableVars, nextJob, events, hostVars, obs, terminal>>

-----------------------------------------------------------------------------
(* Consuming a completion without a notice (consume_waited_completion). *)
Consume(js) ==
  /\ \A j \in js : Joinable(j)
  /\ table' = table \ js
  /\ rec' = [j \in JobIds |->
               IF j \in js THEN [rec[j] EXCEPT !.job = Reap(@)] ELSE rec[j]]
  /\ notices' = {n \in notices : n.job \notin js}
  /\ UNCHANGED nextNotice

(* A continuation the group received: continue_in, the resume is answered, *)
(* and the stop notice is withdrawn.                                       *)
Continued(j, placement) ==
  /\ rec' = [rec EXCEPT ![j].job = ContinueIn(@, placement),
                        ![j].resume_requested = FALSE]
  /\ notices' = notices \ StoppedNotices(j)
  /\ UNCHANGED <<table, nextNotice>>

(* fg *)
CallForeground(j) ==
  /\ At("idle") /\ "fg" \in Commands
  /\ call' = [Draining("fg") EXCEPT !.job = j]
  /\ UNCHANGED <<tableVars, nextJob, events, hostVars, obs, terminal>>

Foregroundable(j) ==
  /\ j \in table /\ Live(rec[j])
  /\ rec[j].job.state \in {"stopped", "background"}

(* The job cannot be brought to the foreground, or the terminal could not  *)
(* be handed over: no group is left to take it, or the host refuses.       *)
ForegroundRefused ==
  /\ At("fg")
  /\ ~Foregroundable(call.job) \/ ~GroupExists(call.job) \/ TerminalFaults
  /\ Return
  /\ UNCHANGED <<tableVars, nextJob, events, hostVars, obs, terminal>>

(* Terminal ownership is transferred before a stopped group is continued.  *)
TakeTerminal ==
  /\ At("fg") /\ Foregroundable(call.job) /\ GroupExists(call.job)
  /\ HandOver(call.job)
  /\ call' = [call EXCEPT !.pc = "entered"]
  /\ UNCHANGED <<tableVars, nextJob, events, hostVars, obs>>

(* The record is still the one that was selected: "the selected record     *)
(* remains session-owned", and its job accepts the new placement.          *)
ForegroundEnter ==
  /\ At("entered") /\ Foregroundable(call.job)
  /\ LET j == call.job IN
       IF Stopped(rec[j])
       THEN /\ GroupExists(j) /\ Delivered(j, "continue")
            /\ Continued(j, "foreground")
       ELSE /\ rec' = [rec EXCEPT ![j].job = MoveTo(@, "foreground")]
            /\ UNCHANGED <<table, notices, nextNotice, hostVars>>
  /\ call' = [call EXCEPT !.pc = "foreground"]
  /\ UNCHANGED <<nextJob, events, obs, terminal>>

(* Mutant: a continuation that cannot be delivered returns at once. *)
ForegroundFails_KeepsTerminal ==
  /\ At("entered") /\ Stopped(rec[call.job])
  /\ TerminalFaults \/ ~GroupExists(call.job)
  /\ Return
  /\ UNCHANGED <<tableVars, nextJob, events, hostVars, obs, terminal>>

(* With the terminal already handed over, the stopped job's saved mode     *)
(* cannot be applied, or its last process was reaped in the meantime and   *)
(* the continuation cannot be delivered: the record is as it was, and the  *)
(* terminal has to come back.                                              *)
ForegroundFails ==
  /\ At("entered") /\ Stopped(rec[call.job])
  /\ TerminalFaults \/ ~GroupExists(call.job)
  /\ call' = [call EXCEPT !.pc = "fail"]
  /\ UNCHANGED <<tableVars, nextJob, events, hostVars, obs, terminal>>

(* Mutant: a stop does not end the wait. *)
Settled_NotOnStop(j) == ~Live(rec[j])

(* wait_for_foreground: block for observations of any job until this one   *)
(* completes, stops or is lost.                                            *)
Settled(j) == ~Live(rec[j]) \/ Stopped(rec[j])

ForegroundReceive ==
  /\ At("foreground") /\ ~Settled(call.job) /\ Receive
  /\ UNCHANGED <<nextJob, hostVars, obs, terminal, call>>

(* A lost job is an error; a completed one is consumed; of a stopped one   *)
(* the terminal's mode is saved, which may fail.                           *)
ForegroundReturn ==
  /\ At("foreground") /\ Settled(call.job)
  /\ LET r == rec[call.job] IN
       \/ /\ r.observation_failed
          /\ call' = [call EXCEPT !.pc = "fail"]
          /\ UNCHANGED tableVars
       \/ /\ ~r.observation_failed /\ r.completion # "none"
          /\ call' = [call EXCEPT !.pc = "restore"]
          /\ Consume({call.job})
       \/ /\ Live(r)
          /\ \E pc \in {"restore"} \cup (IF TerminalFaults THEN {"fail"} ELSE {}) :
               call' = [call EXCEPT !.pc = pc]
          /\ UNCHANGED tableVars
  /\ UNCHANGED <<nextJob, events, hostVars, obs, terminal>>

(* The guard hands the terminal to the owner it remembers, which it cannot *)
(* do when that group is gone or the host refuses.                         *)
Restorable == terminal.previous # Shell => GroupExists(terminal.previous)

GivenBack ==
  /\ Restorable
  /\ terminal' = [terminal EXCEPT !.owner = terminal.previous, !.previous = Shell]

NotGivenBack == TerminalFaults \/ ~Restorable

(* The command succeeded: a failing restoration becomes its error, and     *)
(* leaves the guard's drop one more attempt.                               *)
RestoreTerminal ==
  /\ At("restore")
  /\ \/ GivenBack /\ Return
     \/ /\ NotGivenBack
        /\ call' = [call EXCEPT !.pc = "fail"]
        /\ UNCHANGED terminal
  /\ UNCHANGED <<tableVars, nextJob, events, hostVars, obs>>

(* The command has failed, and returns that error whether or not the       *)
(* terminal comes back.                                                    *)
DropGuard ==
  /\ At("fail")
  /\ \/ GivenBack
     \/ /\ NotGivenBack
        /\ terminal' = [terminal EXCEPT !.previous = Shell, !.lost = TRUE]
  /\ Return
  /\ UNCHANGED <<tableVars, nextJob, events, hostVars, obs>>

-----------------------------------------------------------------------------
(* bg and kill (signal_job) *)
CallSignal(next, j, s) ==
  /\ At("idle") /\ next \in Commands
  /\ next = "bg" => s = "continue"
  /\ next = "kill" => s \in Signals
  /\ s = "stop" => \A m \in Members : stops[j][m] < MaxStops
  /\ call' = [Draining(next) EXCEPT !.job = j, !.signal = s]
  /\ UNCHANGED <<tableVars, nextJob, events, hostVars, obs, terminal>>

(* bg and wait refuse a quarantined record; kill signals its group blindly. *)
Rejecting == call.pc # "kill"

(* Why signal_job refuses, in the order the code tests it. *)
SignalError(j, s) ==
  IF j \notin table THEN "unknown"
  ELSE IF rec[j].observation_failed /\ Rejecting THEN "quarantined"
  ELSE IF s = "continue" /\ ~rec[j].observation_failed /\ ~Stopped(rec[j])
  THEN "notStopped"
  ELSE IF ~GroupExists(j) THEN "delivery" ELSE "none"

(* A stopped group is continued before a signal it must run to act on. *)
HostSignal(j, s) ==
  IF /\ ~rec[j].observation_failed /\ Stopped(rec[j])
     /\ s \in {"hangup", "interrupt", "terminate"}
  THEN "continue" ELSE s

SignalJob(j, s) ==
  /\ SignalError(j, s) = "none"
  /\ Delivered(j, HostSignal(j, s))
  /\ IF s = "continue" /\ ~rec[j].observation_failed
     THEN Continued(j, "background")
     ELSE UNCHANGED tableVars

SignalDone ==
  /\ call.pc \in {"bg", "kill"}
  /\ SignalJob(call.job, call.signal)
  /\ Return
  /\ UNCHANGED <<nextJob, events, obs, terminal>>

SignalRefused ==
  /\ call.pc \in {"bg", "kill"}
  /\ SignalError(call.job, call.signal) # "none"
  /\ Return
  /\ UNCHANGED <<tableVars, nextJob, events, hostVars, obs, terminal>>

-----------------------------------------------------------------------------
(* wait (wait_for_jobs) *)
Selections == UNION {[1..n -> JobIds] : n \in 0..MaxJobs}

ElementsOf(s) == {s[i] : i \in DOMAIN s}

(* Written targets are never repeated (parse_job_targets). *)
TargetLists == {s \in Selections : \A i, k \in DOMAIN s : s[i] = s[k] => i = k}

InOrder(s, js) ==
  ElementsOf(s) = js /\ \A i, k \in DOMAIN s : i < k => s[i] < s[k]

CallWait(targets) ==
  /\ At("idle") /\ "wait" \in Commands
  /\ call' = [Draining("waitSelect") EXCEPT !.selected = targets]
  /\ UNCHANGED <<tableVars, nextJob, events, hostVars, obs, terminal>>

Targets == ElementsOf(call.selected)

(* No written target selects every addressable, observable record. *)
Waitable == {j \in table : ~rec[j].observation_failed}

WaitRefused ==
  /\ At("waitSelect")
  /\ \/ call.selected # <<>> /\ ~(Targets \subseteq Waitable)
     \/ call.selected = <<>> /\ Waitable = {}
  /\ Return
  /\ UNCHANGED <<tableVars, nextJob, events, hostVars, obs, terminal>>

WaitSelect ==
  /\ At("waitSelect")
  /\ \/ /\ call.selected = <<>> /\ Waitable # {}
        /\ \E all \in TargetLists :
             /\ InOrder(all, Waitable)
             /\ call' = [Draining("waitResume") EXCEPT !.selected = all]
     \/ /\ call.selected # <<>> /\ Targets \subseteq Waitable
        /\ call' = Draining("waitResume")
  /\ UNCHANGED <<tableVars, nextJob, events, hostVars, obs, terminal>>

(* resume_wait_targets, one selected job at a time. *)
Target == call.selected[call.idx]

StoppedMembers(j) == {m \in Members : rec[j].job.members[m] = "stopped"}

Exhausted(j) == \E m \in StoppedMembers(j) : call.resumes[j][m] >= ResumeLimit

NextTarget ==
  IF call.idx < Len(call.selected)
  THEN [Draining("waitResume") EXCEPT !.idx = @ + 1]
  ELSE [call EXCEPT !.pc = "waitCheck", !.idx = 1]

WaitResume ==
  /\ At("waitResume")
  /\ LET r == rec[Target] IN
       \/ r.observation_failed /\ Return
       \/ /\ ~r.observation_failed
          /\ \/ /\ r.completion # "none" \/ ~Stopped(r)
                /\ call' = NextTarget
             \/ /\ r.completion = "none" /\ Stopped(r) /\ Exhausted(Target)
                /\ Return
             \/ /\ r.completion = "none" /\ Stopped(r) /\ ~Exhausted(Target)
                /\ call' = [Draining("waitSignal") EXCEPT
                              !.stopped = StoppedMembers(Target)]
  /\ UNCHANGED <<tableVars, nextJob, events, hostVars, obs, terminal>>

(* The continuation was delivered: one resume is spent for every member    *)
(* that was stopped when it was decided.                                   *)
WaitSignal ==
  /\ At("waitSignal")
  /\ SignalJob(Target, "continue")
  /\ call' = [NextTarget EXCEPT !.resumes[Target] =
                [m \in Members |-> IF m \in call.stopped THEN @[m] + 1 ELSE @[m]]]
  /\ UNCHANGED <<nextJob, events, obs, terminal>>

(* A completion that raced the decision is no failure; any other refusal   *)
(* ends the wait.                                                          *)
WaitSignalRefused ==
  /\ At("waitSignal")
  /\ SignalError(Target, "continue") # "none"
  /\ IF /\ SignalError(Target, "continue") = "notStopped"
        /\ rec[Target].completion # "none"
     THEN call' = NextTarget
     ELSE Return
  /\ UNCHANGED <<tableVars, nextJob, events, hostVars, obs, terminal>>

Finished(j) == rec[j].completion # "none" /\ ~rec[j].observation_failed

(* wait_targets_completed stops at the first target that is not complete. *)
FirstOpen(i) ==
  /\ i \in DOMAIN call.selected /\ ~Finished(call.selected[i])
  /\ \A k \in DOMAIN call.selected : k < i => Finished(call.selected[k])

(* Mutant: the loop does not resume after an observation. *)
WaitReceive_NoResume ==
  /\ At("waitCheck")
  /\ \E i \in DOMAIN call.selected :
       FirstOpen(i) /\ ~rec[call.selected[i]].observation_failed
  /\ Receive
  /\ UNCHANGED <<nextJob, hostVars, obs, terminal, call>>

WaitReceive ==
  /\ At("waitCheck")
  /\ \E i \in DOMAIN call.selected :
       FirstOpen(i) /\ ~rec[call.selected[i]].observation_failed
  /\ Receive
  /\ call' = Draining("waitResume")
  /\ UNCHANGED <<nextJob, hostVars, obs, terminal>>

WaitLost ==
  /\ At("waitCheck")
  /\ \E i \in DOMAIN call.selected :
       FirstOpen(i) /\ rec[call.selected[i]].observation_failed
  /\ Return
  /\ UNCHANGED <<tableVars, nextJob, events, hostVars, obs, terminal>>

WaitConsume ==
  /\ At("waitCheck")
  /\ \A j \in Targets : Finished(j)
  /\ Consume(Targets)
  /\ Return
  /\ UNCHANGED <<nextJob, events, hostVars, obs, terminal>>

-----------------------------------------------------------------------------
(* The session's end: join_background_jobs and hang_up_background_jobs. *)
CallEnd(op) ==
  /\ At("idle") /\ op \in Commands
  /\ call' = [call EXCEPT !.pc = "resume", !.op = op,
                          !.next = IF op = "hangup" THEN "hangup" ELSE "quiesce"]
  /\ UNCHANGED <<tableVars, nextJob, events, hostVars, obs, terminal>>

Lowest(j, js) == j \in js /\ \A k \in js : j <= k

(* signal_or_quarantine: an undeliverable signal abandons the record. *)
SignalOrQuarantine(j, s, r) ==
  \/ /\ GroupExists(j) /\ Delivered(j, s)
     /\ rec' = [rec EXCEPT ![j] = r]
     /\ UNCHANGED <<table, notices, nextNotice>>
  \/ /\ ~GroupExists(j)
     /\ rec' = [rec EXCEPT ![j] = [r EXCEPT !.observation_failed = TRUE]]
     /\ UNCHANGED <<table, notices, nextNotice, hostVars>>

Reported(j) == \E i \in DOMAIN call.failures : call.failures[i].job = j

Failure(j, reason) == [job |-> j, reason |-> reason]

FailuresAfterSignal(j) ==
  IF GroupExists(j) THEN call.failures
  ELSE Append(call.failures, Failure(j, "signal"))

(* resume_stopped, in identity order. *)
Unanswered == {j \in table : /\ Live(rec[j]) /\ Stopped(rec[j])
                             /\ ~rec[j].resume_requested}

ResumeOne ==
  /\ At("resume")
  /\ \E j \in Unanswered :
       /\ Lowest(j, Unanswered)
       /\ SignalOrQuarantine(j, "continue", [rec[j] EXCEPT !.resume_requested = TRUE])
       /\ call' = [call EXCEPT !.failures = FailuresAfterSignal(j)]
  /\ UNCHANGED <<nextJob, events, obs, terminal>>

ResumeEnd ==
  /\ At("resume") /\ Unanswered = {}
  /\ call' = [call EXCEPT !.pc = call.next]
  /\ UNCHANGED <<tableVars, nextJob, events, hostVars, obs, terminal>>

(* hang_up_all signals every live job, then waits with a fresh list. *)
LiveJobs == {j \in table : Live(rec[j])}
ToHangUp == {j \in LiveJobs : call.idx <= j}

HangUpOne ==
  /\ At("hangup")
  /\ \E j \in ToHangUp :
       /\ Lowest(j, ToHangUp)
       /\ SignalOrQuarantine(j, "hangup", rec[j])
       /\ call' = [call EXCEPT !.failures = FailuresAfterSignal(j), !.idx = j + 1]
  /\ UNCHANGED <<nextJob, events, obs, terminal>>

(* The failures so far are kept aside while it waits. *)
HangUpEnd ==
  /\ At("hangup") /\ ToHangUp = {}
  /\ call' = [call EXCEPT !.pc = "resume", !.next = "quiesce",
                          !.held = call.failures, !.failures = <<>>]
  /\ UNCHANGED <<tableVars, nextJob, events, hostVars, obs, terminal>>

(* Mutant: stops are answered once, before the loop. *)
QuiesceReceive_NoResume ==
  /\ At("quiesce") /\ LiveJobs # {} /\ Receive
  /\ UNCHANGED <<nextJob, hostVars, obs, terminal, call>>

(* wait_for_quiescence blocks while any job is live, and answers stops     *)
(* after every observation.                                                *)
QuiesceReceive ==
  /\ At("quiesce") /\ LiveJobs # {} /\ Receive
  /\ call' = [call EXCEPT !.pc = "resume"]
  /\ UNCHANGED <<nextJob, hostVars, obs, terminal>>

(* collect_failures: every failing record not reported yet. *)
Failed(j) == rec[j].observation_failed \/ rec[j].completion = "err"

Uncollected == {j \in table : Failed(j) /\ ~Reported(j)}

CollectOne ==
  /\ At("quiesce") /\ LiveJobs = {}
  /\ \E j \in Uncollected :
       /\ Lowest(j, Uncollected)
       /\ call' = [call EXCEPT !.failures = Append(@, Failure(j,
                     IF rec[j].observation_failed THEN "observation" ELSE "exited"))]
  /\ UNCHANGED <<tableVars, nextJob, events, hostVars, obs, terminal>>

(* The join returns the failures in the order it met them. *)
CollectEnd ==
  /\ At("quiesce") /\ LiveJobs = {} /\ Uncollected = {} /\ call.op # "hangup"
  /\ call' = [call EXCEPT !.pc = "drainNotices"]
  /\ UNCHANGED <<tableVars, nextJob, events, hostVars, obs, terminal>>

(* The hang-up appends them to its own, sorts by identity and keeps the    *)
(* first of each job.  The sort is stable and neither list names a job     *)
(* twice, so that is its own entry where it has one.                       *)
JobsIn(list) == {list[i].job : i \in DOMAIN list}

EntryOf(list, j) == list[CHOOSE i \in DOMAIN list : list[i].job = j]

FirstEntry(j) ==
  IF j \in JobsIn(call.held) THEN EntryOf(call.held, j) ELSE EntryOf(call.failures, j)

(* Mutant: a job that both phases report stays listed twice. *)
HangUpReturn_KeepsBoth ==
  /\ At("quiesce") /\ LiveJobs = {} /\ Uncollected = {} /\ call.op = "hangup"
  /\ call' = [call EXCEPT !.pc = "drainNotices", !.held = <<>>,
                          !.failures = call.held \o call.failures]
  /\ UNCHANGED <<tableVars, nextJob, events, hostVars, obs, terminal>>

HangUpReturn ==
  /\ At("quiesce") /\ LiveJobs = {} /\ Uncollected = {} /\ call.op = "hangup"
  /\ \E order \in TargetLists :
       /\ InOrder(order, JobsIn(call.held) \cup JobsIn(call.failures))
       /\ call' = [call EXCEPT !.pc = "drainNotices", !.held = <<>>,
                     !.failures = [i \in DOMAIN order |-> FirstEntry(order[i])]]
  /\ UNCHANGED <<tableVars, nextJob, events, hostVars, obs, terminal>>

(* drain_notices *)
DrainNotice(n) ==
  /\ At("drainNotices") /\ IsFront(n) /\ ~Refused(n)
  /\ notices' = notices \ {n}
  /\ Acknowledged(n)
  /\ UNCHANGED <<nextJob, nextNotice, events, hostVars, obs, terminal, call>>

DrainReceive ==
  /\ At("drainNotices") /\ notices = {} /\ Receive
  /\ UNCHANGED <<nextJob, hostVars, obs, terminal, call>>

EndSession ==
  /\ At("drainNotices") /\ notices = {} /\ events = <<>>
  /\ call' = [call EXCEPT !.pc = "ended"]
  /\ UNCHANGED <<tableVars, nextJob, events, hostVars, obs, terminal>>

Ended == At("ended") /\ UNCHANGED vars

-----------------------------------------------------------------------------
Host ==
  \E j \in JobIds, m \in Members :
    \/ HostStop(j, m)
    \/ HostContinue(j, m)
    \/ \E s \in Status : HostExit(j, m, s)

Observer ==
  \E j \in JobIds, m \in Members :
    \/ ObserveTransition(j, m)
    \/ ObserveExit(j, m)
    \/ ObserveFailure(j, m)

Command ==
  \/ \E ms \in Pipelines : Start(ms)
  \/ \E ms \in Pipelines : StartForeground(ms)
  \/ StartFails
  \/ NextNotice
  \/ \E n \in notices : Acknowledge(n)
  \/ CallJobs
  \/ \E j \in JobIds : CallForeground(j)
  \/ \E next \in {"bg", "kill"}, j \in JobIds, s \in JobSignals :
       CallSignal(next, j, s)
  \/ \E targets \in TargetLists : CallWait(targets)
  \/ \E op \in {"join", "hangup"} : CallEnd(op)

(* The steps of a command in progress. *)
Progress ==
  \/ DrainOne \/ DrainEnd
  \/ ForegroundRefused \/ TakeTerminal \/ ForegroundEnter \/ ForegroundFails
  \/ ForegroundReceive \/ ForegroundReturn \/ RestoreTerminal \/ DropGuard
  \/ SignalDone \/ SignalRefused
  \/ WaitRefused \/ WaitSelect \/ WaitResume \/ WaitSignal \/ WaitSignalRefused
  \/ WaitReceive \/ WaitLost \/ WaitConsume
  \/ ResumeOne \/ ResumeEnd \/ HangUpOne \/ HangUpEnd
  \/ QuiesceReceive \/ CollectOne \/ CollectEnd \/ HangUpReturn
  \/ (\E n \in notices : DrainNotice(n)) \/ DrainReceive \/ EndSession

Next == Host \/ Observer \/ Command \/ Progress \/ Ended

Spec == Init /\ [][Next]_vars

-----------------------------------------------------------------------------
(* Properties. *)

Labels == {"idle", "drain", "fg", "entered", "foreground", "restore", "fail",
           "bg", "kill", "waitSelect", "waitResume", "waitSignal", "waitCheck",
           "resume", "hangup", "quiesce", "drainNotices", "ended"}

RecordType == [job                : JobType,
               status             : [Members -> Status \cup {"none"}],
               completion         : Status \cup {"none"},
               observation_failed : BOOLEAN,
               resume_requested   : BOOLEAN]

NoticeType == [id : Nat, job : JobIds,
               kind : {"started", "stopped", "completed", "failed"}]

ObservationType == [kind : {"stopped", "continued", "completed", "failed"},
                    job : JobIds, member : Members, status : Status \cup {"none"}]

FailureType == [job : JobIds, reason : Reasons]

CallType == [pc : Labels, next : Labels, op : {"none", "join", "hangup"},
             job : JobIds \cup {Shell}, signal : JobSignals, idx : Nat,
             selected : Selections, stopped : SUBSET Members,
             resumes : [JobIds -> [Members -> Nat]],
             failures : Seq(FailureType), held : Seq(FailureType)]

TableTypeOK ==
  /\ table \subseteq JobIds
  /\ rec \in [JobIds -> RecordType]
  /\ notices \subseteq NoticeType
  /\ nextJob \in 1..(MaxJobs + 1) /\ nextNotice \in Nat

HostTypeOK ==
  /\ events \in Seq(ObservationType)
  /\ os \in [JobIds -> [Members -> {"none", "running", "stopped", "zombie", "gone"}]]
  /\ report \in [JobIds -> [Members -> {"none", "stopped", "continued"}]]
  /\ code \in [JobIds -> [Members -> Status \cup {"none"}]]
  /\ stops \in [JobIds -> [Members -> Nat]]
  /\ obs \in [JobIds -> [Members -> {"none", "waiting", "done"}]]

TerminalType == [owner : JobIds \cup {Shell}, previous : JobIds \cup {Shell},
                 lost : BOOLEAN]

SessionTypeOK ==
  /\ terminal \in TerminalType
  /\ call \in CallType

(* Every variable has the shape its declaration says. *)
TypeOK == TableTypeOK /\ HostTypeOK /\ SessionTypeOK

(* job.rs expects that "a published job always retains its placement": an  *)
(* addressable record is in a published state and knows where it runs, a   *)
(* stopped one remembers where a continuation would resume it, and stopped *)
(* and completed are what all of its members say.  A published completion  *)
(* and the completed state come and go together: whoever consumes a        *)
(* completion may mark its job notified and reaped ("a waited job has      *)
(* completed").                                                            *)
PublishedJob(q) ==
  /\ q.placement \in Placement
  /\ q.state \in {"foreground", "background", "stopped", "completed"}
  /\ q.state \in Running => q.state = q.placement
  /\ q.state = "stopped" => q.resume = q.placement /\ AllLiveStopped(q)
  /\ q.state = "completed" => AllCompleted(q)

PublishedJobsAreSound ==
  \A j \in table :
    /\ PublishedJob(rec[j].job)
    /\ rec[j].completion # "none" <=> rec[j].job.state = "completed"

(* The queue and the records agree: a record owes a notice exactly when    *)
(* its one stop or completion notice is queued, and that notice says what  *)
(* the record says.  So a prompt never renders a stop that is over, and    *)
(* the table never refuses to acknowledge the front notice.                *)
QueueMatches(j) ==
  /\ rec[j].job.pending <=> LifecycleNotices(j) # {}
  /\ \A n \in LifecycleNotices(j) : n.kind = rec[j].job.state
  /\ \A n, k \in LifecycleNotices(j) : n = k

NoticesMatchRecords == \A j \in table : QueueMatches(j)

(* Every queued notice is about a record that can still be addressed: the  *)
(* queue hands a job's start out before its completion, a consumed job     *)
(* leaves nothing behind, and an abandoned one never completes.            *)
NoticesAddressable == \A n \in notices : n.job \in table

(* No identity is used again: records, queued notices, observers and the   *)
(* observations under way are all about jobs older than the next one, so a *)
(* new job never inherits a notice and a late observation never reaches a  *)
(* record it is not about.                                                 *)
IdentitiesFresh ==
  /\ \A j \in table : j < nextJob
  /\ \A n \in notices : n.job < nextJob
  /\ \A i \in DOMAIN events : events[i].job < nextJob
  /\ \A j \in JobIds, m \in Members : obs[j][m] # "none" => j < nextJob

(* What the table will believe of a member once everything already seen or *)
(* seeable is applied: the kernel's unreported transition, else the last   *)
(* observation in the channel, else the member's own state.                *)
EventsOf(j, m) == {i \in DOMAIN events : events[i].job = j /\ events[i].member = m}

View(j, m) ==
  LET seen == EventsOf(j, m) IN
  CASE report[j][m] # "none" -> report[j][m]
    [] report[j][m] = "none" /\ seen # {} ->
         events[CHOOSE i \in seen : \A k \in seen : k <= i].kind
    [] OTHER -> rec[j].job.members[m]

(* Coalesced, stale and early observations never leave the table wrong:    *)
(* the continuation a command assumes (continue_in) and the observations   *)
(* still under way always add up to what the process is doing.             *)
TableConverges ==
  \A j \in table, m \in Members :
    /\ os[j][m] = "running" => View(j, m) \in {"running", "continued"}
    /\ os[j][m] = "stopped" => View(j, m) = "stopped"
    /\ os[j][m] = "gone" => View(j, m) \in {"completed", "failed"}

(* A completion is published only for a pipeline whose every process has   *)
(* been reaped and whose observers have all finished, so joining them      *)
(* cannot block the session, and its status is the aggregate of the real   *)
(* exit statuses.                                                          *)
CompletionIsReal ==
  \A j \in table : rec[j].completion # "none" =>
    LET stages == {m \in Members : os[j][m] # "none"} IN
    /\ \A m \in stages : os[j][m] = "gone" /\ obs[j][m] = "done"
    /\ rec[j].completion = IF \E m \in stages :
                                /\ code[j][m] = "err"
                                /\ PipeFail \/ \A k \in stages : k <= m
                           THEN "err" ELSE "ok"

(* Every route out of a foreground command gives the terminal back: while  *)
(* no guard is held the shell owns it, unless a command that returned an   *)
(* error failed to give it back when it restored and again when it dropped *)
(* the guard.  A job that vanishes between the handover and its            *)
(* continuation, an unsaved mode, a lost or a stopped job never cost the   *)
(* shell its terminal, and neither does the guard of a later command.      *)
Holding == call.pc \in {"entered", "foreground", "restore", "fail"}

TerminalReturned == Holding \/ terminal.owner = Shell \/ terminal.lost

(* A stop marked as answered is still a stop: the mark is cleared by every *)
(* route out of the stopped state, so the next stop is answered too.       *)
AnsweredStopsAreStops ==
  \A j \in table : rec[j].resume_requested => rec[j].job.state \in {"stopped", "completed"}

(* The list the session's end returns names exactly the records that       *)
(* failed or were abandoned, each once and with the reason the record      *)
(* shows, although a hang-up merges two lists that overlap; the hang-up's  *)
(* is in identity order.  It stays right while late observations are       *)
(* drained.                                                                *)
Truthful(f) ==
  Failed(f.job) /\ (f.reason = "exited" <=> ~rec[f.job].observation_failed)

JoinReportsEveryFailure ==
  call.pc \in {"drainNotices", "ended"} =>
    /\ \A j \in table : Failed(j) => Reported(j)
    /\ \A i \in DOMAIN call.failures : Truthful(call.failures[i])
    /\ \A i, k \in DOMAIN call.failures :
         i < k => /\ call.failures[i].job # call.failures[k].job
                  /\ call.op = "hangup" => call.failures[i].job < call.failures[k].job

(* The table keeps the promise of JobLedger: completions are published for *)
(* finished pipelines only, with their real aggregate, and each is handed  *)
(* out once, by a notice or by a wait.                                     *)
Life(j) ==
  IF j \in table THEN (IF rec[j].completion = "none" THEN "open" ELSE "completed")
  ELSE IF j < nextJob THEN "closed" ELSE "none"

Ledger == INSTANCE JobLedger WITH
  life    <- [j \in JobIds |-> Life(j)],
  width   <- [j \in JobIds |-> {m \in Members : os[j][m] # "none"}],
  exit    <- code,
  outcome <- [j \in JobIds |-> rec[j].completion]

ImplementsLedger == Ledger!Spec

-----------------------------------------------------------------------------
(* Fairness: the session thread and the observers are scheduled, and a     *)
(* process left running exits in the end.                                  *)
Exits(j, m) == \E s \in Status : HostExit(j, m, s) /\ os[j][m] = "running"

Fairness ==
  /\ WF_vars(Progress)
  /\ \A j \in JobIds, m \in Members :
       /\ WF_vars(ObserveTransition(j, m))
       /\ WF_vars(ObserveExit(j, m))
       /\ WF_vars(Exits(j, m))

FairSpec == Spec /\ Fairness

(* A session that begins to end does end: no job keeps the join waiting.   *)
JoinEnds == At("resume") ~> At("ended")

(* wait returns: a stop of a selected job is answered or ends the wait. *)
WaitEnds == At("waitSelect") ~> At("idle")

(* Whoever takes the terminal gives it back: no stop, continuation or exit *)
(* of the job's processes, in any order, keeps a foreground command        *)
(* waiting while the job has the terminal.                                 *)
TerminalComesBack == terminal.owner # Shell ~> terminal.owner = Shell
=============================================================================
