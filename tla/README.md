# OPAAL: a verification project

OPAAL is a shell and workflow language in Rust (`crates/`). This directory holds
TLA+ models of the parts of it that are hard to test, the TLC configurations
that check them on small instances, and proofs checked by TLAPS. `PROJECT.json`
ties every definition to the source lines it models, every property to a run
and a mutant, and lists the hazards the properties are aimed at.

## 1. Inventory

| Component | State | Operations | What is hard |
|---|---|---|---|
| Job lifecycle (`opaal-runtime/src/job.rs`) | aggregate state, placement, member observations, one owed notice | begin/finish starting, observe stopped/continued/completed, move_to, continue_in, acknowledge, notified, reaped | observations arrive coalesced and in any legal order |
| Job table and coordinator (`background.rs`) | records, notice queue, identities, one mpsc channel, one observer thread per child | start, start_foreground, next_notice, acknowledge, jobs, fg, bg, kill, wait, join, hang-up | the session thread reads the table while observers and processes move on; blocking receives; failing waits |
| Session job builtins (`session.rs`) | the session thread's current command | parse and dispatch of jobs/fg/bg/kill/wait, join and hang-up at the end | what is read before a drain and used after it |
| POSIX host (`opaal-platform-posix`) | processes, groups, terminal | waitpid, killpg, terminal ownership | one pending transition per child; ESRCH; failing terminal calls |
| Run journal (`workflow.rs`) | lines, bytes, open actions and effects, cleanup order, terminal | begin, append, audit | nesting across refused events; limits; torn last line |
| Accepted-plan execution (`opaal-cli/src/project.rs`, `project/task.rs`) | journal file, sticky failure, primary outcome, receipt, audit, signal lease | admit, reserve, create journal, probe, run task, clean up, finish | a crash or an I/O failure between any two steps; evidence that must agree |
| Foreground pipelines (`execute.rs`, `eval.rs`) | terminal and signal guards, captures | run a pipeline, resume a stopped stage up to 16 times | guards restored on every route |
| Cancellation (`lifetime.rs`, `context.rs`) | token, deadline, the sticky observed reason | poll, poll_until, operation_deadline | a poll between any two steps of a call |
| Standard host (`operational/standard.rs`, `stdio.rs`, `opaal-platform-posix/src/standard_host.rs`, `native.rs`) | account of moved bytes, worker process, request ids, terminal and signal leases | random.int, random.bytes, read, write, close, finish | the worker blocks, dies or is killed anywhere; cancellation against a late reply; what was moved must stay known |
| Locked tools (`operational/process.rs`, `opaal-platform-posix/src/operational.rs`) | attempt budget, leader, process group, two pipes, deadline | run, drain, terminate, reap | descendants that outlive, leave the group or hold the pipes; output next to exit; bounded cleanup |
| Authority (`authority.rs`, `security.rs`) | grants | narrow, check | a grant must never widen |
| Plans, modules, projects (`plan.rs`, `module.rs`, `project.rs`, `capsule.rs`) | identities, module graph | load, link, check staleness | stale inputs between plan and run |
| Language server (`opaal-lsp`) | documents and generations, job queue, request controls, published diagnostics | initialize, open/change/close, request, cancel, shutdown, exit, end of input | reader, coordinator and worker overlap; results for outdated documents; every request answered once |
| Interactive prompt (`opaal-cli/src/interactive.rs`, editors, history) | editor buffer, history | read a line, print notices | notices arriving while editing |
| Syntax, values, builtins, presentation, CLI drivers | none shared | pure or sequential | left to unit tests |

The components meet in these places: the observers send to the channel the
session thread drains (`event_sender`/`event_receiver`); the session hands the
terminal to a job's process group and takes it back; a workflow run writes
its journal while it performs effects; an evaluation's host calls go through the
standard host's worker and its tools through process groups, under one
cancellation scope; and the language server's three threads share channels and
the flags of each request.

## 2. Modules

| Module | Models | Role |
|---|---|---|
| `Job` | `job.rs` | the pure lifecycle, operators only |
| `BackgroundJobs` | `background.rs`, the job builtins of `session.rs`, waitpid and killpg | the state machine: host, observers, session |
| `JobLedger` | what the table promises its user | abstract specification |
| `MCBackgroundJobs` | | command sets for TLC |
| `BackgroundJobsInvariant` | | the invariant `Reality`, about table and processes together |
| `BackgroundJobsProofs`, `BackgroundJobsReality` | | invariance proofs: the table by itself, then against the processes; the proof that it implements `JobLedger` |
| `JournalChain` | `JournalChain`, `JournalLifecycle`, `audit_journal` of `workflow.rs` | the pure journal, operators only |
| `RunJournal` | `execute_plan`, `SyncedJournal`, `finish_receipt`, `finish_task_run`, the effect path of `operational/source.rs` | the state machine of one run, with crashes |
| `MCRunJournal` | | command lines for TLC |
| `EvidenceLog` | what the journal promises whoever reads it afterwards | abstract specification |
| `RunJournalInvariant` | | the inductive invariant of a run, and `OrderInv` for the log |
| `RunJournalProofs` | | lemmas on the audit, the invariance proofs, and the proof that a run implements `EvidenceLog` |
| `LanguageContract` | what the server promises an editor | abstract specification |
| `LanguageServer` | `server.rs`, with `workspace.rs`, the barrier of `query.rs` and the transport | the state machine: editor, reader, coordinator, worker |
| `MCLanguageServer` | | documents and diagnostics for TLC |
| `LanguageServerInvariant` | | the inductive invariant of the server |
| `LanguageServerProofs`, `LanguageServerRefinement` | | invariance proofs, and the proof that the server implements `LanguageContract` |
| `StandardHost` | `standard.rs`, `stdio.rs`, `standard_source.rs`, `standard_host.rs`, `native.rs`, the scope of `lifetime.rs` | the state machine: supervisor, worker, signals, time |
| `MCStandardHost` | | the calls of a program for TLC |
| `StandardHostInvariant` | | the inductive invariants `Core` and `Account` |
| `StandardHostProofs`, `StandardHostAccount` | | invariance proofs: control, and bytes |
| `ToolProcess` | `run_inner` of `process.rs`, `run_process` and its cleanup in `operational.rs` | the state machine: supervisor, leader, descendant, time |
| `MCToolProcess` | | fault kinds for TLC |
| `ToolProcessProofs` | | invariance proofs |

### BackgroundJobs

A job is an identity in `1..MaxJobs`; its processes are the `Members` (stage
numbers) of one pipeline. `rec[j]` is `JobRecord`, reduced to the pure job, the
member statuses (`ok`/`err`), the published completion and the two flags
`observation_failed` and `resume_requested`. `notices` is the queue as a set of
records whose `id`s are its order. `events` is the mpsc channel. `os`, `report`
and `code` are the host: what each process does, the one stop or continuation
waitpid has not reported (the kernel keeps only the last), and the exit status.
`call` is the session thread: a program counter and the locals of the method it
runs; `drain` is `apply_pending_observations`, after which it goes on at
`call.next`. `terminal` is the foreground terminal: who owns it, the owner the guard
in use remembers, and whether a command ever failed to give it back.

Three kinds of step interleave freely. *Host*: a process stops, is continued or
killed from outside (`ExternalSignals`), or exits. *Observer*: a thread returns
from waitpid with a transition, the exit, or a failure (`ObserverFaults`;
the child is killed and waited once more, which may fail too). *Session*: one
step per point where the code can be overtaken, that is per received
observation, per signal sent, per terminal operation and per wait target examined. `start`, an
acknowledgement or a table update is one step, since nobody else
reads or writes the table.

`fg` goes through the code's steps in their order: the terminal is handed over
(`TakeTerminal`), then the job is continued (`ForegroundEnter`), which fails if its
mode cannot be applied or its group is gone by then (`ForegroundFails`); after the
wait the mode of a stopped job is saved (`ForegroundReturn`). A command that
succeeded restores the terminal and makes a failure of that its error
(`RestoreTerminal`); a command that failed drops the restoration's error, and the
guard's drop is the last attempt (`DropGuard`). A foreground start takes the same way
out, also when it fails after the handover (`StartFails`). A guard returns the
terminal to the owner it found: after a loss that is an earlier job, whose
group may be gone. The hang-up keeps its own failures apart from those of the wait it
ends in, then appends, sorts by identity and removes repetitions (`HangUpReturn`); the
join returns its list as it is.

A signal to a group either reaches it (some member, a zombie included, remains)
or fails with ESRCH. A delivered hangup, interrupt or terminate leaves it to the
process whether it exits; continue, stop and kill act at once.

Bounds: `MaxJobs` identities, `MaxStops` stops per process, `ResumeLimit` for
`AUTOMATIC_RESUME_LIMIT` (16 in `eval.rs`, 1 here: the limit is reached after
two stops). Exhausting `MaxJobs` stands for the overflow of `reserve_job`.

Abstracted: durations, labels, signal numbers, terminal modes (a failing mode
operation is `TerminalFaults`). Left out: a session without a terminal, in which
`start_foreground` hands nothing over and `fg` is refused; the Redox inline observation path
(`cfg!(target_os = "redox")`) and the supervisor completion pipe.

### JournalChain, RunJournal and EvidenceLog

`JournalChain` has the events a run writes, `Admits`/`Admit` for
`JournalLifecycle::admit`, `CanAppend`/`Appended` for `JournalChain::append` and
`Audit` for `audit_journal`: "complete", "incomplete" or "refused". The audit
replays the lifecycle from the lines in the file, so it depends on nothing
the writer remembers.

`RunJournal` is one run of `opaal execute` or `opaal task run`. `request` is the
command line. `chain` and `journal` are `SyncedJournal`; `disk` is the journal
file: its directory entry (temporary, linked, durable), its lines, how many of
them are synced and whether a torn line follows. `io` is the append in progress
and where it returns (`pc` names the place in `execute_plan`). `ops` is
`ControlledSourceOperations` together with the evaluator's pending abort:
"error" may be caught by the program (`try`), "output" (a journal error) may not.
`performed` remembers which effects really reached the host; no code reads it.
`receipt` and `audit` are the two artifact files.

An append is admit and write, then sync, then the return to its caller, as in
`SyncedJournal::append`: the chain advances only after the sync, and a failed
write or sync makes the journal unavailable for good. A write may fail having
written nothing or a part. `Crash` is possible before every step: it keeps the
synced lines and any prefix of the others, the first lost one possibly torn.

The task is any program: it enters and leaves actions, tries effects, nests a
secret's reveal in an HTTP request, throws, catches, is cancelled or times out.
The host may carry out an effect that it then reports as failed. Registered
resources and standard-host failures are any number up to their bounds
(`finish_standard_host` reports at most two).

`EvidenceLog` has no file, chain, sync or crash: one log that grows by one event at
a time, effects that happen only while the log has announced and not ended them, and
an exit. The refinement maps the log to the events of the synced lines once the
journal's name is durable, and to the empty log before: what a reader is sure
to find, whatever happens from there on.

Abstracted: a line is its sequence number, event and size; digests name their
line; a payload keeps its identity and outcome class; deadlines may pass at
any time. Adapter resources (`register_resource`) have callers only in tests;
they are part of the runtime's interface and are kept. Left out: payload schemas
and legacy versions, the cumulative host-byte policy, `explain_task` and the
explanation's own consistency checks (a failure counts as a failed summary), the
bound on receipt secondaries, the emission of the report, a plan whose only host
role is entropy, and a leftover temporary file when unlinking it fails.

### LanguageServer and LanguageContract

The reader appends events to `inbox`; the coordinator takes one, computes its
whole output into `outbox` (the code's `Action`), writes it message by message
and then starts the next job if the worker is idle; the worker takes a job from
the channel of capacity one, works on the snapshot it carries, and sends the
result back as another event. `pending` and `controls` are sets of records
whose serials are their order. `cancelled` and `invalidated` are the two atomic
flags of each `RequestControl`, read by the worker at any moment and once more
by the coordinator when the result is finished. Analysis is a choice:
a set of diagnostics per open document, a failure, or "cancelled" if a flag is
up. Two URIs may resolve to one file, and the second is then refused, as in
`Workspace::open`. `asked` and `analysed` are history; no code reads them.

`LanguageContract` has no queue, worker or snapshot: a request that was taken up
is answered at most once, and an answer says what is true of the documents when
it is sent. The refinement maps the server's lifecycle and end to `phase` and its
generation to the number of edits.

Left out: what an analysis or a query computes, positions and URIs, and
`refresh_identities`, which nothing in the server calls.

### StandardHost

`state` is `StandardState`: what `max_host_bytes` was charged, the progress of the
call in hand and the per-role account. A call is admitted, cut into chunks
(integers: into words, with rejected candidates drawn again), and each chunk is
charged, transferred and settled; an interrupted or blocked chunk that certainly
moved nothing is repeated. A transfer spawns or reuses the worker, sends the
request (from that moment its bytes are `uncertain`), the payload, waits for the
reply and its body, and acknowledges. Sends, receives and waits poll the scope;
an empty receive and the following `waitpid` are two steps. `close` walks
socket, SIGTERM, grace, SIGKILL, wait, terminal, and signal lease; SIGTERM and the
two restorations may fail. A failing SIGKILL (`native.rs`:573) and failing waits
(559, 565, 576) are not modelled: the pid is that of an unreaped child of this
process, for which neither call has a reason to fail. Records queued for the worker when
the socket is closed vanish at once: the worker could still take them, but whatever it
then does before it is killed it can also do just before the close. The worker is a process: it may block in the host call for ever,
move fewer bytes than asked, fail, die at any step, or be a zombie for any time.
`moved`, `out`, `taken` and `input` are what really happened to the streams.

Left out: authority checks, the encoding of frames, the splitting of a payload
into datagrams (a receiver uses none before it has all), the choice of the
worker's image, and an endpoint's identity check other than its failure.

### ToolProcess

The tool is the leader of its own process group; it may start one child, which
may leave the group, keep the pipes, outlive the leader or ignore SIGTERM. One
supervisor step is one system call, and the processes move between any two of
them. `run` holds the locals of `run_process`: ends of pipes seen, whether the
output limit was exceeded, whether the leader was waited for, the primary error
and whether cleanup failed. `phase` is which of the up to three calls of
`wait_for_group` is in progress. A zombie is a member of its group until it is
waited for, which is what `kill(-pid, 0)` sees.

A byte stands for any amount of output; a read takes any part of what is in the
pipe. A native tool's operation deadline is sticky in the cancellation scope and
thus a cancellation here. Left out: authority, environment, the executable's
digest and snapshot (only their failure), and the result's value.

## 3. Runs

| Run | Instance | Shows |
|---|---|---|
| `job_pair` | one pipeline of two processes in either place, one stop each, fg/bg/kill/jobs, join and hang-up, outside signals, pipefail, fairness | notices match records, the table converges to the host, completions are real, across all coalescings of two members; the terminal comes back and the session's end returns |
| `job_faults` | one process, two stops (one more than the resume limit), every operation, all faults, fairness | what the proofs establish, refinement of `JobLedger`, and that a wait for one job returns, also at the limit |
| `two_jobs` | two processes in two jobs, fg, wait on every selection, join, hang-up, failing observers and terminal operations | no notice outlives its record; the list the session's end returns is exact; no route keeps the terminal |
| `wait_passed` | two processes in two jobs, one stop each, start and wait | finding: wait never returns |
| `join_restop` | one process, two stops | finding: join waits for ever |
| `journal_faults` | `execute` without receipt and `task run --require-true` with streams; one probe, two effects, two nested actions, one I/O failure, a crash anywhere | the durable journal implements `EvidenceLog`: it loses nothing and effects happen between their records; it stays auditable; receipt and exit agree with it |
| `journal_limits` | `execute --require-true` and `task run`, lines of size 1 and 2, at most 8 lines and 9 bytes of which 2 are reserved, no I/O failure, a crash anywhere | the journal stays auditable at the limits, and a complete one accounts for every effect |
| `journal_clock` | `execute --require-true`, a clock that may step back | finding: exit 0 over a journal that no audit accepts |
| `language_documents` | two URIs, the second a link to the first's file or a file of its own, two versions, four edits, failing writes, three ways the input ends | what the editor shows is what was published; the newest documents are owed an analysis |
| `language_requests` | one document, two edits, three requests, one cancellation, shutdown, exit | the contract: one truthful answer each and diagnostics of current versions only; in the end there is an answer, and diagnostics settle |
| `standard_host` | any two of read, write (with line feed), random.int and random.bytes; chunks and words of 2 bytes, 5 host bytes, 2 bytes of input, one retry, one fault of any kind, signals and deadlines at any poll | the account, the order of bytes, the leases, no lost signal, every call returns |
| `tool_process` | two runs under a budget of one attempt, limit 1, two bytes of output, a child, one failing system call, cancellation and both deadlines | nothing survives silently, output is complete, every run returns |

Why the bounds are enough: the table treats jobs independently except in the
queue, the channel and the loops over a selection or over all jobs, for which
two jobs suffice to have one overtake the other; a pipeline's aggregate
distinguishes "some" from "all" members, for which two suffice; the kernel's
one-deep report and the answered-stop mark need two stops of one process. In
`job_pair` each process stops at most once, by itself or by `kill`; that it stops
again is in `job_faults`, in the theorems, which have no such bound, and in
`join_restop`, where the join fails.

The journal runs need a nested action and a nested effect (two of each), one
probe before the first action, and two kinds of cleanup. One failure is enough
for what the properties say: it makes the journal unavailable and every
later append is refused without touching the file. Eight lines let the
limit fall on every kind of event, inside and outside open boundaries.

The language server's documents interact only through generations, link
resolution and the one publication of differences, for which two URIs suffice; three
requests let one be running, one queued and one arrive at shutdown. In the
standard host two calls show a worker reused, lost or left over from the call
before; five bytes let each kind of call meet the limit, and two-byte chunks make
a write of two bytes and a line feed take two transfers. In the tool process one
child is enough: the code never tells members of the group apart, only whether there
is one; limit 1 and two bytes separate "exactly the limit" from "one more".

The passing runs of the job table and the journal check deadlock. The
language server stops when its input ends, the standard host when the evaluation
is done and a tool's supervisor when its runs are spent, so those runs say
`CHECK_DEADLOCK FALSE`, as do the runs that exhibit a finding.

Fairness (`FairSpec`): the session thread and each observer are threads the
operating system schedules, so a step they can take is eventually taken (weak
fairness on `Progress`, `ObserveTransition`, `ObserveExit`). A process that is
left running exits in the end (`Exits`): without that neither `wait` nor the
join promises anything. No fairness is assumed of stops, outside signals,
faults or user commands. The language server's `Spec` assumes weak fairness of the
coordinator and of the worker, which are threads whose work is bounded by the
analysis budgets, and nothing of the editor. The standard host's assumes it of the
supervisor, of the operation deadline (time passes) and of the death of a process
that was sent SIGKILL, and nothing of the worker. The tool process's assumes it of
the supervisor and of the two deadlines only: the tool and its descendants may do
anything for ever, and SIGKILL need not take effect.

## 4. Properties of the job table

* `NoticesMatchRecords`: a record owes a notice exactly when its one stop or
  completion notice is queued, and the notice says what the record says. So a
  prompt never renders a stop that is over and no acknowledgement is refused.
* `PublishedJobsAreSound`: the four `expect`s of
  `job.rs` and `consume_waited_completion` cannot fail.
* `TableConverges`: the table's assumption (`continue_in` before the
  continuation is observed), the channel and the kernel's pending report always
  add up to what each process is doing.
* `CompletionIsReal`: a completion is published only when every process has been
  reaped and every observer has finished, with the aggregate of the real
  statuses; joining the observers cannot block.
* `JoinReportsEveryFailure`: the list that is returned names exactly the records that
  failed or were abandoned, once each and with the right reason. In a hang-up both
  of the merged lists report a job whose signal was refused.
* `TerminalReturned`, `TerminalComesBack`: with no guard held the shell owns the
  terminal, unless the host refused it at the restoration and at the drop; and
  no sequence of stops and exits keeps a foreground command from getting there.
* `AnsweredStopsAreStops`, `NoticesAddressable`, `IdentitiesFresh`: see the comments in
  the module.
* `ImplementsLedger`: the table refines `JobLedger`.
* `WaitEnds`, `JoinEnds`: liveness. Both are violated by the code where the passing
  runs do not go: two jobs waited for, and a process that stops again under a join.

### Properties of the run journal

* `KeepsLog`: the durable lines implement `EvidenceLog`. They only grow, one event
  at a time, across failures and a crash; an effect reaches the host after its
  effect-before line is synced under a durable name ("Each returned line must be
  written and synced by the caller before the state transition or effect it
  describes", `workflow.rs`) and never once its effect-after line is; attempts are
  announced in order; the terminal line finds no effect open and is the last; and
  exit 0 is given over the terminal line of a success.
* `EffectsAreJournalled`, the part of it that is an invariant, is a theorem of its own.
* `JournalIsAuditable`: at every moment, after every failure and every crash,
  `audit_journal` accepts a published journal. This is what the sticky failure
  flag, the clone-then-commit of the chain and the rename protect.
* `CompleteAccountsForEffects`: a journal that audits as complete has the end of
  every effect that reached the host, even if the record of an end was
  refused and the program caught the error.
* `ReceiptAgreesWithAudit`: `journal_state` is what an audit finds, or
  "unavailable".
* `ExitIsEvidenced`: exit 0 (and a selected exit 1) rests on a synced terminal
  line with that outcome and assessment, clean cleanup, and a durable receipt
  and audit where they were asked for.
* `PassAudits`: violated, see the findings.

No liveness is stated for a journalled run: whether the task ends is up to the program, and
the deadline that would end it is polled by code outside the model.

### Properties of the language server

* `KeepsContract`: the server implements `LanguageContract`.
* `RequestAccounted`: a request taken up is tracked with a job that leads to its
  answer, or being written, or answered: never two of these and never none.
  `OneJobOut`, a part of it: `worker_busy` is true exactly while one job is between
  coordinator and worker, so `try_send` never meets a full channel.
* `ViewIsPublished`: differences are exact; what the editor shows between
  events is what `published` says, over every history of opening and closing.
* `NewestIsOwed`, `DiagnosticsSettle`: an edit cannot cancel the analysis of the
  newest generation without queueing another; in the end it is published or failed.
* `RequestsAnswered`: every request is answered unless the server ends.

### Properties of the standard host

* `AccountingSound`: what the host moved for a role is at least what is confirmed
  and at most confirmed plus uncertain, after any crash, cancellation or failure;
  the counter is exactly the sum of the account, and `max_host_bytes` bounds what
  is really moved at every moment.
* `StreamsExact`: retries neither repeat nor drop bytes; a successful read has all
  of the input; the end of input is the real end.
* `NoDetachedWork`: a call that returned has no worker acting for it, and a reaped
  pid is never used.
* `CleanupSound`: terminal and signals are given back only after the worker is
  gone, and always; a released lease has its dispositions restored unless that failed;
  one report per failed close.
* `NoLostSignal`, `CancelledIsFinal`: a signal during the lease is still known
  after it (unless a disposition could not be restored at first: a signal between
  the last look and the release is then lost); an observed cancellation stays and
  nothing new is started.
* `CallsReturn`: liveness against a worker that blocks for ever.

### Properties of the tool process

* `NoSurvivors`: a return whose error mentions no failed cleanup means that the
  leader was waited for, the group is empty and nobody has the pipes open. (A
  descendant that left the group and closed the pipes is out of the code's sight
  and out of the property.)
* `OutputComplete`: success returns all bytes all processes wrote.
* `Returns`: every run returns, whatever the processes do.

## 5. Proofs

### Job table

`BackgroundJobsProofs` proves, for every `MaxJobs`, `Members`, `MaxStops` and
`ResumeLimit` and every setting of the switches, that `TypeOK`,
`PublishedJobsAreSound`, `NoticesMatchRecords`, `AnsweredStopsAreStops`,
`IdentitiesFresh` and `TerminalReturned` are invariants of `Spec`. The assumptions are those of
`BackgroundJobs` (`BoundsAssumption`, `SwitchesAssumption`).

The inductive invariant is `Inv`. None of its parts is inductive alone: a queued
completion is true only because a published job's state follows its members; an
acknowledgement clears what is owed only because the lifecycle notice of a job
is unique; a new record matches the queue only because no queued notice bears a
fresh identity. The argument goes bottom up: lemmas on the pure job
(`ReconcileGood`, `ObserveStoppedGood`, ...), one record under an observation
(`ObservedGood`: the notice an observation queues is what the record then says),
one table effect each (`ApplyInv`, `SpawnInv`, `AcknowledgedInv`, `ConsumeInv`,
`ContinuedInv`, `SignalOrQuarantineInv`), and then one case per action
(`TableStep`, `HostStep`, `SessionStep`). `TerminalReturned` has an invariant of its
own, `TerminalInv`: unless a terminal was lost, a guard remembers the shell and only
the command that holds it can leave the terminal with a job (`TerminalStep`).

`BackgroundJobsReality` goes on from `Inv` to the processes. `Reality`, in
`BackgroundJobsInvariant`, has eight parts, and gives `TableConverges`,
`CompletionIsReal`, `NoticesAddressable` and `JoinReportsEveryFailure`:

- `ProcInv`: a process is observed from its start until it is reaped or given up, and
  the one transition waitpid still has to report says what the process is doing.
- `ChannelInv`: nothing follows the last observation of a process in the channel, and
  that one carries the true status.
- `MemberInv`: a member is completed only when its process is reaped and nothing about
  it is under way; a reaped process is completed or its completion is under way.
- `ConvInv`: the newest thing known of a living process is what it does.
- `OutcomeInv`: a published outcome is the aggregate of the recorded statuses.
- `NoticeInv`: notices are about records of the table, a start is queued before the
  rest about its job, a loss is about an abandoned process.
- `CallInv`, `FailuresInv`: what the session's locals refer to is in the table, and the
  failures of an ending session, in each of the two lists a hang-up keeps, are of
  different jobs that are no longer live, with the reason their records show. Merging
  keeps that, because a job in both lists has the same record (`HangUpReturnFailures`).

`NoticesAddressable` shows why the parts hang together. Acknowledging a completion
removes the record, so no other notice may be about the job: not its start, which was
queued earlier (`NoticeInv`); not a second lifecycle notice (`Inv`); and not a loss,
because an abandoned process stays a zombie and a job with one never completes
(`MemberInv`). `TableConverges` needs the channel to be ordered (`ChannelInv`) and a
continuation assumed by `continue_in` to leave a stop that happened before it in the
channel or in waitpid, never in both (`ProcInv`, `ConvInv`).

Some fifty actions change this state in few ways, so every step is first shown to be
of one of seven kinds (`StepKind`): processes run, completed records leave, a job is
quarantined, an observer reports, a pipeline is spawned, a start fails, an observation
is received. Each part of `Reality` is then kept by each kind.

The refinement of `JobLedger` uses the same kinds. A job's life is open, completed or
closed by its record, its width the members that have a process. Steps in which processes
run map to the exit of some members of one job (`CodeStep`), spawning to `Open`, a
received observation to `Complete` or to nothing, a removal to `HandOut`; `CompletionIsReal`
after the step is what makes the published outcome the ledger's aggregate.

### Tool processes

`ToolProcessProofs` proves `TypeOK`, `NoSurvivors` and `OutputComplete` for every
limit, amount of output and set of fault kinds. The inductive invariant `IInv` has
eight parts: `Typed`; `Quiet` (nothing exists before the tool is started); `Clean` (no
error and no dropped pipe until something fails, and an error to report from then on);
`Waited` (the leader is gone exactly when it has been waited for); `EndsSeen` (a pipe
seen ended is empty and nobody can write to it again); `Accounted` (until the limit
strikes every byte written is in a pipe or retained); `WithinLimit` (a run whose limit
struck never gets as far as its status); and `Settled` (a run without a failed cleanup
returns only when leader, pipes and group are gone). `OutputComplete` needs `EndsSeen`
and `Accounted` together: neither says by itself that nothing was lost.

### Standard host

`StandardHostProofs` and `StandardHostAccount` prove all six invariants and the
action property of the run, for every limit, chunk and word size, set of calls and
number of failing system calls. There are two inductive invariants, in
`StandardHostInvariant`.

`Core` is control. `CancelInv`: what the scope has observed and what the lease has
received. `OwnerInv`: which of worker, socket, terminal and lease the supervisor owns
at each program counter. `ReportInv`: a failed step of cleanup is remembered until it
is reported, once. `ChunkInv`: nothing of a chunk is uncertain before its request, all
of it while it may be served, and an answer settles it. `Protocol`: the phases of
supervisor and worker against what the socket can hold, in each direction
(`ChannelInv`, `PhaseInv`, `UpInv`, `DownInv`). From it follow `NoLostSignal`,
`CleanupSound`, `NoDetachedWork` and `CancelledIsFinal`.

`Account` is bytes, and rests on `Core`. `ChargeInv`: the counter is the sum of the
per-role accounts and what the call in hand has charged. `MovedInv`: what was moved
lies between confirmed and not excluded, whatever becomes of the call. `AnswerInv`: a
request that may still be served stands for at most its length, an answer on its way
for exactly the bytes it carries. `StreamInv`: where the call stands in its stream.
`OutcomeInv`: how calls return. It gives `AccountingSound`, `StreamsExact` and `TypeOK`. The
protocol part is what makes it inductive: without it a second reply could be
in the socket, and confirming it would count its bytes twice.

There is one lemma for each part and each group of steps: those of a call, of a
transfer, of `close`, of the worker, and of the world (program, signals, clock).

### Language server

`LanguageServerProofs` proves `TypeOK`, `RequestAccounted`, `ViewIsPublished` and
`NewestIsOwed`, and `LanguageServerRefinement` that the server implements
`LanguageContract`, for every finite set of documents and requests and every bound.
The inductive invariant is `IInv` of `LanguageServerInvariant`:

- `QueueInv`: serials are used once, a queued job has its control, and only a running
  server tracks anything; `OutInv`: at most one job is out, and where it is.
- `JobInv`: what is known of a job by its serial (`Known`) wherever it is: its
  snapshot is of the current documents if its generation is current, it is tracked
  or cancelled, and while tracked it is invalidated exactly if its generation is old.
  `PlaceInv`: the job of every control is somewhere.
- `InboxInv`: requests in the input are new, and there are not more edits in it than
  the editor has made and the workspace has not applied.
- `RequestInv`: a request is tracked, about to be answered or answered, and only
  one of these. `AnswerInv`: an answer about to be written is true, and stays so
  while it waits, because the coordinator takes no event before it has written.
- `ViewInv`: for each document a publication is waiting or the editor shows what
  was published.

`NewestIsOwed` needs the last clause of `Known`: without it an analysis of an earlier
generation could fail late and be taken for the failure of the newest. Once the
server has ended only types, queue and worker are kept: the end abandons the
requests.

The contract's phase is the lifecycle until the server ends. An applied edit maps to
`Edit`, taking up a request to `Ask`, cancelling a tracked one to `Revoke`, a written
message to `Answer` or `Show`, the end to `Leave`; queue, worker and reader are not
seen. `AnswerInv` makes an answer truthful when it is written, `RequestInv` makes it
the first, and that the reply to the shutdown comes last in its output makes it
the last one owed.

### Run journal

`RunJournalProofs` proves `KeepsLog`, `EffectsAreJournalled` and the five invariants
of the runs: `TypeOK`, `CompleteAccountsForEffects` and `ExitIsEvidenced` outright, `JournalIsAuditable` and `ReceiptAgreesWithAudit` for a clock that does
not step back over the start of the run (`Steady`). They hold for every set of command
lines, limits on lines and bytes, line sizes, depth, number of attempts and number of
faults, from `ChainAssumption` and `RunAssumption`. `Steady` is a hypothesis and not
an assumption of the module, because the code does not ensure it: `journal_clock` shows
what happens otherwise.

The inductive invariant is `IInv` of `RunJournalInvariant`. Once the command has ended
or crashed nothing moves any more and it is the properties themselves; until then it
consists of:

- `Types`, `CallInv`, `OpsInv`: the event of the append in progress belongs to the
  place it returns to (`Site`); effects are open only in an action.
- `NameInv`: at which place the file has which name.
- `ChainInv`: the chain in memory is what an audit of the durable lines finds. This is
  the heart of it: the writer remembers, the auditor recomputes, and the proof is that
  admitting one event in memory and reading one more line are the same step.
- `PendingInv`: at most one line is not durable; it would be admitted next, and after a
  failure it stays the last one. So whatever prefix a crash keeps, it is the
  durable part, or that and one admissible line, or that and a torn line.
- `AccountInv`, `OpenInv`: open effects are on record in the order of their attempts, an
  effect that was carried out has its beginning on record, and is open until its end is;
  what the evaluator may carry out next is open.
- `EndInv`, `ReceiptInv`: completeness, result, receipt and audit follow from a durable
  terminal line.

`CompleteAccountsForEffects` follows because a terminal line is admitted only when no
effect is open, so each one carried out has its end on record (`AccountInv`), even if the
program caught the error that refused it. `JournalIsAuditable` follows from one lemma
on the verdict on the file (`PrefixVerdict`), used for the live file and for what a
crash leaves of it.

The refinement of `EvidenceLog` needs the open effects of the chain to be those of the
log, in both directions. `AccountInv` has one half: what is open was announced and
what was carried out is open or ended. `OrderInv` has the other: what was announced is
open or ended, what was ended is not open and its number is never used again, and a
terminal line closes the chain. It is kept because a new attempt takes the next number and
because only the innermost, and so the latest, open effect is ended (`OrderStep`). A
synced line then maps to `Record` (`SyncRecords`), the durable name to the recording
of the header (`HeaderRecorded`), an effect to `Perform` (`PerformsOpen`), an
exit to `Finish`; a failed write or sync and a crash leave the log as it is
(`AppendLeaves`, `CrashLeaves`).

The audit is a recursive function over the lines. The library's induction theorems take
an operator as parameter and cannot be used here, so `Induct` states induction with a set in
place of a predicate (from `WFMin`); with it a replay exists and is
unique, `ReplayedAppend` gives the replay of a file with one line more, and
`Replayed` is never unfolded again.

### How the invariants were found

Each inductive invariant was first checked by TLC as an invariant of the component's
run (tool process 1.3 million states, standard host 1.1 million, language server 2.9
million and 0.6 million, `Reality` 1.6, 1.3 and 0.2 million on the instances of the job
runs, the run journal 1.7 and 1.1 million, and 12 thousand on the clock's); the proofs then
asked for more conjuncts, which were checked in the same way. For the run journal these
were: an effect is open only in an action, a cleanup is appended only while one is
left to do, and a receipt that says "incomplete" excludes a terminal line that waits for its
sync. That last one is the window in which a receipt could contradict the file. The assumptions
also had to say what the code's constants satisfy: a depth of at least one, and no more
probes than attempts. The proof of `FinishIn` also corrected the model: `Finish` was written as a `CASE` whose
arms overlap, which leaves the choice open where the code tests in order.

The leaves of the proofs are kept small: each is found with a fifth of the time the
prover allows it by default, so that a slow machine does not lose one.

### Only model-checked

Every invariant of the passing runs is proved, and so are all three refinements
and the action property of the standard host. What stays with TLC is liveness under
fairness, which is outside this prover: `WaitEnds`, `JoinEnds`, `TerminalComesBack`,
`DiagnosticsSettle`, `RequestsAnswered`, `CallsReturn` and `Returns`; and the three
findings, which are counterexamples.

## 6. Findings

1. `join_restop`: `apply_observation` clears `resume_requested` only for a stop
   of a job not already shown stopped. A stop that follows the resume closely
   hides the continuation, so it is never answered and the join never returns.
2. `wait_passed`: `resume_wait_targets` walks the selection once and drains the
   channel before each target. The stop of a target already found running is
   applied while a later one is examined, nothing resumes it, and `wait` blocks in
   `recv` on a stopped process.
3. `journal_clock`: `finish_execution_journal` takes `finished_at` from the wall
   clock and does not compare it with `started_at`; `audit_journal` does. After a
   backward step the run exits 0 with a receipt that says "complete", and every
   audit refuses the journal. (`task run` notices, since it audits before it exits.)

More behaviours of the job table are in the model without a run of their
own (they are noted with their hazards). A stopped foreground job continued by another process is shown in the
foreground, and `fg` refuses it. The session's end signals from the table without
draining first, so a job that has already succeeded may be quarantined and
reported. The command after one that lost the terminal finds a job as its owner and gives the
terminal back to that job.

Also seen in the job table and the journal: the join's failures are not sorted although `join_background_jobs` says so (hang-up
sorts them), `wait` can
fail with NotStopped when a continuation is observed between its two looks, and
`start` leaves already assigned children running when a later hand-over fails.
In the standard host, a spawn that fails with EAGAIN is retried on a host that was
just closed and ends as "unsupported". In the tool process, a run cancelled after
its leader was waited for, its group empty and a pipe still held elsewhere,
signals a group identifier that is no longer its own; and a descendant that init
has not yet reaped makes a well-behaved run a protocol error. A task run that is
cancelled after its outcome was decided exits with 130 although receipt and audit
record a success, as the last check of `finish_task_run` intends.

## 7. Plan

Done: the job table, the run journal, the language server, the standard host and
the tool processes. Left, in order: the foreground pipeline's terminal and signal
guards, HTTP with its deadline, authority narrowing, `ResourceScope`, the module
graph's staleness check, and the Redox observation path.

## 8. Not modelled

Expression evaluation, values, formatting, parsing, module loading and the
editors are sequential and covered by unit tests; canonical encodings and hashes
are uninterpreted; CI, benchmarks, fuzzing and examples are not part of the
program. `PROJECT.json` lists every component with its reason.

These parts are most of the code: of some 113,000 lines the module loader and
checker (`module.rs`), the evaluator, the parser and formatter, the data
formats, the builtins and the unit tests kept inside the source files make up by far
the most. They are tree walks and conversions whose input is a program or a
document; a bounded instance would repeat a unit test, and a model of
them would be a transliteration. The models cover what has concurrency, failure,
time or durable state, so the share of all lines they stand for stays small, below
what a line count alone would call complete.
