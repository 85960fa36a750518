---------------------------- MODULE RunJournal ----------------------------
(***************************************************************************)
(* One accepted-plan execution and its evidence: execute_plan of           *)
(* opaal-cli/src/project.rs, the source operations it runs                 *)
(* (opaal-runtime/src/operational/source.rs), the journal it writes and    *)
(* syncs line by line, the receipt and the audit it persists at the end,   *)
(* and the exit the command selects (`opaal execute`, `opaal task run`).   *)
(*                                                                         *)
(* The process may stop dead between any two steps: Crash keeps what was   *)
(* synced and any part of what was only written.  A journal append is      *)
(* three steps (admit and write, sync, return to the caller), so that a    *)
(* crash or an I/O failure can fall inside it.                             *)
(***************************************************************************)
EXTENDS JournalChain

CONSTANTS
    Requests,         \* the command lines: records of RequestType
    Nodes, Root,      \* action nodes of the accepted plan, and the task's own
    FinishTimes,      \* readings of the wall clock when the run ends
    Sizes,            \* sizes of a journal line
    MaxDepth,         \* bound: nested actions
    MaxAttempts,      \* bound: effects attempted, probes included
    MaxProbes,        \* bound: maintained tools to probe
    MaxHostFailures,  \* bound: standard-host cleanup failures (at most two)
    MaxResources,     \* bound: adapter resources registered
    MaxFaults         \* bound: I/O failures in one run

\* Every run starts its journal at this reading of the wall clock.
StartTime == 1

RequestType ==
    [task : BOOLEAN,           \* `opaal task run`, else `opaal execute`
     receipt : BOOLEAN,        \* --receipt-out
     require_true : BOOLEAN,   \* --require-true
     streams : BOOLEAN,        \* the plan reaches a standard stream
     metadata_only : BOOLEAN]  \* the journal holds metadata only

ASSUME RunAssumption ==
    /\ Requests \subseteq {r \in RequestType :
            /\ (r.task \/ r.require_true) => r.receipt
            /\ r.streams => r.metadata_only}
    /\ Root \in Nodes
    /\ FinishTimes \subseteq Nat
    /\ Sizes \subseteq Nat /\ \A size \in Sizes : 0 < size /\ size <= MaxBytes - Reserve
    /\ MaxDepth \in Nat \ {0} /\ MaxAttempts \in Nat /\ MaxProbes \in 0..MaxAttempts
    /\ MaxHostFailures \in 0..2 /\ MaxResources \in Nat /\ MaxFaults \in Nat

VARIABLES
    pc,         \* where the command is
    request,    \* its command line
    requested,  \* cancellation has been requested by a signal
    faults,     \* I/O failures so far
    chain,      \* SyncedJournal.chain
    journal,    \* the other fields of SyncedJournal
    disk,       \* the journal's directory entry, lines, synced lines, torn tail
    io,         \* the append in progress and the place it returns to
    ops,        \* ControlledSourceOperations and the evaluator above it
    performed,  \* effects that have reached the host: the environment's memory
    todo,       \* cleanup events still to append
    result,     \* what the execution closure returns
    receipt,    \* the receipt file and the receipt
    audit,      \* the audit file and RunAudit.artifact
    exit        \* the exit code, 255 while there is none

vars == <<pc, request, requested, faults, chain, journal, disk, io, ops,
          performed, todo, result, receipt, audit, exit>>

Effects == {"process", "data", "output"}
NoExit == 255

\* A primary outcome and the cancellation reason that goes with it.
Outcome(class, reason) == [class |-> class, cancel_reason |-> reason]
NoOutcome == Outcome("none", "null")

NewJournal ==
    [failed |-> FALSE, complete |-> FALSE, primary |-> NoOutcome, cleanup |-> <<>>,
     output_failed |-> FALSE, assessment |-> "null"]
NewOperations ==
    [actions |-> <<>>, effects |-> <<>>, next_attempt |-> 0, entered |-> FALSE,
     abort |-> "none"]
NoCleanup == [host |-> <<>>, resources |-> <<>>, failed |-> FALSE]
NoReceipt ==
    [file |-> "absent", state |-> "none", primary |-> NoOutcome,
     secondary |-> FALSE, successful |-> FALSE]
NoIo == [site |-> "none", event |-> EvidenceFailure, chain |-> Begin("execution", 0), ok |-> FALSE]

Init ==
    /\ pc = "admission"
    /\ request \in Requests
    /\ requested = FALSE
    /\ faults = 0
    /\ chain = Begin("execution", 0)
    /\ journal = NewJournal
    /\ disk = [name |-> "absent", lines |-> <<>>, synced |-> 0, torn |-> FALSE]
    /\ io = NoIo
    /\ ops = NewOperations
    /\ performed = {}
    /\ todo = NoCleanup
    /\ result = "running"
    /\ receipt = NoReceipt
    /\ audit = [file |-> "absent", verdict |-> "none", persisted |-> FALSE]
    /\ exit = NoExit

Policy == IF request.require_true THEN "require-true" ELSE "execution"

Fault == faults < MaxFaults /\ faults' = faults + 1
NoFault == UNCHANGED faults

-----------------------------------------------------------------------------
(* SyncedJournal::append *)

\* Call append; it comes back at `site` with io.ok.
Call(site, event) ==
    /\ pc' = "append"
    /\ io' = [NoIo EXCEPT !.site = site, !.event = event]

Return(ok) ==
    /\ pc' = io.site
    /\ io' = [NoIo EXCEPT !.event = io.event, !.ok = ok]

evalVars == <<request, requested, ops, performed, todo, result, receipt, audit, exit>>

\* The journal is unavailable after a persistence failure, or the chain
\* refuses the event; neither touches the file.
AppendRefused ==
    /\ pc = "append"
    /\ journal.failed \/ \E size \in Sizes : ~CanAppend(chain, io.event, size)
    /\ Return(FALSE)
    /\ UNCHANGED <<evalVars, faults, chain, journal, disk>>

\* write_all takes the whole line...
AppendWrite ==
    /\ pc = "append"
    /\ ~journal.failed
    /\ \E size \in Sizes :
        /\ CanAppend(chain, io.event, size)
        /\ disk' = [disk EXCEPT !.lines = Append(@, LineOf(chain, io.event, size))]
        /\ io' = [io EXCEPT !.chain = Appended(chain, io.event, size)]
    /\ pc' = "sync"
    /\ UNCHANGED <<evalVars, faults, chain, journal>>

(* Mutant: a failed write does not make the journal unavailable. *)
AppendWriteFails_NotSticky ==
    /\ pc = "append"
    /\ ~journal.failed
    /\ \E size \in Sizes : CanAppend(chain, io.event, size)
    /\ Fault
    /\ \E torn \in BOOLEAN : disk' = [disk EXCEPT !.torn = torn]
    /\ Return(FALSE)
    /\ UNCHANGED <<evalVars, chain, journal>>

\* ...or fails having written a part of it, or nothing.
AppendWriteFails ==
    /\ pc = "append"
    /\ ~journal.failed
    /\ \E size \in Sizes : CanAppend(chain, io.event, size)
    /\ Fault
    /\ \E torn \in BOOLEAN : disk' = [disk EXCEPT !.torn = torn]
    /\ journal' = [journal EXCEPT !.failed = TRUE]
    /\ Return(FALSE)
    /\ UNCHANGED <<evalVars, chain>>

\* The chain advances only once the line is synced.
AppendSync ==
    /\ pc = "sync"
    /\ disk' = [disk EXCEPT !.synced = Len(disk.lines)]
    /\ chain' = io.chain
    /\ Return(TRUE)
    /\ UNCHANGED <<evalVars, faults, journal>>

AppendSyncFails ==
    /\ pc = "sync"
    /\ Fault
    /\ journal' = [journal EXCEPT !.failed = TRUE]
    /\ Return(FALSE)
    /\ UNCHANGED <<evalVars, chain, disk>>

-----------------------------------------------------------------------------
(* Before the journal exists: admission, the reserved audit and receipt,   *)
(* create_journal.  An error here ends the command without evidence.       *)

Exit(code) ==
    /\ pc' = "exited"
    /\ exit' = code

\* The exit of a command whose execute_plan returned an error.
ErrorExit ==
    CASE request.task -> IF requested THEN 130 ELSE 2
      [] OTHER -> IF request.require_true THEN 2 ELSE 1

setupVars == <<request, requested, chain, journal, io, ops, performed, todo, result>>

\* The accepted plan is stale, expired, refused or cancelled.
Refuse ==
    /\ pc = "admission"
    /\ Exit(ErrorExit)
    /\ UNCHANGED <<setupVars, faults, disk, receipt, audit>>

Admitted ==
    /\ pc = "admission"
    /\ pc' = IF request.task THEN "reserve_audit"
             ELSE IF request.receipt THEN "reserve_receipt" ELSE "create"
    /\ UNCHANGED <<setupVars, faults, disk, receipt, audit, exit>>

\* RunAudit::reserve and create_receipt create the file and sync its parent.
ReserveAudit ==
    /\ pc = "reserve_audit"
    /\ \/ /\ audit' = [audit EXCEPT !.file = "reserved"]
          /\ pc' = "reserve_receipt"
          /\ UNCHANGED <<faults, exit>>
       \/ /\ Fault
          /\ \E file \in {"absent", "reserved"} : audit' = [audit EXCEPT !.file = file]
          /\ Exit(ErrorExit)
    /\ UNCHANGED <<setupVars, disk, receipt>>

ReserveReceipt ==
    /\ pc = "reserve_receipt"
    /\ \/ /\ receipt' = [receipt EXCEPT !.file = "reserved"]
          /\ pc' = "create"
          /\ UNCHANGED <<faults, exit>>
       \/ /\ Fault
          /\ \E file \in {"absent", "reserved"} : receipt' = [receipt EXCEPT !.file = file]
          /\ Exit(ErrorExit)
    /\ UNCHANGED <<setupVars, disk, audit>>

\* The header is written to a temporary file and synced there...
WriteHeader ==
    /\ pc = "create"
    /\ \E size \in Sizes :
        \/ /\ disk' = [name |-> "temporary", synced |-> 1, torn |-> FALSE,
                       lines |-> <<LineOf([lines |-> 0], Header(StartTime, Policy), size)>>]
           /\ chain' = Begin(Policy, size)
           /\ pc' = "rename"
           /\ UNCHANGED <<faults, exit>>
        \/ /\ Fault
           /\ Exit(ErrorExit)
           /\ UNCHANGED <<disk, chain>>
    /\ UNCHANGED <<request, requested, journal, io, ops, performed, todo, result, receipt, audit>>

\* ...moved to the journal's name, which no file has...
RenameJournal ==
    /\ pc = "rename"
    /\ \/ /\ disk' = [disk EXCEPT !.name = "linked"]
          /\ pc' = "sync_parent"
          /\ UNCHANGED <<faults, exit>>
       \/ /\ Fault
          /\ disk' = [name |-> "absent", lines |-> <<>>, synced |-> 0, torn |-> FALSE]
          /\ Exit(ErrorExit)
    /\ UNCHANGED <<setupVars, receipt, audit>>

\* ...and the name is made durable before anything else happens.
SyncParent ==
    /\ pc = "sync_parent"
    /\ \/ /\ disk' = [disk EXCEPT !.name = "durable"]
          /\ pc' = IF request.streams THEN "bind" ELSE "probe"
          /\ UNCHANGED <<faults, exit>>
       \/ /\ Fault
          /\ Exit(ErrorExit)
          /\ UNCHANGED disk
    /\ UNCHANGED <<setupVars, receipt, audit>>

-----------------------------------------------------------------------------
(* The execution closure: streams, probes, the task, cleanup, terminal.    *)

hostVars == <<request, requested, faults, chain, disk, receipt, audit, exit>>

\* The closure returns; finish_receipt and the audit come after it.
Close(outcome) ==
    /\ result' = outcome
    /\ pc' = "closed"

\* What polling the cancellation scope may report: a request wins over the
\* deadline, which may pass at any time.
Polled == IF requested THEN {"requested"} ELSE {"none", "timeout"}
Cancelled == Polled \ {"none"}

BindStreams ==
    /\ pc = "bind"
    /\ pc' = "probe"
    /\ UNCHANGED <<hostVars, journal, io, ops, performed, todo, result>>

\* A stream cannot be bound: the run is refused, the host closed.
BindFails ==
    /\ pc = "bind"
    /\ \E failures \in {<<>>, <<"cleanup-failed">>} :
        /\ journal' = [journal EXCEPT !.primary = Outcome("refused", "null"),
                                      !.cleanup = failures]
        /\ todo' = [todo EXCEPT !.host =
                        [i \in DOMAIN failures |-> Cleanup("standard-host", 0, failures[i])]]
    /\ pc' = "cleanup"
    /\ UNCHANGED <<hostVars, io, ops, performed, result>>

\* One maintained tool is probed between an effect-before and an effect-after
\* event of the task's own action node.
ProbeStart ==
    /\ pc = "probe"
    /\ ops.next_attempt < MaxProbes
    /\ Call("probe_started", EffectBefore(Root, "process", ops.next_attempt))
    /\ UNCHANGED <<hostVars, journal, ops, performed, todo, result>>

ProbeStarted ==
    /\ pc = "probe_started"
    /\ io' = NoIo
    /\ \/ io.ok /\ pc' = "probing" /\ UNCHANGED result
       \/ ~io.ok /\ Close("err")
    /\ UNCHANGED <<hostVars, journal, ops, performed, todo>>

ProbeSucceeds ==
    /\ pc = "probing"
    /\ performed' = performed \cup {[effect |-> "process", attempt |-> ops.next_attempt]}
    /\ ops' = [ops EXCEPT !.next_attempt = @ + 1]
    /\ Call("probed", EffectAfter(Root, "process", ops.next_attempt))
    /\ UNCHANGED <<hostVars, journal, todo, result>>

\* probe_failure_outcome: a cancelled probe is a refusal unless the evidence is
\* metadata only or the exit is selected.
ProbeFails ==
    /\ pc = "probing"
    /\ \E launched \in BOOLEAN, why \in {"none"} \cup Cancelled :
        /\ performed' = IF launched
                        THEN performed \cup {[effect |-> "process", attempt |-> ops.next_attempt]}
                        ELSE performed
        /\ journal' = [journal EXCEPT !.primary =
                IF why # "none" /\ (request.metadata_only \/ request.require_true)
                THEN Outcome("cancelled", why) ELSE Outcome("refused", "null")]
    /\ Call("probe_failed", EffectAfter(Root, "process", ops.next_attempt))
    /\ UNCHANGED <<hostVars, ops, todo, result>>

\* The locked executable is gone: `?` leaves the effect open.
ProbeIsStale ==
    /\ pc = "probing"
    /\ Close("err")
    /\ UNCHANGED <<hostVars, journal, io, ops, performed, todo>>

Probed ==
    /\ pc \in {"probed", "probe_failed"}
    /\ io' = NoIo
    /\ \/ /\ io.ok
          /\ pc' = IF pc = "probed" THEN "probe" ELSE "terminal"
          /\ UNCHANGED result
       \/ ~io.ok /\ Close("err")
    /\ UNCHANGED <<hostVars, journal, ops, performed, todo>>

\* Authority rules, effects, arguments and inputs are put together...
Prepare ==
    /\ pc = "probe"
    /\ pc' = "evaluate"
    /\ UNCHANGED <<hostVars, journal, io, ops, performed, todo, result>>

\* ...or one of them cannot be, and the closure returns before the task.
PrepareFails ==
    /\ pc \in {"bind", "probe"}
    /\ Close("err")
    /\ UNCHANGED <<hostVars, journal, io, ops, performed, todo>>

-----------------------------------------------------------------------------
(* Evaluating the task.  ops.abort is the evaluator's Abort: "error" can be *)
(* caught by the program, "output" is a journal error and cannot.          *)

taskVars == <<hostVars, todo, result>>

\* A module fails to initialise, or the run is cancelled before the task's
\* action starts: the task ends without an action.
InitializationFails ==
    /\ pc = "evaluate"
    /\ ~ops.entered
    /\ \E why \in {"error", "refused"} \cup Cancelled :
        ops' = [ops EXCEPT !.entered = TRUE, !.abort = why]
    /\ UNCHANGED <<taskVars, pc, io, journal, performed>>

\* action_start: the node joins the runtime's stack once it is journalled.
EnterAction ==
    /\ pc = "evaluate"
    /\ ops.abort = "none" /\ ops.effects = <<>>
    /\ \E node \in Nodes :
        /\ IF ops.entered THEN ops.actions # <<>> /\ Len(ops.actions) < MaxDepth
           ELSE node = Root
        /\ Call("entered", ActionStart(node))
    /\ ops' = [ops EXCEPT !.entered = TRUE]
    /\ UNCHANGED <<taskVars, journal, performed>>

Entered ==
    /\ pc = "entered"
    /\ ops' = IF io.ok THEN [ops EXCEPT !.actions = Append(@, io.event.node)]
              ELSE [ops EXCEPT !.abort = "output"]
    /\ io' = NoIo
    /\ pc' = "evaluate"
    /\ UNCHANGED <<taskVars, journal, performed>>

\* An effect may open in an action, and a secret reveal inside an HTTP request.
MayOpen(effect) ==
    /\ ops.abort = "none" /\ ops.actions # <<>>
    /\ \/ ops.effects = <<>>
       \/ Len(ops.effects) = 1 /\ Last(ops.effects).effect = "data" /\ effect = "data"

\* effect: polled, refused by authority, or given an attempt and journalled.
StartEffect ==
    /\ pc = "evaluate"
    /\ "none" \in Polled
    /\ ops.next_attempt < MaxAttempts
    /\ \E effect \in Effects :
        /\ MayOpen(effect)
        /\ effect = "output" => request.streams
        /\ Call("started", EffectBefore(Last(ops.actions), effect, ops.next_attempt))
    /\ ops' = [ops EXCEPT !.next_attempt = @ + 1]
    /\ UNCHANGED <<taskVars, journal, performed>>

RefuseEffect ==
    /\ pc = "evaluate"
    /\ \E effect \in Effects : MayOpen(effect)
    /\ \E why \in {"refused"} \cup Cancelled : ops' = [ops EXCEPT !.abort = why]
    /\ UNCHANGED <<taskVars, pc, io, journal, performed>>

(* Mutant: the effect goes ahead although its record failed. *)
Started_Regardless ==
    /\ pc = "started"
    /\ ops' = [ops EXCEPT !.effects =
                    Append(@, [effect |-> io.event.effect, attempt |-> io.event.attempt])]
    /\ io' = NoIo
    /\ pc' = "evaluate"
    /\ UNCHANGED <<taskVars, journal, performed>>

Started ==
    /\ pc = "started"
    /\ ops' = IF io.ok
              THEN [ops EXCEPT !.effects =
                        Append(@, [effect |-> io.event.effect, attempt |-> io.event.attempt])]
              ELSE [ops EXCEPT !.abort = "output"]
    /\ io' = NoIo
    /\ pc' = "evaluate"
    /\ UNCHANGED <<taskVars, journal, performed>>

\* The host carries the open effect out.
EffectSucceeds ==
    /\ pc = "evaluate"
    /\ ops.effects # <<>> /\ ops.abort = "none"
    /\ LET open == Last(ops.effects)
       IN  /\ performed' = performed \cup {open}
           /\ Call("finished", EffectAfter(Last(ops.actions), open.effect, open.attempt))
    /\ UNCHANGED <<taskVars, journal, ops>>

\* The host or the code around the call fails, perhaps after the effect; an
\* effect whose inner effect failed fails for the same reason.
EffectFails ==
    /\ pc = "evaluate"
    /\ ops.effects # <<>>
    /\ LET open == Last(ops.effects)
       IN  /\ performed' \in {performed, performed \cup {open}}
           /\ \E why \in IF ops.abort = "none" THEN {"error", "refused"} \cup Cancelled
                         ELSE {ops.abort} :
                ops' = [ops EXCEPT !.abort = why]
           /\ journal' = [journal EXCEPT !.output_failed = @ \/ open.effect = "output"]
           /\ Call("finished", EffectAfter(Last(ops.actions), open.effect, open.attempt))
    /\ UNCHANGED taskVars

\* A failed effect keeps its own error even when its record failed; a
\* successful one does not survive the loss of its record.
Finished ==
    /\ pc = "finished"
    /\ \E next \in IF ops.abort # "none" THEN {ops.abort}
                   ELSE IF io.ok THEN Polled ELSE {"output"} :
        ops' = [ops EXCEPT !.effects = Front(@), !.abort = next]
    /\ io' = NoIo
    /\ pc' = "evaluate"
    /\ UNCHANGED <<taskVars, journal, performed>>

\* The program throws, is cancelled, or catches an error in an open action.
Throw ==
    /\ pc = "evaluate"
    /\ ops.abort = "none" /\ ops.effects = <<>> /\ ops.actions # <<>>
    /\ \E why \in {"error"} \cup Cancelled : ops' = [ops EXCEPT !.abort = why]
    /\ UNCHANGED <<taskVars, pc, io, journal, performed>>

Catch ==
    /\ pc = "evaluate"
    /\ ops.abort = "error" /\ ops.effects = <<>> /\ ops.actions # <<>>
    /\ ops' = [ops EXCEPT !.abort = "none"]
    /\ UNCHANGED <<taskVars, pc, io, journal, performed>>

\* action_end: the runtime's stack is popped whatever the journal says.
LeaveAction ==
    /\ pc = "evaluate"
    /\ ops.effects = <<>> /\ ops.actions # <<>>
    /\ Call("left", ActionEnd(Last(ops.actions)))
    /\ ops' = [ops EXCEPT !.actions = Front(@)]
    /\ UNCHANGED <<taskVars, journal, performed>>

\* A lost record turns success into a journal error; the task's own action may
\* be refused for a secret it never used.
Left ==
    /\ pc = "left"
    /\ \E next \in IF ops.abort # "none" THEN {ops.abort}
                   ELSE IF ~io.ok THEN {"output"}
                   ELSE IF ops.actions = <<>> THEN {"none", "refused"} ELSE {"none"} :
        ops' = [ops EXCEPT !.abort = next]
    /\ io' = NoIo
    /\ pc' = "evaluate"
    /\ UNCHANGED <<taskVars, journal, performed>>

-----------------------------------------------------------------------------
(* Cleanup and the terminal line *)

\* script_outcome_value; an unsuccessful status is an outcome of its own.
Primaries ==
    CASE ops.abort = "none" -> {Outcome("success", "null"), Outcome("status", "null")}
      [] ops.abort \in {"requested", "timeout"} -> {Outcome("cancelled", ops.abort)}
      [] ops.abort = "refused" -> {Outcome("refused", "null")}
      [] OTHER -> {Outcome("error", "null")}

\* The value of a selected task: a Bool, or a type error after all.
Assessments(primary) ==
    IF request.require_true /\ primary.class = "success"
    THEN {<<primary, "true">>, <<primary, "false">>, <<Outcome("error", "null"), "null">>}
    ELSE {<<primary, "null">>}

\* append_standard_host_cleanup and append_cleanup_events: ordinals run down to
\* zero, host failures above the registered resources.
HostCleanup(failures, resources) ==
    [i \in 1..failures |->
        Cleanup("standard-host", resources + failures - i, "cleanup-failed")]
ResourceCleanup(outcomes) ==
    [i \in DOMAIN outcomes |-> Cleanup("resource", Len(outcomes) - i, outcomes[i])]

\* The task is over: its outcome and what is to be cleaned up are known, and
\* the source operations are dropped.
Evaluated ==
    /\ pc = "evaluate"
    /\ ops.entered /\ ops.actions = <<>> /\ ops.effects = <<>>
    /\ \E primary \in Primaries, n \in 0..MaxResources,
          failures \in 0..(IF request.streams THEN MaxHostFailures ELSE 0) :
       \E assessed \in Assessments(primary),
          outcomes \in [1..n -> {"success", "cleanup-failed"}] :
        /\ journal' = [journal EXCEPT
                !.primary = assessed[1],
                !.assessment = assessed[2],
                !.cleanup = [i \in 1..failures |-> "cleanup-failed"] \o outcomes]
        /\ todo' = [todo EXCEPT !.host = HostCleanup(failures, n),
                                !.resources = ResourceCleanup(outcomes)]
    /\ ops' = NewOperations
    /\ pc' = "cleanup"
    /\ UNCHANGED <<hostVars, io, performed, result>>

AppendCleanup ==
    /\ pc = "cleanup"
    /\ todo.host # <<>> \/ todo.resources # <<>>
    /\ Call("cleaned", Head(todo.host \o todo.resources))
    /\ UNCHANGED <<hostVars, journal, ops, performed, todo, result>>

\* A lost host record does not keep the resources from being recorded.
Cleaned ==
    /\ pc = "cleaned"
    /\ todo' = LET list == IF todo.host # <<>> THEN "host" ELSE "resources"
               IN  IF io.ok THEN [todo EXCEPT ![list] = Tail(@)]
                   ELSE [todo EXCEPT ![list] = <<>>, !.failed = TRUE]
    /\ io' = NoIo
    /\ pc' = "cleanup"
    /\ UNCHANGED <<hostVars, journal, ops, performed, result>>

CleanupDone ==
    /\ pc = "cleanup"
    /\ todo.host = <<>> /\ todo.resources = <<>>
    /\ IF todo.failed THEN Close("err") ELSE pc' = "terminal" /\ UNCHANGED result
    /\ UNCHANGED <<hostVars, journal, io, ops, performed, todo>>

\* finish_execution_journal
AppendTerminal ==
    /\ pc = "terminal"
    /\ \E at \in FinishTimes :
        Call("terminated", Terminal(journal.primary, journal.cleanup, journal.assessment, at))
    /\ UNCHANGED <<hostVars, journal, ops, performed, todo, result>>

ClockFails ==
    /\ pc = "terminal"
    /\ Fault
    /\ Close("err")
    /\ UNCHANGED <<request, requested, chain, disk, receipt, audit, exit,
                   journal, io, ops, performed, todo>>

CleanupFailed == \E i \in DOMAIN journal.cleanup : journal.cleanup[i] = "cleanup-failed"

Terminated ==
    /\ pc = "terminated"
    /\ journal' = [journal EXCEPT !.complete = io.ok]
    /\ Close(IF ~io.ok THEN "err"
             ELSE IF journal.primary.class = "success" /\ ~CleanupFailed THEN "success"
             ELSE "failure")
    /\ io' = NoIo
    /\ UNCHANGED <<hostVars, ops, performed, todo>>

-----------------------------------------------------------------------------
(* The receipt, the audit and the exit *)

finishVars == <<request, requested, chain, io, ops, performed, todo, result>>

WithoutReceipt ==
    /\ pc = "closed" /\ ~request.receipt
    /\ Exit(IF result = "success" THEN 0 ELSE 1)
    /\ UNCHANGED <<finishVars, faults, journal, disk, receipt, audit>>

(* Mutant: a persistence failure is not told from an incomplete journal. *)
JournalState_IgnoresFailure ==
    IF journal.complete THEN "complete" ELSE "incomplete"

JournalState ==
    IF journal.failed THEN "unavailable"
    ELSE IF journal.complete THEN "complete" ELSE "incomplete"

\* Something besides the primary outcome went wrong.
Secondary ==
    \/ CleanupFailed
    \/ (request.require_true \/ request.task) /\ journal.output_failed
    \/ result = "err"

\* finish_receipt: the receipt is composed and written...
WriteReceipt ==
    /\ pc = "closed" /\ request.receipt
    /\ \E file \in {"written", "torn", "reserved"} :
        /\ IF file = "written" THEN NoFault ELSE Fault
        /\ receipt' = [file |-> file, state |-> JournalState,
                       primary |-> IF journal.primary = NoOutcome
                                   THEN Outcome("error", "null") ELSE journal.primary,
                       secondary |-> Secondary,
                       successful |-> result = "success" /\ ~Secondary]
        /\ pc' = IF file = "written" THEN "sync_receipt" ELSE "receipt_failed"
    /\ UNCHANGED <<finishVars, journal, disk, audit, exit>>

\* ...then synced, file and directory.
SyncReceipt ==
    /\ pc = "sync_receipt"
    /\ \/ /\ receipt' = [receipt EXCEPT !.file = "durable"]
          /\ pc' = "select"
          /\ NoFault
       \/ /\ Fault
          /\ pc' = "receipt_failed"
          /\ UNCHANGED receipt
    /\ UNCHANGED <<finishVars, journal, disk, audit, exit>>

\* A receipt that could not be persisted is itself evidence, if the journal can
\* still take it.
ReceiptFailed ==
    /\ pc = "receipt_failed"
    /\ receipt' = [receipt EXCEPT !.secondary = TRUE, !.successful = FALSE]
    /\ IF request.metadata_only /\ ~journal.failed /\ ~journal.complete
       THEN Call("receipt_evidence", EvidenceFailure)
       ELSE pc' = "select" /\ UNCHANGED io
    /\ UNCHANGED <<request, requested, faults, chain, disk, audit, exit,
                   journal, ops, performed, todo, result>>

ReceiptEvidence ==
    /\ pc = "receipt_evidence"
    /\ receipt' = [receipt EXCEPT !.state = IF journal.failed THEN "unavailable" ELSE @]
    /\ io' = NoIo
    /\ pc' = "select"
    /\ UNCHANGED <<request, requested, faults, chain, disk, audit, exit,
                   journal, ops, performed, todo, result>>

SelectedExit ==
    CASE receipt.primary = Outcome("cancelled", "requested") -> 130
      [] receipt.primary # Outcome("cancelled", "requested")
         /\ \/ ~receipt.successful \/ receipt.secondary
            \/ receipt.primary.class # "success"
            \/ receipt.state # "complete" -> 2
      [] OTHER -> CASE journal.assessment = "true" -> 0
                    [] journal.assessment = "false" -> 1
                    [] OTHER -> 2

Select ==
    /\ pc = "select"
    /\ IF request.task THEN pc' = "audit" /\ UNCHANGED exit
       ELSE Exit(IF request.require_true THEN SelectedExit
                 ELSE IF receipt.successful THEN 0 ELSE 1)
    /\ UNCHANGED <<finishVars, faults, journal, disk, receipt, audit>>

\* RunAudit::finish: the journal is read back and audited; an audit that cannot
\* be produced is left out.
GenerateAudit ==
    /\ pc = "audit"
    /\ LET verdict == Audit(disk.lines, disk.torn)
       IN  \/ /\ verdict # "refused"
              /\ audit' = [audit EXCEPT !.verdict = verdict]
              /\ pc' = "write_audit"
              /\ NoFault
           \/ /\ IF verdict = "refused" THEN NoFault ELSE Fault
              /\ pc' = "finish_task"
              /\ UNCHANGED audit
    /\ UNCHANGED <<finishVars, journal, disk, receipt, exit>>

WriteAudit ==
    /\ pc = "write_audit"
    /\ \E file \in {"written", "torn", "reserved"} :
        /\ IF file = "written" THEN NoFault ELSE Fault
        /\ audit' = [audit EXCEPT !.file = file]
        /\ pc' = IF file = "written" THEN "sync_audit" ELSE "finish_task"
    /\ UNCHANGED <<finishVars, journal, disk, receipt, exit>>

SyncAudit ==
    /\ pc = "sync_audit"
    /\ \/ NoFault /\ audit' = [audit EXCEPT !.file = "durable", !.persisted = TRUE]
       \/ Fault /\ UNCHANGED audit
    /\ pc' = "finish_task"
    /\ UNCHANGED <<finishVars, journal, disk, receipt, exit>>

(* Mutant: an audit that was generated is enough, persisted or not. *)
FinishTaskRun_AuditInMemory ==
    /\ pc = "finish_task"
    /\ \E summarised \in BOOLEAN :
        /\ IF summarised THEN NoFault ELSE Fault
        /\ Exit(CASE requested \/ receipt.primary = Outcome("cancelled", "requested") -> 130
                  [] ~requested /\ receipt.primary # Outcome("cancelled", "requested") ->
                     IF ~summarised \/ audit.verdict # "complete" THEN 2
                     ELSE IF request.require_true THEN SelectedExit
                     ELSE IF receipt.successful THEN 0 ELSE 2)
    /\ UNCHANGED <<finishVars, journal, disk, receipt, audit>>

\* finish_task_run; the summary may fail to be written.
FinishTaskRun ==
    /\ pc = "finish_task"
    /\ \E summarised \in BOOLEAN :
        /\ IF summarised THEN NoFault ELSE Fault
        /\ Exit(CASE requested \/ receipt.primary = Outcome("cancelled", "requested") -> 130
                  [] ~requested /\ receipt.primary # Outcome("cancelled", "requested") ->
                     IF ~summarised \/ ~audit.persisted \/ audit.verdict # "complete" THEN 2
                     ELSE IF request.require_true THEN SelectedExit
                     ELSE IF receipt.successful THEN 0 ELSE 2)
    /\ UNCHANGED <<finishVars, journal, disk, receipt, audit>>

-----------------------------------------------------------------------------
(* The world around the command *)

Ended == pc \in {"exited", "crashed"}

\* A signal: leased by `task run` from the start, by `execute` once streams are
\* bound.
RequestCancel ==
    /\ ~Ended /\ ~requested
    /\ request.task \/ (request.streams /\ disk.name = "durable" /\ pc # "bind")
    /\ requested' = TRUE
    /\ UNCHANGED <<pc, request, faults, chain, journal, disk, io, ops,
                   performed, todo, result, receipt, audit, exit>>

\* What a crash may leave of an artifact file that was written in one go.
Remains(file) == IF file = "written" THEN {"reserved", "torn", "written"} ELSE {file}

\* The process stops and its memory is gone.  Synced lines stay; a suffix of
\* the rest is lost, the first lost line possibly in part.
Crash ==
    /\ ~Ended
    /\ \E name \in CASE disk.name = "temporary" -> {"absent"}
                     [] disk.name = "linked" -> {"absent", "linked"}
                     [] OTHER -> {disk.name},
          kept \in disk.synced..Len(disk.lines),
          torn \in BOOLEAN :
        /\ torn => disk.torn \/ kept < Len(disk.lines)
        /\ disk' = [disk EXCEPT !.name = name, !.torn = torn,
                                !.lines = SubSeq(@, 1, kept)]
    /\ \E file \in Remains(receipt.file) :
        receipt' = IF file \in {"written", "durable"} THEN [receipt EXCEPT !.file = file]
                   ELSE [NoReceipt EXCEPT !.file = file]
    /\ \E file \in Remains(audit.file) : audit' = [audit EXCEPT !.file = file]
    /\ pc' = "crashed"
    /\ io' = NoIo /\ chain' = Begin("execution", 0) /\ journal' = NewJournal
    /\ ops' = NewOperations /\ todo' = NoCleanup /\ result' = "running"
    /\ requested' = FALSE /\ faults' = 0
    /\ UNCHANGED <<request, performed, exit>>

Done == Ended /\ UNCHANGED vars

AppendStep == AppendRefused \/ AppendWrite \/ AppendWriteFails \/ AppendSync \/ AppendSyncFails
SetupStep == Refuse \/ Admitted \/ ReserveAudit \/ ReserveReceipt \/ WriteHeader
             \/ RenameJournal \/ SyncParent
ProbeStep == BindStreams \/ BindFails \/ ProbeStart \/ ProbeStarted \/ ProbeSucceeds
             \/ ProbeFails \/ ProbeIsStale \/ Probed \/ Prepare \/ PrepareFails
TaskStep == InitializationFails \/ EnterAction \/ Entered
            \/ StartEffect \/ RefuseEffect \/ Started
            \/ EffectSucceeds \/ EffectFails \/ Finished \/ Throw \/ Catch
            \/ LeaveAction \/ Left
CleanupStep == Evaluated \/ AppendCleanup \/ Cleaned \/ CleanupDone
               \/ AppendTerminal \/ ClockFails \/ Terminated
FinishStep == WithoutReceipt \/ WriteReceipt \/ SyncReceipt \/ ReceiptFailed
              \/ ReceiptEvidence \/ Select \/ GenerateAudit \/ WriteAudit \/ SyncAudit \/ FinishTaskRun

Next == AppendStep \/ SetupStep \/ ProbeStep \/ TaskStep \/ CleanupStep
        \/ FinishStep \/ RequestCancel \/ Crash \/ Done

Spec == Init /\ [][Next]_vars

-----------------------------------------------------------------------------
(* Properties *)

\* The journal as another process would find it.
Published == disk.name \in {"linked", "durable"}
Verdict == Audit(disk.lines, disk.torn)

\* Each variable keeps its type: the lines of the chain within the limit, no
\* more lines synced than written, no more effects open than nest.
TypeOK ==
    /\ request \in Requests /\ requested \in BOOLEAN /\ faults \in 0..MaxFaults
    /\ chain.lines \in 1..MaxLines /\ chain.bytes \in 0..MaxBytes
    /\ chain.terminal \in BOOLEAN /\ chain.policy \in {"execution", "require-true"}
    /\ journal.failed \in BOOLEAN /\ journal.complete \in BOOLEAN
    /\ journal.output_failed \in BOOLEAN /\ journal.assessment \in {"null", "true", "false"}
    /\ disk.name \in {"absent", "temporary", "linked", "durable"}
    /\ disk.synced \in 0..Len(disk.lines) /\ disk.torn \in BOOLEAN
    /\ ops.actions \in Seq(Nodes) /\ Len(ops.actions) <= MaxDepth
    /\ ops.next_attempt \in 0..MaxAttempts /\ Len(ops.effects) <= 2
    /\ performed \subseteq [effect : Effects, attempt : 0..MaxAttempts]
    /\ result \in {"running", "err", "failure", "success"}
    /\ receipt.file \in {"absent", "reserved", "torn", "written", "durable"}
    /\ audit.file \in {"absent", "reserved", "torn", "written", "durable"}
    /\ exit \in {0, 1, 2, 130, NoExit}

\* What a reader will find of the journal, whatever happens from here on.
DurableEvents ==
    IF disk.name = "durable" THEN [i \in 1..disk.synced |-> disk.lines[i].event] ELSE <<>>

Log == INSTANCE EvidenceLog WITH
    log <- DurableEvents, done <- performed,
    Identities <- [effect : Effects, attempt : 0..MaxAttempts]

\* SyncedJournal::append, ControlledSourceOperations::effect: the durable lines
\* are the log EvidenceLog asks for.  Whatever fails or crashes, they grow by one
\* event at a time and lose none; an effect reaches the host only while it is
\* announced there and not ended; nothing follows the terminal line, which finds
\* no effect open; and exit 0 stands on the terminal line of a success.
KeepsLog == Log!Spec

\* JournalChain, SyncedJournal::append: no effect reaches the host before its
\* effect-before line is durable, under a durable name, whatever fails or
\* crashes afterwards.
EffectsAreJournalled ==
    \A p \in performed :
        /\ disk.name = "durable"
        /\ \E i \in 1..disk.synced :
            /\ disk.lines[i].event.kind = "effect-before"
            /\ disk.lines[i].event.effect = p.effect
            /\ disk.lines[i].event.attempt = p.attempt

\* audit_journal: a published journal is always auditable, in the middle of an
\* append, after a failed or torn write, and after a crash: a torn line is the
\* last one, and no line follows one whose persistence failed.
JournalIsAuditable == Published => Verdict # "refused"

\* JournalLifecycle: a journal that audits as complete records the end of every
\* effect that reached the host.
CompleteAccountsForEffects ==
    Published /\ Verdict = "complete" =>
        \A p \in performed : \E i \in 1..Len(disk.lines) :
            /\ disk.lines[i].event.kind = "effect-after"
            /\ disk.lines[i].event.effect = p.effect
            /\ disk.lines[i].event.attempt = p.attempt

\* finish_receipt: the journal_state of a receipt on disk agrees with what an
\* audit of the journal finds, unless it disclaims the journal as unavailable.
ReceiptAgreesWithAudit ==
    receipt.file \in {"written", "durable"} =>
        /\ receipt.state = "complete" => Verdict = "complete"
        /\ receipt.state = "incomplete" => Verdict = "incomplete"

\* selected_exit, finish_task_run: exit 0 (and, where the exit is selected, exit
\* 1) is given only over durable evidence: the terminal line is synced and
\* reports the success and the assessment the exit stands for, no effect is
\* left open, and the receipt and the audit that were asked for are durable.
ExitIsEvidenced ==
    exit = 0 \/ (exit = 1 /\ request.require_true /\ receipt.file = "durable" /\ receipt.successful) =>
        /\ disk.name = "durable" /\ disk.synced = Len(disk.lines) /\ ~disk.torn
        /\ Last(disk.lines).event.kind = "terminal"
        /\ Last(disk.lines).event.primary = Outcome("success", "null")
        /\ \A i \in DOMAIN Last(disk.lines).event.cleanup :
                Last(disk.lines).event.cleanup[i] = "success"
        /\ request.require_true =>
                (exit = 0 <=> Last(disk.lines).event.assessment = "true")
        /\ request.receipt => receipt.file = "durable" /\ receipt.state = "complete"
        /\ request.task => audit.file = "durable" /\ audit.verdict = "complete"

\* DEVELOPMENT.md: "After owned cleanup and evidence persistence, true exits 0":
\* an exit of 0 leaves a journal that audits as complete.
PassAudits == exit = 0 => Verdict = "complete"
=============================================================================
