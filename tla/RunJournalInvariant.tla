------------------------ MODULE RunJournalInvariant -------------------------
(***************************************************************************)
(* The inductive invariant of RunJournal: while the command runs, what its *)
(* program counter promises of the chain, the file, the open effects and   *)
(* the evidence; once it has ended, the properties themselves.             *)
(***************************************************************************)
EXTENDS RunJournal

\* The wall clock does not step back over the start of the run.
Steady == \A at \in FinishTimes : StartTime <= at

-----------------------------------------------------------------------------
(* Types *)

Attempts == 0..MaxAttempts
Policies == {"execution", "require-true"}
CleanupOutcomes == {"success", "cleanup-failed"}
Primary == {NoOutcome, Outcome("success", "null"), Outcome("status", "null"),
            Outcome("refused", "null"), Outcome("error", "null"),
            Outcome("cancelled", "requested"), Outcome("cancelled", "timeout")}
Aborts == {"none", "error", "refused", "requested", "timeout", "output"}

CleanupEvents == [kind : {"cleanup"}, owner : {"standard-host", "resource"},
                  ordinal : Nat, outcome : CleanupOutcomes]
EventType ==
    [kind : {"header"}, at : Nat, policy : Policies]
    \cup [kind : {"action-start", "action-end"}, node : Nodes]
    \cup [kind : {"effect-before", "effect-after"}, node : Nodes, effect : Effects,
          attempt : Attempts]
    \cup CleanupEvents
    \cup [kind : {"evidence-failure"}]
    \cup [kind : {"terminal"}, primary : Primary, cleanup : Seq(CleanupOutcomes),
          assessment : {"null", "true", "false"}, at : Nat]
LineType == [seq : Nat, event : EventType, size : Nat]

LifeType ==
    [actions : Seq(Nodes),
     effects : Seq([node : Nodes, effect : Effects, attempt : Attempts]),
     cleanup : Seq(CleanupOutcomes), ordinals : Seq(Nat),
     ids : SUBSET ({"standard-host", "resource"} \X Nat),
     next_attempt : Nat, acting : BOOLEAN, cleaning : BOOLEAN, terminal : BOOLEAN]
ChainType == [policy : Policies, lines : 1..MaxLines, bytes : 0..MaxBytes,
              terminal : BOOLEAN, life : LifeType]

JournalType ==
    [failed : BOOLEAN, complete : BOOLEAN, primary : Primary,
     cleanup : Seq(CleanupOutcomes), output_failed : BOOLEAN,
     assessment : {"null", "true", "false"}]
OpsType ==
    [actions : Seq(Nodes), effects : Seq([effect : Effects, attempt : Attempts]),
     next_attempt : Attempts, entered : BOOLEAN, abort : Aborts]
DiskType == [name : {"absent", "temporary", "linked", "durable"}, lines : Seq(LineType),
             synced : Nat, torn : BOOLEAN]
TodoType == [host : Seq(CleanupEvents), resources : Seq(CleanupEvents), failed : BOOLEAN]
Files == {"absent", "reserved", "torn", "written", "durable"}
ReceiptType ==
    [file : Files, state : {"none", "unavailable", "complete", "incomplete"},
     primary : Primary, secondary : BOOLEAN, successful : BOOLEAN]
AuditType == [file : Files, verdict : {"none", "complete", "incomplete"}, persisted : BOOLEAN]

\* The places append returns to.
Sites == {"probe_started", "probed", "probe_failed", "entered", "started", "finished",
          "left", "cleaned", "terminated", "receipt_evidence"}
IoType == [site : Sites \cup {"none"}, event : EventType, chain : ChainType, ok : BOOLEAN]

\* Before there is a journal; while the task is evaluated; after the closure.
Setup == {"admission", "reserve_audit", "reserve_receipt", "create"}
Evaluating == {"evaluate", "entered", "started", "finished", "left"}
Closed == {"closed", "sync_receipt", "receipt_failed", "receipt_evidence", "select",
           "audit", "write_audit", "sync_audit", "finish_task"}
Places == Setup \cup {"rename", "sync_parent", "bind", "probe", "probing", "cleanup", "terminal"}
          \cup Evaluating \cup Closed \cup Sites

WorldTypes ==
    /\ request \in Requests /\ requested \in BOOLEAN /\ faults \in 0..MaxFaults
    /\ chain \in ChainType /\ disk \in DiskType
ControlTypes ==
    /\ pc \in Places \cup {"append", "sync"}
    /\ pc \in {"append", "sync"} => io.site \in Sites
    /\ io \in IoType /\ journal \in JournalType /\ ops \in OpsType /\ todo \in TodoType
    /\ performed \subseteq [effect : Effects, attempt : Attempts]
EndTypes ==
    /\ result \in {"running", "err", "failure", "success"}
    /\ receipt \in ReceiptType /\ audit \in AuditType /\ exit = NoExit
Types == WorldTypes /\ ControlTypes /\ EndTypes

-----------------------------------------------------------------------------
(* Control *)

\* Where the command is, or will be once the append in progress returns.
Site == IF pc \in {"append", "sync"} THEN io.site ELSE pc

\* The event of an append in progress, or just returned, by the place it
\* returns to.
CallInv ==
    /\ Site = "probe_started" => io.event = EffectBefore(Root, "process", ops.next_attempt)
    /\ Site \in {"probe_started", "probing"} => ops.next_attempt < MaxProbes
    /\ Site \in {"probed", "probe_failed"} => io.event.kind = "effect-after"
    /\ Site = "entered" =>
        /\ io.event.kind = "action-start" /\ io.event.node \in Nodes
        /\ ops.entered /\ Len(ops.actions) < MaxDepth
    /\ Site = "started" =>
        /\ io.event.kind = "effect-before"
        /\ io.event.effect \in Effects /\ io.event.attempt \in Attempts
        /\ io.event.attempt < ops.next_attempt
        /\ Len(ops.effects) <= 1
        /\ \A i \in DOMAIN ops.effects : ops.effects[i].attempt < io.event.attempt
    /\ Site = "finished" =>
        /\ io.event.kind = "effect-after"
        /\ ops.effects # <<>>
        /\ io.event.effect = Last(ops.effects).effect
        /\ io.event.attempt = Last(ops.effects).attempt
    /\ Site = "left" => io.event.kind = "action-end"
    /\ Site = "cleaned" => /\ io.event.kind = "cleanup"
                           /\ todo.host # <<>> \/ todo.resources # <<>>
    /\ Site = "terminated" => \E at \in FinishTimes :
        io.event = Terminal(journal.primary, journal.cleanup, journal.assessment, at)
    /\ Site = "receipt_evidence" => io.event = EvidenceFailure

\* The evaluator's stacks: an effect is open in an action, attempts are in the
\* order they were made, and none is open outside the task.
OpsInv ==
    /\ Len(ops.actions) <= MaxDepth /\ Len(ops.effects) <= 2
    /\ ~ops.entered => ops.actions = <<>>
    /\ ops.effects # <<>> \/ Site = "started" => ops.actions # <<>>
    /\ \A i \in DOMAIN ops.effects : ops.effects[i].attempt < ops.next_attempt
    /\ Len(ops.effects) = 2 => ops.effects[1].attempt < ops.effects[2].attempt
    /\ Site \notin Evaluating => ops.effects = <<>>

-----------------------------------------------------------------------------
(* Chain and file *)

\* The durable part of the file.
Base == SubSeq(disk.lines, 1, disk.synced)

NameInv ==
    /\ Site \in Setup => disk = [name |-> "absent", lines |-> <<>>, synced |-> 0, torn |-> FALSE]
    /\ Site \notin Setup => disk.lines # <<>>
    /\ Site = "rename" => disk.name = "temporary"
    /\ Site = "sync_parent" => disk.name = "linked"
    /\ Site \notin Setup \cup {"rename", "sync_parent"} => disk.name = "durable"
    /\ Site \in Setup \cup {"rename", "sync_parent"} => performed = {} /\ journal = NewJournal

\* The chain in memory is what an audit of the durable lines finds.
ChainInv ==
    /\ disk.synced = chain.lines
    /\ Replayed(Base) = [valid |-> TRUE, life |-> chain.life, bytes |-> chain.bytes]
    /\ disk.lines[1].event = Header(StartTime, chain.policy)
    /\ chain.terminal <=> chain.life.terminal
    /\ chain.terminal =>
        /\ chain.life.effects = <<>>
        /\ Last(Base).event.at \in FinishTimes
        /\ Assessed(chain.policy, Last(Base).event)

\* At most one line is not durable: the one being appended, or the one whose
\* sync failed.  After a failure nothing follows.
PendingInv ==
    /\ pc = "sync" => Len(disk.lines) = disk.synced + 1 /\ ~journal.failed
    /\ disk.torn => journal.failed /\ Len(disk.lines) = disk.synced
    /\ Len(disk.lines) # disk.synced =>
        LET line == Last(disk.lines) IN
        /\ Len(disk.lines) = disk.synced + 1
        /\ pc = "sync" \/ journal.failed
        /\ line.seq = chain.lines /\ CanAppend(chain, line.event, line.size)
        /\ line.event.kind = "terminal" => line.event.at \in FinishTimes
        /\ pc = "sync" => /\ line.event = io.event
                          /\ io.chain = Appended(chain, line.event, line.size)

-----------------------------------------------------------------------------
(* Effects *)

Recorded(lines, n, kind, p) == \E i \in 1..n :
    /\ lines[i].event.kind = kind
    /\ lines[i].event.effect = p.effect
    /\ lines[i].event.attempt = p.attempt
OpenIn(life, p) == \E i \in DOMAIN life.effects :
    /\ life.effects[i].effect = p.effect
    /\ life.effects[i].attempt = p.attempt

\* Open effects are in the order of their attempts and on record in the first n
\* lines; an effect that is done is on record, and open until its end is.
Accounted(life, lines, n, done) ==
    /\ \A i \in DOMAIN life.effects :
        /\ life.effects[i].attempt < life.next_attempt
        /\ Recorded(lines, n, "effect-before", life.effects[i])
    /\ \A i, k \in DOMAIN life.effects :
        i < k => life.effects[i].attempt < life.effects[k].attempt
    /\ \A p \in done :
        /\ Recorded(lines, n, "effect-before", p)
        /\ OpenIn(life, p) \/ Recorded(lines, n, "effect-after", p)
AccountInv == Accounted(chain.life, disk.lines, disk.synced, performed)
IsOpen(p) == OpenIn(chain.life, p)

\* The open effects of the chain are those of the first n lines: an effect that
\* was announced there is open or was ended, one that was ended is not open, and
\* no later attempt will bear its number; a terminal line closes the chain.
Ordered(life, lines, n) == \A i \in 1..n :
    LET e == lines[i].event IN
    /\ e.kind = "effect-before" =>
        /\ e.attempt \in 0..(life.next_attempt - 1)
        /\ OpenIn(life, e) \/ Recorded(lines, n, "effect-after", e)
    /\ e.kind = "effect-after" =>
        /\ e.attempt \in 0..(life.next_attempt - 1)
        /\ \A k \in DOMAIN life.effects : life.effects[k].attempt # e.attempt
    /\ e.kind = "terminal" => life.terminal
\* Until it is published, the journal is its header.
OrderInv ==
    /\ disk.name \in {"temporary", "linked"} => disk.synced = 1
    /\ ~Ended => Ordered(chain.life, disk.lines, disk.synced)

\* What the evaluator may carry out is open in the journal.
OpenInv ==
    /\ \A i \in DOMAIN ops.effects :
        (i < Len(ops.effects) \/ Site # "finished") => IsOpen(ops.effects[i])
    /\ pc = "started" /\ io.ok =>
        IsOpen([effect |-> io.event.effect, attempt |-> io.event.attempt])
    /\ (pc = "probe_started" /\ io.ok) \/ pc = "probing" =>
        IsOpen([effect |-> "process", attempt |-> ops.next_attempt])

-----------------------------------------------------------------------------
(* Evidence *)

EndInv ==
    /\ pc \in Sites /\ io.ok => ~journal.failed
    /\ journal.complete =>
        /\ Site \in Closed \ {"receipt_evidence"}
        /\ chain.terminal /\ ~journal.failed
        /\ \E at \in FinishTimes :
            Last(disk.lines).event = Terminal(journal.primary, journal.cleanup, journal.assessment, at)
    /\ chain.terminal => journal.complete \/ (pc = "terminated" /\ io.ok)
    /\ pc = "terminated" /\ io.ok => chain.terminal /\ Last(disk.lines).event = io.event
    /\ result = "success" =>
        journal.complete /\ journal.primary.class = "success" /\ ~CleanupFailed
    /\ Site \notin Closed => result = "running"

ReceiptInv ==
    /\ Site \notin Closed \ {"closed"} => receipt.file \in {"absent", "reserved"}
    /\ Site \in Closed \ {"closed"} =>
        /\ request.receipt
        /\ receipt.state = "complete" => journal.complete
        /\ receipt.state = "incomplete" =>
            /\ ~chain.terminal
            /\ Len(disk.lines) = disk.synced \/ Last(disk.lines).event.kind # "terminal"
        /\ receipt.successful => result = "success" /\ receipt.state = "complete"
    /\ Site \in {"select", "audit", "write_audit", "sync_audit", "finish_task"}
        /\ receipt.successful => receipt.file = "durable"
    /\ Site = "receipt_evidence" => ~receipt.successful
    /\ Site \in {"audit", "write_audit", "sync_audit", "finish_task"} => request.task
    /\ audit.persisted => Site = "finish_task" /\ audit.file = "durable"

-----------------------------------------------------------------------------
LiveInv ==
    /\ Types /\ CallInv /\ OpsInv /\ NameInv /\ PendingInv
    /\ Site \notin Setup => ChainInv
    /\ AccountInv /\ OpenInv /\ EndInv /\ ReceiptInv

\* Nothing happens once the command has exited or crashed.
EndedInv ==
    /\ TypeOK /\ EffectsAreJournalled /\ CompleteAccountsForEffects /\ ExitIsEvidenced
    /\ Steady => JournalIsAuditable /\ ReceiptAgreesWithAudit

IInv == IF Ended THEN EndedInv ELSE LiveInv
=============================================================================
