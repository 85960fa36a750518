--------------------------- MODULE StandardHost ---------------------------
(***************************************************************************)
(* The standard host: how an evaluation draws entropy and reads and writes *)
(* its standard streams.  The supervisor (StandardState of                 *)
(* opaal-runtime/src/operational/standard.rs and stdio.rs, over            *)
(* PosixStandardHost of opaal-platform-posix/src/standard_host.rs) never   *)
(* makes the host call itself: it lends it to a worker process, one        *)
(* request at a time, over a pair of datagram sockets.  The worker may     *)
(* block, die or be killed at any point; a signal or a deadline may cancel *)
(* the call at any poll.  What is at stake is the account: which bytes     *)
(* were certainly moved, and which at most.                                *)
(*                                                                         *)
(* One supervisor step ends at each poll of the cancellation scope, each   *)
(* record sent or received and each step of close.  A payload sent in      *)
(* several datagrams is one record here: a receiver uses none of it before *)
(* it has all of it.                                                       *)
(***************************************************************************)
EXTENDS Integers, Sequences, FiniteSets

CONSTANTS
    Calls,       \* the calls a program may make: subset of CallType
    MaxCalls,    \* bound: calls of one evaluation
    MaxHost,     \* StandardLimits.max_host_bytes
    Candidates,  \* StandardLimits.max_integer_candidates
    Chunk,       \* bytes of one host call (MAX_STREAM_CHUNK_BYTES, MAX_ENTROPY_FILL_BYTES)
    Word,        \* bytes of one integer candidate
    Input,       \* bytes standard input will ever have
    Retries,     \* bound: interrupted or blocked host calls
    Faults,      \* kinds of fault that may happen
    MaxFaults    \* bound: faults in one evaluation

Roles == {"entropy", "stdin", "stdout"}
RoleOf(kind) == CASE kind = "read" -> "stdin" [] kind = "write" -> "stdout" [] OTHER -> "entropy"
\* Calls that may move bytes (random.int of one value, empty writes do not).
CallType == [kind : {"int", "bytes", "read", "write"}, bytes : Nat \ {0}, lf : BOOLEAN]

ASSUME HostAssumption ==
    /\ Calls \subseteq CallType
    /\ {MaxCalls, MaxHost, Candidates, Input, Retries, MaxFaults} \subseteq Nat
    /\ {Chunk, Word} \subseteq Nat \ {0}
    /\ Faults \subseteq {"worker", "spawn", "endpoint", "budget", "cleanup"}

VARIABLES
    state,     \* StandardState: [held, consumed, progress, roles, cleanup_error]
    pc, ret,   \* the supervisor, and where close returns to
    call,      \* the call in progress: [kind, bytes, lf, done, draws]
    x,         \* the chunk: [length, confirmed, uncertain, eof, error, frame, cleanup]
    outcome,   \* how the last call returned
    host,      \* PosixStandardHost: [closed, worker, pid, request, terminal]
    lease,     \* SignalLease: [installed, lent, received, flag, failed]
    scope,     \* CancellationScope.state: "live", "requested", "timeout"
    late,      \* deadlines that have passed: "no", "operation", "evaluation"
    down, up,  \* records on their way to the worker and back
    worker,    \* the worker process: [at, signal, served, job, reply]
    moved,     \* Roles -> bytes the host really moved
    out,       \* positions of this call's bytes in the order they were written
    input,     \* bytes left in standard input
    taken,     \* bytes of standard input this call has consumed
    calls,     \* calls made
    retries, faults,      \* spent bounds
    failures, diagnostics \* closes that failed, and cleanup errors reported

environment == <<moved, out, input, taken>>
channels == <<down, up>>
bounds == <<calls, retries, faults>>
reports == <<failures, diagnostics>>
vars == <<state, pc, ret, call, x, outcome, host, lease, scope, late, channels, worker,
          environment, bounds, reports>>

-----------------------------------------------------------------------------
NoProgress == [admitted |-> 0, confirmed |-> 0, uncertain |-> 0, eof |-> FALSE]
NoCounts == [confirmed |-> 0, uncertain |-> 0]
NoFrame == [tag |-> "none", request |-> 0, bytes |-> 0, offset |-> 0]
Frame(tag, request, bytes, offset) ==
    [tag |-> tag, request |-> request, bytes |-> bytes, offset |-> offset]
NoChunk == [length |-> 0, confirmed |-> 0, uncertain |-> 0, eof |-> FALSE, error |-> "none",
            frame |-> NoFrame, cleanup |-> FALSE]
NoCall == [kind |-> "bytes", bytes |-> 0, lf |-> FALSE, done |-> 0, draws |-> 0]
NoWorker == [at |-> "none", signal |-> "none", served |-> 0, job |-> NoFrame, reply |-> NoFrame]

Smaller(a, b) == IF a < b THEN a ELSE b
Role == RoleOf(call.kind)
IsEntropy == Role = "entropy"

\* The streams are bound, terminal and signals lent, before evaluation.
Init ==
    /\ state = [held |-> TRUE, consumed |-> 0, progress |-> NoProgress,
                roles |-> [r \in Roles |-> NoCounts], cleanup_error |-> FALSE]
    /\ pc = "idle" /\ ret = "idle"
    /\ call = NoCall /\ x = NoChunk /\ outcome = "none"
    /\ host = [closed |-> FALSE, worker |-> FALSE, pid |-> FALSE, request |-> 0,
               terminal |-> "lent"]
    /\ lease = [installed |-> TRUE, lent |-> TRUE, received |-> FALSE, flag |-> FALSE,
                failed |-> FALSE]
    /\ scope = "live" /\ late = "no"
    /\ down = <<>> /\ up = <<>> /\ worker = NoWorker
    /\ moved = [r \in Roles |-> 0] /\ out = <<>> /\ input = Input /\ taken = 0
    /\ calls = 0 /\ retries = 0 /\ faults = 0 /\ failures = 0 /\ diagnostics = 0

-----------------------------------------------------------------------------
(* Cancellation: a signal through the lease's predicate, then a deadline.  *)
(* What a poll has once observed stays.                                    *)

Requested == lease.flag \/ (lease.lent /\ lease.received)

(* Mutant: a poll looks again each time, forgetting what it has observed. *)
Observed_Forgets(until) ==
    CASE Requested                      -> "requested"
      [] ~Requested /\ late \in until   -> "timeout"
      [] OTHER                          -> "live"

\* CancellationScope::poll and poll_until of the operation's own deadline.
Observed(until) ==
    CASE scope # "live"                  -> scope
      [] scope = "live" /\ Requested     -> "requested"
      [] scope = "live" /\ ~Requested /\ late \in until -> "timeout"
      [] OTHER                           -> "live"

Operation == {"operation", "evaluation"}
Evaluation == {"evaluation"}

Polled(until) ==
    /\ scope' = Observed(until)
    /\ lease' = [lease EXCEPT !.flag = @ \/ (scope = "live" /\ Requested)]
Live(until) == Polled(until) /\ Observed(until) = "live"
Cancelled(until) == Polled(until) /\ Observed(until) # "live"

Fault(kind) == kind \in Faults /\ faults < MaxFaults /\ faults' = faults + 1
NoFault == UNCHANGED faults

\* A signal is delivered to this process; once the dispositions are restored
\* it is no longer this code's business.
SignalArrives ==
    /\ lease.installed /\ ~lease.received
    /\ lease' = [lease EXCEPT !.received = TRUE]
    /\ UNCHANGED <<state, pc, ret, call, x, outcome, host, scope, late, channels, worker,
                   environment, bounds, reports>>

\* A deadline passes: the operation's, which a call sets and its return drops,
\* or the evaluation's.  A call in progress cannot tell them apart (its deadline
\* is narrowed to the evaluation's), so there the first stands for both.  Once a
\* poll has observed either, time changes nothing.
OperationExpires ==
    /\ late = "no" /\ scope = "live" /\ pc \notin {"idle", "done"} /\ ret # "done"
    /\ late' = "operation"
    /\ UNCHANGED <<state, pc, ret, call, x, outcome, host, lease, scope, channels, worker,
                   environment, bounds, reports>>

EvaluationExpires ==
    /\ late = "no" /\ scope = "live" /\ pc \in {"idle", "admission"}
    /\ late' = "evaluation"
    /\ UNCHANGED <<state, pc, ret, call, x, outcome, host, lease, scope, channels, worker,
                   environment, bounds, reports>>

-----------------------------------------------------------------------------
(* The call: admission, chunks, settlement, return.                        *)

Total == call.bytes + (IF call.kind = "write" /\ call.lf THEN 1 ELSE 0)
RequestedBytes(c) ==
    CASE c.kind = "int"   -> Candidates * Word
      [] c.kind = "bytes" -> c.bytes
      [] c.kind = "read"  -> c.bytes + 1
      [] c.kind = "write" -> c.bytes + (IF c.lf THEN 1 ELSE 0)
Remaining == IF state.consumed < MaxHost THEN MaxHost - state.consumed ELSE 0
Admitted(c) ==
    IF c.kind = "int" THEN Smaller(RequestedBytes(c), (Remaining \div Word) * Word)
    ELSE RequestedBytes(c)
WithinLimit(c) ==
    /\ c.kind # "int" => RequestedBytes(c) <= Remaining
    /\ RequestedBytes(c) > 0 => Admitted(c) > 0

\* The end of invoke_with_deadline and invoke_stdio_with_deadline: progress is
\* recorded, and a cancelled call closes the host.
Return(result) ==
    /\ outcome' = result
    /\ x' = NoChunk
    /\ late' = (IF late = "operation" THEN "no" ELSE late)
    /\ LET p == state.progress
           closing == result = "cancelled" /\ state.held
       IN  /\ state' = [state EXCEPT
                  !.progress.admitted = p.confirmed + p.uncertain,
                  !.roles[Role].confirmed = @ + p.confirmed,
                  !.roles[Role].uncertain = @ + p.uncertain,
                  !.held = @ /\ ~closing]
           /\ pc' = (IF closing THEN "close" ELSE "idle")
           /\ ret' = (IF closing THEN "return" ELSE ret)

Invoke(c) ==
    /\ pc = "idle" /\ calls < MaxCalls
    /\ calls' = calls + 1
    /\ call' = [kind |-> c.kind, bytes |-> c.bytes, lf |-> c.lf, done |-> 0, draws |-> 0]
    /\ state' = [state EXCEPT !.progress = NoProgress]
    /\ pc' = "admission" /\ ret' = "idle"
    /\ outcome' = "none" /\ out' = <<>> /\ taken' = 0
    /\ UNCHANGED <<x, host, lease, scope, late, channels, worker, moved, input, retries, faults, reports>>

AdmissionFails ==
    /\ pc = "admission"
    /\ \/ Cancelled(Evaluation) /\ Return("cancelled")
       \/ Live(Evaluation) /\ (~state.held \/ host.closed) /\ Return("unsupported")
       \/ Live(Evaluation) /\ state.held /\ ~host.closed /\ ~WithinLimit(call) /\ Return("limit")
    /\ UNCHANGED <<call, host, channels, worker, environment, bounds, reports>>

Admit ==
    /\ pc = "admission"
    /\ Live(Evaluation) /\ state.held /\ ~host.closed /\ WithinLimit(call)
    /\ state' = [state EXCEPT !.progress = [NoProgress EXCEPT !.admitted = Admitted(call)]]
    /\ pc' = "chunk"
    /\ UNCHANGED <<ret, call, x, outcome, host, late, channels, worker, environment, bounds, reports>>

\* The next chunk.  A write's line feed is a segment of its own; a read asks
\* for one byte more than its cap, to see whether there is more.
ChunkLength ==
    CASE call.kind = "int"   -> Word
      [] call.kind = "bytes" -> Smaller(Chunk, call.bytes - call.done)
      [] call.kind = "read"  -> Smaller(Chunk, call.bytes + 1 - call.done)
      [] call.kind = "write" -> Smaller(Chunk, (IF call.done < call.bytes THEN call.bytes ELSE Total)
                                                   - call.done)
CallDone == call.kind \in {"bytes", "write"} /\ call.done = Total

CallSucceeds ==
    /\ pc = "chunk" /\ CallDone
    /\ Return("ok")
    /\ UNCHANGED <<call, host, lease, scope, channels, worker, environment, bounds, reports>>

\* Every candidate of an integer was rejected: no poll comes before that error.
CandidatesExhausted ==
    /\ pc = "chunk" /\ call.kind = "int" /\ call.draws = Candidates
    /\ Return("limit")
    /\ UNCHANGED <<call, host, lease, scope, channels, worker, environment, bounds, reports>>

\* Entropy is drawn within the admitted bytes.
ChunkAdmitted ==
    IsEntropy => ChunkLength <= state.progress.admitted - state.progress.confirmed

ChunkDue == pc = "chunk" /\ ~CallDone /\ (call.kind = "int" => call.draws < Candidates)

ChunkRefused ==
    /\ ChunkDue
    /\ \/ Cancelled(Operation) /\ Return("cancelled") /\ NoFault
       \/ Live(Operation) /\ ~ChunkAdmitted /\ Return("limit") /\ NoFault
       \/ Live(Operation) /\ ChunkAdmitted /\ Fault("budget") /\ Return("limit")
    /\ UNCHANGED <<call, host, channels, worker, environment, calls, retries, reports>>

\* Entropy is charged before the host is asked, a stream when it has answered.
StartChunk ==
    /\ ChunkDue
    /\ Live(Operation) /\ ChunkAdmitted
    /\ x' = [NoChunk EXCEPT !.length = ChunkLength]
    /\ state' = IF IsEntropy
                THEN [state EXCEPT !.progress.uncertain = ChunkLength, !.consumed = @ + ChunkLength]
                ELSE state
    /\ call' = [call EXCEPT !.draws = IF call.kind = "int" THEN @ + 1 ELSE @]
    /\ pc' = "launch"
    /\ UNCHANGED <<ret, outcome, host, late, channels, worker, environment, bounds, reports>>

\* fill's settlement and settle_chunk: what the host proved is recorded first,
\* then cancellation is polled, then the result looked at.
Settled ==
    [state EXCEPT
        !.progress.confirmed = @ + x.confirmed,
        !.progress.uncertain = x.uncertain,
        !.progress.eof = @ \/ x.eof,
        !.consumed = @ + x.confirmed + x.uncertain - (IF IsEntropy THEN x.length ELSE 0),
        !.cleanup_error = @ \/ x.cleanup]

Settle ==
    /\ pc = "settle"
    /\ state' = Settled
    /\ \/ Cancelled(Operation) /\ pc' = "failed" /\ x' = [x EXCEPT !.error = "cancelled"]
       \/ Live(Operation) /\ pc' = "result" /\ UNCHANGED x
    /\ UNCHANGED <<ret, call, outcome, host, late, channels, worker, environment, bounds, reports>>

\* Interrupted or blocked without any progress: the same chunk again.
Retry ==
    /\ ~IsEntropy /\ x.error \in {"interrupted", "would_block"}
    /\ x.confirmed = 0 /\ x.uncertain = 0

RetryChunk ==
    /\ pc = "result" /\ Retry
    /\ pc' = "chunk"
    /\ UNCHANGED <<state, ret, call, x, outcome, host, lease, scope, late, channels, worker,
                   environment, bounds, reports>>

ChunkFails ==
    /\ \/ pc = "failed" /\ Return("cancelled")
       \/ pc = "result" /\ x.error # "none" /\ ~Retry
          /\ Return(IF x.error \in {"unsupported", "broken_pipe"} THEN x.error ELSE "failed")
    /\ UNCHANGED <<call, host, lease, scope, channels, worker, environment, bounds, reports>>

(* Mutant: a short transfer is taken for a whole one. *)
Advanced_Whole == [call EXCEPT !.done = @ + x.length]

Advanced == [call EXCEPT !.done = @ + x.confirmed]

\* A chunk that succeeded: a short write goes on after what was written, an
\* integer may be rejected, end of input ends a read, an overlong input fails.
ChunkSucceeds ==
    /\ pc = "result" /\ x.error = "none"
    /\ LET count == x.confirmed
           goOn == /\ call' = Advanced /\ pc' = "chunk"
                   /\ UNCHANGED <<state, ret, x, late, outcome, faults>>
           stop(result) == Return(result) /\ UNCHANGED <<call, faults>>
       IN  \/ call.kind = "int" /\ (stop("ok") \/ goOn)
           \/ call.kind = "bytes" /\ goOn
           \/ call.kind = "write" /\ (IF count = 0 THEN stop("no_progress") ELSE goOn)
           \/ call.kind = "read" /\ count > 0
              /\ (IF count > call.bytes - call.done THEN stop("too_long") ELSE goOn)
           \/ call.kind = "read" /\ count = 0 /\ stop("ok")
           \/ call.kind = "read" /\ count = 0 /\ Fault("budget") /\ Return("limit") /\ UNCHANGED call
    /\ UNCHANGED <<host, lease, scope, channels, worker, environment, calls, retries, reports>>

-----------------------------------------------------------------------------
(* PosixStandardHost: transfer, fill, launch.  Every failure before the    *)
(* acknowledgement closes the host, and only then settles.                 *)

Fail(error) ==
    /\ x' = [x EXCEPT !.error = error]
    /\ pc' = "close" /\ ret' = "settle"

FailCancelled == Cancelled(Operation) /\ Fail("cancelled")

\* A host that was closed refuses without starting, and so does a stream whose
\* endpoint is no longer the one captured.
HostRefuses ==
    /\ pc = "launch"
    /\ \/ host.closed /\ NoFault
       \/ ~host.closed /\ ~IsEntropy /\ Fault("endpoint")
    /\ x' = [x EXCEPT !.error = IF IsEntropy THEN "protocol" ELSE "unsupported"]
    /\ pc' = "settle"
    /\ UNCHANGED <<state, ret, call, outcome, host, lease, scope, late, channels, worker,
                   environment, calls, retries, reports>>

ReuseWorker ==
    /\ pc = "launch" /\ ~host.closed /\ host.worker
    /\ pc' = "request"
    /\ UNCHANGED <<state, ret, call, x, outcome, host, lease, scope, late, channels, worker,
                   environment, bounds, reports>>

\* Ownership of the pid is stored before anything else can fail.
Spawn ==
    /\ pc = "launch" /\ ~host.closed /\ ~host.worker
    /\ Live(Operation)
    /\ host' = [host EXCEPT !.worker = TRUE, !.pid = TRUE]
    /\ worker' = [NoWorker EXCEPT !.at = "boot"]
    /\ down' = <<>> /\ up' = <<>>
    /\ pc' = "bind"
    /\ UNCHANGED <<state, ret, call, x, outcome, late, environment, bounds, reports>>

\* The socket pair or the process cannot be had: EAGAIN is "would block".
SpawnFails ==
    /\ pc = "launch" /\ ~host.closed /\ ~host.worker
    /\ \/ FailCancelled /\ NoFault
       \/ Live(Operation) /\ Fault("spawn") /\ \E e \in {"io", "would_block"} : Fail(e)
    /\ UNCHANGED <<state, call, outcome, host, late, channels, worker, environment, calls, retries,
                   reports>>

WorkerGone == worker.at \in {"zombie", "none"}

\* A send polls, hands over the record and polls again; the second poll is the
\* first of the receive or the step that follows.
Send(at, record, next, local) ==
    /\ pc = at /\ ~WorkerGone
    /\ Live(Operation)
    /\ down' = Append(down, record)
    /\ pc' = next /\ x' = local
    /\ UNCHANGED <<state, ret, call, outcome, late, up, worker, environment, bounds, reports>>

SendFails(at, local) ==
    /\ pc = at
    /\ \/ Cancelled(Operation) /\ x' = [local EXCEPT !.error = "cancelled"]
       \/ Live(Operation) /\ WorkerGone /\ x' = [local EXCEPT !.error = "io"]
    /\ pc' = "close" /\ ret' = "settle"
    /\ UNCHANGED <<state, call, outcome, late, channels, worker, environment, bounds, reports>>

Bind ==
    \/ Send("bind", Frame("BIND", 0, 0, 0), "ready", x) /\ UNCHANGED host
    \/ SendFails("bind", x) /\ UNCHANGED host

\* From here a fill counts as attempted; a stream only once its request, with
\* the endpoint, has been handed over.
Attempted == [x EXCEPT !.uncertain = x.length]
RequestTag == IF IsEntropy THEN "FILL" ELSE IF call.kind = "read" THEN "READ" ELSE "WRITE"
NextRequest == host' = [host EXCEPT !.request = @ + 1]

(* Mutant: a stream transfer counts as attempted only with its payload. *)
SendRequest_Late ==
    Send("request", Frame(RequestTag, host.request + 1, x.length, call.done),
         IF call.kind = "write" THEN "payload" ELSE "reply", x) /\ NextRequest

SendRequest ==
    Send("request", Frame(RequestTag, host.request + 1, x.length, call.done),
         IF call.kind = "write" THEN "payload" ELSE "reply", Attempted) /\ NextRequest

RequestFails == SendFails("request", IF IsEntropy THEN Attempted ELSE x) /\ NextRequest

\* transfer revalidates the endpoint again before it lends it.
RequestStale ==
    /\ pc = "request" /\ ~IsEntropy /\ Fault("endpoint")
    /\ Fail("unsupported")
    /\ UNCHANGED <<state, call, outcome, host, lease, scope, late, channels, worker, environment,
                   calls, retries, reports>>

SendPayload ==
    \/ Send("payload", Frame("PAYLOAD", host.request, x.length, call.done), "reply", x)
       /\ UNCHANGED host
    \/ SendFails("payload", x) /\ UNCHANGED host

-----------------------------------------------------------------------------
(* Receiving.  The socket is tried first; only when it is empty is the     *)
(* worker reaped, and then the socket is tried once more, for a record     *)
(* that arrived in between.                                                *)

Receiving == pc \in {"ready", "reply", "body"}
Handler == [ready |-> "bound", reply |-> "replied", body |-> "received"]
Reaping == [ready |-> "reap ready", reply |-> "reap reply", body |-> "reap body"]

ReceiveFails ==
    /\ Receiving
    /\ \/ FailCancelled
       \/ Live(Operation) /\ up = <<>> /\ ~host.pid /\ Fail("protocol")
    /\ UNCHANGED <<state, call, outcome, host, late, channels, worker, environment, bounds, reports>>

ReceiveRecord ==
    /\ Receiving /\ Live(Operation) /\ up # <<>>
    /\ x' = [x EXCEPT !.frame = Head(up)]
    /\ up' = Tail(up)
    /\ pc' = Handler[pc]
    /\ UNCHANGED <<state, ret, call, outcome, host, late, down, worker, environment, bounds, reports>>

ReceiveEmpty ==
    /\ Receiving /\ Live(Operation) /\ up = <<>> /\ host.pid
    /\ pc' = Reaping[pc]
    /\ UNCHANGED <<state, ret, call, x, outcome, host, late, channels, worker, environment, bounds,
                   reports>>

Reaped == /\ worker' = NoWorker
          /\ host' = [host EXCEPT !.pid = FALSE]

\* waitpid without hanging; then the socket again, after a pause if it runs.
ReapPeer ==
    /\ \E at \in DOMAIN Reaping : pc = Reaping[at] /\ pc' = at
    /\ IF worker.at = "zombie" THEN Reaped ELSE UNCHANGED <<worker, host>>
    /\ UNCHANGED <<state, ret, call, x, outcome, lease, scope, late, channels, environment, bounds,
                   reports>>

\* A record has been received: the poll after it, then what it says.
Handled(at) == pc = at /\ Live(Operation)
                 /\ UNCHANGED <<state, call, outcome, host, late, channels, worker, environment,
                                bounds, reports>>
RecordCancelled ==
    /\ pc \in {"bound", "replied", "received"}
    /\ FailCancelled
    /\ UNCHANGED <<state, call, outcome, host, late, channels, worker, environment, bounds, reports>>

Bound ==
    /\ Handled("bound")
    /\ IF x.frame.tag = "READY"
       THEN pc' = "request" /\ x' = [x EXCEPT !.frame = NoFrame] /\ UNCHANGED ret
       ELSE Fail("protocol")

\* The payload that follows a header is not tried when the worker has been
\* reaped already, even if it is queued.
AwaitBody(local) ==
    IF host.pid THEN pc' = "body" /\ x' = local /\ UNCHANGED ret
    ELSE pc' = "close" /\ ret' = "settle" /\ x' = [local EXCEPT !.error = "protocol"]

ErrorOf == [INTERRUPTED |-> "interrupted", WOULD_BLOCK |-> "would_block",
            BROKEN_PIPE |-> "broken_pipe", IO_FAILED |-> "io"]

(* Mutant: what is confirmed still counts as uncertain. *)
Confirmed_Doubled(frame) == [x EXCEPT !.confirmed = frame.bytes, !.frame = NoFrame]

Confirmed(frame) ==
    [x EXCEPT !.confirmed = frame.bytes, !.uncertain = 0, !.frame = NoFrame,
              !.eof = call.kind = "read" /\ frame.tag = "PROGRESS" /\ frame.bytes = 0]

StreamReplied ==
    /\ Handled("replied") /\ ~IsEntropy
    /\ LET frame == x.frame
       IN  IF frame.request # host.request \/ frame.bytes > x.length THEN Fail("protocol")
           ELSE IF frame.tag = "PROGRESS"
           THEN IF call.kind = "read" /\ frame.bytes > 0 THEN AwaitBody(Confirmed(frame))
                ELSE pc' = "ack" /\ x' = Confirmed(frame) /\ UNCHANGED ret
           ELSE pc' = "ack" /\ x' = [Confirmed(frame) EXCEPT !.error = ErrorOf[frame.tag]]
                /\ UNCHANGED ret

FillReplied ==
    /\ Handled("replied") /\ IsEntropy
    /\ LET frame == x.frame
       IN  CASE frame.request # host.request -> Fail("protocol")
             [] frame.request = host.request /\ frame.tag = "FAILED" -> Fail("io")
             [] OTHER -> AwaitBody(x)

Received ==
    /\ Handled("received")
    /\ x' = IF IsEntropy
            THEN [x EXCEPT !.confirmed = x.length, !.uncertain = 0, !.frame = NoFrame]
            ELSE [x EXCEPT !.frame = NoFrame]
    /\ pc' = "ack" /\ UNCHANGED ret

Acknowledge ==
    \/ Send("ack", Frame("ACK", host.request, 0, 0), "acked", x) /\ UNCHANGED host
    \/ SendFails("ack", x) /\ UNCHANGED host

\* The poll after the acknowledgement still belongs to it.
Acknowledged ==
    \/ /\ Handled("acked") /\ pc' = "settle" /\ UNCHANGED <<x, ret>>
    \/ /\ pc = "acked" /\ FailCancelled
       /\ UNCHANGED <<state, call, outcome, host, late, channels, worker, environment, bounds, reports>>

-----------------------------------------------------------------------------
(* close: the socket is dropped, the worker terminated and reaped, then    *)
(* the terminal and last the signal dispositions restored.  x.cleanup      *)
(* collects whether any of it failed.                                      *)

CloseStep(at) ==
    /\ pc = at
    /\ UNCHANGED <<state, ret, call, outcome, late, environment, calls, retries, reports>>
Goto(next) == pc' = next

(* Mutant: the worker is left to notice the closed socket by itself. *)
CloseSocket_Detaches ==
    /\ CloseStep("close")
    /\ host' = [host EXCEPT !.closed = TRUE, !.worker = FALSE, !.pid = FALSE]
    /\ down' = <<>> /\ up' = <<>>
    /\ x' = [x EXCEPT !.cleanup = FALSE]
    /\ pc' = "terminal"
    /\ UNCHANGED <<lease, scope, worker, faults>>

\* The worker could still take the records queued for it, but whatever it does
\* before it is killed it can do before the close, so they are dropped here.
CloseSocket ==
    /\ CloseStep("close")
    /\ host' = [host EXCEPT !.closed = TRUE, !.worker = FALSE]
    /\ down' = <<>> /\ up' = <<>>
    /\ x' = [x EXCEPT !.cleanup = FALSE]
    /\ pc' = IF host.worker /\ host.pid THEN "terminate" ELSE "terminal"
    /\ UNCHANGED <<lease, scope, worker, faults>>

\* SIGTERM, a grace period, SIGKILL, and a wait that only the exit ends.  Of an
\* unreaped child the process owns, SIGKILL and waitpid do not fail.
Terminate ==
    /\ CloseStep("terminate")
    /\ \/ /\ worker.at = "zombie" /\ Reaped
          /\ pc' = "terminal" /\ NoFault /\ UNCHANGED x
       \/ /\ worker.at # "zombie"
          /\ pc' = "grace"
          /\ \/ NoFault /\ worker' = [worker EXCEPT !.signal = "TERM"] /\ UNCHANGED <<x, host>>
             \/ Fault("cleanup") /\ x' = [x EXCEPT !.cleanup = TRUE] /\ UNCHANGED <<worker, host>>
    /\ UNCHANGED <<lease, scope, channels>>

(* Mutant: the worker is asked to stop and never killed. *)
Grace_Patient ==
    /\ CloseStep("grace")
    /\ \/ worker.at = "zombie" /\ Reaped /\ Goto("terminal")
       \/ worker.at # "zombie" /\ Goto("wait") /\ UNCHANGED <<worker, host>>
    /\ UNCHANGED <<x, lease, scope, channels, faults>>

Grace ==
    /\ CloseStep("grace")
    /\ \/ worker.at = "zombie" /\ Reaped /\ Goto("terminal")
       \/ worker.at # "zombie" /\ worker' = [worker EXCEPT !.signal = "KILL"]
          /\ Goto("wait") /\ UNCHANGED host
    /\ UNCHANGED <<x, lease, scope, channels, faults>>

Wait ==
    /\ CloseStep("wait")
    /\ worker.at = "zombie" /\ Reaped /\ Goto("terminal")
    /\ UNCHANGED <<x, lease, scope, channels, faults>>

\* A restoration that fails is tried again when the lease is dropped; it is an
\* error of the close all the same.
RestoreTerminal ==
    /\ CloseStep("terminal")
    /\ \/ NoFault /\ UNCHANGED x
          /\ host' = [host EXCEPT !.terminal = IF @ = "lent" THEN "restored" ELSE @]
       \/ /\ host.terminal = "lent" /\ Fault("cleanup")
          /\ x' = [x EXCEPT !.cleanup = TRUE]
          /\ \E mode \in {"restored", "lost"} : host' = [host EXCEPT !.terminal = mode]
    /\ Goto(IF lease.lent THEN "poll signals" ELSE "closed")
    /\ UNCHANGED <<lease, scope, channels, worker>>

Latched == [lease EXCEPT !.flag = @ \/ lease.received]

PollSignals ==
    /\ CloseStep("poll signals")
    /\ lease' = Latched /\ Goto("restore signals")
    /\ UNCHANGED <<x, host, scope, channels, worker, faults>>

RestoreSignals ==
    /\ CloseStep("restore signals")
    /\ \/ NoFault /\ lease' = [lease EXCEPT !.installed = FALSE] /\ UNCHANGED x
       \/ Fault("cleanup") /\ lease' = [lease EXCEPT !.failed = TRUE]
          /\ x' = [x EXCEPT !.cleanup = TRUE]
    /\ Goto("drop lease")
    /\ UNCHANGED <<host, scope, channels, worker>>

(* Mutant: dropping the lease does not look at the signal once more. *)
DropLease_Blind ==
    /\ CloseStep("drop lease")
    /\ \/ ~lease.failed /\ lease' = [lease EXCEPT !.lent = FALSE]
       \/ lease.failed /\ \E installed \in BOOLEAN :
              lease' = [lease EXCEPT !.lent = FALSE, !.installed = installed]
    /\ Goto("closed")
    /\ UNCHANGED <<x, host, scope, channels, worker, faults>>

\* Drop: restore once more (it polls first), then release the lease.
DropLease ==
    /\ CloseStep("drop lease")
    /\ \/ ~lease.failed /\ lease' = [Latched EXCEPT !.lent = FALSE]
       \/ lease.failed /\ \E installed \in BOOLEAN :
              lease' = [Latched EXCEPT !.lent = FALSE, !.installed = installed]
    /\ Goto("closed")
    /\ UNCHANGED <<x, host, scope, channels, worker, faults>>

(* Mutant: an error while closing for a cancelled call is dropped. *)
Closed_Silent ==
    /\ pc = "closed"
    /\ failures' = failures + (IF x.cleanup THEN 1 ELSE 0)
    /\ UNCHANGED state
    /\ diagnostics' = diagnostics + (IF ret = "done" /\ x.cleanup THEN 1 ELSE 0)
    /\ pc' = (IF ret = "return" THEN "idle" ELSE ret)
    /\ UNCHANGED <<ret, call, x, outcome, host, lease, scope, late, channels, worker, environment,
                   bounds>>

\* Back to whoever closed: the transfer, the cancelled call, or finish.
Closed ==
    /\ pc = "closed"
    /\ failures' = failures + (IF x.cleanup THEN 1 ELSE 0)
    /\ state' = [state EXCEPT !.cleanup_error = @ \/ (ret = "return" /\ x.cleanup)]
    /\ diagnostics' = diagnostics + (IF ret = "done" /\ x.cleanup THEN 1 ELSE 0)
    /\ pc' = (IF ret = "return" THEN "idle" ELSE ret)
    /\ UNCHANGED <<ret, call, x, outcome, host, lease, scope, late, channels, worker, environment,
                   bounds>>

\* StandardBinding::finish, when the evaluation is over.
Finish ==
    /\ pc = "idle"
    /\ diagnostics' = diagnostics + (IF state.cleanup_error THEN 1 ELSE 0)
    /\ state' = [state EXCEPT !.cleanup_error = FALSE, !.held = FALSE]
    /\ IF state.held THEN pc' = "close" /\ ret' = "done" ELSE pc' = "done" /\ UNCHANGED ret
    /\ UNCHANGED <<call, x, outcome, host, lease, scope, late, channels, worker, environment,
                   bounds, failures>>

-----------------------------------------------------------------------------
(* The worker process: run_worker.  It serves one request at a time and    *)
(* waits for its acknowledgement before the next.  A send to a supervisor  *)
(* that has closed its socket ends the worker; a receive waits for ever.   *)

WorkerStep(at) ==
    /\ worker.at = at
    /\ UNCHANGED <<state, pc, ret, call, x, outcome, host, lease, scope, late, calls, faults, reports>>

Take(tag) == down # <<>> /\ Head(down).tag \in tag /\ down' = Tail(down)

WorkerBinds ==
    /\ WorkerStep("boot") /\ Take({"BIND"})
    /\ up' = Append(up, Frame("READY", 0, 0, 0))
    /\ worker' = [worker EXCEPT !.at = "ready"]
    /\ UNCHANGED <<environment, retries>>

\* A request out of sequence ends the worker.
WorkerServes ==
    /\ WorkerStep("ready") /\ Take({"FILL", "READ", "WRITE"})
    /\ LET frame == Head(down)
       IN  worker' = IF frame.request # worker.served + 1 THEN [worker EXCEPT !.at = "zombie"]
                     ELSE [worker EXCEPT !.served = @ + 1, !.job = frame,
                              !.at = CASE frame.tag = "FILL"  -> "fill"
                                       [] frame.tag = "READ"  -> "syscall"
                                       [] frame.tag = "WRITE" -> "payload"]
    /\ UNCHANGED <<up, environment, retries>>

WorkerPayload ==
    /\ WorkerStep("payload") /\ Take({"PAYLOAD"})
    /\ worker' = [worker EXCEPT !.at = "syscall"]
    /\ UNCHANGED <<up, environment, retries>>

Replies(tag, bytes) ==
    worker' = [worker EXCEPT !.at = "reply", !.reply = Frame(tag, worker.served, bytes, 0)]

WorkerReads ==
    /\ WorkerStep("syscall") /\ worker.job.tag = "READ"
    /\ \E n \in 0..Smaller(worker.job.bytes, input) :
           /\ n = 0 => input = 0
           /\ input' = input - n /\ taken' = taken + n
           /\ moved' = [moved EXCEPT !["stdin"] = @ + n]
           /\ Replies("PROGRESS", n)
    /\ UNCHANGED <<channels, out, retries>>

WorkerWrites ==
    /\ WorkerStep("syscall") /\ worker.job.tag = "WRITE"
    /\ \E n \in 0..worker.job.bytes :
           /\ out' = out \o [i \in 1..n |-> worker.job.offset + i]
           /\ moved' = [moved EXCEPT !["stdout"] = @ + n]
           /\ Replies("PROGRESS", n)
    /\ UNCHANGED <<channels, input, taken, retries>>

\* EINTR, EPIPE or another error; EAGAIN is reported once the endpoint polls
\* ready.
WorkerErrs ==
    /\ WorkerStep("syscall")
    /\ \/ /\ retries < Retries /\ retries' = retries + 1
          /\ Replies("INTERRUPTED", 0) \/ worker' = [worker EXCEPT !.at = "poll"]
       \/ /\ UNCHANGED retries
          /\ Replies("IO_FAILED", 0) \/ (worker.job.tag = "WRITE" /\ Replies("BROKEN_PIPE", 0))
    /\ UNCHANGED <<channels, environment>>

WorkerPolls ==
    /\ WorkerStep("poll") /\ Replies("WOULD_BLOCK", 0)
    /\ UNCHANGED <<channels, environment, retries>>

\* A fill that fails may have drawn some of its bytes.
WorkerFills ==
    /\ WorkerStep("fill")
    /\ \/ moved' = [moved EXCEPT !["entropy"] = @ + worker.job.bytes]
          /\ Replies("DATA", worker.job.bytes)
       \/ \E n \in 0..worker.job.bytes :
              moved' = [moved EXCEPT !["entropy"] = @ + n] /\ Replies("FAILED", 0)
    /\ UNCHANGED <<channels, out, input, taken, retries>>

HasBody == worker.reply.bytes > 0 /\ worker.job.tag # "WRITE"

WorkerSends(at, record, next) ==
    /\ WorkerStep(at)
    /\ IF host.closed
       THEN worker' = [worker EXCEPT !.at = "zombie"] /\ UNCHANGED up
       ELSE worker' = [worker EXCEPT !.at = next] /\ up' = Append(up, record)
    /\ UNCHANGED <<down, environment, retries>>

WorkerReplies ==
    WorkerSends("reply", worker.reply,
                IF worker.reply.tag = "FAILED" THEN "zombie" ELSE IF HasBody THEN "body" ELSE "ack")
WorkerBody == WorkerSends("body", Frame("BODY", worker.served, worker.reply.bytes, 0), "ack")

WorkerAcknowledged ==
    /\ WorkerStep("ack") /\ Take({"ACK"})
    /\ worker' = [worker EXCEPT !.at = "ready", !.job = NoFrame, !.reply = NoFrame]
    /\ UNCHANGED <<up, environment, retries>>

Exits ==
    /\ worker' = [NoWorker EXCEPT !.at = "zombie"]
    /\ UNCHANGED <<state, pc, ret, call, x, outcome, host, lease, scope, late, channels,
                   environment, calls, retries, reports>>

\* The worker crashes, or a terminal signal reaches its process group too.
WorkerDies == ~WorkerGone /\ Fault("worker") /\ Exits
WorkerTerminated == ~WorkerGone /\ worker.signal = "TERM" /\ NoFault /\ Exits
WorkerKilled == ~WorkerGone /\ worker.signal = "KILL" /\ NoFault /\ Exits

-----------------------------------------------------------------------------
Calling ==
    \/ AdmissionFails \/ Admit \/ CallSucceeds \/ CandidatesExhausted \/ ChunkRefused \/ StartChunk
    \/ Settle \/ RetryChunk \/ ChunkFails \/ ChunkSucceeds
Transferring ==
    \/ HostRefuses \/ ReuseWorker \/ Spawn \/ SpawnFails \/ Bind
    \/ SendRequest \/ RequestFails \/ RequestStale \/ SendPayload
    \/ ReceiveFails \/ ReceiveRecord \/ ReceiveEmpty \/ ReapPeer \/ RecordCancelled
    \/ Bound \/ StreamReplied \/ FillReplied \/ Received \/ Acknowledge \/ Acknowledged
Closing ==
    \/ CloseSocket \/ Terminate \/ Grace \/ Wait
    \/ RestoreTerminal \/ PollSignals \/ RestoreSignals \/ DropLease \/ Closed
Supervisor == Calling \/ Transferring \/ Closing
Worker ==
    \/ WorkerBinds \/ WorkerServes \/ WorkerPayload \/ WorkerReads \/ WorkerWrites \/ WorkerErrs
    \/ WorkerPolls \/ WorkerFills \/ WorkerReplies \/ WorkerBody \/ WorkerAcknowledged

Next ==
    \/ \E c \in Calls : Invoke(c)
    \/ Finish
    \/ Supervisor \/ Worker
    \/ WorkerDies \/ WorkerTerminated \/ WorkerKilled
    \/ SignalArrives \/ OperationExpires \/ EvaluationExpires

\* The supervisor runs, time passes, and a killed process dies.  Nothing is
\* assumed of the worker: the host call it makes may block for ever.
Spec ==
    /\ Init /\ [][Next]_vars
    /\ WF_vars(Supervisor) /\ WF_vars(OperationExpires) /\ WF_vars(WorkerKilled)

-----------------------------------------------------------------------------
(* Properties.                                                             *)

AtRest == pc \in {"idle", "done"}
Sum(f) == f["entropy"] + f["stdin"] + f["stdout"]

TypeOK ==
    /\ state.held \in BOOLEAN /\ state.cleanup_error \in BOOLEAN /\ state.consumed \in 0..MaxHost
    /\ \A r \in Roles : {state.roles[r].confirmed, state.roles[r].uncertain, moved[r]} \subseteq Nat
    /\ x.confirmed + x.uncertain <= x.length
    /\ host.request \in Nat /\ host.terminal \in {"lent", "restored", "lost"}
    /\ scope \in {"live", "requested", "timeout"} /\ late \in {"no", "operation", "evaluation"}
    /\ outcome \in {"none", "ok", "cancelled", "unsupported", "limit", "failed", "broken_pipe",
                    "no_progress", "too_long"}
    /\ Len(down) <= 3 /\ Len(up) <= 2
    /\ worker.at \in {"none", "boot", "ready", "payload", "syscall", "poll", "fill", "reply", "body",
                      "ack", "zombie"}

\* The account tells the truth: between calls, what the host really moved for
\* a role is at least what is confirmed and at most confirmed plus uncertain,
\* whatever a worker did after a cancelled, failed or crashed call; the counter
\* is exactly the account, nothing charged twice or forgotten; and
\* max_host_bytes bounds what is really moved at every moment.
AccountingSound ==
    /\ Sum(moved) <= MaxHost
    /\ AtRest =>
        /\ \A r \in Roles :
               /\ state.roles[r].confirmed <= moved[r]
               /\ moved[r] <= state.roles[r].confirmed + state.roles[r].uncertain
        /\ state.consumed = Sum([r \in Roles |->
               state.roles[r].confirmed + state.roles[r].uncertain])

\* Bytes reach standard output in order, each at most once, whatever is
\* interrupted, blocked, short or retried, and a successful write wrote them
\* all.  A successful read returns every byte it took from standard input, and
\* ends because there are no more; end of input is recorded only when it ended.
StreamsExact ==
    /\ \A i \in DOMAIN out : out[i] = i
    /\ state.progress.eof => input = 0
    /\ (AtRest /\ outcome = "ok") =>
        /\ call.kind = "write" => Len(out) = Total
        /\ call.kind = "read" => call.done = taken /\ input = 0

\* No host work outlives its call: between calls the worker is gone or waits
\* for the next request, and once the host is closed there is no worker.  A pid
\* is owned until it has been waited for, and never used afterwards.
NoDetachedWork ==
    /\ AtRest => /\ \/ worker.at \in {"none", "zombie", "ready"}
                    \/ worker.at = "ack" /\ down # <<>> /\ Head(down).tag = "ACK"
                 /\ host.closed => worker.at = "none"
    /\ host.pid <=> worker.at # "none"

\* Terminal modes and signal dispositions are given back only when no worker
\* can touch the terminal any more, and both are when the evaluation is done;
\* a released lease has its dispositions restored unless that failed.  A close
\* that failed is reported exactly once, even if the host is closed again
\* later.
CleanupSound ==
    /\ (host.terminal # "lent" \/ ~lease.lent) => worker.at = "none"
    /\ ~lease.lent => host.terminal # "lent" /\ (lease.installed => lease.failed)
    /\ pc = "done" => /\ host.terminal # "lent" /\ ~lease.lent
                      /\ diagnostics = failures

\* A signal that reached this process while the lease was held is never lost:
\* once the lease is gone the flag holds it.  (Not if a disposition could not
\* be restored at first.)
NoLostSignal == (~lease.lent /\ lease.received /\ ~lease.failed) => lease.flag

\* Once a poll has observed a cancellation its reason never changes, no worker
\* is started and no request is made.
CancelledIsFinal ==
    [][scope # "live" => /\ scope' = scope
                         /\ host'.request = host.request
                         /\ host'.worker => host.worker]_vars

\* Every call returns, though the worker may block for ever in its host call.
CallsReturn == pc = "admission" ~> AtRest
=============================================================================
