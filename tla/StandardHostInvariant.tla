----------------------- MODULE StandardHostInvariant -----------------------
(***************************************************************************)
(* The inductive invariant of StandardHost.  Core is about control: who    *)
(* owns worker, terminal and signals, and what the worker can be doing, and *)
(* what can be in the socket, at each step of the supervisor.  Account is  *)
(* about bytes: what is charged, what may have been moved, and what a      *)
(* request or an answer on its way stands for.                             *)
(***************************************************************************)
EXTENDS StandardHost

\* The phases of the supervisor, in groups.
Stopping == {"terminate", "grace", "wait"}
Restoring == {"terminal", "poll signals", "restore signals", "drop lease", "closed"}
ClosePhases == {"close"} \cup Stopping \cup Restoring
Transfer == {"launch", "bind", "ready", "reap ready", "bound", "request", "payload",
             "reply", "reap reply", "replied", "body", "reap body", "received", "ack", "acked"}
Unwinding == {"idle", "admission", "settle", "failed", "done"} \cup ClosePhases
Labels == Unwinding \cup Transfer \cup {"chunk", "result"}

\* The records of the lease and of the host.
LeaseType == [installed : BOOLEAN, lent : BOOLEAN, received : BOOLEAN, flag : BOOLEAN,
              failed : BOOLEAN]
HostType == [closed : BOOLEAN, worker : BOOLEAN, pid : BOOLEAN, request : Nat,
             terminal : {"lent", "restored", "lost"}]

(***************************************************************************)
(* Cancellation: a scope that turned is polled no further than the way     *)
(* out, and what the handlers received is in the flag when they are gone.  *)
(***************************************************************************)
CancelInv ==
    /\ pc \in Labels /\ ret \in {"idle", "settle", "return", "done"}
    /\ lease \in LeaseType /\ scope \in {"live", "requested", "timeout"}
    /\ scope # "live" => pc \in Unwinding
    /\ (~lease.lent /\ ~lease.failed) => ~lease.installed /\ (lease.received => lease.flag)
    /\ (pc = "drop lease" /\ ~lease.failed) => ~lease.installed

(***************************************************************************)
(* Ownership: a process is owned until it is waited for, and terminal and  *)
(* signals are lent as long as a worker may use them.                      *)
(***************************************************************************)
OwnerInv ==
    /\ host.pid <=> worker.at # "none"
    /\ host.worker => ~host.closed
    /\ (~host.worker /\ pc \notin Stopping) => ~host.pid
    /\ (~host.worker /\ ~host.closed) => host.request = 0
    /\ pc \in Stopping \cup Restoring => host.closed
    /\ pc \in Stopping => host.terminal = "lent"
    /\ host.terminal # "lent" => host.closed
    /\ pc \in {"poll signals", "restore signals", "drop lease"} => host.terminal # "lent"
    /\ ~lease.lent => host.terminal # "lent"
    /\ pc = "closed" => ~lease.lent
    /\ (~state.held /\ pc \notin ClosePhases) => ~lease.lent
    /\ (pc = "done" \/ ret = "done") => ~state.held
    /\ pc \in Transfer \ {"launch"} => host.worker
    /\ pc \in {"poll signals", "restore signals", "drop lease"} => lease.lent

\* Every cleanup that failed has been reported or is kept for one report.
ReportInv ==
    /\ failures \in Nat /\ diagnostics \in Nat
    /\ lease.lent => failures = 0 /\ diagnostics = 0 /\ ~state.cleanup_error
    /\ (pc \in Stopping \cup Restoring /\ x.cleanup)
           => failures = 0 /\ diagnostics = 0 /\ ~state.cleanup_error
    /\ pc \in Transfer => ~x.cleanup
    /\ (pc = "settle" /\ x.cleanup) => ~state.cleanup_error
    /\ failures = diagnostics + (IF state.cleanup_error \/ (pc = "settle"
       /\ x.cleanup) THEN 1 ELSE 0)
    /\ pc \in ClosePhases => ret \in {"settle", "return", "done"}
    /\ ret = "done" => pc \in ClosePhases \cup {"done"} /\ ~state.cleanup_error
    /\ pc = "done" => ~state.cleanup_error

(***************************************************************************)
(* The protocol: the frames, the worker's states together with what is in  *)
(* the socket, and which of them each phase of the supervisor may meet.    *)
(***************************************************************************)
Requests == {"FILL", "READ", "WRITE"}
Errors == {"INTERRUPTED", "WOULD_BLOCK", "BROKEN_PIPE", "IO_FAILED"}
Alive == ~WorkerGone
Current == Frame(RequestTag, host.request, x.length, call.done)
Payload == Frame("PAYLOAD", host.request, x.length, call.done)
Ack(n) == Frame("ACK", n, 0, 0)
BindFrame == Frame("BIND", 0, 0, 0)
ReadyFrame == Frame("READY", 0, 0, 0)
BodyOf(f) == Frame("BODY", host.request, f.bytes, 0)
Bodied(f) == f.bytes > 0 /\ call.kind # "write"

\* What the worker is doing, and what is on its way to it: started; at rest
\* after request n; given a request, and a write its payload; working on it;
\* answering it.
Booting ==
    /\ worker.at = "boot" /\ worker.served = 0 /\ host.request = 0 /\ up = <<>>
    /\ down = <<>> \/ down = <<BindFrame>>
Resting(n) ==
    /\ worker.served = n
    /\ \/ worker.at = "ready" /\ down = <<>>
       \/ worker.at = "ack" /\ down = <<Ack(n)>>
RequestSent ==
    /\ up = <<>>
    /\ \/ /\ worker.served = host.request - 1
          /\ \/ worker.at = "ack" /\ down = <<Ack(host.request - 1), Current>>
             \/ worker.at = "ready" /\ down = <<Current>>
       \/ /\ worker.served = host.request /\ call.kind = "write"
          /\ worker.at = "payload" /\ down = <<>> /\ worker.job = Current
PayloadSent ==
    /\ up = <<>> /\ call.kind = "write"
    /\ \/ /\ worker.served = host.request - 1
          /\ \/ worker.at = "ack" /\ down = <<Ack(host.request - 1), Current, Payload>>
             \/ worker.at = "ready" /\ down = <<Current, Payload>>
       \/ /\ worker.served = host.request
          /\ worker.at = "payload" /\ down = <<Payload>> /\ worker.job = Current
Working == worker.at \in {"syscall", "poll", "fill"}
Serving ==
    /\ Working /\ (worker.at = "fill" <=> IsEntropy)
    /\ down = <<>> /\ up = <<>> /\ worker.served = host.request /\ worker.job = Current
ReplyTo(f) ==
    /\ f.request = host.request /\ f.bytes \in 0..x.length
    /\ IsEntropy => (f.tag = "DATA" /\ f.bytes = x.length) \/ f.tag = "FAILED"
    /\ ~IsEntropy => f.tag = "PROGRESS" \/ (f.tag \in Errors /\ f.bytes = 0)
Answering(at) ==
    /\ worker.at = at /\ down = <<>> /\ worker.served = host.request /\ worker.job = Current
    /\ ReplyTo(worker.reply)
InUse ==
    \/ Booting \/ Resting(host.request) \/ RequestSent \/ PayloadSent \/ Serving
    \/ Answering("reply") /\ up = <<>>
    \/ Answering("body") /\ Len(up) <= 1
    \/ Answering("ack")

\* What the supervisor may find when it waits for an answer, and for its body.
AwaitsReply ==
    \/ call.kind # "write" /\ RequestSent
    \/ PayloadSent
    \/ Serving
    \/ Answering("reply") /\ up = <<>>
    \/ up = <<worker.reply>> /\ Answering("body") /\ Bodied(worker.reply)
    \/ up = <<worker.reply>> /\ Answering("ack") /\ ~Bodied(worker.reply)
    \/ up = <<worker.reply, BodyOf(worker.reply)>> /\ Answering("ack") /\ Bodied(worker.reply)
AwaitsBody ==
    \/ up = <<>> /\ Answering("body")
    \/ up = <<BodyOf(worker.reply)>> /\ Answering("ack")
Still == {"idle", "admission", "chunk", "settle", "result", "failed", "launch", "bound",
  "request",
          "acked", "done"}

\* The protocol: what the worker can be doing at each step of the supervisor.
ChannelInv ==
    /\ (Alive /\ host.worker /\ pc = "close") => InUse \/ Resting(host.request - 1)
    /\ (Alive /\ ~host.worker) => down = <<>> /\ (Working => Serving)
PhaseInv ==
    (host.worker /\ Alive) =>
    /\ pc = "bind" => Booting /\ down = <<>>
    /\ pc \in {"ready", "reap ready"} =>
           \/ Booting /\ down = <<BindFrame>>
           \/ Resting(host.request) /\ worker.at = "ready" /\ up = <<ReadyFrame>>
    /\ pc = "payload" => RequestSent
    /\ pc \in {"reply", "reap reply"} => AwaitsReply
    /\ pc = "replied" =>
           /\ worker.reply = x.frame
           /\ \/ AwaitsBody /\ Bodied(worker.reply)
              \/ up = <<>> /\ Answering("ack") /\ ~Bodied(worker.reply)
    /\ pc \in {"body", "reap body"} => AwaitsBody /\ Bodied(worker.reply)
    /\ pc \in {"received", "ack"} => Answering("ack")
    /\ pc \in Still => Resting(host.request)

\* What the worker has sent, which outlives it.
UpInv ==
    /\ pc \notin {"ready", "reap ready", "reply", "reap reply", "replied", "body", "reap body",
       "close"} => up = <<>>
    /\ pc \in {"ready", "reap ready"} => up = <<>> \/ up = <<ReadyFrame>>
    /\ pc \in {"reply", "reap reply"} =>
         \/ up = <<>>
         \/ ReplyTo(up[1]) /\ up = <<up[1]>>
         \/ ReplyTo(up[1]) /\ up = <<up[1], BodyOf(up[1])>> /\ Bodied(up[1])
    /\ pc = "replied" => ReplyTo(x.frame)
       /\ (up = <<>> \/ (up = <<BodyOf(x.frame)>> /\ Bodied(x.frame)))
    /\ pc \in {"body", "reap body"} => up = <<>> \/ up = <<up[1]>>
    /\ pc = "bound" => x.frame = ReadyFrame
    /\ Len(up) <= 2
\* What is on its way to the worker.
DownInv ==
    /\ Len(down) <= 3
    /\ ~host.worker => down = <<>>
    /\ pc = "payload" => call.kind = "write"
    /\ pc \in {"payload", "reply", "reap reply", "replied", "body", "reap body", "received", "ack",
       "acked"} => host.request > 0

Protocol == ChannelInv /\ PhaseInv /\ UpInv /\ DownInv

(***************************************************************************)
(* Types, and the numbers of a chunk at each phase.                        *)
(***************************************************************************)
InChunk == pc \in Transfer \cup {"settle"} \/ (pc \in ClosePhases /\ ret = "settle")
Busy == InChunk \/ pc \in {"chunk", "result", "failed"}
FrameTags == Requests \cup Errors \cup
    {"none", "BIND", "READY", "PAYLOAD", "ACK", "BODY", "PROGRESS", "DATA", "FAILED"}
FrameType == [tag : FrameTags, request : Nat, bytes : Nat, offset : Nat]
ChunkErrors == {"none", "cancelled", "io", "would_block", "interrupted", "broken_pipe",
  "protocol",
                "unsupported"}
ProgressType == [admitted : Nat, confirmed : Nat, uncertain : Nat, eof : BOOLEAN]
StateType == [held : BOOLEAN, consumed : Int, progress : ProgressType,
              roles : [Roles -> [confirmed : Nat, uncertain : Nat]], cleanup_error : BOOLEAN]
ChunkType == [length : Nat, confirmed : Nat, uncertain : Nat, eof : BOOLEAN, error : ChunkErrors,
              frame : FrameType, cleanup : BOOLEAN]
CallStateType == [kind : {"int", "bytes", "read", "write"}, bytes : Nat, lf : BOOLEAN,
                  done : Nat, draws : Nat]
WorkerType == [at : {"none", "boot", "ready", "payload", "syscall", "poll", "fill", "reply",
  "body",
                      "ack", "zombie"}, signal : {"none", "TERM", "KILL"}, served : Nat,
               job : FrameType, reply : FrameType]
StateOK == state \in StateType
HostOK == host \in HostType
ChunkOK == x \in ChunkType
CallOK == call \in CallStateType
WorkerOK == worker \in WorkerType
QueuesOK == down \in Seq(FrameType) /\ up \in Seq(FrameType)
EnvironmentOK == moved \in [Roles -> Nat] /\ input \in Nat /\ taken \in Nat /\ out \in Seq(Nat)
Typed == StateOK /\ HostOK /\ ChunkOK /\ CallOK /\ WorkerOK /\ QueuesOK /\ EnvironmentOK

\* The bytes a call may ask for in all.
Extent == call.bytes + (IF call.kind = "read" \/ (call.kind = "write" /\ call.lf) THEN 1 ELSE 0)
\* What the chunk says at each phase: nothing is known before the request, all
\* of it is uncertain while it may be served, and an answer settles it.
ChunkInv ==
    /\ x.confirmed + x.uncertain <= x.length
    /\ pc \in Transfer => x.length > 0
    /\ call.kind \in {"bytes", "write"} => call.done <= Extent
    /\ call.kind = "read" => call.done <= call.bytes
    /\ (InChunk \/ pc \in {"result", "failed"}) /\ call.kind # "int"
       => call.done + x.length <= Extent
    /\ pc \in {"launch", "bind", "ready", "reap ready", "bound", "request"} =>
           x.confirmed = 0 /\ x.uncertain = 0 /\ x.error = "none" /\ ~x.eof
    /\ pc \in {"payload", "reply", "reap reply", "replied"} =>
           x.confirmed = 0 /\ x.uncertain = x.length /\ x.error = "none" /\ ~x.eof
    /\ pc \in {"body", "reap body", "received"} =>
           /\ call.kind # "write" /\ x.error = "none" /\ ~x.eof
           /\ IF IsEntropy THEN x.confirmed = 0 /\ x.uncertain = x.length
              ELSE x.confirmed > 0 /\ x.uncertain = 0
    /\ pc \in {"ack", "acked"} => x.uncertain = 0
    /\ pc \in ClosePhases /\ ret = "settle" => x.error # "none"
    /\ pc \in {"settle", "result"} /\ x.error = "none" => x.uncertain = 0
    /\ (pc \in {"ack", "acked", "settle", "result"} /\ x.error = "none"
            /\ call.kind = "read" /\ x.confirmed = 0) => x.eof

Core == Typed /\ CancelInv /\ OwnerInv /\ ReportInv /\ ChunkInv /\ Protocol

(***************************************************************************)
(* The account.                                                            *)
(***************************************************************************)
Recorded(r) == state.roles[r].confirmed + state.roles[r].uncertain
AllRecorded == Recorded("entropy") + Recorded("stdin") + Recorded("stdout")

\* What max_host_bytes is charged with.
ChargeInv ==
    /\ ~Busy => state.consumed = AllRecorded
    /\ Busy /\ ~InChunk =>
           state.consumed = AllRecorded + state.progress.confirmed + state.progress.uncertain
    /\ InChunk => state.consumed = AllRecorded + state.progress.confirmed + (IF IsEntropy THEN x.length ELSE 0)
    /\ AllRecorded <= MaxHost
    /\ pc = "admission" => state.progress.confirmed = 0 /\ state.progress.uncertain = 0
       /\ call.done = 0
    /\ Busy => AllRecorded + state.progress.admitted <= MaxHost
    /\ Busy /\ call.kind # "int" => state.progress.admitted = Extent
    /\ Busy /\ pc \notin {"result", "failed"} => state.progress.confirmed = call.done
    /\ InChunk => state.progress.confirmed + x.length <= state.progress.admitted
    /\ pc \in {"result", "failed"} =>
           /\ state.progress.confirmed = call.done + x.confirmed
           /\ state.progress.uncertain = x.uncertain
    /\ pc = "chunk" => state.progress.uncertain = 0
    /\ Busy /\ ~InChunk => state.progress.confirmed + state.progress.uncertain <= state.progress.admitted

\* What the host has moved for the role of the call, and between which bounds
\* the account puts it before the chunk in progress.
Gone == moved[Role]
Low == state.roles[Role].confirmed + state.progress.confirmed
High == Recorded(Role) + state.progress.confirmed
Least(n) == Low + n <= Gone
Most(n) == Gone <= High + n
\* The bytes of the call that have reached the stream, or left it.
Streamed == IF call.kind = "write" THEN Len(out) ELSE taken
Exact(n) == ~IsEntropy => Streamed = call.done + n
Owes(f) == /\ Least(f.bytes)
           /\ ~IsEntropy => Most(f.bytes) /\ Exact(f.bytes)
           /\ (call.kind = "read" /\ f.tag = "PROGRESS" /\ f.bytes = 0) => input = 0
Outstanding == RequestSent \/ PayloadSent \/ Serving
Answered == Answering("reply") \/ Answering("body") \/ Answering("ack")

\* What moved is accounted for, whatever becomes of the call.
MovedInv ==
    /\ \A r \in Roles : (r # Role \/ ~Busy) => state.roles[r].confirmed <= moved[r]
       /\ moved[r] <= Recorded(r)
    /\ pc \in {"chunk", "result", "failed"} => Least(0) /\ Most(state.progress.uncertain)
    /\ InChunk => Least(x.confirmed) /\ Most(x.confirmed + x.uncertain)
\* What a request that may still be served, and an answer on its way, stand for.
AnswerInv ==
    /\ (Outstanding /\ Alive) => /\ InChunk /\ x.confirmed = 0 /\ x.uncertain = x.length
                                 /\ x.error \notin {"interrupted", "would_block"}
                                 /\ Least(0) /\ Most(0) /\ Exact(0)
    /\ (Answered /\ Alive /\ host.worker /\ pc \in {"reply", "reap reply"}) => Owes(worker.reply)
    /\ (pc \in {"reply", "reap reply"} /\ up # <<>>) => Owes(up[1])
    /\ pc = "replied" => Owes(x.frame)
    /\ pc \in {"body", "reap body", "received"} /\ IsEntropy => Least(x.length)

\* The streams of the call: in order, and where the call stands in them.
StreamInv ==
    /\ \A i \in DOMAIN out : out[i] = i
    /\ state.progress.eof \/ x.eof => input = 0
    /\ pc \in {"admission", "chunk", "launch", "bind", "ready", "reap ready", "bound", "request"}
       => Exact(0)
    /\ pc \in {"body", "reap body", "received", "ack", "acked"} => Exact(x.confirmed)
    /\ ((InChunk \/ pc = "result") /\ x.error \in {"interrupted", "would_block"})
       => Exact(x.confirmed)
    /\ (pc \in {"settle", "result"} /\ x.error = "none") => Exact(x.confirmed)
    /\ (Busy \/ pc = "admission") => outcome = "none"
    /\ outcome = "ok" =>
        /\ call.kind = "write" => Len(out) = Total
        /\ call.kind = "read" => call.done = taken /\ input = 0

\* How calls return, and the deadlines that have passed.
Outcomes == {"none", "ok", "cancelled", "unsupported", "limit", "failed", "broken_pipe",
  "no_progress",
             "too_long"}
OutcomeInv == outcome \in Outcomes /\ late \in {"no", "operation", "evaluation"}

Account == ChargeInv /\ MovedInv /\ AnswerInv /\ StreamInv /\ OutcomeInv
=============================================================================
