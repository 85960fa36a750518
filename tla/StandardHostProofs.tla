----------------------------- MODULE StandardHostProofs -----------------------------
(***************************************************************************)
(* Theorems about StandardHost, for any limits, chunk and word size, any   *)
(* set of calls and any number of failing system calls: the core invariant *)
(* and what follows from it about signals, cleanup, detached work and      *)
(* cancellation.  One lemma for each part of the invariant and each group  *)
(* of steps: those of a call, of a transfer, of close, of the worker       *)
(* (Peer), and of the program, the signals and the clock (World).          *)
(***************************************************************************)
EXTENDS StandardHostInvariant, SequenceTheorems, TLAPS

USE DEF Unwinding, Labels, Stopping, Restoring, ClosePhases, Transfer

\* What a poll of the operation scope does: a live scope may turn, a turned one stays, and of
\* the lease only the flag is ever set.
LEMMA Poll ==
  ASSUME NEW until, lease \in LeaseType, scope \in {"live", "requested", "timeout"}, Polled(until)
  PROVE  /\ scope' \in {"live", "requested", "timeout"} /\ lease' \in LeaseType
         /\ scope # "live" => scope' = scope
         /\ scope' = Observed(until)
         /\ lease'.installed = lease.installed /\ lease'.lent = lease.lent
         /\ lease'.received = lease.received /\ lease'.failed = lease.failed
         /\ lease.flag => lease'.flag
  BY DEF Polled, Observed, LeaseType, Requested

\* Where the supervisor goes with a record it has received.
LEMMA HandlerOf ==
  Handler["ready"] = "bound" /\ Handler["reply"] = "replied" /\ Handler["body"] = "received"
  BY DEF Handler

\* Where the supervisor goes when it looks at the worker while it waits.
LEMMA ReapingOf ==
  /\ Reaping["ready"] = "reap ready" /\ Reaping["reply"] = "reap reply"
  /\ Reaping["body"] = "reap body"
  /\ DOMAIN Reaping = {"ready", "reply", "body"}
  BY DEF Reaping

\* A call that returns goes back to the program, or takes the host away first.
LEMMA ReturnEffect ==
  ASSUME StateOK, NEW result, Return(result)
  PROVE  /\ x' = NoChunk /\ outcome' = result
         /\ state'.held \in BOOLEAN /\ state'.cleanup_error = state.cleanup_error
         /\ state'.consumed = state.consumed /\ state'.progress.eof = state.progress.eof
         /\ \/ pc' = "idle" /\ ret' = ret /\ state'.held = state.held
            \/ pc' = "close" /\ ret' = "return" /\ state'.held = FALSE /\ state.held
  BY DEF Return, StateOK, StateType, ProgressType

\* What a chunk that succeeded leads to: the next chunk, or the end of the call.
LEMMA SucceedsEffect ==
  ASSUME ChunkSucceeds
  PROVE  /\ pc = "result" /\ x.error = "none"
         /\ UNCHANGED <<host, lease, scope, channels, worker, environment, reports>>
         /\ \/ /\ call' = Advanced /\ pc' = "chunk" /\ UNCHANGED <<state, ret, x, outcome>>
               /\ call.kind = "read" => ~(x.confirmed > call.bytes - call.done)
            \/ /\ \E result : Return(result) /\ (result = "ok" => call.kind \in {"int", "read"}
                                                    /\ (call.kind = "read" => x.confirmed = 0))
               /\ UNCHANGED call
<1>1. pc = "result" /\ x.error = "none"
         /\ UNCHANGED <<host, lease, scope, channels, worker, environment, reports>>
  BY DEF ChunkSucceeds
<1> DEFINE goOn == call' = Advanced /\ pc' = "chunk"
              /\ UNCHANGED <<state, ret, x, late, outcome, faults>>
           stop(result) == Return(result) /\ UNCHANGED <<call, faults>>
<1>2. \/ call.kind = "int" /\ (stop("ok") \/ goOn)
      \/ call.kind = "bytes" /\ goOn
      \/ call.kind = "write" /\ (IF x.confirmed = 0 THEN stop("no_progress") ELSE goOn)
      \/ call.kind = "read" /\ x.confirmed > 0
         /\ (IF x.confirmed > call.bytes - call.done THEN stop("too_long") ELSE goOn)
      \/ call.kind = "read" /\ x.confirmed = 0 /\ stop("ok")
      \/ call.kind = "read" /\ x.confirmed = 0 /\ Return("limit") /\ UNCHANGED call
  BY DEF ChunkSucceeds
<1>3. QED
  BY <1>1, <1>2

\* Wherever a call returns to.
LEMMA ReturnGoes ==
  ASSUME NEW result, Return(result)
  PROVE  (pc' = "idle" /\ ret' = ret) \/ (pc' = "close" /\ ret' = "return")
  BY DEF Return

\* A step that leaves alone what a part of the invariant is about keeps it.
LEMMA CancelSame ==
  ASSUME CancelInv, UNCHANGED <<pc, ret, lease, scope>>
  PROVE  CancelInv'
<1> HIDE DEF Unwinding, Labels, Stopping, Restoring, ClosePhases, Transfer
<1> QED
  BY DEF CancelInv

(* A step that changes nothing OwnerInv reads keeps it.                    *)
LEMMA OwnerSame ==
  ASSUME OwnerInv, UNCHANGED <<state, pc, ret, host, lease, worker>>
  PROVE  OwnerInv'
<1> HIDE DEF Unwinding, Labels, Stopping, Restoring, ClosePhases, Transfer
<1> QED
  BY DEF OwnerInv

(* A step that changes nothing ReportInv reads keeps it.                   *)
LEMMA ReportSame ==
  ASSUME ReportInv, UNCHANGED <<state, pc, ret, x, lease, reports>>
  PROVE  ReportInv'
<1> HIDE DEF Unwinding, Labels, Stopping, Restoring, ClosePhases, Transfer
<1> QED
  BY DEF ReportInv, reports

(* A step that changes nothing ChunkInv reads keeps it.                    *)
LEMMA ChunkSame ==
  ASSUME ChunkInv, UNCHANGED <<pc, ret, call, x>>
  PROVE  ChunkInv'
<1> HIDE DEF Unwinding, Labels, Stopping, Restoring, ClosePhases, Transfer
<1> QED
  BY ZenonT(40) DEF ChunkInv, InChunk, Extent, IsEntropy, Role

\* A step of the way out, or of a scope that is still live, is one that may be taken.
LEMMA CancelMoves ==
  ASSUME CancelInv, UNCHANGED <<lease, scope>>, pc' \in Labels \ {"drop lease"},
         ret' \in {"idle", "settle", "return", "done"}, pc' \in Unwinding \/ scope = "live"
  PROVE  CancelInv'
<1> HIDE DEF Unwinding, Labels, Stopping, Restoring, ClosePhases, Transfer
<1> QED
  BY DEF CancelInv

\* The worker's own steps, and its end.
Peer == Worker \/ WorkerDies \/ WorkerTerminated \/ WorkerKilled

\* The worker changes nothing of the supervisor.
LEMMA PeerFrame ==
  ASSUME Peer
  PROVE  UNCHANGED <<state, pc, ret, call, x, outcome, host, lease, scope, late, calls, reports>>
<1>1. CASE Worker
  BY <1>1 DEF Worker, WorkerStep, WorkerBinds, WorkerServes, WorkerPayload, WorkerReads,
     WorkerWrites,
     WorkerErrs, WorkerPolls, WorkerFills, WorkerReplies, WorkerBody, WorkerAcknowledged,
       WorkerSends
<1>2. CASE WorkerDies \/ WorkerTerminated \/ WorkerKilled
  BY <1>2 DEF WorkerDies, WorkerTerminated, WorkerKilled, Exits
<1>3. QED BY <1>1, <1>2 DEF Peer

\* The steps of a call keep the cancellation invariant.
LEMMA CancelCalling ==
  ASSUME CancelInv, Calling
  PROVE  CancelInv'
<1> USE Poll DEF CancelInv, Live, Cancelled, LeaseType
<1>1. CASE AdmissionFails
  BY <1>1 DEF AdmissionFails, Return
<1>2. CASE Admit
  BY <1>2 DEF Admit
<1>3. CASE CallSucceeds \/ CandidatesExhausted \/ RetryChunk
  <2>1. /\ UNCHANGED <<lease, scope>> /\ pc \in {"chunk", "result"}
        /\ pc' \in {"idle", "close", "chunk"} /\ ret' \in {ret, "return"}
    BY <1>3, ReturnGoes DEF CallSucceeds, CandidatesExhausted, RetryChunk
  <2>2. scope = "live" /\ ret' \in {"idle", "settle", "return", "done"}
    BY <2>1
  <2>3. QED
    BY <2>1, <2>2, CancelMoves
<1>4. CASE ChunkRefused
  BY <1>4 DEF ChunkRefused, ChunkDue, Return
<1>5. CASE StartChunk
  BY <1>5 DEF StartChunk, ChunkDue
<1>6. CASE Settle
  BY <1>6 DEF Settle
<1>7. CASE ChunkFails
  <2>1. CASE pc = "failed" /\ Return("cancelled")
    BY <1>7, <2>1 DEF ChunkFails, Return
  <2>2. CASE pc = "result"
    BY <1>7, <2>2 DEF ChunkFails, Return
  <2>3. QED BY <1>7, <2>1, <2>2 DEF ChunkFails
<1>8. CASE ChunkSucceeds
  <2>1. /\ UNCHANGED <<lease, scope>> /\ pc = "result"
        /\ pc' \in {"idle", "close", "chunk"} /\ ret' \in {ret, "return"}
    BY <1>8, SucceedsEffect, ReturnGoes
  <2>2. scope = "live" /\ ret' \in {"idle", "settle", "return", "done"}
    BY <2>1
  <2>3. QED
    BY <2>1, <2>2, CancelMoves
<1>9. QED BY <1>1, <1>2, <1>3, <1>4, <1>5, <1>6, <1>7, <1>8 DEF Calling

\* The steps of a transfer keep the cancellation invariant.
LEMMA CancelTransferring ==
  ASSUME CancelInv, Transferring
  PROVE  CancelInv'
<1> USE Poll DEF CancelInv, Live, Cancelled, LeaseType, Fail, FailCancelled
<1>1. CASE HostRefuses \/ ReuseWorker
  BY <1>1 DEF HostRefuses, ReuseWorker
<1>2. CASE Spawn \/ SpawnFails
  BY <1>2 DEF Spawn, SpawnFails
<1>3. CASE Bind \/ SendPayload \/ Acknowledge
  BY <1>3 DEF Bind, SendPayload, Acknowledge, Send, SendFails
<1>4. CASE SendRequest \/ RequestFails
  BY <1>4 DEF SendRequest, RequestFails, Send, SendFails
<1>5. CASE RequestStale
  BY <1>5 DEF RequestStale
<1>6. CASE ReceiveFails \/ RecordCancelled
  BY <1>6 DEF ReceiveFails, RecordCancelled, Receiving
<1>7. CASE ReceiveRecord
  BY <1>7, HandlerOf DEF ReceiveRecord, Receiving
<1>8. CASE ReceiveEmpty
  BY <1>8, ReapingOf DEF ReceiveEmpty, Receiving
<1>9. CASE ReapPeer
  <2>1. /\ UNCHANGED <<lease, scope, ret>>
        /\ pc \in {"reap ready", "reap reply", "reap body"} /\ pc' \in {"ready", "reply", "body"}
    BY <1>9, ReapingOf DEF ReapPeer
  <2>2. scope = "live" /\ ret' \in {"idle", "settle", "return", "done"}
    BY <2>1
  <2>3. QED
    BY <2>1, <2>2, CancelMoves
<1>10. CASE Bound
  BY <1>10 DEF Bound, Handled
<1>11. CASE StreamReplied
  BY <1>11 DEF StreamReplied, Handled, AwaitBody
<1>12. CASE FillReplied
  BY <1>12 DEF FillReplied, Handled, AwaitBody
<1>13. CASE Received
  BY <1>13 DEF Received, Handled
<1>14. CASE Acknowledged
  BY <1>14 DEF Acknowledged, Handled
<1>15. QED
  BY <1>1, <1>2, <1>3, <1>4, <1>5, <1>6, <1>7, <1>8, <1>9, <1>10, <1>11, <1>12, <1>13, <1>14
  DEF Transferring

\* The steps of close keep the cancellation invariant: what the handler received is in the flag
\* before the handlers are gone.
LEMMA CancelClosing ==
  ASSUME CancelInv, ReportInv, Closing
  PROVE  CancelInv'
<1> USE DEF CancelInv, ReportInv, CloseStep, Goto, LeaseType
<1>1. CASE CloseSocket \/ Terminate \/ Grace \/ Wait \/ RestoreTerminal \/ Closed
  <2>1. UNCHANGED <<lease, scope, ret>>
    BY <1>1 DEF CloseSocket, Terminate, Grace, Wait, RestoreTerminal, Closed
  <2>2. CASE Closed
    BY <2>1, <2>2 DEF Closed
  <2>3. CASE CloseSocket \/ Terminate \/ Grace \/ Wait \/ RestoreTerminal
    <3>1. pc' \in {"terminate", "terminal", "grace", "wait", "poll signals", "closed"}
      BY <2>3 DEF CloseSocket, Terminate, Grace, Wait, RestoreTerminal
    <3>2. QED
      BY <2>1, <3>1, CancelMoves
  <2>4. QED
    BY <1>1, <2>2, <2>3
<1>2. CASE PollSignals
  BY <1>2 DEF PollSignals, Latched
<1>3. CASE RestoreSignals
  BY <1>3 DEF RestoreSignals
<1>4. CASE DropLease
  BY <1>4 DEF DropLease, Latched
<1>9. QED BY <1>1, <1>2, <1>3, <1>4 DEF Closing

\* The worker, the program, the signals and the clock keep the cancellation invariant.
LEMMA CancelRest ==
  ASSUME CancelInv, (\E c \in Calls : Invoke(c)) \/ Finish \/ Peer \/ SignalArrives
         \/ OperationExpires \/ EvaluationExpires
  PROVE  CancelInv'
<1> USE DEF CancelInv, LeaseType
<1>1. CASE (\E c \in Calls : Invoke(c)) \/ Finish
  BY <1>1 DEF Invoke, Finish
<1>2. CASE Peer
  BY <1>2, PeerFrame, CancelSame
<1>3. CASE SignalArrives
  BY <1>3 DEF SignalArrives
<1>4. CASE OperationExpires \/ EvaluationExpires
  BY <1>4 DEF OperationExpires, EvaluationExpires
<1>5. QED BY <1>1, <1>2, <1>3, <1>4

\* The steps of a call keep the ownership of worker, terminal and signals.
LEMMA OwnerCalling ==
  ASSUME CancelInv, StateOK, HostOK, ChunkOK, WorkerOK, OwnerInv, ReportInv, Calling
  PROVE  OwnerInv'
<1> USE Poll DEF CancelInv, OwnerInv, LeaseType, StateOK, HostOK, StateType, Live, Cancelled,
         HostType
<1>1. CASE AdmissionFails
  <2>1. /\ UNCHANGED <<host, worker>> /\ lease'.lent = lease.lent /\ pc = "admission"
        /\ \E result : Return(result)
    BY <1>1, Poll DEF AdmissionFails
  <2>2. QED
    BY <2>1, ReturnEffect
<1>2. CASE Admit
  BY <1>2 DEF Admit
<1>3. CASE CallSucceeds
  BY <1>3 DEF CallSucceeds, Return
<1>4. CASE CandidatesExhausted
  BY <1>4 DEF CandidatesExhausted, Return
<1>5. CASE ChunkRefused
  BY <1>5 DEF ChunkRefused, ChunkDue, Return
<1>6. CASE StartChunk
  BY <1>6 DEF StartChunk, ChunkDue
<1>7. CASE Settle
  BY <1>7 DEF Settle, Settled
<1>8. CASE RetryChunk
  BY <1>8 DEF RetryChunk
<1>9. CASE ChunkFails
  <2>1. /\ UNCHANGED <<host, worker, lease>> /\ pc \in {"failed", "result"}
        /\ \E result : Return(result)
    BY <1>9 DEF ChunkFails
  <2>2. QED
    BY <2>1, ReturnEffect
<1>10. CASE ChunkSucceeds
  <2>1. UNCHANGED <<host, worker, lease>> /\ pc = "result"
    BY <1>10, SucceedsEffect
  <2>2. CASE pc' = "chunk" /\ UNCHANGED <<state, ret>>
    BY <2>1, <2>2
  <2>3. CASE \E result : Return(result)
    BY <2>1, <2>3, ReturnEffect
  <2>4. QED
    BY <1>10, <2>2, <2>3, SucceedsEffect
<1>11. QED
  BY <1>1, <1>2, <1>3, <1>4, <1>5, <1>6, <1>7, <1>8, <1>9, <1>10 DEF Calling

\* The steps of a transfer keep that ownership.
LEMMA OwnerTransferring ==
  ASSUME CancelInv, StateOK, HostOK, ChunkOK, WorkerOK, OwnerInv, ReportInv, Transferring
  PROVE  OwnerInv'
<1> USE Poll DEF CancelInv, OwnerInv, LeaseType, StateOK, HostOK, StateType, Live, Cancelled,
         HostType, NoWorker
<1>1. CASE HostRefuses
  BY <1>1 DEF HostRefuses
<1>2. CASE ReuseWorker
  BY <1>2 DEF ReuseWorker
<1>3. CASE Spawn
  BY <1>3 DEF Spawn
<1>4. CASE SpawnFails
  BY <1>4 DEF SpawnFails, Fail, FailCancelled
<1>5. CASE Bind
  BY <1>5 DEF Bind, Send, SendFails
<1>6. CASE SendRequest
  BY <1>6 DEF SendRequest, Send, NextRequest
<1>7. CASE RequestFails
  BY <1>7 DEF RequestFails, SendFails, NextRequest
<1>8. CASE RequestStale
  BY <1>8 DEF RequestStale, Fail
<1>9. CASE SendPayload
  BY <1>9 DEF SendPayload, Send, SendFails
<1>10. CASE ReceiveFails
  BY <1>10 DEF ReceiveFails, Receiving, Fail, FailCancelled
<1>11. CASE ReceiveRecord
  BY <1>11, HandlerOf DEF ReceiveRecord, Receiving
<1>12. CASE ReceiveEmpty
  BY <1>12, ReapingOf DEF ReceiveEmpty, Receiving
<1>13. CASE ReapPeer
  <2>1. /\ pc \in {"reap ready", "reap reply", "reap body"} /\ pc' \in {"ready", "reply", "body"}
        /\ UNCHANGED <<state, ret, lease, scope>>
    BY <1>13, ReapingOf DEF ReapPeer
  <2>2. \/ UNCHANGED <<worker, host>>
        \/ worker' = NoWorker /\ host' = [host EXCEPT !.pid = FALSE]
    BY <1>13 DEF ReapPeer, Reaped
  <2>3. CASE UNCHANGED <<worker, host>>
    BY <2>1, <2>3
  <2>4. CASE worker' = NoWorker /\ host' = [host EXCEPT !.pid = FALSE]
    BY <2>1, <2>4
  <2>5. QED
    BY <2>2, <2>3, <2>4
<1>14. CASE RecordCancelled
  BY <1>14 DEF RecordCancelled, Fail, FailCancelled
<1>15. CASE Bound
  BY <1>15 DEF Bound, Handled, Fail
<1>16. CASE StreamReplied
  BY <1>16 DEF StreamReplied, Handled, AwaitBody, Fail
<1>17. CASE FillReplied
  BY <1>17 DEF FillReplied, Handled, AwaitBody, Fail
<1>18. CASE Received
  BY <1>18 DEF Received, Handled
<1>19. CASE Acknowledge
  BY <1>19 DEF Acknowledge, Send, SendFails
<1>20. CASE Acknowledged
  BY <1>20 DEF Acknowledged, Handled, Fail, FailCancelled
<1>21. QED
  BY <1>1, <1>2, <1>3, <1>4, <1>5, <1>6, <1>7, <1>8, <1>9, <1>10, <1>11, <1>12, <1>13, <1>14,
     <1>15, <1>16, <1>17, <1>18, <1>19, <1>20 DEF Transferring

\* The steps of close keep that ownership: each gives up what the next one must not find.
LEMMA OwnerClosing ==
  ASSUME CancelInv, StateOK, HostOK, ChunkOK, WorkerOK, OwnerInv, ReportInv, Closing
  PROVE  OwnerInv'
<1> USE DEF CancelInv, OwnerInv, LeaseType, StateOK, HostOK, StateType, HostType, NoWorker,
         WorkerOK, WorkerType
<1>1. CASE CloseSocket
  BY <1>1 DEF CloseSocket, CloseStep, Goto
<1>2. CASE Terminate
  <2>1. pc = "terminate" /\ pc' \in {"terminal", "grace"} /\ UNCHANGED <<state, ret, lease>>
    BY <1>2 DEF Terminate, CloseStep, Goto
  <2>2. CASE worker.at = "zombie"
    BY <1>2, <2>1, <2>2 DEF Terminate, Reaped, Goto
  <2>3. CASE worker.at # "zombie"
    <3>1. worker'.at = worker.at /\ host' = host /\ pc' # "terminal"
      BY <1>2, <2>3 DEF Terminate, Goto
    <3>2. QED
      BY <2>1, <3>1
  <2>4. QED
    BY <2>2, <2>3
<1>3. CASE Grace
  <2>1. pc = "grace" /\ pc' \in {"terminal", "wait"} /\ UNCHANGED <<state, ret, lease>>
    BY <1>3 DEF Grace, CloseStep, Goto
  <2>2. CASE worker.at = "zombie"
    BY <1>3, <2>1, <2>2 DEF Grace, Reaped, Goto
  <2>3. CASE worker.at # "zombie"
    <3>1. worker'.at = worker.at /\ host' = host /\ pc' # "terminal"
      BY <1>3, <2>3 DEF Grace, Goto
    <3>2. QED
      BY <2>1, <3>1
  <2>4. QED
    BY <2>2, <2>3
<1>4. CASE Wait
  BY <1>4 DEF Wait, CloseStep, Goto, Reaped
<1>5. CASE RestoreTerminal
  <2>1. /\ pc = "terminal" /\ UNCHANGED <<state, ret, lease, worker>>
        /\ pc' = IF lease.lent THEN "poll signals" ELSE "closed"
    BY <1>5 DEF RestoreTerminal, CloseStep, Goto
  <2>2. /\ host'.closed = host.closed /\ host'.worker = host.worker /\ host'.pid = host.pid
        /\ host'.request = host.request /\ host'.terminal # "lent"
    BY ONLY <1>5, HostOK DEF RestoreTerminal, HostOK, HostType
  <2>3. CASE lease.lent
    BY <2>1, <2>2, <2>3
  <2>4. CASE ~lease.lent
    BY <2>1, <2>2, <2>4
  <2>5. QED
    BY <2>3, <2>4
<1>6. CASE PollSignals
  <2>1. /\ pc = "poll signals" /\ pc' = "restore signals" /\ UNCHANGED <<state, ret, host, worker>>
        /\ lease'.lent = lease.lent
    BY <1>6 DEF PollSignals, CloseStep, Goto, Latched
  <2>2. host.closed /\ ~host.pid /\ host.terminal # "lent" /\ lease.lent
    BY <2>1
  <2>3. QED
    BY <2>1, <2>2
<1>7. CASE RestoreSignals
  <2>1. /\ pc = "restore signals" /\ UNCHANGED <<state, ret, host, worker>>
        /\ pc' = "drop lease" /\ lease'.lent = lease.lent
    BY ONLY <1>7, CancelInv DEF RestoreSignals, CloseStep, Goto, CancelInv, LeaseType
  <2>2. host.closed /\ ~host.pid /\ host.terminal # "lent" /\ lease.lent
    BY <2>1
  <2>3. QED
    BY <2>1, <2>2
<1>8. CASE DropLease
  <2>1. /\ pc = "drop lease" /\ UNCHANGED <<state, ret, host, worker>>
        /\ pc' = "closed" /\ ~lease'.lent
    BY ONLY <1>8, CancelInv DEF DropLease, CloseStep, Goto, Latched, CancelInv, LeaseType
  <2>2. host.closed /\ ~host.pid /\ host.terminal # "lent"
    BY <2>1
  <2>3. QED
    BY <2>1, <2>2
<1>9. CASE Closed
  BY <1>9 DEF Closed, ReportInv
<1>10. QED
  BY <1>1, <1>2, <1>3, <1>4, <1>5, <1>6, <1>7, <1>8, <1>9 DEF Closing

\* The steps of a call keep the account of failed cleanups.
LEMMA ReportCalling ==
  ASSUME CancelInv, StateOK, HostOK, ChunkOK, WorkerOK, OwnerInv, ReportInv, Calling
  PROVE  ReportInv'
<1> USE Poll DEF CancelInv, ReportInv, LeaseType, StateOK, ChunkOK, StateType, ChunkType, reports,
         Live, Cancelled
<1>1. CASE AdmissionFails
  <2>1. UNCHANGED <<failures, diagnostics>> /\ lease'.lent = lease.lent /\ pc = "admission"
    BY <1>1, Poll DEF AdmissionFails
  <2>2. PICK result : Return(result)
    BY <1>1 DEF AdmissionFails
  <2>3. /\ x' = NoChunk /\ state'.cleanup_error = state.cleanup_error
        /\ (pc' = "idle" /\ ret' = ret) \/ (pc' = "close" /\ ret' = "return")
    BY <2>2, ReturnEffect
  <2>4. ~x'.cleanup
    BY <2>3 DEF NoChunk
  <2>5. QED
    BY <2>1, <2>3, <2>4
<1>2. CASE Admit
  BY <1>2 DEF Admit
<1>3. CASE CallSucceeds
  BY <1>3 DEF CallSucceeds, Return
<1>4. CASE CandidatesExhausted
  BY <1>4 DEF CandidatesExhausted, Return
<1>5. CASE ChunkRefused
  BY <1>5 DEF ChunkRefused, ChunkDue, Return
<1>6. CASE StartChunk
  BY <1>6 DEF StartChunk, ChunkDue, NoChunk
<1>7. CASE Settle
  <2>1. state'.cleanup_error <=> state.cleanup_error \/ x.cleanup
    BY <1>7 DEF Settle, Settled
  <2>2. x'.cleanup = x.cleanup /\ pc = "settle" /\ pc' \in {"failed", "result"}
        /\ UNCHANGED <<ret, reports>>
    BY <1>7 DEF Settle
  <2>3. lease'.lent = lease.lent
    BY <1>7 DEF Settle
  <2>4. failures' = failures /\ diagnostics' = diagnostics
    BY <2>2
  <2>5. CASE x.cleanup
    <3>1. failures = diagnostics + 1 /\ ~lease.lent /\ ret # "done"
      BY <2>2, <2>5
    <3>2. QED
      BY <2>1, <2>2, <2>3, <2>4, <3>1
  <2>6. CASE ~x.cleanup
    BY <2>1, <2>2, <2>3, <2>4, <2>6
  <2>7. QED
    BY <2>5, <2>6
<1>8. CASE RetryChunk
  BY <1>8 DEF RetryChunk
<1>9. CASE ChunkFails
  <2>1. UNCHANGED <<failures, diagnostics, lease>> /\ pc \in {"failed", "result"}
    BY <1>9 DEF ChunkFails
  <2>2. PICK result : Return(result)
    BY <1>9 DEF ChunkFails
  <2>3. /\ x' = NoChunk /\ state'.cleanup_error = state.cleanup_error
        /\ (pc' = "idle" /\ ret' = ret) \/ (pc' = "close" /\ ret' = "return")
    BY <2>2, ReturnEffect
  <2>4. ~x'.cleanup
    BY <2>3 DEF NoChunk
  <2>5. QED
    BY <2>1, <2>3, <2>4
<1>10. CASE ChunkSucceeds
  BY <1>10, SucceedsEffect, ReturnEffect
<1>11. QED
  BY <1>1, <1>2, <1>3, <1>4, <1>5, <1>6, <1>7, <1>8, <1>9, <1>10 DEF Calling

\* The steps of a transfer keep it.
LEMMA ReportTransferring ==
  ASSUME CancelInv, StateOK, HostOK, ChunkOK, WorkerOK, OwnerInv, ReportInv, Transferring
  PROVE  ReportInv'
<1> USE Poll DEF CancelInv, ReportInv, LeaseType, StateOK, ChunkOK, StateType, ChunkType, reports,
         Live, Cancelled
<1>1. CASE HostRefuses
  BY <1>1 DEF HostRefuses
<1>2. CASE ReuseWorker
  BY <1>2 DEF ReuseWorker
<1>3. CASE Spawn
  BY <1>3 DEF Spawn
<1>4. CASE SpawnFails
  BY <1>4 DEF SpawnFails, Fail, FailCancelled
<1>5. CASE Bind
  BY <1>5 DEF Bind, Send, SendFails
<1>6. CASE SendRequest
  BY <1>6 DEF SendRequest, Send, NextRequest, Attempted
<1>7. CASE RequestFails
  BY <1>7 DEF RequestFails, SendFails, NextRequest, Attempted
<1>8. CASE RequestStale
  BY <1>8 DEF RequestStale, Fail
<1>9. CASE SendPayload
  BY <1>9 DEF SendPayload, Send, SendFails
<1>10. CASE ReceiveFails
  BY <1>10 DEF ReceiveFails, Receiving, Fail, FailCancelled
<1>11. CASE ReceiveRecord
  BY <1>11, HandlerOf DEF ReceiveRecord, Receiving
<1>12. CASE ReceiveEmpty
  BY <1>12, ReapingOf DEF ReceiveEmpty, Receiving
<1>13. CASE ReapPeer
  BY <1>13, ReapingOf DEF ReapPeer, Reaped
<1>14. CASE RecordCancelled
  BY <1>14 DEF RecordCancelled, Fail, FailCancelled
<1>15. CASE Bound
  BY <1>15 DEF Bound, Handled, Fail
<1>16. CASE StreamReplied
  BY <1>16 DEF StreamReplied, Handled, AwaitBody, Fail, Confirmed
<1>17. CASE FillReplied
  BY <1>17 DEF FillReplied, Handled, AwaitBody, Fail
<1>18. CASE Received
  BY <1>18 DEF Received, Handled
<1>19. CASE Acknowledge
  BY <1>19 DEF Acknowledge, Send, SendFails
<1>20. CASE Acknowledged
  BY <1>20 DEF Acknowledged, Handled, Fail, FailCancelled
<1>21. QED
  BY <1>1, <1>2, <1>3, <1>4, <1>5, <1>6, <1>7, <1>8, <1>9, <1>10, <1>11, <1>12, <1>13, <1>14,
     <1>15, <1>16, <1>17, <1>18, <1>19, <1>20 DEF Transferring

\* The steps of close keep it: a failure of cleanup is counted, and kept for one report.
LEMMA ReportClosing ==
  ASSUME CancelInv, StateOK, HostOK, ChunkOK, WorkerOK, OwnerInv, ReportInv, Closing
  PROVE  ReportInv'
<1> USE DEF CancelInv, ReportInv, LeaseType, StateOK, ChunkOK, StateType, ChunkType, reports,
         OwnerInv, HostType
<1>1. CASE CloseSocket
  BY <1>1 DEF CloseSocket, CloseStep, Goto
<1>2. CASE Terminate
  BY <1>2 DEF Terminate, CloseStep, Goto, Reaped
<1>3. CASE Grace
  BY <1>3 DEF Grace, CloseStep, Goto, Reaped
<1>4. CASE Wait
  BY <1>4 DEF Wait, CloseStep, Goto, Reaped
<1>5. CASE RestoreTerminal
  BY <1>5 DEF RestoreTerminal, CloseStep, Goto
<1>6. CASE PollSignals
  BY <1>6 DEF PollSignals, CloseStep, Goto, Latched
<1>7. CASE RestoreSignals
  BY <1>7 DEF RestoreSignals, CloseStep, Goto
<1>8. CASE DropLease
  BY <1>8 DEF DropLease, CloseStep, Goto, Latched
<1>9. CASE Closed
  <2>1. CASE ret = "return"
    BY <1>9, <2>1 DEF Closed
  <2>2. CASE ret = "settle"
    BY <1>9, <2>2 DEF Closed
  <2>3. CASE ret = "done"
    BY <1>9, <2>3 DEF Closed
  <2>4. QED
    BY <1>9, <2>1, <2>2, <2>3 DEF Closed
<1>10. QED
  BY <1>1, <1>2, <1>3, <1>4, <1>5, <1>6, <1>7, <1>8, <1>9 DEF Closing

\* The assumptions on the constants.
LEMMA Constants ==
  /\ MaxHost \in Nat /\ Candidates \in Nat /\ Input \in Nat
  /\ Chunk \in Nat \ {0} /\ Word \in Nat \ {0}
  BY HostAssumption

\* A call leaves the worker, the socket and the environment alone.
LEMMA CallingFrame ==
  ASSUME Calling
  PROVE  UNCHANGED <<host, down, up, worker, moved, out, input, taken, failures, diagnostics>>
  BY DEF Calling, AdmissionFails, Admit, CallSucceeds, CandidatesExhausted, ChunkRefused,
     StartChunk,
     Settle, RetryChunk, ChunkFails, ChunkSucceeds, channels, environment, reports

\* A transfer leaves the account, the call and the environment alone.
LEMMA TransferringFrame ==
  ASSUME Transferring
  PROVE  UNCHANGED <<state, call, outcome, moved, out, input, taken, failures, diagnostics>>
  BY DEF Transferring, HostRefuses, ReuseWorker, Spawn, SpawnFails, Bind, SendRequest,
     RequestFails,
     RequestStale, SendPayload, ReceiveFails, ReceiveRecord, ReceiveEmpty, ReapPeer,
     RecordCancelled,
     Bound, StreamReplied, FillReplied, Received, Acknowledge, Acknowledged, Send, SendFails,
     Handled,
     environment, reports

\* Close leaves the call, its outcome and the environment alone.
LEMMA ClosingFrame ==
  ASSUME Closing
  PROVE  UNCHANGED <<ret, call, outcome, moved, out, input, taken>>
  BY DEF Closing, CloseSocket, Terminate, Grace, Wait, RestoreTerminal, PollSignals,
     RestoreSignals,
     DropLease, Closed, CloseStep, environment

\* Every call belongs to a role.
LEMMA RoleIn == CallOK => Role \in Roles
  BY DEF Role, RoleOf, Roles

\* The empty frame, chunk, worker and progress have their types.
LEMMA NothingType ==
  NoFrame \in FrameType /\ NoChunk \in ChunkType /\ NoWorker \in WorkerType
    /\ NoProgress \in ProgressType
<1>1. NoFrame \in FrameType /\ NoProgress \in ProgressType
  BY DEF NoFrame, FrameType, FrameTags, Requests, Errors, NoProgress, ProgressType
<1>2. QED
  BY <1>1 DEF NoChunk, ChunkType, ChunkErrors, NoWorker, WorkerType

\* A call that returns books its progress on its role, and on no other.
LEMMA ReturnType ==
  ASSUME StateOK, CallOK, NEW result, Return(result)
  PROVE  /\ StateOK' /\ ChunkOK'
         /\ \A r \in Roles \ {Role} : state'.roles[r] = state.roles[r]
         /\ state'.roles[Role].confirmed = state.roles[Role].confirmed + state.progress.confirmed
         /\ state'.roles[Role].uncertain = state.roles[Role].uncertain + state.progress.uncertain
<1> USE RoleIn DEF StateOK, StateType, ProgressType
<1>1. ChunkOK'
  BY NothingType DEF Return, ChunkOK
<1>2. PICK held \in BOOLEAN : state' = [state EXCEPT
                  !.progress.admitted = state.progress.confirmed + state.progress.uncertain,
                  !.roles[Role].confirmed = @ + state.progress.confirmed,
                  !.roles[Role].uncertain = @ + state.progress.uncertain,
                  !.held = held]
  BY DEF Return
<1>3. state'.roles = [state.roles EXCEPT ![Role] =
          [confirmed |-> state.roles[Role].confirmed + state.progress.confirmed,
           uncertain |-> state.roles[Role].uncertain + state.progress.uncertain]]
  BY <1>2
<1>4. StateOK'
  <2>1. state'.progress = [state.progress EXCEPT !.admitted = state.progress.confirmed + state.progress.uncertain]
    BY <1>2
  <2>2. state'.progress \in ProgressType
    BY <2>1
  <2>3. state'.roles \in [Roles -> [confirmed : Nat, uncertain : Nat]]
    BY <1>3
  <2>4. state'.held = held /\ state'.consumed = state.consumed
        /\ state'.cleanup_error = state.cleanup_error
    BY <1>2
  <2>5. state' \in [held : BOOLEAN, consumed : Int, progress : {state'.progress},
                    roles : {state'.roles}, cleanup_error : BOOLEAN]
    BY <1>2, <2>4
  <2>6. QED
    BY <2>2, <2>3, <2>5
<1>5. QED
  BY <1>1, <1>3, <1>4

\* What a call is admitted with is a number of bytes.
LEMMA AdmittedIn ==
  ASSUME StateOK, CallOK
  PROVE  Admitted(call) \in Nat
<1>1. RequestedBytes(call) \in Nat
  BY Constants DEF RequestedBytes, CallOK, CallStateType
<1>2. Remaining \in Nat
  BY Constants DEF Remaining, StateOK, StateType
<1>3. (Remaining \div Word) * Word \in Nat
  BY <1>2, Constants
<1>4. QED
  BY <1>1, <1>3 DEF Admitted, Smaller

\* A chunk is not empty and does not reach beyond the call.
LEMMA ChunkLengthIn ==
  ASSUME CallOK, ChunkInv, pc = "chunk", ~CallDone
  PROVE  /\ ChunkLength \in Nat /\ ChunkLength > 0
         /\ call.kind # "int" => call.done + ChunkLength <= Extent
<1> USE Constants DEF CallOK, CallStateType, ChunkInv, Extent, CallDone, Total, Smaller
<1>1. CASE call.kind = "int"
  BY <1>1 DEF ChunkLength
<1>2. CASE call.kind = "bytes"
  BY <1>2 DEF ChunkLength
<1>3. CASE call.kind = "read"
  BY <1>3 DEF ChunkLength
<1>4. CASE call.kind = "write"
  BY <1>4 DEF ChunkLength
<1>5. QED BY <1>1, <1>2, <1>3, <1>4

\* A call keeps the type of the session's state.
LEMMA StateCalling ==
  ASSUME StateOK, HostOK, ChunkOK, CallOK, WorkerOK, ChunkInv, UpInv, Calling
  PROVE  StateOK'
<1>1. CASE AdmissionFails
  BY <1>1, ReturnType DEF AdmissionFails
<1>2. CASE Admit
  BY <1>2, AdmittedIn DEF Admit, StateOK, StateType, NoProgress, ProgressType
<1>3. CASE CallSucceeds
  BY <1>3, ReturnType DEF CallSucceeds
<1>4. CASE CandidatesExhausted
  BY <1>4, ReturnType DEF CandidatesExhausted
<1>5. CASE ChunkRefused
  BY <1>5, ReturnType DEF ChunkRefused
<1>6. CASE StartChunk
  <2>1. ChunkLength \in Nat
    BY <1>6, ChunkLengthIn DEF StartChunk, ChunkDue
  <2> DEFINE P == [state.progress EXCEPT !.uncertain = ChunkLength]
             n == state.consumed + ChunkLength
  <2>2. state' = state \/ state' = [state EXCEPT !.progress = P, !.consumed = n]
    BY <1>6 DEF StartChunk
  <2>3. P \in ProgressType /\ n \in Int
    BY <2>1 DEF StateOK, StateType, ProgressType
  <2> HIDE DEF P, n
  <2>4. CASE state' = [state EXCEPT !.progress = P, !.consumed = n]
    BY <2>3, <2>4 DEF StateOK, StateType
  <2>5. QED
    BY <2>2, <2>4 DEF StateOK
<1>7. CASE Settle
  <2> DEFINE e == state.progress.eof \/ x.eof
             c == state.progress.confirmed + x.confirmed
             P == [state.progress EXCEPT !.confirmed = c, !.uncertain = x.uncertain, !.eof = e]
             n == state.consumed + x.confirmed + x.uncertain - (IF IsEntropy THEN x.length ELSE 0)
  <2>1. state' = [state EXCEPT !.progress = P, !.consumed = n, !.cleanup_error = @ \/ x.cleanup]
    BY <1>7 DEF Settle, Settled
  <2>2. e \in BOOLEAN
    OBVIOUS
  <2>3. c \in Nat /\ n \in Int /\ x.uncertain \in Nat /\ x.cleanup \in BOOLEAN
    BY DEF StateOK, StateType, ProgressType, ChunkOK, ChunkType
  <2> HIDE DEF e, c, n
  <2>4. P \in ProgressType
    BY <2>2, <2>3 DEF StateOK, StateType, ProgressType
  <2> HIDE DEF P
  <2>5. QED
    BY <2>1, <2>3, <2>4 DEF StateOK, StateType
<1>8. CASE RetryChunk
  BY <1>8 DEF RetryChunk, StateOK
<1>9. CASE ChunkFails
  BY <1>9, ReturnType DEF ChunkFails
<1>10. CASE ChunkSucceeds
  BY <1>10, ReturnType, SucceedsEffect DEF StateOK
<1>11. QED
  BY <1>1, <1>2, <1>3, <1>4, <1>5, <1>6, <1>7, <1>8, <1>9, <1>10 DEF Calling

\* A call keeps the type of the chunk.
LEMMA ChunkCalling ==
  ASSUME StateOK, HostOK, ChunkOK, CallOK, WorkerOK, ChunkInv, UpInv, Calling
  PROVE  ChunkOK'
<1>1. CASE AdmissionFails
  BY <1>1, ReturnType DEF AdmissionFails
<1>2. CASE Admit
  BY <1>2 DEF Admit, ChunkOK
<1>3. CASE CallSucceeds
  BY <1>3, ReturnType DEF CallSucceeds
<1>4. CASE CandidatesExhausted
  BY <1>4, ReturnType DEF CandidatesExhausted
<1>5. CASE ChunkRefused
  BY <1>5, ReturnType DEF ChunkRefused
<1>6. CASE StartChunk
  BY <1>6, ChunkLengthIn, NothingType DEF StartChunk, ChunkDue, ChunkOK, ChunkType
<1>7. CASE Settle
  BY <1>7 DEF Settle, ChunkOK, ChunkType, ChunkErrors
<1>8. CASE RetryChunk
  BY <1>8 DEF RetryChunk, ChunkOK
<1>9. CASE ChunkFails
  BY <1>9, ReturnType DEF ChunkFails
<1>10. CASE ChunkSucceeds
  BY <1>10, ReturnType, SucceedsEffect DEF ChunkOK
<1>11. QED
  BY <1>1, <1>2, <1>3, <1>4, <1>5, <1>6, <1>7, <1>8, <1>9, <1>10 DEF Calling

\* A call keeps the type of the call.
LEMMA CallCalling ==
  ASSUME Typed, Calling
  PROVE  CallOK'
<1> USE DEF Typed, CallOK
<1>1. CASE StartChunk
  BY <1>1 DEF StartChunk, CallStateType
<1>2. CASE ChunkSucceeds
  BY <1>2, SucceedsEffect DEF Advanced, CallStateType, ChunkOK, ChunkType
<1>3. CASE ~StartChunk /\ ~ChunkSucceeds
  BY <1>3 DEF Calling, AdmissionFails, Admit, CallSucceeds, CandidatesExhausted, ChunkRefused,
     Settle, RetryChunk, ChunkFails
<1>4. QED BY <1>1, <1>2, <1>3

\* A frame of known tag has its type.
LEMMA FrameIn ==
  ASSUME NEW tag \in FrameTags, NEW r \in Nat, NEW n \in Nat, NEW o \in Nat
  PROVE  Frame(tag, r, n, o) \in FrameType
  BY DEF Frame, FrameType

\* Queues of frames stay queues of frames.
LEMMA Queue ==
  ASSUME NEW q \in Seq(FrameType)
  PROVE  /\ \A f \in FrameType : Append(q, f) \in Seq(FrameType)
         /\ q # <<>> => Head(q) \in FrameType /\ Tail(q) \in Seq(FrameType)
  OBVIOUS

\* Every answer to a stream request that is not progress is an error the supervisor knows.
LEMMA ErrorKnown ==
  ASSUME UpInv, pc = "replied", ~IsEntropy, x.frame.tag # "PROGRESS"
  PROVE  ErrorOf[x.frame.tag] \in {"interrupted", "would_block", "broken_pipe", "io"}
<1>1. x.frame.tag \in Errors
  BY DEF UpInv, ReplyTo
<1>2. /\ ErrorOf["INTERRUPTED"] = "interrupted" /\ ErrorOf["WOULD_BLOCK"] = "would_block"
      /\ ErrorOf["BROKEN_PIPE"] = "broken_pipe" /\ ErrorOf["IO_FAILED"] = "io"
  BY DEF ErrorOf
<1>3. QED
  BY <1>1, <1>2 DEF Errors

\* A transfer keeps the type of the chunk.
LEMMA ChunkTransferring ==
  ASSUME StateOK, HostOK, ChunkOK, CallOK, WorkerOK, QueuesOK, EnvironmentOK, ChunkInv, UpInv,
         Transferring
  PROVE  ChunkOK'
<1> USE DEF ChunkOK, ChunkType, ChunkErrors
<1>1. CASE HostRefuses
  BY <1>1 DEF HostRefuses
<1>2. CASE ReuseWorker
  BY <1>2 DEF ReuseWorker
<1>3. CASE Spawn
  BY <1>3 DEF Spawn
<1>4. CASE SpawnFails
  BY <1>4 DEF SpawnFails, Fail, FailCancelled
<1>5. CASE Bind
  BY <1>5 DEF Bind, Send, SendFails
<1>6. CASE SendRequest
  BY <1>6 DEF SendRequest, Send, NextRequest, Attempted
<1>7. CASE RequestFails
  BY <1>7 DEF RequestFails, SendFails, NextRequest, Attempted
<1>8. CASE RequestStale
  BY <1>8 DEF RequestStale, Fail
<1>9. CASE SendPayload
  BY <1>9 DEF SendPayload, Send, SendFails
<1>10. CASE ReceiveFails
  BY <1>10 DEF ReceiveFails, Receiving, Fail, FailCancelled
<1>11. CASE ReceiveRecord
  BY <1>11, HandlerOf, Queue DEF ReceiveRecord, Receiving, QueuesOK
<1>12. CASE ReceiveEmpty
  BY <1>12, ReapingOf DEF ReceiveEmpty, Receiving
<1>13. CASE ReapPeer
  BY <1>13, ReapingOf DEF ReapPeer, Reaped
<1>14. CASE RecordCancelled
  BY <1>14 DEF RecordCancelled, Fail, FailCancelled
<1>15. CASE Bound
  BY <1>15, NothingType DEF Bound, Handled, Fail
<1>16. CASE StreamReplied
  <2>1. Confirmed(x.frame) \in ChunkType
    <3>1. x.frame.bytes \in Nat
      BY DEF FrameType
    <3>2. QED
      BY <3>1, NothingType DEF Confirmed
  <2>2. x' \in {Confirmed(x.frame), [Confirmed(x.frame) EXCEPT !.error = "protocol"],
        [x EXCEPT !.error = "protocol"]}
        \/ (x.frame.tag # "PROGRESS"
           /\ x' = [Confirmed(x.frame) EXCEPT !.error = ErrorOf[x.frame.tag]])
    BY <1>16 DEF StreamReplied, Handled, AwaitBody, Fail
  <2>3. x.frame.tag # "PROGRESS" => ErrorOf[x.frame.tag] \in ChunkErrors
    BY <1>16, ErrorKnown DEF StreamReplied, Handled
  <2> HIDE DEF ChunkErrors
  <2>4. QED
    BY <2>1, <2>2, <2>3 DEF ChunkErrors
<1>17. CASE FillReplied
  BY <1>17 DEF FillReplied, Handled, AwaitBody, Fail
<1>18. CASE Received
  BY <1>18, NothingType DEF Received, Handled
<1>19. CASE Acknowledge
  BY <1>19 DEF Acknowledge, Send, SendFails
<1>20. CASE Acknowledged
  BY <1>20 DEF Acknowledged, Handled, Fail, FailCancelled
<1>21. QED
  BY <1>1, <1>2, <1>3, <1>4, <1>5, <1>6, <1>7, <1>8, <1>9, <1>10, <1>11, <1>12, <1>13, <1>14,
     <1>15, <1>16, <1>17, <1>18, <1>19, <1>20 DEF Transferring

\* A transfer keeps the type of the host.
LEMMA HostTransferring ==
  ASSUME StateOK, HostOK, ChunkOK, CallOK, WorkerOK, QueuesOK, EnvironmentOK, ChunkInv, UpInv,
         Transferring
  PROVE  HostOK'
<1> USE DEF HostOK, HostType
<1>1. CASE HostRefuses
  BY <1>1 DEF HostRefuses
<1>2. CASE ReuseWorker
  BY <1>2 DEF ReuseWorker
<1>3. CASE Spawn
  BY <1>3 DEF Spawn
<1>4. CASE SpawnFails
  BY <1>4 DEF SpawnFails, Fail, FailCancelled
<1>5. CASE Bind
  BY <1>5 DEF Bind, Send, SendFails
<1>6. CASE SendRequest
  BY <1>6 DEF SendRequest, Send, NextRequest
<1>7. CASE RequestFails
  BY <1>7 DEF RequestFails, SendFails, NextRequest
<1>8. CASE RequestStale
  BY <1>8 DEF RequestStale, Fail
<1>9. CASE SendPayload
  BY <1>9 DEF SendPayload, Send, SendFails
<1>10. CASE ReceiveFails
  BY <1>10 DEF ReceiveFails, Receiving, Fail, FailCancelled
<1>11. CASE ReceiveRecord
  BY <1>11, HandlerOf DEF ReceiveRecord, Receiving
<1>12. CASE ReceiveEmpty
  BY <1>12, ReapingOf DEF ReceiveEmpty, Receiving
<1>13. CASE ReapPeer
  BY <1>13, ReapingOf DEF ReapPeer, Reaped
<1>14. CASE RecordCancelled
  BY <1>14 DEF RecordCancelled, Fail, FailCancelled
<1>15. CASE Bound
  BY <1>15 DEF Bound, Handled, Fail
<1>16. CASE StreamReplied
  BY <1>16 DEF StreamReplied, Handled, AwaitBody, Fail
<1>17. CASE FillReplied
  BY <1>17 DEF FillReplied, Handled, AwaitBody, Fail
<1>18. CASE Received
  BY <1>18 DEF Received, Handled
<1>19. CASE Acknowledge
  BY <1>19 DEF Acknowledge, Send, SendFails
<1>20. CASE Acknowledged
  BY <1>20 DEF Acknowledged, Handled, Fail, FailCancelled
<1>21. QED
  BY <1>1, <1>2, <1>3, <1>4, <1>5, <1>6, <1>7, <1>8, <1>9, <1>10, <1>11, <1>12, <1>13, <1>14,
     <1>15, <1>16, <1>17, <1>18, <1>19, <1>20 DEF Transferring

\* A transfer keeps the type of the worker.
LEMMA WorkerTransferring ==
  ASSUME StateOK, HostOK, ChunkOK, CallOK, WorkerOK, QueuesOK, EnvironmentOK, ChunkInv, UpInv,
         Transferring
  PROVE  WorkerOK'
<1> USE DEF WorkerOK, WorkerType
<1>1. CASE HostRefuses
  BY <1>1 DEF HostRefuses
<1>2. CASE ReuseWorker
  BY <1>2 DEF ReuseWorker
<1>3. CASE Spawn
  BY <1>3, NothingType DEF Spawn
<1>4. CASE SpawnFails
  BY <1>4 DEF SpawnFails, Fail, FailCancelled
<1>5. CASE Bind
  BY <1>5 DEF Bind, Send, SendFails
<1>6. CASE SendRequest
  BY <1>6 DEF SendRequest, Send, NextRequest
<1>7. CASE RequestFails
  BY <1>7 DEF RequestFails, SendFails, NextRequest
<1>8. CASE RequestStale
  BY <1>8 DEF RequestStale, Fail
<1>9. CASE SendPayload
  BY <1>9 DEF SendPayload, Send, SendFails
<1>10. CASE ReceiveFails
  BY <1>10 DEF ReceiveFails, Receiving, Fail, FailCancelled
<1>11. CASE ReceiveRecord
  BY <1>11, HandlerOf DEF ReceiveRecord, Receiving
<1>12. CASE ReceiveEmpty
  BY <1>12, ReapingOf DEF ReceiveEmpty, Receiving
<1>13. CASE ReapPeer
  BY <1>13, ReapingOf, NothingType DEF ReapPeer, Reaped
<1>14. CASE RecordCancelled
  BY <1>14 DEF RecordCancelled, Fail, FailCancelled
<1>15. CASE Bound
  BY <1>15 DEF Bound, Handled, Fail
<1>16. CASE StreamReplied
  BY <1>16 DEF StreamReplied, Handled, AwaitBody, Fail
<1>17. CASE FillReplied
  BY <1>17 DEF FillReplied, Handled, AwaitBody, Fail
<1>18. CASE Received
  BY <1>18 DEF Received, Handled
<1>19. CASE Acknowledge
  BY <1>19 DEF Acknowledge, Send, SendFails
<1>20. CASE Acknowledged
  BY <1>20 DEF Acknowledged, Handled, Fail, FailCancelled
<1>21. QED
  BY <1>1, <1>2, <1>3, <1>4, <1>5, <1>6, <1>7, <1>8, <1>9, <1>10, <1>11, <1>12, <1>13, <1>14,
     <1>15, <1>16, <1>17, <1>18, <1>19, <1>20 DEF Transferring

\* A transfer keeps the type of the socket's queues.
LEMMA QueuesTransferring ==
  ASSUME StateOK, HostOK, ChunkOK, CallOK, WorkerOK, QueuesOK, EnvironmentOK, ChunkInv, UpInv,
         Transferring
  PROVE  QueuesOK'
<1> USE DEF QueuesOK, channels
<1>1. CASE HostRefuses
  BY <1>1 DEF HostRefuses
<1>2. CASE ReuseWorker
  BY <1>2 DEF ReuseWorker
<1>3. CASE Spawn
  BY <1>3 DEF Spawn
<1>4. CASE SpawnFails
  BY <1>4 DEF SpawnFails, Fail, FailCancelled
<1>5. CASE Bind
  BY <1>5, FrameIn, Queue DEF Bind, Send, SendFails, FrameTags
<1>6. CASE SendRequest
  <2>1. RequestTag \in FrameTags
    BY DEF RequestTag, FrameTags, Requests
  <2>2. Frame(RequestTag, host.request + 1, x.length, call.done) \in FrameType
    BY <2>1, FrameIn DEF HostOK, HostType, ChunkOK, ChunkType, CallOK, CallStateType
  <2>3. QED
    BY <1>6, <2>2, Queue DEF SendRequest, Send, NextRequest
<1>7. CASE RequestFails
  BY <1>7 DEF RequestFails, SendFails, NextRequest
<1>8. CASE RequestStale
  BY <1>8 DEF RequestStale, Fail
<1>9. CASE SendPayload
  <2>1. Frame("PAYLOAD", host.request, x.length, call.done) \in FrameType
    BY FrameIn DEF FrameTags, HostOK, HostType, ChunkOK, ChunkType, CallOK, CallStateType
  <2>2. QED
    BY <1>9, <2>1, Queue DEF SendPayload, Send, SendFails
<1>10. CASE ReceiveFails
  BY <1>10 DEF ReceiveFails, Receiving, Fail, FailCancelled
<1>11. CASE ReceiveRecord
  BY <1>11, HandlerOf, Queue DEF ReceiveRecord, Receiving
<1>12. CASE ReceiveEmpty
  BY <1>12, ReapingOf DEF ReceiveEmpty, Receiving
<1>13. CASE ReapPeer
  BY <1>13, ReapingOf DEF ReapPeer, Reaped
<1>14. CASE RecordCancelled
  BY <1>14 DEF RecordCancelled, Fail, FailCancelled
<1>15. CASE Bound
  BY <1>15 DEF Bound, Handled, Fail
<1>16. CASE StreamReplied
  BY <1>16 DEF StreamReplied, Handled, AwaitBody, Fail
<1>17. CASE FillReplied
  BY <1>17 DEF FillReplied, Handled, AwaitBody, Fail
<1>18. CASE Received
  BY <1>18 DEF Received, Handled
<1>19. CASE Acknowledge
  <2>1. Frame("ACK", host.request, 0, 0) \in FrameType
    BY FrameIn DEF FrameTags, HostOK, HostType
  <2>2. QED
    BY <1>19, <2>1, Queue DEF Acknowledge, Send, SendFails
<1>20. CASE Acknowledged
  BY <1>20 DEF Acknowledged, Handled, Fail, FailCancelled
<1>21. QED
  BY <1>1, <1>2, <1>3, <1>4, <1>5, <1>6, <1>7, <1>8, <1>9, <1>10, <1>11, <1>12, <1>13, <1>14,
     <1>15, <1>16, <1>17, <1>18, <1>19, <1>20 DEF Transferring

\* Close keeps the type of the session's state.
LEMMA StateClosing ==
  ASSUME StateOK, HostOK, ChunkOK, CallOK, WorkerOK, QueuesOK, EnvironmentOK, ChunkInv, UpInv,
         Closing
  PROVE  StateOK'
<1> USE DEF StateOK, StateType
<1>1. CASE CloseSocket \/ Terminate \/ Grace \/ Wait \/ RestoreTerminal \/ PollSignals
           \/ RestoreSignals \/ DropLease
  BY <1>1 DEF CloseSocket, CloseStep, Goto, Terminate, Reaped, Grace, Wait, RestoreTerminal,
     PollSignals, Latched, RestoreSignals, DropLease
<1>2. CASE Closed
  BY <1>2 DEF Closed, ChunkOK, ChunkType
<1>3. QED
  BY <1>1, <1>2 DEF Closing

\* Close keeps the type of the chunk.
LEMMA ChunkClosing ==
  ASSUME StateOK, HostOK, ChunkOK, CallOK, WorkerOK, QueuesOK, EnvironmentOK, ChunkInv, UpInv,
         Closing
  PROVE  ChunkOK'
<1> USE DEF ChunkOK, ChunkType
<1>1. CASE CloseSocket
  BY <1>1 DEF CloseSocket, CloseStep, Goto
<1>2. CASE Terminate
  BY <1>2 DEF Terminate, CloseStep, Goto, Reaped
<1>3. CASE Grace
  BY <1>3 DEF Grace, CloseStep, Goto, Reaped
<1>4. CASE Wait
  BY <1>4 DEF Wait, CloseStep, Goto, Reaped
<1>5. CASE RestoreTerminal
  BY <1>5 DEF RestoreTerminal, CloseStep, Goto
<1>6. CASE PollSignals
  BY <1>6 DEF PollSignals, CloseStep, Goto, Latched
<1>7. CASE RestoreSignals
  BY <1>7 DEF RestoreSignals, CloseStep, Goto
<1>8. CASE DropLease
  BY <1>8 DEF DropLease, CloseStep, Goto, Latched
<1>9. CASE Closed
  BY <1>9 DEF Closed
<1>10. QED
  BY <1>1, <1>2, <1>3, <1>4, <1>5, <1>6, <1>7, <1>8, <1>9 DEF Closing

\* Close keeps the type of the host.
LEMMA HostClosing ==
  ASSUME StateOK, HostOK, ChunkOK, CallOK, WorkerOK, QueuesOK, EnvironmentOK, ChunkInv, UpInv,
         Closing
  PROVE  HostOK'
<1> USE DEF HostOK, HostType
<1>1. CASE CloseSocket
  BY <1>1 DEF CloseSocket, CloseStep, Goto
<1>2. CASE Terminate
  BY <1>2 DEF Terminate, CloseStep, Goto, Reaped
<1>3. CASE Grace
  BY <1>3 DEF Grace, CloseStep, Goto, Reaped
<1>4. CASE Wait
  BY <1>4 DEF Wait, CloseStep, Goto, Reaped
<1>5. CASE RestoreTerminal
  BY <1>5 DEF RestoreTerminal, CloseStep, Goto
<1>6. CASE PollSignals
  BY <1>6 DEF PollSignals, CloseStep, Goto, Latched
<1>7. CASE RestoreSignals
  BY <1>7 DEF RestoreSignals, CloseStep, Goto
<1>8. CASE DropLease
  BY <1>8 DEF DropLease, CloseStep, Goto, Latched
<1>9. CASE Closed
  BY <1>9 DEF Closed
<1>10. QED
  BY <1>1, <1>2, <1>3, <1>4, <1>5, <1>6, <1>7, <1>8, <1>9 DEF Closing

\* Close keeps the type of the worker.
LEMMA WorkerClosing ==
  ASSUME StateOK, HostOK, ChunkOK, CallOK, WorkerOK, QueuesOK, EnvironmentOK, ChunkInv, UpInv,
         Closing
  PROVE  WorkerOK'
<1> USE NothingType DEF WorkerOK, WorkerType
<1>1. CASE CloseSocket
  BY <1>1 DEF CloseSocket, CloseStep, Goto
<1>2. CASE Terminate
  BY <1>2 DEF Terminate, CloseStep, Goto, Reaped
<1>3. CASE Grace
  BY <1>3 DEF Grace, CloseStep, Goto, Reaped
<1>4. CASE Wait
  BY <1>4 DEF Wait, CloseStep, Goto, Reaped
<1>5. CASE RestoreTerminal
  BY <1>5 DEF RestoreTerminal, CloseStep, Goto
<1>6. CASE PollSignals
  BY <1>6 DEF PollSignals, CloseStep, Goto, Latched
<1>7. CASE RestoreSignals
  BY <1>7 DEF RestoreSignals, CloseStep, Goto
<1>8. CASE DropLease
  BY <1>8 DEF DropLease, CloseStep, Goto, Latched
<1>9. CASE Closed
  BY <1>9 DEF Closed
<1>10. QED
  BY <1>1, <1>2, <1>3, <1>4, <1>5, <1>6, <1>7, <1>8, <1>9 DEF Closing

\* Close keeps the type of the socket's queues.
LEMMA QueuesClosing ==
  ASSUME StateOK, HostOK, ChunkOK, CallOK, WorkerOK, QueuesOK, EnvironmentOK, ChunkInv, UpInv,
         Closing
  PROVE  QueuesOK'
<1> USE DEF QueuesOK, channels
<1>1. CASE CloseSocket
  BY <1>1 DEF CloseSocket, CloseStep, Goto
<1>2. CASE Terminate
  BY <1>2 DEF Terminate, CloseStep, Goto, Reaped
<1>3. CASE Grace
  BY <1>3 DEF Grace, CloseStep, Goto, Reaped
<1>4. CASE Wait
  BY <1>4 DEF Wait, CloseStep, Goto, Reaped
<1>5. CASE RestoreTerminal
  BY <1>5 DEF RestoreTerminal, CloseStep, Goto
<1>6. CASE PollSignals
  BY <1>6 DEF PollSignals, CloseStep, Goto, Latched
<1>7. CASE RestoreSignals
  BY <1>7 DEF RestoreSignals, CloseStep, Goto
<1>8. CASE DropLease
  BY <1>8 DEF DropLease, CloseStep, Goto, Latched
<1>9. CASE Closed
  BY <1>9 DEF Closed
<1>10. QED
  BY <1>1, <1>2, <1>3, <1>4, <1>5, <1>6, <1>7, <1>8, <1>9 DEF Closing

\* A worker that prepares an answer keeps its type.
LEMMA ReplyIn ==
  ASSUME WorkerOK, NEW tag \in FrameTags, NEW n \in Nat, Replies(tag, n)
  PROVE  WorkerOK'
<1>1. Frame(tag, worker.served, n, 0) \in FrameType
  BY FrameIn DEF WorkerOK, WorkerType
<1>2. QED
  BY <1>1 DEF Replies, WorkerOK, WorkerType

\* The worker's steps keep its type.
LEMMA WorkerPeer ==
  ASSUME StateOK, HostOK, ChunkOK, CallOK, WorkerOK, QueuesOK, EnvironmentOK, ChunkInv, UpInv,
         Peer
  PROVE  WorkerOK'
<1>1. CASE WorkerBinds
  BY <1>1 DEF WorkerBinds, WorkerStep, Take, WorkerOK, WorkerType
<1>2. CASE WorkerServes
  <2>1. Head(down) \in FrameType /\ Head(down).tag \in Requests
    BY <1>2, Queue DEF WorkerServes, Take, QueuesOK, Requests
  <2> DEFINE n == worker.served + 1
  <2>2. \/ worker' = [worker EXCEPT !.at = "zombie"]
        \/ \E at \in {"fill", "syscall", "payload"} :
               worker' = [worker EXCEPT !.served = n, !.job = Head(down), !.at = at]
    BY <1>2, <2>1 DEF WorkerServes, Requests
  <2>3. n \in Nat
    BY DEF WorkerOK, WorkerType
  <2> HIDE DEF n
  <2>4. QED
    BY <2>1, <2>2, <2>3 DEF WorkerOK, WorkerType
<1>3. CASE WorkerPayload
  BY <1>3 DEF WorkerPayload, WorkerStep, Take, WorkerOK, WorkerType
<1>4. CASE WorkerReads
  <2>1. \A n \in 0..Smaller(worker.job.bytes, input) : n \in Nat
    BY DEF Smaller, WorkerOK, WorkerType, FrameType, EnvironmentOK
  <2>2. "PROGRESS" \in FrameTags
    BY DEF FrameTags
  <2>3. QED
    BY <1>4, <2>1, <2>2, ReplyIn DEF WorkerReads
<1>5. CASE WorkerWrites
  <2>1. \A n \in 0..worker.job.bytes : n \in Nat
    OBVIOUS
  <2>2. "PROGRESS" \in FrameTags
    BY DEF FrameTags
  <2>3. QED
    BY <1>5, <2>1, <2>2, ReplyIn DEF WorkerWrites
<1>6. CASE WorkerErrs
  <2>1. {"INTERRUPTED", "IO_FAILED", "BROKEN_PIPE"} \subseteq FrameTags
    BY DEF FrameTags, Errors
  <2>2. CASE worker' = [worker EXCEPT !.at = "poll"]
    BY <2>2 DEF WorkerOK, WorkerType
  <2>3. QED
    BY <1>6, <2>1, <2>2, ReplyIn DEF WorkerErrs
<1>7. CASE WorkerPolls
  <2>1. "WOULD_BLOCK" \in FrameTags
    BY DEF FrameTags, Errors
  <2>2. QED
    BY <1>7, <2>1, ReplyIn DEF WorkerPolls
<1>8. CASE WorkerFills
  <2>1. {"DATA", "FAILED"} \subseteq FrameTags /\ worker.job.bytes \in Nat
    BY DEF FrameTags, WorkerOK, WorkerType, FrameType
  <2>2. QED
    BY <1>8, <2>1, ReplyIn DEF WorkerFills
<1>9. CASE WorkerReplies
  BY <1>9 DEF WorkerReplies, WorkerSends, WorkerStep, WorkerOK, WorkerType
<1>10. CASE WorkerBody
  BY <1>10 DEF WorkerBody, WorkerSends, WorkerStep, WorkerOK, WorkerType
<1>11. CASE WorkerAcknowledged
  BY <1>11, NothingType DEF WorkerAcknowledged, WorkerStep, Take, WorkerOK, WorkerType
<1>12. CASE WorkerDies
  BY <1>12, NothingType DEF WorkerDies, Exits, WorkerOK, WorkerType
<1>13. CASE WorkerTerminated
  BY <1>13, NothingType DEF WorkerTerminated, Exits, WorkerOK, WorkerType
<1>14. CASE WorkerKilled
  BY <1>14, NothingType DEF WorkerKilled, Exits, WorkerOK, WorkerType
<1>15. QED
  BY <1>1, <1>2, <1>3, <1>4, <1>5, <1>6, <1>7, <1>8, <1>9, <1>10, <1>11, <1>12, <1>13, <1>14
     DEF Peer, Worker

\* The worker's steps keep the type of the socket's queues.
LEMMA QueuesPeer ==
  ASSUME StateOK, HostOK, ChunkOK, CallOK, WorkerOK, QueuesOK, EnvironmentOK, ChunkInv, UpInv,
         Peer
  PROVE  QueuesOK'
<1> USE Queue DEF QueuesOK, channels
<1>1. CASE WorkerReads \/ WorkerWrites \/ WorkerErrs \/ WorkerPolls \/ WorkerFills \/ WorkerDies
           \/ WorkerTerminated \/ WorkerKilled
  BY <1>1 DEF WorkerReads, WorkerStep, Replies, WorkerWrites, WorkerErrs, WorkerPolls, WorkerFills,
     WorkerDies, Exits, WorkerTerminated, WorkerKilled
<1>2. CASE WorkerBinds
  <2>1. Frame("READY", 0, 0, 0) \in FrameType
    BY FrameIn DEF FrameTags
  <2>2. QED
    BY <1>2, <2>1 DEF WorkerBinds, WorkerStep, Take
<1>3. CASE WorkerServes
  BY <1>3 DEF WorkerServes, WorkerStep, Take
<1>4. CASE WorkerPayload
  BY <1>4 DEF WorkerPayload, WorkerStep, Take
<1>5. CASE WorkerReplies
  BY <1>5 DEF WorkerReplies, WorkerSends, WorkerStep, WorkerOK, WorkerType
<1>6. CASE WorkerBody
  <2>1. Frame("BODY", worker.served, worker.reply.bytes, 0) \in FrameType
    BY FrameIn DEF FrameTags, WorkerOK, WorkerType, FrameType
  <2>2. QED
    BY <1>6, <2>1 DEF WorkerBody, WorkerSends, WorkerStep
<1>7. CASE WorkerAcknowledged
  BY <1>7 DEF WorkerAcknowledged, WorkerStep, Take
<1>8. QED
  BY <1>1, <1>2, <1>3, <1>4, <1>5, <1>6, <1>7 DEF Peer, Worker

\* The worker's steps keep the type of what it reads and writes.
LEMMA EnvironmentPeer ==
  ASSUME StateOK, HostOK, ChunkOK, CallOK, WorkerOK, QueuesOK, EnvironmentOK, ChunkInv, UpInv,
         Peer
  PROVE  EnvironmentOK'
<1> USE DEF EnvironmentOK, environment, Roles
<1>1. CASE WorkerBinds \/ WorkerServes \/ WorkerPayload \/ WorkerErrs \/ WorkerPolls
           \/ WorkerReplies \/ WorkerBody \/ WorkerAcknowledged \/ WorkerDies \/ WorkerTerminated
              \/ WorkerKilled
  BY <1>1 DEF WorkerBinds, WorkerStep, Take, WorkerServes, WorkerPayload, WorkerErrs, Replies,
     WorkerPolls, WorkerReplies, WorkerSends, WorkerBody, WorkerAcknowledged, WorkerDies, Exits,
       WorkerTerminated, WorkerKilled
<1>2. CASE WorkerReads
  <2>1. PICK n \in 0..Smaller(worker.job.bytes, input) :
           /\ input' = input - n /\ taken' = taken + n
           /\ moved' = [moved EXCEPT !["stdin"] = @ + n] /\ out' = out
    BY <1>2 DEF WorkerReads
  <2>2. n \in Nat /\ n <= input
    BY <2>1 DEF Smaller, WorkerOK, WorkerType, FrameType
  <2>3. QED
    BY <2>1, <2>2
<1>3. CASE WorkerWrites
  <2>1. PICK n \in 0..worker.job.bytes :
           /\ out' = out \o [i \in 1..n |-> worker.job.offset + i]
           /\ moved' = [moved EXCEPT !["stdout"] = @ + n] /\ input' = input /\ taken' = taken
    BY <1>3 DEF WorkerWrites
  <2>2. n \in Nat /\ worker.job.offset \in Nat
    BY <2>1 DEF WorkerOK, WorkerType, FrameType
  <2>3. [i \in 1..n |-> worker.job.offset + i] \in Seq(Nat)
    BY <2>2
  <2>4. out' \in Seq(Nat)
    BY <2>1, <2>3
  <2>5. QED
    BY <2>1, <2>2, <2>4
<1>4. CASE WorkerFills
  <2>1. worker.job.bytes \in Nat
    BY DEF WorkerOK, WorkerType, FrameType
  <2>2. \E n \in 0..worker.job.bytes : moved' = [moved EXCEPT !["entropy"] = @ + n]
    BY <1>4, <2>1 DEF WorkerFills
  <2>3. out' = out /\ input' = input /\ taken' = taken
    BY <1>4 DEF WorkerFills
  <2>4. moved' \in [Roles -> Nat]
    BY <2>1, <2>2
  <2>5. QED
    BY <2>3, <2>4
<1>5. QED
  BY <1>1, <1>2, <1>3, <1>4 DEF Peer, Worker

\* A call that returns leaves no chunk behind.
LEMMA NumbersReturn ==
  ASSUME ChunkInv, StateOK, UNCHANGED call, NEW result, Return(result)
  PROVE  ChunkInv'
<1>1. x'.confirmed = 0 /\ x'.uncertain = 0 /\ x'.length = 0
  BY DEF Return, NoChunk
<1>2. Extent' = Extent
  BY DEF Extent
<1>3. pc' = "idle" \/ (pc' = "close" /\ ret' = "return")
  BY ReturnEffect
<1>4. x'.confirmed + x'.uncertain <= x'.length
  BY <1>1
<1>5. (call.kind \in {"bytes", "write"} => call.done <= Extent)'
  BY <1>2 DEF ChunkInv
<1>6. (call.kind = "read" => call.done <= call.bytes)'
  BY DEF ChunkInv
<1>7. ~InChunk'
  BY <1>3 DEF InChunk
<1>8. QED
  BY <1>3, <1>4, <1>5, <1>6, <1>7 DEF ChunkInv

\* The bounds on call.done, and the chunk's place in the call.
Within ==
    /\ call.kind \in {"bytes", "write"} => call.done <= Extent
    /\ call.kind = "read" => call.done <= call.bytes
    /\ call.kind # "int" => call.done + x.length <= Extent

\* A step that keeps call and chunk keeps the chunk within the call.
LEMMA WithinKept ==
  ASSUME ChunkInv, InChunk, UNCHANGED call, x'.length = x.length
  PROVE  Within'
<1>1. Extent' = Extent
  BY DEF Extent
<1>2. Within
  BY DEF ChunkInv, Within
<1>3. QED
  BY <1>1, <1>2 DEF Within

\* The steps of a call keep what the chunk's numbers mean at each phase.
LEMMA NumbersCalling ==
  ASSUME CancelInv, StateOK, HostOK, ChunkOK, CallOK, WorkerOK, ReportInv, ChunkInv, UpInv,
         Calling
  PROVE  ChunkInv'
<1> USE DEF ChunkInv, InChunk, Extent, ChunkOK, ChunkType, CallOK, CallStateType, IsEntropy, Role,
         RoleOf
<1>1. CASE AdmissionFails
  BY <1>1, NumbersReturn DEF AdmissionFails
<1>2. CASE Admit
  BY <1>2 DEF Admit
<1>3. CASE CallSucceeds
  BY <1>3, NumbersReturn DEF CallSucceeds
<1>4. CASE CandidatesExhausted
  BY <1>4, NumbersReturn DEF CandidatesExhausted
<1>5. CASE ChunkRefused
  BY <1>5, NumbersReturn DEF ChunkRefused
<1>6. CASE StartChunk
  <2>1. /\ ChunkLength \in Nat /\ ChunkLength > 0
        /\ call.kind # "int" => call.done + ChunkLength <= Extent
    BY <1>6, ChunkLengthIn DEF StartChunk, ChunkDue
  <2>2. /\ call'.kind = call.kind /\ call'.bytes = call.bytes /\ call'.lf = call.lf
           /\ call'.done = call.done
        /\ pc' = "launch"
    BY <1>6 DEF StartChunk
  <2>3. x' = [NoChunk EXCEPT !.length = ChunkLength]
    BY <1>6 DEF StartChunk
  <2>4. x'.length = ChunkLength /\ x'.confirmed = 0 /\ x'.uncertain = 0 /\ x'.error = "none"
        /\ x'.eof = FALSE
    BY <2>3 DEF NoChunk
  <2>5. Extent' = Extent
    BY <2>2
  <2>6. Within'
    <3> HIDE DEF Extent
    <3>1. QED
      BY <2>1, <2>2, <2>4, <2>5 DEF Within
  <2>7. x'.confirmed + x'.uncertain <= x'.length
    BY ONLY <2>1, <2>4
  <2> HIDE DEF Extent, InChunk
  <2>8. x'.length > 0
    BY <2>1, <2>4
  <2>9. QED
    BY <2>2, <2>4, <2>6, <2>7, <2>8 DEF Within
<1>7. CASE Settle
  BY <1>7 DEF Settle, Settled
<1>8. CASE RetryChunk
  BY <1>8 DEF RetryChunk
<1>9. CASE ChunkFails
  BY <1>9, NumbersReturn DEF ChunkFails
<1>10. CASE ChunkSucceeds
  <2>1. CASE call' = Advanced /\ pc' = "chunk" /\ UNCHANGED <<ret, x>>
    BY <1>10, <2>1, SucceedsEffect DEF Advanced
  <2>2. CASE UNCHANGED call /\ \E result : Return(result)
    BY <2>2, NumbersReturn
  <2>3. QED
    BY <1>10, <2>1, <2>2, SucceedsEffect
<1>11. QED
  BY <1>1, <1>2, <1>3, <1>4, <1>5, <1>6, <1>7, <1>8, <1>9, <1>10 DEF Calling

\* The steps of a transfer keep it.
LEMMA NumbersTransferring ==
  ASSUME CancelInv, StateOK, HostOK, ChunkOK, CallOK, WorkerOK, ReportInv, ChunkInv, UpInv,
         Transferring
  PROVE  ChunkInv'
<1> USE DEF ChunkInv, InChunk, Extent, ChunkOK, ChunkType, CallOK, CallStateType, IsEntropy, Role,
         RoleOf, channels
<1>1. CASE HostRefuses
  BY <1>1 DEF HostRefuses
<1>2. CASE ReuseWorker
  BY <1>2 DEF ReuseWorker
<1>3. CASE Spawn
  BY <1>3 DEF Spawn
<1>4. CASE SpawnFails
  BY <1>4 DEF SpawnFails, Fail, FailCancelled
<1>5. CASE Bind
  BY <1>5 DEF Bind, Send, SendFails
<1>6. CASE SendRequest
  BY <1>6 DEF SendRequest, Send, NextRequest, Attempted
<1>7. CASE RequestFails
  BY <1>7 DEF RequestFails, SendFails, NextRequest, Attempted
<1>8. CASE RequestStale
  BY <1>8 DEF RequestStale, Fail
<1>9. CASE SendPayload
  BY <1>9 DEF SendPayload, Send, SendFails
<1>10. CASE ReceiveFails
  BY <1>10 DEF ReceiveFails, Receiving, Fail, FailCancelled
<1>11. CASE ReceiveRecord
  BY <1>11, HandlerOf DEF ReceiveRecord, Receiving
<1>12. CASE ReceiveEmpty
  BY <1>12, ReapingOf DEF ReceiveEmpty, Receiving
<1>13. CASE ReapPeer
  <2>1. /\ UNCHANGED <<x, call, ret>>
        /\ \/ pc = "reap ready" /\ pc' = "ready"
           \/ pc = "reap reply" /\ pc' = "reply"
           \/ pc = "reap body" /\ pc' = "body"
    <3>1. PICK at \in DOMAIN Reaping : pc = Reaping[at] /\ pc' = at
      BY <1>13 DEF ReapPeer
    <3>2. UNCHANGED <<x, call, ret>>
      BY <1>13 DEF ReapPeer
    <3>3. QED
      BY <3>1, <3>2, ReapingOf
  <2>2. QED
    BY <2>1
<1>14. CASE RecordCancelled
  BY <1>14 DEF RecordCancelled, Fail, FailCancelled
<1>15. CASE Bound
  BY <1>15 DEF Bound, Handled, Fail
<1>16. CASE StreamReplied
  <2>1. pc = "replied" /\ call' = call /\ x.frame.bytes \in Nat
    BY <1>16 DEF StreamReplied, Handled, FrameType
  <2>2. x'.length = x.length => Within'
    BY <1>16, <2>1, WithinKept
  <2> HIDE DEF Extent, InChunk
  <2>3. CASE x' = [x EXCEPT !.error = "protocol"] /\ pc' = "close" /\ ret' = "settle"
    BY <2>1, <2>2, <2>3 DEF Within
  <2>4. CASE x.frame.tag = "PROGRESS" /\ call.kind = "read" /\ x.frame.bytes > 0
             /\ AwaitBody(Confirmed(x.frame)) /\ ~(x.frame.bytes > x.length)
    <3>1. /\ x'.length = x.length /\ x'.confirmed = x.frame.bytes /\ x'.uncertain = 0
          /\ x'.eof = (call.kind = "read" /\ x.frame.tag = "PROGRESS" /\ x.frame.bytes = 0)
          /\ \/ pc' = "body" /\ x'.error = "none"
             \/ pc' = "close" /\ x'.error = "protocol"
      <4>1. x.error = "none"
        BY <2>1
      <4>2. CASE host.pid
        <5>1. pc' = "body" /\ x' = Confirmed(x.frame)
          BY <2>4, <4>2 DEF AwaitBody
        <5>2. QED
          BY <4>1, <5>1 DEF Confirmed
      <4>3. CASE ~host.pid
        <5>1. pc' = "close" /\ x' = [Confirmed(x.frame) EXCEPT !.error = "protocol"]
          BY <2>4, <4>3 DEF AwaitBody
        <5>2. QED
          BY <5>1 DEF Confirmed
      <4>4. QED
        BY <4>2, <4>3
    <3>2. ~x'.eof
      BY <2>1, <2>4, <3>1
    <3>3. x'.confirmed + x'.uncertain <= x'.length
      BY <2>1, <2>4, <3>1
    <3>4. QED
      BY <2>1, <2>2, <2>4, <3>1, <3>2, <3>3 DEF Within
  <2>5. CASE x.frame.tag = "PROGRESS" /\ ~(call.kind = "read" /\ x.frame.bytes > 0) /\ pc' = "ack"
             /\ x' = Confirmed(x.frame) /\ ~(x.frame.bytes > x.length)
    <3>1. /\ x'.length = x.length /\ x'.confirmed = x.frame.bytes /\ x'.uncertain = 0
          /\ x'.eof = (call.kind = "read" /\ x.frame.tag = "PROGRESS" /\ x.frame.bytes = 0)
      BY <2>1, <2>5 DEF Confirmed
    <3>2. call.kind = "read" => x.frame.bytes = 0
      BY <2>1, <2>5
    <3>3. call.kind = "read" => x'.eof
      BY ONLY <2>5, <3>1, <3>2
    <3>4. x'.confirmed + x'.uncertain <= x'.length
      BY <2>1, <2>5, <3>1
    <3>5. QED
      BY <2>1, <2>2, <2>5, <3>1, <3>3, <3>4 DEF Within
  <2>6. CASE /\ x.frame.tag # "PROGRESS" /\ pc' = "ack" /\ ~(x.frame.bytes > x.length)
             /\ x' = [Confirmed(x.frame) EXCEPT !.error = ErrorOf[x.frame.tag]]
    <3>1. ErrorOf[x.frame.tag] # "none"
      BY <1>16, <2>1, <2>6, ErrorKnown DEF StreamReplied
    <3>2. /\ x'.length = x.length /\ x'.confirmed = x.frame.bytes /\ x'.uncertain = 0
          /\ x'.error # "none"
      BY <2>1, <2>6, <3>1 DEF Confirmed
    <3>3. QED
      BY <2>1, <2>2, <2>6, <3>2 DEF Within
  <2>7. QED
    BY <1>16, <2>3, <2>4, <2>5, <2>6 DEF StreamReplied, Handled, Fail
<1>17. CASE FillReplied
  BY <1>17 DEF FillReplied, Handled, AwaitBody, Fail
<1>18. CASE Received
  BY <1>18 DEF Received, Handled
<1>19. CASE Acknowledge
  BY <1>19 DEF Acknowledge, Send, SendFails
<1>20. CASE Acknowledged
  BY <1>20 DEF Acknowledged, Handled, Fail, FailCancelled
<1>21. QED
  BY <1>1, <1>2, <1>3, <1>4, <1>5, <1>6, <1>7, <1>8, <1>9, <1>10, <1>11, <1>12, <1>13, <1>14,
     <1>15, <1>16, <1>17, <1>18, <1>19, <1>20 DEF Transferring

\* The steps of close keep it.
LEMMA NumbersClosing ==
  ASSUME CancelInv, StateOK, HostOK, ChunkOK, CallOK, WorkerOK, ReportInv, ChunkInv, UpInv,
         Closing
  PROVE  ChunkInv'
<1> USE DEF ChunkInv, InChunk, Extent, ChunkOK, ChunkType, CallOK, CallStateType, IsEntropy, Role,
         RoleOf, ReportInv
<1>1. CASE CloseSocket
  BY <1>1 DEF CloseSocket, CloseStep, Goto
<1>2. CASE Terminate
  BY <1>2 DEF Terminate, CloseStep, Goto, Reaped
<1>3. CASE Grace
  BY <1>3 DEF Grace, CloseStep, Goto, Reaped
<1>4. CASE Wait
  BY <1>4 DEF Wait, CloseStep, Goto, Reaped
<1>5. CASE RestoreTerminal
  BY <1>5 DEF RestoreTerminal, CloseStep, Goto
<1>6. CASE PollSignals
  BY <1>6 DEF PollSignals, CloseStep, Goto, Latched
<1>7. CASE RestoreSignals
  BY <1>7 DEF RestoreSignals, CloseStep, Goto
<1>8. CASE DropLease
  BY <1>8 DEF DropLease, CloseStep, Goto, Latched
<1>9. CASE Closed
  BY <1>9 DEF Closed
<1>10. QED
  BY <1>1, <1>2, <1>3, <1>4, <1>5, <1>6, <1>7, <1>8, <1>9 DEF Closing

\* The steps of the evaluation and of the world around it.
World == (\E c \in Calls : Invoke(c)) \/ Finish \/ SignalArrives \/ OperationExpires
  \/ EvaluationExpires

\* The program, the signals and the clock leave worker, socket and chunk alone.
LEMMA WorldFrame ==
  ASSUME World
  PROVE  /\ UNCHANGED <<x, host, down, up, worker, moved, input, failures, scope, retries,
            faults>>
         /\ \/ UNCHANGED <<state, pc, ret, call, out, taken, outcome, diagnostics>>
            \/ \E c \in Calls : Invoke(c)
            \/ Finish /\ UNCHANGED <<call, out, taken, outcome>>
  BY DEF World, Invoke, Finish, SignalArrives, OperationExpires, EvaluationExpires, channels,
     environment, bounds, reports

\* A new call starts from nothing but the session's account.
LEMMA InvokeEffect ==
  ASSUME NEW c \in Calls, Invoke(c), StateOK
  PROVE  /\ pc = "idle" /\ pc' = "admission" /\ ret' = "idle" /\ call' \in CallStateType
         /\ call'.done = 0 /\ call'.bytes = c.bytes /\ call'.kind = c.kind /\ call'.lf = c.lf
         /\ state' \in StateType /\ state'.held = state.held
            /\ state'.cleanup_error = state.cleanup_error
         /\ state'.roles = state.roles /\ state'.consumed = state.consumed
         /\ state'.progress = NoProgress /\ out' = <<>> /\ taken' = 0 /\ outcome' = "none"
         /\ diagnostics' = diagnostics /\ lease' = lease
<1>1. c \in CallType
  BY HostAssumption
<1>2. call' \in CallStateType /\ call'.done = 0 /\ call'.bytes = c.bytes /\ call'.kind = c.kind
      /\ call'.lf = c.lf
  BY <1>1 DEF Invoke, CallType, CallStateType
<1>3. state' \in StateType
  BY NothingType DEF Invoke, StateOK, StateType
<1>4. QED
  BY <1>2, <1>3 DEF Invoke, StateOK, StateType, reports

\* The end of the evaluation reports the cleanup that failed and takes the host away.
LEMMA FinishEffect ==
  ASSUME Finish, StateOK
  PROVE  /\ pc = "idle" /\ state' \in StateType /\ state'.held = FALSE
            /\ state'.cleanup_error = FALSE
         /\ state'.roles = state.roles /\ state'.consumed = state.consumed
         /\ state'.progress = state.progress
         /\ diagnostics' = diagnostics + (IF state.cleanup_error THEN 1 ELSE 0)
         /\ \/ state.held /\ pc' = "close" /\ ret' = "done"
            \/ ~state.held /\ pc' = "done" /\ ret' = ret
         /\ lease' = lease
  BY DEF Finish, StateOK, StateType

\* The program, the signals and the clock keep every type.
LEMMA TypesWorld ==
  ASSUME Typed, World
  PROVE  Typed'
<1> USE DEF Typed
<1>1. HostOK' /\ ChunkOK' /\ WorkerOK' /\ QueuesOK'
  BY WorldFrame DEF HostOK, ChunkOK, WorkerOK, QueuesOK
<1>2. CASE \E c \in Calls : Invoke(c)
  <2>1. StateOK' /\ CallOK'
    BY <1>2, InvokeEffect DEF StateOK, CallOK
  <2>2. EnvironmentOK'
    <3>1. UNCHANGED <<moved, input>> /\ out' = <<>> /\ taken' = 0
      BY <1>2, InvokeEffect, WorldFrame
    <3>2. QED
      BY <3>1 DEF EnvironmentOK
  <2>3. QED
    BY <1>1, <2>1, <2>2
<1>3. CASE Finish
  BY <1>1, <1>3, FinishEffect, WorldFrame DEF StateOK, CallOK, EnvironmentOK, Finish, environment
<1>4. CASE UNCHANGED <<state, pc, ret, call, out, taken>>
  BY <1>1, <1>4, WorldFrame DEF StateOK, CallOK, EnvironmentOK
<1>5. QED
  BY <1>2, <1>3, <1>4, WorldFrame

\* They keep the ownership of worker, terminal and signals.
LEMMA OwnerWorld ==
  ASSUME CancelInv, OwnerInv, ReportInv, StateOK, HostOK, World
  PROVE  OwnerInv'
<1> USE DEF CancelInv, OwnerInv, LeaseType, HostOK, HostType
<1>1. CASE \E c \in Calls : Invoke(c)
  BY <1>1, InvokeEffect, WorldFrame DEF ReportInv
<1>2. CASE Finish
  BY <1>2, FinishEffect, WorldFrame DEF Finish
<1>3. CASE SignalArrives
  BY <1>3 DEF SignalArrives
<1>4. CASE OperationExpires \/ EvaluationExpires
  BY <1>4, OwnerSame DEF OperationExpires, EvaluationExpires
<1>5. QED
  BY <1>1, <1>2, <1>3, <1>4 DEF World

\* They keep the account of failed cleanups.
LEMMA ReportWorld ==
  ASSUME CancelInv, OwnerInv, ReportInv, StateOK, HostOK, ChunkOK, World
  PROVE  ReportInv'
<1> USE DEF CancelInv, ReportInv, LeaseType, ChunkOK, ChunkType
<1>1. CASE \E c \in Calls : Invoke(c)
  BY <1>1, InvokeEffect, WorldFrame
<1>2. CASE Finish
  <2>1. /\ pc = "idle" /\ UNCHANGED <<x, lease, failures>> /\ state'.cleanup_error = FALSE
        /\ diagnostics' = diagnostics + (IF state.cleanup_error THEN 1 ELSE 0)
        /\ pc' = "done" \/ (pc' = "close" /\ ret' = "done")
        /\ ret' = ret \/ ret' = "done"
    BY <1>2, FinishEffect, WorldFrame
  <2>2. failures' = diagnostics' /\ diagnostics' \in Nat /\ failures' \in Nat
    BY <2>1
  <2>3. (lease.lent => failures = 0 /\ diagnostics = 0)'
    BY <2>1, <2>2
  <2>4. ret' = "done" => pc' \in ClosePhases \cup {"done"}
    BY <2>1
  <2>5. (failures = diagnostics
            + (IF state.cleanup_error \/ (pc = "settle" /\ x.cleanup) THEN 1 ELSE 0))'
    BY <2>1, <2>2
  <2>6. (pc \in ClosePhases => ret \in {"settle", "return", "done"})'
    BY <2>1
  <2>7. ~state'.cleanup_error
    BY <2>1
  <2>8. ~(pc \in Stopping \cup Restoring \cup Transfer \cup {"settle"})'
    BY <2>1
  <2> QED
    BY ONLY <2>2, <2>3, <2>4, <2>5, <2>6, <2>7, <2>8 DEF ReportInv
<1>3. CASE SignalArrives
  BY <1>3 DEF SignalArrives, reports
<1>4. CASE OperationExpires \/ EvaluationExpires
  BY <1>4, ReportSame DEF OperationExpires, EvaluationExpires
<1>5. QED
  BY <1>1, <1>2, <1>3, <1>4 DEF World

\* They keep what the chunk's numbers mean.
LEMMA NumbersWorld ==
  ASSUME ChunkInv, StateOK, CallOK, ChunkOK, World
  PROVE  ChunkInv'
<1>1. CASE \E c \in Calls : Invoke(c)
  <2>1. /\ x' = x /\ call'.done = 0 /\ call'.bytes \in Nat /\ pc' = "admission" /\ Extent' \in Nat
    BY <1>1, InvokeEffect, WorldFrame DEF CallStateType, Extent
  <2>2. ~InChunk'
    BY <2>1 DEF InChunk
  <2>3. (call.done <= Extent /\ call.done <= call.bytes)'
    BY <2>1
  <2>4. QED
    BY <2>1, <2>2, <2>3 DEF ChunkInv
<1>2. CASE Finish
  <2>1. /\ UNCHANGED <<x, call>> /\ Extent' = Extent
        /\ pc' = "done" \/ (pc' = "close" /\ ret' = "done")
    BY <1>2, FinishEffect, WorldFrame DEF Finish, Extent
  <2>2. ~InChunk'
    BY <2>1 DEF InChunk
  <2>4. QED
    BY <2>1, <2>2 DEF ChunkInv
<1>3. CASE UNCHANGED <<state, pc, ret, call, out, taken>>
  BY <1>3, WorldFrame, ChunkSame
<1>4. QED
  BY <1>1, <1>2, <1>3, WorldFrame

\* A worker that exits stays owned until it is reaped.
LEMMA OwnerPeer ==
  ASSUME OwnerInv, WorkerOK, Peer
  PROVE  OwnerInv'
<1> USE DEF WorkerOK, WorkerType
<1>1. UNCHANGED <<state, pc, ret, host, lease>>
  BY PeerFrame
<1>2. worker.at # "none" <=> worker'.at # "none"
  <2>1. CASE WorkerDies \/ WorkerTerminated \/ WorkerKilled
    BY <2>1 DEF WorkerDies, WorkerTerminated, WorkerKilled, Exits, WorkerGone, NoWorker
  <2>2. CASE WorkerReplies \/ WorkerBody
    BY <2>2 DEF WorkerReplies, WorkerBody, WorkerSends, WorkerStep
  <2>3. CASE WorkerServes
    BY <2>3 DEF WorkerServes, WorkerStep, Take
  <2>4. CASE Worker /\ ~WorkerReplies /\ ~WorkerBody /\ ~WorkerServes
    BY <2>4 DEF Worker, WorkerStep, WorkerBinds, WorkerPayload, WorkerReads,
       WorkerWrites, WorkerErrs, WorkerPolls, WorkerFills, WorkerAcknowledged, Replies
  <2>5. QED
    BY <2>1, <2>2, <2>3, <2>4 DEF Peer
<1>3. QED
  BY <1>1, <1>2 DEF OwnerInv

\* What the supervisor alone decides survives the worker's steps.
LEMMA FramedPeer ==
  ASSUME Peer
  PROVE  /\ StateOK => StateOK'
         /\ HostOK => HostOK'
         /\ ChunkOK => ChunkOK'
         /\ CallOK => CallOK'
         /\ CancelInv => CancelInv'
         /\ ReportInv => ReportInv'
         /\ ChunkInv => ChunkInv'
<1>1. UNCHANGED <<state, pc, ret, call, x, host, lease, scope, reports>>
  BY PeerFrame
<1>2. QED
  BY <1>1, CancelSame, ReportSame, ChunkSame DEF StateOK, HostOK, ChunkOK, CallOK

\* A step that changes nothing keeps every part that is not about the protocol.
LEMMA Stutter ==
  ASSUME UNCHANGED vars
  PROVE  /\ Typed => Typed'
         /\ CancelInv => CancelInv'
         /\ OwnerInv => OwnerInv'
         /\ ReportInv => ReportInv'
         /\ ChunkInv => ChunkInv'
<1>1. Typed => Typed'
  BY DEF vars, Typed, StateOK, HostOK, ChunkOK, CallOK, WorkerOK, QueuesOK, EnvironmentOK,
     channels, environment
<1>2. QED
  BY <1>1, CancelSame, OwnerSame, ReportSame, ChunkSame DEF vars

\* The first state has those parts.
LEMMA InitSound ==
  ASSUME Init
  PROVE  Typed /\ CancelInv /\ OwnerInv /\ ReportInv /\ ChunkInv
<1> USE NothingType DEF Init
<1>1. StateOK
  BY DEF StateOK, StateType, NoCounts
<1>2. HostOK /\ ChunkOK /\ CallOK /\ WorkerOK
  BY DEF HostOK, HostType, ChunkOK, CallOK, CallStateType, NoCall, WorkerOK
<1>3. QueuesOK /\ EnvironmentOK
  BY Constants DEF QueuesOK, EnvironmentOK, Roles
<1>4. CancelInv /\ OwnerInv /\ ReportInv
  BY DEF CancelInv, OwnerInv, ReportInv, LeaseType, NoWorker, NoChunk
<1>5. ChunkInv
  BY DEF ChunkInv, NoChunk, NoCall, Extent, InChunk
<1>6. QED
  BY <1>1, <1>2, <1>3, <1>4, <1>5 DEF Typed

\* A sequence that is one longer and agrees is the one appended to.
LEMMA Appended ==
  ASSUME NEW S, NEW q \in Seq(S), NEW r \in Seq(S), NEW e \in S, Len(r) = Len(q) + 1,
         r[Len(q) + 1] = e, \A i \in 1..Len(q) : r[i] = q[i]
  PROVE  Append(q, e) = r
<1>1. Append(q, e) \in Seq(S) /\ Len(Append(q, e)) = Len(r)
  OBVIOUS
<1>2. \A i \in 1..Len(r) : Append(q, e)[i] = r[i]
  OBVIOUS
<1>3. QED
  BY <1>1, <1>2, SeqEqual

\* Appending to a sequence of one.
LEMMA Pair ==
  ASSUME NEW a, NEW b
  PROVE  Append(<<a>>, b) = <<a, b>>
<1> DEFINE S == {a, b}
           q == <<a>>
           r == <<a, b>>
<1>1. q \in Seq(S) /\ r \in Seq(S) /\ b \in S
  OBVIOUS
<1>2. Len(q) = 1 /\ Len(r) = 2 /\ r[2] = b /\ \A i \in 1..1 : r[i] = q[i]
  OBVIOUS
<1> HIDE DEF S, q, r
<1>3. Append(q, b) = r
  BY <1>1, <1>2, Appended
<1>4. QED
  BY <1>3 DEF q, r

\* Appending to a sequence of two.
LEMMA Triple ==
  ASSUME NEW a, NEW b, NEW c
  PROVE  Append(<<a, b>>, c) = <<a, b, c>>
<1> DEFINE S == {a, b, c}
           q == <<a, b>>
           r == <<a, b, c>>
<1>1. q \in Seq(S) /\ r \in Seq(S) /\ c \in S
  OBVIOUS
<1>2. Len(r) = Len(q) + 1 /\ r[Len(q) + 1] = c /\ \A i \in 1..Len(q) : r[i] = q[i]
  OBVIOUS
<1> HIDE DEF S, q, r
<1>3. Append(q, c) = r
  BY <1>1, <1>2, Appended
<1>4. QED
  BY <1>3 DEF q, r

\* Appending to the empty sequence.
LEMMA Single ==
  ASSUME NEW a
  PROVE  Append(<<>>, a) = <<a>>
  OBVIOUS

\* First and rest of sequences of up to three.
LEMMA Ends ==
  ASSUME NEW a, NEW b, NEW c
  PROVE  /\ Head(<<a>>) = a /\ Tail(<<a>>) = <<>> /\ <<a>> # <<>> /\ Len(<<a>>) = 1
         /\ Head(<<a, b>>) = a /\ Tail(<<a, b>>) = <<b>> /\ <<a, b>> # <<>> /\ Len(<<a, b>>) = 2
         /\ Head(<<a, b, c>>) = a /\ Tail(<<a, b, c>>) = <<b, c>> /\ <<a, b, c>> # <<>>
         /\ Len(<<a, b, c>>) = 3
  OBVIOUS

\* What the frames of the current request carry.
LEMMA Tags ==
  /\ Current.tag = RequestTag /\ Current.request = host.request /\ Current.bytes = x.length
  /\ Current.offset = call.done
  /\ Payload.tag = "PAYLOAD" /\ BindFrame.tag = "BIND" /\ ReadyFrame.tag = "READY"
  /\ \A n : Ack(n).tag = "ACK"
  BY DEF Current, Payload, Ack, BindFrame, ReadyFrame, Frame

\* The tag of the current request tells the kind of the call.
LEMMA TagOf ==
  ASSUME CallOK
  PROVE  /\ RequestTag \in {"FILL", "READ", "WRITE"}
         /\ RequestTag = "FILL" <=> IsEntropy
         /\ RequestTag = "WRITE" <=> call.kind = "write"
         /\ RequestTag = "READ" <=> call.kind = "read"
         /\ IsEntropy <=> call.kind \in {"int", "bytes"}
  BY DEF RequestTag, IsEntropy, Role, RoleOf, CallOK, CallStateType

\* What the frames of the protocol depend on: the call, the chunk's length and the number of the
\* request.
LEMMA SameMessages ==
  ASSUME UNCHANGED call, x'.length = x.length, host'.request = host.request
  PROVE  /\ Current' = Current /\ Payload' = Payload /\ IsEntropy' = IsEntropy
         /\ RequestTag' = RequestTag
         /\ \A f : BodyOf(f)' = BodyOf(f) /\ (Bodied(f)' <=> Bodied(f))
            /\ (ReplyTo(f)' <=> ReplyTo(f))
  BY DEF Current, Payload, IsEntropy, Role, RequestTag, BodyOf, Bodied, ReplyTo

\* The worker's steps leave those frames alone.
LEMMA Same ==
  ASSUME Peer
  PROVE  /\ UNCHANGED <<pc, call, x, host>>
         /\ Current' = Current /\ Payload' = Payload /\ IsEntropy' = IsEntropy
<1>1. UNCHANGED <<pc, call, x, host>>
  BY PeerFrame
<1>2. QED
  BY <1>1, SameMessages

\* A worker that is bound was started and comes to rest.
LEMMA Binds ==
  ASSUME WorkerOK, InUse, WorkerBinds
  PROVE  Booting /\ down = <<BindFrame>> /\ Resting(host.request)' /\ worker'.at = "ready"
         /\ up' = <<ReadyFrame>>
<1>1. worker.at = "boot" /\ down # <<>> /\ down' = Tail(down) /\ up' = Append(up, ReadyFrame)
      /\ worker' = [worker EXCEPT !.at = "ready"] /\ host' = host
  BY DEF WorkerBinds, WorkerStep, Take, ReadyFrame
<1>2. Booting /\ down = <<BindFrame>>
  BY <1>1 DEF InUse, Booting, Resting, RequestSent, PayloadSent, Serving, Working, Answering
<1>3. down' = <<>> /\ up' = <<ReadyFrame>>
  BY <1>1, <1>2, Single, Ends DEF Booting
<1>4. worker'.at = "ready" /\ worker'.served = host'.request
  BY <1>1, <1>2 DEF Booting, WorkerOK, WorkerType
<1>5. QED
  BY <1>2, <1>3, <1>4 DEF Resting

\* A worker that is acknowledged turns to what is on its way to it.
LEMMA Acknowledges ==
  ASSUME WorkerOK, InUse \/ Resting(host.request - 1), WorkerAcknowledged
  PROVE  /\ Resting(host.request) \/ Resting(host.request - 1) \/ RequestSent \/ PayloadSent
         /\ up' = up /\ worker'.at = "ready"
         /\ Resting(host.request) => Resting(host.request)'
         /\ Resting(host.request - 1) => Resting(host.request - 1)'
         /\ RequestSent => RequestSent'
         /\ PayloadSent => PayloadSent'
<1>1. worker.at = "ack" /\ down # <<>> /\ down' = Tail(down) /\ up' = up
      /\ worker' = [worker EXCEPT !.at = "ready", !.job = NoFrame, !.reply = NoFrame]
  BY DEF WorkerAcknowledged, WorkerStep, Take
<1>2. worker'.at = "ready" /\ worker'.served = worker.served
  BY <1>1 DEF WorkerOK, WorkerType
<1>3. UNCHANGED <<call, host>> /\ Current' = Current /\ Payload' = Payload
  BY Same DEF Peer, Worker
<1>4. Resting(host.request) \/ Resting(host.request - 1) \/ RequestSent \/ PayloadSent
  BY <1>1 DEF InUse, Booting, Serving, Working, Answering
<1>5. Resting(host.request) => Resting(host.request)'
  BY <1>1, <1>2, <1>3, Ends DEF Resting
<1>6. Resting(host.request - 1) => Resting(host.request - 1)'
  BY <1>1, <1>2, <1>3, Ends DEF Resting
<1>7. ASSUME RequestSent PROVE RequestSent'
  <2>1. down = <<Ack(host.request - 1), Current>> /\ worker.served = host.request - 1 /\ up = <<>>
    BY <1>1, <1>7 DEF RequestSent
  <2>2. down' = <<Current>>
    BY <1>1, <2>1
  <2>3. QED
    BY <1>1, <1>2, <1>3, <2>1, <2>2 DEF RequestSent
<1>8. ASSUME PayloadSent PROVE PayloadSent'
  <2>1. /\ down = <<Ack(host.request - 1), Current, Payload>> /\ worker.served = host.request - 1
        /\ up = <<>> /\ call.kind = "write"
    BY <1>1, <1>8 DEF PayloadSent
  <2>2. down' = <<Current, Payload>>
    BY <1>1, <2>1
  <2>3. QED
    BY <1>1, <1>2, <1>3, <2>1, <2>2 DEF PayloadSent
<1>9. QED
  BY <1>1, <1>2, <1>4, <1>5, <1>6, <1>7, <1>8

\* A worker that takes a request takes the current one.
LEMMA Serves ==
  ASSUME WorkerOK, CallOK, HostOK, InUse \/ Resting(host.request - 1), WorkerServes
  PROVE  /\ RequestSent \/ PayloadSent
         /\ up' = up
         /\ RequestSent /\ call.kind # "write" => Serving'
         /\ RequestSent /\ call.kind = "write" => RequestSent'
         /\ PayloadSent => PayloadSent'
<1>1. worker.at = "ready" /\ down # <<>> /\ down' = Tail(down) /\ up' = up
  BY DEF WorkerServes, WorkerStep, Take
<1>2. UNCHANGED <<call, host>> /\ Current' = Current /\ Payload' = Payload
      /\ IsEntropy' = IsEntropy
  BY Same DEF Peer, Worker
<1>3. (RequestSent \/ PayloadSent) /\ worker.served = host.request - 1 /\ Head(down) = Current
  BY <1>1, Ends DEF InUse, Booting, Resting, Serving, Working, Answering, RequestSent, PayloadSent
<1>4. Head(down).request = worker.served + 1 /\ Head(down).tag = RequestTag
  BY <1>3, Tags DEF HostOK, HostType
<1>5. worker' = [worker EXCEPT !.served = @ + 1, !.job = Head(down),
                    !.at = CASE Head(down).tag = "FILL"  -> "fill"
                             [] Head(down).tag = "READ"  -> "syscall"
                             [] Head(down).tag = "WRITE" -> "payload"]
  BY <1>4 DEF WorkerServes
<1>6. /\ worker'.served = host.request /\ worker'.job = Current
      /\ IsEntropy => worker'.at = "fill"
      /\ call.kind = "read" => worker'.at = "syscall"
      /\ call.kind = "write" => worker'.at = "payload"
  BY <1>3, <1>4, <1>5, TagOf DEF WorkerOK, WorkerType, HostOK, HostType
<1>7. RequestSent /\ call.kind # "write" => Serving'
  <2>1. SUFFICES ASSUME RequestSent, call.kind # "write" PROVE Serving'
    OBVIOUS
  <2>2. down = <<Current>> /\ up = <<>>
    BY <1>1, <2>1 DEF RequestSent
  <2>3. down' = <<>> /\ up' = <<>>
    BY <1>1, <2>2, Ends
  <2>4. IF IsEntropy THEN worker'.at = "fill" ELSE worker'.at = "syscall"
    BY <1>6, <2>1, TagOf DEF CallOK, CallStateType
  <2>5. QED
    BY <1>2, <1>6, <2>3, <2>4 DEF Serving, Working
<1>8. ASSUME RequestSent, call.kind = "write" PROVE RequestSent'
  <2>1. down = <<Current>> /\ up = <<>>
    BY <1>1, <1>8 DEF RequestSent
  <2>2. down' = <<>>
    BY <1>1, <2>1
  <2>3. QED
    BY <1>1, <1>2, <1>6, <1>8, <2>1, <2>2 DEF RequestSent
<1>9. ASSUME PayloadSent PROVE PayloadSent'
  <2>1. down = <<Current, Payload>> /\ up = <<>> /\ call.kind = "write"
    BY <1>1, <1>9 DEF PayloadSent
  <2>2. down' = <<Payload>>
    BY <1>1, <2>1
  <2>3. QED
    BY <1>1, <1>2, <1>6, <2>1, <2>2 DEF PayloadSent
<1>10. QED
  BY <1>1, <1>3, <1>7, <1>8, <1>9

\* A worker that takes a payload takes the current one, and starts to serve.
LEMMA TakesPayload ==
  ASSUME WorkerOK, CallOK, InUse \/ Resting(host.request - 1), WorkerPayload
  PROVE  PayloadSent /\ Serving' /\ up' = up
<1>1. worker.at = "payload" /\ down # <<>> /\ down' = Tail(down) /\ up' = up
      /\ worker' = [worker EXCEPT !.at = "syscall"]
  BY DEF WorkerPayload, WorkerStep, Take
<1>2. UNCHANGED <<call, host>> /\ Current' = Current /\ IsEntropy' = IsEntropy
  BY Same DEF Peer, Worker
<1>3. PayloadSent
  BY <1>1 DEF InUse, Booting, Resting, Serving, Working, Answering, RequestSent
<1>4. down = <<Payload>> /\ up = <<>> /\ call.kind = "write" /\ worker.served = host.request
      /\ worker.job = Current
  BY <1>1, <1>3 DEF PayloadSent
<1>5. down' = <<>>
  BY <1>1, <1>4
<1>6. worker'.at = "syscall" /\ worker'.served = worker.served /\ worker'.job = worker.job
  BY <1>1 DEF WorkerOK, WorkerType
<1>7. QED
  BY <1>1, <1>2, <1>3, <1>4, <1>5, <1>6, TagOf DEF Serving, Working

\* The host calls.
HostCall == WorkerReads \/ WorkerWrites \/ WorkerErrs \/ WorkerPolls \/ WorkerFills

\* What a worker answers with that serves the current request is an answer to it.
LEMMA Answers ==
  ASSUME WorkerOK, CallOK, ChunkOK, HostOK, Serving, NEW tag, NEW n \in 0..x.length,
         Replies(tag, n),
         UNCHANGED <<call, x, host, down>>,
         IsEntropy => (tag = "DATA" /\ n = x.length) \/ tag = "FAILED",
         ~IsEntropy => tag = "PROGRESS" \/ (tag \in Errors /\ n = 0)
  PROVE  Answering("reply")'
<1>1. Current' = Current /\ IsEntropy' = IsEntropy
  BY SameMessages
<1>2. worker'.at = "reply" /\ worker'.served = worker.served /\ worker'.job = worker.job
      /\ worker'.reply = Frame(tag, worker.served, n, 0)
  BY DEF Replies, WorkerOK, WorkerType
<1>3. worker'.reply.tag = tag /\ worker'.reply.request = host.request /\ worker'.reply.bytes = n
  BY <1>2 DEF Serving, Frame
<1>4. ReplyTo(worker.reply)'
  BY <1>1, <1>3 DEF ReplyTo
<1>5. QED
  BY <1>1, <1>2, <1>4 DEF Answering, Serving

\* A host call is made for the current request only.
LEMMA CallServed ==
  ASSUME Typed, Alive => (InUse \/ Resting(host.request - 1) \/ (down = <<>> /\ (Working
         => Serving))), HostCall
  PROVE  /\ Serving /\ up' = up /\ down' = down
         /\ Serving' \/ Answering("reply")'
<1> USE DEF Typed
<1>1. Working /\ UNCHANGED <<down, up, call, x, host>>
  BY Same DEF HostCall, WorkerReads, WorkerWrites, WorkerErrs, WorkerPolls, WorkerFills,
     WorkerStep,
     Working, channels, Peer, Worker
<1>2. Serving
  BY <1>1 DEF InUse, Booting, Resting, RequestSent, PayloadSent, Answering, Working, Alive,
     WorkerGone
<1>3. /\ worker.job = Current /\ worker.job.tag = RequestTag /\ worker.job.bytes = x.length
      /\ x.length \in Nat /\ (worker.at = "fill" <=> IsEntropy)
  BY <1>2, Tags DEF Serving, ChunkOK, ChunkType
<1>4. Current' = Current /\ IsEntropy' = IsEntropy
  BY <1>1, SameMessages
<1>5. CASE WorkerReads
  <2>1. worker.at # "fill"
    BY <1>5 DEF WorkerReads, WorkerStep
  <2>2. PICK n \in 0..Smaller(worker.job.bytes, input) : Replies("PROGRESS", n)
    BY <1>5 DEF WorkerReads
  <2>3. n \in 0..x.length
    BY <1>3, <2>2 DEF Smaller, EnvironmentOK
  <2>4. QED
    BY <1>1, <1>2, <1>3, <2>1, <2>2, <2>3, Answers
<1>6. CASE WorkerWrites
  <2>1. worker.at # "fill"
    BY <1>6 DEF WorkerWrites, WorkerStep
  <2>2. PICK n \in 0..x.length : Replies("PROGRESS", n)
    BY <1>3, <1>6 DEF WorkerWrites
  <2>3. QED
    BY <1>1, <1>2, <1>3, <2>1, <2>2, Answers
<1>7. CASE WorkerErrs
  <2>1. worker.at = "syscall" /\ 0 \in 0..x.length
    BY <1>3, <1>7 DEF WorkerErrs, WorkerStep
  <2>2. CASE worker' = [worker EXCEPT !.at = "poll"]
    BY <1>1, <1>2, <1>3, <1>4, <2>1, <2>2 DEF Serving, Working, WorkerOK, WorkerType
  <2>3. CASE \E tag \in Errors : Replies(tag, 0)
    BY <1>1, <1>2, <1>3, <2>1, <2>3, Answers
  <2>4. QED
    BY <1>1, <1>2, <1>7, <2>2, <2>3 DEF WorkerErrs, Errors
<1>8. CASE WorkerPolls
  <2>1. worker.at = "poll" /\ Replies("WOULD_BLOCK", 0) /\ 0 \in 0..x.length
        /\ "WOULD_BLOCK" \in Errors
    BY <1>3, <1>8 DEF WorkerPolls, WorkerStep, Errors
  <2>2. QED
    BY <1>1, <1>2, <1>3, <2>1, Answers
<1>9. CASE WorkerFills
  <2>1. worker.at = "fill" /\ 0 \in 0..x.length /\ x.length \in 0..x.length
    BY <1>3, <1>9 DEF WorkerFills, WorkerStep
  <2>2. Replies("DATA", x.length) \/ Replies("FAILED", 0)
    BY <1>3, <1>9 DEF WorkerFills
  <2>3. QED
    BY <1>1, <1>2, <1>3, <2>1, <2>2, Answers
<1>10. QED
  BY <1>5, <1>6, <1>7, <1>8, <1>9 DEF HostCall

\* A worker sends its answer to the current request, and a body after it if there is one.
LEMMA SendsReply ==
  ASSUME Typed, OwnerInv, host.worker, InUse \/ Resting(host.request - 1), WorkerReplies
  PROVE  /\ Answering("reply") /\ up = <<>> /\ up' = <<worker.reply>>
            /\ worker'.reply = worker.reply
         /\ \/ worker'.at = "zombie"
            \/ Answering("body")' /\ Bodied(worker.reply)'
            \/ Answering("ack")' /\ ~Bodied(worker.reply)'
<1> USE DEF Typed
<1>1. /\ worker.at = "reply" /\ ~host.closed /\ up' = Append(up, worker.reply) /\ down' = down
      /\ worker' = [worker EXCEPT !.at = IF worker.reply.tag = "FAILED" THEN "zombie"
                                         ELSE IF HasBody THEN "body" ELSE "ack"]
  BY DEF WorkerReplies, WorkerSends, WorkerStep, OwnerInv
<1>2. UNCHANGED <<call, x, host>> /\ Current' = Current /\ IsEntropy' = IsEntropy
  BY Same DEF Peer, Worker
<1>3. Answering("reply") /\ up = <<>>
  BY <1>1 DEF InUse, Booting, Resting, Serving, Working, RequestSent, PayloadSent, Answering
<1>4. up' = <<worker.reply>>
  BY <1>1, <1>3
<1>5. /\ worker'.served = worker.served /\ worker'.job = worker.job
         /\ worker'.reply = worker.reply
      /\ worker'.at \in {"zombie", "body", "ack"}
      /\ worker'.at = "body" => HasBody
      /\ worker'.at = "ack" => ~HasBody
  BY <1>1 DEF WorkerOK, WorkerType
<1>6. HasBody <=> worker.reply.bytes > 0 /\ call.kind # "write"
  BY <1>3, Tags, TagOf DEF HasBody, Answering
<1>7. ReplyTo(worker.reply)'
  <2>1. ReplyTo(worker.reply) /\ worker'.reply = worker.reply
    BY <1>3, <1>5 DEF Answering
  <2>2. QED
    BY <1>2, <2>1 DEF ReplyTo
<1>8. QED
  BY <1>1, <1>2, <1>3, <1>4, <1>5, <1>6, <1>7 DEF Answering, Bodied

\* A worker that sends a body ends its answer with it.
LEMMA SendsBody ==
  ASSUME Typed, OwnerInv, host.worker, InUse \/ Resting(host.request - 1), WorkerBody
  PROVE  /\ Answering("body") /\ up' = Append(up, BodyOf(worker.reply))
            /\ worker'.reply = worker.reply
         /\ Answering("ack")' /\ Len(up) <= 1
<1> USE DEF Typed
<1>1. /\ worker.at = "body" /\ ~host.closed
         /\ up' = Append(up, Frame("BODY", worker.served, worker.reply.bytes, 0))
      /\ down' = down /\ worker' = [worker EXCEPT !.at = "ack"]
  BY DEF WorkerBody, WorkerSends, WorkerStep, OwnerInv
<1>2. UNCHANGED <<call, x, host>> /\ Current' = Current /\ IsEntropy' = IsEntropy
  BY Same DEF Peer, Worker
<1>3. Answering("body") /\ Len(up) <= 1
  BY <1>1 DEF InUse, Booting, Resting, Serving, Working, RequestSent, PayloadSent, Answering
<1>4. up' = Append(up, BodyOf(worker.reply))
  BY <1>1, <1>3 DEF Answering, BodyOf
<1>5. worker'.served = worker.served /\ worker'.job = worker.job /\ worker'.reply = worker.reply
      /\ worker'.at = "ack"
  BY <1>1 DEF WorkerOK, WorkerType
<1>6. ReplyTo(worker.reply)'
  BY <1>2, <1>3, <1>5 DEF ReplyTo, Answering
<1>7. QED
  BY <1>1, <1>2, <1>3, <1>4, <1>5, <1>6 DEF Answering

\* The supervisor waits for an answer.
Waiting == {"reply", "reap reply"}

\* A live worker whose socket is open is in one of the protocol's states.
LEMMA InUseNow ==
  ASSUME CancelInv, OwnerInv, ChannelInv, PhaseInv, host.worker, Alive
  PROVE  InUse \/ Resting(host.request - 1)
<1>1. CASE pc \in Still \cup {"bind", "ready", "reap ready", "payload"}
  BY <1>1 DEF PhaseInv, InUse, Still
<1>2. CASE pc \in Waiting
  <2>1. AwaitsReply
    BY <1>2 DEF PhaseInv, Waiting
  <2>2. up = <<worker.reply>> => Len(up) <= 1
    BY Ends
  <2>3. QED
    BY <2>1, <2>2 DEF AwaitsReply, InUse
<1>3. CASE pc \in {"replied", "body", "reap body", "received", "ack"}
  <2>1. up = <<>> => Len(up) <= 1
    OBVIOUS
  <2>2. QED
    BY <1>3, <2>1 DEF PhaseInv, AwaitsBody, InUse
<1>4. CASE pc = "close"
  BY <1>4 DEF ChannelInv
<1>5. CASE pc \in Stopping \cup Restoring
  BY <1>5 DEF OwnerInv
<1>6. QED
  BY <1>1, <1>2, <1>3, <1>4, <1>5 DEF CancelInv, Still, Waiting

\* What the worker has sent stays right while nothing is sent or received.
LEMMA UpSame ==
  ASSUME UpInv, UNCHANGED <<pc, call, x, host, up>>
  PROVE  UpInv'
<1>1. BodyOf(up[1])' = BodyOf(up[1]) /\ BodyOf(x.frame)' = BodyOf(x.frame)
  BY DEF BodyOf
<1>2. QED
  <2>1. /\ ReplyTo(up[1])' <=> ReplyTo(up[1])
        /\ ReplyTo(x.frame)' <=> ReplyTo(x.frame)
        /\ Bodied(up[1])' <=> Bodied(up[1])
        /\ Bodied(x.frame)' <=> Bodied(x.frame)
    BY DEF ReplyTo, Bodied, IsEntropy, Role
  <2>2. QED
    BY <1>1, <2>1 DEF UpInv

\* What is on its way to the worker only gets shorter when it receives.
LEMMA DownSame ==
  ASSUME DownInv, QueuesOK, UNCHANGED <<pc, call, host>>, down' = down
         \/ (down # <<>> /\ down' = Tail(down))
  PROVE  DownInv'
<1>1. Len(down') <= 3
  <2>1. CASE down' = down
    BY <2>1 DEF DownInv
  <2>2. CASE down # <<>> /\ down' = Tail(down)
    <3>1. Len(down) \in Nat /\ Len(down') = Len(down) - 1
      BY <2>2 DEF QueuesOK
    <3>2. Len(down) <= 3
      BY DEF DownInv
    <3>3. QED
      BY ONLY <3>1, <3>2
  <2>3. QED
    BY <2>1, <2>2
<1>2. ~host.worker => down' = <<>>
  BY DEF DownInv
<1>3. QED
  BY <1>1, <1>2 DEF DownInv

\* A worker that dies takes no message with it.
LEMMA PeerGone ==
  ASSUME Typed, Protocol, WorkerDies \/ WorkerTerminated \/ WorkerKilled
  PROVE  Protocol'
<1>1. UNCHANGED <<pc, call, x, host, up, down>> /\ ~Alive'
  BY DEF WorkerDies, WorkerTerminated, WorkerKilled, Exits, channels, Alive, WorkerGone, NoWorker
<1>2. UpInv' /\ DownInv'
  BY <1>1, UpSame, DownSame DEF Protocol, Typed
<1>3. QED
  BY <1>1, <1>2 DEF Protocol, ChannelInv, PhaseInv

\* A worker whose socket is closed finishes the host call it is in, and then it can only exit.
LEMMA PeerClosed ==
  ASSUME Typed, OwnerInv, Protocol, Worker, ~host.worker
  PROVE  Protocol'
<1> USE DEF Typed, Protocol
<1>1. UNCHANGED <<pc, call, x, host>> /\ down = <<>>
  BY Same DEF Peer, DownInv
<1>2. CASE HostCall
  <2>1. Alive
    BY <1>2 DEF HostCall, WorkerReads, WorkerWrites, WorkerErrs, WorkerPolls, WorkerFills,
       WorkerStep,
       Alive, WorkerGone
  <2>2. up' = up /\ down' = down /\ (Serving' \/ Answering("reply")')
    BY <1>1, <1>2, <2>1, CallServed DEF ChannelInv
  <2>3. UpInv' /\ DownInv'
    BY <1>1, <2>2, UpSame, DownSame
  <2>4. Working' => Serving'
    BY <2>2 DEF Answering, Working
  <2>5. QED
    BY <1>1, <2>2, <2>3, <2>4 DEF ChannelInv, PhaseInv
<1>3. CASE WorkerReplies \/ WorkerBody
  <2>1. host.closed
    BY <1>3 DEF OwnerInv, WorkerReplies, WorkerBody, WorkerSends, WorkerStep
  <2>2. UNCHANGED <<up, down>> /\ ~Alive'
    BY <1>3, <2>1 DEF WorkerReplies, WorkerBody, WorkerSends, Alive, WorkerGone, WorkerOK,
       WorkerType
  <2>3. UpInv' /\ DownInv'
    BY <1>1, <2>2, UpSame, DownSame
  <2>4. QED
    BY <2>2, <2>3 DEF ChannelInv, PhaseInv
<1>4. CASE WorkerBinds \/ WorkerServes \/ WorkerPayload \/ WorkerAcknowledged
  BY <1>1, <1>4 DEF WorkerBinds, WorkerServes, WorkerPayload, WorkerAcknowledged, Take
<1>5. QED
  BY <1>2, <1>3, <1>4 DEF Worker, HostCall

\* The body of an answer does not change while it is kept.
LEMMA Bodies ==
  ASSUME UNCHANGED <<call, x, host>>, worker'.reply = worker.reply
  PROVE  /\ BodyOf(worker.reply)' = BodyOf(worker.reply)
         /\ Bodied(worker.reply)' <=> Bodied(worker.reply)
         /\ BodyOf(x.frame)' = BodyOf(x.frame)
         /\ Bodied(x.frame)' <=> Bodied(x.frame)
  BY DEF BodyOf, Bodied

\* A worker whose socket is open keeps to the protocol, in every phase of the supervisor.
LEMMA PeerOpen ==
  ASSUME Typed, CancelInv, OwnerInv, Protocol, Worker, host.worker
  PROVE  Protocol'
<1> USE DEF Typed, Protocol
<1>1. UNCHANGED <<pc, call, x, host>> /\ Current' = Current /\ Payload' = Payload
      /\ IsEntropy' = IsEntropy
  BY Same DEF Peer
<1>2. Alive
  BY DEF Worker, WorkerBinds, WorkerServes, WorkerPayload, WorkerReads, WorkerWrites, WorkerErrs,
     WorkerPolls, WorkerFills, WorkerReplies, WorkerBody, WorkerSends, WorkerAcknowledged,
     WorkerStep,
     Alive, WorkerGone
<1>3. InUse \/ Resting(host.request - 1)
  BY <1>2, InUseNow
<1>4. CASE WorkerBinds
  <2>1. worker.at = "boot" /\ down # <<>> /\ down' = Tail(down)
    BY <1>4 DEF WorkerBinds, WorkerStep, Take
  <2>2. InUse
    BY <1>3, <2>1 DEF Resting
  <2>3. /\ Resting(host.request)' /\ worker'.at = "ready" /\ up' = <<ReadyFrame>>
    BY <1>4, <2>2, Binds
  <2>4. pc \in {"ready", "reap ready", "close"}
    BY <1>2, <2>1 DEF PhaseInv, AwaitsReply, AwaitsBody, Answering, Resting, RequestSent,
       PayloadSent,
       Serving, Working, Still, CancelInv, OwnerInv
  <2>5. DownInv'
    BY <1>1, <2>1, DownSame
  <2>6. UpInv'
    <3>1. Len(up') <= 2 /\ up' = <<ReadyFrame>>
      BY <2>3
    <3>2. QED
      BY <1>1, <2>4, <3>1 DEF UpInv
  <2>7. ChannelInv' /\ PhaseInv'
    BY <1>1, <2>3, <2>4 DEF ChannelInv, InUse, PhaseInv, Still
  <2>8. QED
    BY <2>5, <2>6, <2>7
<1>5. CASE WorkerAcknowledged
  <2>1. worker.at = "ack" /\ down # <<>> /\ down' = Tail(down) /\ up' = up
    BY <1>5 DEF WorkerAcknowledged, WorkerStep, Take
  <2>2. UpInv' /\ DownInv'
    BY <1>1, <2>1, UpSame, DownSame
  <2>3. pc \in Still \cup Waiting \cup {"payload", "close"}
    BY <1>2, <2>1 DEF PhaseInv, AwaitsBody, Answering, Resting, Booting, Still, Waiting, CancelInv,
       OwnerInv
  <2>4. pc \in Waiting => (call.kind # "write" /\ RequestSent) \/ PayloadSent
    BY <1>2, <2>1 DEF PhaseInv, AwaitsReply, Answering, Serving, Working, Waiting
  <2>5. ChannelInv'
    BY <1>1, <1>2, <1>3, <1>5, Acknowledges DEF ChannelInv, InUse
  <2>6. PhaseInv'
    <3>1. CASE pc \in Still
      BY <1>1, <1>2, <1>3, <1>5, <3>1, Acknowledges DEF PhaseInv, Still
    <3>2. CASE pc \in Waiting
      BY <1>1, <1>3, <1>5, <2>4, <3>2, Acknowledges DEF PhaseInv, Still, AwaitsReply, Waiting
    <3>3. CASE pc = "payload"
      BY <1>1, <1>2, <1>3, <1>5, <3>3, Acknowledges DEF PhaseInv, Still
    <3>4. QED
      BY <1>1, <2>3, <3>1, <3>2, <3>3 DEF PhaseInv, Still
  <2>7. QED
    BY <2>2, <2>5, <2>6
<1>6. CASE WorkerServes
  <2>1. worker.at = "ready" /\ down # <<>> /\ down' = Tail(down) /\ up' = up
    BY <1>6 DEF WorkerServes, WorkerStep, Take
  <2>2. UpInv' /\ DownInv'
    BY <1>1, <2>1, UpSame, DownSame
  <2>3. pc \in Waiting \cup {"payload", "close"}
    BY <1>2, <2>1 DEF PhaseInv, AwaitsBody, Answering, Resting, Booting, Still, Waiting, CancelInv,
       OwnerInv
  <2>4. pc \in Waiting => (call.kind # "write" /\ RequestSent) \/ PayloadSent
    BY <1>2, <2>1 DEF PhaseInv, AwaitsReply, Answering, Serving, Working, Waiting
  <2>5. pc = "payload" => RequestSent /\ call.kind = "write"
    BY <1>2 DEF PhaseInv, DownInv
  <2>6. ChannelInv'
    BY <1>1, <1>3, <1>6, Serves DEF ChannelInv, InUse
  <2>7. PhaseInv'
    BY <1>1, <1>3, <1>6, <2>3, <2>4, <2>5, Serves DEF PhaseInv, Still, Waiting, AwaitsReply
  <2>8. QED
    BY <2>2, <2>6, <2>7
<1>7. CASE WorkerPayload
  <2>1. worker.at = "payload" /\ down # <<>> /\ down' = Tail(down) /\ up' = up /\ Serving'
    BY <1>3, <1>7, TakesPayload DEF WorkerPayload, WorkerStep, Take
  <2>2. UpInv' /\ DownInv'
    BY <1>1, <2>1, UpSame, DownSame
  <2>3. pc \in Waiting \cup {"close"}
    BY <1>2, <2>1 DEF PhaseInv, AwaitsBody, Answering, Resting, Booting, RequestSent, Still,
       Waiting, CancelInv, OwnerInv
  <2>4. ChannelInv' /\ PhaseInv'
    BY <1>1, <2>1, <2>3 DEF ChannelInv, PhaseInv, InUse, AwaitsReply, Still, Waiting
  <2>5. QED
    BY <2>2, <2>4
<1>8. CASE HostCall
  <2>1. Serving /\ up' = up /\ down' = down /\ (Serving' \/ Answering("reply")')
    BY <1>3, <1>8, CallServed
  <2>2. UpInv' /\ DownInv'
    BY <1>1, <2>1, UpSame, DownSame
  <2>3. pc \in Waiting \cup {"close"} /\ up = <<>>
    BY <1>2, <2>1 DEF PhaseInv, AwaitsBody, Answering, Resting, Booting, RequestSent, Serving,
       Working,
       Still, Waiting, CancelInv, OwnerInv
  <2>4. ChannelInv' /\ PhaseInv'
    BY <1>1, <2>1, <2>3 DEF ChannelInv, PhaseInv, InUse, AwaitsReply, Still, Waiting
  <2>5. QED
    BY <2>2, <2>4
<1>9. CASE WorkerReplies
  <2>1. /\ Answering("reply") /\ up' = <<worker.reply>> /\ worker'.reply = worker.reply
           /\ up' = <<worker'.reply>>
        /\ \/ worker'.at = "zombie"
           \/ Answering("body")' /\ Bodied(worker.reply)'
           \/ Answering("ack")' /\ ~Bodied(worker.reply)'
    BY <1>3, <1>9, SendsReply
  <2>2. pc \in Waiting \cup {"close"}
    BY <1>2, <2>1 DEF PhaseInv, AwaitsBody, Answering, Resting, Booting, RequestSent, Still,
       Waiting,
       CancelInv, OwnerInv
  <2>3. DownInv'
    BY <1>1, <1>9, DownSame DEF WorkerReplies, WorkerSends
  <2>4. up'[1] = worker.reply /\ Len(up') <= 1 /\ Len(up') <= 2 /\ up' = <<up'[1]>>
    BY <2>1
  <2>5. ReplyTo(up[1])'
    BY <1>1, <2>1, <2>4 DEF Answering, ReplyTo
  <2>6. UpInv'
    BY <1>1, <2>2, <2>4, <2>5 DEF UpInv, Waiting
  <2>7. ChannelInv' /\ PhaseInv'
    <3>1. CASE worker'.at = "zombie"
      BY <3>1 DEF ChannelInv, PhaseInv, Alive, WorkerGone
    <3>2. CASE Answering("body")' /\ Bodied(worker.reply)'
      <4>1. AwaitsReply' /\ InUse'
        BY <2>1, <2>4, <3>2 DEF AwaitsReply, InUse
      <4>2. QED
        BY <1>1, <2>2, <4>1 DEF ChannelInv, PhaseInv, Still, Waiting
    <3>3. CASE Answering("ack")' /\ ~Bodied(worker.reply)'
      <4>1. AwaitsReply' /\ InUse'
        BY <2>1, <3>3 DEF AwaitsReply, InUse
      <4>2. QED
        BY <1>1, <2>2, <4>1 DEF ChannelInv, PhaseInv, Still, Waiting
    <3>4. QED
      BY <2>1, <3>1, <3>2, <3>3
  <2>8. QED
    BY <2>3, <2>6, <2>7
<1>10. CASE WorkerBody
  <2>1. /\ Answering("body") /\ up' = Append(up, BodyOf(worker.reply))
           /\ worker'.reply = worker.reply
        /\ Answering("ack")' /\ Len(up) <= 1
    BY <1>3, <1>10, SendsBody
  <2>2. pc \in Waiting \cup {"replied", "body", "reap body", "close"}
    BY <1>2, <2>1 DEF PhaseInv, AwaitsBody, Answering, Resting, Booting, RequestSent, Still,
       Waiting,
       CancelInv, OwnerInv
  <2>3. DownInv'
    BY <1>1, <1>10, DownSame DEF WorkerBody, WorkerSends
  <2>4. CASE pc \in Waiting
    <3>1. up = <<worker.reply>> /\ Bodied(worker.reply)
      BY <1>2, <2>1, <2>4 DEF PhaseInv, Waiting, AwaitsReply, Answering, RequestSent, PayloadSent,
         Serving, Working
    <3>2. up' = <<worker.reply, BodyOf(worker.reply)>>
      BY <2>1, <3>1, Pair
    <3>3. up' = <<worker'.reply, BodyOf(worker.reply)'>> /\ Bodied(worker.reply)'
      BY <1>1, <2>1, <3>1, <3>2, Bodies
    <3>4. up'[1] = worker'.reply /\ Len(up') = 2 /\ up'[1] = worker.reply
      BY <2>1, <3>3
    <3>5. ReplyTo(up[1])' /\ Bodied(up[1])' /\ BodyOf(up[1])' = BodyOf(worker.reply)'
      BY <1>1, <2>1, <3>3, <3>4 DEF Answering, ReplyTo, Bodied, BodyOf
    <3>6. UpInv'
      <4>1. up' = <<up'[1], BodyOf(up[1])'>> /\ Len(up') <= 2
        BY <3>3, <3>4, <3>5
      <4>2. QED
        BY <1>1, <2>4, <3>5, <4>1 DEF UpInv, Waiting
    <3>7. ChannelInv' /\ PhaseInv'
      BY <1>1, <2>1, <2>4, <3>3 DEF ChannelInv, PhaseInv, AwaitsReply, Still, Waiting
    <3>8. QED
      BY <2>3, <3>6, <3>7
  <2>5. CASE pc \in {"replied", "body", "reap body"}
    <3>1. up = <<>> /\ Bodied(worker.reply)
      BY <1>2, <2>1, <2>5 DEF PhaseInv, AwaitsBody, Answering
    <3>2. up' = <<BodyOf(worker.reply)>> /\ Len(up') = 1
      BY <2>1, <3>1
    <3>3. up' = <<BodyOf(worker.reply)'>> /\ Bodied(worker.reply)' /\ up' = <<up'[1]>>
      BY <1>1, <2>1, <3>1, <3>2, Bodies
    <3>4. pc = "replied" => worker'.reply = x'.frame /\ worker.reply = x.frame
      BY <1>1, <1>2, <2>1 DEF PhaseInv
    <3>5. pc = "replied" => up' = <<BodyOf(x.frame)'>> /\ Bodied(x.frame)' /\ ReplyTo(x.frame)'
      BY <1>1, <2>1, <3>2, <3>1, <3>4, Bodies DEF UpInv, ReplyTo
    <3>6. UpInv'
      <4>1. up' = <<up'[1]>> /\ Len(up') <= 2
        BY <3>2, <3>3
      <4>2. QED
        BY <1>1, <2>5, <3>5, <4>1 DEF UpInv
    <3>7. ChannelInv' /\ PhaseInv'
      BY <1>1, <2>1, <2>5, <3>3, <3>4 DEF ChannelInv, PhaseInv, AwaitsBody, Still
    <3>8. QED
      BY <2>3, <3>6, <3>7
  <2>6. CASE pc = "close"
    <3>1. Len(up') <= 2
      <4>1. BodyOf(worker.reply) \in FrameType
        BY FrameIn DEF BodyOf, FrameTags, HostOK, HostType, WorkerOK, WorkerType, FrameType
      <4>2. QED
        BY <2>1, <4>1 DEF QueuesOK
    <3>2. UpInv'
      BY <1>1, <2>6, <3>1 DEF UpInv
    <3>3. ChannelInv' /\ PhaseInv'
      BY <1>1, <2>1, <2>6 DEF ChannelInv, PhaseInv, InUse, Still
    <3>4. QED
      BY <2>3, <3>2, <3>3
  <2>7. QED
    BY <2>2, <2>4, <2>5, <2>6
<1>11. QED
  BY <1>4, <1>5, <1>6, <1>7, <1>8, <1>9, <1>10 DEF Worker, HostCall

\* The worker's steps keep the protocol.
LEMMA ProtocolPeer ==
  ASSUME Typed, CancelInv, OwnerInv, Protocol, Peer
  PROVE  Protocol'
  BY PeerGone, PeerClosed, PeerOpen DEF Peer

\* Outside of close a live worker belongs to the host.
LEMMA AliveIsOwned ==
  ASSUME OwnerInv, Alive, pc \notin Stopping
  PROVE  host.worker
  BY DEF OwnerInv, Alive, WorkerGone

\* Steps between the supervisor's points of rest, or from one to close.
LEMMA Rested ==
  ASSUME Typed, OwnerInv, Protocol, pc \in Still, UNCHANGED <<host, down, up, worker>>,
         pc' \in (Still \ {"bound", "acked"}) \cup {"close"}
  PROVE  Protocol'
<1> USE DEF Protocol
<1>1. up = <<>> /\ Len(up) <= 2
  BY DEF UpInv, Still
<1>2. Alive => host.worker /\ Resting(host.request)
  BY AliveIsOwned DEF Still, PhaseInv
<1>3. Alive' <=> Alive
  BY DEF Alive, WorkerGone
<1>4. Resting(host.request) => Resting(host.request)'
  BY DEF Resting
<1>5. UpInv' /\ DownInv'
  BY <1>1 DEF UpInv, DownInv, Still
<1>6. ChannelInv' /\ PhaseInv'
  BY <1>2, <1>3, <1>4 DEF ChannelInv, PhaseInv, InUse, Still
<1>7. QED
  BY <1>5, <1>6

\* Steps that leave supervisor, socket and worker alone keep the protocol.
LEMMA ProtocolSame ==
  ASSUME Protocol, UNCHANGED <<pc, call, x, host, down, up, worker>>
  PROVE  Protocol'
<1> USE DEF Protocol
<1>1. Current' = Current /\ Payload' = Payload /\ IsEntropy' = IsEntropy
  BY SameMessages
<1>2. /\ BodyOf(worker.reply)' = BodyOf(worker.reply)
         /\ (Bodied(worker.reply)' <=> Bodied(worker.reply))
      /\ (ReplyTo(worker.reply)' <=> ReplyTo(worker.reply)) /\ (Alive' <=> Alive)
  BY <1>1 DEF BodyOf, Bodied, ReplyTo, Alive, WorkerGone
<1>3. /\ Booting' <=> Booting
      /\ Resting(host.request)' <=> Resting(host.request)
      /\ Resting(host.request - 1)' <=> Resting(host.request - 1)
      /\ RequestSent' <=> RequestSent
      /\ PayloadSent' <=> PayloadSent
      /\ Serving' <=> Serving
      /\ Working' <=> Working
      /\ Answering("reply")' <=> Answering("reply")
      /\ Answering("body")' <=> Answering("body")
      /\ Answering("ack")' <=> Answering("ack")
  BY <1>1, <1>2 DEF Booting, Resting, RequestSent, PayloadSent, Serving, Working, Answering
<1>4. (InUse' <=> InUse) /\ (AwaitsReply' <=> AwaitsReply) /\ (AwaitsBody' <=> AwaitsBody)
  BY <1>2, <1>3 DEF InUse, AwaitsReply, AwaitsBody
<1>5. ChannelInv' /\ PhaseInv'
  <2>1. ChannelInv'
    BY <1>2, <1>3, <1>4 DEF ChannelInv
  <2>2. PhaseInv'
    BY <1>2, <1>3, <1>4 DEF PhaseInv
  <2>3. QED
    BY <2>1, <2>2
<1>6. UpInv' /\ DownInv'
  BY UpSame DEF DownInv
<1>7. QED
  BY <1>5, <1>6

\* The steps of a call keep the protocol: they are taken when the worker is at rest.
LEMMA ProtocolCalling ==
  ASSUME Typed, OwnerInv, Protocol, Calling
  PROVE  Protocol'
<1>1. UNCHANGED <<host, down, up, worker>>
  BY CallingFrame
<1>2. pc \in Still
  BY DEF Calling, AdmissionFails, Admit, CallSucceeds, CandidatesExhausted, ChunkRefused,
     StartChunk,
     Settle, RetryChunk, ChunkFails, ChunkSucceeds, ChunkDue, Still
<1>3. \A result : Return(result) => pc' \in {"idle", "close"}
  BY ReturnEffect DEF Typed
<1>4. pc' \in {"idle", "close", "chunk", "launch", "failed", "result"}
  BY <1>3 DEF Calling, AdmissionFails, Admit, CallSucceeds, CandidatesExhausted, ChunkRefused,
     StartChunk,
     Settle, RetryChunk, ChunkFails, ChunkSucceeds
<1>5. QED
  BY <1>1, <1>2, <1>4, Rested DEF Still

\* The program, the signals and the clock keep the protocol.
LEMMA ProtocolWorld ==
  ASSUME Typed, OwnerInv, Protocol, World
  PROVE  Protocol'
<1>1. UNCHANGED <<x, host, down, up, worker>>
  BY WorldFrame
<1>2. CASE \E c \in Calls : Invoke(c)
  <2>1. pc = "idle" /\ pc' = "admission"
    BY <1>2 DEF Invoke
  <2>2. QED
    BY <1>1, <2>1, Rested DEF Still
<1>3. CASE Finish
  <2>1. pc = "idle" /\ pc' \in {"close", "done"}
    BY <1>3 DEF Finish
  <2>2. QED
    BY <1>1, <2>1, Rested DEF Still
<1>4. CASE UNCHANGED <<pc, call>>
  BY <1>1, <1>4, ProtocolSame
<1>5. QED
  BY <1>2, <1>3, <1>4, WorldFrame

\* The protocol holds before there is a worker.
LEMMA ProtocolInit ==
  ASSUME Init
  PROVE  Protocol
<1>1. ~Alive /\ down = <<>> /\ up = <<>> /\ pc = "idle"
  BY DEF Init, Alive, WorkerGone, NoWorker
<1>2. Len(down) = 0 /\ Len(up) = 0
  BY <1>1
<1>3. QED
  BY <1>1, <1>2 DEF Protocol, ChannelInv, PhaseInv, UpInv, DownInv

\* The steps of close keep the protocol: they send nothing.
LEMMA ProtocolClosing ==
  ASSUME Typed, CancelInv, OwnerInv, ReportInv, Protocol, Closing
  PROVE  Protocol'
<1> USE DEF Typed, Protocol
<1>1. UNCHANGED call
  BY ClosingFrame
<1>2. CASE CloseSocket
  <2>1. /\ pc = "close" /\ pc' \in {"terminate", "terminal"} /\ down' = <<>> /\ up' = <<>>
        /\ worker' = worker /\ x'.length = x.length /\ host'.worker = FALSE
           /\ host'.request = host.request
    BY <1>2 DEF CloseSocket, CloseStep, HostOK, HostType, ChunkOK, ChunkType
  <2>2. Alive /\ Working => Serving
    <3>1. CASE host.worker
      BY <2>1, <3>1 DEF ChannelInv, InUse, Booting, Resting, RequestSent, PayloadSent, Answering,
         Working
    <3>2. CASE ~host.worker
      BY <3>2 DEF ChannelInv
    <3>3. QED
      BY <3>1, <3>2
  <2>3. Current' = Current /\ IsEntropy' = IsEntropy
    BY <1>1, <2>1, SameMessages
  <2>4. ChannelInv'
    BY <2>1, <2>2, <2>3 DEF ChannelInv, Serving, Working, Alive, WorkerGone
  <2>5. Len(up') <= 2 /\ Len(down') <= 3
    BY <2>1
  <2>6. QED
    BY <2>1, <2>4, <2>5 DEF PhaseInv, UpInv, DownInv
<1>3. CASE Closing /\ ~CloseSocket
  <2>1. /\ pc \in Stopping \cup Restoring /\ UNCHANGED <<down, up>>
        /\ pc' \in Stopping \cup Restoring \cup {"idle", "settle", "done"}
        /\ host'.worker = host.worker /\ host'.request = host.request /\ x'.length = x.length
        /\ \/ worker' = NoWorker
           \/ worker'.at = worker.at /\ worker'.served = worker.served /\ worker'.job = worker.job
    BY <1>3 DEF Closing, Terminate, Grace, Wait, RestoreTerminal, PollSignals, RestoreSignals,
       DropLease,
       Closed, CloseStep, Goto, channels, Reaped, HostOK, HostType, ChunkOK, ChunkType, WorkerOK,
       WorkerType,
       ReportInv
  <2>2. ~host.worker /\ down = <<>> /\ up = <<>>
    BY <2>1 DEF OwnerInv, DownInv, UpInv
  <2>3. Current' = Current /\ IsEntropy' = IsEntropy
    BY <1>1, <2>1, SameMessages
  <2>4. ChannelInv'
    <3>1. CASE worker' = NoWorker
      BY <3>1 DEF ChannelInv, Alive, WorkerGone, NoWorker
    <3>2. CASE worker'.at = worker.at /\ worker'.served = worker.served
               /\ worker'.job = worker.job
      BY <2>1, <2>2, <2>3, <3>2 DEF ChannelInv, Serving, Working, Alive, WorkerGone
    <3>3. QED
      BY <2>1, <3>1, <3>2
  <2>5. Len(up') <= 2 /\ Len(down') <= 3
    <3>1. up' = <<>> /\ down' = <<>>
      BY <2>1, <2>2
    <3>2. QED
      BY ONLY <3>1
  <2>6. QED
    BY <2>1, <2>2, <2>4, <2>5 DEF PhaseInv, UpInv, DownInv
<1>4. QED
  BY <1>2, <1>3

\* A failure before or during the exchange: only the supervisor moves, to close.
LEMMA Fails ==
  ASSUME Typed, CancelInv, OwnerInv, Protocol, pc \notin Stopping,
         UNCHANGED <<call, host, down, up, worker>>,
         x'.length = x.length, pc' = "close"
  PROVE  Protocol'
<1> USE DEF Protocol
<1>1. Current' = Current /\ Payload' = Payload /\ IsEntropy' = IsEntropy
  BY SameMessages
<1>2. (Alive' <=> Alive) /\ (Alive => host.worker)
  BY AliveIsOwned DEF Alive, WorkerGone
<1>3. Alive => InUse \/ Resting(host.request - 1)
  BY <1>2, InUseNow
<1>4. ReplyTo(worker.reply)' <=> ReplyTo(worker.reply)
  BY <1>1 DEF ReplyTo
<1>5. (InUse => InUse') /\ (Resting(host.request - 1) => Resting(host.request - 1)')
  BY <1>1, <1>4 DEF InUse, Booting, Resting, RequestSent, PayloadSent, Serving, Working, Answering
<1>6. ChannelInv' /\ PhaseInv'
  BY <1>2, <1>3, <1>5 DEF ChannelInv, PhaseInv, Still
<1>7. UpInv' /\ DownInv'
  BY DEF UpInv, DownInv
<1>8. QED
  BY <1>6, <1>7

\* A record the supervisor has dealt with: the phase changes, nothing else.
LEMMA Handles ==
  ASSUME Typed, CancelInv, OwnerInv, Protocol, UNCHANGED <<call, host, down, up, worker>>,
         x'.length = x.length,
         \/ pc = "replied" /\ pc' = "body" /\ Bodied(x.frame)
         \/ pc = "replied" /\ pc' = "ack" /\ ~Bodied(x.frame)
         \/ pc = "received" /\ pc' = "ack"
  PROVE  Protocol'
<1> USE DEF Protocol
<1>1. Current' = Current /\ Payload' = Payload /\ IsEntropy' = IsEntropy
  BY SameMessages
<1>2. (Alive' <=> Alive) /\ (Alive => host.worker)
  BY AliveIsOwned DEF Alive, WorkerGone
<1>3. /\ (ReplyTo(worker.reply)' <=> ReplyTo(worker.reply))
      /\ BodyOf(worker.reply)' = BodyOf(worker.reply)
      /\ (Bodied(worker.reply)' <=> Bodied(worker.reply))
  BY <1>1 DEF ReplyTo, BodyOf, Bodied
<1>4. (AwaitsBody => AwaitsBody') /\ (Answering("ack") => Answering("ack")')
  BY <1>1, <1>3 DEF AwaitsBody, Answering
<1>5. ChannelInv' /\ PhaseInv'
  BY <1>2, <1>3, <1>4 DEF ChannelInv, PhaseInv, Still
<1>6. UpInv' /\ DownInv'
  <2>1. pc = "replied" => up = <<>> \/ (Bodied(x.frame) /\ up = <<BodyOf(x.frame)>>)
    BY DEF UpInv
  <2>2. pc = "replied" => up = <<>> \/ (Bodied(x.frame) /\ up = <<up[1]>>)
    BY <2>1
  <2>3. QED
    BY <2>2 DEF UpInv, DownInv
<1>7. QED
  BY <1>5, <1>6

\* A worker that is started has received nothing.
LEMMA SpawnProtocol ==
  ASSUME Typed, CancelInv, OwnerInv, Protocol, Spawn
  PROVE  Protocol'
<1>1. /\ pc = "launch" /\ ~host.closed /\ ~host.worker /\ pc' = "bind" /\ down' = <<>>
         /\ up' = <<>>
      /\ host'.request = host.request /\ host'.worker = TRUE
      /\ worker'.at = "boot" /\ worker'.served = 0
  BY DEF Spawn, Typed, HostOK, HostType, NoWorker
<1>2. host.request = 0
  BY <1>1 DEF OwnerInv
<1>3. Booting'
  BY <1>1, <1>2 DEF Booting
<1>4. Len(down') <= 3 /\ Len(up') <= 2
  BY <1>1
<1>5. QED
  BY <1>1, <1>3, <1>4 DEF Protocol, ChannelInv, PhaseInv, UpInv, DownInv, Still

\* Binding a new worker keeps the protocol.
LEMMA BindProtocol ==
  ASSUME Typed, CancelInv, OwnerInv, Protocol, Bind
  PROVE  Protocol'
<1> USE DEF Protocol
<1>1. CASE Send("bind", Frame("BIND", 0, 0, 0), "ready", x) /\ UNCHANGED host
  <2>1. /\ pc = "bind" /\ pc' = "ready" /\ Alive /\ down' = Append(down, BindFrame)
        /\ UNCHANGED <<up, worker, host, call, x>>
    BY <1>1 DEF Send, BindFrame, Alive
  <2>2. host.worker /\ Booting /\ down = <<>>
    BY <2>1, AliveIsOwned DEF PhaseInv
  <2>3. down' = <<BindFrame>> /\ up' = <<>> /\ Len(down') <= 3 /\ Len(up') <= 2
    BY <2>1, <2>2 DEF Booting
  <2>4. Booting'
    BY <2>1, <2>2, <2>3 DEF Booting
  <2>5. QED
    BY <2>1, <2>2, <2>3, <2>4 DEF ChannelInv, PhaseInv, UpInv, DownInv, Still
<1>2. CASE SendFails("bind", x) /\ UNCHANGED host
  BY <1>2, Fails DEF SendFails, channels, Typed, ChunkOK, ChunkType
<1>3. QED
  BY <1>1, <1>2 DEF Bind

\* A request is sent to a worker at rest, whose last answer may not be acknowledged yet.
LEMMA SendRequestProtocol ==
  ASSUME Typed, CancelInv, OwnerInv, Protocol, SendRequest
  PROVE  Protocol'
<1> USE DEF Protocol
<1>1. /\ pc = "request" /\ pc' = (IF call.kind = "write" THEN "payload" ELSE "reply") /\ Alive
      /\ down' = Append(down, Frame(RequestTag, host.request + 1, x.length, call.done))
      /\ UNCHANGED <<up, worker, call>>
  BY DEF SendRequest, Send, Alive
<1>2. x'.length = x.length /\ host'.request = host.request + 1 /\ host'.worker = host.worker
  BY DEF SendRequest, Send, Attempted, NextRequest, Typed, ChunkOK, ChunkType, HostOK, HostType
<1>3. Current' = Frame(RequestTag, host.request + 1, x.length, call.done)
  BY <1>1, <1>2 DEF Current, RequestTag, IsEntropy, Role
<1>4. host.worker /\ Resting(host.request) /\ up = <<>>
  BY <1>1, AliveIsOwned DEF PhaseInv, Still, UpInv
<1>5. host'.request - 1 = host.request /\ host'.request > 0
  BY <1>2 DEF Typed, HostOK, HostType
<1>6. RequestSent' /\ Len(down') <= 3 /\ Len(up') <= 2
  <2>1. CASE worker.at = "ready" /\ down = <<>>
    <3>1. down' = <<Current'>> /\ Len(down') <= 3 /\ up' = <<>> /\ Len(up') <= 2
      BY <1>1, <1>3, <1>4, <2>1
    <3>2. QED
      BY <1>1, <1>4, <1>5, <2>1, <3>1 DEF Resting, RequestSent
  <2>2. CASE worker.at = "ack" /\ down = <<Ack(host.request)>>
    <3>1. down' = <<Ack(host.request), Current'>> /\ up' = <<>>
      BY <1>1, <1>3, <1>4, <2>2, Pair
    <3>2. Len(down') <= 3 /\ Len(up') <= 2
      BY <3>1
    <3>3. down' = <<Ack(host.request - 1)', Current'>>
      BY <1>5, <3>1 DEF Ack
    <3>4. QED
      BY <1>1, <1>4, <1>5, <2>2, <3>1, <3>2, <3>3 DEF Resting, RequestSent
  <2>3. QED
    BY <1>4, <2>1, <2>2 DEF Resting
<1>7. ChannelInv' /\ PhaseInv'
  BY <1>1, <1>2, <1>4, <1>6 DEF ChannelInv, PhaseInv, AwaitsReply, Still
<1>8. UpInv' /\ DownInv'
  BY <1>1, <1>2, <1>4, <1>5, <1>6 DEF UpInv, DownInv
<1>9. QED
  BY <1>7, <1>8

\* A request that could not be sent leaves a number that is not used again.
LEMMA RequestFailsProtocol ==
  ASSUME Typed, CancelInv, OwnerInv, Protocol, RequestFails
  PROVE  Protocol'
<1> USE DEF Protocol
<1>1. pc = "request" /\ pc' = "close" /\ UNCHANGED <<down, up, worker, call>>
  BY DEF RequestFails, SendFails, channels
<1>2. host'.request = host.request + 1 /\ host'.worker = host.worker
  BY DEF RequestFails, NextRequest, Typed, HostOK, HostType
<1>3. up = <<>> /\ (Alive => host.worker /\ Resting(host.request)) /\ (Alive' <=> Alive)
  BY <1>1, AliveIsOwned DEF PhaseInv, Still, UpInv, Alive, WorkerGone
<1>4. host'.request - 1 = host.request
  BY <1>2 DEF Typed, HostOK, HostType
<1>5. Resting(host.request) => Resting(host.request - 1)'
  BY <1>1, <1>4 DEF Resting, Ack
<1>6. ChannelInv' /\ PhaseInv'
  BY <1>1, <1>2, <1>3, <1>5 DEF ChannelInv, PhaseInv, Still
<1>7. UpInv' /\ DownInv'
  BY <1>1, <1>2 DEF UpInv, DownInv
<1>8. QED
  BY <1>6, <1>7

\* The payload follows its request.
LEMMA SendPayloadProtocol ==
  ASSUME Typed, CancelInv, OwnerInv, Protocol, SendPayload
  PROVE  Protocol'
<1> USE DEF Protocol
<1>1. CASE Send("payload", Frame("PAYLOAD", host.request, x.length, call.done), "reply", x)
           /\ UNCHANGED host
  <2>1. /\ pc = "payload" /\ pc' = "reply" /\ Alive /\ down' = Append(down, Payload)
        /\ UNCHANGED <<up, worker, host, call, x>>
    BY <1>1 DEF Send, Payload, Alive
  <2>2. host.worker /\ RequestSent /\ call.kind = "write" /\ up = <<>>
    BY <2>1, AliveIsOwned DEF PhaseInv, DownInv, RequestSent
  <2>3. Current' = Current /\ Payload' = Payload
    BY <2>1, SameMessages
  <2>4. PayloadSent' /\ Len(down') <= 3 /\ Len(up') <= 2
    <3>1. CASE worker.at = "ack" /\ down = <<Ack(host.request - 1), Current>>
      <4>1. down' = <<Ack(host.request - 1), Current, Payload>> /\ up' = <<>>
        BY <2>1, <2>2, <3>1, Triple
      <4>2. Len(down') <= 3 /\ Len(up') <= 2
        BY <4>1
      <4>3. worker.served = host.request - 1
        BY <2>2, <3>1 DEF RequestSent
      <4>4. QED
        BY <2>1, <2>2, <2>3, <3>1, <4>1, <4>2, <4>3 DEF PayloadSent, Ack
    <3>2. CASE worker.at = "ready" /\ down = <<Current>>
      <4>1. down' = <<Current, Payload>> /\ up' = <<>>
        BY <2>1, <2>2, <3>2, Pair
      <4>2. Len(down') <= 3 /\ Len(up') <= 2
        BY <4>1
      <4>3. worker.served = host.request - 1
        BY <2>2, <3>2 DEF RequestSent
      <4>4. QED
        BY <2>1, <2>2, <2>3, <3>2, <4>1, <4>2, <4>3 DEF PayloadSent
    <3>3. CASE worker.at = "payload" /\ down = <<>>
      <4>1. down' = <<Payload>> /\ up' = <<>>
        BY <2>1, <2>2, <3>3
      <4>2. Len(down') <= 3 /\ Len(up') <= 2
        BY <4>1
      <4>3. worker.served = host.request /\ worker.job = Current
        BY <2>2, <3>3 DEF RequestSent
      <4>4. QED
        BY <2>1, <2>2, <2>3, <3>3, <4>1, <4>2, <4>3 DEF PayloadSent
    <3>4. QED
      BY <2>2, <3>1, <3>2, <3>3 DEF RequestSent
  <2>5. ChannelInv' /\ PhaseInv'
    BY <2>1, <2>2, <2>4 DEF ChannelInv, PhaseInv, AwaitsReply, Still
  <2>6. UpInv' /\ DownInv'
    BY <2>1, <2>2, <2>4 DEF UpInv, DownInv
  <2>7. QED
    BY <2>5, <2>6
<1>2. CASE SendFails("payload", x) /\ UNCHANGED host
  BY <1>2, Fails DEF SendFails, channels, Typed, ChunkOK, ChunkType
<1>3. QED
  BY <1>1, <1>2 DEF SendPayload

\* The acknowledgement of an answer puts the worker to rest.
LEMMA AcknowledgeProtocol ==
  ASSUME Typed, CancelInv, OwnerInv, Protocol, Acknowledge
  PROVE  Protocol'
<1> USE DEF Protocol
<1>1. CASE Send("ack", Frame("ACK", host.request, 0, 0), "acked", x) /\ UNCHANGED host
  <2>1. /\ pc = "ack" /\ pc' = "acked" /\ Alive /\ down' = Append(down, Ack(host.request))
        /\ UNCHANGED <<up, worker, host, call, x>>
    BY <1>1 DEF Send, Ack, Alive
  <2>2. host.worker /\ Answering("ack") /\ up = <<>>
    BY <2>1, AliveIsOwned DEF PhaseInv, UpInv
  <2>3. down' = <<Ack(host.request)>> /\ Len(down') <= 3
    BY <2>1, <2>2 DEF Answering
  <2>4. Resting(host.request)'
    BY <2>1, <2>2, <2>3 DEF Resting, Answering, Ack
  <2>5. ChannelInv' /\ PhaseInv'
    BY <2>1, <2>2, <2>4 DEF ChannelInv, PhaseInv, Still
  <2>6. UpInv' /\ DownInv'
    BY <2>1, <2>2, <2>3 DEF UpInv, DownInv
  <2>7. QED
    BY <2>5, <2>6
<1>2. CASE SendFails("ack", x) /\ UNCHANGED host
  BY <1>2, Fails DEF SendFails, channels, Typed, ChunkOK, ChunkType
<1>3. QED
  BY <1>1, <1>2 DEF Acknowledge

\* Waiting for a record: the socket is empty, the worker may be reaped.
LEMMA Waits ==
  ASSUME Typed, OwnerInv, Protocol, UNCHANGED <<call, x, down, up>>,
         host'.worker = host.worker, host'.request = host.request,
         worker' = worker \/ worker' = NoWorker,
         \/ pc \in {"ready", "reap ready"} /\ pc' \in {"ready", "reap ready"}
         \/ pc \in {"reply", "reap reply"} /\ pc' \in {"reply", "reap reply"}
         \/ pc \in {"body", "reap body"} /\ pc' \in {"body", "reap body"}
  PROVE  Protocol'
<1> USE DEF Protocol
<1>0. \/ pc \in {"ready", "reap ready"} /\ pc' \in {"ready", "reap ready"}
      \/ pc \in {"reply", "reap reply"} /\ pc' \in {"reply", "reap reply"}
      \/ pc \in {"body", "reap body"} /\ pc' \in {"body", "reap body"}
  OBVIOUS
<1>1. Current' = Current /\ Payload' = Payload /\ IsEntropy' = IsEntropy
  BY SameMessages
<1>2. UpInv'
  <2>1. /\ BodyOf(up[1])' = BodyOf(up[1])
        /\ (Bodied(up[1])' <=> Bodied(up[1])) /\ (ReplyTo(up[1])' <=> ReplyTo(up[1]))
    BY <1>1 DEF BodyOf, Bodied, ReplyTo
  <2>2. QED
    BY <1>0, <2>1 DEF UpInv
<1>3. DownInv'
  BY <1>0 DEF DownInv
<1>4. ChannelInv' /\ PhaseInv'
  <2>1. CASE worker' = NoWorker
    BY <2>1 DEF ChannelInv, PhaseInv, Alive, WorkerGone, NoWorker
  <2>2. CASE worker' = worker
    <3>1. /\ BodyOf(worker.reply)' = BodyOf(worker.reply)
             /\ (Bodied(worker.reply)' <=> Bodied(worker.reply))
          /\ (ReplyTo(worker.reply)' <=> ReplyTo(worker.reply)) /\ (Alive' <=> Alive)
          /\ (Alive => host.worker)
      BY <1>0, <1>1, <2>2, AliveIsOwned DEF BodyOf, Bodied, ReplyTo, Alive, WorkerGone
    <3>2. /\ Booting => Booting'
          /\ Resting(host.request) => Resting(host.request)'
          /\ RequestSent => RequestSent'
          /\ PayloadSent => PayloadSent'
          /\ Serving => Serving'
          /\ Answering("reply") => Answering("reply")'
          /\ Answering("body") => Answering("body")'
          /\ Answering("ack") => Answering("ack")'
      BY <1>1, <2>2, <3>1 DEF Booting, Resting, RequestSent, PayloadSent, Serving, Working,
         Answering
    <3>3. (AwaitsReply => AwaitsReply') /\ (AwaitsBody => AwaitsBody')
      BY <2>2, <3>1, <3>2 DEF AwaitsReply, AwaitsBody
    <3>4. QED
      BY <1>0, <2>2, <3>1, <3>2, <3>3 DEF ChannelInv, PhaseInv, Still
  <2>3. QED
    BY <2>1, <2>2
<1>5. QED
  BY <1>2, <1>3, <1>4

\* The record the supervisor receives is the one its phase waits for.
LEMMA ReceiveRecordProtocol ==
  ASSUME Typed, CancelInv, OwnerInv, Protocol, ReceiveRecord
  PROVE  Protocol'
<1> USE DEF Protocol
<1>1. /\ up # <<>> /\ up' = Tail(up) /\ x' = [x EXCEPT !.frame = Head(up)] /\ pc' = Handler[pc]
      /\ pc \in {"ready", "reply", "body"} /\ UNCHANGED <<call, host, down, worker>>
  BY DEF ReceiveRecord, Receiving
<1>2. x'.length = x.length /\ x'.frame = Head(up)
  BY <1>1 DEF Typed, ChunkOK, ChunkType
<1>3. Current' = Current /\ IsEntropy' = IsEntropy
  BY <1>1, <1>2, SameMessages
<1>4. (Alive' <=> Alive) /\ (Alive => host.worker)
  BY <1>1, AliveIsOwned DEF Alive, WorkerGone
<1>5. /\ ReplyTo(worker.reply)' <=> ReplyTo(worker.reply)
      /\ Answering("body") => Answering("body")'
      /\ Answering("ack") => Answering("ack")'
      /\ Resting(host.request) => Resting(host.request)'
  BY <1>1, <1>2, <1>3 DEF ReplyTo, Answering, Resting
<1>6. CASE pc = "ready"
  <2>1. up = <<ReadyFrame>>
    BY <1>1, <1>6 DEF UpInv
  <2>2. up' = <<>> /\ x'.frame = ReadyFrame /\ Len(up') <= 2 /\ pc' = "bound"
    BY <1>1, <1>2, <1>6, <2>1, HandlerOf
  <2>3. Alive => Resting(host.request)
    BY <1>1, <1>4, <1>6 DEF PhaseInv, Booting
  <2>4. QED
    BY <1>1, <1>4, <1>5, <2>2, <2>3 DEF ChannelInv, PhaseInv, UpInv, DownInv, Still, ReadyFrame
<1>7. CASE pc = "reply"
  <2>1. pc' = "replied"
    BY <1>1, <1>7, HandlerOf
  <2>2. ReplyTo(up[1]) /\ (up = <<up[1]>> \/ (up = <<up[1], BodyOf(up[1])>> /\ Bodied(up[1])))
    BY <1>1, <1>7 DEF UpInv
  <2>3. /\ x'.frame = up[1] /\ Len(up') <= 2
        /\ up' = <<>> \/ (up' = <<BodyOf(up[1])>> /\ Bodied(up[1]))
    <3>1. CASE up = <<up[1]>>
      BY <1>1, <1>2, <3>1
    <3>2. CASE up = <<up[1], BodyOf(up[1])>> /\ Bodied(up[1])
      <4> DEFINE a == up[1]
                 b == BodyOf(a)
      <4>1. up = <<a, b>> /\ Bodied(a)
        BY <3>2
      <4> HIDE DEF a, b
      <4>2. Head(up) = a /\ Tail(up) = <<b>>
        BY <4>1
      <4>3. Len(Tail(up)) <= 2
        BY <4>2
      <4>4. QED
        BY <1>1, <1>2, <4>1, <4>2, <4>3 DEF a, b
    <3>3. QED
      BY <2>2, <3>1, <3>2
  <2>4. ReplyTo(x.frame)' /\ BodyOf(x.frame)' = BodyOf(up[1])
        /\ (Bodied(x.frame)' <=> Bodied(up[1]))
    BY <1>1, <1>2, <1>3, <2>2, <2>3 DEF ReplyTo, BodyOf, Bodied
  <2>5. UpInv' /\ DownInv'
    BY <1>1, <1>7, <2>1, <2>3, <2>4 DEF UpInv, DownInv
  <2>6. ASSUME Alive
        PROVE  /\ worker'.reply = x'.frame
               /\ \/ AwaitsBody' /\ Bodied(worker.reply)'
                  \/ up' = <<>> /\ Answering("ack")' /\ ~Bodied(worker.reply)'
    <3>1. \/ up = <<worker.reply>> /\ Answering("body") /\ Bodied(worker.reply)
          \/ up = <<worker.reply>> /\ Answering("ack") /\ ~Bodied(worker.reply)
          \/ up = <<worker.reply, BodyOf(worker.reply)>> /\ Answering("ack")
             /\ Bodied(worker.reply)
      BY <1>1, <1>4, <1>7, <2>6 DEF PhaseInv, AwaitsReply, RequestSent, PayloadSent, Serving
    <3>2. BodyOf(worker.reply)' = BodyOf(worker.reply)
          /\ (Bodied(worker.reply)' <=> Bodied(worker.reply))
      BY <1>1 DEF BodyOf, Bodied
    <3>3. CASE up = <<worker.reply>> /\ (Answering("body") <=> Bodied(worker.reply))
               /\ (Answering("body") \/ Answering("ack"))
      <4>1. up' = <<>> /\ up[1] = worker.reply
        BY <1>1, <3>3
      <4>2. QED
        BY <1>1, <1>5, <2>3, <3>2, <3>3, <4>1 DEF AwaitsBody
    <3>4. CASE up = <<worker.reply, BodyOf(worker.reply)>> /\ Answering("ack")
               /\ Bodied(worker.reply)
      <4>1. up' = <<BodyOf(worker.reply)>> /\ up[1] = worker.reply
        BY <1>1, <3>4
      <4>2. QED
        BY <1>1, <1>5, <2>3, <3>2, <3>4, <4>1 DEF AwaitsBody
    <3>5. ~(Answering("body") /\ Answering("ack"))
      BY DEF Answering
    <3>6. QED
      BY <3>1, <3>3, <3>4, <3>5
  <2>7. ChannelInv' /\ PhaseInv'
    BY <1>1, <1>4, <2>1, <2>6 DEF ChannelInv, PhaseInv, Still
  <2>8. QED
    BY <2>5, <2>7
<1>8. CASE pc = "body"
  <2>1. up = <<up[1]>>
    BY <1>1, <1>8 DEF UpInv
  <2>2. up' = <<>> /\ Len(up') <= 2 /\ pc' = "received"
    BY <1>1, <1>8, <2>1, HandlerOf
  <2>3. Alive => Answering("ack")
    BY <1>1, <1>4, <1>8 DEF PhaseInv, AwaitsBody
  <2>4. QED
    BY <1>1, <1>4, <1>5, <1>8, <2>2, <2>3 DEF ChannelInv, PhaseInv, UpInv, DownInv, Still
<1>9. QED
  BY <1>1, <1>6, <1>7, <1>8

\* Dealing with the answer to a stream request keeps the protocol.
LEMMA StreamRepliedProtocol ==
  ASSUME Typed, CancelInv, OwnerInv, ChunkInv, Protocol, StreamReplied
  PROVE  Protocol'
<1>1. pc = "replied" /\ ~IsEntropy /\ UNCHANGED <<call, host, down, up, worker>>
  BY DEF StreamReplied, Handled, channels
<1>2. ReplyTo(x.frame) /\ x.length \in Nat
  BY <1>1 DEF Protocol, UpInv, Typed, ChunkOK, ChunkType
<1>3. x.frame.bytes \in 0..x.length /\ (x.frame.tag # "PROGRESS" => x.frame.bytes = 0)
  BY <1>1, <1>2 DEF ReplyTo
<1>4. x'.length = x.length
  BY DEF StreamReplied, Handled, Fail, AwaitBody, Confirmed, Typed, ChunkOK, ChunkType
<1>5. \/ pc' = "close"
      \/ pc' = "body" /\ call.kind = "read" /\ x.frame.bytes > 0
      \/ pc' = "ack" /\ ~(x.frame.tag = "PROGRESS" /\ call.kind = "read" /\ x.frame.bytes > 0)
  BY DEF StreamReplied, Fail, AwaitBody
<1>6. call.kind \in {"read", "write"}
  BY <1>1, TagOf DEF Typed, CallOK, CallStateType
<1>7. /\ pc' = "body" => Bodied(x.frame)
      /\ pc' = "ack" => ~Bodied(x.frame)
  BY <1>3, <1>5, <1>6 DEF Bodied
<1>8. QED
  BY <1>1, <1>4, <1>5, <1>7, Fails, Handles

\* Dealing with the answer to an entropy request keeps the protocol.
LEMMA FillRepliedProtocol ==
  ASSUME Typed, CancelInv, OwnerInv, ChunkInv, Protocol, FillReplied
  PROVE  Protocol'
<1>1. pc = "replied" /\ IsEntropy /\ UNCHANGED <<call, host, down, up, worker>>
  BY DEF FillReplied, Handled, channels
<1>2. ReplyTo(x.frame) /\ x.length > 0
  BY <1>1 DEF Protocol, UpInv, ChunkInv
<1>3. x'.length = x.length
  BY DEF FillReplied, Handled, Fail, AwaitBody, Typed, ChunkOK, ChunkType
<1>4. pc' = "close" \/ (pc' = "body" /\ x.frame.tag # "FAILED")
  BY <1>1, <1>2 DEF FillReplied, Fail, AwaitBody, ReplyTo
<1>5. pc' = "body" => Bodied(x.frame)
  BY <1>1, <1>2, <1>4, TagOf DEF Bodied, ReplyTo, Typed
<1>6. QED
  BY <1>1, <1>3, <1>4, <1>5, Fails, Handles

\* The steps of a transfer keep the protocol.
LEMMA ProtocolTransferring ==
  ASSUME Typed, CancelInv, OwnerInv, ChunkInv, Protocol, Transferring
  PROVE  Protocol'
<1> USE DEF Typed, ChunkOK, ChunkType, channels
<1>1. CASE HostRefuses \/ ReuseWorker
  BY <1>1, Rested DEF HostRefuses, ReuseWorker, Still
<1>2. CASE SpawnFails \/ RequestStale
  BY <1>2, Fails DEF SpawnFails, RequestStale, Fail, FailCancelled
<1>3. CASE ReceiveFails \/ RecordCancelled
  BY <1>3, Fails DEF ReceiveFails, RecordCancelled, Receiving, Fail, FailCancelled
<1>4. CASE ReceiveEmpty
  <2>1. \/ pc \in {"ready", "reap ready"} /\ pc' \in {"ready", "reap ready"}
        \/ pc \in {"reply", "reap reply"} /\ pc' \in {"reply", "reap reply"}
        \/ pc \in {"body", "reap body"} /\ pc' \in {"body", "reap body"}
    BY <1>4, ReapingOf DEF ReceiveEmpty, Receiving
  <2>2. QED
    BY <1>4, <2>1, Waits DEF ReceiveEmpty
<1>5. CASE ReapPeer
  <2>1. \/ pc \in {"ready", "reap ready"} /\ pc' \in {"ready", "reap ready"}
        \/ pc \in {"reply", "reap reply"} /\ pc' \in {"reply", "reap reply"}
        \/ pc \in {"body", "reap body"} /\ pc' \in {"body", "reap body"}
    BY <1>5, ReapingOf DEF ReapPeer
  <2>2. host'.worker = host.worker /\ host'.request = host.request
        /\ (worker' = worker \/ worker' = NoWorker)
    BY <1>5 DEF ReapPeer, Reaped, HostOK, HostType
  <2>3. QED
    BY <1>5, <2>1, <2>2, Waits DEF ReapPeer
<1>6. CASE Bound
  <2>1. pc = "bound" /\ UNCHANGED <<call, host, down, up, worker>>
    BY <1>6 DEF Bound, Handled
  <2>2. pc' \in {"request", "close"}
    BY <1>6 DEF Bound, Fail
  <2>3. QED
    BY <2>1, <2>2, Rested DEF Still
<1>7. CASE Received
  <2>1. pc = "received" /\ pc' = "ack" /\ UNCHANGED <<call, host, down, up, worker>>
    BY <1>7 DEF Received, Handled
  <2>2. x'.length = x.length
    BY <1>7 DEF Received
  <2>3. QED
    BY <2>1, <2>2, Handles
<1>8. CASE Acknowledged
  <2>1. pc = "acked" /\ pc' \in {"settle", "close"} /\ UNCHANGED <<call, host, down, up, worker>>
    BY <1>8 DEF Acknowledged, Handled, FailCancelled, Fail
  <2>2. QED
    BY <2>1, Rested DEF Still
<1>9. QED
  BY <1>1, <1>2, <1>3, <1>4, <1>5, <1>6, <1>7, <1>8, SpawnProtocol, BindProtocol,
     SendRequestProtocol,
     RequestFailsProtocol, SendPayloadProtocol, AcknowledgeProtocol, ReceiveRecordProtocol,
     StreamRepliedProtocol, FillRepliedProtocol
  DEF Transferring

\* The steps of a call keep every type.
LEMMA TypedCalling ==
  ASSUME Core, Calling
  PROVE  Typed'
<1> USE DEF Core, Typed
<1>1. StateOK' /\ ChunkOK' /\ CallOK'
  BY StateCalling, ChunkCalling, CallCalling DEF Protocol, Typed
<1>2. HostOK' /\ WorkerOK' /\ QueuesOK' /\ EnvironmentOK'
  BY CallingFrame DEF HostOK, WorkerOK, QueuesOK, EnvironmentOK
<1>3. QED
  BY <1>1, <1>2

\* The steps of a transfer keep every type.
LEMMA TypedTransferring ==
  ASSUME Core, Transferring
  PROVE  Typed'
<1> USE DEF Core, Typed
<1>1. ChunkOK' /\ HostOK' /\ WorkerOK' /\ QueuesOK'
  BY ChunkTransferring, HostTransferring, WorkerTransferring, QueuesTransferring DEF Protocol
<1>2. StateOK' /\ CallOK' /\ EnvironmentOK'
  BY TransferringFrame DEF StateOK, CallOK, EnvironmentOK
<1>3. QED
  BY <1>1, <1>2

\* The steps of close keep every type.
LEMMA TypedClosing ==
  ASSUME Core, Closing
  PROVE  Typed'
<1> USE DEF Core, Typed
<1>1. StateOK' /\ ChunkOK' /\ HostOK' /\ WorkerOK' /\ QueuesOK'
  BY StateClosing, ChunkClosing, HostClosing, WorkerClosing, QueuesClosing DEF Protocol
<1>2. CallOK' /\ EnvironmentOK'
  BY ClosingFrame DEF CallOK, EnvironmentOK
<1>3. QED
  BY <1>1, <1>2

\* The worker's steps keep every type.
LEMMA TypedPeer ==
  ASSUME Core, Peer
  PROVE  Typed'
<1> USE DEF Core, Typed
<1>1. WorkerOK' /\ QueuesOK' /\ EnvironmentOK'
  BY WorkerPeer, QueuesPeer, EnvironmentPeer DEF Protocol
<1>2. StateOK' /\ HostOK' /\ ChunkOK' /\ CallOK'
  BY FramedPeer
<1>3. QED
  BY <1>1, <1>2

\* The core invariant is inductive.
LEMMA CoreNext ==
  ASSUME Core, [Next]_vars
  PROVE  Core'
<1>1. CASE Calling
  BY <1>1, TypedCalling, CancelCalling, OwnerCalling, ReportCalling, NumbersCalling,
     ProtocolCalling DEF Core, Typed, Protocol
<1>2. CASE Transferring
  BY <1>2, TypedTransferring, CancelTransferring, OwnerTransferring, ReportTransferring,
     NumbersTransferring, ProtocolTransferring DEF Core, Typed, Protocol
<1>3. CASE Closing
  BY <1>3, TypedClosing, CancelClosing, OwnerClosing, ReportClosing, NumbersClosing,
     ProtocolClosing DEF Core, Typed, Protocol
<1>4. CASE Peer
  BY <1>4, TypedPeer, FramedPeer, OwnerPeer, ProtocolPeer DEF Core, Typed
<1>5. CASE World
  <2>1. CancelInv'
    BY <1>5, CancelRest DEF Core, World
  <2>2. QED
    BY <1>5, <2>1, TypesWorld, OwnerWorld, ReportWorld, NumbersWorld, ProtocolWorld DEF Core,
       Typed
<1>6. CASE UNCHANGED vars
  <2>1. Protocol'
    BY <1>6, ProtocolSame DEF Core, vars, channels
  <2>2. QED
    BY <1>6, <2>1, Stutter DEF Core
<1>7. QED
  BY <1>1, <1>2, <1>3, <1>4, <1>5, <1>6 DEF Next, Supervisor, Peer, World

\* The core invariant holds in every reachable state: types, cancellation, ownership, failed
\* cleanups, the chunk's numbers and the worker protocol, for any limits, chunk and word size.
THEOREM CoreInvariance == Spec => []Core
<1>1. Init => Core
  BY InitSound, ProtocolInit DEF Core
<1>2. Core /\ [Next]_vars => Core'
  BY CoreNext
<1>3. QED
  BY <1>1, <1>2, PTL DEF Spec

\* A signal that reached this process while the lease was held is never lost (NoLostSignal): once
\* the lease is gone the flag holds it, unless a disposition could not be restored at first.
THEOREM SignalsKept == Spec => []NoLostSignal
<1>1. Core => NoLostSignal
  BY DEF Core, CancelInv, NoLostSignal, LeaseType
<1>2. QED
  BY <1>1, CoreInvariance, PTL

\* Terminal modes and dispositions are given back only when no worker is left, both are when the
\* evaluation is done, a released lease has its dispositions back unless restoring them failed, and a
\* close that failed is reported exactly once (CleanupSound).
THEOREM CleanedUp == Spec => []CleanupSound
<1>1. ASSUME Core PROVE CleanupSound
  <2>1. (host.terminal # "lent" \/ ~lease.lent) => worker.at = "none"
    BY <1>1 DEF Core, OwnerInv
  <2>2. pc = "done" => host.terminal # "lent" /\ ~lease.lent
    BY <1>1 DEF Core, OwnerInv
  <2>3. pc = "done" => diagnostics = failures
    BY <1>1 DEF Core, ReportInv
  <2>4. ~lease.lent => host.terminal # "lent"
    BY <1>1 DEF Core, OwnerInv
  <2>5. ~lease.lent => (lease.installed => lease.failed)
    BY <1>1 DEF Core, CancelInv
  <2>6. QED
    BY <2>1, <2>2, <2>3, <2>4, <2>5 DEF CleanupSound
<1>2. QED
  BY <1>1, CoreInvariance, PTL

\* No host work outlives its call: between calls the worker is gone or waits for the next request,
\* a closed host has none, and a pid is owned until it is waited for (NoDetachedWork).
THEOREM WorkOwned == Spec => []NoDetachedWork
<1>1. ASSUME Core PROVE NoDetachedWork
  <2>1. host.pid <=> worker.at # "none"
    BY <1>1 DEF Core, OwnerInv
  <2>2. ASSUME AtRest PROVE \/ worker.at \in {"none", "zombie", "ready"}
                            \/ worker.at = "ack" /\ down # <<>> /\ Head(down).tag = "ACK"
    <3>1. CASE Alive
      <4>1. host.worker /\ pc \in Still
        BY <1>1, <2>2, <3>1, AliveIsOwned DEF Core, AtRest, Still
      <4>2. Resting(host.request)
        BY <1>1, <3>1, <4>1 DEF Core, Protocol, PhaseInv
      <4>3. QED
        BY <4>2, Tags DEF Resting
    <3>2. CASE ~Alive
      BY <3>2 DEF Alive, WorkerGone
    <3>3. QED
      BY <3>1, <3>2
  <2>3. AtRest /\ host.closed => worker.at = "none"
    BY <1>1 DEF Core, OwnerInv, AtRest
  <2>4. QED
    BY <2>1, <2>2, <2>3 DEF NoDetachedWork
<1>2. QED
  BY <1>1, CoreInvariance, PTL

\* After a cancellation no step turns the scope back, sends a request or starts a worker.
LEMMA FinalStep ==
  ASSUME Core, [Next]_vars, scope # "live"
  PROVE  /\ scope' = scope
         /\ host'.request = host.request
         /\ host'.worker => host.worker
<1> USE DEF Core, Typed, HostOK, HostType
<1>1. pc \in Unwinding /\ lease \in LeaseType /\ scope \in {"requested", "timeout"}
  BY DEF CancelInv
<1>2. \A until : Polled(until) => scope' = scope
  BY DEF Polled, Observed
<1>3. \A until : ~Live(until)
  BY DEF Live, Observed
<1>4. CASE Calling
  <2>1. UNCHANGED host
    BY <1>4, CallingFrame
  <2>2. scope' = scope
    BY <1>2, <1>4 DEF Calling, AdmissionFails, Admit, CallSucceeds, CandidatesExhausted,
       ChunkRefused,
       StartChunk, Settle, RetryChunk, ChunkFails, ChunkSucceeds, Live, Cancelled
  <2>3. QED
    BY <2>1, <2>2
<1>5. CASE Transferring
  <2>1. pc \in Transfer
    BY <1>5, ReapingOf DEF Transferring, HostRefuses, ReuseWorker, Spawn, SpawnFails, Bind,
       SendRequest,
       RequestFails, RequestStale, SendPayload, ReceiveFails, ReceiveRecord, ReceiveEmpty,
       ReapPeer,
       RecordCancelled, Bound, StreamReplied, FillReplied, Received, Acknowledge, Acknowledged,
       Send,
       SendFails, Handled, Receiving
  <2>2. QED
    BY <1>1, <2>1
<1>6. CASE Closing
  <2>1. scope' = scope
    BY <1>6 DEF Closing, CloseSocket, Terminate, Grace, Wait, RestoreTerminal, PollSignals,
       RestoreSignals, DropLease, Closed
  <2>2. host'.request = host.request /\ (host'.worker => host.worker)
    BY <1>6 DEF Closing, CloseSocket, Terminate, Grace, Wait, RestoreTerminal, PollSignals,
       RestoreSignals, DropLease, Closed, Reaped
  <2>3. QED
    BY <2>1, <2>2
<1>7. CASE Peer \/ World
  BY <1>7, PeerFrame, WorldFrame
<1>8. CASE UNCHANGED vars
  BY <1>8 DEF vars
<1>9. QED
  BY <1>4, <1>5, <1>6, <1>7, <1>8 DEF Next, Supervisor, Peer, World

\* Once a poll has observed a cancellation its reason never changes, no worker is started and no
\* request is made (CancelledIsFinal).
THEOREM CancellationFinal == Spec => CancelledIsFinal
<1>1. Core /\ [Next]_vars => [scope # "live" => /\ scope' = scope
                                                /\ host'.request = host.request
                                                /\ host'.worker => host.worker]_vars
  BY FinalStep
<1>2. QED
  BY <1>1, CoreInvariance, PTL DEF Spec, CancelledIsFinal
=============================================================================
