---------------------------- MODULE StandardHostAccount ----------------------------
(***************************************************************************)
(* Theorems about the account of StandardHost and about the streams, for   *)
(* any limits, chunk and word size, calls and failures.  The account rests *)
(* on the protocol: a request that may still be served stands for at most  *)
(* its length, an answer for exactly the bytes it carries.                 *)
(***************************************************************************)
EXTENDS StandardHostProofs

USE DEF Unwinding, Labels, Stopping, Restoring, ClosePhases, Transfer

\* Whole words of a number of bytes.
LEMMA Divided ==
  ASSUME NEW n \in Nat, NEW w \in Nat \ {0}
  PROVE  (n \div w) * w <= n /\ (n \div w) * w \in Nat
  OBVIOUS

\* The numbers of the account are naturals.
LEMMA Naturals ==
  ASSUME Typed
  PROVE  /\ \A r \in Roles : state.roles[r].confirmed \in Nat /\ state.roles[r].uncertain \in Nat
                             /\ Recorded(r) \in Nat /\ moved[r] \in Nat
         /\ AllRecorded \in Nat /\ state.consumed \in Int
         /\ state.progress.admitted \in Nat /\ state.progress.confirmed \in Nat
         /\ state.progress.uncertain \in Nat /\ x.length \in Nat /\ x.confirmed \in Nat
         /\ x.uncertain \in Nat /\ call.done \in Nat /\ call.bytes \in Nat /\ Extent \in Nat
<1> USE DEF Typed
<1>1. \A r \in Roles : state.roles[r].confirmed \in Nat /\ state.roles[r].uncertain \in Nat
                       /\ Recorded(r) \in Nat /\ moved[r] \in Nat
  BY DEF StateOK, StateType, Recorded, EnvironmentOK
<1>2. AllRecorded \in Nat
  BY <1>1 DEF AllRecorded, Roles
<1>3. /\ state.progress.admitted \in Nat /\ state.progress.confirmed \in Nat
      /\ state.progress.uncertain \in Nat /\ state.consumed \in Int
  BY DEF StateOK, StateType, ProgressType
<1>4. /\ x.length \in Nat /\ x.confirmed \in Nat
      /\ x.uncertain \in Nat /\ call.done \in Nat /\ call.bytes \in Nat /\ Extent \in Nat
  BY DEF ChunkOK, ChunkType, CallOK, CallStateType, Extent
<1>5. QED
  BY <1>1, <1>2, <1>3, <1>4

\* What a call that returns adds to the account.
LEMMA ReturnRecords ==
  ASSUME Typed, NEW result, Return(result)
  PROVE  /\ \A r \in Roles : r # Role => state'.roles[r] = state.roles[r]
         /\ state'.roles[Role].confirmed = state.roles[Role].confirmed + state.progress.confirmed
         /\ state'.roles[Role].uncertain = state.roles[Role].uncertain + state.progress.uncertain
         /\ AllRecorded' = AllRecorded + state.progress.confirmed + state.progress.uncertain
         /\ state'.consumed = state.consumed
         /\ ~Busy' /\ ~InChunk' /\ pc' \in {"idle", "close"}
<1>1. /\ Role \in {"entropy", "stdin", "stdout"}
      /\ \A r \in Roles : r # Role => state'.roles[r] = state.roles[r]
      /\ state'.roles[Role].confirmed = state.roles[Role].confirmed + state.progress.confirmed
      /\ state'.roles[Role].uncertain = state.roles[Role].uncertain + state.progress.uncertain
  BY ReturnType, RoleIn DEF Typed, Roles
<1>2. AllRecorded' = AllRecorded + state.progress.confirmed + state.progress.uncertain
  <2> DEFINE n == state.progress.confirmed + state.progress.uncertain
             old(r) == Recorded(r)
             new(r) == Recorded(r)'
  <2>1. /\ n \in Nat /\ old("entropy") \in Nat /\ old("stdin") \in Nat /\ old("stdout") \in Nat
        /\ state.progress.confirmed \in Nat /\ state.progress.uncertain \in Nat
    BY Naturals DEF Roles
  <2>0. PICK role \in Roles : role = Role
    BY <1>1 DEF Roles
  <2>2. \A r \in Roles : new(r) = IF r = role THEN old(r) + n ELSE old(r)
    <3>1. new(role) = old(role) + n
      <4>1. /\ state.roles[role].confirmed \in Nat /\ state.roles[role].uncertain \in Nat
            /\ old(role) = state.roles[role].confirmed + state.roles[role].uncertain
        BY Naturals DEF Recorded
      <4>2. new(role) = state'.roles[role].confirmed + state'.roles[role].uncertain
        BY DEF Recorded
      <4> HIDE DEF old, new
      <4>3. QED
        BY <1>1, <2>0, <2>1, <4>1, <4>2
    <3>2. ASSUME NEW r \in Roles, r # role PROVE new(r) = old(r)
      BY <1>1, <2>0, <3>2 DEF Recorded
    <3> HIDE DEF old, new, n
    <3>3. QED
      BY <3>1, <3>2
  <2>3. /\ AllRecorded = old("entropy") + old("stdin") + old("stdout")
        /\ AllRecorded' = new("entropy") + new("stdin") + new("stdout")
    BY DEF AllRecorded
  <2>4. \/ new("entropy") = old("entropy") + n /\ new("stdin") = old("stdin")
           /\ new("stdout") = old("stdout")
        \/ new("entropy") = old("entropy") /\ new("stdin") = old("stdin") + n
           /\ new("stdout") = old("stdout")
        \/ new("entropy") = old("entropy") /\ new("stdin") = old("stdin")
           /\ new("stdout") = old("stdout") + n
    BY <2>0, <2>2 DEF Roles
  <2> HIDE DEF old, new
  <2>5. QED
    BY <2>1, <2>3, <2>4
<1>3. state'.consumed = state.consumed /\ (pc' = "idle" \/ (pc' = "close" /\ ret' = "return"))
  BY ReturnEffect DEF Typed
<1>4. QED
  BY <1>1, <1>2, <1>3 DEF Busy, InChunk

\* A call that returns is charged for what it moved, and for what it may have moved.
LEMMA ReturnCharge ==
  ASSUME Typed, ChargeInv, pc \in {"admission", "chunk", "result", "failed"}, NEW result,
         Return(result)
  PROVE  ChargeInv'
<1>1. /\ AllRecorded' = AllRecorded + state.progress.confirmed + state.progress.uncertain
      /\ state'.consumed = state.consumed /\ ~Busy' /\ ~InChunk' /\ pc' \in {"idle", "close"}
  BY ReturnRecords
<1>2. ~InChunk /\ (Busy <=> pc # "admission")
  BY DEF Busy, InChunk
<1>3. /\ state.consumed = AllRecorded + state.progress.confirmed + state.progress.uncertain
      /\ AllRecorded + state.progress.confirmed + state.progress.uncertain <= MaxHost
  BY <1>2, Naturals, Constants DEF ChargeInv
<1>4. QED
  BY <1>1, <1>3 DEF ChargeInv

\* Steps that leave the account, the call and the chunk's length alone.
LEMMA ChargeKept ==
  ASSUME ChargeInv, UNCHANGED call, x'.length = x.length,
         state'.roles = state.roles, state'.progress = state.progress,
         state'.consumed = state.consumed,
         InChunk' <=> InChunk, Busy' <=> Busy,
         (pc' = pc /\ x' = x) \/ ((Busy => InChunk) /\ pc' # "admission")
  PROVE  ChargeInv'
<1>1. AllRecorded' = AllRecorded /\ Extent' = Extent /\ (IsEntropy' <=> IsEntropy)
  BY DEF AllRecorded, Recorded, Extent, IsEntropy, Role
<1>2. CASE pc' = pc /\ x' = x
  BY <1>1, <1>2 DEF ChargeInv
<1>3. CASE (Busy => InChunk) /\ pc' # "admission"
  <2>1. pc' \notin {"result", "failed", "chunk"}
    BY <1>3 DEF Busy, InChunk
  <2>2. Busy => pc \notin {"result", "failed", "chunk"}
    BY <1>3 DEF InChunk
  <2>3. QED
    BY <1>1, <1>3, <2>1, <2>2 DEF ChargeInv
<1>4. QED
  BY <1>2, <1>3

\* A transfer stays within its chunk.
LEMMA TransferStays ==
  ASSUME Typed, CancelInv, Transferring
  PROVE  /\ InChunk /\ InChunk' /\ pc \in Transfer /\ pc' \in Transfer \cup {"close", "settle"}
         /\ pc' \in {"close", "settle"} \/ ret' = ret
         /\ x'.length = x.length
<1> USE DEF Typed, ChunkOK, ChunkType
<1>1. CASE ReceiveRecord \/ ReceiveEmpty \/ ReapPeer
  <2>1. CASE ReceiveRecord
    BY <2>1, HandlerOf DEF ReceiveRecord, Receiving, InChunk
  <2>2. CASE ReceiveEmpty
    BY <2>2, ReapingOf DEF ReceiveEmpty, Receiving, InChunk
  <2>3. CASE ReapPeer
    <3>1. PICK at \in DOMAIN Reaping : pc = Reaping[at] /\ pc' = at
      BY <2>3 DEF ReapPeer
    <3>2. UNCHANGED <<x, ret>>
      BY <2>3 DEF ReapPeer
    <3>3. QED
      BY <3>1, <3>2, ReapingOf DEF InChunk
  <2>4. QED
    BY <1>1, <2>1, <2>2, <2>3
<1>2. CASE StreamReplied
  BY <1>2 DEF StreamReplied, Handled, Fail, AwaitBody, Confirmed, InChunk
<1>3. CASE FillReplied
  BY <1>3 DEF FillReplied, Handled, Fail, AwaitBody, InChunk
<1>4. CASE HostRefuses \/ ReuseWorker \/ Spawn \/ SpawnFails \/ Bind
  BY <1>4 DEF HostRefuses, ReuseWorker, Spawn, SpawnFails, Bind, Send, SendFails, Fail,
     FailCancelled, InChunk
<1>5. CASE SendRequest \/ RequestFails \/ RequestStale \/ SendPayload
  BY <1>5 DEF SendRequest, RequestFails, RequestStale, SendPayload, Send, SendFails, Fail,
     Attempted, InChunk
<1>6. CASE ReceiveFails \/ RecordCancelled \/ Bound \/ Received \/ Acknowledge \/ Acknowledged
  BY <1>6 DEF ReceiveFails, RecordCancelled, Bound, Received, Acknowledge, Acknowledged, Send,
     SendFails,
     Fail, FailCancelled, Handled, Receiving, InChunk
<1>7. QED
  BY <1>1, <1>2, <1>3, <1>4, <1>5, <1>6 DEF Transferring

\* The steps of a transfer keep the charge.
LEMMA ChargeTransferring ==
  ASSUME Typed, CancelInv, ChargeInv, Transferring
  PROVE  ChargeInv'
<1>1. UNCHANGED <<state, call>>
  BY TransferringFrame
<1>2. InChunk /\ InChunk' /\ pc' # "admission" /\ x'.length = x.length
  BY TransferStays
<1>3. QED
  BY <1>1, <1>2, ChargeKept DEF Busy

\* Close leaves the chunk it interrupts, and the account, as they are.
LEMMA ClosingStays ==
  ASSUME Typed, CancelInv, ReportInv, Closing
  PROVE  /\ (InChunk' <=> InChunk) /\ (Busy' <=> Busy) /\ (Busy => InChunk)
         /\ pc \in ClosePhases /\ pc' \in ClosePhases \cup {"settle", "idle", "done"}
         /\ x'.length = x.length /\ x'.confirmed = x.confirmed /\ x'.uncertain = x.uncertain
         /\ x'.eof = x.eof /\ x'.error = x.error
         /\ state'.roles = state.roles /\ state'.progress = state.progress
            /\ state'.consumed = state.consumed
<1> USE DEF Typed, ChunkOK, ChunkType, StateOK, StateType
<1>1. /\ x'.length = x.length /\ x'.confirmed = x.confirmed /\ x'.uncertain = x.uncertain
      /\ x'.eof = x.eof /\ x'.error = x.error
      /\ state'.roles = state.roles /\ state'.progress = state.progress
         /\ state'.consumed = state.consumed
  BY DEF Closing, CloseSocket, Terminate, Grace, Wait, RestoreTerminal, PollSignals,
     RestoreSignals,
     DropLease, Closed, CloseStep
<1>2. CASE Closed
  BY <1>1, <1>2, ClosingFrame DEF Closed, Busy, InChunk, ReportInv
<1>3. CASE ~Closed
  <2>1. pc \in ClosePhases /\ pc' \in ClosePhases /\ ret' = ret
    BY <1>3, ClosingFrame DEF Closing, CloseSocket, Terminate, Grace, Wait, RestoreTerminal,
       PollSignals,
       RestoreSignals, DropLease, CloseStep, Goto
  <2>2. QED
    BY <1>1, <2>1 DEF Busy, InChunk
<1>4. QED
  BY <1>2, <1>3

\* The steps of close keep the charge.
LEMMA ChargeClosing ==
  ASSUME Typed, CancelInv, ReportInv, ChargeInv, Closing
  PROVE  ChargeInv'
<1>1. pc' # "admission" /\ UNCHANGED call
  BY ClosingStays, ClosingFrame
<1>2. QED
  BY <1>1, ClosingStays, ChargeKept

\* Steps that leave the supervisor alone.
LEMMA ChargeSame ==
  ASSUME ChargeInv, UNCHANGED <<state, pc, ret, call, x>>
  PROVE  ChargeInv'
<1>1. /\ AllRecorded' = AllRecorded /\ Extent' = Extent /\ (IsEntropy' <=> IsEntropy)
      /\ (InChunk' <=> InChunk) /\ (Busy' <=> Busy)
  BY DEF AllRecorded, Recorded, Extent, IsEntropy, Role, InChunk, Busy
<1>2. QED
  BY <1>1 DEF ChargeInv

\* The worker's steps keep the charge.
LEMMA ChargePeer ==
  ASSUME ChargeInv, Peer
  PROVE  ChargeInv'
<1>1. UNCHANGED <<state, pc, ret, call, x>>
  BY PeerFrame
<1>2. QED
  BY <1>1, ChargeSame

\* The program, the signals and the clock keep the charge.
LEMMA ChargeWorld ==
  ASSUME Typed, ChargeInv, World
  PROVE  ChargeInv'
<1>1. CASE \E c \in Calls : Invoke(c)
  <2>1. /\ pc = "idle" /\ pc' = "admission" /\ state'.roles = state.roles
           /\ state'.consumed = state.consumed
        /\ state'.progress = NoProgress /\ call'.done = 0
    BY <1>1, InvokeEffect DEF Typed
  <2>2. ~Busy /\ ~Busy' /\ ~InChunk' /\ AllRecorded' = AllRecorded
    BY <2>1 DEF Busy, InChunk, AllRecorded, Recorded
  <2>3. QED
    BY <2>1, <2>2 DEF ChargeInv, NoProgress
<1>2. CASE Finish
  <2>1. /\ pc = "idle" /\ state'.roles = state.roles /\ state'.consumed = state.consumed
        /\ pc' = "done" \/ (pc' = "close" /\ ret' = "done")
    BY <1>2, FinishEffect DEF Typed
  <2>2. ~Busy /\ ~Busy' /\ ~InChunk' /\ AllRecorded' = AllRecorded
    BY <2>1 DEF Busy, InChunk, AllRecorded, Recorded
  <2>3. QED
    BY <2>1, <2>2 DEF ChargeInv
<1>3. CASE UNCHANGED <<state, pc, ret, call>>
  BY <1>3, WorldFrame, ChargeSame
<1>4. QED
  BY <1>1, <1>2, <1>3, WorldFrame

\* A call that is admitted fits into what is left of max_host_bytes.
LEMMA AdmittedFits ==
  ASSUME Typed, ChargeInv, pc = "admission", WithinLimit(call)
  PROVE  /\ Admitted(call) \in Nat /\ AllRecorded + Admitted(call) <= MaxHost
         /\ call.kind # "int" => Admitted(call) = Extent
<1>1. state.consumed = AllRecorded /\ AllRecorded <= MaxHost
  BY DEF ChargeInv, Busy, InChunk
<1>2. Remaining = MaxHost - AllRecorded /\ Remaining \in Nat
  BY <1>1, Naturals, Constants DEF Remaining
<1>3. CASE call.kind = "int"
  <2>1. Candidates * Word \in Nat /\ (Remaining \div Word) * Word <= Remaining
        /\ (Remaining \div Word) * Word \in Nat
    BY <1>2, Constants, Divided
  <2>2. Admitted(call) = Smaller(Candidates * Word, (Remaining \div Word) * Word)
    BY <1>3 DEF Admitted, RequestedBytes
  <2>3. QED
    BY <1>2, <1>3, <2>1, <2>2, Naturals, Constants DEF Smaller
<1>4. CASE call.kind # "int"
  <2>1. Admitted(call) = RequestedBytes(call) /\ RequestedBytes(call) <= Remaining
    BY <1>4 DEF Admitted, WithinLimit
  <2>2. RequestedBytes(call) = Extent
    BY <1>4 DEF RequestedBytes, Extent, Typed, CallOK, CallStateType
  <2>3. QED
    BY <1>2, <2>1, <2>2, Naturals, Constants
<1>5. QED
  BY <1>3, <1>4

\* The steps of a call keep the charge: admission, the debit of an entropy chunk, its settlement.
LEMMA ChargeCalling ==
  ASSUME Typed, ChunkInv, ChargeInv, Calling
  PROVE  ChargeInv'
<1> USE Naturals
<1>1. CASE AdmissionFails \/ CallSucceeds \/ CandidatesExhausted \/ ChunkRefused \/ ChunkFails
  BY <1>1, ReturnCharge DEF AdmissionFails, CallSucceeds, CandidatesExhausted, ChunkRefused,
     ChunkFails, ChunkDue
<1>2. CASE Admit
  <2>1. pc = "admission" /\ pc' = "chunk" /\ WithinLimit(call) /\ UNCHANGED <<x, call>>
    BY <1>2 DEF Admit
  <2>2. /\ state'.roles = state.roles /\ state'.consumed = state.consumed
        /\ state'.progress.admitted = Admitted(call) /\ state'.progress.confirmed = 0
        /\ state'.progress.uncertain = 0
    BY <1>2 DEF Admit, NoProgress, Typed, StateOK, StateType
  <2>3. /\ AllRecorded' = AllRecorded /\ Extent' = Extent /\ Busy' /\ ~InChunk' /\ ~Busy
    BY <2>1, <2>2 DEF AllRecorded, Recorded, Extent, Busy, InChunk
  <2>4. call.done = 0
    BY <2>1 DEF ChargeInv
  <2>5. QED
    BY <2>1, <2>2, <2>3, <2>4, AdmittedFits DEF ChargeInv
<1>3. CASE StartChunk
  <2>1. pc = "chunk" /\ pc' = "launch" /\ x'.length = ChunkLength /\ UNCHANGED ret
    BY <1>3 DEF StartChunk, ChunkDue, NoChunk
  <2>2. /\ state'.roles = state.roles
        /\ state'.progress.admitted = state.progress.admitted
        /\ state'.progress.confirmed = state.progress.confirmed
        /\ state'.consumed = state.consumed + (IF IsEntropy THEN ChunkLength ELSE 0)
    <3>1. CASE IsEntropy
      BY <1>3, <3>1 DEF StartChunk, Typed, StateOK, StateType, ProgressType
    <3>2. CASE ~IsEntropy
      BY <1>3, <3>2 DEF StartChunk
    <3>3. QED
      BY <3>1, <3>2
  <2>3. call'.kind = call.kind /\ call'.bytes = call.bytes /\ call'.lf = call.lf
        /\ call'.done = call.done
    BY <1>3 DEF StartChunk, Typed, CallOK, CallStateType
  <2>4. AllRecorded' = AllRecorded /\ Extent' = Extent /\ (IsEntropy' <=> IsEntropy)
    BY <2>2, <2>3 DEF AllRecorded, Recorded, Extent, IsEntropy, Role
  <2>5. InChunk' /\ Busy' /\ Busy /\ ~InChunk
    BY <2>1 DEF Busy, InChunk
  <2>6. /\ ChunkLength \in Nat
        /\ call.kind # "int" => call.done + ChunkLength <= Extent
    BY <1>3, <2>1, ChunkLengthIn DEF StartChunk, ChunkDue, Typed
  <2>7. /\ state.progress.confirmed = call.done /\ state.progress.uncertain = 0
        /\ state.consumed = AllRecorded + state.progress.confirmed
    BY <2>1, <2>5 DEF ChargeInv
  <2>8. state.progress.confirmed + ChunkLength <= state.progress.admitted
    <3>1. CASE call.kind = "int"
      <4>1. IsEntropy
        BY <3>1 DEF IsEntropy, Role, RoleOf
      <4>2. ChunkLength <= state.progress.admitted - state.progress.confirmed
        BY <1>3, <4>1 DEF StartChunk, ChunkAdmitted
      <4>3. QED
        BY <2>6, <4>2
    <3>2. CASE call.kind # "int"
      BY <2>5, <2>6, <2>7, <3>2 DEF ChargeInv
    <3>3. QED
      BY <3>1, <3>2
  <2>9. state'.consumed = AllRecorded' + state'.progress.confirmed + (IF IsEntropy' THEN x'.length ELSE 0)
    BY <2>1, <2>2, <2>4, <2>7
  <2>10. (InChunk => state.progress.confirmed + x.length <= state.progress.admitted)'
    BY <2>1, <2>2, <2>8
  <2>11. QED
    BY <2>1, <2>2, <2>3, <2>4, <2>5, <2>7, <2>9, <2>10 DEF ChargeInv
<1>4. CASE Settle
  <2>1. pc = "settle" /\ pc' \in {"failed", "result"} /\ state' = Settled
        /\ UNCHANGED <<ret, call>>
    BY <1>4 DEF Settle
  <2>2. x'.length = x.length /\ x'.confirmed = x.confirmed /\ x'.uncertain = x.uncertain
    BY <1>4 DEF Settle, Typed, ChunkOK, ChunkType
  <2>3. /\ state'.roles = state.roles
        /\ state'.progress.admitted = state.progress.admitted
        /\ state'.progress.confirmed = state.progress.confirmed + x.confirmed
        /\ state'.progress.uncertain = x.uncertain
        /\ state'.consumed = state.consumed + x.confirmed + x.uncertain - (IF IsEntropy THEN x.length ELSE 0)
    BY <2>1 DEF Settled, Typed, StateOK, StateType, ProgressType
  <2>4. AllRecorded' = AllRecorded /\ Extent' = Extent
    BY <2>1, <2>3 DEF AllRecorded, Recorded, Extent
  <2>5. InChunk /\ Busy /\ Busy' /\ ~InChunk'
    BY <2>1 DEF Busy, InChunk
  <2>6. /\ state.consumed = AllRecorded + state.progress.confirmed + (IF IsEntropy THEN x.length ELSE 0)
        /\ state.progress.confirmed + x.length <= state.progress.admitted
        /\ state.progress.confirmed = call.done /\ AllRecorded <= MaxHost
        /\ AllRecorded + state.progress.admitted <= MaxHost
        /\ call.kind # "int" => state.progress.admitted = Extent
    BY <2>1, <2>5 DEF ChargeInv
  <2>7. x.confirmed + x.uncertain <= x.length
    BY DEF ChunkInv
  <2>8. state'.consumed = AllRecorded + state.progress.confirmed + x.confirmed + x.uncertain
    <3>1. CASE IsEntropy
      BY <2>3, <2>6, <3>1
    <3>2. CASE ~IsEntropy
      BY <2>3, <2>6, <3>2
    <3>3. QED
      BY <3>1, <3>2
  <2>9. state.progress.confirmed + x.confirmed + x.uncertain <= state.progress.admitted
    BY <2>6, <2>7
  <2>10. QED
    BY <2>1, <2>2, <2>3, <2>4, <2>5, <2>6, <2>8, <2>9 DEF ChargeInv
<1>5. CASE RetryChunk
  <2>1. /\ pc = "result" /\ pc' = "chunk" /\ UNCHANGED <<state, call, x, ret>>
        /\ x.confirmed = 0 /\ x.uncertain = 0
    BY <1>5 DEF RetryChunk, Retry
  <2>2. AllRecorded' = AllRecorded /\ Extent' = Extent /\ Busy /\ Busy' /\ ~InChunk /\ ~InChunk'
    BY <2>1 DEF AllRecorded, Recorded, Extent, Busy, InChunk
  <2>3. QED
    BY <2>1, <2>2 DEF ChargeInv
<1>6. CASE ChunkSucceeds
  <2>1. CASE call' = Advanced /\ pc' = "chunk" /\ UNCHANGED <<state, ret, x>>
    <3>1. pc = "result" /\ x.error = "none" /\ x.uncertain = 0
      BY <1>6, SucceedsEffect DEF ChunkInv
    <3>2. /\ call'.kind = call.kind /\ call'.bytes = call.bytes /\ call'.lf = call.lf
          /\ call'.done = call.done + x.confirmed
      BY <2>1 DEF Advanced, Typed, CallOK, CallStateType
    <3>3. AllRecorded' = AllRecorded /\ Extent' = Extent /\ Busy /\ Busy' /\ ~InChunk /\ ~InChunk'
      BY <2>1, <3>1, <3>2 DEF AllRecorded, Recorded, Extent, Busy, InChunk
    <3>4. QED
      BY <2>1, <3>1, <3>2, <3>3 DEF ChargeInv
  <2>2. CASE \E result : Return(result)
    BY <1>6, <2>2, SucceedsEffect, ReturnCharge
  <2>3. QED
    BY <1>6, <2>1, <2>2, SucceedsEffect
<1>7. QED
  BY <1>1, <1>2, <1>3, <1>4, <1>5, <1>6 DEF Calling

\* Nothing is charged at first.
LEMMA ChargeInit ==
  ASSUME Init
  PROVE  ChargeInv
<1>1. ~Busy /\ ~InChunk /\ pc = "idle" /\ state.consumed = 0
  BY DEF Init, Busy, InChunk
<1>2. AllRecorded = 0
  BY DEF Init, AllRecorded, Recorded, NoCounts, Roles
<1>3. QED
  BY <1>1, <1>2, Constants DEF ChargeInv

\* A worker at rest, starting or answering has no request before it.
Apart ==
    /\ \A n : Resting(n) => ~Outstanding
    /\ Booting => ~Outstanding
    /\ Answering("reply") \/ Answering("body") \/ Answering("ack") => ~Outstanding

\* A worker at rest, starting or answering has no request that may still be served.
LEMMA RequestsApart == Apart
<1>1. ASSUME NEW n, Resting(n) PROVE ~Outstanding
  <2>1. CASE worker.at = "ready" /\ down = <<>>
    BY <2>1, Ends DEF Outstanding, RequestSent, PayloadSent, Serving, Working
  <2>2. CASE worker.at = "ack" /\ down = <<Ack(n)>>
    <3>1. Len(down) = 1
      BY <2>2, Ends
    <3>2. Outstanding => Len(down) \in {2, 3}
      BY <2>2, Ends DEF Outstanding, RequestSent, PayloadSent, Serving, Working
    <3>3. QED
      BY <3>1, <3>2
  <2>3. QED
    BY <1>1, <2>1, <2>2 DEF Resting
<1>2. Booting => ~Outstanding
  BY DEF Booting, Outstanding, RequestSent, PayloadSent, Serving, Working
<1>3. Answering("reply") \/ Answering("body") \/ Answering("ack") => ~Outstanding
  BY Ends DEF Answering, Outstanding, RequestSent, PayloadSent, Serving, Working
<1>4. QED
  BY <1>1, <1>2, <1>3 DEF Apart

\* The same after a step.
LEMMA ApartNext == Apart'
  BY RequestsApart, PTL

\* While a request may still be served the supervisor waits, or has given up.
LEMMA OutstandingAt ==
  ASSUME CancelInv, OwnerInv, Protocol, Outstanding, Alive
  PROVE  /\ pc \in Waiting \cup {"payload", "close"} \cup Stopping
         /\ pc \in Waiting \cup {"payload", "close"} => host.worker
<1>1. pc \notin Stopping => host.worker
  BY AliveIsOwned
<1>2. pc \in Stopping \cup Restoring => ~host.worker
  BY DEF OwnerInv
<1>3. ~(\E n : Resting(n)) /\ ~Booting /\ ~Answering("reply") /\ ~Answering("body")
      /\ ~Answering("ack")
  BY RequestsApart DEF Apart
<1>4. host.worker => pc \notin Still \cup {"bind", "ready", "reap ready", "replied", "body",
      "reap body",
                                           "received", "ack"}
  BY <1>3 DEF Protocol, PhaseInv, AwaitsBody
<1>5. QED
  BY <1>1, <1>2, <1>4 DEF CancelInv, Still, Waiting

\* The worker of a supervisor at rest is at rest, too.
LEMMA QuietNow ==
  ASSUME OwnerInv, Protocol, pc \in Still, worker' = worker, down' = down
  PROVE  ~(Outstanding /\ Alive)'
<1>1. Alive => host.worker /\ Resting(host.request)
  BY AliveIsOwned DEF Protocol, PhaseInv, Still
<1>2. Alive' <=> Alive
  BY DEF Alive, WorkerGone
<1>3. ASSUME NEW n, Resting(n) PROVE Resting(n)'
  BY <1>3 DEF Resting
<1>4. QED
  BY <1>1, <1>2, <1>3, ApartNext DEF Apart

\* A worker and its channel left alone.
LEMMA OutstandingSame ==
  ASSUME UNCHANGED <<call, worker, down, up>>, x'.length = x.length, host'.request = host.request
  PROVE  /\ Outstanding' <=> Outstanding
         /\ Alive' <=> Alive
         /\ Answering("reply")' <=> Answering("reply")
         /\ Answering("body")' <=> Answering("body")
         /\ Answering("ack")' <=> Answering("ack")
<1>1. Current' = Current /\ Payload' = Payload /\ IsEntropy' = IsEntropy
  BY SameMessages
<1>2. ReplyTo(worker.reply)' <=> ReplyTo(worker.reply)
  BY <1>1 DEF ReplyTo
<1>3. QED
  BY <1>1, <1>2 DEF Outstanding, RequestSent, PayloadSent, Serving, Working, Answering, Alive,
     WorkerGone

\* The bounds of the account are numbers.
LEMMA Bounds ==
  ASSUME Typed
  PROVE  Low \in Nat /\ High \in Nat /\ Gone \in Nat /\ Streamed \in Nat
<1>1. Role \in Roles
  BY RoleIn DEF Typed
<1>2. Len(out) \in Nat /\ taken \in Nat
  BY DEF Typed, EnvironmentOK
<1>3. /\ state.roles[Role].confirmed \in Nat /\ Recorded(Role) \in Nat /\ moved[Role] \in Nat
      /\ state.progress.confirmed \in Nat
  BY <1>1, Naturals
<1>4. QED
  BY <1>2, <1>3 DEF Low, High, Gone, Streamed

\* They do not change while account, call and environment stay.
LEMMA BoundsSame ==
  ASSUME UNCHANGED <<call, moved, out, taken>>, state'.roles = state.roles,
         state'.progress = state.progress
  PROVE  /\ Low' = Low /\ High' = High /\ Gone' = Gone /\ Streamed' = Streamed
         /\ (IsEntropy' <=> IsEntropy) /\ Role' = Role
         /\ \A r \in Roles : Recorded(r)' = Recorded(r)
  BY DEF Low, High, Gone, Streamed, Recorded, Role, IsEntropy

\* A call that returns books what was moved for it.
LEMMA MovedReturn ==
  ASSUME Typed, ChargeInv, MovedInv, pc \in {"admission", "chunk", "result", "failed"},
         NEW result, Return(result), UNCHANGED <<call, moved>>
  PROVE  MovedInv'
<1> USE RoleIn DEF Typed
<1>1. /\ \A r \in Roles : r # Role => state'.roles[r] = state.roles[r]
      /\ state'.roles[Role].confirmed = state.roles[Role].confirmed + state.progress.confirmed
      /\ state'.roles[Role].uncertain = state.roles[Role].uncertain + state.progress.uncertain
      /\ ~Busy' /\ ~InChunk' /\ pc' \in {"idle", "close"}
  BY ReturnRecords
<1>2. /\ state.roles[Role].confirmed + state.progress.confirmed <= moved[Role]
      /\ moved[Role] <= Recorded(Role) + state.progress.confirmed + state.progress.uncertain
  <2>1. CASE pc = "admission"
    <3>1. state.progress.confirmed = 0 /\ state.progress.uncertain = 0 /\ ~Busy
      BY <2>1 DEF ChargeInv, Busy, InChunk
    <3>2. state.roles[Role].confirmed <= moved[Role] /\ moved[Role] <= Recorded(Role)
      BY <3>1 DEF MovedInv
    <3>3. QED
      BY <3>1, <3>2, Naturals
  <2>2. CASE pc # "admission"
    <3>1. Least(0) /\ Most(state.progress.uncertain)
      BY <2>2 DEF MovedInv
    <3>2. QED
      BY <3>1, Naturals DEF Least, Most, Low, High, Gone
  <2>3. QED
    BY <2>1, <2>2
<1>3. ASSUME NEW r \in Roles
      PROVE  state'.roles[r].confirmed <= moved'[r] /\ moved'[r] <= Recorded(r)'
  <2>1. CASE r = Role
    BY <1>1, <1>2, <2>1, Naturals DEF Recorded
  <2>2. CASE r # Role
    BY <1>1, <2>2 DEF Recorded, MovedInv
  <2>3. QED
    BY <2>1, <2>2
<1>4. QED
  BY <1>1, <1>3 DEF MovedInv

\* A chunk begins, ends or is given back: the roles' accounts stay.
LEMMA MovedOther ==
  ASSUME MovedInv, UNCHANGED moved, Role' = Role, Busy, state'.roles = state.roles, Busy'
  PROVE  \A r \in Roles : ((r # Role \/ ~Busy) => state.roles[r].confirmed <= moved[r]
         /\ moved[r] <= Recorded(r))'
  BY DEF MovedInv, Recorded

\* The steps of a call keep what was moved within the account's bounds.
LEMMA MovedCalling ==
  ASSUME Typed, ChunkInv, ChargeInv, MovedInv, Calling
  PROVE  MovedInv'
<1> USE Bounds, Naturals
<1>1. UNCHANGED moved
  BY CallingFrame
<1>2. CASE AdmissionFails \/ CallSucceeds \/ CandidatesExhausted \/ ChunkRefused \/ ChunkFails
  BY <1>1, <1>2, MovedReturn DEF AdmissionFails, CallSucceeds, CandidatesExhausted, ChunkRefused,
     ChunkFails, ChunkDue
<1>3. CASE Admit
  <2>1. pc = "admission" /\ pc' = "chunk" /\ UNCHANGED <<x, call>>
    BY <1>3 DEF Admit
  <2>2. /\ state'.roles = state.roles /\ state'.progress.confirmed = 0
           /\ state'.progress.uncertain = 0
    BY <1>3 DEF Admit, NoProgress, Typed, StateOK, StateType
  <2>3. ~Busy /\ Busy' /\ ~InChunk' /\ Role' = Role /\ Role \in Roles
    BY <2>1, RoleIn DEF Busy, InChunk, Role, Typed
  <2>4. \A r \in Roles : state.roles[r].confirmed <= moved[r] /\ moved[r] <= Recorded(r)
    BY <2>3 DEF MovedInv
  <2>5. Low' = state.roles[Role].confirmed /\ High' = Recorded(Role) /\ Gone' = moved[Role]
    BY <1>1, <2>2, <2>3 DEF Low, High, Gone, Recorded
  <2>6. Least(0)' /\ Most(0)'
    BY <2>3, <2>4, <2>5 DEF Least, Most
  <2>7. QED
    BY <1>1, <2>1, <2>2, <2>3, <2>4, <2>6 DEF MovedInv, Recorded
<1>4. CASE StartChunk
  <2>1. pc = "chunk" /\ pc' = "launch" /\ x'.confirmed = 0 /\ x'.uncertain = 0
    BY <1>4 DEF StartChunk, ChunkDue, NoChunk
  <2>2. state'.roles = state.roles /\ state'.progress.confirmed = state.progress.confirmed
    BY <1>4 DEF StartChunk, Typed, StateOK, StateType, ProgressType
  <2>3. Role' = Role
    BY <1>4 DEF StartChunk, Typed, CallOK, CallStateType, Role
  <2>4. Busy /\ Busy' /\ InChunk'
    BY <2>1 DEF Busy, InChunk
  <2>5. Low' = Low /\ High' = High /\ Gone' = Gone
    BY <1>1, <2>2, <2>3 DEF Low, High, Gone, Recorded
  <2>6. Least(0) /\ Most(0)
    BY <2>1, <2>4 DEF MovedInv, ChargeInv
  <2>7. (Least(x.confirmed) /\ Most(x.confirmed + x.uncertain))'
    BY <2>1, <2>5, <2>6 DEF Least, Most
  <2>8. QED
    BY <1>1, <2>1, <2>2, <2>3, <2>4, <2>7, MovedOther DEF MovedInv
<1>5. CASE Settle
  <2>1. pc = "settle" /\ pc' \in {"failed", "result"} /\ state' = Settled
        /\ UNCHANGED <<ret, call>>
    BY <1>5 DEF Settle
  <2>2. /\ state'.roles = state.roles
        /\ state'.progress.confirmed = state.progress.confirmed + x.confirmed
        /\ state'.progress.uncertain = x.uncertain
    BY <2>1 DEF Settled, Typed, StateOK, StateType, ProgressType
  <2>3. Role' = Role /\ InChunk /\ Busy /\ Busy' /\ ~InChunk'
    BY <2>1 DEF Role, Busy, InChunk
  <2>4. Low' = Low + x.confirmed /\ High' = High + x.confirmed /\ Gone' = Gone
    <3>1. Low' = state.roles[Role].confirmed + state'.progress.confirmed
          /\ High' = Recorded(Role) + state'.progress.confirmed /\ Gone' = Gone
      BY <1>1, <2>2, <2>3 DEF Low, High, Gone, Recorded
    <3>2. state.roles[Role].confirmed \in Nat /\ Recorded(Role) \in Nat
      BY RoleIn DEF Typed
    <3>3. QED
      BY <2>2, <3>1, <3>2 DEF Low, High
  <2>5. Least(x.confirmed) /\ Most(x.confirmed + x.uncertain)
    BY <2>3 DEF MovedInv
  <2>6. Low' + 0 <= Gone' /\ Gone' <= High' + state'.progress.uncertain
    BY <2>2, <2>4, <2>5 DEF Least, Most
  <2>7. Least(0)' /\ Most(state.progress.uncertain)'
    BY <2>6 DEF Least, Most
  <2>8. QED
    BY <1>1, <2>1, <2>2, <2>3, <2>7, MovedOther DEF MovedInv
<1>6. CASE RetryChunk
  <2>1. pc = "result" /\ pc' = "chunk" /\ UNCHANGED <<state, call>>
    BY <1>6 DEF RetryChunk
  <2>2. Low' = Low /\ High' = High /\ Gone' = Gone /\ Role' = Role /\ Busy /\ Busy' /\ ~InChunk'
    BY <1>1, <2>1 DEF Low, High, Gone, Recorded, Role, Busy, InChunk
  <2>3. QED
    BY <1>1, <2>1, <2>2, MovedOther DEF MovedInv, Least, Most
<1>7. CASE ChunkSucceeds
  <2>1. CASE call' = Advanced /\ pc' = "chunk" /\ UNCHANGED <<state, ret, x>>
    <3>1. pc = "result" /\ Role' = Role
      BY <1>7, <2>1, SucceedsEffect DEF Advanced, Typed, CallOK, CallStateType, Role
    <3>2. Low' = Low /\ High' = High /\ Gone' = Gone /\ Busy /\ Busy' /\ ~InChunk'
      BY <1>1, <2>1, <3>1 DEF Low, High, Gone, Recorded, Busy, InChunk
    <3>3. QED
      BY <1>1, <2>1, <3>1, <3>2, MovedOther DEF MovedInv, Least, Most
  <2>2. CASE (\E result : Return(result)) /\ UNCHANGED call
    BY <1>1, <1>7, <2>2, SucceedsEffect, MovedReturn
  <2>3. QED
    BY <1>7, <2>1, <2>2, SucceedsEffect
<1>8. QED
  BY <1>2, <1>3, <1>4, <1>5, <1>6, <1>7 DEF Calling

\* The steps of close keep it within them.
LEMMA MovedClosing ==
  ASSUME Typed, CancelInv, ReportInv, MovedInv, Closing
  PROVE  MovedInv'
<1>1. UNCHANGED <<call, moved, out, taken>>
  BY ClosingFrame
<1>2. /\ (InChunk' <=> InChunk) /\ (Busy' <=> Busy) /\ pc' \notin {"chunk", "result", "failed"}
      /\ x'.confirmed = x.confirmed /\ x'.uncertain = x.uncertain
      /\ state'.roles = state.roles /\ state'.progress = state.progress
  BY ClosingStays
<1>3. /\ Low' = Low /\ High' = High /\ Gone' = Gone /\ Role' = Role
      /\ \A r \in Roles : Recorded(r)' = Recorded(r)
  BY <1>1, <1>2, BoundsSame
<1>4. QED
  BY <1>1, <1>2, <1>3 DEF MovedInv, Least, Most

\* The program, the signals and the clock keep it within them.
LEMMA MovedWorld ==
  ASSUME Typed, MovedInv, World
  PROVE  MovedInv'
<1>1. UNCHANGED <<x, moved>>
  BY WorldFrame
<1>2. CASE \E c \in Calls : Invoke(c)
  <2>1. /\ pc = "idle" /\ pc' = "admission" /\ state'.roles = state.roles
    BY <1>2, InvokeEffect DEF Typed
  <2>2. QED
    BY <1>1, <2>1 DEF MovedInv, Busy, InChunk, Recorded
<1>3. CASE Finish
  <2>1. /\ pc = "idle" /\ state'.roles = state.roles
        /\ pc' = "done" \/ (pc' = "close" /\ ret' = "done")
    BY <1>3, FinishEffect DEF Typed
  <2>2. QED
    BY <1>1, <2>1 DEF MovedInv, Busy, InChunk, Recorded
<1>4. CASE UNCHANGED <<state, pc, ret, call>>
  <2>1. Low' = Low /\ High' = High /\ Gone' = Gone /\ Role' = Role /\ (Busy' <=> Busy)
        /\ (InChunk' <=> InChunk)
        /\ \A r \in Roles : Recorded(r)' = Recorded(r)
    BY <1>1, <1>4 DEF Low, High, Gone, Role, Busy, InChunk, Recorded
  <2>2. QED
    BY <1>1, <1>4, <2>1 DEF MovedInv, Least, Most
<1>5. QED
  BY <1>2, <1>3, <1>4, WorldFrame

\* The transfers that say something of what was moved.
Telling == SendRequest \/ RequestFails \/ StreamReplied \/ Received

\* Transfer steps that tell the supervisor nothing about the bytes of its chunk.
LEMMA Silent ==
  ASSUME ChunkOK, Transferring, ~Telling
  PROVE  x'.length = x.length /\ x'.confirmed = x.confirmed /\ x'.uncertain = x.uncertain
         /\ x'.eof = x.eof
<1> USE DEF Telling, ChunkOK, ChunkType
<1>1. CASE ReceiveRecord \/ ReceiveEmpty \/ ReapPeer
  BY <1>1 DEF ReceiveRecord, ReceiveEmpty, ReapPeer
<1>2. CASE FillReplied
  BY <1>2 DEF FillReplied, Handled, Fail, AwaitBody
<1>3. CASE HostRefuses \/ ReuseWorker \/ Spawn \/ SpawnFails \/ Bind
  BY <1>3 DEF HostRefuses, ReuseWorker, Spawn, SpawnFails, Bind, Send, SendFails, Fail,
     FailCancelled
<1>4. CASE RequestStale \/ SendPayload
  BY <1>4 DEF RequestStale, SendPayload, Send, SendFails, Fail
<1>5. CASE ReceiveFails \/ RecordCancelled \/ Bound \/ Acknowledge \/ Acknowledged
  BY <1>5 DEF ReceiveFails, RecordCancelled, Bound, Acknowledge, Acknowledged, Send, SendFails,
     Fail, FailCancelled, Handled
<1>6. QED
  BY <1>1, <1>2, <1>3, <1>4, <1>5 DEF Transferring

\* A chunk is uncertain from the moment its request may be sent.
LEMMA Requesting ==
  ASSUME ChunkOK, SendRequest \/ RequestFails
  PROVE  /\ pc = "request" /\ x'.length = x.length /\ x'.confirmed = x.confirmed /\ x'.eof = x.eof
         /\ x'.uncertain \in {x.uncertain, x.length}
         /\ SendRequest => x'.uncertain = x.length /\ x'.error = x.error
  BY DEF SendRequest, RequestFails, Send, SendFails, Attempted, ChunkOK, ChunkType

\* An answer to a stream request settles the chunk, unless the answer is refused.
LEMMA Replied ==
  ASSUME ChunkOK, StreamReplied
  PROVE  /\ pc = "replied" /\ ~IsEntropy
         /\ \/ /\ x'.confirmed = x.confirmed /\ x'.uncertain = x.uncertain /\ x'.eof = x.eof
               /\ pc' = "close" /\ x'.error = "protocol"
            \/ /\ x'.confirmed = x.frame.bytes /\ x'.uncertain = 0
               /\ x'.eof <=> call.kind = "read" /\ x.frame.tag = "PROGRESS" /\ x.frame.bytes = 0
               /\ pc' \in {"ack", "body"} \/ (pc' = "close" /\ x'.error = "protocol")
<1> USE DEF ChunkOK, ChunkType
<1>1. pc = "replied" /\ ~IsEntropy
  BY DEF StreamReplied, Handled
<1>2. CASE Fail("protocol")
  BY <1>1, <1>2 DEF Fail
<1>3. CASE ~Fail("protocol")
  BY <1>1, <1>3 DEF StreamReplied, Confirmed, AwaitBody
<1>4. QED
  BY <1>2, <1>3

\* A body of entropy settles the chunk.
LEMMA Receives ==
  ASSUME ChunkOK, Received
  PROVE  /\ pc = "received" /\ pc' = "ack" /\ x'.eof = x.eof /\ x'.error = x.error
         /\ IsEntropy => x'.confirmed = x.length /\ x'.uncertain = 0
         /\ ~IsEntropy => x'.confirmed = x.confirmed /\ x'.uncertain = x.uncertain
  BY DEF Received, Handled, ChunkOK, ChunkType

\* The steps of a transfer keep what was moved within the account's bounds.
LEMMA MovedTransferring ==
  ASSUME Typed, CancelInv, ChunkInv, UpInv, MovedInv, AnswerInv, Transferring
  PROVE  MovedInv'
<1> USE Bounds, Naturals
<1>1. UNCHANGED <<state, call, moved, out, taken>>
  BY TransferringFrame
<1>2. /\ InChunk /\ InChunk' /\ Busy /\ Busy' /\ pc \in Transfer
         /\ pc' \in Transfer \cup {"close", "settle"}
  BY TransferStays DEF Busy
<1>3. Low' = Low /\ High' = High /\ Gone' = Gone /\ Role' = Role /\ (IsEntropy' <=> IsEntropy)
  BY <1>1, BoundsSame
<1>4. Low + x.confirmed <= Gone /\ Gone <= High + (x.confirmed + x.uncertain)
  BY <1>2 DEF MovedInv, Least, Most
<1>5. Low + x'.confirmed <= Gone /\ Gone <= High + (x'.confirmed + x'.uncertain)
  <2>1. CASE ~Telling
    BY <1>4, <2>1, Silent DEF Typed
  <2>2. CASE SendRequest \/ RequestFails
    <3>1. x.confirmed = 0 /\ x.uncertain = 0 /\ x'.confirmed = 0 /\ x'.uncertain \in Nat
      BY <2>2, Requesting DEF Typed, ChunkInv
    <3>2. QED
      BY <1>4, <3>1
  <2>3. CASE StreamReplied
    <3>1. CASE x'.confirmed = x.confirmed /\ x'.uncertain = x.uncertain
      BY <1>4, <3>1
    <3>2. CASE x'.confirmed = x.frame.bytes /\ x'.uncertain = 0
      <4>1. Least(x.frame.bytes) /\ Most(x.frame.bytes)
        BY <2>3, Replied DEF AnswerInv, Owes, Typed
      <4>2. x.frame.bytes \in Nat
        BY DEF Typed, ChunkOK, ChunkType, FrameType
      <4>3. QED
        BY <3>2, <4>1, <4>2 DEF Least, Most
    <3>3. QED
      BY <2>3, <3>1, <3>2, Replied DEF Typed
  <2>4. CASE Received
    <3>1. CASE IsEntropy
      <4>1. Least(x.length)
        BY <2>4, <3>1, Receives DEF AnswerInv, Typed
      <4>2. x.confirmed = 0 /\ x.uncertain = x.length
        BY <2>4, <3>1, Receives DEF ChunkInv, Typed
      <4>3. x'.confirmed = x.length /\ x'.uncertain = 0
        BY <2>4, <3>1, Receives DEF Typed
      <4>4. QED
        BY <1>4, <4>1, <4>2, <4>3 DEF Least
    <3>2. CASE ~IsEntropy
      BY <1>4, <2>4, <3>2, Receives DEF Typed
    <3>3. QED
      BY <3>1, <3>2
  <2>5. QED
    BY <2>1, <2>2, <2>3, <2>4 DEF Telling
<1>6. (Least(x.confirmed) /\ Most(x.confirmed + x.uncertain))'
  BY <1>3, <1>5 DEF Least, Most
<1>7. QED
  BY <1>1, <1>2, <1>3, <1>6, MovedOther DEF MovedInv

\* What an answer stands for does not depend on who has it.
LEMMA OwesSame ==
  ASSUME UNCHANGED <<state, call, moved, out, taken, input>>
  PROVE  \A f : (Owes(f)' <=> Owes(f)) /\ (Least(0)' <=> Least(0)) /\ (Most(0)' <=> Most(0))
         /\ (Exact(0)' <=> Exact(0))
<1>1. Low' = Low /\ High' = High /\ Gone' = Gone /\ Streamed' = Streamed
      /\ (IsEntropy' <=> IsEntropy)
  BY BoundsSame
<1>2. QED
  BY <1>1 DEF Owes, Least, Most, Exact

\* Steps of a transfer that leave the worker and its channel alone.
LEMMA Untouched ==
  ASSUME \/ HostRefuses \/ ReuseWorker \/ SpawnFails \/ RequestStale \/ ReceiveFails
         \/ ReceiveEmpty
         \/ RecordCancelled \/ Bound \/ StreamReplied \/ FillReplied \/ Received \/ Acknowledged
         \/ \E at, local : SendFails(at, local) /\ UNCHANGED host
  PROVE  UNCHANGED <<worker, down, up, host>>
  BY DEF HostRefuses, ReuseWorker, SpawnFails, RequestStale, ReceiveFails, ReceiveEmpty,
     RecordCancelled,
     Bound, StreamReplied, FillReplied, Received, Acknowledged, SendFails, Handled, channels

\* Only a request that is sent makes one that may be served.
LEMMA RequestKept ==
  ASSUME Typed, CancelInv, OwnerInv, Protocol, Transferring, ~SendRequest, (Outstanding /\ Alive)'
  PROVE  Outstanding /\ Alive
<1> USE DEF Typed, Protocol
<1>1. UNCHANGED call /\ x'.length = x.length /\ pc \in Transfer
  BY TransferringFrame, TransferStays
<1>2. CASE UNCHANGED <<worker, down, up, host>>
  BY <1>1, <1>2, OutstandingSame
<1>3. CASE RequestFails
  <2>1. pc \in Still /\ worker' = worker /\ down' = down
    BY <1>3 DEF RequestFails, SendFails, Still, channels
  <2>2. QED
    BY <2>1, QuietNow
<1>4. CASE Spawn
  BY <1>4 DEF Spawn, NoWorker, Outstanding, RequestSent, PayloadSent, Serving, Working
<1>5. CASE ReapPeer
  <2>1. CASE worker.at = "zombie"
    BY <1>5, <2>1 DEF ReapPeer, Reaped, NoWorker, Alive, WorkerGone
  <2>2. CASE worker.at # "zombie"
    BY <1>2, <1>5, <2>2 DEF ReapPeer, channels
  <2>3. QED
    BY <2>1, <2>2
<1>6. CASE Bind
  <2>1. CASE Send("bind", Frame("BIND", 0, 0, 0), "ready", x)
    <3>1. pc = "bind" /\ Alive /\ worker' = worker
      BY <2>1 DEF Send, Alive
    <3>2. worker.at = "boot"
      BY <3>1, AliveIsOwned DEF PhaseInv, Booting
    <3>3. QED
      BY <3>1, <3>2 DEF Outstanding, RequestSent, PayloadSent, Serving, Working
  <2>2. CASE SendFails("bind", x) /\ UNCHANGED host
    BY <1>2, <2>2, Untouched
  <2>3. QED
    BY <1>6, <2>1, <2>2 DEF Bind
<1>7. CASE SendPayload
  <2>1. CASE Send("payload", Frame("PAYLOAD", host.request, x.length, call.done), "reply", x)
    <3>1. pc = "payload" /\ Alive
      BY <2>1 DEF Send, Alive
    <3>2. QED
      BY <3>1, AliveIsOwned DEF PhaseInv, Outstanding
  <2>2. CASE SendFails("payload", x) /\ UNCHANGED host
    BY <1>2, <2>2, Untouched
  <2>3. QED
    BY <1>7, <2>1, <2>2 DEF SendPayload
<1>8. CASE Acknowledge
  <2>1. CASE Send("ack", Frame("ACK", host.request, 0, 0), "acked", x)
    <3>1. pc = "ack" /\ Alive /\ worker' = worker /\ down' = Append(down, Ack(host.request))
      BY <2>1 DEF Send, Alive, Ack
    <3>2. worker.at = "ack" /\ down = <<>>
      BY <3>1, AliveIsOwned DEF PhaseInv, Answering
    <3>3. down' = <<Ack(host.request)>> /\ worker'.at = "ack"
      BY <3>1, <3>2, Single
    <3>4. Len(down') = 1
      BY <3>3, Ends
    <3>5. Outstanding' => Len(down') \in {2, 3}
      BY <3>3, Ends DEF Outstanding, RequestSent, PayloadSent, Serving, Working
    <3>6. QED
      BY <3>4, <3>5
  <2>2. CASE SendFails("ack", x) /\ UNCHANGED host
    BY <1>2, <2>2, Untouched
  <2>3. QED
    BY <1>8, <2>1, <2>2 DEF Acknowledge
<1>9. CASE ReceiveRecord
  <2>1. /\ pc \in {"ready", "reply", "body"} /\ up # <<>> /\ UNCHANGED <<worker, down, host>>
    BY <1>9 DEF ReceiveRecord, Receiving
  <2>2. Alive /\ host.worker
    BY <2>1, AliveIsOwned DEF Alive, WorkerGone
  <2>3. Resting(host.request) \/ Answering("body") \/ Answering("ack")
    BY <2>1, <2>2 DEF PhaseInv, AwaitsReply, AwaitsBody, Booting, RequestSent, PayloadSent,
       Serving
  <2>4. /\ Resting(host.request) => Resting(host.request)'
        /\ Answering("body") => Answering("body")'
        /\ Answering("ack") => Answering("ack")'
    <3>1. Current' = Current /\ IsEntropy' = IsEntropy
      BY <1>1, <2>1, SameMessages
    <3>2. QED
      BY <1>1, <2>1, <3>1 DEF Resting, Answering, ReplyTo
  <2>5. QED
    BY <2>3, <2>4, ApartNext DEF Apart
<1>10. CASE \/ HostRefuses \/ ReuseWorker \/ SpawnFails \/ RequestStale \/ ReceiveFails
            \/ ReceiveEmpty
            \/ RecordCancelled \/ Bound \/ StreamReplied \/ FillReplied \/ Received
               \/ Acknowledged
  BY <1>2, <1>10, Untouched
<1>11. QED
  BY <1>3, <1>4, <1>5, <1>6, <1>7, <1>8, <1>9, <1>10 DEF Transferring

\* A request that is sent stands for bytes that have not been moved yet.
LEMMA AnswerSendRequest ==
  ASSUME Typed, CancelInv, OwnerInv, ChunkInv, Protocol, MovedInv, StreamInv, SendRequest
  PROVE  AnswerInv'
<1> USE DEF Typed, Protocol
<1>1. /\ pc = "request" /\ pc' \in {"payload", "reply"}
         /\ UNCHANGED <<state, call, ret, worker, up>>
      /\ UNCHANGED <<moved, out, input, taken>> /\ Alive
      /\ down' = Append(down, Frame(RequestTag, host.request + 1, x.length, call.done))
  BY DEF SendRequest, Send, environment, Alive
<1>2. x'.length = x.length /\ x'.confirmed = 0 /\ x'.uncertain = x'.length /\ x'.error = "none"
  BY Requesting, <1>1 DEF ChunkInv
<1>3. InChunk /\ InChunk' /\ up = <<>>
  BY <1>1 DEF InChunk, UpInv
<1>4. Least(0) /\ Most(0)
  <2>1. x.confirmed = 0 /\ x.uncertain = 0
    BY <1>1 DEF ChunkInv
  <2>2. QED
    BY <1>3, <2>1 DEF MovedInv
<1>5. Exact(0)
  BY <1>1 DEF StreamInv
<1>6. Least(0)' /\ Most(0)' /\ Exact(0)'
  BY <1>1, <1>4, <1>5, OwesSame
<1>7. down' # <<>>
  BY <1>1 DEF QueuesOK
<1>8. ~Answered'
  BY <1>7 DEF Answered, Answering
<1>9. QED
  BY <1>1, <1>2, <1>3, <1>6, <1>8 DEF AnswerInv

\* A transfer that sends no request, seen by what may still be answered.
LEMMA GivesUp ==
  ASSUME ChunkOK, Transferring, pc \in Waiting \cup {"payload"}
  PROVE  ~Telling /\ x'.error \in {x.error, "cancelled", "io", "protocol"}
<1> USE DEF Waiting, ChunkOK, ChunkType
<1>1. CASE ReceiveFails \/ ReceiveRecord \/ ReceiveEmpty \/ ReapPeer
  BY <1>1 DEF ReceiveFails, ReceiveRecord, ReceiveEmpty, ReapPeer, Fail, FailCancelled, Telling,
     SendRequest, RequestFails, StreamReplied, Received, Handled, Send, SendFails
<1>2. CASE SendPayload
  BY <1>2 DEF SendPayload, Send, SendFails, Telling, SendRequest, RequestFails, StreamReplied,
     Received, Handled
<1>3. CASE ~(ReceiveFails \/ ReceiveRecord \/ ReceiveEmpty \/ ReapPeer) /\ ~SendPayload
  BY <1>3 DEF Transferring, HostRefuses, ReuseWorker, Spawn, SpawnFails, Bind, SendRequest,
     RequestFails,
     RequestStale, RecordCancelled, Bound, StreamReplied, FillReplied, Received, Acknowledge,
     Acknowledged,
     Send, SendFails, Handled
<1>4. QED
  BY <1>1, <1>2, <1>3

\* A sequence appended to is not empty.
LEMMA Pushed ==
  ASSUME NEW S, NEW q \in Seq(S), NEW e
  PROVE  Append(q, e) # <<>>
<1>1. Len(Append(q, e)) = Len(q) + 1 /\ Len(q) \in Nat
  OBVIOUS
<1>2. QED
  BY <1>1

\* How a transfer comes to wait, to an answer and to its body.
LEMMA Arrivals ==
  ASSUME Typed, Transferring, ~SendRequest
  PROVE  /\ pc' \in Waiting =>
               \/ /\ pc = "payload" /\ up' = up /\ down' # <<>>
               \/ /\ pc \in Waiting /\ UNCHANGED <<down, up, x>> /\ host'.request = host.request
                  /\ worker' = worker \/ ~Alive'
         /\ pc' = "replied" => pc = "reply" /\ x'.frame = Head(up) /\ up # <<>>
         /\ pc' \in {"body", "reap body", "received"} =>
               FillReplied \/ StreamReplied \/ (pc \in {"body", "reap body"} /\ ~Telling)
<1> USE HandlerOf, ReapingOf DEF Waiting, Typed
<1>1. CASE ReceiveRecord
  BY <1>1 DEF ReceiveRecord, Receiving, ChunkOK, ChunkType, Telling, SendRequest, RequestFails,
     StreamReplied,
     Received, Handled, Send, SendFails
<1>2. CASE ReceiveEmpty
  BY <1>2 DEF ReceiveEmpty, Receiving, channels, Telling, SendRequest, RequestFails,
     StreamReplied,
     Received, Handled, Send, SendFails
<1>3. CASE ReapPeer
  <2>1. worker' = worker \/ ~Alive'
    <3>1. worker' = worker \/ worker' = NoWorker
      BY <1>3 DEF ReapPeer, Reaped
    <3>2. worker' = NoWorker => worker'.at = "none"
      BY ONLY TRUE DEF NoWorker
    <3>3. QED
      BY <3>1, <3>2 DEF Alive, WorkerGone
  <2>2. host'.request = host.request
    BY <1>3 DEF ReapPeer, Reaped, HostOK, HostType
  <2>3. QED
    BY <1>3, <2>1, <2>2 DEF ReapPeer, channels, Telling, SendRequest, RequestFails, StreamReplied,
       Received, Handled, Send, SendFails
<1>4. CASE SendPayload
  <2>1. CASE Send("payload", Frame("PAYLOAD", host.request, x.length, call.done), "reply", x)
    <3>1. down' # <<>>
      BY <2>1, Pushed DEF Send, QueuesOK
    <3>2. QED
      BY <2>1, <3>1 DEF Send
  <2>2. CASE SendFails("payload", x)
    BY <2>2 DEF SendFails
  <2>3. QED
    BY <1>4, <2>1, <2>2 DEF SendPayload
<1>5. CASE FillReplied \/ StreamReplied
  BY <1>5 DEF FillReplied, StreamReplied, Handled, Fail, AwaitBody
<1>6. CASE HostRefuses \/ ReuseWorker \/ Spawn \/ SpawnFails \/ Bind \/ RequestFails
           \/ RequestStale
  BY <1>6 DEF HostRefuses, ReuseWorker, Spawn, SpawnFails, Bind, RequestFails, RequestStale, Send,
     SendFails,
     Fail, FailCancelled
<1>7. CASE ReceiveFails \/ RecordCancelled \/ Bound \/ Received \/ Acknowledge \/ Acknowledged
  BY <1>7 DEF ReceiveFails, RecordCancelled, Bound, Received, Acknowledge, Acknowledged, Send,
     SendFails,
     Fail, FailCancelled, Handled
<1>8. QED
  BY <1>1, <1>2, <1>3, <1>4, <1>5, <1>6, <1>7 DEF Transferring

\* The steps of a transfer keep what requests and answers stand for.
LEMMA AnswerTransferring ==
  ASSUME Typed, CancelInv, OwnerInv, ChunkInv, Protocol, MovedInv, AnswerInv, StreamInv,
         Transferring
  PROVE  AnswerInv'
<1>1. CASE SendRequest
  BY <1>1, AnswerSendRequest
<1>2. CASE ~SendRequest
  <2>1. UNCHANGED <<state, call, moved, out, input, taken>>
    BY TransferringFrame
  <2>2. pc \in Transfer /\ InChunk' /\ x'.length = x.length /\ (IsEntropy' <=> IsEntropy)
    BY <2>1, TransferStays, BoundsSame
  <2>3. ASSUME (Outstanding /\ Alive)'
        PROVE  /\ (InChunk /\ x.confirmed = 0 /\ x.uncertain = x.length)'
               /\ (x.error \notin {"interrupted", "would_block"} /\ Least(0) /\ Most(0)
                  /\ Exact(0))'
    <3>1. Outstanding /\ Alive
      BY <1>2, <2>3, RequestKept
    <3>2. pc \in Waiting \cup {"payload"}
      BY <2>2, <3>1, OutstandingAt
    <3>3. ~Telling /\ x'.error \in {x.error, "cancelled", "io", "protocol"}
      BY <3>2, GivesUp DEF Typed
    <3>4. x'.confirmed = x.confirmed /\ x'.uncertain = x.uncertain
      BY <3>3, Silent DEF Typed
    <3>5. Least(0)' /\ Most(0)' /\ Exact(0)'
      BY <2>1, <3>1, OwesSame DEF AnswerInv
    <3>6. QED
      BY <2>2, <3>1, <3>3, <3>4, <3>5 DEF AnswerInv
  <2>4. ASSUME (Answered /\ Alive /\ host.worker)', pc' \in Waiting
        PROVE  Owes(worker.reply)'
    <3>1. down' = <<>>
      BY <2>4 DEF Answered, Answering
    <3>2. /\ pc \in Waiting /\ UNCHANGED <<down, up, x, worker>> /\ host'.request = host.request
      BY <1>2, <2>4, <3>1, Arrivals
    <3>3. Answered /\ Alive /\ host.worker
      <4>1. Answered /\ Alive
        BY <2>1, <2>4, <3>2, OutstandingSame DEF Answered
      <4>2. QED
        BY <3>2, <4>1, AliveIsOwned DEF Waiting
    <3>4. Owes(worker.reply)
      BY <3>2, <3>3 DEF AnswerInv, Waiting
    <3>5. QED
      BY <2>1, <3>2, <3>4, OwesSame
  <2>5. ASSUME pc' \in Waiting, up' # <<>>
        PROVE  Owes(up[1])'
    <3>1. pc = "payload" => up = <<>>
      BY DEF Protocol, UpInv
    <3>2. pc \in Waiting /\ up' = up
      BY <1>2, <2>5, <3>1, Arrivals
    <3>3. Owes(up[1])
      BY <2>5, <3>2 DEF AnswerInv, Waiting
    <3>4. QED
      BY <2>1, <3>2, <3>3, OwesSame
  <2>6. ASSUME pc' = "replied"
        PROVE  Owes(x.frame)'
    <3>1. pc = "reply" /\ x'.frame = Head(up) /\ up # <<>>
      BY <1>2, <2>6, Arrivals
    <3>2. Owes(up[1]) /\ Head(up) = up[1]
      BY <3>1 DEF AnswerInv, Typed, QueuesOK
    <3>3. QED
      BY <2>1, <3>1, <3>2, OwesSame
  <2>7. ASSUME pc' \in {"body", "reap body", "received"}, IsEntropy'
        PROVE  Least(x.length)'
    <3>1. Low' = Low /\ Gone' = Gone
      BY <2>1, BoundsSame
    <3>2. Low + x.length <= Gone
      <4>1. CASE FillReplied
        <5>1. pc = "replied" /\ x.frame.tag # "FAILED" /\ IsEntropy
          BY <2>7, <4>1 DEF FillReplied, Handled, Fail
        <5>2. ReplyTo(x.frame)
          BY <5>1 DEF Protocol, UpInv
        <5>3. x.frame.bytes = x.length
          BY <5>1, <5>2 DEF ReplyTo
        <5>4. Least(x.frame.bytes)
          BY <5>1 DEF AnswerInv, Owes
        <5>5. QED
          BY <5>3, <5>4 DEF Least
      <4>2. CASE pc \in {"body", "reap body"}
        BY <2>2, <2>7, <4>2 DEF AnswerInv, Least
      <4>3. CASE StreamReplied
        BY <2>2, <2>7, <4>3 DEF StreamReplied
      <4>4. QED
        BY <1>2, <2>7, <4>1, <4>2, <4>3, Arrivals
    <3>3. QED
      BY <2>2, <3>1, <3>2 DEF Least
  <2>8. QED
    BY <2>3, <2>4, <2>5, <2>6, <2>7 DEF AnswerInv, Waiting
<1>3. QED
  BY <1>1, <1>2

\* The phases that expect an answer or its body.
Elsewhere == Waiting \cup {"replied", "body", "reap body", "received"}

\* Where nothing is asked for there is nothing to answer.
LEMMA AnswerQuiet ==
  ASSUME ~(Outstanding /\ Alive)', pc' \notin Elsewhere
  PROVE  AnswerInv'
  BY DEF AnswerInv, Elsewhere, Waiting

\* The steps of a call are taken where nothing is asked for.
LEMMA AnswerCalling ==
  ASSUME Typed, OwnerInv, Protocol, Calling
  PROVE  AnswerInv'
<1>1. worker' = worker /\ down' = down
  BY CallingFrame
<1>2. pc \in Still /\ pc' \notin Elsewhere
  <2> USE DEF Still, Elsewhere, Waiting
  <2>1. CASE ChunkSucceeds
    BY <2>1 DEF ChunkSucceeds, Return
  <2>2. CASE AdmissionFails \/ Admit \/ CallSucceeds \/ CandidatesExhausted
    BY <2>2 DEF AdmissionFails, Admit, CallSucceeds, CandidatesExhausted, Return
  <2>3. CASE ChunkRefused \/ StartChunk \/ Settle \/ RetryChunk \/ ChunkFails
    BY <2>3 DEF ChunkRefused, StartChunk, Settle, RetryChunk, ChunkFails, ChunkDue, Return
  <2>4. QED
    BY <2>1, <2>2, <2>3 DEF Calling
<1>3. QED
  BY <1>1, <1>2, QuietNow, AnswerQuiet

\* The program, the signals and the clock ask for nothing.
LEMMA AnswerWorld ==
  ASSUME Typed, OwnerInv, Protocol, AnswerInv, World
  PROVE  AnswerInv'
<1>1. UNCHANGED <<x, host, down, up, worker, moved, input>>
  BY WorldFrame
<1>2. CASE (\E c \in Calls : Invoke(c)) \/ Finish
  <2>1. pc = "idle" /\ pc' \in {"admission", "done", "close"}
    BY <1>2, InvokeEffect, FinishEffect DEF Typed
  <2>2. QED
    BY <1>1, <2>1, QuietNow, AnswerQuiet DEF Still, Elsewhere, Waiting
<1>3. CASE UNCHANGED <<state, pc, ret, call, out, taken>>
  <2>1. /\ (Outstanding' <=> Outstanding) /\ (Alive' <=> Alive) /\ (Answered' <=> Answered)
    BY <1>1, <1>3, OutstandingSame DEF Answered
  <2>2. /\ Owes(worker.reply)' <=> Owes(worker.reply)
        /\ Owes(up[1])' <=> Owes(up[1])
        /\ Owes(x.frame)' <=> Owes(x.frame)
        /\ (Least(0)' <=> Least(0)) /\ (Most(0)' <=> Most(0)) /\ (Exact(0)' <=> Exact(0))
    BY <1>1, <1>3, OwesSame
  <2>3. /\ (InChunk' <=> InChunk) /\ (IsEntropy' <=> IsEntropy)
        /\ (Least(x.length)' <=> Least(x.length))
    BY <1>1, <1>3, BoundsSame DEF InChunk, Least
  <2>4. QED
    BY <1>1, <1>3, <2>1, <2>2, <2>3 DEF AnswerInv
<1>4. QED
  BY <1>2, <1>3, WorldFrame

\* Closing makes no request either.
LEMMA CloseKeeps ==
  ASSUME Typed, CancelInv, OwnerInv, ReportInv, Protocol, Closing, (Outstanding /\ Alive)'
  PROVE  Outstanding /\ Alive
<1> USE DEF Typed
<1>1. UNCHANGED call /\ x'.length = x.length /\ pc \in ClosePhases
  BY ClosingFrame, ClosingStays
<1>2. host'.request = host.request
  BY DEF Closing, CloseSocket, Terminate, Grace, Wait, RestoreTerminal, PollSignals,
     RestoreSignals,
     DropLease, Closed, CloseStep, Reaped, HostOK, HostType
<1>3. CASE CloseSocket
  <2>1. pc = "close" /\ worker' = worker /\ down' = <<>>
    BY <1>3 DEF CloseSocket, CloseStep
  <2>2. Alive
    BY <2>1 DEF Alive, WorkerGone
  <2>3. InUse \/ Resting(host.request - 1)
    BY <2>1, <2>2, AliveIsOwned, InUseNow DEF Protocol
  <2>4. worker.at \in {"payload", "syscall", "poll", "fill"}
    BY <2>1, Ends DEF Outstanding, RequestSent, PayloadSent, Serving, Working
  <2>5. QED
    BY <2>2, <2>3, <2>4 DEF InUse, Booting, Resting, Answering, Outstanding
<1>4. CASE ~CloseSocket
  <2>1. UNCHANGED <<down, up>>
    BY <1>4 DEF Closing, Terminate, Grace, Wait, RestoreTerminal, PollSignals, RestoreSignals,
       DropLease, Closed, CloseStep, channels
  <2>2. worker'.at # "none" /\ (worker' = worker \/ \E s : worker' = [worker EXCEPT !.signal = s])
    <3>1. worker' = NoWorker => worker'.at = "none"
      BY DEF NoWorker
    <3>2. worker'.at # "none"
      BY DEF Alive, WorkerGone
    <3>3. QED
      BY <1>4, <3>1, <3>2 DEF Closing, Terminate, Grace, Wait, RestoreTerminal, PollSignals,
         RestoreSignals,
         DropLease, Closed, CloseStep, Reaped
  <2>3. worker'.at = worker.at /\ worker'.served = worker.served /\ worker'.job = worker.job
    BY <2>2 DEF WorkerOK, WorkerType
  <2>4. Current' = Current /\ Payload' = Payload /\ IsEntropy' = IsEntropy
    BY <1>1, <1>2, SameMessages
  <2>5. QED
    BY <1>1, <1>2, <2>1, <2>3, <2>4 DEF Outstanding, RequestSent, PayloadSent, Serving, Working,
       Alive, WorkerGone
<1>5. QED
  BY <1>3, <1>4

\* The steps of close keep what requests and answers stand for.
LEMMA AnswerClosing ==
  ASSUME Typed, CancelInv, OwnerInv, ReportInv, Protocol, AnswerInv, Closing
  PROVE  AnswerInv'
<1>1. UNCHANGED <<call, moved, out, taken, input>>
  BY ClosingFrame
<1>2. /\ (InChunk' <=> InChunk) /\ x'.length = x.length /\ x'.confirmed = x.confirmed
      /\ x'.uncertain = x.uncertain /\ x'.error = x.error /\ pc' \notin Elsewhere
      /\ state'.roles = state.roles /\ state'.progress = state.progress
  BY ClosingStays DEF Elsewhere, Waiting
<1>3. (Least(0)' <=> Least(0)) /\ (Most(0)' <=> Most(0)) /\ (Exact(0)' <=> Exact(0))
  BY <1>1, <1>2, BoundsSame DEF Least, Most, Exact
<1>4. (Outstanding /\ Alive)' => Outstanding /\ Alive
  BY CloseKeeps
<1>5. QED
  BY <1>2, <1>3, <1>4 DEF AnswerInv, Elsewhere, Waiting

\* What follows when the bytes of a list are numbered on.
LEMMA Continued ==
  ASSUME NEW q \in Seq(Nat), NEW n \in Nat, NEW d \in Nat, d = Len(q)
  PROVE  /\ Len(q \o [i \in 1..n |-> d + i]) = d + n
         /\ (\A i \in DOMAIN q : q[i] = i) =>
               \A i \in DOMAIN (q \o [j \in 1..n |-> d + j]) : (q \o [j \in 1..n |-> d + j])[i] = i
<1> DEFINE t == [i \in 1..n |-> d + i]
<1>1. t \in Seq(Nat) /\ Len(t) = n /\ \A i \in 1..n : t[i] = d + i
  OBVIOUS
<1> HIDE DEF t
<1>2. /\ Len(q \o t) = d + n
      /\ DOMAIN (q \o t) = 1..(d + n)
      /\ \A i \in 1..(d + n) : (q \o t)[i] = IF i <= d THEN q[i] ELSE t[i - d]
  <2>1. Len(q \o t) = d + n /\ q \o t \in Seq(Nat)
    BY <1>1, ConcatProperties
  <2>2. DOMAIN (q \o t) = 1..(d + n)
    BY <2>1
  <2>3. \A i \in 1..(d + n) : (q \o t)[i] = IF i <= d THEN q[i] ELSE t[i - d]
    BY <1>1, ConcatProperties
  <2>4. QED
    BY <2>1, <2>2, <2>3
<1>3. ASSUME \A i \in DOMAIN q : q[i] = i, NEW i \in 1..(d + n)
      PROVE  (q \o t)[i] = i
  <2>1. CASE i <= d
    <3>1. i \in DOMAIN q
      BY <2>1
    <3>2. QED
      BY <1>2, <1>3, <2>1, <3>1
  <2>2. CASE ~(i <= d)
    <3>1. i - d \in 1..n /\ d + (i - d) = i
      BY <2>2
    <3>2. QED
      BY <1>1, <1>2, <2>2, <3>1
  <2>3. QED
    BY <2>1, <2>2
<1>4. QED
  BY <1>2, <1>3 DEF t

\* A worker in its host call serves the current request.
LEMMA ServesNow ==
  ASSUME Typed, CancelInv, OwnerInv, Protocol, HostCall
  PROVE  /\ Serving /\ Outstanding /\ Alive /\ up' = up /\ down' = down
         /\ Serving' \/ Answering("reply")'
         /\ worker.job.tag = RequestTag /\ worker.job.bytes = x.length
            /\ worker.job.offset = call.done
<1>1. Alive
  BY DEF HostCall, WorkerReads, WorkerWrites, WorkerErrs, WorkerPolls, WorkerFills, WorkerStep,
     Alive, WorkerGone
<1>2. InUse \/ Resting(host.request - 1) \/ (down = <<>> /\ (Working => Serving))
  <2>1. CASE host.worker
    BY <1>1, <2>1, InUseNow DEF Protocol
  <2>2. CASE ~host.worker
    BY <1>1, <2>2 DEF Protocol, ChannelInv
  <2>3. QED
    BY <2>1, <2>2
<1>3. Serving /\ up' = up /\ down' = down /\ (Serving' \/ Answering("reply")')
  BY <1>2, CallServed
<1>4. QED
  BY <1>1, <1>3, Tags DEF Outstanding, Serving

\* What one host call moves, and what the worker will say of it.
Moves(n) ==
    /\ moved' = [moved EXCEPT ![Role] = @ + n]
    /\ ~IsEntropy => Streamed' = Streamed + n
    /\ worker'.at = "reply" =>
           /\ worker'.reply.bytes \in 0..n
           /\ ~IsEntropy => worker'.reply.bytes = n
           /\ (call.kind = "read" /\ worker'.reply.tag = "PROGRESS" /\ worker'.reply.bytes = 0)
              => input' = 0
    /\ worker'.at # "reply" => n = 0
    /\ input = 0 => input' = 0
    /\ IF call.kind = "write" THEN out' = out \o [i \in 1..n |-> call.done + i] ELSE out' = out

\* Host calls that fail or have to wait move nothing.
LEMMA MovesNothing ==
  ASSUME Typed, UNCHANGED <<call, moved, out, input, taken>>,
         worker'.at = "reply" => worker'.reply.bytes = 0 /\ worker'.reply.tag # "PROGRESS"
  PROVE  Moves(0)
<1>1. moved = [moved EXCEPT ![Role] = @ + 0]
  BY RoleIn DEF Typed, EnvironmentOK
<1>2. out \o [i \in 1..0 |-> call.done + i] = out
  <2>1. [i \in 1..0 |-> call.done + i] = <<>>
    OBVIOUS
  <2>2. out \in Seq(Nat)
    BY DEF Typed, EnvironmentOK
  <2>3. QED
    BY <2>1, <2>2, ConcatEmptySeq
<1>3. Streamed' = Streamed + 0
  BY Bounds DEF Streamed
<1>4. IF call.kind = "write" THEN out' = out \o [i \in 1..0 |-> call.done + i] ELSE out' = out
  BY <1>2
<1>5. moved' = [moved EXCEPT ![Role] = @ + 0] /\ (input = 0 => input' = 0)
  BY <1>1
<1>6. worker'.at = "reply" =>
           /\ worker'.reply.bytes \in 0..0
           /\ ~IsEntropy => worker'.reply.bytes = 0
           /\ (call.kind = "read" /\ worker'.reply.tag = "PROGRESS" /\ worker'.reply.bytes = 0)
              => input' = 0
  OBVIOUS
<1>7. QED
  BY ONLY <1>3, <1>4, <1>5, <1>6 DEF Moves

\* What the worker's answer carries.
LEMMA Answer ==
  ASSUME WorkerOK, NEW tag, NEW n, Replies(tag, n)
  PROVE  worker'.at = "reply" /\ worker'.reply.bytes = n /\ worker'.reply.tag = tag
  BY DEF Replies, WorkerOK, WorkerType, Frame

\* A host call moves what it answers with; entropy may be drawn that is not answered with.
LEMMA HostMoves ==
  ASSUME Typed, CancelInv, OwnerInv, Protocol, AnswerInv, HostCall
  PROVE  \E n \in 0..x.length : Moves(n)
<1> USE DEF Typed
<1>1. /\ Serving /\ Outstanding /\ Alive /\ worker.job.tag = RequestTag
         /\ worker.job.bytes = x.length
      /\ worker.job.offset = call.done /\ x.length \in Nat /\ call.done \in Nat
  BY ServesNow, Naturals
<1>2. UNCHANGED <<call, x>>
  BY Same DEF HostCall, Peer, Worker
<1>3. Exact(0)
  BY <1>1 DEF AnswerInv
<1>4. CASE WorkerReads
  <2>1. call.kind = "read" /\ Role = "stdin" /\ ~IsEntropy
    BY <1>1, <1>4, TagOf DEF WorkerReads, Role, RoleOf, IsEntropy
  <2>2. PICK n \in 0..Smaller(worker.job.bytes, input) :
               /\ n = 0 => input = 0
               /\ input' = input - n /\ taken' = taken + n
               /\ moved' = [moved EXCEPT !["stdin"] = @ + n]
               /\ Replies("PROGRESS", n)
    BY <1>4 DEF WorkerReads
  <2>3. n \in 0..x.length /\ n \in Nat /\ input \in Nat /\ n <= input /\ taken \in Nat
        /\ out' = out
    BY <1>1, <1>4, <2>2 DEF Smaller, EnvironmentOK, WorkerReads
  <2>4. worker'.at = "reply" /\ worker'.reply.bytes = n /\ worker'.reply.tag = "PROGRESS"
    BY <2>2, Answer
  <2>5. Streamed' = Streamed + n
    BY <1>2, <2>1, <2>2 DEF Streamed
  <2>6. (input = 0 => input' = 0) /\ (n = 0 => input' = 0)
    BY <2>2, <2>3
  <2>7. Moves(n)
    BY <1>2, <2>1, <2>2, <2>3, <2>4, <2>5, <2>6 DEF Moves
  <2>8. QED
    BY <2>3, <2>7
<1>5. CASE WorkerWrites
  <2>1. call.kind = "write" /\ Role = "stdout" /\ ~IsEntropy
    BY <1>1, <1>5, TagOf DEF WorkerWrites, Role, RoleOf, IsEntropy
  <2>2. PICK n \in 0..x.length :
               /\ out' = out \o [i \in 1..n |-> call.done + i]
               /\ moved' = [moved EXCEPT !["stdout"] = @ + n]
               /\ Replies("PROGRESS", n)
    BY <1>1, <1>5 DEF WorkerWrites
  <2>3. n \in Nat /\ out \in Seq(Nat) /\ input' = input
    BY <1>1, <1>5 DEF EnvironmentOK, WorkerWrites
  <2>4. worker'.at = "reply" /\ worker'.reply.bytes = n /\ worker'.reply.tag = "PROGRESS"
    BY <2>2, Answer
  <2>5. Streamed' = Streamed + n
    <3>1. Len(out) = call.done
      BY <1>1, <1>3, <2>1 DEF Exact, Streamed
    <3>2. Len(out') = Len(out) + n
      BY <1>1, <2>2, <2>3, <3>1, Continued
    <3>3. QED
      BY <1>2, <2>1, <3>2 DEF Streamed
  <2>6. Moves(n)
    BY <1>2, <2>1, <2>2, <2>3, <2>4, <2>5 DEF Moves
  <2>7. QED
    BY <2>6
<1>6. CASE WorkerErrs \/ WorkerPolls
  <2>1. UNCHANGED <<moved, out, input, taken>>
    BY <1>6 DEF WorkerErrs, WorkerPolls, environment
  <2>2. worker'.at = "reply" => worker'.reply.bytes = 0 /\ worker'.reply.tag # "PROGRESS"
    <3>1. \/ worker' = [worker EXCEPT !.at = "poll"]
          \/ \E tag \in Errors : Replies(tag, 0)
      BY <1>6 DEF WorkerErrs, WorkerPolls, Errors
    <3>2. CASE worker' = [worker EXCEPT !.at = "poll"]
      BY <3>2 DEF WorkerOK, WorkerType
    <3>3. CASE \E tag \in Errors : Replies(tag, 0)
      BY <3>3, Answer DEF Errors
    <3>4. QED
      BY <3>1, <3>2, <3>3
  <2>3. Moves(0)
    BY <1>2, <2>1, <2>2, MovesNothing
  <2>4. QED
    BY <1>1, <2>3
<1>7. CASE WorkerFills
  <2>1. IsEntropy /\ Role = "entropy" /\ call.kind \notin {"read", "write"}
    BY <1>1, <1>7, TagOf DEF WorkerFills, WorkerStep, Serving, IsEntropy, Role, RoleOf
  <2>2. UNCHANGED <<out, input, taken>>
    BY <1>7 DEF WorkerFills
  <2>3. PICK n \in 0..x.length : /\ moved' = [moved EXCEPT !["entropy"] = @ + n]
                                 /\ (n = x.length /\ Replies("DATA", n)) \/ Replies("FAILED", 0)
    BY <1>1, <1>7 DEF WorkerFills
  <2>4. worker'.at = "reply" /\ worker'.reply.bytes \in 0..n
    BY <1>1, <2>3, Answer
  <2>5. Moves(n)
    BY <1>2, <2>1, <2>2, <2>3, <2>4 DEF Moves
  <2>6. QED
    BY <2>5
<1>8. QED
  BY <1>4, <1>5, <1>6, <1>7 DEF HostCall

\* The account's bounds before and after a host call.
LEMMA MovesBounds ==
  ASSUME Typed, AnswerInv, Outstanding, Alive, NEW n \in 0..x.length, Moves(n),
         UNCHANGED <<state, call, x, pc, ret>>
  PROVE  /\ Low' = Low /\ High' = High /\ Gone' = Gone + n /\ n \in Nat /\ Role' = Role
            /\ (IsEntropy' <=> IsEntropy)
         /\ \A r \in Roles : r # Role => moved'[r] = moved[r]
         /\ Low <= Gone /\ Gone <= High
         /\ ~IsEntropy => Streamed' = call.done + n
<1>1. /\ Least(0) /\ Most(0) /\ Exact(0)
  BY DEF AnswerInv
<1>2. Low' = Low /\ High' = High /\ Role' = Role /\ (IsEntropy' <=> IsEntropy) /\ n \in Nat
  BY Naturals DEF Low, High, Role, IsEntropy, Recorded
<1>3. Gone' = Gone + n /\ \A r \in Roles : r # Role => moved'[r] = moved[r]
  BY <1>2, RoleIn DEF Moves, Gone, Typed, EnvironmentOK
<1>4. ~IsEntropy => Streamed' = call.done + n
  BY <1>1, Naturals DEF Moves, Exact
<1>5. Low <= Gone /\ Gone <= High
  BY <1>1, Bounds DEF Least, Most
<1>6. QED
  BY <1>2, <1>3, <1>4, <1>5

\* The worker's steps keep what was moved within the account's bounds.
LEMMA MovedPeer ==
  ASSUME Typed, CancelInv, OwnerInv, Protocol, MovedInv, AnswerInv, Peer
  PROVE  MovedInv'
<1> USE Bounds, Naturals
<1>1. UNCHANGED <<state, pc, ret, call, x>>
  BY PeerFrame
<1>2. (InChunk' <=> InChunk) /\ (Busy' <=> Busy) /\ \A r \in Roles : Recorded(r)' = Recorded(r)
  BY <1>1 DEF InChunk, Busy, Recorded
<1>3. CASE HostCall
  <2>1. Outstanding /\ Alive
    BY <1>3, ServesNow
  <2>2. PICK n \in 0..x.length : Moves(n)
    BY <1>3, HostMoves
  <2>3. /\ Low' = Low /\ High' = High /\ Gone' = Gone + n /\ n \in Nat /\ Role' = Role
        /\ Low <= Gone /\ Gone <= High
        /\ \A r \in Roles : r # Role => moved'[r] = moved[r]
    BY <1>1, <2>1, <2>2, MovesBounds
  <2>4. InChunk /\ Busy /\ x.confirmed = 0 /\ x.uncertain = x.length
        /\ pc \notin {"chunk", "result", "failed"}
    BY <2>1 DEF AnswerInv, InChunk, Busy
  <2>5. (Least(x.confirmed) /\ Most(x.confirmed + x.uncertain))'
    BY <1>1, <2>2, <2>3, <2>4 DEF Least, Most
  <2>6. QED
    BY <1>1, <1>2, <2>3, <2>4, <2>5 DEF MovedInv
<1>4. CASE ~HostCall
  <2>1. UNCHANGED moved
    BY <1>4 DEF HostCall, Peer, Worker, WorkerBinds, WorkerServes, WorkerPayload, WorkerReplies,
       WorkerBody,
       WorkerSends, WorkerAcknowledged, WorkerDies, WorkerTerminated, WorkerKilled, Exits,
         environment
  <2>2. Low' = Low /\ High' = High /\ Gone' = Gone /\ Role' = Role
    BY <1>1, <2>1 DEF Low, High, Gone, Role, Recorded
  <2>3. QED
    BY <1>1, <1>2, <2>1, <2>2 DEF MovedInv, Least, Most
<1>5. QED
  BY <1>3, <1>4

\* All other steps of the worker move nothing.
LEMMA PeerElse ==
  ASSUME Typed, Peer, ~HostCall
  PROVE  /\ UNCHANGED <<state, pc, ret, call, x, host, moved, out, input, taken>>
         /\ \/ WorkerBinds \/ WorkerServes \/ WorkerPayload \/ WorkerReplies \/ WorkerBody
               \/ WorkerAcknowledged
            \/ ~Alive' /\ UNCHANGED <<down, up>>
<1>1. UNCHANGED <<state, pc, ret, call, x, host>>
  BY PeerFrame
<1>2. UNCHANGED <<moved, out, input, taken>>
  BY DEF HostCall, Peer, Worker, WorkerBinds, WorkerServes, WorkerPayload, WorkerReplies,
     WorkerBody,
     WorkerSends, WorkerAcknowledged, WorkerDies, WorkerTerminated, WorkerKilled, Exits,
       environment
<1>3. CASE WorkerDies \/ WorkerTerminated \/ WorkerKilled
  BY <1>1, <1>2, <1>3 DEF WorkerDies, WorkerTerminated, WorkerKilled, Exits, channels, Alive,
     WorkerGone, NoWorker
<1>4. CASE Worker
  BY <1>1, <1>2, <1>4 DEF HostCall, Worker
<1>5. QED
  BY <1>3, <1>4 DEF Peer

\* What the worker may be doing when it takes a step.
LEMMA PeerNow ==
  ASSUME CancelInv, OwnerInv, Protocol, Worker
  PROVE  /\ Alive /\ (host.worker => InUse \/ Resting(host.request - 1))
         /\ ~host.worker => down = <<>> /\ host.closed
<1>1. Alive
  BY DEF Worker, WorkerBinds, WorkerServes, WorkerPayload, WorkerReads, WorkerWrites, WorkerErrs,
     WorkerPolls, WorkerFills, WorkerReplies, WorkerBody, WorkerSends, WorkerAcknowledged,
     WorkerStep,
     Alive, WorkerGone
<1>2. ~host.worker => pc \in Stopping
  BY <1>1, AliveIsOwned
<1>3. QED
  BY <1>1, <1>2, InUseNow DEF Protocol, DownInv, OwnerInv

\* Away from its host call the worker makes no request, and answers only what
\* it has already got an answer for.
LEMMA PeerKeeps ==
  ASSUME Typed, CancelInv, OwnerInv, Protocol, Peer, ~HostCall
  PROVE  /\ (Outstanding /\ Alive)' => Outstanding /\ Alive
         /\ (Answered /\ Alive /\ host.worker)' => Answered /\ Alive /\ host.worker
            /\ worker'.reply = worker.reply
<1> USE DEF Typed
<1>1. host' = host
  BY PeerElse
<1>2. CASE ~host.worker /\ Worker
  <2>1. down = <<>> /\ host.closed /\ Alive
    BY <1>2, PeerNow
  <2>2. CASE WorkerReplies \/ WorkerBody
    <3>1. worker' = [worker EXCEPT !.at = "zombie"]
      BY <2>1, <2>2 DEF WorkerReplies, WorkerBody, WorkerSends
    <3>2. ~Alive'
      BY <3>1 DEF Alive, WorkerGone, WorkerOK, WorkerType
    <3>3. QED
      BY <3>2
  <2>3. CASE WorkerBinds \/ WorkerServes \/ WorkerPayload \/ WorkerAcknowledged
    BY <2>1, <2>3 DEF WorkerBinds, WorkerServes, WorkerPayload, WorkerAcknowledged, Take
  <2>4. QED
    BY <1>2, <2>2, <2>3, PeerElse DEF Worker, HostCall
<1>3. CASE host.worker /\ Worker
  <2>1. InUse \/ Resting(host.request - 1)
    BY <1>3, PeerNow
  <2>2. Alive
    BY <1>3, PeerNow
  <2>3. CASE WorkerBinds
    <3>1. worker.at = "boot"
      BY <2>3 DEF WorkerBinds, WorkerStep
    <3>2. InUse
      BY <2>1, <3>1 DEF Resting
    <3>3. Resting(host.request)' /\ worker'.at = "ready"
      BY <2>3, <3>2, Binds
    <3>4. QED
      BY <3>3, ApartNext DEF Apart, Answered, Answering
  <2>4. CASE WorkerAcknowledged
    <3>1. worker'.at = "ready"
      BY <2>1, <2>4, Acknowledges
    <3>2. ~Answered'
      BY <3>1 DEF Answered, Answering
    <3>3. Resting(host.request) \/ Resting(host.request - 1) => ~Outstanding'
      BY <2>1, <2>4, Acknowledges, ApartNext DEF Apart
    <3>4. QED
      BY <2>1, <2>2, <2>4, <3>2, <3>3, Acknowledges DEF Outstanding
  <2>5. CASE WorkerServes
    <3>1. RequestSent \/ PayloadSent
      BY <2>1, <2>5, Serves
    <3>2. Serving' \/ RequestSent' \/ PayloadSent'
      BY <2>1, <2>5, Serves DEF CallOK, CallStateType
    <3>3. QED
      BY <2>2, <3>1, <3>2, ApartNext DEF Outstanding, Apart, Answered
  <2>6. CASE WorkerPayload
    BY <2>1, <2>2, <2>6, TakesPayload, ApartNext DEF Outstanding, Apart, Answered
  <2>7. CASE WorkerReplies
    <3>1. Answering("reply") /\ worker'.reply = worker.reply
      BY <1>3, <2>1, <2>7, SendsReply
    <3>2. Alive' => Answering("body")' \/ Answering("ack")'
      BY <1>3, <2>1, <2>7, SendsReply DEF Alive, WorkerGone
    <3>3. QED
      BY <1>3, <2>2, <3>1, <3>2, ApartNext DEF Apart, Answered
  <2>8. CASE WorkerBody
    BY <1>3, <2>1, <2>2, <2>8, SendsBody, ApartNext DEF Apart, Answered
  <2>9. QED
    BY <1>3, <2>3, <2>4, <2>5, <2>6, <2>7, <2>8, PeerElse DEF Worker, HostCall
<1>4. CASE ~Worker
  BY <1>4, PeerElse DEF Worker
<1>5. QED
  BY <1>2, <1>3, <1>4

\* A host call that is over stands for what it moved.
LEMMA AnswerHostCall ==
  ASSUME Typed, CancelInv, OwnerInv, Protocol, AnswerInv, HostCall
  PROVE  AnswerInv'
<1> USE Bounds, Naturals
<1>1. UNCHANGED <<state, pc, ret, call, x, host>>
  BY PeerFrame DEF HostCall, Peer, Worker
<1>2. Serving /\ Outstanding /\ Alive /\ up' = up /\ up = <<>>
      /\ (Serving' \/ Answering("reply")')
  BY ServesNow DEF Serving
<1>3. PICK n \in 0..x.length : Moves(n)
  BY HostMoves
<1>4. /\ Low' = Low /\ High' = High /\ Gone' = Gone + n /\ n \in Nat /\ (IsEntropy' <=> IsEntropy)
      /\ Low <= Gone /\ Gone <= High
      /\ ~IsEntropy => Streamed' = call.done + n
  BY <1>1, <1>2, <1>3, MovesBounds
<1>5. pc \in Waiting \cup {"payload", "close"} \cup Stopping
  BY <1>2, OutstandingAt
<1>6. ASSUME Outstanding'
      PROVE  (InChunk /\ x.confirmed = 0 /\ x.uncertain = x.length
              /\ x.error \notin {"interrupted", "would_block"} /\ Least(0) /\ Most(0)
                 /\ Exact(0))'
  <2>1. worker'.at # "reply"
    BY <1>2, <1>6, ApartNext DEF Apart, Serving, Working
  <2>2. n = 0
    BY <1>3, <2>1 DEF Moves
  <2>3. Least(0)' /\ Most(0)' /\ Exact(0)'
    BY <1>1, <1>4, <2>2 DEF Least, Most, Exact
  <2>4. QED
    BY <1>1, <1>2, <2>3 DEF AnswerInv, InChunk
<1>7. ASSUME Answered'
      PROVE  Owes(worker.reply)'
  <2>1. worker'.at = "reply"
    BY <1>2, <1>7 DEF Serving, Working, Answered, Answering
  <2>2. /\ worker'.reply.bytes \in 0..n
        /\ ~IsEntropy => worker'.reply.bytes = n
        /\ (call.kind = "read" /\ worker'.reply.tag = "PROGRESS" /\ worker'.reply.bytes = 0)
           => input' = 0
    BY <1>3, <2>1 DEF Moves
  <2>3. Low' + worker'.reply.bytes <= Gone'
        /\ (~IsEntropy => Gone' <= High' + worker'.reply.bytes)
    BY <1>4, <2>2
  <2>4. QED
    BY <1>1, <1>4, <2>2, <2>3 DEF Owes, Least, Most, Exact
<1>8. QED
  BY <1>1, <1>2, <1>5, <1>6, <1>7 DEF AnswerInv, Waiting

\* The worker's steps keep what requests and answers stand for.
LEMMA AnswerPeer ==
  ASSUME Typed, CancelInv, OwnerInv, Protocol, AnswerInv, Peer
  PROVE  AnswerInv'
<1>1. CASE HostCall
  BY <1>1, AnswerHostCall
<1>2. CASE ~HostCall
  <2>1. UNCHANGED <<state, pc, ret, call, x, host, moved, out, input, taken>>
    BY <1>2, PeerElse
  <2>2. /\ (InChunk' <=> InChunk) /\ (IsEntropy' <=> IsEntropy)
           /\ (Least(x.length)' <=> Least(x.length))
    BY <2>1, BoundsSame DEF InChunk, Least
  <2>3. /\ \A f : (Owes(f)' <=> Owes(f))
        /\ (Least(0)' <=> Least(0)) /\ (Most(0)' <=> Most(0)) /\ (Exact(0)' <=> Exact(0))
        /\ Owes(x.frame)' <=> Owes(x.frame)
    BY <2>1, OwesSame
  <2>4. (Outstanding /\ Alive)' => Outstanding /\ Alive
    BY <1>2, PeerKeeps
  <2>5. ASSUME (Answered /\ Alive /\ host.worker)', pc \in Waiting
        PROVE  Owes(worker.reply)'
    <3>1. Answered /\ Alive /\ host.worker /\ worker'.reply = worker.reply
      BY <1>2, <2>5, PeerKeeps
    <3>2. Owes(worker.reply)
      BY <2>5, <3>1 DEF AnswerInv, Waiting
    <3>3. QED
      BY <2>1, <3>1, <3>2, OwesSame
  <2>6. ASSUME pc \in Waiting, up' # <<>>
        PROVE  Owes(up[1])'
    <3>1. host.worker
      BY <2>6 DEF OwnerInv, Waiting
    <3>2. CASE up' = up
      BY <2>1, <2>6, <3>2, OwesSame DEF AnswerInv, Waiting
    <3>3. CASE WorkerReplies
      <4>1. Worker
        BY <3>3 DEF Worker
      <4>2. Answering("reply") /\ up' = <<worker.reply>> /\ Alive
        BY <3>1, <3>3, <4>1, SendsReply, PeerNow
      <4>3. Owes(worker.reply) /\ up'[1] = worker.reply
        BY <2>6, <3>1, <4>2 DEF AnswerInv, Answered, Waiting
      <4>4. QED
        BY <2>1, <4>3, OwesSame
    <3>4. CASE WorkerBody
      <4>1. Worker
        BY <3>4 DEF Worker
      <4>2. Alive /\ Answering("body") /\ up' = Append(up, BodyOf(worker.reply))
        BY <3>1, <3>4, <4>1, SendsBody, PeerNow
      <4>3. up = <<worker.reply>>
        BY <2>6, <3>1, <4>2 DEF Protocol, PhaseInv, AwaitsReply, RequestSent, PayloadSent, Serving,
           Working,
           Answering, Waiting
      <4>4. up' = <<worker.reply, BodyOf(worker.reply)>>
        BY <4>2, <4>3, Pair
      <4>5. up'[1] = worker.reply
        BY <4>4
      <4>6. Owes(worker.reply)
        BY <2>6, <3>1, <4>2 DEF AnswerInv, Answered, Waiting
      <4>7. QED
        BY <2>1, <4>5, <4>6, OwesSame
    <3>5. CASE WorkerBinds
      <4>1. worker.at = "boot" /\ Alive
        BY <3>5 DEF WorkerBinds, WorkerStep, Alive, WorkerGone
      <4>2. QED
        BY <2>6, <3>1, <4>1 DEF Protocol, PhaseInv, AwaitsReply, RequestSent, PayloadSent, Serving,
           Working,
           Answering, Waiting
    <3>6. CASE WorkerServes \/ WorkerPayload \/ WorkerAcknowledged
      BY <3>2, <3>6 DEF WorkerServes, WorkerPayload, WorkerAcknowledged
    <3>7. QED
      BY <1>2, <3>2, <3>3, <3>4, <3>5, <3>6, PeerElse
  <2>7. QED
    BY <2>1, <2>2, <2>3, <2>4, <2>5, <2>6 DEF AnswerInv, Waiting
<1>3. QED
  BY <1>1, <1>2

\* The stream of a call that returns ok.
Ended ==
    /\ call.kind = "write" => Len(out) = Total
    /\ call.kind = "read" => call.done = taken /\ input = 0

\* A call that returns well has ended its stream.
LEMMA StreamReturn ==
  ASSUME Typed, StreamInv, NEW result, Return(result), UNCHANGED <<call, out, input, taken>>,
         result = "ok" => Ended
  PROVE  StreamInv'
<1>1. /\ ~x'.eof /\ x'.error = "none" /\ outcome' = result
         /\ state'.progress.eof = state.progress.eof
      /\ pc' = "idle" \/ (pc' = "close" /\ ret' = "return")
  <2>1. x' = NoChunk /\ ~NoChunk.eof /\ NoChunk.error = "none"
    BY DEF Return, NoChunk
  <2>2. QED
    BY <2>1, ReturnEffect DEF Typed
<1>2. ~InChunk' /\ ~Busy'
  BY <1>1 DEF InChunk, Busy
<1>3. Total' = Total
  BY DEF Total
<1>4. QED
  BY <1>1, <1>2, <1>3 DEF StreamInv, Ended

\* Where a call stands that may end well.
LEMMA WriteEnds ==
  ASSUME Typed, StreamInv, pc = "chunk", CallDone
  PROVE  Ended
<1>1. Exact(0) /\ call.done = Total /\ call.kind \in {"bytes", "write"}
  BY DEF StreamInv, CallDone
<1>2. call.done \in Nat
  BY Naturals
<1>3. QED
  BY <1>1, <1>2, TagOf DEF Ended, Exact, Streamed, Typed

\* A read that returns well has seen the end of the input.
LEMMA ReadEnds ==
  ASSUME Typed, ChunkInv, StreamInv, pc = "result", x.error = "none",
         call.kind = "int" \/ (call.kind = "read" /\ x.confirmed = 0)
  PROVE  Ended
<1>1. CASE call.kind = "int"
  BY <1>1 DEF Ended
<1>2. CASE call.kind = "read" /\ x.confirmed = 0
  <2>1. Exact(x.confirmed)
    BY DEF StreamInv
  <2>2. taken = call.done
    BY <1>2, <2>1, Naturals, TagOf DEF Exact, Streamed, Typed
  <2>3. x.eof
    BY <1>2 DEF ChunkInv
  <2>4. input = 0
    BY <2>3 DEF StreamInv
  <2>5. QED
    BY <1>2, <2>2, <2>4 DEF Ended
<1>3. QED
  BY <1>1, <1>2

\* The steps of a call keep the streams.
LEMMA StreamCalling ==
  ASSUME Typed, ChunkInv, StreamInv, Calling
  PROVE  StreamInv'
<1>1. UNCHANGED <<out, input, taken>>
  BY CallingFrame
<1>2. CASE AdmissionFails \/ CandidatesExhausted \/ ChunkRefused \/ ChunkFails
  <2>1. UNCHANGED call /\ \E result : Return(result) /\ result # "ok"
    BY <1>2 DEF AdmissionFails, CandidatesExhausted, ChunkRefused, ChunkFails
  <2>2. QED
    BY <1>1, <2>1, StreamReturn
<1>3. CASE CallSucceeds
  <2>1. pc = "chunk" /\ CallDone /\ Return("ok") /\ UNCHANGED call
    BY <1>3 DEF CallSucceeds
  <2>2. Ended
    BY <2>1, WriteEnds
  <2>3. QED
    BY <1>1, <2>1, <2>2, StreamReturn
<1>4. CASE Admit
  <2>1. pc = "admission" /\ pc' = "chunk" /\ UNCHANGED <<x, call, outcome>>
        /\ ~state'.progress.eof
    BY <1>4 DEF Admit, NoProgress, Typed, StateOK, StateType
  <2>2. Exact(0)' <=> Exact(0)
    BY <1>1, <2>1 DEF Exact, Streamed, IsEntropy, Role
  <2>3. ~InChunk' /\ outcome = "none" /\ Exact(0)
    BY <2>1 DEF InChunk, StreamInv
  <2>4. QED
    BY <1>1, <2>1, <2>2, <2>3 DEF StreamInv
<1>5. CASE StartChunk
  <2>1. pc = "chunk" /\ pc' = "launch" /\ ~x'.eof /\ x'.error = "none" /\ UNCHANGED outcome
    BY <1>5 DEF StartChunk, ChunkDue, NoChunk
  <2>2. call'.kind = call.kind /\ call'.done = call.done
    BY <1>5 DEF StartChunk, Typed, CallOK, CallStateType
  <2>3. state'.progress.eof = state.progress.eof
    BY <1>5 DEF StartChunk, Typed, StateOK, StateType, ProgressType
  <2>4. Exact(0)' <=> Exact(0)
    BY <1>1, <2>2 DEF Exact, Streamed, IsEntropy, Role
  <2>5. outcome = "none" /\ Exact(0)
    BY <2>1 DEF Busy, StreamInv
  <2>6. QED
    BY <1>1, <2>1, <2>3, <2>4, <2>5 DEF StreamInv
<1>6. CASE Settle
  <2>1. pc = "settle" /\ pc' \in {"failed", "result"} /\ state' = Settled
        /\ UNCHANGED <<ret, call, outcome>>
    BY <1>6 DEF Settle
  <2>2. /\ x'.confirmed = x.confirmed /\ x'.eof = x.eof
        /\ pc' = "result" => x' = x
    BY <1>6 DEF Settle, Typed, ChunkOK, ChunkType
  <2>3. state'.progress.eof <=> state.progress.eof \/ x.eof
    BY <2>1 DEF Settled, Typed, StateOK, StateType, ProgressType
  <2>4. Exact(x.confirmed)' <=> Exact(x.confirmed)
    BY <1>1, <2>1, <2>2 DEF Exact, Streamed, IsEntropy, Role
  <2>5. /\ outcome = "none"
        /\ x.error \in {"interrupted", "would_block", "none"} => Exact(x.confirmed)
    BY <2>1 DEF Busy, InChunk, StreamInv
  <2>6. ~InChunk'
    BY <2>1 DEF InChunk
  <2>7. QED
    BY <1>1, <2>1, <2>2, <2>3, <2>4, <2>5, <2>6 DEF StreamInv
<1>7. CASE RetryChunk
  <2>1. /\ pc = "result" /\ pc' = "chunk" /\ UNCHANGED <<state, call, x, outcome>>
        /\ x.confirmed = 0 /\ x.error \in {"interrupted", "would_block"}
    BY <1>7 DEF RetryChunk, Retry
  <2>2. Exact(0)' <=> Exact(0)
    BY <1>1, <2>1 DEF Exact, Streamed, IsEntropy, Role
  <2>3. outcome = "none" /\ Exact(0) /\ ~InChunk'
    BY <2>1 DEF Busy, InChunk, StreamInv
  <2>4. QED
    BY <1>1, <2>1, <2>2, <2>3 DEF StreamInv
<1>8. CASE ChunkSucceeds
  <2>1. CASE call' = Advanced /\ pc' = "chunk" /\ UNCHANGED <<state, ret, x, outcome>>
    <3>1. pc = "result" /\ x.error = "none"
      BY <1>8, SucceedsEffect
    <3>2. call'.kind = call.kind /\ call'.done = call.done + x.confirmed
      BY <2>1 DEF Advanced, Typed, CallOK, CallStateType
    <3>3. outcome = "none" /\ Exact(x.confirmed) /\ ~InChunk'
      BY <2>1, <3>1 DEF Busy, InChunk, StreamInv
    <3>4. Exact(0)'
      <4>1. Streamed' = Streamed /\ (IsEntropy' <=> IsEntropy)
        BY <1>1, <3>2 DEF Streamed, IsEntropy, Role
      <4>2. QED
        BY <3>2, <3>3, <4>1, Naturals, Bounds DEF Exact
    <3>5. QED
      BY <1>1, <2>1, <3>3, <3>4 DEF StreamInv
  <2>2. CASE UNCHANGED call /\ \E result : /\ Return(result)
                                           /\ result = "ok" => call.kind \in {"int", "read"}
                                                 /\ (call.kind = "read" => x.confirmed = 0)
    <3>1. PICK result : /\ Return(result)
                        /\ result = "ok" => call.kind \in {"int", "read"}
                               /\ (call.kind = "read" => x.confirmed = 0)
      BY <2>2
    <3>2. result = "ok" => Ended
      BY <1>8, <3>1, SucceedsEffect, ReadEnds
    <3>3. QED
      BY <1>1, <2>2, <3>1, <3>2, StreamReturn
  <2>3. QED
    BY <1>8, <2>1, <2>2, SucceedsEffect
<1>9. QED
  BY <1>2, <1>3, <1>4, <1>5, <1>6, <1>7, <1>8 DEF Calling

\* Before and after the exchange of a chunk.
Early == {"launch", "bind", "ready", "reap ready", "bound", "request"}
Late == {"body", "reap body", "received", "ack", "acked"}

\* How a transfer moves through its phases.
LEMMA Progresses ==
  ASSUME Typed, Transferring
  PROVE  /\ pc' \in Early => pc \in Early
         /\ pc' \in Late => pc \in Late \/ StreamReplied \/ FillReplied
         /\ pc' = "settle" => x'.error # "none" \/ pc = "acked"
         /\ ~Telling => x'.error \in {x.error, "cancelled", "io", "protocol", "unsupported"}
            \/ pc = "launch"
<1> USE HandlerOf, ReapingOf DEF Early, Late, Typed, ChunkOK, ChunkType
<1>1. CASE ReceiveRecord \/ ReceiveEmpty \/ ReapPeer
  BY <1>1 DEF ReceiveRecord, ReceiveEmpty, ReapPeer, Receiving
<1>2. CASE FillReplied
  BY <1>2 DEF FillReplied, Handled, Fail, AwaitBody
<1>3. CASE HostRefuses \/ ReuseWorker \/ Spawn \/ SpawnFails
  BY <1>3 DEF HostRefuses, ReuseWorker, Spawn, SpawnFails, Fail, FailCancelled
<1>4. CASE Bind \/ RequestStale \/ SendPayload
  BY <1>4 DEF Bind, RequestStale, SendPayload, Send, SendFails, Fail
<1>5. CASE ReceiveFails \/ RecordCancelled \/ Bound \/ Acknowledge \/ Acknowledged
  BY <1>5 DEF ReceiveFails, RecordCancelled, Bound, Acknowledge, Acknowledged, Send, SendFails,
     Fail, FailCancelled, Handled, Receiving
<1>6. CASE SendRequest \/ RequestFails
  BY <1>6 DEF SendRequest, RequestFails, Send, SendFails, Telling
<1>7. CASE StreamReplied \/ Received
  <2>1. pc' \notin Early /\ pc' # "settle" /\ Telling
    BY <1>7 DEF StreamReplied, Received, Handled, Fail, AwaitBody, Telling
  <2>2. QED
    BY <1>7, <2>1, Receives
<1>8. QED
  BY <1>1, <1>2, <1>3, <1>4, <1>5, <1>6, <1>7 DEF Transferring

\* The steps of a transfer keep the streams.
LEMMA StreamTransferring ==
  ASSUME Typed, CancelInv, ChunkInv, Protocol, AnswerInv, StreamInv, Transferring
  PROVE  StreamInv'
<1> USE DEF Typed
<1>1. UNCHANGED <<state, call, outcome, moved, out, input, taken>>
  BY TransferringFrame
<1>2. InChunk /\ InChunk' /\ Busy /\ pc \in Transfer /\ pc' \in Transfer \cup {"close", "settle"}
  BY TransferStays DEF Busy
<1>3. outcome = "none"
  BY <1>2 DEF StreamInv
<1>4. Streamed' = Streamed /\ (IsEntropy' <=> IsEntropy) /\ call' = call
  BY <1>1, BoundsSame
<1>5. ASSUME x'.eof PROVE input = 0
  <2>1. CASE StreamReplied
    <3>1. CASE x'.eof = x.eof
      BY <1>5, <3>1 DEF StreamInv
    <3>2. CASE call.kind = "read" /\ x.frame.tag = "PROGRESS" /\ x.frame.bytes = 0
      BY <2>1, <3>2, Replied DEF AnswerInv, Owes
    <3>3. QED
      BY <1>5, <2>1, <3>1, <3>2, Replied
  <2>2. CASE ~StreamReplied
    <3>1. x'.eof = x.eof
      BY <2>2, Silent, Requesting, Receives DEF Telling
    <3>2. QED
      BY <1>5, <3>1 DEF StreamInv
  <2>3. QED
    BY <2>1, <2>2
<1>6. ASSUME pc' \in Early PROVE Exact(0)'
  <2>1. Exact(0)
    BY <1>6, Progresses DEF StreamInv, Early
  <2>2. QED
    BY <1>4, <2>1 DEF Exact
<1>7. ASSUME pc' \in Late PROVE Exact(x.confirmed)'
  <2>1. CASE IsEntropy
    BY <1>4, <2>1 DEF Exact
  <2>2. CASE ~IsEntropy /\ StreamReplied
    <3>1. Exact(x.frame.bytes) /\ pc' # "close"
      BY <1>7, <2>2, Replied DEF AnswerInv, Owes, Late
    <3>2. x'.confirmed = x.frame.bytes
      BY <2>2, <3>1, Replied
    <3>3. QED
      BY <1>4, <3>1, <3>2 DEF Exact
  <2>3. CASE ~IsEntropy /\ ~StreamReplied
    <3>1. pc \in Late
      BY <1>7, <2>3, Progresses DEF FillReplied
    <3>2. Exact(x.confirmed)
      BY <3>1 DEF StreamInv, Late
    <3>3. x'.confirmed = x.confirmed
      BY <2>3, Silent, Requesting, Receives DEF Telling
    <3>4. QED
      BY <1>4, <3>2, <3>3 DEF Exact
  <2>4. QED
    BY <2>1, <2>2, <2>3
<1>8. ASSUME x'.error \in {"interrupted", "would_block"} PROVE Exact(x.confirmed)'
  <2>1. CASE IsEntropy
    BY <1>4, <2>1 DEF Exact
  <2>2. CASE StreamReplied
    <3>1. pc' \in Late
      <4>1. pc' # "close"
        BY <1>8, <2>2, Replied
      <4>2. pc' \in {"ack", "body"}
        BY <2>2, <4>1, Replied
      <4>3. QED
        BY <4>2 DEF Late
    <3>2. QED
      BY <1>7, <3>1
  <2>3. CASE Received
    <3>1. CASE ~IsEntropy
      <4>1. Exact(x.confirmed)
        BY <2>3, Receives DEF StreamInv
      <4>2. x'.confirmed = x.confirmed
        BY <2>3, <3>1, Receives
      <4>3. QED
        BY <1>4, <4>1, <4>2 DEF Exact
    <3>2. QED
      BY <2>1, <3>1
  <2>4. CASE SendRequest \/ RequestFails
    <3>1. x.error = "none"
      BY <2>4, Requesting DEF ChunkInv
    <3>2. x'.error \in {"none", "cancelled", "io"}
      BY <2>4, <3>1, Requesting DEF RequestFails, SendFails, Attempted, ChunkOK, ChunkType
    <3>3. QED
      BY <1>8, <3>2
  <2>5. CASE ~Telling
    <3>1. x'.confirmed = x.confirmed
      BY <2>5, Silent
    <3>2. Exact(x.confirmed)
      <4>1. CASE pc = "launch"
        BY <4>1 DEF StreamInv, ChunkInv
      <4>2. CASE x'.error = x.error
        BY <1>2, <1>8, <4>2 DEF StreamInv
      <4>3. QED
        BY <1>8, <2>5, <4>1, <4>2, Progresses
    <3>3. QED
      BY <1>4, <3>1, <3>2 DEF Exact
  <2>6. QED
    BY <2>2, <2>3, <2>4, <2>5 DEF Telling
<1>9. ASSUME pc' = "settle", x'.error = "none" PROVE Exact(x.confirmed)'
  <2>1. pc = "acked"
    BY <1>9, Progresses
  <2>2. Exact(x.confirmed) /\ ~Telling
    BY <2>1, Requesting, Replied, Receives DEF StreamInv, Telling
  <2>3. x'.confirmed = x.confirmed
    BY <2>2, Silent
  <2>4. QED
    BY <1>4, <2>2, <2>3 DEF Exact
<1>10. QED
  BY <1>1, <1>2, <1>3, <1>5, <1>6, <1>7, <1>8, <1>9 DEF StreamInv, Early, Late

\* Steps that change neither the streams nor where the call stands in them.
LEMMA StreamSame ==
  ASSUME StreamInv, UNCHANGED <<pc, call, x, outcome, out, input, taken>>, InChunk' <=> InChunk,
         Busy' <=> Busy,
         state'.progress.eof = state.progress.eof
  PROVE  StreamInv'
<1>1. Exact(0)' <=> Exact(0)
  BY DEF Exact, Streamed, IsEntropy, Role
<1>2. Exact(x.confirmed)' <=> Exact(x.confirmed)
  BY DEF Exact, Streamed, IsEntropy, Role
<1>3. Total' = Total
  BY DEF Total
<1>4. QED
  BY <1>1, <1>2, <1>3 DEF StreamInv

\* The steps of close keep the streams.
LEMMA StreamClosing ==
  ASSUME Typed, CancelInv, ReportInv, ChunkInv, StreamInv, Closing
  PROVE  StreamInv'
<1>1. UNCHANGED <<ret, call, outcome, out, input, taken>>
  BY ClosingFrame
<1>2. /\ (InChunk' <=> InChunk) /\ (Busy' <=> Busy) /\ pc \in ClosePhases
      /\ pc' \in ClosePhases \cup {"settle", "idle", "done"}
      /\ x'.confirmed = x.confirmed /\ x'.eof = x.eof /\ x'.error = x.error
      /\ state'.progress = state.progress
  BY ClosingStays
<1>3. Exact(x.confirmed)' <=> Exact(x.confirmed)
  BY <1>1, <1>2 DEF Exact, Streamed, IsEntropy, Role
<1>4. pc' = "settle" => x'.error # "none"
  <2>1. pc' = "settle" => InChunk
    BY <1>2 DEF InChunk
  <2>2. QED
    BY <1>2, <2>1 DEF ChunkInv, InChunk
<1>5. Total' = Total
  BY <1>1 DEF Total
<1>6. (pc' \notin {"admission", "chunk", "result"}) /\ pc' \notin Transfer
  BY <1>2
<1>7. QED
  BY <1>1, <1>2, <1>3, <1>4, <1>5, <1>6 DEF StreamInv

\* The program, the signals and the clock keep the streams.
LEMMA StreamWorld ==
  ASSUME Typed, StreamInv, World
  PROVE  StreamInv'
<1>1. UNCHANGED <<x, input>>
  BY WorldFrame
<1>2. CASE \E c \in Calls : Invoke(c)
  <2>1. /\ pc = "idle" /\ pc' = "admission" /\ call'.done = 0 /\ out' = <<>> /\ taken' = 0
           /\ outcome' = "none"
        /\ state'.progress = NoProgress
    BY <1>2, InvokeEffect DEF Typed
  <2>2. ~state'.progress.eof
    BY <2>1 DEF NoProgress
  <2>3. Exact(0)'
    BY <2>1 DEF Exact, Streamed
  <2>4. ~InChunk' /\ DOMAIN out' = {}
    BY <2>1 DEF InChunk
  <2>5. QED
    BY <1>1, <2>1, <2>2, <2>3, <2>4 DEF StreamInv
<1>3. CASE Finish
  <2>1. /\ pc = "idle" /\ state'.progress = state.progress
           /\ UNCHANGED <<call, out, taken, outcome>>
        /\ pc' = "done" \/ (pc' = "close" /\ ret' = "done")
    BY <1>3, FinishEffect DEF Typed, Finish, environment
  <2>2. ~InChunk' /\ ~Busy' /\ Total' = Total
    BY <2>1 DEF InChunk, Busy, Total
  <2>3. QED
    BY <1>1, <2>1, <2>2 DEF StreamInv
<1>4. CASE UNCHANGED <<state, pc, ret, call, out, taken, outcome>>
  <2>1. (InChunk' <=> InChunk) /\ (Busy' <=> Busy)
    BY <1>4, WorldFrame DEF InChunk, Busy
  <2>2. QED
    BY <1>1, <1>4, <2>1, StreamSame
<1>5. QED
  BY <1>2, <1>3, <1>4, WorldFrame

\* The worker's steps keep the streams: each write continues where the last one ended.
LEMMA StreamPeer ==
  ASSUME Typed, CancelInv, OwnerInv, ChunkInv, Protocol, AnswerInv, StreamInv, Peer
  PROVE  StreamInv'
<1>1. UNCHANGED <<state, pc, ret, call, x, outcome>>
  BY PeerFrame
<1>2. (InChunk' <=> InChunk) /\ (Busy' <=> Busy)
  BY <1>1 DEF InChunk, Busy
<1>3. CASE HostCall
  <2>1. Outstanding /\ Alive
    BY <1>3, ServesNow
  <2>2. PICK n \in 0..x.length : Moves(n)
    BY <1>3, HostMoves
  <2>3. /\ InChunk /\ Exact(0) /\ x.error \notin {"interrupted", "would_block"}
    BY <2>1 DEF AnswerInv
  <2>4. pc \in Waiting \cup {"payload", "close"} \cup Stopping
    BY <2>1, OutstandingAt
  <2>5. outcome = "none"
    BY <2>3 DEF StreamInv, Busy
  <2>6. \A i \in DOMAIN out' : out'[i] = i
    <3>1. CASE call.kind = "write"
      <4>1. Len(out) = call.done /\ n \in Nat /\ call.done \in Nat
        BY <2>3, <3>1, Naturals, TagOf DEF Exact, Streamed, Typed
      <4>2. out' = out \o [i \in 1..n |-> call.done + i] /\ out \in Seq(Nat)
        BY <2>2, <3>1 DEF Moves, Typed, EnvironmentOK
      <4>3. \A i \in DOMAIN out : out[i] = i
        BY DEF StreamInv
      <4>4. QED
        BY <4>1, <4>2, <4>3, Continued
    <3>2. CASE call.kind # "write"
      BY <2>2, <3>2 DEF Moves, StreamInv
    <3>3. QED
      BY <3>1, <3>2
  <2>7. state.progress.eof \/ x.eof => input' = 0
    BY <2>2 DEF Moves, StreamInv
  <2>8. QED
    BY <1>1, <1>2, <2>3, <2>4, <2>5, <2>6, <2>7 DEF StreamInv, Waiting
<1>4. CASE ~HostCall
  <2>1. UNCHANGED <<out, input, taken>>
    BY <1>4, PeerElse
  <2>2. QED
    BY <1>1, <1>2, <2>1, StreamSame
<1>5. QED
  BY <1>3, <1>4

\* A call ends in one of the known ways.
LEMMA OutcomeNext ==
  ASSUME OutcomeInv, [Next]_vars
  PROVE  OutcomeInv'
<1> USE DEF OutcomeInv, Outcomes
<1>1. CASE Calling
  <2>1. CASE ChunkSucceeds
    BY <2>1 DEF ChunkSucceeds, Return
  <2>2. CASE AdmissionFails \/ ChunkRefused
    BY <2>2 DEF AdmissionFails, ChunkRefused, Return
  <2>3. CASE Admit \/ CallSucceeds \/ CandidatesExhausted \/ StartChunk \/ Settle \/ RetryChunk
    BY <2>3 DEF Admit, CallSucceeds, CandidatesExhausted, StartChunk, Settle, RetryChunk, Return
  <2>4. CASE ChunkFails
    BY <2>4 DEF ChunkFails, Return
  <2>5. QED
    BY <1>1, <2>1, <2>2, <2>3, <2>4 DEF Calling
<1>2. CASE Transferring
  <2>1. UNCHANGED <<outcome, late>>
    BY <1>2 DEF Transferring, HostRefuses, ReuseWorker, Spawn, SpawnFails, Bind, SendRequest,
       RequestFails,
     RequestStale, SendPayload, ReceiveFails, ReceiveRecord, ReceiveEmpty, ReapPeer,
     RecordCancelled,
     Bound, StreamReplied, FillReplied, Received, Acknowledge, Acknowledged, Send, SendFails,
       Handled
  <2>2. QED
    BY <2>1
<1>3. CASE Closing
  BY <1>3 DEF Closing, CloseSocket, Terminate, Grace, Wait, RestoreTerminal, PollSignals,
     RestoreSignals,
     DropLease, Closed, CloseStep
<1>4. CASE Peer
  BY <1>4, PeerFrame
<1>5. CASE World
  BY <1>5 DEF World, Invoke, Finish, SignalArrives, OperationExpires, EvaluationExpires
<1>6. CASE UNCHANGED vars
  BY <1>6 DEF vars
<1>7. QED
  BY <1>1, <1>2, <1>3, <1>4, <1>5, <1>6 DEF Next, Supervisor, Peer, World

\* The account holds at first.
LEMMA AccountInit ==
  ASSUME Init
  PROVE  Account
<1>1. ChargeInv
  BY ChargeInit
<1>2. ~Busy /\ ~InChunk /\ pc = "idle"
  BY DEF Init, Busy, InChunk
<1>3. MovedInv
  <2>1. \A r \in Roles : state.roles[r].confirmed = 0 /\ Recorded(r) = 0 /\ moved[r] = 0
    BY DEF Init, Recorded, NoCounts
  <2>2. QED
    BY <1>2, <2>1 DEF MovedInv
<1>4. AnswerInv
  BY <1>2 DEF Init, AnswerInv, Alive, WorkerGone, NoWorker
<1>5. StreamInv
  BY <1>2 DEF Init, StreamInv, NoProgress, NoChunk
<1>6. OutcomeInv
  BY DEF Init, OutcomeInv, Outcomes
<1>7. QED
  BY <1>1, <1>3, <1>4, <1>5, <1>6 DEF Account

\* A step that changes nothing keeps the account.
LEMMA AccountSame ==
  ASSUME Account, UNCHANGED vars
  PROVE  Account'
<1> USE DEF Account
<1>1. UNCHANGED <<state, pc, ret, call, x, outcome, host, late, down, up, worker, moved, out,
      input, taken>>
  BY DEF vars, channels, environment
<1>2. ChargeInv'
  BY <1>1, ChargeSame
<1>3. (InChunk' <=> InChunk) /\ (Busy' <=> Busy) /\ (IsEntropy' <=> IsEntropy)
  BY <1>1 DEF InChunk, Busy, IsEntropy, Role
<1>4. StreamInv'
  BY <1>1, <1>3, StreamSame
<1>5. /\ Low' = Low /\ High' = High /\ Gone' = Gone /\ Role' = Role
      /\ \A r \in Roles : Recorded(r)' = Recorded(r)
  BY <1>1, BoundsSame
<1>6. MovedInv'
  BY <1>1, <1>3, <1>5 DEF MovedInv, Least, Most
<1>7. /\ (Outstanding' <=> Outstanding) /\ (Alive' <=> Alive) /\ (Answered' <=> Answered)
  BY <1>1, OutstandingSame DEF Answered
<1>8. /\ Owes(worker.reply)' <=> Owes(worker.reply)
      /\ Owes(up[1])' <=> Owes(up[1])
      /\ Owes(x.frame)' <=> Owes(x.frame)
      /\ (Least(0)' <=> Least(0)) /\ (Most(0)' <=> Most(0)) /\ (Exact(0)' <=> Exact(0))
      /\ (Least(x.length)' <=> Least(x.length))
  BY <1>1, <1>5, OwesSame DEF Least
<1>9. AnswerInv'
  BY <1>1, <1>3, <1>7, <1>8 DEF AnswerInv
<1>10. OutcomeInv'
  BY <1>1 DEF OutcomeInv
<1>11. QED
  BY <1>2, <1>4, <1>6, <1>9, <1>10

\* The account is inductive, given the core invariant.
LEMMA AccountNext ==
  ASSUME Core, Account, [Next]_vars
  PROVE  Account'
<1> USE DEF Core, Account
<1>1. OutcomeInv'
  BY OutcomeNext
<1>2. CASE Calling
  BY <1>1, <1>2, ChargeCalling, MovedCalling, AnswerCalling, StreamCalling
<1>3. CASE Transferring
  BY <1>1, <1>3, ChargeTransferring, MovedTransferring, AnswerTransferring, StreamTransferring
     DEF Protocol
<1>4. CASE Closing
  BY <1>1, <1>4, ChargeClosing, MovedClosing, AnswerClosing, StreamClosing
<1>5. CASE Peer
  BY <1>1, <1>5, ChargePeer, MovedPeer, AnswerPeer, StreamPeer
<1>6. CASE World
  BY <1>1, <1>6, ChargeWorld, MovedWorld, AnswerWorld, StreamWorld
<1>7. CASE UNCHANGED vars
  BY <1>7, AccountSame
<1>8. QED
  BY <1>2, <1>3, <1>4, <1>5, <1>6, <1>7 DEF Next, Supervisor, Peer, World

\* The account holds in every reachable state: the charge, what was moved, what requests and answers
\* stand for, and the streams, for any limits, chunk and word size.
THEOREM AccountInvariance == Spec => []Account
<1>1. Init => Account
  BY AccountInit
<1>2. Core /\ Account /\ [Next]_vars => Account'
  BY AccountNext
<1>3. QED
  BY <1>1, <1>2, CoreInvariance, PTL DEF Spec

\* Less than nothing or more than max_host_bytes is never charged.
LEMMA Charged ==
  ASSUME Typed, ChunkInv, ChargeInv
  PROVE  state.consumed \in 0..MaxHost
<1> USE Naturals, Constants
<1>1. CASE ~Busy
  BY <1>1 DEF ChargeInv
<1>2. CASE Busy /\ ~InChunk
  BY <1>2 DEF ChargeInv
<1>3. CASE InChunk
  <2>1. /\ state.consumed = AllRecorded + state.progress.confirmed + (IF IsEntropy THEN x.length ELSE 0)
        /\ state.progress.confirmed + x.length <= state.progress.admitted
        /\ AllRecorded + state.progress.admitted <= MaxHost
    BY <1>3 DEF ChargeInv, Busy
  <2>2. QED
    BY <2>1
<1>4. QED
  BY <1>1, <1>2, <1>3

\* Between calls nothing is being charged.
LEMMA RestIsIdle ==
  ASSUME AtRest
  PROVE  ~Busy /\ ~InChunk
  BY DEF AtRest, Busy, InChunk

\* Every reachable state has the types of StandardHost (TypeOK), the charge within 0..MaxHost included.
THEOREM TypeCorrect == Spec => []TypeOK
<1>1. ASSUME Core, Account PROVE TypeOK
  <2> USE <1>1 DEF Core, Account, Typed
  <2>1. state.held \in BOOLEAN /\ state.cleanup_error \in BOOLEAN
    BY DEF StateOK, StateType
  <2>2. state.consumed \in 0..MaxHost
    BY Charged
  <2>3. \A r \in Roles : {state.roles[r].confirmed, state.roles[r].uncertain,
        moved[r]} \subseteq Nat
    BY Naturals
  <2>4. x.confirmed + x.uncertain <= x.length
    BY DEF ChunkInv
  <2>5. host.request \in Nat /\ host.terminal \in {"lent", "restored", "lost"}
    BY DEF HostOK, HostType
  <2>6. scope \in {"live", "requested", "timeout"} /\ late \in {"no", "operation", "evaluation"}
    BY DEF CancelInv, OutcomeInv
  <2>7. outcome \in Outcomes
    BY DEF OutcomeInv
  <2>8. Len(down) <= 3 /\ Len(up) <= 2
    BY DEF Protocol, UpInv, DownInv
  <2>9. worker.at \in {"none", "boot", "ready", "payload", "syscall", "poll", "fill", "reply",
        "body",
                      "ack", "zombie"}
    BY DEF WorkerOK, WorkerType
  <2>10. QED
    BY <2>1, <2>2, <2>3, <2>4, <2>5, <2>6, <2>7, <2>8, <2>9 DEF TypeOK, Outcomes
<1>2. QED
  BY <1>1, CoreInvariance, AccountInvariance, PTL

\* All the bytes moved are within max_host_bytes.
LEMMA MovedWithin ==
  ASSUME Typed, ChunkInv, ChargeInv, MovedInv
  PROVE  Sum(moved) <= MaxHost
<1> USE Naturals, Constants, Bounds
<1>1. Role \in Roles /\ Role \in {"entropy", "stdin", "stdout"}
  BY RoleIn DEF Typed, Roles
<1>2. PICK n \in Nat : /\ moved[Role] <= Recorded(Role) + n
                       /\ AllRecorded + n <= MaxHost
  <2>1. CASE ~Busy
    <3>1. moved[Role] <= Recorded(Role) + 0 /\ AllRecorded + 0 <= MaxHost
      BY <1>1, <2>1 DEF MovedInv, ChargeInv
    <3>2. QED
      BY <3>1
  <2>2. CASE Busy /\ ~InChunk
    <3>1. Most(state.progress.uncertain)
      BY <2>2 DEF MovedInv, Busy
    <3>2. /\ state.progress.confirmed + state.progress.uncertain <= state.progress.admitted
          /\ AllRecorded + state.progress.admitted <= MaxHost
      BY <2>2 DEF ChargeInv
    <3>3. /\ moved[Role] <= Recorded(Role) + (state.progress.confirmed + state.progress.uncertain)
          /\ AllRecorded + (state.progress.confirmed + state.progress.uncertain) <= MaxHost
      BY <1>1, <3>1, <3>2 DEF Most, High, Gone
    <3>4. QED
      BY <3>3
  <2>3. CASE InChunk
    <3>1. Most(x.confirmed + x.uncertain) /\ x.confirmed + x.uncertain <= x.length
      BY <2>3 DEF MovedInv, ChunkInv
    <3>2. /\ state.progress.confirmed + x.length <= state.progress.admitted
          /\ AllRecorded + state.progress.admitted <= MaxHost
      BY <2>3 DEF ChargeInv, Busy
    <3>3. /\ moved[Role] <= Recorded(Role) + (state.progress.confirmed + x.length)
          /\ AllRecorded + (state.progress.confirmed + x.length) <= MaxHost
      BY <1>1, <3>1, <3>2 DEF Most, High, Gone
    <3>4. QED
      BY <3>3
  <2>4. QED
    BY <2>1, <2>2, <2>3
<1>3. \A r \in Roles : r # Role => moved[r] <= Recorded(r)
  BY DEF MovedInv
<1>4. {"entropy", "stdin", "stdout"} = Roles
  BY DEF Roles
<1>5. CASE Role = "entropy"
  BY <1>2, <1>3, <1>4, <1>5 DEF Sum, AllRecorded
<1>6. CASE Role = "stdin"
  BY <1>2, <1>3, <1>4, <1>6 DEF Sum, AllRecorded
<1>7. CASE Role = "stdout"
  BY <1>2, <1>3, <1>4, <1>7 DEF Sum, AllRecorded
<1>8. QED
  BY <1>1, <1>5, <1>6, <1>7

\* What was really moved lies between what the account confirms and what it cannot exclude, the
\* counter is exactly the account, and max_host_bytes bounds what is moved (AccountingSound).
THEOREM AccountTrue == Spec => []AccountingSound
<1>1. ASSUME Core, Account PROVE AccountingSound
  <2> USE <1>1 DEF Core, Account
  <2>1. Sum(moved) <= MaxHost
    BY MovedWithin
  <2>2. ASSUME AtRest
        PROVE  /\ \A r \in Roles :
                      /\ state.roles[r].confirmed <= moved[r]
                      /\ moved[r] <= state.roles[r].confirmed + state.roles[r].uncertain
               /\ state.consumed = Sum([r \in Roles |->
                      state.roles[r].confirmed + state.roles[r].uncertain])
    <3>1. ~Busy
      BY <2>2, RestIsIdle
    <3>2. \A r \in Roles : state.roles[r].confirmed <= moved[r] /\ moved[r] <= Recorded(r)
      BY <3>1 DEF MovedInv
    <3>3. state.consumed = AllRecorded
      BY <3>1 DEF ChargeInv
    <3>4. AllRecorded = Sum([r \in Roles |-> state.roles[r].confirmed + state.roles[r].uncertain])
      BY DEF AllRecorded, Recorded, Sum, Roles
    <3>5. QED
      BY <3>2, <3>3, <3>4 DEF Recorded
  <2>3. QED
    BY <2>1, <2>2 DEF AccountingSound
<1>2. QED
  BY <1>1, CoreInvariance, AccountInvariance, PTL

\* Bytes reach standard output in order and at most once, a successful write wrote them all, and a
\* successful read returns every byte it took and ends with the input (StreamsExact).
THEOREM StreamsTrue == Spec => []StreamsExact
<1>1. ASSUME Account PROVE StreamsExact
  BY <1>1 DEF Account, StreamInv, StreamsExact
<1>2. QED
  BY <1>1, AccountInvariance, PTL
=============================================================================
