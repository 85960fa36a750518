---------------------- MODULE LanguageServerRefinement ----------------------
(***************************************************************************)
(* LanguageServer implements LanguageContract: the phase is the lifecycle  *)
(* until the server ends, and every other variable of the contract is one  *)
(* of the server's.                                                        *)
(***************************************************************************)
EXTENDS LanguageServerProofs

\* What the contract sees of the server, besides its end.
Seen == <<lifecycle, documents, generation, asked, answer, view>>

\* A step that the contract does not see.
LEMMA UnseenStutters ==
  ASSUME UNCHANGED Seen, pc # "ended", pc' # "ended"
  PROVE  UNCHANGED Contract!vars
  BY DEF Seen, Contract!vars

\* Taking up a request is a step Ask of the contract.
LEMMA AskSteps ==
  ASSUME Holds, NEW t \in Asking, Receive(t), TakeUp(Event.id), pc' = "write",
         UNCHANGED <<documents, generation, answer, view>>,
         \/ lifecycle' = lifecycle
         \/ lifecycle = "waiting" /\ lifecycle' = "running"
         \/ lifecycle = "running" /\ lifecycle' = "shutdown"
  PROVE  \E id \in Ids : Contract!Ask(id)
<1>1. Event.id \in Ids /\ asked[Event.id].state = "no"
  BY NotTracked DEF Holds, Serving, Typed
<1>2. pc = "receive"
  BY DEF Receive
<1>3. Contract!Ask(Event.id)
  BY <1>1, <1>2 DEF Contract!Ask, TakeUp
<1>4. QED
  BY <1>1, <1>3

\* Cancelling a tracked request is a step Revoke; any other cancellation is not seen.
LEMMA RevokeSteps ==
  ASSUME Holds, CancelRequest
  PROVE  (\E id \in Ids : Contract!Revoke(id)) \/ UNCHANGED Contract!vars
<1> USE DEF Holds, Serving
<1>1. /\ Receive("cancel") /\ UNCHANGED <<lifecycle, documents, generation, answer, view>>
      /\ asked' = [asked EXCEPT ![Event.id].state =
                      IF {c \in controls : c.id = Event.id} # {} THEN "revoked" ELSE @]
      /\ pc = "receive" /\ pc' = "write"
  BY DEF CancelRequest, workspace, client, Act, Receive
<1>2. Event.id \in Ids
  BY <1>1, Received, EventShape DEF Typed
<1>3. asked \in [Ids -> [state : {"no", "open", "revoked"}, edits : Nat]]
  BY DEF Typed, ClientOK
<1>4. CASE {c \in controls : c.id = Event.id} = {}
  <2>1. asked' = asked
    BY <1>1, <1>2, <1>3, <1>4
  <2>2. QED
    BY <1>1, <2>1, UnseenStutters DEF Seen
<1>5. CASE {c \in controls : c.id = Event.id} # {}
  <2>1. Awaited(Event.id)
    BY <1>5 DEF Awaited
  <2>2. asked[Event.id].state # "no" /\ answer[Event.id] = <<>>
    BY <1>2, <2>1 DEF RequestInv
  <2>3. asked[Event.id].state \in {"open", "revoked"}
    BY <1>2, <1>3, <2>2
  <2>4. asked' = [asked EXCEPT ![Event.id].state = "revoked"]
    BY <1>1, <1>5
  <2>5. Contract!Revoke(Event.id)
    BY <1>1, <2>2, <2>3, <2>4 DEF Contract!Revoke, Contract!Waiting
  <2>6. QED
    BY <1>2, <2>5
<1>6. QED
  BY <1>4, <1>5

\* The editor has made more edits than the workspace has applied.
LEMMA EditsBounded ==
  ASSUME Typed, InboxInv, NEW t \in Editing, Receive(t)
  PROVE  generation + 1 \in 1..MaxEdits
<1> DEFINE E == {i \in DOMAIN inbox : inbox[i].type \in Editing}
<1>1. 1 \in E /\ DOMAIN inbox = 1..Len(inbox) /\ Len(inbox) \in Nat
  BY Received DEF Typed
<1>2. IsFiniteSet(DOMAIN inbox)
  BY <1>1, FS_Interval
<1>3. IsFiniteSet(E) /\ Cardinality(E) \in Nat
  BY <1>2, FS_Subset, FS_CardinalityType
<1>4. Cardinality(E) # 0
  BY <1>1, <1>3, FS_EmptySet
<1>5. generation + Cardinality(E) <= editor.edits
  BY DEF InboxInv
<1>6. generation \in Nat /\ editor.edits \in 0..MaxEdits /\ MaxEdits \in Nat
  BY Constants DEF Typed, WorkspaceOK, EditorOK
<1> HIDE DEF E
<1>7. QED
  BY <1>3, <1>4, <1>5, <1>6

\* An applied document notification is a step Edit; an ignored one is not seen.
LEMMA EditSteps ==
  ASSUME Holds, Edit
  PROVE  (\E u \in Uris : Contract!Edit(u)) \/ UNCHANGED Contract!vars
<1> USE DEF Holds, Serving
<1>1. PICK t \in Editing : Receive(t)
  BY EditEffect DEF Typed
<1>2. /\ UNCHANGED <<lifecycle, asked, answer, view>> /\ pc = "receive" /\ pc' = "write"
  BY <1>1, EditEffect DEF Typed, client, Act, Receive
<1>3. CASE UNCHANGED <<workspace, queue>>
  BY <1>2, <1>3, UnseenStutters DEF Seen, workspace
<1>4. CASE lifecycle = "running" /\ \E docs : Replaces(docs) /\ WorkspaceChanged(docs)
  <2>1. PICK docs : Replaces(docs) /\ WorkspaceChanged(docs)
    BY <1>4
  <2>2. documents' = docs /\ generation' = generation + 1
    BY <2>1 DEF WorkspaceChanged
  <2>3. PICK u \in Uris, d \in DocumentType :
            /\ docs = [documents EXCEPT ![u] = d] /\ d # documents[u]
            /\ d # Closed => d.generation = generation + 1
    BY <2>1 DEF Replaces
  <2>4. generation + 1 \in 1..MaxEdits
    BY <1>1, EditsBounded
  <2>5. d \in [version : 1..MaxVersion, path : UNION {Identity[v] : v \in Uris},
               generation : 1..MaxEdits] \cup {Closed}
    BY <2>3, <2>4 DEF DocumentType, Paths
  <2>6. Contract!Edit(u)
    BY <1>2, <1>4, <2>2, <2>3, <2>5 DEF Contract!Edit
  <2>7. QED
    BY <2>3, <2>6
<1>5. QED
  BY <1>3, <1>4, EditEffect DEF Typed

\* A written answer is a step Answer, truthful at that moment; a written publication is a step
\* Show, of the version that is open now.
LEMMA WriteSteps ==
  ASSUME Holds, Write
  PROVE  \/ \E id \in Ids : Contract!Answer(id)
         \/ \E u \in Uris : Contract!Show(u)
         \/ UNCHANGED Contract!vars
<1> USE DEF Holds, Serving
<1>1. /\ outbox # <<>> /\ pc = "write" /\ pc' = "write" /\ outbox[1] \in MessageType
      /\ 1 \in DOMAIN outbox /\ Len(outbox) \in Nat /\ DOMAIN outbox = 1..Len(outbox)
      /\ UNCHANGED <<lifecycle, documents, generation, asked>>
  BY WriteEffect DEF Typed, workspace
<1>2. CASE /\ Answers(1) /\ outbox[1].id \in Ids /\ view' = view
           /\ answer' = [answer EXCEPT ![outbox[1].id] =
                 Append(@, [kind |-> outbox[1].kind, basis |-> outbox[1].basis])]
  <2>1. PICK m : m = outbox[1]
    OBVIOUS
  <2>2. PICK id \in Ids : id = outbox[1].id
    BY <1>2
  <2>3. Due(id) /\ answer[id] = <<>> /\ asked[id].state # "no"
    BY <1>1, <1>2, <2>2 DEF Due, RequestInv
  <2>4. asked[id].state \in {"open", "revoked"}
    BY <2>3 DEF Typed, ClientOK
  <2>5. Contract!Waiting(id)
    BY <2>3, <2>4 DEF Contract!Waiting
  <2>6. TrueAnswer(m) /\ (m.kind = "shutdown" => Len(outbox) = 1) /\ m.kind \in Kinds /\ m.id = id
    BY <1>1, <1>2, <2>1, <2>2, MessageShape DEF AnswerInv, Answers
  <2>7. ASSUME m.kind = "shutdown", NEW other \in Ids \ {id}
        PROVE  ~Contract!Waiting(other)
    <3>1. controls = {}
      BY <2>6, <2>7 DEF TrueAnswer, QueueInv
    <3>2. ~Awaited(other)
      BY <3>1 DEF Awaited
    <3>3. ~Due(other)
      <4>1. Len(outbox) = 1
        BY <2>6, <2>7
      <4>2. \A i \in DOMAIN outbox : i = 1
        BY <1>1, <4>1
      <4>3. QED
        BY <2>2, <2>7, <4>2 DEF Due
    <3>4. asked[other].state # "no" => Len(answer[other]) = 1
      BY <3>2, <3>3 DEF RequestInv
    <3>5. Len(<<>>) = 0
      OBVIOUS
    <3>6. QED
      BY <3>4, <3>5 DEF Contract!Waiting
  <2>8. Contract!Truthful(id, m.kind)
    BY <1>1, <2>6, <2>7 DEF Contract!Truthful, TrueAnswer, Kinds
  <2>9. m.basis = IF m.kind = "ok" THEN documents ELSE NoDocuments
    BY <2>6 DEF TrueAnswer
  <2>10. answer' = [answer EXCEPT ![id] = <<[kind |-> m.kind,
                       basis |-> IF m.kind = "ok" THEN documents ELSE NoDocuments]>>]
    <3>1. answer' = [answer EXCEPT ![id] = Append(answer[id], [kind |-> m.kind,
          basis |-> m.basis])]
      BY <1>2, <2>1, <2>2
    <3>2. Append(answer[id], [kind |-> m.kind, basis |-> m.basis]) = <<[kind |-> m.kind,
          basis |-> m.basis]>>
      BY <2>3
    <3>3. QED
      BY <2>9, <3>1, <3>2
  <2>11. Contract!Answer(id)
    BY <1>1, <1>2, <2>5, <2>6, <2>8, <2>10 DEF Contract!Answer, Contract!NoDocuments, NoDocuments,
       Kinds
  <2>12. QED
    BY <2>11
<1>3. CASE UNCHANGED <<answer, view>>
  BY <1>1, <1>3, UnseenStutters DEF Seen
<1>4. CASE /\ outbox[1].type = "publish" /\ answer' = answer
           /\ view' = [view EXCEPT ![outbox[1].uri] =
                 [version |-> outbox[1].version, diagnostics |-> outbox[1].diagnostics]]
  <2>1. PICK m : m = outbox[1]
    OBVIOUS
  <2>2. m.uri \in Uris /\ m.diagnostics \in Diagnostics
    BY <1>1, <1>4, <2>1, MessageShape
  <2>3. lifecycle = "running" /\ m.version = documents[m.uri].version
    BY <1>1, <1>4, <2>1 DEF ViewInv
  <2>4. Contract!Show(m.uri)
    BY <1>1, <1>4, <2>1, <2>2, <2>3 DEF Contract!Show
  <2>5. QED
    BY <2>2, <2>4
<1>5. QED
  BY <1>2, <1>3, <1>4, WriteEffect DEF Typed, client

\* Every step of the server is a step of the contract or is not seen by it.
LEMMA Contracted ==
  ASSUME IInv, Next
  PROVE  Contract!Next \/ UNCHANGED Contract!vars
<1>1. pc # "ended"
  BY DEF Next, Editor, ReadRequest, ReadEdit, ReadCancel, ReadLast, Read, Coordinate, Handle,
     Initialize,
     Refuse, QueueRequest, RefuseRequest, Shutdown, CancelRequest, DidOpen, DidChange, DidClose,
     ExitNotification, ParseError, EndOfInput, InputFailure, CompleteRequest, CompleteDiagnostics,
     Receive, Write, Proceed, Leave, Written, WriteFails, Work, WorkerTakes, WorkerPrepares,
       WorkerAnalyses
<1>2. Holds /\ InboxOK /\ Typed
  BY <1>1 DEF IInv, Holds, Typed
<1>3. CASE Editor
  <2>1. UNCHANGED Seen /\ pc' = pc
    BY <1>2, <1>3, ReaderEffect DEF Typed, Seen, workspace, coordinator, client
  <2>2. QED
    BY <1>1, <2>1, UnseenStutters
<1>4. CASE Handle
  <2>1. CASE Initialize \/ Refuse \/ RefuseRequest \/ (Shutdown /\ lifecycle # "running")
    <3>1. PICK t \in Asking, kind \in {"initialized", "refused"} : Receive(t)
          /\ AnswersNow(Event.id, kind)
      BY <1>2, <2>1, QuickSteps DEF Quick
    <3>2. /\ TakeUp(Event.id) /\ pc' = "write"
             /\ UNCHANGED <<documents, generation, answer, view>>
          /\ lifecycle' = lifecycle \/ (lifecycle = "waiting" /\ lifecycle' = "running")
      BY <3>1 DEF AnswersNow, Act, workspace, client
    <3>3. QED
      BY <1>2, <3>1, <3>2, AskSteps DEF Contract!Next
  <2>2. CASE QueueRequest \/ (Shutdown /\ lifecycle = "running")
    <3>1. PICK t \in Asking : Receive(t) /\ TakeUp(Event.id)
      BY <2>2 DEF QueueRequest, Shutdown, Asking
    <3>2. /\ pc' = "write" /\ UNCHANGED <<documents, generation, answer, view>>
          /\ lifecycle' = lifecycle \/ (lifecycle = "running" /\ lifecycle' = "shutdown")
      BY <2>2 DEF QueueRequest, Shutdown, Act, workspace, client
    <3>3. QED
      BY <1>2, <3>1, <3>2, AskSteps DEF Contract!Next
  <2>3. CASE CancelRequest
    BY <1>2, <2>3, RevokeSteps DEF Contract!Next
  <2>4. CASE Edit
    BY <1>2, <2>4, EditSteps DEF Contract!Next
  <2>5. CASE ExitNotification \/ ParseError
    <3>1. UNCHANGED Seen /\ pc' = "write"
      BY <2>5 DEF ExitNotification, ParseError, Act, Seen, workspace, client
    <3>2. QED
      BY <1>1, <3>1, UnseenStutters
  <2>6. CASE CompleteRequest \/ CompleteDiagnostics
    <3>1. UNCHANGED Seen
      BY <2>6 DEF CompleteRequest, CompleteDiagnostics, Seen, workspace, client
    <3>2. pc' = "write"
      BY <2>6 DEF CompleteRequest, CompleteDiagnostics, Act
    <3>3. QED
      BY <1>1, <3>1, <3>2, UnseenStutters
  <2>7. CASE EndOfInput \/ InputFailure
    <3>1. UNCHANGED <<documents, generation, asked, answer, view, lifecycle>> /\ pc' = "ended"
      BY <2>7 DEF EndOfInput, InputFailure, End, workspace, client
    <3>2. lifecycle # "gone"
      BY <1>2 DEF Typed, ControlOK
    <3>3. Contract!Leave
      BY <1>1, <3>1, <3>2 DEF Contract!Leave
    <3>4. QED
      BY <3>3 DEF Contract!Next
  <2>8. QED
    BY <1>4, <2>1, <2>2, <2>3, <2>4, <2>5, <2>6, <2>7 DEF Handle, Edit
<1>5. CASE Write
  BY <1>2, <1>5, WriteSteps DEF Contract!Next
<1>6. CASE Proceed
  <2>1. UNCHANGED Seen /\ pc' = "receive"
    BY <1>6 DEF Proceed, Seen, workspace, client
  <2>2. QED
    BY <1>1, <2>1, UnseenStutters
<1>7. CASE Leave \/ WriteFails
  <2>1. UNCHANGED <<documents, generation, asked, answer, view, lifecycle>> /\ pc' = "ended"
    BY <1>7 DEF Leave, WriteFails, End, workspace, client
  <2>2. lifecycle # "gone"
    BY <1>2 DEF Typed, ControlOK
  <2>3. Contract!Leave
    BY <1>1, <2>1, <2>2 DEF Contract!Leave
  <2>4. QED
    BY <2>3 DEF Contract!Next
<1>8. CASE Work
  <2>1. UNCHANGED Seen /\ pc' = pc
    BY <1>8 DEF Work, WorkerTakes, WorkerPrepares, WorkerAnalyses, Sends, Seen, workspace,
       coordinator, client
  <2>2. QED
    BY <1>1, <2>1, UnseenStutters
<1>9. QED
  BY <1>3, <1>4, <1>5, <1>6, <1>7, <1>8 DEF Next, Coordinate

\* The language server implements LanguageContract: one truthful answer per request, results and
\* diagnostics of the current documents only, nothing after shutdown but cancellations and
\* refusals.
THEOREM ContractKept == Spec => KeepsContract
<1>1. Init => Contract!Init
  BY DEF Init, Contract!Init, Contract!NoDocuments, NoDocuments, Contract!NoView, NoView
<1>2. IInv /\ [Next]_vars => [Contract!Next]_(Contract!vars)
  <2>1. SUFFICES ASSUME IInv, [Next]_vars
                 PROVE  Contract!Next \/ UNCHANGED Contract!vars
    OBVIOUS
  <2>2. CASE Next
    BY <2>1, <2>2, Contracted
  <2>3. CASE UNCHANGED vars
    BY <2>3 DEF vars, workspace, coordinator, client, Contract!vars
  <2>4. QED
    BY <2>1, <2>2, <2>3
<1>3. QED
  BY <1>1, <1>2, Invariance, PTL DEF Spec, KeepsContract, Contract!Spec
=============================================================================
