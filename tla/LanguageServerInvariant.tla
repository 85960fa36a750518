---------------------- MODULE LanguageServerInvariant ----------------------
(***************************************************************************)
(* The inductive invariant of LanguageServer.  It follows each job from    *)
(* the queue through the worker back to the coordinator, and each request  *)
(* from the input to its answer.                                           *)
(***************************************************************************)
EXTENDS LanguageServer

(***************************************************************************)
(* Types.                                                                  *)
(***************************************************************************)
Paths == UNION {Identity[u] : u \in Uris}
DocumentType == {Closed} \cup [version : 1..MaxVersion, path : Paths, generation : Nat]
DocsType == [Uris -> DocumentType]
JobType == [serial : Nat, id : Ids \cup {NoId}, snapshot : [documents : DocsType, generation : Nat]]
PublishedType == {Absent} \cup [present : {TRUE}, version : 0..MaxVersion, diagnostics : Diagnostics]
AnalysisType == [Uris -> PublishedType]

Asking == {"initialize", "shutdown", "request", "refused"}
Editing == {"open", "change", "close"}
Returning == {"prepared", "analysis"}
EventType ==
    [type : Asking, id : Ids] \cup [type : {"cancel"}, id : Ids]
        \cup [type : {"open"}, uri : Uris, version : 1..MaxVersion]
        \cup [type : {"change", "close"}, uri : Uris, version : 0..MaxVersion]
        \cup [type : {"exit", "eof", "failure", "garbage"}]
        \cup [type : {"prepared"}, serial : Nat, id : Ids, generation : Nat, basis : DocsType,
              outcome : {"ok", "failed", "cancelled"}]
        \cup [type : {"analysis"}, serial : Nat, generation : Nat, none : BOOLEAN,
              documents : AnalysisType]
Kinds == {"ok", "failed", "modified", "cancelled", "initialized", "shutdown", "refused"}
MessageType ==
    [type : {"response"}, id : Ids \cup {NoId}, kind : Kinds, basis : DocsType]
        \cup [type : {"publish"}, uri : Uris, version : 0..MaxVersion, diagnostics : Diagnostics]

WorkspaceOK == /\ documents \in DocsType /\ generation \in Nat
               /\ \A u \in Uris : IsOpen(u) => documents[u].generation \in 1..generation
               /\ published \in AnalysisType
QueueOK == /\ pending \in SUBSET JobType /\ controls \in SUBSET [serial : Nat, id : Ids \cup {NoId}]
           /\ IsFiniteSet(controls)
           /\ next_serial \in Nat /\ cancelled \in SUBSET Nat /\ invalidated \in SUBSET Nat
WorkerOK == /\ worker_busy \in BOOLEAN /\ slot \in Seq(JobType)
            /\ work \in {NoWork} \cup [busy : {TRUE}, job : JobType, refused : BOOLEAN]
InboxOK == inbox \in Seq(EventType)
ControlOK == /\ lifecycle \in {"waiting", "running", "shutdown"}
             /\ pc \in {"receive", "write", "ended"}
             /\ after \in {"start", "receive", "success", "failure"}
             /\ exit \in {"none", "success", "failure", "error"} /\ (exit = "none" <=> pc # "ended")
OutboxOK == outbox \in Seq(MessageType)
EditorOK == editor \in [id : Nat, edits : 0..MaxEdits, cancels : Nat, open : BOOLEAN]
ClientOK == /\ asked \in [Ids -> [state : {"no", "open", "revoked"}, edits : Nat]]
            /\ answer \in [Ids -> Seq([kind : Kinds, basis : DocsType])]
            /\ view \in [Uris -> [version : 0..MaxVersion, diagnostics : Diagnostics]]
HistoryOK == analysed \in [published : Nat, failed : Nat]
Typed == /\ WorkspaceOK /\ QueueOK /\ WorkerOK /\ InboxOK /\ ControlOK /\ OutboxOK /\ EditorOK
         /\ ClientOK /\ HistoryOK

(***************************************************************************)
(* The queue: serials are used once, every queued job is tracked, and only *)
(* a running server tracks anything.                                       *)
(***************************************************************************)
Issued == 0..(next_serial - 1)
QueueInv ==
    /\ Serials(controls) \cup cancelled \cup invalidated \subseteq Issued
    /\ \A c, d \in controls : c.serial = d.serial => c = d
    /\ \A a, b \in pending : a.serial = b.serial => a = b
    /\ \A job \in pending : Control(job.serial, job.id) \in controls
    /\ lifecycle # "running" => controls = {}
    /\ lifecycle = "waiting" => generation = 0 /\ analysed.published = 0

(***************************************************************************)
(* The job that is out: in the channel, in the worker or on its way back.  *)
(***************************************************************************)
Returned == {i \in DOMAIN inbox : inbox[i].type \in Returning}
OutInv ==
    /\ slot # <<>> => worker_busy /\ ~work.busy /\ Returned = {} /\ Len(slot) = 1
    /\ work.busy => worker_busy /\ slot = <<>> /\ Returned = {}
    /\ Returned # {} => worker_busy /\ slot = <<>> /\ ~work.busy /\ \A i, j \in Returned : i = j
    /\ worker_busy => slot # <<>> \/ work.busy \/ Returned # {}

\* What is known of a job by its serial, id and generation: tracked under its
\* id, or cancelled; invalidated, while it is tracked, exactly if it is of an
\* earlier generation.
Known(serial, id, gen) ==
    /\ serial \in Issued /\ gen \in 0..generation
    /\ serial \in invalidated => gen # generation
    /\ (Tracked(serial) /\ gen # generation) => serial \in invalidated
    /\ \A c \in controls : c.serial = serial => c.id = id
    /\ Tracked(serial) \/ serial \in cancelled
    /\ (id # NoId /\ Tracked(serial)) => asked[id].edits = gen
Sound(job) ==
    /\ Known(job.serial, job.id, job.snapshot.generation)
    /\ job.snapshot.generation = generation => job.snapshot.documents = documents
Unqueued(serial) == serial \notin Serials(pending)
ResultSound(e) ==
    /\ Unqueued(e.serial)
    /\ e.type = "prepared" =>
           /\ Known(e.serial, e.id, e.generation)
           /\ e.generation = generation => e.basis = documents
           /\ e.outcome = "cancelled" => e.serial \in cancelled \cup invalidated
    /\ e.type = "analysis" =>
           /\ Known(e.serial, NoId, e.generation)
           /\ (e.generation = generation) =>
                  \A u \in Uris : e.documents[u].present => e.documents[u].version = documents[u].version
JobInv ==
    /\ \A job \in pending : Sound(job)
    /\ slot # <<>> => Sound(slot[1]) /\ Unqueued(slot[1].serial)
    /\ work.busy => /\ Sound(work.job) /\ Unqueued(work.job.serial)
                    /\ work.refused => IsCancelled(work.job.serial)
    /\ \A i \in Returned : ResultSound(inbox[i])

\* Where the job of a control is.
Placed(serial) ==
    \/ serial \in Serials(pending)
    \/ slot # <<>> /\ slot[1].serial = serial
    \/ work.busy /\ work.job.serial = serial
    \/ \E i \in Returned : inbox[i].serial = serial
PlaceInv == \A c \in controls : Placed(c.serial)

(***************************************************************************)
(* Requests.                                                               *)
(***************************************************************************)
\* What the editor has sent: requests in order and not taken up yet, and not
\* more edits than it has made.
InboxInv ==
    /\ \A i \in DOMAIN inbox : inbox[i].type \in Asking =>
           inbox[i].id < editor.id /\ asked[inbox[i].id].state = "no"
    /\ \A i, j \in DOMAIN inbox : (i < j /\ inbox[i].type \in Asking /\ inbox[j].type \in Asking)
           => inbox[i].id # inbox[j].id
    /\ \A id \in Ids : id >= editor.id => asked[id].state = "no"
    /\ generation + Cardinality({i \in DOMAIN inbox : inbox[i].type \in Editing}) <= editor.edits

\* Where a request is: tracked, about to be answered, answered.
Awaited(id) == \E c \in controls : c.id = id
Answers(i) == outbox[i].type = "response" /\ outbox[i].id # NoId
Due(id) == \E i \in DOMAIN outbox : Answers(i) /\ outbox[i].id = id
RequestInv ==
    /\ \A c, d \in controls : c.id = d.id /\ c.id # NoId => c = d
    /\ \A i, j \in DOMAIN outbox :
           (Answers(i) /\ Answers(j) /\ outbox[i].id = outbox[j].id) => i = j
    /\ \A id \in Ids :
           /\ asked[id].state = "no" => ~Awaited(id) /\ ~Due(id) /\ answer[id] = <<>>
           /\ asked[id].state # "no" => Awaited(id) \/ Due(id) \/ Len(answer[id]) = 1
           /\ Awaited(id) => ~Due(id) /\ answer[id] = <<>>
           /\ Due(id) => answer[id] = <<>>
    /\ \A c \in controls : c.id # NoId => (asked[c.id].state = "revoked" <=> c.serial \in cancelled)

(***************************************************************************)
(* Messages to be written are true while they are written.                 *)
(***************************************************************************)
TrueAnswer(m) ==
    LET revoked == asked[m.id].state = "revoked"
        current == asked[m.id].edits = generation
    IN  /\ m.kind \in {"ok", "failed"} => lifecycle = "running" /\ ~revoked /\ current
        /\ m.kind = "modified" => lifecycle = "running" /\ ~revoked /\ ~current
        /\ m.kind = "cancelled" => revoked \/ lifecycle = "shutdown"
        /\ m.kind = "initialized" => lifecycle = "running"
        /\ m.kind = "shutdown" => lifecycle = "shutdown"
        /\ m.kind = "refused" => ~revoked
        /\ m.basis = IF m.kind = "ok" THEN documents ELSE NoDocuments
AnswerInv ==
    \A i \in DOMAIN outbox : Answers(i) =>
        /\ TrueAnswer(outbox[i])
        /\ outbox[i].kind = "shutdown" => i = Len(outbox)

Shows(v, p) == v.diagnostics = p.diagnostics /\ (p.present => v.version = p.version)
Publishing(u) == \E i \in DOMAIN outbox : outbox[i].type = "publish" /\ outbox[i].uri = u
ViewInv ==
    /\ pc = "receive" => outbox = <<>>
    /\ \A i \in DOMAIN outbox : outbox[i].type = "publish" =>
           /\ lifecycle = "running" /\ outbox[i].version = documents[outbox[i].uri].version
           /\ Shows(outbox[i], published[outbox[i].uri])
    /\ \A u \in Uris : Publishing(u) \/ Shows(view[u], published[u])

\* Once the server has ended nothing moves, and only the first parts are needed.
Serving == /\ JobInv /\ PlaceInv /\ InboxInv /\ RequestInv /\ AnswerInv /\ ViewInv
           /\ NewestIsOwed
IInv == Typed /\ QueueInv /\ OutInv /\ (pc # "ended" => Serving)
=============================================================================
