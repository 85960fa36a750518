-------------------------- MODULE LanguageServer --------------------------
(***************************************************************************)
(* The language server of opaal-lsp (server.rs, with the workspace of      *)
(* workspace.rs and the request barrier of query.rs): a reader thread that *)
(* turns input into events, a coordinator that owns the documents and      *)
(* writes every message, and one analysis worker fed through a channel of  *)
(* capacity one.  The three share only the channels and the two flags of   *)
(* each RequestControl.                                                    *)
(*                                                                         *)
(* The coordinator takes one event, computes its output, writes it message *)
(* by message (a write may fail) and only then starts the next job; the    *)
(* worker and the reader run meanwhile.  Analysis itself is a choice of    *)
(* outcome: result, failure, or "cancelled" when a flag is up.             *)
(***************************************************************************)
EXTENDS Integers, Sequences, FiniteSets, SequencesExt

CONSTANTS
    Uris,         \* document URIs
    Identity,     \* Uris -> set of module paths a URI may resolve to
    Ids,          \* request ids 1..n, used in this order and once each
    Methods,      \* kinds of request the editor sends
    Endings,      \* ways its input may end
    Diagnostics,  \* sets of diagnostics one document may have; {} is one
    MaxVersion,   \* bound: document versions 1..MaxVersion
    MaxEdits,     \* bound: open, change and close notifications
    MaxCancels,   \* bound: $/cancelRequest notifications
    MaxInbox      \* bound: events the reader runs ahead of the coordinator

ASSUME ServerAssumption ==
    /\ IsFiniteSet(Uris) /\ DOMAIN Identity = Uris
    /\ IsFiniteSet(Ids) /\ Ids = 1..Cardinality(Ids)
    /\ {} \in Diagnostics
    /\ Methods \subseteq {"initialize", "shutdown", "request", "refused"}
    /\ Endings \subseteq {"exit", "eof", "failure", "garbage"}
    /\ MaxVersion \in Nat /\ MaxEdits \in Nat /\ MaxCancels \in Nat /\ MaxInbox \in Nat \ {0}

VARIABLES
    lifecycle,    \* "waiting", "running", "shutdown"
    documents,    \* Uris -> OpenDocument or Closed (Workspace.documents, owners)
    generation,   \* Workspace.generation
    published,    \* Uris -> PublishedDocument or Absent
    pending,      \* set of queued jobs; the queue's order is that of serials
    controls,     \* set of tracked controls, in the same order
    worker_busy,
    next_serial,
    cancelled,    \* serials whose RequestControl.cancelled is set
    invalidated,  \* serials whose RequestControl.invalidated is set
    inbox,        \* the event channel
    slot,         \* the job channel: at most one job
    work,         \* the worker: NoWork, or the job and whether it was refused
    pc,           \* the coordinator: "receive", "write", "ended"
    outbox,       \* messages computed and not yet written
    after,        \* what follows the writes: "start", "receive", or an exit
    exit,         \* "none", or how run returned
    editor,       \* the editor's budget: [id, edits, cancels, open]
    asked,        \* history: Ids -> [state, edits] when taken up
    answer,       \* the answers the editor has read
    view,         \* the diagnostics the editor shows
    analysed      \* history: [published, failed], generations

workspace == <<documents, generation, published>>
queue == <<pending, controls, next_serial, cancelled, invalidated>>
worker == <<worker_busy, slot, work>>
coordinator == <<pc, outbox, after, exit>>
client == <<answer, view>>
vars == <<lifecycle, workspace, queue, worker, inbox, coordinator, editor, asked, client, analysed>>

-----------------------------------------------------------------------------
NoPath == "no path"
NoId == 0
Closed == [version |-> 0, path |-> NoPath, generation |-> 0]
IsOpen(u) == documents[u] # Closed
NoDocuments == [u \in Uris |-> Closed]
Absent == [present |-> FALSE, version |-> 0, diagnostics |-> {}]
NoView == [version |-> 0, diagnostics |-> {}]
NoWork == [busy |-> FALSE, refused |-> FALSE]

\* Jobs: a diagnostics job has no request id.  A snapshot is the documents
\* and their generation, cloned when the job is queued.
Job(serial, id, docs, gen) ==
    [serial |-> serial, id |-> id, snapshot |-> [documents |-> docs, generation |-> gen]]
IsDiagnostics(job) == job.id = NoId
Control(serial, id) == [serial |-> serial, id |-> id]
Serials(set) == {x.serial : x \in set}
Oldest(set) == CHOOSE x \in set : \A y \in set : x.serial <= y.serial
IsCancelled(serial) == serial \in cancelled \cup invalidated

\* Messages to the editor.
Response(id, kind, basis) ==
    [type |-> "response", id |-> id, kind |-> kind, basis |-> basis]
Reply(id, kind) == Response(id, kind, NoDocuments)
PublishDiagnostics(u, version, diagnostics) ==
    [type |-> "publish", uri |-> u, version |-> version, diagnostics |-> diagnostics]

Init ==
    /\ lifecycle = "waiting"
    /\ documents = NoDocuments /\ generation = 0
    /\ published = [u \in Uris |-> Absent]
    /\ pending = {} /\ controls = {} /\ next_serial = 0
    /\ cancelled = {} /\ invalidated = {}
    /\ worker_busy = FALSE /\ slot = <<>> /\ work = NoWork
    /\ inbox = <<>>
    /\ pc = "receive" /\ outbox = <<>> /\ after = "receive" /\ exit = "none"
    /\ editor = [id |-> 1, edits |-> 0, cancels |-> 0, open |-> TRUE]
    /\ asked = [id \in Ids |-> [state |-> "no", edits |-> 0]]
    /\ answer = [id \in Ids |-> <<>>]
    /\ view = [u \in Uris |-> NoView]
    /\ analysed = [published |-> 0, failed |-> 0]

-----------------------------------------------------------------------------
(* The reader: every frame of the input becomes one event.                 *)

Requests ==
    [type : Methods, id : {editor.id}]
Edits ==
    [type : {"open"}, uri : Uris, version : 1..MaxVersion]
        \cup [type : {"change"}, uri : Uris, version : 0..MaxVersion]
        \cup [type : {"close"}, uri : Uris, version : {0}]
Cancels == [type : {"cancel"}, id : Ids]

Read(event, used) ==
    /\ pc # "ended" /\ editor.open
    /\ Len(inbox) < MaxInbox
    /\ inbox' = Append(inbox, event)
    /\ editor' = used
    /\ UNCHANGED <<lifecycle, workspace, queue, worker, coordinator, asked, client, analysed>>

ReadRequest ==
    /\ editor.id \in Ids
    /\ \E event \in Requests : Read(event, [editor EXCEPT !.id = @ + 1])
ReadEdit ==
    /\ editor.edits < MaxEdits
    /\ \E event \in Edits : Read(event, [editor EXCEPT !.edits = @ + 1])
ReadCancel ==
    /\ editor.cancels < MaxCancels
    /\ \E event \in Cancels : Read(event, [editor EXCEPT !.cancels = @ + 1])

\* The input ends for the server: with an exit notification, between frames,
\* inside a frame, or with a frame that is not JSON (which ends nothing, but
\* is read once here).
ReadLast ==
    \E type \in Endings :
        Read([type |-> type], [editor EXCEPT !.open = FALSE])

-----------------------------------------------------------------------------
(* The coordinator takes an event.                                         *)

Event == Head(inbox)
Receive(type) ==
    /\ pc = "receive" /\ inbox # <<>> /\ Event.type = type
    /\ inbox' = Tail(inbox)

Act(output, next) ==
    /\ pc' = "write" /\ outbox' = output /\ after' = next
    /\ UNCHANGED <<exit>>

TakeUp(id) == asked' = [asked EXCEPT ![id] = [state |-> "open", edits |-> generation]]

\* An initialize request.  Bad parameters, or a manifest that cannot be
\* selected, leave the server waiting.
Initialize ==
    /\ Receive("initialize")
    /\ TakeUp(Event.id)
    /\ \/ /\ lifecycle = "waiting"
          /\ lifecycle' = "running"
          /\ Act(<<Reply(Event.id, "initialized")>>, "start")
       \/ /\ UNCHANGED lifecycle
          /\ Act(<<Reply(Event.id, "refused")>>, "start")
    /\ UNCHANGED <<workspace, queue, worker, editor, client, analysed>>

\* A request of an unknown or misused method, or an invalid message.
Refuse ==
    /\ Receive("refused")
    /\ TakeUp(Event.id)
    /\ Act(<<Reply(Event.id, "refused")>>, "start")
    /\ UNCHANGED <<lifecycle, workspace, queue, worker, editor, client, analysed>>

QueueRequest ==
    /\ Receive("request") /\ lifecycle = "running"
    /\ TakeUp(Event.id)
    /\ controls' = controls \cup {Control(next_serial, Event.id)}
    /\ pending' = pending \cup {Job(next_serial, Event.id, documents, generation)}
    /\ next_serial' = next_serial + 1
    /\ Act(<<>>, "start")
    /\ UNCHANGED <<lifecycle, workspace, worker, cancelled, invalidated, editor, client, analysed>>

RefuseRequest ==
    /\ Receive("request") /\ lifecycle # "running"
    /\ TakeUp(Event.id)
    /\ Act(<<Reply(Event.id, "refused")>>, "start")
    /\ UNCHANGED <<lifecycle, workspace, queue, worker, editor, client, analysed>>

\* cancel_pending_requests: every tracked control is cancelled, every tracked
\* request answered in queue order, and the queue cleared; then the shutdown
\* itself is answered.
InOrder(set) ==
    CHOOSE s \in [1..Cardinality(set) -> set] :
        \A i, j \in DOMAIN s : i < j => s[i].serial < s[j].serial
CancelPendingRequests ==
    LET requests == InOrder({c \in controls : c.id # NoId})
    IN  [i \in DOMAIN requests |-> Reply(requests[i].id, "cancelled")]

Shutdown ==
    /\ Receive("shutdown")
    /\ TakeUp(Event.id)
    /\ IF lifecycle = "running"
       THEN /\ lifecycle' = "shutdown"
            /\ cancelled' = cancelled \cup Serials(controls)
            /\ controls' = {} /\ pending' = {}
            /\ Act(Append(CancelPendingRequests, Reply(Event.id, "shutdown")), "start")
       ELSE /\ Act(<<Reply(Event.id, "refused")>>, "start")
            /\ UNCHANGED <<lifecycle, cancelled, controls, pending>>
    /\ UNCHANGED <<workspace, next_serial, invalidated, worker, editor, client, analysed>>

\* $/cancelRequest is taken in every phase and never answered.
CancelRequest ==
    /\ Receive("cancel")
    /\ LET tracked == {c \in controls : c.id = Event.id}
       IN  /\ cancelled' = cancelled \cup Serials(tracked)
           /\ asked' = [asked EXCEPT ![Event.id].state =
                            IF tracked # {} THEN "revoked" ELSE @]
    /\ Act(<<>>, "start")
    /\ UNCHANGED <<lifecycle, workspace, pending, controls, next_serial, invalidated, worker,
                   editor, client, analysed>>

-----------------------------------------------------------------------------
(* Document notifications: the workspace changes, every tracked job is     *)
(* invalidated, the queued diagnostics job is replaced by a new one.       *)

(* Mutant: the replaced diagnostics job stays queued, without its control. *)
WorkspaceChanged_KeepsJobs(docs) ==
    LET dropped == {job \in pending : IsDiagnostics(job)}
    IN  /\ documents' = docs
        /\ generation' = generation + 1
        /\ invalidated' = invalidated \cup Serials(controls)
        /\ controls' = {c \in controls : c.serial \notin Serials(dropped)}
                           \cup {Control(next_serial, NoId)}
        /\ pending' = pending
                           \cup {Job(next_serial, NoId, docs, generation + 1)}
        /\ next_serial' = next_serial + 1
        /\ UNCHANGED <<published, cancelled>>

(* Mutant: the old diagnostics job is dropped and no new one queued. *)
WorkspaceChanged_Unqueued(docs) ==
    LET dropped == {job \in pending : IsDiagnostics(job)}
    IN  /\ documents' = docs
        /\ generation' = generation + 1
        /\ invalidated' = invalidated \cup Serials(controls)
        /\ controls' = {c \in controls : c.serial \notin Serials(dropped)}
        /\ pending' = (pending \ dropped)
        /\ next_serial' = next_serial
        /\ UNCHANGED <<published, cancelled>>

(* Mutant: the snapshot is taken before the generation moves on. *)
WorkspaceChanged_OldSnapshot(docs) ==
    LET dropped == {job \in pending : IsDiagnostics(job)}
    IN  /\ documents' = docs
        /\ generation' = generation + 1
        /\ invalidated' = invalidated \cup Serials(controls)
        /\ controls' = {c \in controls : c.serial \notin Serials(dropped)}
                           \cup {Control(next_serial, NoId)}
        /\ pending' = (pending \ dropped)
                           \cup {Job(next_serial, NoId, docs, generation)}
        /\ next_serial' = next_serial + 1
        /\ UNCHANGED <<published, cancelled>>

WorkspaceChanged(docs) ==
    LET dropped == {job \in pending : IsDiagnostics(job)}
    IN  /\ documents' = docs
        /\ generation' = generation + 1
        /\ invalidated' = invalidated \cup Serials(controls)
        /\ controls' = {c \in controls : c.serial \notin Serials(dropped)}
                           \cup {Control(next_serial, NoId)}
        /\ pending' = (pending \ dropped)
                           \cup {Job(next_serial, NoId, docs, generation + 1)}
        /\ next_serial' = next_serial + 1
        /\ UNCHANGED <<published, cancelled>>

IgnoreEdit == UNCHANGED <<workspace, queue>>

\* The identity of a path is resolved when the document is opened; a module
\* another document owns cannot be opened again.
DidOpen ==
    /\ Receive("open")
    /\ \E path \in Identity[Event.uri] :
           IF /\ lifecycle = "running"
              /\ ~IsOpen(Event.uri)
              /\ \A u \in Uris : documents[u].path # path
           THEN WorkspaceChanged([documents EXCEPT ![Event.uri] =
                    [version |-> Event.version, path |-> path, generation |-> generation + 1]])
           ELSE IgnoreEdit
    /\ Act(<<>>, "start")
    /\ UNCHANGED <<lifecycle, worker, editor, asked, client, analysed>>

\* Only a version above the document's own is applied; 0 is a missing one.
DidChange ==
    /\ Receive("change")
    /\ IF lifecycle = "running" /\ IsOpen(Event.uri) /\ Event.version > documents[Event.uri].version
       THEN WorkspaceChanged([documents EXCEPT ![Event.uri] =
                [@ EXCEPT !.version = Event.version, !.generation = generation + 1]])
       ELSE IgnoreEdit
    /\ Act(<<>>, "start")
    /\ UNCHANGED <<lifecycle, worker, editor, asked, client, analysed>>

DidClose ==
    /\ Receive("close")
    /\ IF lifecycle = "running" /\ IsOpen(Event.uri)
       THEN WorkspaceChanged([documents EXCEPT ![Event.uri] = Closed])
       ELSE IgnoreEdit
    /\ Act(<<>>, "start")
    /\ UNCHANGED <<lifecycle, worker, editor, asked, client, analysed>>

-----------------------------------------------------------------------------
(* Ends and errors of the input.                                           *)

ExitNotification ==
    /\ Receive("exit")
    /\ Act(<<>>, IF lifecycle = "shutdown" THEN "success" ELSE "failure")
    /\ UNCHANGED <<lifecycle, workspace, queue, worker, editor, asked, client, analysed>>

\* A parse error is answered with a null id; no job is started after it.
ParseError ==
    /\ Receive("garbage")
    /\ Act(<<Reply(NoId, "refused")>>, "receive")
    /\ UNCHANGED <<lifecycle, workspace, queue, worker, editor, asked, client, analysed>>

End(how) ==
    /\ pc' = "ended" /\ exit' = how
    /\ UNCHANGED <<outbox, after>>

CancelAll ==
    /\ cancelled' = cancelled \cup Serials(controls)
    /\ controls' = {} /\ pending' = {}
    /\ UNCHANGED <<next_serial, invalidated>>

EndOfInput ==
    /\ Receive("eof")
    /\ CancelAll /\ End("failure")
    /\ UNCHANGED <<lifecycle, workspace, worker, editor, asked, client, analysed>>

InputFailure ==
    /\ Receive("failure")
    /\ End("error")
    /\ UNCHANGED <<lifecycle, workspace, queue, worker, editor, asked, client, analysed>>

-----------------------------------------------------------------------------
(* The coordinator takes a result of the worker.                           *)

Tracked(serial) == serial \in Serials(controls)
Untrack(serial) == controls' = {c \in controls : c.serial # serial}

(* Mutant: the answer is not held against cancellation. *)
Finish_Blind(result) ==
    IF result.generation # generation THEN Reply(result.id, "modified")
    ELSE IF result.outcome = "ok" THEN Response(result.id, "ok", result.basis)
    ELSE Reply(result.id, result.outcome)

\* PreparedResponse::finish: explicit cancellation first, then the generation.
Finish(result) ==
    IF result.serial \in cancelled THEN Reply(result.id, "cancelled")
    ELSE IF result.generation # generation THEN Reply(result.id, "modified")
    ELSE IF result.outcome = "ok" THEN Response(result.id, "ok", result.basis)
    ELSE Reply(result.id, result.outcome)

(* Mutant: a result whose control is gone is answered all the same. *)
CompleteRequest_Untracked ==
    /\ Receive("prepared")
    /\ worker_busy' = FALSE
    /\ Untrack(Event.serial)
    /\ Act(<<Finish(Event)>>, "start")
    /\ UNCHANGED <<lifecycle, workspace, pending, next_serial, cancelled, invalidated, slot, work,
                   editor, asked, client, analysed>>

(* Mutant: the worker is not marked free. *)
CompleteRequest_StaysBusy ==
    /\ Receive("prepared")
    /\ Untrack(Event.serial)
    /\ Act(IF Tracked(Event.serial) THEN <<Finish(Event)>> ELSE <<>>, "start")
    /\ UNCHANGED <<lifecycle, workspace, pending, next_serial, cancelled, invalidated, worker,
                   editor, asked, client, analysed>>

CompleteRequest ==
    /\ Receive("prepared")
    /\ worker_busy' = FALSE
    /\ Untrack(Event.serial)
    /\ Act(IF Tracked(Event.serial) THEN <<Finish(Event)>> ELSE <<>>, "start")
    /\ UNCHANGED <<lifecycle, workspace, pending, next_serial, cancelled, invalidated, slot, work,
                   editor, asked, client, analysed>>

(* Mutant: a document that is gone from the analysis is not cleared. *)
Changes_Forget(next) ==
    LET changed == SetToSeq({u \in Uris : next[u] # published[u] /\ next[u].present})
    IN  [i \in 1..Len(changed) |-> LET u == changed[i]
            IN  PublishDiagnostics(u, next[u].version, next[u].diagnostics)]

\* publish_diagnostics: one message per document that changed, a cleared one
\* for each that is no longer reported.
Changes(next) ==
    LET changed == SetToSeq({u \in Uris : next[u] # published[u]})
    IN  [i \in 1..Len(changed) |-> LET u == changed[i]
            IN  IF next[u].present
                THEN PublishDiagnostics(u, next[u].version, next[u].diagnostics)
                ELSE PublishDiagnostics(u, documents[u].version, {})]

Publishable(result) ==
    /\ Tracked(result.serial) /\ ~IsCancelled(result.serial)
    /\ ~result.none
    /\ result.generation = generation

CompleteDiagnostics ==
    /\ Receive("analysis")
    /\ worker_busy' = FALSE
    /\ Untrack(Event.serial)
    /\ IF Publishable(Event)
       THEN /\ published' = Event.documents
            /\ Act(Changes(Event.documents), "start")
            /\ analysed' = [analysed EXCEPT !.published = Event.generation]
       ELSE /\ Act(<<>>, "start")
            /\ analysed' = IF Event.none /\ Tracked(Event.serial) /\ ~IsCancelled(Event.serial)
                           THEN [analysed EXCEPT !.failed = Event.generation] ELSE analysed
            /\ UNCHANGED published
    /\ UNCHANGED <<lifecycle, documents, generation, pending, next_serial, cancelled, invalidated,
                   slot, work, editor, asked, client>>

-----------------------------------------------------------------------------
(* The coordinator writes what it computed, then starts the next job.      *)

Write ==
    /\ pc = "write" /\ outbox # <<>>
    /\ outbox' = Tail(outbox)
    /\ LET message == Head(outbox)
       IN  \/ /\ message.type = "response" /\ message.id # NoId
              /\ answer' = [answer EXCEPT ![message.id] =
                     Append(@, [kind |-> message.kind, basis |-> message.basis])]
              /\ UNCHANGED view
           \/ /\ message.type = "response" /\ message.id = NoId
              /\ UNCHANGED client
           \/ /\ message.type = "publish"
              /\ view' = [view EXCEPT ![message.uri] =
                     [version |-> message.version, diagnostics |-> message.diagnostics]]
              /\ UNCHANGED answer
    /\ UNCHANGED <<lifecycle, workspace, queue, worker, inbox, pc, after, exit, editor, asked, analysed>>

\* The editor no longer reads: run returns the error.
WriteFails ==
    /\ pc = "write" /\ outbox # <<>>
    /\ End("error")
    /\ UNCHANGED <<lifecycle, workspace, queue, worker, inbox, editor, asked, client, analysed>>

Written(next) == pc = "write" /\ outbox = <<>> /\ after = next

\* start_next: try_send of the oldest job, which goes back when the channel
\* is full.
StartNext ==
    IF worker_busy \/ pending = {} THEN UNCHANGED <<worker_busy, slot, pending>>
    ELSE LET job == Oldest(pending)
         IN  IF Len(slot) < 1
             THEN slot' = Append(slot, job) /\ worker_busy' = TRUE /\ pending' = pending \ {job}
             ELSE UNCHANGED <<worker_busy, slot, pending>>

Proceed ==
    /\ \/ Written("start") /\ StartNext
       \/ Written("receive") /\ UNCHANGED <<worker_busy, slot, pending>>
    /\ pc' = "receive"
    /\ UNCHANGED <<lifecycle, workspace, controls, next_serial, cancelled, invalidated, work, inbox,
                   outbox, after, exit, editor, asked, client, analysed>>

Leave ==
    /\ Written("success") \/ Written("failure")
    /\ CancelAll /\ End(after)
    /\ UNCHANGED <<lifecycle, workspace, worker, inbox, editor, asked, client, analysed>>

-----------------------------------------------------------------------------
(* The analysis worker.                                                    *)

\* recv, and for a request the first test of its control.
WorkerTakes ==
    /\ pc # "ended" /\ ~work.busy /\ slot # <<>>
    /\ LET job == Head(slot)
       IN  work' = [busy |-> TRUE, job |-> job,
                    refused |-> ~IsDiagnostics(job) /\ IsCancelled(job.serial)]
    /\ slot' = Tail(slot)
    /\ UNCHANGED <<lifecycle, workspace, queue, worker_busy, inbox, coordinator, editor, asked,
                   client, analysed>>

Sends(result) ==
    /\ inbox' = Append(inbox, result) /\ work' = NoWork
    /\ UNCHANGED <<lifecycle, workspace, queue, worker_busy, slot, coordinator, editor, asked,
                   client, analysed>>

\* prepare_request: the result, a budget or parameter error, or, once a flag
\* has been seen, RequestCancelled whichever flag it was.
WorkerPrepares ==
    /\ pc # "ended" /\ work.busy /\ ~IsDiagnostics(work.job)
    /\ \E outcome \in {"ok", "failed", "cancelled"} :
           /\ work.refused => outcome = "cancelled"
           /\ outcome = "cancelled" => IsCancelled(work.job.serial)
           /\ Sends([type |-> "prepared", serial |-> work.job.serial, id |-> work.job.id,
                     generation |-> work.job.snapshot.generation,
                     basis |-> work.job.snapshot.documents, outcome |-> outcome])

\* The documents of an analysis: every open one, and any other module a
\* diagnostic fell in, with the version of the snapshot.
Analyses(snapshot) ==
    {next \in [Uris -> {Absent} \cup [present : {TRUE}, version : 0..MaxVersion,
                                      diagnostics : Diagnostics]] :
        \A u \in Uris :
            /\ snapshot.documents[u] # Closed => next[u].present
            /\ next[u].present => next[u].version = snapshot.documents[u].version}

\* analyze_diagnostics_controlled: a complete analysis, or nothing (a flag
\* was seen, or a position could not be projected).
WorkerAnalyses ==
    /\ pc # "ended" /\ work.busy /\ IsDiagnostics(work.job)
    /\ LET snapshot == work.job.snapshot
           result(none, docs) == [type |-> "analysis", serial |-> work.job.serial,
               generation |-> snapshot.generation, none |-> none, documents |-> docs]
       IN  \/ \E docs \in Analyses(snapshot) : Sends(result(FALSE, docs))
           \/ Sends(result(TRUE, [u \in Uris |-> Absent]))

-----------------------------------------------------------------------------
Handle ==
    \/ Initialize \/ Refuse \/ QueueRequest \/ RefuseRequest \/ Shutdown \/ CancelRequest
    \/ DidOpen \/ DidChange \/ DidClose
    \/ ExitNotification \/ ParseError \/ EndOfInput \/ InputFailure
    \/ CompleteRequest \/ CompleteDiagnostics
Coordinate == Handle \/ Write \/ Proceed \/ Leave
Work == WorkerTakes \/ WorkerPrepares \/ WorkerAnalyses
Editor == ReadRequest \/ ReadEdit \/ ReadCancel \/ ReadLast

Next == Editor \/ Coordinate \/ WriteFails \/ Work

\* The coordinator and the worker are threads that run whenever they can, and
\* an analysis is bounded by its budget.  The editor promises nothing.
Spec == Init /\ [][Next]_vars /\ WF_vars(Coordinate) /\ WF_vars(Work)

-----------------------------------------------------------------------------
(* Properties.                                                             *)

TypeOK ==
    /\ lifecycle \in {"waiting", "running", "shutdown"}
    /\ documents \in [Uris -> {Closed} \cup [version : 1..MaxVersion,
                          path : UNION {Identity[u] : u \in Uris}, generation : 1..generation]]
    /\ generation \in Nat /\ next_serial \in Nat
    /\ \A u \in Uris : published[u].diagnostics \in Diagnostics /\ view[u].diagnostics \in Diagnostics
    /\ Serials(pending) \subseteq Serials(controls)
    /\ Serials(controls) \cup cancelled \cup invalidated \subseteq 0..(next_serial - 1)
    /\ worker_busy \in BOOLEAN /\ Len(slot) <= 1
    /\ pc \in {"receive", "write", "ended"}
    /\ after \in {"start", "receive", "success", "failure"}
    /\ exit \in {"none", "success", "failure", "error"} /\ (exit = "none" <=> pc # "ended")

Mine(id, seq) == {i \in DOMAIN seq : "id" \in DOMAIN seq[i] /\ seq[i].id = id}

\* No job is lost or duplicated between coordinator and worker: worker_busy is
\* true exactly while one job is in the channel, in the worker, or on its way
\* back as a result.  (start_next relies on it: a full channel is the only
\* other thing that keeps try_send from succeeding.)
OneJobOut ==
    LET back == Cardinality({i \in DOMAIN inbox : inbox[i].type \in {"prepared", "analysis"}})
        out == Len(slot) + (IF work.busy THEN 1 ELSE 0) + back
    IN  out = (IF worker_busy THEN 1 ELSE 0)

\* A request taken up and not yet answered is in exactly one place that leads
\* to its answer: tracked (and then its job is queued, running or finished),
\* or computed and about to be written.  And the worker has exactly the jobs
\* the coordinator believes it has.
RequestAccounted ==
    /\ OneJobOut
    /\ \A id \in Ids :
        LET tracked == {c \in controls : c.id = id}
            writing == Mine(id, outbox)
            job(serial) == \/ serial \in Serials(pending)
                           \/ \E i \in DOMAIN slot : slot[i].serial = serial
                           \/ work.busy /\ work.job.serial = serial
                           \/ \E i \in Mine(id, inbox) : inbox[i].type = "prepared"
                                                           /\ inbox[i].serial = serial
        IN  pc # "ended" =>
            /\ Cardinality(tracked) + Cardinality(writing) + Len(answer[id])
                   = (IF asked[id].state = "no" THEN 0 ELSE 1)
            /\ \A c \in tracked : job(c.serial)

\* Whenever the coordinator waits for an event, what the editor shows is what
\* the server believes it has published: publishing differences is exact, over
\* any history of opening, closing and cleared documents.
ViewIsPublished ==
    pc = "receive" =>
        \A u \in Uris :
            /\ view[u].diagnostics = published[u].diagnostics
            /\ published[u].present => view[u].version = published[u].version

\* A running server owes the newest documents an analysis until it has
\* published one or that analysis failed: a diagnostics job for the current
\* generation, not cancelled, is queued, running or returned.
NewestIsOwed ==
    LET due(job) == IsDiagnostics(job) /\ job.snapshot.generation = generation
                        /\ ~IsCancelled(job.serial)
    IN  (lifecycle = "running" /\ pc # "ended") =>
        \/ analysed.published = generation \/ analysed.failed = generation
        \/ \E job \in pending : due(job)
        \/ \E i \in DOMAIN slot : due(slot[i])
        \/ work.busy /\ due(work.job)
        \/ \E i \in DOMAIN inbox : inbox[i].type = "analysis" /\ inbox[i].generation = generation
                                       /\ ~IsCancelled(inbox[i].serial)

\* The server keeps the contract of LanguageContract: one truthful answer per
\* request, results and diagnostics of the current documents only, cancelled
\* requests never answered with a result, silence after shutdown.
Contract == INSTANCE LanguageContract WITH
    Documents <- [version : 1..MaxVersion, path : UNION {Identity[u] : u \in Uris},
                  generation : 1..MaxEdits],
    phase <- IF pc = "ended" THEN "gone" ELSE lifecycle,
    docs <- documents, edits <- generation
KeepsContract == Contract!Spec

\* Every request taken up is answered unless the server ends.
RequestsAnswered ==
    \A id \in Ids :
        asked[id].state # "no" ~> (answer[id] # <<>> \/ pc = "ended")

\* The editor ends up with the diagnostics of its last edit, unless it shuts
\* the server down or that analysis fails.
DiagnosticsSettle ==
    <>[](\/ lifecycle # "running" \/ pc = "ended"
         \/ analysed.published = generation \/ analysed.failed = generation)
=============================================================================
